---------------------------- MODULE StatementLog ----------------------------
(***************************************************************************)
(* The statements the reader and their agents send, from the command or the *)
(* tool that takes one to the line in the log: the ids a cancel goes by     *)
(* (app/query.rs, app/preview.rs), the time an agent's statement has        *)
(* (app/agent_queries.rs, app/estimate.rs), the statements an agent hands   *)
(* over (app/handoffs.rs) and the log (app/history.rs, db/history.rs).      *)
(*                                                                          *)
(* What a session does with a statement is in PgSession and BigQueryJob:    *)
(* here it answers at some time, or never.                                  *)
(***************************************************************************)
EXTENDS Naturals, Sequences, FiniteSets

CONSTANTS Calls,       \* bound: calls at once
          Ids,         \* ids the window makes up
          Connections,
          Keep,        \* KEEP
          Recent,      \* RECENT
          AtMost,      \* AT_MOST
          Within,      \* WITHIN, in ticks
          MaxRecords,  \* bound: ids of the log
          None

ASSUME StatementLogAssumption ==
    /\ {Keep, Recent, AtMost, Within} \subseteq Nat \ {0}
    /\ MaxRecords \in Nat /\ None \notin Calls \cup Ids

VARIABLES
    conns,      \* the rows there are
    history,    \* query_history: of each id in it, whose run it is
    count,      \* of each connection there is: runs recorded since ever
    call,       \* of each call: where it is, what it does, upon what
    running,    \* QueryRegistry: the call whose token is under each id
    cancelled,  \* tokens cancelled
    listening,  \* whether the window subscribed to handoffs
    handed,     \* Handed: how long ago each was counted, oldest first
    given       \* how long ago each of the last AtMost + 1 was handed over

asked == <<call, running, cancelled>>
log   == <<conns, history, count>>
hands == <<listening, handed, given>>
vars  == <<asked, log, hands>>

\* A statement is executed or explained, a page previewed or its cost asked.
Reader == {"statement", "page", "estimate"}
Agent  == {"run", "scan", "hand"}

\* Those that register, those that are logged, those an agent waits for so long.
Registers == {"statement", "page"}
Logged    == {"statement", "run", "hand"}

\* Mutant: only statements that run are given a time.
TimedRuns == {"run"}

Timed == {"run", "scan"}

Idle == [pc |-> "idle", kind |-> None, conn |-> None, id |-> None]

TypeOK ==
    /\ conns \subseteq Connections
    /\ DOMAIN history \subseteq 1..MaxRecords
    /\ \A i \in DOMAIN history : history[i] \in [conn : conns, nth : Nat]
    /\ count \in [Connections -> Nat]
    /\ \A c \in Calls : call[c] = Idle \/ call[c] \in
         [pc : {"register", "session", "work", "record", "find", "hand"},
          kind : Reader \cup Agent, conn : Connections, id : Ids \cup {None}]
    /\ running \in [Ids -> Calls \cup {None}] /\ cancelled \subseteq Calls
    /\ listening \in BOOLEAN
    /\ handed \in Seq(0..Within) /\ Len(handed) <= AtMost
    /\ given \in Seq(0..Within) /\ Len(given) <= AtMost + 1
    /\ \A i \in Ids : running[i] # None => call[running[i]].id = i

Init ==
    /\ conns = Connections /\ history = <<>> /\ count = [x \in Connections |-> 0]
    /\ call = [c \in Calls |-> Idle]
    /\ running = [i \in Ids |-> None] /\ cancelled = {}
    /\ listening = FALSE /\ handed = <<>> /\ given = <<>>

Goes(c, to) == call' = [call EXCEPT ![c].pc = to]

-----------------------------------------------------------------------------
(* The ids a cancel goes by *)

\* The window's commands. Each makes up an id for what it may have to cancel.
ReaderAsks(c) ==
    /\ call[c] = Idle
    /\ \E k \in Reader, x \in Connections, i \in Ids :
         call' = [call EXCEPT ![c] =
           IF k \in Registers THEN [pc |-> "register", kind |-> k, conn |-> x, id |-> i]
           ELSE [pc |-> "session", kind |-> k, conn |-> x, id |-> None]]
    /\ UNCHANGED <<running, cancelled, log, hands>>

\* Mutant: a call that was refused forgets the id all the same.
RefusedForgetting(c) == running' = [running EXCEPT ![call[c].id] = None]

\* An id already running is rejected: nothing of the other is touched.
Refused(c) == UNCHANGED running

Register(c) ==
    /\ call[c].pc = "register"
    /\ LET i == call[c].id
       IN  IF running[i] # None
           THEN Refused(c) /\ call' = [call EXCEPT ![c] = Idle]
           ELSE running' = [running EXCEPT ![i] = c] /\ Goes(c, "session")
    /\ UNCHANGED <<cancelled, log, hands>>

\* A cancel finds the token under the id, or nothing.
Cancel(i) ==
    /\ running[i] # None /\ cancelled' = cancelled \cup {running[i]}
    /\ UNCHANGED <<call, running, log, hands>>

\* Mutant: the id outlives a call that failed to open its session.
OverKept(c) ==
    /\ call' = [call EXCEPT ![c] = Idle] /\ cancelled' = cancelled \ {c}
    /\ running' = [i \in Ids |-> IF call[c].id = i /\ call[c].pc # "session" THEN None ELSE running[i]]

\* The call is over: dropping its registration forgets the id.
Over(c) ==
    /\ call' = [call EXCEPT ![c] = Idle]
    /\ running' = [i \in Ids |-> IF call[c].id = i THEN None ELSE running[i]]
    /\ cancelled' = cancelled \ {c}

-----------------------------------------------------------------------------
(* Running it *)

\* The agents' tools: run_query, explain_query, estimate_query and
\* open_in_editor.
AgentAsks(c) ==
    /\ call[c] = Idle
    /\ \E k \in Agent, x \in Connections :
         call' = [call EXCEPT ![c] =
           [pc |-> IF k = "hand" THEN "find" ELSE "session", kind |-> k, conn |-> x, id |-> None]]
    /\ UNCHANGED <<running, cancelled, log, hands>>

\* Whatever opening it says, it says before anything ran. A statement that
\* cannot be explained is refused here too.
Session(c) ==
    /\ call[c].pc = "session"
    /\ \/ call[c].conn \in conns /\ Goes(c, "work") /\ UNCHANGED <<running, cancelled>>
       \/ Over(c)
    /\ UNCHANGED <<log, hands>>

Ran(c) ==
    IF call[c].kind \in Logged THEN Goes(c, "record") /\ UNCHANGED <<running, cancelled>>
    ELSE Over(c)

\* The server answers, or refuses.
Answered(c) == call[c].pc = "work" /\ Ran(c) /\ UNCHANGED <<log, hands>>

\* The session hears the cancel.
Interrupted(c) ==
    /\ call[c].pc = "work" /\ c \in cancelled /\ Ran(c) /\ UNCHANGED <<log, hands>>

\* An agent's time is up, and its session is dropped with what is on the wire.
TimedOut(c) ==
    /\ call[c].pc = "work" /\ call[c].kind \in Timed /\ Ran(c) /\ UNCHANGED <<log, hands>>

\* The agents' server stops, and its calls with it: what had begun is not logged.
CutOff(c) ==
    /\ call[c].kind \in Agent /\ Over(c) /\ UNCHANGED <<log, hands>>

-----------------------------------------------------------------------------
(* The log *)

\* The runs of a connection that are no more than so many from its last: ORDER BY id
\* DESC LIMIT, which both what is pruned and what is listed go by.
Of(rows, x) == {i \in DOMAIN rows : rows[i].conn = x}

Newest(rows, x, limit) == {i \in Of(rows, x) : Cardinality({j \in Of(rows, x) : j > i}) < limit}

\* Mutant: the newest are kept of all connections together.
PrunedTogether(rows, x) ==
    [i \in {j \in DOMAIN rows : Cardinality({k \in DOMAIN rows : k > j}) < Keep} |-> rows[i]]

\* Of this connection only the newest are kept.
Pruned(rows, x) ==
    [i \in (DOMAIN rows \ Of(rows, x)) \cup Newest(rows, x, Keep) |-> rows[i]]

\* INTEGER PRIMARY KEY: one more than the greatest id there is, which may be one that
\* a deleted connection's run had.
NextId(id) == (\A i \in DOMAIN history : i < id) /\ (id = 1 \/ id - 1 \in DOMAIN history)

\* One transaction: the entry, and the pruning. A write that fails is ignored,
\* as is one for a connection that is gone.
Record(c) ==
    /\ call[c].pc = "record" /\ Over(c)
    /\ LET x == call[c].conn
       IN  \/ /\ x \in conns
              /\ count' = [count EXCEPT ![x] = @ + 1]
              /\ \E id \in 1..MaxRecords :
                   /\ NextId(id)
                   /\ history' = Pruned([i \in DOMAIN history \cup {id} |->
                        IF i = id THEN [conn |-> x, nth |-> count[x] + 1] ELSE history[i]], x)
           \/ UNCHANGED <<history, count>>
    /\ UNCHANGED <<conns, hands>>

\* What the palette and the query_history tool list: the runs, by their number.
Listed(x, limit) == {history[i].nth : i \in Newest(history, x, limit)}

\* A connection that is deleted takes its history with it.
Delete(x) ==
    /\ x \in conns /\ conns' = conns \ {x}
    /\ history' = [i \in DOMAIN history \ Of(history, x) |-> history[i]]
    /\ count' = [count EXCEPT ![x] = 0]
    /\ UNCHANGED <<asked, hands>>

-----------------------------------------------------------------------------
(* Handing a statement to the reader *)

Find(c) ==
    /\ call[c].pc = "find"
    /\ IF call[c].conn \in conns THEN Goes(c, "hand") /\ UNCHANGED <<running, cancelled>> ELSE Over(c)
    /\ UNCHANGED <<log, hands>>

\* Mutant: a time is forgotten only after its last tick.
StillAfter(age) == age <= Within

\* Whether a handoff is still inside `WITHIN`.
Still(age) == age < Within

\* The oldest are popped up to one that is still inside.
Forgets == LET kept == {n \in 0..Len(handed) : n < Len(handed) => Still(handed[n + 1])}
           IN  CHOOSE n \in kept : \A o \in kept : n <= o

Left   == SubSeq(handed, Forgets + 1, Len(handed))
Admits == Len(Left) < AtMost

\* Nobody to receive it is said before it is counted.
Hand(c) ==
    /\ call[c].pc = "hand"
    /\ \/ /\ ~listening /\ Over(c) /\ UNCHANGED <<handed, given>>
       \/ /\ listening /\ ~Admits /\ Over(c) /\ handed' = Left /\ UNCHANGED given
       \/ /\ listening /\ Admits
          /\ handed' = Append(Left, 0)
          /\ given' = Append(IF Len(given) > AtMost THEN Tail(given) ELSE given, 0)
          /\ Goes(c, "record") /\ UNCHANGED <<running, cancelled>>
    /\ UNCHANGED <<listening, log>>

Listen == ~listening /\ listening' = TRUE /\ UNCHANGED <<asked, log, handed, given>>

\* bound: ages are told apart up to the one that is forgotten.
Aged(ages) == [i \in DOMAIN ages |-> IF ages[i] < Within THEN ages[i] + 1 ELSE ages[i]]

Tick ==
    /\ handed' = Aged(handed) /\ given' = Aged(given)
    /\ UNCHANGED <<listening, asked, log>>

Next ==
    \/ \E c \in Calls :
         \/ ReaderAsks(c) \/ Register(c) \/ AgentAsks(c) \/ Session(c) \/ Answered(c)
         \/ Interrupted(c) \/ TimedOut(c) \/ CutOff(c) \/ Record(c) \/ Find(c) \/ Hand(c)
    \/ \E i \in Ids : Cancel(i)
    \/ \E x \in Connections : Delete(x)
    \/ Listen \/ Tick

Spec == Init /\ [][Next]_vars

Own(c) ==
    Register(c) \/ Session(c) \/ Interrupted(c) \/ TimedOut(c) \/ Record(c) \/ Find(c) \/ Hand(c)

\* The runtime polls its calls and keeps its timers. No server need answer, and
\* the reader need not cancel.
FairSpec == Spec /\ \A c \in Calls : WF_vars(Own(c))

-----------------------------------------------------------------------------
(* Properties *)

\* A statement that runs can be cancelled: its own token is under its id, also
\* when somebody asked for another under the same ("which would leave that query
\* with no way to be cancelled", QueryRegistry::register).
Cancellable ==
    \A c \in Calls :
        call[c].kind \in Registers /\ call[c].pc \in {"session", "work", "record"}
            => running[call[c].id] = c

\* The log of a connection is what was recorded last, in that order and without a
\* gap, whatever was recorded of others or deleted with them meanwhile (db/history.rs,
\* KEEP). What an agent is told is the newest part of it.
NewestKept ==
    /\ \A i, j \in DOMAIN history :
         history[i].conn = history[j].conn => (i < j <=> history[i].nth < history[j].nth)
    /\ \A x \in Connections, limit \in {Keep, Recent} :
         Listed(x, limit) = {n \in 1..count[x] : count[x] < n + limit /\ count[x] < n + Keep}

\* A statement is handed over exactly when fewer than AT_MOST were in the last
\* WITHIN, and no stretch that long ever holds more: the queue that forgets as it
\* goes refuses none too many, and what nobody could receive is not counted
\* (app/handoffs.rs).
AllowanceExact ==
    /\ Len(given) > AtMost => given[1] = Within
    /\ Admits <=> Len(given) < AtMost \/ given[Len(given) - AtMost + 1] = Within

\* The log keeps the newest of each connection, and agents hand over as often as they
\* may: what is recorded and counted is never off by one, whoever else writes meanwhile.
Counted == TypeOK /\ NewestKept /\ AllowanceExact

\* Every call of an agent comes back although no server ever answers, since nobody
\* is watching it wait (`within`), and so does every call of the reader that was
\* cancelled, wherever the cancel found it and whoever else asked for its id.
CallEnds ==
    \A c \in Calls : call[c].kind \in Agent \/ c \in cancelled ~> call[c] = Idle

=============================================================================
