----------------------------- MODULE PgSession -----------------------------
(***************************************************************************)
(* One PostgreSQL session (drivers/postgres/mod.rs) and the server it      *)
(* talks to.                                                               *)
(*                                                                         *)
(* A session keeps one connection so that the reader's BEGIN outlives the  *)
(* statement that made it. Everything asked of it - the reader's           *)
(* statements, previews, plans and saves, or an agent's reads - takes      *)
(* turns at the connection behind a fair lock, may be cancelled at any     *)
(* await, and ends by asking the server where the transaction stands.      *)
(*                                                                         *)
(* A client step runs from one await to the next. The server executes a    *)
(* command it was sent in a step of its own, also when the client has      *)
(* dropped the connection meanwhile: no cancel request is ever sent, so    *)
(* the server finds out only when it next reads the socket.                *)
(***************************************************************************)
EXTENDS Naturals, Sequences, FiniteSets

CONSTANTS Tasks, \* callers of a session
          ReaderTasks, \* bound: those of them that call a reader's session
          Conns, \* bound: connections the server has at any one time
          Owners, \* bound: whose session it may be, "Reader" or "Agent"
          Jobs,  \* bound: which of their jobs the callers ask for
          None

\* The statements of the editor, a preview, a plan and a save; and an agent's
\* read, its plan, and its COMMIT sent as a read.
JobsOf == [Reader |-> {"begin", "commit", "rollback", "write", "preview", "explain", "save"},
           Agent  |-> {"reading", "escape", "explain"}]

ASSUME JobsAssumption ==
    /\ Owners \subseteq {"Reader", "Agent"} /\ ReaderTasks \subseteq Tasks
    /\ Jobs \subseteq JobsOf.Reader \cup JobsOf.Agent

\* What a job writes, a save in two statements.
Label(j, part) == <<j, part>>
Written == {"write", "explain", "reading", "save"} \X {1, 2}

States   == {"idle", "open", "failed"}
Commands == {"begin", "begin reading", "commit", "rollback", "savepoint", "rollback to",
             "ask", "read", "write"}
Sent     == [command : Commands, writes : SUBSET Written]
Replies  == {"ok", "error", "stale", "lost"} \cup States
Answers  == {"ok", "error", "refused", "cancelled", "timeout"}

ASSUME NoneAssumption ==
    /\ None \notin Conns \cup Tasks \cup States \cup Replies \cup Answers \cup Sent
    /\ None \notin JobsOf.Reader \cup JobsOf.Agent
    /\ \A S \in SUBSET Written : None # S

VARIABLES
    whose,     \* whose session it is
    queue,     \* tasks waiting for the lock, in the order they asked
    holder,    \* the task that has the lock, or None
    held,      \* the connection in the slot, or None
    reported,  \* the TransactionState the header is told
    pc,        \* where each task is in run_on and in the work it was given
    job,       \* what each task was asked to do, or None
    cancelled, \* tasks whose token is cancelled
    conn,      \* the connection the holder took or opened, or None
    inside,    \* explain: whether the reader has a transaction open
    outcome,   \* how the holder's work went so far
    answer,    \* what each task was last answered, or None
    \* the server, per connection
    wire,      \* the command sent and not answered, or None
    reply,     \* the answer to it, not yet read, or None
    tx,        \* where the transaction stands, or None: no such connection
    own,       \* who began it: "reader", or the driver for "reading" or "saving"
    pending,   \* what was written inside it
    saved,     \* what had been at the driver's savepoint, or None
    broken,    \* connections the server has closed
    committed  \* what the server has made permanent

client == <<whose, queue, holder, held, reported, pc, job, cancelled, conn, inside, outcome, answer>>
server == <<wire, reply, tx, own, pending, saved, broken, committed>>
vars   == <<client, server>>

WorkPcs  == {"drain", "ask", "open", "main", "end", "put1", "put2", "keep"}
StatePcs == {"undo", "state"}
Pcs      == {"idle", "waiting", "connect"} \cup WorkPcs \cup StatePcs

TypeOK ==
    /\ whose \in Owners
    /\ queue \in Seq(Tasks) /\ holder \in Tasks \cup {None}
    /\ held \in Conns \cup {None} /\ conn \in Conns \cup {None}
    /\ reported \in States
    /\ pc \in [Tasks -> Pcs] /\ job \in [Tasks -> JobsOf[whose] \cup {None}]
    /\ cancelled \subseteq Tasks
    /\ inside \in BOOLEAN /\ outcome \in Answers
    /\ answer \in [Tasks -> Answers \cup {None}]
    /\ wire \in [Conns -> Sent \cup {None}] /\ reply \in [Conns -> Replies \cup {None}]
    /\ tx \in [Conns -> States \cup {None}]
    /\ own \in [Conns -> {"reader", "reading", "saving"}]
    /\ pending \in [Conns -> SUBSET Written]
    /\ saved \in [Conns -> {None} \cup SUBSET Written]
    /\ broken \subseteq Conns /\ committed \subseteq Written

Init ==
    /\ whose \in Owners
    /\ queue = <<>> /\ holder = None /\ held = None /\ conn = None
    /\ reported = "idle"
    /\ pc = [t \in Tasks |-> "idle"]
    /\ job = [t \in Tasks |-> None]
    /\ cancelled = {} /\ inside = FALSE /\ outcome = "ok"
    /\ answer = [t \in Tasks |-> None]
    /\ wire = [c \in Conns |-> None] /\ reply = [c \in Conns |-> None]
    /\ tx = [c \in Conns |-> None]
    /\ own = [c \in Conns |-> "reader"]
    /\ pending = [c \in Conns |-> {}] /\ saved = [c \in Conns |-> None]
    /\ broken = {} /\ committed = {}

-----------------------------------------------------------------------------
(* The server: PostgreSQL as the driver's statements depend on it *)

\* A connection's transaction, what is made permanent, and the answer.
After(c, t, o, p, s, permanent, answered) ==
    /\ tx' = [tx EXCEPT ![c] = t]
    /\ own' = [own EXCEPT ![c] = o]
    /\ pending' = [pending EXCEPT ![c] = p]
    /\ saved' = [saved EXCEPT ![c] = s]
    /\ committed' = committed \cup permanent
    /\ reply' = [reply EXCEPT ![c] = answered]
    /\ UNCHANGED <<client, wire, broken>>

Unmoved(c, answered) == After(c, tx[c], own[c], pending[c], saved[c], {}, answered)
Ended(c, permanent, answered) == After(c, "idle", "reader", {}, None, permanent, answered)

\* A statement that fails takes an open transaction with it.
Failed(c) ==
    IF tx[c] = "idle" THEN Unmoved(c, "error")
    ELSE After(c, "failed", own[c], pending[c], saved[c], {}, "error")

Began(c, o) ==
    IF tx[c] = "open" THEN Unmoved(c, "ok") ELSE After(c, "open", o, {}, None, {}, "ok")

\* The server executes what a connection was sent. A failed transaction refuses
\* everything but its end. A commit may be refused (a deferred constraint),
\* which ends the transaction too. Read-only transactions keep no write out
\* here: a temporary table, or what an analyzed CREATE TABLE AS makes, gets
\* past that check.
Serve(c) ==
    LET command == wire[c].command
        writes  == wire[c].writes
    IN
    /\ wire[c] # None /\ reply[c] = None /\ c \notin broken
    /\ \/ /\ tx[c] = "failed" /\ command \notin {"commit", "rollback", "rollback to"}
          /\ Unmoved(c, IF command = "ask" THEN "failed" ELSE "error")
       \/ /\ tx[c] # "failed" /\ command = "ask"
          /\ Unmoved(c, tx[c])
       \/ /\ tx[c] # "failed" /\ command \in {"begin", "begin reading"}
          /\ Began(c, IF command = "begin reading" THEN "reading"
                      ELSE IF Label("save", 1) \in writes THEN "saving" ELSE "reader")
       \/ /\ tx[c] # "failed" /\ command = "read"
          /\ Unmoved(c, "ok") \/ Failed(c)
       \/ /\ tx[c] # "failed" /\ command = "write"
          /\ \/ tx[c] = "idle" /\ Ended(c, writes, "ok")
             \/ /\ tx[c] = "open"
                /\ After(c, "open", own[c], pending[c] \cup writes, saved[c], {}, "ok")
             \/ own[c] = "saving" /\ Unmoved(c, "stale")
             \/ Failed(c)
       \/ /\ tx[c] = "open" /\ command = "savepoint"
          /\ After(c, "open", own[c], pending[c], pending[c], {}, "ok")
       \/ /\ saved[c] # None /\ command = "rollback to"
          /\ After(c, "open", own[c], saved[c], None, {}, "ok")
       \/ /\ command = "commit"
          /\ \/ tx[c] # "failed" /\ Ended(c, pending[c], "ok")
             \/ tx[c] = "failed" /\ Ended(c, {}, "ok")
             \/ tx[c] = "open" /\ Ended(c, {}, "error")
       \/ /\ command = "rollback"
          /\ Ended(c, {}, "ok")

\* The server closes a connection and forgets its transaction. An answer not
\* yet read is never read.
Break(c) ==
    /\ tx[c] # None /\ c \notin broken
    /\ broken' = broken \cup {c}
    /\ tx' = [tx EXCEPT ![c] = "idle"] /\ own' = [own EXCEPT ![c] = "reader"]
    /\ pending' = [pending EXCEPT ![c] = {}] /\ saved' = [saved EXCEPT ![c] = None]
    /\ reply' = [reply EXCEPT ![c] = IF wire[c] = None THEN None ELSE "lost"]
    /\ UNCHANGED <<client, wire, committed>>

\* The server reads the socket of a connection the client dropped, and rolls
\* back what it held.
Dropped(c) == tx[c] # None /\ c \notin {held, conn}

Reap(c) ==
    /\ Dropped(c)
    /\ wire' = [wire EXCEPT ![c] = None] /\ reply' = [reply EXCEPT ![c] = None]
    /\ tx' = [tx EXCEPT ![c] = None] /\ own' = [own EXCEPT ![c] = "reader"]
    /\ pending' = [pending EXCEPT ![c] = {}] /\ saved' = [saved EXCEPT ![c] = None]
    /\ broken' = broken \ {c}
    /\ UNCHANGED <<client, committed>>

-----------------------------------------------------------------------------
(* What a job sends *)

\* Mutant: no transaction around a save or an agent's read.
FirstUnguarded(j) == IF j = "explain" THEN "ask" ELSE IF j = "save" THEN "put1" ELSE "main"

\* Where the work of a job starts.
First(j) ==
    IF j \in {"explain", "save"} THEN "ask"
    ELSE IF j \in {"reading", "escape"} THEN "open" ELSE "main"

\* Mutant: a plan ends the reader's transaction with its own.
EndWhole(in) == "rollback"

\* A plan undoes what it did, to its savepoint inside the reader's transaction.
EndOf(in) == IF in THEN "rollback to" ELSE "rollback"

Command(j, p, in) ==
    CASE p \in {"ask", "state"} -> "ask"
      [] p = "open" -> IF j = "save" THEN "begin" ELSE IF in THEN "savepoint" ELSE "begin reading"
      [] p = "main" -> IF j \in {"begin", "commit", "rollback"} THEN j
                       ELSE IF j = "escape" THEN "commit"
                       ELSE IF j = "preview" THEN "read" ELSE "write"
      [] p \in {"put1", "put2"} -> "write"
      [] p = "keep" -> "commit"
      [] p = "end" -> EndOf(in)
      [] p = "undo" -> "rollback"

WritesOf(j, p) ==
    IF j = "save" THEN {Label("save", IF p = "put2" THEN 2 ELSE 1)}
    ELSE IF j \in {"write", "explain", "reading"} /\ p = "main" THEN {Label(j, 1)} ELSE {}

\* The holder goes to p and sends what p sends. A closed socket answers at once.
Send(t, c, p, in) ==
    /\ pc' = [pc EXCEPT ![t] = p]
    /\ inside' = in
    /\ wire' = [wire EXCEPT ![c] = [command |-> Command(job[t], p, in),
                                    writes |-> WritesOf(job[t], p)]]
    /\ reply' = [reply EXCEPT ![c] = IF c \in broken THEN "lost" ELSE None]
    /\ UNCHANGED <<tx, own, pending, saved, broken, committed>>

\* The guard goes out of scope, with the answer.
Unlock(t, a) ==
    /\ holder' = None /\ conn' = None /\ inside' = FALSE /\ outcome' = "ok"
    /\ pc' = [pc EXCEPT ![t] = "idle"]
    /\ answer' = [answer EXCEPT ![t] = a]
    /\ cancelled' = cancelled \ {t} /\ job' = [job EXCEPT ![t] = None]
    /\ UNCHANGED queue

-----------------------------------------------------------------------------
(* run_on *)

Ask(t, j) ==
    /\ pc[t] = "idle" /\ j \in JobsOf[whose] /\ (whose = "Reader" => t \in ReaderTasks)
    /\ pc' = [pc EXCEPT ![t] = "waiting"] /\ job' = [job EXCEPT ![t] = j]
    /\ queue' = Append(queue, t) /\ answer' = [answer EXCEPT ![t] = None]
    /\ UNCHANGED <<holder, held, reported, cancelled, conn, inside, outcome, server>>
    /\ UNCHANGED whose

\* cancel_query. A save and an agent's plan are given a token nobody has.
Cancellable(t) == job[t] # "save" /\ whose = "Reader"

Cancel(t) ==
    /\ pc[t] # "idle" /\ t \notin cancelled /\ Cancellable(t)
    /\ cancelled' = cancelled \cup {t}
    /\ UNCHANGED <<queue, holder, held, reported, pc, job, conn, inside, outcome, answer, server>>
    /\ UNCHANGED whose

\* A caller waits no more: its place in the queue goes with it.
LeaveQueue(t) ==
    \E i \in 1..Len(queue) :
        /\ queue[i] = t
        /\ queue' = SubSeq(queue, 1, i - 1) \o SubSeq(queue, i + 1, Len(queue))

\* Heard while waiting for the lock, whether or not the lock is free.
StopWaiting(t) ==
    /\ pc[t] = "waiting" /\ t \in cancelled
    /\ LeaveQueue(t)
    /\ pc' = [pc EXCEPT ![t] = "idle"]
    /\ answer' = [answer EXCEPT ![t] = "cancelled"]
    /\ cancelled' = cancelled \ {t} /\ job' = [job EXCEPT ![t] = None]
    /\ UNCHANGED <<holder, held, reported, conn, inside, outcome, server>>
    /\ UNCHANGED whose

\* Mutant: the connection is used where it is.
Borrowed(slot) == slot

\* What is left in the slot while its connection is used.
LeftIn(slot) == None

\* The lock is granted in turn; the connection in the slot is taken out of it.
\* A connection given up on mid-answer has that answer read first.
Lock(t) ==
    /\ pc[t] = "waiting" /\ t \notin cancelled
    /\ queue # <<>> /\ Head(queue) = t /\ holder = None
    /\ queue' = Tail(queue) /\ holder' = t
    /\ conn' = held /\ held' = LeftIn(held)
    /\ \/ /\ held = None
          /\ pc' = [pc EXCEPT ![t] = "connect"]
          /\ UNCHANGED <<inside, server>>
       \/ /\ held # None /\ wire[held] # None
          /\ pc' = [pc EXCEPT ![t] = "drain"]
          /\ UNCHANGED <<inside, server>>
       \/ /\ held # None /\ wire[held] = None
          /\ Send(t, held, First(job[t]), FALSE)
    /\ UNCHANGED <<reported, job, cancelled, outcome, answer>>
    /\ UNCHANGED whose

\* Opening a connection is not cancelled, but a cancel that came meanwhile is
\* heard before the work begins.
Connect(t) ==
    /\ pc[t] = "connect"
    /\ \E c \in Conns :
        /\ tx[c] = None
        /\ conn' = c
        /\ tx' = [tx EXCEPT ![c] = "idle"]
        /\ pc' = [pc EXCEPT ![t] = First(job[t])]
        /\ wire' = [wire EXCEPT ![c] = [command |-> Command(job[t], First(job[t]), FALSE),
                                        writes |-> WritesOf(job[t], First(job[t]))]]
    /\ t \notin cancelled
    /\ UNCHANGED <<queue, holder, held, reported, job, cancelled, inside, outcome, answer,
                   reply, own, pending, saved, broken, committed>>
    /\ UNCHANGED whose

ConnectCancelled(t) ==
    /\ pc[t] = "connect" /\ t \in cancelled
    /\ reported' = "idle"
    /\ Unlock(t, "cancelled")
    /\ UNCHANGED <<held, server>>
    /\ UNCHANGED whose

\* Refused, or out of time: the only way out that leaves `transaction` alone.
ConnectFails(t) ==
    /\ pc[t] = "connect"
    /\ Unlock(t, "error")
    /\ UNCHANGED <<held, reported, server>>
    /\ UNCHANGED whose

\* Mutant: no cancel is heard while a statement runs.
HeardBetween == WorkPcs \ {"main"}

\* Where a cancel is heard: while the work runs, and not after it.
Heard == WorkPcs

\* Cancelled at an await of the work: the connection is dropped, whatever it
\* was in the middle of.
Interrupt(t) ==
    /\ pc[t] \in Heard /\ t \in cancelled
    /\ reported' = "idle"
    /\ Unlock(t, "cancelled")
    /\ UNCHANGED <<held, server>>
    /\ UNCHANGED whose

\* Mutant: a save that is not committed is left as it is.
LeftOpen(p, a) == "state"

\* What comes after the work: sqlx rolls a save's transaction back when it is
\* dropped uncommitted.
AfterWork(p, a) == IF p \in {"put1", "put2", "keep"} /\ a # "ok" THEN "undo" ELSE "state"

\* Mutant: any error costs the connection.
TrustedWhenDone(a) == a = "ok"

\* Whether the connection can be used again. An error the server reported keeps
\* it, so that the reader sees their failed transaction, and so does a refusal.
Trusted(a) == a # "lost"

\* The work ended. Its connection goes back into the slot, to be asked where it
\* stands, or is dropped.
Finish(t, a) ==
    IF Trusted(a)
    THEN /\ held' = conn
         /\ outcome' = a
         /\ Send(t, conn, AfterWork(pc[t], a), inside)
         /\ UNCHANGED <<queue, holder, reported, job, cancelled, conn, answer>>
    ELSE /\ reported' = "idle"
         /\ Unlock(t, "error")
         /\ UNCHANGED <<held, server>>

\* Mutant: a save is not committed.
AfterPutUnkept(p) == IF p = "put1" THEN "put2" ELSE "state"

\* A save's statements, then its COMMIT.
AfterPut(p) == IF p = "put1" THEN "put2" ELSE "keep"

GoOn(t, p, in, went) ==
    /\ Send(t, conn, p, in)
    /\ outcome' = went
    /\ UNCHANGED <<queue, holder, held, reported, job, cancelled, conn, answer>>

\* The server's answer is read and the work goes on, unless a cancel is heard
\* first.
Read(t) ==
    LET said == reply[conn] IN
    /\ pc[t] \in WorkPcs /\ said # None /\ t \notin cancelled
    /\ \/ said = "lost" /\ ~(pc[t] = "main" /\ job[t] \in {"explain", "reading", "escape"})
          /\ Finish(t, "lost")
       \/ pc[t] = "drain" /\ said # "lost" /\ GoOn(t, First(job[t]), FALSE, "ok")
       \/ /\ pc[t] = "ask" /\ job[t] = "explain" /\ said # "lost"
          /\ IF said = "failed" THEN Finish(t, "error") ELSE GoOn(t, "open", said = "open", "ok")
       \/ /\ pc[t] = "ask" /\ job[t] = "save" /\ said # "lost"
          /\ IF said = "idle" THEN GoOn(t, "open", FALSE, "ok") ELSE Finish(t, "refused")
       \/ /\ pc[t] = "open" /\ said # "lost"
          /\ IF said = "error" THEN Finish(t, "error")
             ELSE GoOn(t, IF job[t] = "save" THEN "put1" ELSE "main", inside, "ok")
       \/ /\ pc[t] = "main" /\ job[t] \in {"explain", "reading", "escape"}
          /\ GoOn(t, "end", inside, IF said = "ok" THEN "ok" ELSE "error")
       \/ /\ pc[t] = "main" /\ job[t] \notin {"explain", "reading", "escape"} /\ said # "lost"
          /\ Finish(t, said)
       \/ /\ pc[t] = "end" /\ said # "lost"
          /\ IF said = "error" THEN Finish(t, "lost") ELSE Finish(t, outcome)
       \/ /\ pc[t] \in {"put1", "put2"} /\ said # "lost"
          /\ IF said = "ok" THEN GoOn(t, AfterPut(pc[t]), FALSE, "ok")
             ELSE Finish(t, IF said = "stale" THEN "refused" ELSE "error")
       \/ pc[t] = "keep" /\ said # "lost" /\ Finish(t, said)
    /\ UNCHANGED whose

\* Mutant: a connection that cannot say is not told apart.
ToldAsIs(said) == said

\* What the header is told of a connection that answered so.
Told(said) == IF said \in States THEN said ELSE "idle"

\* The answer to the question where the transaction stands. No cancel is heard
\* any more.
ReadState(t) ==
    LET said == reply[conn] IN
    /\ pc[t] \in StatePcs /\ said # None
    /\ IF pc[t] = "undo" /\ said # "lost"
       THEN GoOn(t, "state", FALSE, outcome)
       ELSE /\ held' = IF said \in States THEN held ELSE None
            /\ reported' = Told(said)
            /\ wire' = [wire EXCEPT ![conn] = None] /\ reply' = [reply EXCEPT ![conn] = None]
            /\ Unlock(t, outcome)
            /\ UNCHANGED <<tx, own, pending, saved, broken, committed>>
    /\ UNCHANGED whose

\* STATE_TIMEOUT: the connection cannot say where it stands.
StateTimesOut(t) ==
    /\ pc[t] \in StatePcs /\ reply[conn] = None
    /\ held' = None /\ reported' = "idle"
    /\ Unlock(t, outcome)
    /\ UNCHANGED server
    /\ UNCHANGED whose

\* An agent's call runs out of time: its future is dropped at whatever await it
\* was at, and with it the connection it had taken out of the slot.
Abandon(t) ==
    /\ whose = "Agent" /\ pc[t] # "idle"
    /\ \/ /\ pc[t] = "waiting"
          /\ LeaveQueue(t)
          /\ pc' = [pc EXCEPT ![t] = "idle"] /\ answer' = [answer EXCEPT ![t] = "timeout"]
          /\ job' = [job EXCEPT ![t] = None]
          /\ UNCHANGED <<holder, cancelled, conn, inside, outcome>>
       \/ pc[t] # "waiting" /\ Unlock(t, "timeout")
    /\ UNCHANGED <<held, reported, server>>
    /\ UNCHANGED whose

-----------------------------------------------------------------------------

Run(t) ==
    \/ StopWaiting(t) \/ Lock(t)
    \/ Connect(t) \/ ConnectCancelled(t) \/ ConnectFails(t)
    \/ Interrupt(t) \/ Read(t) \/ ReadState(t) \/ StateTimesOut(t)

Next ==
    \/ \E t \in Tasks : (\E j \in Jobs : Ask(t, j)) \/ Cancel(t) \/ Run(t) \/ Abandon(t)
    \/ \E c \in Conns : Serve(c) \/ Break(c) \/ Reap(c)

Spec == Init /\ [][Next]_vars

-----------------------------------------------------------------------------
(* What must hold *)

Whole(c) == c # None /\ c \notin broken

\* Between statements the header's state is the server's: nothing open without
\* a connection, and otherwise what the connection was left in, whichever of
\* the reader's statements, previews, plans and saves came last (the end of
\* run_on).
ReportedTruly ==
    holder = None =>
        /\ held = None => reported = "idle"
        /\ Whole(held) => reported = tx[held] /\ own[held] = "reader"

\* Nothing an analyzed plan or an agent's read wrote is ever kept, and no save
\* by halves (explain::run, execute_reading, edit::apply).
NothingKept ==
    /\ committed \cap ({"explain", "reading"} \X {1, 2}) = {}
    /\ Label("save", 1) \in committed <=> Label("save", 2) \in committed

\* A connection the server still serves, and the reader's transaction on it, is
\* only ever given up by a cancel heard before the work was done, or when the
\* server does not say in time where it stands: a late cancel costs nothing
\* (STATE_TIMEOUT).
KeptUnlessCancelled ==
    \A c \in {held, conn} : whose = "Reader" /\ Whole(c) /\ c \notin {held', conn'} =>
        \/ pc[holder] \in WorkPcs /\ holder \in cancelled
        \/ pc[holder] \in StatePcs /\ reply[c] = None
TransactionKept == [][KeptUnlessCancelled]_vars

\* A save reported done is in the database, and one reported refused has left
\* nothing behind that a later COMMIT would keep (apply_plan; "every update or
\* none", commit_table_edits).
SavesTold ==
    \A t \in Tasks : job[t] = "save" /\ job'[t] = None =>
        /\ answer'[t] = "ok" => {Label("save", 1), Label("save", 2)} \subseteq committed'
        /\ answer'[t] = "refused" /\ held' # None =>
               pending'[held'] \cap {Label("save", 1), Label("save", 2)} = {}
SaveTold == [][SavesTold]_vars

\* An agent finds no transaction left by the one before it, whether that one
\* ended the read-only transaction itself or ran out of time (execute_reading).
StartsClean ==
    whose = "Agent" =>
        \A t \in Tasks : pc[t] = "open" /\ Whole(conn) /\ reply[conn] = None => tx[conn] = "idle"

\* What nobody asked to keep is gone: nothing an agent, a plan or a refused save
\* wrote is kept, and no call of an agent finds the transaction of the one before.
NothingLeft == TypeOK /\ NothingKept /\ StartsClean

\* A cancelled call always comes back, though the server may never answer and
\* a save, which nothing cancels, may hold the lock for ever (run_on).
CancelAnswered == \A t \in Tasks : t \in cancelled ~> t \notin cancelled

\* The session keeps what ReaderTransaction promises. The reader's transaction
\* is the one on the current connection, as it was before a plan's savepoint; a
\* transaction the driver began for itself is none of theirs.
Current == IF held # None THEN held ELSE conn
Readers == Current # None /\ own[Current] = "reader" /\ tx[Current] # "idle"
Planned == Readers /\ saved[Current] # None

Stranded == {c \in Conns : /\ whose = "Reader" /\ Dropped(c) /\ c \notin broken
                          /\ wire[c] # None /\ reply[c] = None}

Promise == INSTANCE ReaderTransaction WITH
    Writes <- {Label("write", 1)},
    Rows <- {Label("save", 1), Label("save", 2)},
    doing <- IF holder = None THEN None ELSE job[holder],
    link <- IF Whole(Current) THEN Current ELSE None,
    tx <- IF ~Readers THEN "none" ELSE IF Planned THEN "open" ELSE tx[Current],
    pending <- IF ~Readers THEN {} ELSE IF Planned THEN saved[Current] ELSE pending[Current],
    permanent <- committed,
    adrift <- {pending[c] : c \in {c \in Stranded : wire[c].command = "commit" /\ tx[c] = "open"}}
              \cup
              {wire[c].writes : c \in {c \in Stranded : wire[c].command = "write" /\ tx[c] = "idle"}}

PromiseKept == Promise!Spec

=============================================================================
