----------------------------- MODULE LspServers -----------------------------
(***************************************************************************)
(* The language servers of one connection as the backend sees them:        *)
(* app/lsp.rs over lsp/mod.rs (the registry) and lsp/session.rs (a process *)
(* and the task that reads it), and the edits of a connection that stop    *)
(* its server.                                                             *)
(*                                                                         *)
(* A start and the process it makes have one identity, which is used again *)
(* once nothing holds it. What is said to a server is kept as what the     *)
(* server knows: the version of each document it has open, and the         *)
(* completions it has been asked for.                                      *)
(***************************************************************************)
EXTENDS Naturals, Sequences

CONSTANTS Starts,     \* bound: calls of start_language_server at once
          Creds,      \* what a connection's row and secret may say
          Uris,       \* documents
          Asks,       \* ids of completion requests
          MaxVersion, \* bound: versions of a document
          MaxStops,   \* bound: stops of the connection's server
          MaxAsked,   \* bound: requests servers make of the window
          Slow,       \* whether a server may leave its queue to fill up
          Installs,   \* whether the reader installs a server
          None

ASSUME LspAssumption ==
    /\ MaxVersion \in Nat /\ MaxStops \in Nat /\ MaxAsked \in Nat /\ Slow \in BOOLEAN /\ Installs \in BOOLEAN
    /\ None \notin Starts \cup Creds \cup Uris \cup Asks

ASSUME CredsAssumption == Creds # {}

VARIABLES
    row,     \* the credentials of the connection, or None once it is deleted
    edits,   \* saves and deletes that are committed and still have to stop the server
    running, \* Registry::running for this connection, or None
    stops,   \* Registry::stops
    at,      \* where each start is
    seen,    \* the stops each start read before it began
    cred,    \* what each start read for its process to run with, or None
    up,      \* processes alive
    held,    \* sessions taken out of the registry and not yet killed
    reader,  \* of each session: where its reading task is
    know,    \* of each process: the version of each document it has open, or 0
    asked,   \* of each process: the completions it has not answered
    asking,  \* processes waiting for the window to answer a request of theirs
    made,    \* how many such requests were made
    notices  \* what was broadcast and the window has not handled

starts    == <<at, seen>>
registry  == <<running, stops, held>>
processes == <<cred, up, know, asked, asking>>
lsp       == <<row, edits, registry, starts, processes, made, reader, notices>>

Notices == [kind : {"answer"}, id : Asks] \cup [kind : {"request", "exit"}]
Nothing == [u \in Uris |-> 0]

LspTypeOK ==
    /\ row \in Creds \cup {None} /\ edits \in 0..MaxStops
    /\ running \in Starts \cup {None} /\ stops \in 0..MaxStops
    /\ at \in [Starts -> {"idle", "get", "before", "find", "shake", "ok", "failed",
                          "conflict"}]
    /\ seen \in [Starts -> 0..MaxStops] /\ cred \in [Starts -> Creds \cup {None}]
    /\ up \subseteq Starts /\ held \subseteq Starts /\ asking \subseteq up
    /\ made \in 0..MaxAsked
    /\ reader \in [Starts -> {"none", "reading", "ending"}]
    /\ know \in [Starts -> [Uris -> 0..MaxVersion]]
    /\ asked \in [Starts -> SUBSET Asks]
    /\ notices \in Seq(Notices)
    /\ \A s \in up : cred[s] # None

LspInit ==
    /\ row = (CHOOSE c \in Creds : TRUE) /\ edits = 0
    /\ running = None /\ stops = 0 /\ held = {}
    /\ at = [s \in Starts |-> "idle"] /\ seen = [s \in Starts |-> 0]
    /\ cred = [s \in Starts |-> None]
    /\ up = {} /\ know = [s \in Starts |-> Nothing] /\ asked = [s \in Starts |-> {}]
    /\ asking = {} /\ made = 0 /\ reader = [s \in Starts |-> "none"] /\ notices = <<>>

\* A process that is gone holds nothing any more.
Gone(s) ==
    /\ up' = up \ {s} /\ cred' = [cred EXCEPT ![s] = None]
    /\ know' = [know EXCEPT ![s] = Nothing] /\ asked' = [asked EXCEPT ![s] = {}]
    /\ asking' = asking \ {s} /\ UNCHANGED made

-----------------------------------------------------------------------------
(* start_language_server *)

Returned == {"ok", "failed", "conflict"}

\* Nothing refers to this start's session any more.
Free(s) ==
    /\ at[s] \in {"idle"} \cup Returned
    /\ s \notin up \cup held /\ s # running /\ reader[s] = "none"

Begin(s) ==
    /\ at' = [at EXCEPT ![s] = "get"]
    /\ UNCHANGED <<row, edits, registry, seen, processes, made, reader, notices>>

\* A connection that already has a server answers for that one.
GetRunning(s) ==
    /\ at[s] = "get"
    /\ at' = [at EXCEPT ![s] = IF running # None THEN "ok" ELSE "before"]
    /\ UNCHANGED <<row, edits, registry, seen, processes, made, reader, notices>>

BeforeStarting(s) ==
    /\ at[s] = "before"
    /\ at' = [at EXCEPT ![s] = "find"] /\ seen' = [seen EXCEPT ![s] = stops]
    /\ UNCHANGED <<row, edits, registry, processes, made, reader, notices>>

\* The row and its secret, taken together, and the process started with them:
\* nothing but this call looks at it before it is registered.
FindRow(s) ==
    /\ at[s] = "find" /\ row # None
    /\ at' = [at EXCEPT ![s] = "shake"] /\ up' = up \cup {s}
    /\ cred' = [cred EXCEPT ![s] = row]
    /\ UNCHANGED <<row, edits, registry, seen, know, asked, asking, made, reader, notices>>

\* The row or its secret cannot be read, no server is installed, it does not
\* start, or says no hello in time: whatever was started is dropped, and killed.
StartFails(s) ==
    /\ at[s] \in {"find", "shake"}
    /\ at' = [at EXCEPT ![s] = "failed"] /\ seen' = [seen EXCEPT ![s] = 0] /\ Gone(s)
    /\ UNCHANGED <<row, edits, registry, reader, notices>>

\* Mutant: whatever happened meanwhile.
OvertakenNever(s) == FALSE

\* The connection's server was stopped while this one was starting.
Overtaken(s) == stops # seen[s]

\* LspSession::stop, for a session nothing else has.
StopOwn(s) == Gone(s)

\* Mutant: one session at a time is listened to.
ListenedAlone(s) ==
    IF \E t \in Starts : reader[t] # "none" THEN reader
    ELSE [reader EXCEPT ![s] = "reading"]

\* LspSession::listen.
Listened(s) == [reader EXCEPT ![s] = "reading"]

\* The server said hello. LspRegistry::insert, and what the start makes of its
\* answer: a session taken in is listened to, one that is not is stopped.
Insert(s) ==
    /\ at[s] = "shake" /\ s \in up /\ seen' = [seen EXCEPT ![s] = 0]
    /\ \/ /\ Overtaken(s)
          /\ at' = [at EXCEPT ![s] = "conflict"] /\ StopOwn(s)
          /\ UNCHANGED <<running, reader>>
       \/ /\ ~Overtaken(s) /\ running = None
          /\ at' = [at EXCEPT ![s] = "ok"] /\ running' = s
          /\ reader' = Listened(s) /\ UNCHANGED <<processes, made>>
       \/ /\ ~Overtaken(s) /\ running # None
          /\ at' = [at EXCEPT ![s] = "ok"] /\ StopOwn(s)
          /\ UNCHANGED <<running, reader>>
    /\ UNCHANGED <<row, edits, stops, held, notices>>

Start(s) ==
    GetRunning(s) \/ BeforeStarting(s) \/ FindRow(s) \/ StartFails(s) \/ Insert(s)

-----------------------------------------------------------------------------
(* The server: its process and the task that reads what it says *)

Die(s) ==
    /\ s \in up /\ Gone(s)
    /\ UNCHANGED <<row, edits, registry, starts, reader, notices>>

Answer(s, id) ==
    /\ reader[s] = "reading" /\ id \in asked[s]
    /\ asked' = [asked EXCEPT ![s] = @ \ {id}]
    /\ notices' = Append(notices, [kind |-> "answer", id |-> id])
    /\ UNCHANGED <<row, edits, registry, starts, cred, up, know, asking, made, reader>>

\* A request of the server's own, which it waits for.
Request(s) ==
    /\ reader[s] = "reading" /\ s \in up \ asking /\ made < MaxAsked
    /\ asking' = asking \cup {s} /\ notices' = Append(notices, [kind |-> "request"])
    /\ made' = made + 1
    /\ UNCHANGED <<row, edits, registry, starts, cred, up, know, asked, reader>>

\* Mutant: whichever server the connection has.
EvictsAny(s) == running # None

\* LspRegistry::remove_session: a server that was replaced does not evict its
\* replacement.
Evicts(s) == running = s

\* The end of the output: out of the registry, and an ending to announce
\* unless the connection has another server.
ReaderEnds(s) ==
    /\ reader[s] = "reading" /\ s \notin up
    /\ running' = IF Evicts(s) THEN None ELSE running
    /\ reader' = [reader EXCEPT ![s] = IF running' = None THEN "ending" ELSE "none"]
    /\ UNCHANGED <<row, edits, stops, held, starts, processes, made, notices>>

Announce(s) ==
    /\ reader[s] = "ending" /\ reader' = [reader EXCEPT ![s] = "none"]
    /\ notices' = Append(notices, [kind |-> "exit"])
    /\ UNCHANGED <<row, edits, registry, starts, processes, made>>

Reader(s) == ReaderEnds(s) \/ Announce(s)

-----------------------------------------------------------------------------
(* Stopping it *)

\* LspRegistry::remove, and take_all, which counts for every connection a start
\* has asked about: whoever took the session kills it next.
Remove ==
    /\ running' = None /\ held' = held \cup ({running} \ {None})
    /\ stops' = stops + 1

Kill(s) ==
    /\ s \in held /\ held' = held \ {s} /\ Gone(s)
    /\ UNCHANGED <<row, edits, running, stops, starts, reader, notices>>

\* Bound: so many stops, those still to come among them.
MayStop == stops + edits < MaxStops

Save(c) ==
    /\ MayStop /\ row # None /\ row' = c /\ edits' = edits + 1
    /\ UNCHANGED <<registry, starts, processes, made, reader, notices>>

Delete ==
    /\ MayStop /\ row # None /\ row' = None /\ edits' = edits + 1
    /\ UNCHANGED <<registry, starts, processes, made, reader, notices>>

StopEdited ==
    /\ edits > 0 /\ edits' = edits - 1 /\ Remove
    /\ UNCHANGED <<row, starts, processes, made, reader, notices>>

\* install_language_server: whatever was running is the old server.
Install ==
    /\ Installs /\ MayStop /\ Remove
    /\ UNCHANGED <<row, edits, starts, processes, made, reader, notices>>

\* forward_notices fell behind: what it missed is gone, and every server is
\* stopped.
Lag ==
    /\ MayStop /\ notices # <<>> /\ notices' = Tail(notices) /\ Remove
    /\ UNCHANGED <<row, edits, starts, processes, made, reader>>

Edit == (\E c \in Creds : Save(c)) \/ Delete \/ StopEdited

Serve == \E s \in Starts : Die(s) \/ Request(s) \/ \E id \in Asks : Answer(s, id)

-----------------------------------------------------------------------------
(* Properties *)

\* A registered server runs with the credentials the connection has, or an
\* edit has yet to stop it ("the connection was saved or deleted meanwhile, so
\* this server holds stale credentials", lsp/mod.rs): also when the edit falls
\* into the seconds a start takes.
ServerCurrent == running \in up => cred[running] = row \/ edits > 0

\* A registered server that died is still being read, and so will be taken out:
\* nothing else notices, and every later start would answer for it.
DeadNoticed == running \in Starts \ up => reader[running] = "reading"

\* Every process alive is the connection's server, or some call still has it in
\* hand: a second server would hold a database connection nobody can close
\* ("one server per connection", lsp/mod.rs).
NoServerLeft ==
    \A s \in up : s \in held \/ s = running \/ at[s] = "shake"

=============================================================================
