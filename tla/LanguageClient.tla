--------------------------- MODULE LanguageClient ---------------------------
(***************************************************************************)
(* The window's side of a connection's language server                     *)
(* (src/lib/lsp/client.ts), over the servers the backend starts and stops. *)
(*                                                                         *)
(* One script runs at a time: an event, an answer of the backend or a      *)
(* timer is handled with everything that awaited it before the next one.   *)
(* A message is built when its turn comes, and the next turn comes when    *)
(* the backend has answered the last one. What the client counts as a      *)
(* generation is kept as a mark on each message that waits: whether it is  *)
(* still meant for the server there is.                                    *)
(***************************************************************************)
EXTENDS LspServers, FiniteSets

Seqs == INSTANCE SequencesExt

ASSUME UrisAssumption == IsFiniteSet(Uris)

VARIABLES
    docs,     \* of each open document: its version and the one told (zero: never)
    shut,     \* documents closed, whose tab does not come back
    starting, \* the one attempt to start a server, or None
    promise,  \* of each start: "pending", or what the backend answered
    queue,    \* what is still to be said; its head has its turn
    turn,     \* where the head is: "none", "ready", "sent", "taken" or "refused"
    upon,     \* the start the head waits for, or None
    saying,   \* the message on its way, or None
    waiting,  \* requests whose answer is still wanted
    request,  \* where each call of completions is, and what it is about
    again     \* installs that succeeded and the client has not heard of

outbox == <<queue, turn, upon, saying>>
client == <<docs, shut, starting, promise, outbox, waiting, request, again>>
all    == <<lsp, client>>

Absent == [version |-> 0, told |-> 0]

Entries ==
    [kind : {"tell", "close"}, about : Uris, mine : BOOLEAN]
    \cup [kind : {"refuse"}, about : {None}, mine : BOOLEAN]
    \cup [kind : {"ask"}, about : Asks, mine : BOOLEAN]

Messages ==
    [kind : {"open", "change"}, about : Uris, version : 1..MaxVersion]
    \cup [kind : {"close", "refuse", "ask"}, about : Uris \cup Asks \cup {None}]

ClientTypeOK ==
    /\ docs \in [Uris -> [version : 0..MaxVersion, told : 0..MaxVersion]]
    /\ shut \subseteq Uris
    /\ starting \in Starts \cup {None}
    /\ promise \in [Starts -> {"pending", "ok", "failed"}]
    /\ queue \in Seq(Entries)
    /\ turn \in {"none", "ready", "sent", "taken", "refused"}
    /\ upon \in Starts \cup {None} /\ saying \in Messages \cup {None}
    /\ (turn = "none" <=> upon = None /\ saying = None) /\ (turn # "none" => queue # <<>>)
    /\ waiting \subseteq Asks
    /\ request \in [Asks -> [stage : {"none", "ready", "queued", "sent", "done"},
                             upon : Starts \cup {None}, about : Uris \cup {None},
                             version : 0..MaxVersion]]
    /\ again \in BOOLEAN
    /\ \A u \in Uris : docs[u].told <= docs[u].version

ClientInit ==
    /\ docs = [u \in Uris |-> Absent] /\ shut = {}
    /\ starting = None /\ promise = [s \in Starts |-> "pending"]
    /\ queue = <<>> /\ turn = "none" /\ upon = None /\ saying = None
    /\ waiting = {} /\ again = FALSE
    /\ request = [id \in Asks |->
                     [stage |-> "none", upon |-> None, about |-> None, version |-> 0]]

Tell(u)      == [kind |-> "tell", about |-> u, mine |-> TRUE]
Close(u)     == [kind |-> "close", about |-> u, mine |-> TRUE]
Refuse       == [kind |-> "refuse", about |-> None, mine |-> TRUE]
AskFor(id)   == [kind |-> "ask", about |-> id, mine |-> TRUE]

\* Starts the client still waits for, or remembers.
Remembered == {starting, upon} \cup {request[id].upon : id \in Asks}

Unused == {s \in Starts : Free(s) /\ s \notin Remembered}

\* ready(): the attempt there is, or a new one.
Ready(s) ==
    \/ /\ starting # None /\ s = starting /\ UNCHANGED <<starting, promise, lsp>>
    \/ /\ starting = None /\ Unused # {} /\ s = CHOOSE t \in Unused : TRUE
       /\ starting' = s /\ promise' = [promise EXCEPT ![s] = "pending"] /\ Begin(s)

Resolved(s) == s # None /\ promise[s] # "pending"

\* Something that was awaited has come, and is handled before anything else.
Resuming ==
    \/ turn = "none" /\ queue # <<>>
    \/ turn = "ready" /\ Resolved(upon)
    \/ \E id \in Asks : \/ request[id].stage = "ready" /\ Resolved(request[id].upon)
                        \/ request[id].stage = "sent" /\ id \notin waiting

\* ended(): what was told is forgotten, what waits is given nothing.
Forgotten == [u \in Uris |-> [docs[u] EXCEPT !.told = 0]]
Unmarked(q) == [i \in DOMAIN q |-> [q[i] EXCEPT !.mine = FALSE]]

\* Mutant: what waits to be said is dropped as well.
EndedDropping(q) ==
    /\ starting' = None
    /\ IF starting = None
       THEN UNCHANGED <<docs, waiting>> /\ queue' = q
       ELSE docs' = Forgotten /\ waiting' = {} /\ queue' = <<>>

\* What ended() leaves of the queue q it finds.
Ended(q) ==
    /\ starting' = None
    /\ IF starting = None
       THEN UNCHANGED <<docs, waiting>> /\ queue' = q
       ELSE docs' = Forgotten /\ waiting' = {} /\ queue' = Unmarked(q)

-----------------------------------------------------------------------------
(* What the editors call *)

Wrote(u) ==
    /\ ~Resuming /\ u \notin shut /\ docs[u].version < MaxVersion
    /\ docs' = [docs EXCEPT ![u].version = @ + 1]
    /\ queue' = IF starting = None THEN queue ELSE Append(queue, Tell(u))
    /\ UNCHANGED <<lsp, shut, starting, promise, turn, upon, saying, waiting, request, again>>

\* Only the server that was told about it has anything to forget.
Closed(u) ==
    /\ ~Resuming /\ docs[u] # Absent
    /\ docs' = [docs EXCEPT ![u] = Absent] /\ shut' = shut \cup {u}
    /\ queue' = IF docs[u].told = 0 THEN queue ELSE Append(queue, Close(u))
    /\ UNCHANGED <<lsp, starting, promise, turn, upon, saying, waiting, request, again>>

\* Completion is what starts a server.
Complete(id, u) ==
    /\ ~Resuming /\ request[id].stage = "none" /\ docs[u] # Absent
    /\ \E s \in Starts :
         /\ Ready(s)
         /\ request' = [request EXCEPT ![id] =
                [stage |-> "ready", upon |-> s, about |-> u, version |-> 0]]
    /\ UNCHANGED <<docs, shut, outbox, waiting, again>>

Finished == [stage |-> "done", upon |-> None, about |-> None, version |-> 0]

Untold == {u \in Uris : docs[u].told # docs[u].version}

\* Every document that is not as the server last heard it, then the request.
ReadyFor(id) ==
    /\ request[id].stage = "ready"
    /\ \/ /\ promise[request[id].upon] = "failed"
          /\ request' = [request EXCEPT ![id] = Finished]
          /\ UNCHANGED <<queue, waiting>>
       \/ /\ promise[request[id].upon] = "ok"
          /\ queue' = queue \o [i \in 1..Cardinality(Untold) |-> Tell(Seqs!SetToSeq(Untold)[i])]
                            \o <<AskFor(id)>>
          /\ waiting' = waiting \cup {id}
          /\ request' = [request EXCEPT ![id] =
                 [@ EXCEPT !.stage = "queued", !.upon = None,
                           !.version = docs[request[id].about].version]]
    /\ UNCHANGED <<lsp, docs, shut, starting, promise, turn, upon, saying, again>>

\* The answer came, or the client gave up waiting for it.
Answered(id) ==
    /\ request[id].stage = "sent" /\ id \notin waiting
    /\ request' = [request EXCEPT ![id] = Finished]
    /\ UNCHANGED <<lsp, docs, shut, starting, promise, outbox, waiting, again>>

Late(id) ==
    /\ ~Resuming /\ request[id].stage = "sent" /\ id \in waiting
    /\ waiting' = waiting \ {id} /\ request' = [request EXCEPT ![id] = Finished]
    /\ UNCHANGED <<lsp, docs, shut, starting, promise, outbox, again>>

-----------------------------------------------------------------------------
(* The queue *)

\* start_language_server answered.
Started(s) ==
    /\ ~Resuming /\ promise[s] = "pending" /\ at[s] \in Returned
    /\ promise' = [promise EXCEPT ![s] = IF at[s] = "ok" THEN "ok" ELSE "failed"]
    /\ UNCHANGED <<lsp, docs, shut, starting, outbox, waiting, request, again>>

Turn ==
    /\ turn = "none" /\ queue # <<>>
    /\ \E s \in Starts : Ready(s) /\ upon' = s
    /\ turn' = "ready"
    /\ UNCHANGED <<docs, shut, queue, saying, waiting, request, again>>

\* What each send() builds, or None where there is nothing left to say.
Message(e) ==
    CASE e.kind = "tell" /\ docs[e.about].told # docs[e.about].version ->
           [kind |-> IF docs[e.about].told = 0 THEN "open" ELSE "change",
            about |-> e.about, version |-> docs[e.about].version]
      [] e.kind \in {"close", "refuse"} /\ e.mine -> [kind |-> e.kind, about |-> e.about]
      [] e.kind = "ask" -> [kind |-> "ask", about |-> e.about]
      [] OTHER -> None

\* Mutant: a request that could not be sent still waits.
UnsaidKept(e) == UNCHANGED <<request, waiting>>

\* The head leaves the queue unsaid; a request it was ends.
Unsaid(e) ==
    IF e.kind = "ask"
    THEN /\ request' = [request EXCEPT ![e.about] = Finished]
         /\ waiting' = waiting \ {e.about}
    ELSE UNCHANGED <<request, waiting>>

Build ==
    /\ turn = "ready" /\ Resolved(upon) /\ upon' = None
    /\ LET e == Head(queue) m == Message(e)
       IN  IF promise[upon] = "failed" \/ m = None
           THEN /\ Unsaid(e) /\ turn' = "none" /\ queue' = Tail(queue)
                /\ UNCHANGED <<docs, saying>>
           ELSE /\ turn' = "sent" /\ saying' = m
                /\ docs' = IF m.kind \in {"open", "change"}
                           THEN [docs EXCEPT ![m.about].told = m.version] ELSE docs
                /\ UNCHANGED <<request, waiting, queue>>
    /\ UNCHANGED <<lsp, shut, starting, promise, again>>

\* What the server makes of a message.
Told(s, m) ==
    /\ know' = CASE m.kind \in {"open", "change"} -> [know EXCEPT ![s][m.about] = m.version]
                 [] m.kind = "close" -> [know EXCEPT ![s][m.about] = 0]
                 [] OTHER -> know
    /\ asked' = IF m.kind = "ask" THEN [asked EXCEPT ![s] = @ \cup {m.about}] ELSE asked
    /\ asking' = IF m.kind = "refuse" THEN asking \ {s} ELSE asking
    /\ UNCHANGED <<cred, up, made>>

\* send_to_language_server: no server, or one that is not listening, is an
\* error. One that is dead and not yet found to be so takes the message with it.
Deliver ==
    /\ turn = "sent"
    /\ \/ /\ Slow \/ running \notin up
          /\ turn' = "refused" /\ UNCHANGED <<processes, made>>
       \/ running \in up /\ turn' = "taken" /\ Told(running, saying)
       \/ running \in Starts \ up /\ turn' = "taken" /\ UNCHANGED <<processes, made>>
    /\ UNCHANGED <<row, edits, registry, starts, reader, notices, docs, shut, starting,
                   promise, queue, upon, saying, waiting, request, again>>

\* The backend's answer: a server that does not take a message has ended,
\* whether or not its exit arrived.
Hear ==
    /\ ~Resuming /\ turn' = "none" /\ saying' = None
    /\ LET e == Head(queue)
       IN \/ /\ turn = "taken" /\ queue' = Tail(queue)
             /\ request' = IF e.kind = "ask"
                           THEN [request EXCEPT ![e.about].stage = "sent"] ELSE request
             /\ UNCHANGED <<docs, starting, waiting>>
          \/ /\ turn = "refused" /\ Ended(Tail(queue))
             /\ request' = IF e.kind = "ask"
                           THEN [request EXCEPT ![e.about] = Finished] ELSE request
    /\ UNCHANGED <<lsp, shut, promise, upon, again>>

-----------------------------------------------------------------------------
(* What the backend emits *)

Received ==
    /\ ~Resuming /\ notices # <<>> /\ notices' = Tail(notices)
    /\ LET n == Head(notices)
       IN \/ /\ n.kind = "answer" /\ waiting' = waiting \ {n.id}
             /\ UNCHANGED <<docs, starting, queue>>
          \/ /\ n.kind = "request" /\ queue' = Append(queue, Refuse)
             /\ UNCHANGED <<docs, starting, waiting>>
          \/ /\ n.kind = "exit" /\ Ended(queue)
    /\ UNCHANGED <<row, edits, registry, starts, processes, made, reader, shut, promise, turn, upon,
                   saying, request, again>>

\* An install stopped the server there was, and then the window hears of it.
Installed ==
    /\ ~again /\ again' = TRUE /\ Install
    /\ UNCHANGED <<docs, shut, starting, promise, outbox, waiting, request>>

StartAgain ==
    /\ ~Resuming /\ again /\ again' = FALSE /\ Ended(queue)
    /\ UNCHANGED <<lsp, shut, promise, turn, upon, saying, request>>

-----------------------------------------------------------------------------

Backend(A) == A /\ UNCHANGED client

Editor == \E u \in Uris : Wrote(u) \/ Closed(u) \/ \E id \in Asks : Complete(id, u)

Script(id) == ReadyFor(id) \/ Answered(id) \/ Late(id)

Saying == Turn \/ Build \/ Deliver \/ Hear \/ \E s \in Starts : Started(s)

Runtime == Backend(\E s \in Starts : Start(s) \/ Reader(s) \/ Kill(s))

Next ==
    \/ Runtime
    \/ Backend(Edit) \/ Backend(Serve) \/ Backend(Lag)
    \/ Editor \/ (\E id \in Asks : Script(id)) \/ Saying
    \/ Received \/ Installed \/ StartAgain

Init == LspInit /\ ClientInit

Spec == Init /\ [][Next]_all


\* The app's tasks and the window's script run, and a handshake ends: it is
\* answered or its timer runs out. A server need not answer or die.
FairSpec ==
    /\ Spec
    /\ WF_all(Runtime) /\ WF_all(\E id \in Asks : Script(id))
    /\ WF_all(Saying) /\ WF_all(Received)

-----------------------------------------------------------------------------
(* Properties *)

\* A completion is asked of a server that has heard of the text it is about:
\* when the request arrives and its answer is still wanted, the server has the
\* document open, as new as it was when the editor asked ("the next request
\* starts a server and tells it about the documents", lsp/client.ts).
AskedKnowing ==
    [][\A id \in Asks :
         (/\ turn = "sent" /\ turn' = "taken" /\ saying = [kind |-> "ask", about |-> id]
          /\ id \in waiting /\ running \in up /\ docs[request[id].about] # Absent) =>
             know[running][request[id].about] >= request[id].version]_all

TypeOK == LspTypeOK /\ ClientTypeOK

\* One server of a connection: registered with the credentials there are, and none left
\* up beside it.
OneServer == TypeOK /\ ServerCurrent /\ NoServerLeft

\* Every call of completions comes back, whatever becomes of the server.
CompletionEnds == \A id \in Asks : request[id].stage # "none" ~> request[id].stage = "done"

\* The client does not hold on to an attempt that a stop overtook: there was a
\* server to start ("it holds the old credentials; the next completion starts
\* another", app/connections.rs).
NextStartsAnother ==
    starting # None /\ promise[starting] = "failed" => at[starting] = "failed" \/ again

=============================================================================
