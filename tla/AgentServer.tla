---------------------------- MODULE AgentServer ----------------------------
(***************************************************************************)
(* The door agents come in by: whether it is open (app/agents.rs, one row  *)
(* of db/agent.rs), the token they present, and the server behind it       *)
(* (mcp/mod.rs), which serves so many connections at a time and gives each *)
(* so long to say what it wants.                                           *)
(*                                                                         *)
(* What an agent is answered with is in StatementLog: here a call is       *)
(* answered at some time, or never.                                        *)
(***************************************************************************)
EXTENDS Naturals, Sequences, FiniteSets

CONSTANTS Calls,      \* bound: calls of the window at once
          Clients,    \* bound: sockets at once
          Tokens,     \* tokens a uuid may come out as
          Ports,      \* ports the system may choose
          AtOnce,     \* AT_ONCE
          MaxServers, \* bound: servers one process opens
          MaxStarts,  \* bound: starts of the app
          None

ASSUME AgentServerAssumption ==
    /\ AtOnce \in Nat \ {0} /\ MaxServers \in Nat /\ MaxStarts \in Nat
    /\ None \notin Calls \cup Clients \cup Tokens \cup Ports /\ IsFiniteSet(Clients)

VARIABLES
    record,    \* the row: whether the door is open, and on which port
    token,     \* what the keychain holds, or None
    lock,      \* App::turning: the call that holds it, or None
    making,    \* App::making: the same
    pc,        \* where each call is
    want,      \* what it was asked for
    heard,     \* the token it read, or None
    agents,    \* App::agents: whether it holds a server
    gen,       \* which server of this process is the last
    port,      \* the port it listens on
    loop,      \* where its accept loop is: "none", "room" or "accept"
    cancelled, \* whether it was told to stop
    backlog,   \* connections the system has taken for it
    conn,      \* of each socket: how far it is, and whose it is
    shown,     \* what the reader was last told to give to agents
    starts,    \* starts of the app
    lost       \* bound: whether the keychain lost a token

door    == <<record, lock, agents>>
calls   == <<pc, want, heard>>
secret  == <<token, making>>
server  == <<gen, port, loop, cancelled>>
sockets == <<backlog, conn>>
about   == <<shown, starts, lost>>
vars    == <<door, calls, secret, server, sockets, about>>

Stages == {"out", "queued", "hello", "headers", "check", "body", "answer", "streams"}
Served == {c \in Clients : conn[c].stage \notin {"out", "queued"}}
Out    == [stage |-> "out", of |-> 0]

TypeOK ==
    /\ record \in [enabled : BOOLEAN, port : Ports \cup {None}]
    /\ token \in Tokens \cup {None}
    /\ lock \in Calls \cup {None} /\ making \in Calls \cup {None}
    /\ pc \in [Calls -> {"idle", "lock", "seek", "token", "make", "again", "find", "stop",
                         "listen", "save", "unlisten"}]
    /\ want \in [Calls -> {"open", "shut", "look", "start"}]
    /\ heard \in [Calls -> Tokens \cup {None}]
    /\ agents \in BOOLEAN /\ gen \in 0..MaxServers /\ port \in Ports \cup {None}
    /\ loop \in {"none", "room", "accept"} /\ cancelled \in BOOLEAN
    /\ backlog \in Seq(Clients) /\ conn \in [Clients -> [stage : Stages, of : 0..MaxServers]]
    /\ shown \in [port : Ports \cup {None}, token : Tokens \cup {None}]
    /\ starts \in 0..MaxStarts /\ lost \in BOOLEAN
    /\ \A c \in Calls : pc[c] \in {"find", "stop", "listen", "save", "unlisten"} => lock = c

\* The one call there is when the process starts.
Startup == CHOOSE c \in Calls : TRUE

Init ==
    /\ record = [enabled |-> FALSE, port |-> None] /\ token = None
    /\ pc = [c \in Calls |-> IF c = Startup THEN "lock" ELSE "idle"]
    /\ want = [c \in Calls |-> IF c = Startup THEN "start" ELSE "look"]
    /\ lock = None /\ making = None /\ agents = FALSE
    /\ heard = [c \in Calls |-> None]
    /\ gen = 0 /\ port = None /\ loop = "none" /\ cancelled = FALSE
    /\ backlog = <<>> /\ conn = [c \in Clients |-> Out]
    /\ shown = [port |-> None, token |-> None] /\ starts = 0 /\ lost = FALSE

Goes(c, to) == pc' = [pc EXCEPT ![c] = to]

\* The call comes back: its guard goes with it.
Ends(c) ==
    /\ Goes(c, "idle") /\ lock' = (IF lock = c THEN None ELSE lock)
    /\ heard' = [heard EXCEPT ![c] = None] /\ want' = [want EXCEPT ![c] = "look"]

-----------------------------------------------------------------------------
(* The window's calls. The app's setup waits for the one at its start. *)

Starting == \E c \in Calls : want[c] = "start" /\ pc[c] # "idle"

Call(c, what) ==
    /\ ~Starting /\ pc[c] = "idle" /\ want' = [want EXCEPT ![c] = what]
    /\ Goes(c, IF what = "look" THEN "seek" ELSE "lock")
    /\ UNCHANGED <<door, secret, heard, server, sockets, about>>

\* Mutant: turns are not taken one after the other.
MayTurnAny(c) == TRUE

\* One holds App::turning across all of its turn.
MayTurn(c) == lock = None

Lock(c) ==
    /\ pc[c] = "lock" /\ MayTurn(c) /\ lock' = c
    /\ Goes(c, CASE want[c] = "open" -> "token"
                 [] want[c] = "shut" -> "find"
                 [] want[c] = "start" -> "seek")
    /\ UNCHANGED <<record, agents, want, heard, secret, server, sockets, about>>

\* The first look at the row, of agent_access and of answer_agents_if_open.
Seek(c) ==
    /\ pc[c] = "seek"
    /\ IF record.enabled
       THEN /\ Goes(c, IF want[c] = "start" THEN "find" ELSE "token")
            /\ UNCHANGED <<lock, heard, want>>
       ELSE Ends(c)
    /\ UNCHANGED <<record, agents, secret, server, sockets, about>>

\* Mutant: two calls may make a token at once.
MayMakeAny(c) == TRUE

\* App::token reads and makes behind one lock.
MayMake(c) == making = None

Heard(c, t) ==
    /\ heard' = [heard EXCEPT ![c] = t]
    /\ Goes(c, IF want[c] = "look" THEN "again" ELSE "find")

ReadToken(c) ==
    /\ pc[c] = "token" /\ MayMake(c)
    /\ IF token # None THEN Heard(c, token) /\ UNCHANGED making
       ELSE Goes(c, "make") /\ making' = c /\ UNCHANGED heard
    /\ UNCHANGED <<door, want, token, server, sockets, about>>

MakeToken(c) ==
    /\ pc[c] = "make" /\ making' = None
    /\ \E t \in Tokens \ {heard[d] : d \in Calls} : token' = t /\ Heard(c, t)
    /\ UNCHANGED <<door, want, server, sockets, about>>

\* The reader refuses the keychain, or it refuses the token. A look asks again
\* whether that still matters.
TokenFails(c) ==
    /\ pc[c] \in {"token", "make"} /\ making' = (IF making = c THEN None ELSE making)
    /\ IF want[c] = "look" THEN Goes(c, "again") /\ UNCHANGED <<lock, heard, want>> ELSE Ends(c)
    /\ UNCHANGED <<record, agents, token, server, sockets, about>>

\* agent_access answers with the row as it is by now.
Again(c) ==
    /\ pc[c] = "again" /\ Ends(c)
    /\ shown' = IF record.enabled /\ heard[c] # None
                THEN [port |-> record.port, token |-> heard[c]] ELSE shown
    /\ UNCHANGED <<record, agents, secret, server, sockets, starts, lost>>

-----------------------------------------------------------------------------
(* App::turn *)

Opening(c) == want[c] \in {"open", "start"}

\* The server there was is told to stop, and waited for.
Find(c) ==
    /\ pc[c] = "find" /\ agents' = FALSE
    /\ IF agents THEN cancelled' = TRUE /\ Goes(c, "stop")
       ELSE UNCHANGED cancelled /\ Goes(c, IF Opening(c) THEN "listen" ELSE "save")
    /\ UNCHANGED <<record, lock, want, heard, secret, gen, port, loop, sockets, about>>

Stopped(c) ==
    /\ pc[c] = "stop" /\ loop = "none"
    /\ Goes(c, IF Opening(c) THEN "listen" ELSE "save")
    /\ UNCHANGED <<door, want, heard, secret, server, sockets, about>>

\* A port once chosen is kept, and none asks the system for one.
AskedFor == IF record.port = None THEN Ports ELSE {record.port}

Listen(c) ==
    /\ pc[c] = "listen" /\ gen < MaxServers /\ Goes(c, "save")
    /\ port' \in AskedFor /\ gen' = gen + 1 /\ loop' = "room" /\ cancelled' = FALSE
    /\ UNCHANGED <<door, want, heard, secret, sockets, about>>

\* Somebody else has the port. At its start the app records the door as shut.
ListenFails(c) ==
    /\ pc[c] = "listen"
    /\ IF want[c] = "start"
       THEN /\ want' = [want EXCEPT ![c] = "shut"] /\ Goes(c, "find")
            /\ UNCHANGED <<lock, heard>>
       ELSE Ends(c)
    /\ UNCHANGED <<record, agents, secret, server, sockets, about>>

Save(c) ==
    /\ pc[c] = "save" /\ Ends(c) /\ agents' = Opening(c)
    /\ record' = [enabled |-> Opening(c), port |-> IF Opening(c) THEN port ELSE record.port]
    /\ shown' = IF want[c] = "open" THEN [port |-> port, token |-> heard[c]] ELSE shown
    /\ UNCHANGED <<secret, server, sockets, starts, lost>>

\* Mutant: a server that could not be recorded is left alone.
LeftAlone(c) == Ends(c) /\ UNCHANGED cancelled

\* A server nothing would know about is stopped.
NotRecorded(c) ==
    /\ Goes(c, "unlisten") /\ cancelled' = TRUE /\ UNCHANGED <<lock, heard, want>>

SaveFails(c) ==
    /\ pc[c] = "save"
    /\ IF Opening(c) THEN NotRecorded(c) ELSE Ends(c) /\ UNCHANGED cancelled
    /\ UNCHANGED <<record, agents, secret, gen, port, loop, sockets, about>>

\* As at a taken port, at its start the app then records the door as shut.
Unlisten(c) ==
    /\ pc[c] = "unlisten" /\ loop = "none"
    /\ IF want[c] = "start"
       THEN /\ want' = [want EXCEPT ![c] = "shut"] /\ Goes(c, "find")
            /\ UNCHANGED <<lock, heard>>
       ELSE Ends(c)
    /\ UNCHANGED <<record, agents, secret, server, sockets, about>>

Turn(c) ==
    \/ Lock(c) \/ Seek(c) \/ Again(c) \/ Find(c) \/ Stopped(c)
    \/ Listen(c) \/ ListenFails(c) \/ Save(c) \/ SaveFails(c) \/ Unlisten(c)

Keychain(c) == ReadToken(c) \/ MakeToken(c) \/ TokenFails(c)

-----------------------------------------------------------------------------
(* The server *)

Moves(c, to) == conn' = [conn EXCEPT ![c].stage = to]
Leaves(c)    == conn' = [conn EXCEPT ![c] = Out]

Connect(c) ==
    /\ conn[c].stage = "out" /\ loop # "none" /\ ~cancelled
    /\ conn' = [conn EXCEPT ![c] = [stage |-> "queued", of |-> gen]]
    /\ backlog' = Append(backlog, c)
    /\ UNCHANGED <<door, calls, secret, server, about>>

Holding == {c \in Served : conn[c].of = gen}

\* Mutant: a place is taken only once there is somebody to give it to.
HasRoomAny == TRUE

HasRoom == Cardinality(Holding) < AtOnce

\* A place is taken before a connection is.
TakeRoom ==
    /\ loop = "room" /\ HasRoom /\ loop' = "accept"
    /\ UNCHANGED <<door, calls, secret, gen, port, cancelled, sockets, about>>

Accept ==
    /\ loop = "accept" /\ backlog # <<>> /\ loop' = "room"
    /\ Moves(Head(backlog), "hello") /\ backlog' = Tail(backlog)
    /\ UNCHANGED <<door, calls, secret, gen, port, cancelled, about>>

\* Whoever the system still held for it is turned away.
Break ==
    /\ loop = "accept" /\ cancelled /\ loop' = "none"
    /\ backlog' = <<>>
    /\ conn' = [c \in Clients |-> IF conn[c].stage = "queued" THEN Out ELSE conn[c]]
    /\ UNCHANGED <<door, calls, secret, gen, port, cancelled, about>>

\* The builder tells HTTP/1 from HTTP/2 by the first bytes, and waits for them
\* without a timer. What is asked on the streams of HTTP/2 decides nothing about
\* the connection, which nothing times either.
Hello(c) ==
    /\ conn[c].stage = "hello"
    /\ \E to \in {"headers", "streams"} : Moves(c, to)
    /\ UNCHANGED <<door, calls, secret, server, backlog, about>>

\* `checked`: the wrong path and a request without a token are refused at once.
Headers(c) ==
    /\ conn[c].stage = "headers"
    /\ \E to \in {"headers", "check"} : Moves(c, to)
    /\ UNCHANGED <<door, calls, secret, server, backlog, about>>

\* The token is read at each request, and may wait for the reader.
Check(c) ==
    /\ conn[c].stage = "check"
    /\ \/ token # None /\ Moves(c, "body")
       \/ Moves(c, "headers")
    /\ UNCHANGED <<door, calls, secret, server, backlog, about>>

Body(c) ==
    /\ conn[c].stage = "body"
    /\ \E to \in {"headers", "answer"} : Moves(c, to)
    /\ UNCHANGED <<door, calls, secret, server, backlog, about>>

Answered(c) ==
    /\ conn[c].stage = "answer" /\ Moves(c, "headers")
    /\ UNCHANGED <<door, calls, secret, server, backlog, about>>


\* Where a client that says nothing is let go: inside a request of HTTP/1.
Silent == {"headers", "body"}

Late(c) ==
    /\ conn[c].stage \in Silent /\ Leaves(c)
    /\ UNCHANGED <<door, calls, secret, server, backlog, about>>

\* Mutant: a call that is being answered is waited for.
CutOffIdle == {c \in Served : (cancelled \/ conn[c].of # gen) /\ conn[c].stage # "answer"}

\* A stop reaches every connection of its server.
CutOff == {c \in Served : cancelled \/ conn[c].of # gen}

CutOne ==
    /\ \E c \in CutOff : Leaves(c)
    /\ UNCHANGED <<door, calls, secret, server, backlog, about>>

HangUp(c) ==
    /\ c \in Served /\ Leaves(c)
    /\ UNCHANGED <<door, calls, secret, server, backlog, about>>

Serve == TakeRoom \/ Accept \/ Break \/ CutOne \/ \E c \in Clients : Late(c)

Talk == \E c \in Clients :
    Connect(c) \/ Hello(c) \/ Headers(c) \/ Check(c) \/ Body(c) \/ Answered(c) \/ HangUp(c)

-----------------------------------------------------------------------------
(* The app goes, with or without stop_answering_agents, and starts again *)

Restart ==
    /\ starts < MaxStarts /\ starts' = starts + 1
    /\ lock' = None /\ making' = None /\ agents' = FALSE
    /\ heard' = [c \in Calls |-> None]
    /\ gen' = 0 /\ port' = None /\ loop' = "none" /\ cancelled' = FALSE
    /\ backlog' = <<>> /\ conn' = [c \in Clients |-> Out]
    /\ pc' = [c \in Calls |-> IF c = Startup THEN "lock" ELSE "idle"]
    /\ want' = [c \in Calls |-> IF c = Startup THEN "start" ELSE "look"]
    /\ UNCHANGED <<record, token, shown, lost>>

\* The keychain loses the token, which then is nobody's any more. Not while a
\* call that read it has yet to answer.
Lose ==
    /\ ~lost /\ lost' = TRUE /\ token # None /\ token' = None
    /\ \A c \in Calls : heard[c] = None
    /\ shown' = [shown EXCEPT !.token = None]
    /\ UNCHANGED <<door, calls, making, server, sockets, starts>>

Next ==
    \/ \E c \in Calls : \/ \E what \in {"open", "shut", "look"} : Call(c, what)
                        \/ Turn(c) \/ Keychain(c)
    \/ Serve \/ Talk \/ Restart \/ Lose

Spec == Init /\ [][Next]_vars

\* The runtime polls its tasks and keeps its timers, and a select that is asked
\* again and again takes each of its arms at some time. No client need say
\* anything, no call need be answered, and the reader may leave the keychain's
\* question alone.
FairSpec ==
    /\ Spec /\ WF_vars(TakeRoom \/ Accept) /\ SF_vars(Break) /\ WF_vars(CutOne)
    /\ \A c \in Calls : WF_vars(Turn(c))
    /\ \A c \in Clients : WF_vars(Late(c))

-----------------------------------------------------------------------------
(* Properties *)

InHand == \E c \in Calls : pc[c] \in {"stop", "save", "unlisten"}

\* Who accepts connections is recorded as open, unless a turn has it in hand: a
\* failed save leaves no server nothing knows about (turn), and a door the
\* reader shut is shut. A door recorded as open need not have anyone behind it:
\* its port may have been taken when the app started.
ServerKnown == loop # "none" /\ ~InHand => agents /\ record.enabled /\ port = record.port

\* What the reader gave an agent keeps working: the server is where it was said
\* to be, and the token is the one shown ("an agent configured once keeps working
\* after a restart", set_agent_access). Where the keychain lost the token, nothing
\* counts as shown until the reader looks again (Lose).
AgentsKeepWorking ==
    /\ record.port # None /\ shown.port # None => record.port = shown.port
    /\ shown.token # None => token = shown.token

\* At most so many connections are served, whatever comes and goes.
PlacesKept == Cardinality(Holding) + (IF loop = "accept" THEN 1 ELSE 0) <= AtOnce

\* Nobody listens who is not on record, an agent that was given a token keeps
\* working, and no more places are taken than there are.
AgentsAnswered == TypeOK /\ ServerKnown /\ AgentsKeepWorking /\ PlacesKept

\* Turning the door waits for no client and no call: a server told to stop lets
\* its port go also when every place is taken by somebody who is silent or never
\* answered (Listening::stop, "the port is asked for again next").
Stopping == cancelled /\ loop # "none"
StopReturns == Stopping ~> ~Stopping

\* A client waiting for a place gets in, however slowly those before it say what
\* they want: a request begun has a deadline for its headers and one for its body
\* (HALF_A_REQUEST). What may keep it waiting is an answer, the keychain, and what
\* the server never times: a socket that has yet to say its first bytes, and a
\* connection of HTTP/2.
Untimed == {"hello", "streams", "check", "answer"}

=============================================================================
