------------------------- MODULE AgentServer_proofs -------------------------
(***************************************************************************)
(* What holds of the agents' door for any number of calls, clients, places *)
(* and servers.                                                            *)
(***************************************************************************)
EXTENDS AgentServer, TLAPS, FiniteSetTheorems

\* What a call was asked for decides which steps it comes by, and one that turns the door
\* has the lock from its first step on.
CallsTurn ==
    \A c \in Calls :
        /\ pc[c] \in {"lock", "find", "stop", "listen", "save", "unlisten"} => want[c] # "look"
        /\ pc[c] = "again" => want[c] = "look"
        /\ pc[c] = "seek" => want[c] \in {"look", "start"}
        /\ pc[c] \in {"token", "make"} => want[c] \in {"look", "open"}
        /\ pc[c] \in {"seek", "token", "make"} /\ want[c] # "look" => lock = c

\* A token that was read is the one there is, and one is made only where there is none.
TokenIsHeard ==
    \A c \in Calls :
        /\ heard[c] # None => token = heard[c]
        /\ pc[c] = "make" => making = c /\ token = None

\* Where a turn is about to open, nothing listens; about to record, it is its own server
\* that does, on the port there was.
TurnsKnow ==
    \A c \in Calls :
        /\ pc[c] = "stop" => ~agents
        /\ pc[c] = "listen" => loop = "none" /\ ~agents /\ Opening(c)
        /\ pc[c] = "save" /\ ~Opening(c) => loop = "none" /\ ~agents
        /\ pc[c] = "save" /\ Opening(c) =>
             port \in Ports /\ (record.port # None => port = record.port)
        /\ want[c] = "start" /\ pc[c] \in {"find", "stop", "listen", "save", "unlisten"} =>
             record.port # None

\* A door that is open or was shown has its port, and every socket is of a server there was.
OnRecord ==
    /\ record.enabled => record.port # None
    /\ shown.port # None => record.port # None
    /\ \A c \in Clients : conn[c].of <= gen

AgInv == AgentsAnswered /\ CallsTurn /\ TokenIsHeard /\ TurnsKnow /\ OnRecord

\* TypeOK, in its parts: where the calls are, who has a turn, and the rest.
CallType ==
    /\ pc \in [Calls -> {"idle", "lock", "seek", "token", "make", "again", "find", "stop",
                         "listen", "save", "unlisten"}]
    /\ want \in [Calls -> {"open", "shut", "look", "start"}]
    /\ heard \in [Calls -> Tokens \cup {None}]
    /\ lock \in Calls \cup {None} /\ making \in Calls \cup {None}

HasTurn == \A c \in Calls : pc[c] \in {"find", "stop", "listen", "save", "unlisten"} => lock = c

RestType ==
    /\ record \in [enabled : BOOLEAN, port : Ports \cup {None}]
    /\ token \in Tokens \cup {None}
    /\ agents \in BOOLEAN /\ gen \in 0..MaxServers /\ port \in Ports \cup {None}
    /\ loop \in {"none", "room", "accept"} /\ cancelled \in BOOLEAN
    /\ backlog \in Seq(Clients) /\ conn \in [Clients -> [stage : Stages, of : 0..MaxServers]]
    /\ shown \in [port : Ports \cup {None}, token : Tokens \cup {None}]
    /\ starts \in 0..MaxStarts /\ lost \in BOOLEAN

-----------------------------------------------------------------------------
(* Places *)

\* The sockets a server holds are as many as they are.
LEMMA HeldFinite ==
    ASSUME TypeOK PROVE IsFiniteSet(Holding) /\ Cardinality(Holding) \in Nat
<1>1. IsFiniteSet(Clients) BY AgentServerAssumption
<1>2. Holding \in SUBSET Clients BY DEF Holding, Served
<1> QED BY <1>1, <1>2, FS_Subset, FS_CardinalityType

\* Where nobody comes to be held, and no place is taken ahead, the places are kept.
LEMMA FewerHeld ==
    ASSUME TypeOK, PlacesKept, TypeOK', Holding' \subseteq Holding,
           loop' = "accept" => loop = "accept"
    PROVE  PlacesKept'
<1>1. IsFiniteSet(Holding) /\ Cardinality(Holding) \in Nat BY HeldFinite
<1>2. Cardinality(Holding') <= Cardinality(Holding) /\ IsFiniteSet(Holding')
    BY <1>1, FS_Subset
<1>3. Cardinality(Holding') \in Nat BY <1>2, FS_CardinalityType
<1>4. AtOnce \in Nat BY AgentServerAssumption
<1> DEFINE h == Cardinality(Holding)
           k == Cardinality(Holding')
<1>5. h + (IF loop = "accept" THEN 1 ELSE 0) <= AtOnce BY DEF PlacesKept
<1>6. h \in Nat /\ k \in Nat /\ k <= h BY <1>1, <1>2, <1>3
<1> HIDE DEF h, k
<1>7. k + (IF loop' = "accept" THEN 1 ELSE 0) <= AtOnce BY <1>4, <1>5, <1>6
<1> QED BY <1>7 DEF k, PlacesKept

\* Where the sockets and who they are of do not change, neither do the places.
LEMMA SameHeld ==
    ASSUME PlacesKept, UNCHANGED <<conn, gen, loop>> PROVE PlacesKept'
BY DEF PlacesKept, Holding, Served

-----------------------------------------------------------------------------
(* The sockets *)

\* A socket moves along, and stays whose it was.
LEMMA Moved ==
    ASSUME TypeOK, NEW c \in Clients, NEW to \in Stages, Moves(c, to)
    PROVE  /\ conn' \in [Clients -> [stage : Stages, of : 0..MaxServers]]
           /\ \A d \in Clients : conn'[d].of = conn[d].of /\ (d # c => conn'[d] = conn[d])
           /\ conn'[c].stage = to
BY DEF TypeOK, Moves, Stages

\* A socket that leaves is nobody's.
LEMMA Left ==
    ASSUME TypeOK, NEW c \in Clients, Leaves(c)
    PROVE  /\ conn' \in [Clients -> [stage : Stages, of : 0..MaxServers]]
           /\ \A d \in Clients : d # c => conn'[d] = conn[d]
           /\ conn'[c].stage = "out" /\ conn'[c].of = 0
<1>1. 0 \in 0..MaxServers BY AgentServerAssumption
<1> QED BY <1>1 DEF TypeOK, Leaves, Out, Stages

\* A step of the sockets alone, by which nobody comes to be held, keeps it all.
LEMMA SocketsMove ==
    ASSUME AgInv, UNCHANGED <<door, calls, secret, server, about>>,
           conn' \in [Clients -> [stage : Stages, of : 0..MaxServers]],
           backlog' \in Seq(Clients), Holding' \subseteq Holding,
           \A c \in Clients : conn'[c].of <= gen
    PROVE  AgInv'
<1> USE DEF door, calls, secret, server, about
<1>1. TypeOK /\ PlacesKept BY DEF AgInv, AgentsAnswered
<1>2. TypeOK' BY <1>1 DEF TypeOK
<1>3. PlacesKept' BY <1>1, <1>2, FewerHeld
<1>4. ServerKnown' /\ AgentsKeepWorking'
    BY DEF AgInv, AgentsAnswered, ServerKnown, InHand, AgentsKeepWorking
<1>5. CallsTurn' /\ TokenIsHeard' BY DEF AgInv, CallsTurn, TokenIsHeard
<1>6. TurnsKnow' BY DEF AgInv, TurnsKnow, Opening
<1>7. OnRecord' BY DEF AgInv, OnRecord
<1> QED BY <1>2, <1>3, <1>4, <1>5, <1>6, <1>7 DEF AgInv, AgentsAnswered

\* A client that comes waits: it takes no place.
LEMMA ConnectKeeps == ASSUME AgInv, NEW c \in Clients, Connect(c) PROVE AgInv'
<1>1. TypeOK /\ gen \in 0..MaxServers BY DEF AgInv, AgentsAnswered, TypeOK
<1>2. conn' \in [Clients -> [stage : Stages, of : 0..MaxServers]]
    BY <1>1 DEF TypeOK, Connect, Stages
<1>3. backlog' \in Seq(Clients) BY <1>1 DEF TypeOK, Connect
<1>4. gen' = gen BY DEF Connect, server
<1>5. \A d \in Clients : /\ d # c => conn'[d] = conn[d]
                         /\ conn'[c] = [stage |-> "queued", of |-> gen]
    BY <1>1 DEF TypeOK, Connect
<1>6. Holding' \subseteq Holding BY <1>4, <1>5 DEF Holding, Served
<1>7. \A d \in Clients : conn'[d].of <= gen BY <1>1, <1>5 DEF AgInv, OnRecord
<1> QED BY <1>2, <1>3, <1>6, <1>7, SocketsMove DEF Connect

\* A client that is let go leaves its place.
LEMMA LeavesKeeps ==
    ASSUME AgInv, NEW c \in Clients, Leaves(c),
           UNCHANGED <<door, calls, secret, server, backlog, about>>
    PROVE  AgInv'
<1>1. TypeOK /\ gen \in 0..MaxServers BY DEF AgInv, AgentsAnswered, TypeOK
<1>2. gen' = gen BY DEF server
<1>3. Holding' \subseteq Holding BY <1>1, <1>2, Left DEF Holding, Served
<1>4. \A d \in Clients : conn'[d].of <= gen BY <1>1, Left DEF AgInv, OnRecord
<1>5. backlog' \in Seq(Clients) BY <1>1 DEF TypeOK
<1> QED BY <1>1, <1>3, <1>4, <1>5, Left, SocketsMove

\* A client that is served goes from one part of its exchange to another.
LEMMA MovesKeeps ==
    ASSUME AgInv, NEW c \in Served, NEW to \in Stages, Moves(c, to),
           UNCHANGED <<door, calls, secret, server, backlog, about>>
    PROVE  AgInv'
<1>1. TypeOK BY DEF AgInv, AgentsAnswered
<1>2. gen' = gen BY DEF server
<1>3. c \in Clients BY DEF Served
<1>4. Holding' \subseteq Holding BY <1>1, <1>2, <1>3, Moved DEF Holding, Served
<1>5. \A d \in Clients : conn'[d].of <= gen BY <1>1, <1>3, Moved DEF AgInv, OnRecord
<1>6. backlog' \in Seq(Clients) BY <1>1 DEF TypeOK
<1> QED BY <1>1, <1>3, <1>4, <1>5, <1>6, Moved, SocketsMove

\* What clients do, and what befalls them, keeps it all.
LEMMA TalkKeeps == ASSUME AgInv, Talk PROVE AgInv'
<1>1. PICK c \in Clients :
        Connect(c) \/ Hello(c) \/ Headers(c) \/ Check(c) \/ Body(c) \/ Answered(c) \/ HangUp(c)
    BY DEF Talk
<1>2. CASE Connect(c) BY <1>2, ConnectKeeps
<1>3. CASE Headers(c) BY <1>3, MovesKeeps DEF Headers, Served, Stages
<1>4. CASE Check(c) BY <1>4, MovesKeeps DEF Check, Served, Stages
<1>5. CASE Body(c) BY <1>5, MovesKeeps DEF Body, Served, Stages
<1>6. CASE Answered(c) BY <1>6, MovesKeeps DEF Answered, Served, Stages
<1>7. CASE HangUp(c) BY <1>7, LeavesKeeps DEF HangUp
<1>8. CASE Hello(c) BY <1>8, MovesKeeps DEF Hello, Served, Stages
<1> QED BY <1>1, <1>2, <1>3, <1>4, <1>5, <1>6, <1>7, <1>8

-----------------------------------------------------------------------------
(* The accept loop *)

\* A place is taken ahead only where there is one.
LEMMA TakeRoomKeeps == ASSUME AgInv, TakeRoom PROVE AgInv'
<1> USE DEF door, calls, secret, sockets, about
<1>1. TypeOK /\ PlacesKept BY DEF AgInv, AgentsAnswered
<1>2. TypeOK' BY <1>1 DEF TypeOK, TakeRoom
<1>3. PlacesKept'
    <2>1. Holding' = Holding BY DEF Holding, Served, TakeRoom
    <2>2. Cardinality(Holding) \in Nat /\ AtOnce \in Nat
        BY <1>1, HeldFinite, AgentServerAssumption
    <2>3. Cardinality(Holding) + 1 <= AtOnce BY <2>2 DEF TakeRoom, HasRoom
    <2> QED BY <2>1, <2>3 DEF PlacesKept, TakeRoom
<1>4. ServerKnown' /\ AgentsKeepWorking'
    BY DEF AgInv, AgentsAnswered, ServerKnown, InHand, AgentsKeepWorking, TakeRoom
<1>5. CallsTurn' /\ TokenIsHeard' BY DEF AgInv, CallsTurn, TokenIsHeard, TakeRoom
<1>6. TurnsKnow' BY DEF AgInv, TurnsKnow, Opening, TakeRoom
<1>7. OnRecord' BY DEF AgInv, OnRecord, TakeRoom
<1> QED BY <1>2, <1>3, <1>4, <1>5, <1>6, <1>7 DEF AgInv, AgentsAnswered

\* Whoever comes in gets the place that was taken ahead.
LEMMA AcceptKeeps == ASSUME AgInv, Accept PROVE AgInv'
<1> USE DEF door, calls, secret, about
<1>1. TypeOK /\ PlacesKept BY DEF AgInv, AgentsAnswered
<1> DEFINE c == Head(backlog)
<1>2. c \in Clients /\ Tail(backlog) \in Seq(Clients) BY <1>1 DEF TypeOK, Accept
<1>3. /\ conn' \in [Clients -> [stage : Stages, of : 0..MaxServers]]
      /\ \A d \in Clients : conn'[d].of = conn[d].of /\ (d # c => conn'[d] = conn[d])
    BY <1>1, <1>2, Moved DEF Accept, Stages
<1>4. TypeOK' BY <1>1, <1>2, <1>3 DEF TypeOK, Accept
<1>5. PlacesKept'
    <2> HIDE DEF c
    <2>0. gen' = gen BY DEF Accept
    <2>1. Holding' \subseteq Holding \cup {c} BY <1>2, <1>3, <2>0 DEF Holding, Served
    <2>2. IsFiniteSet(Holding) /\ Cardinality(Holding) \in Nat BY <1>1, HeldFinite
    <2>3. IsFiniteSet(Holding \cup {c}) /\ Cardinality(Holding \cup {c}) <= Cardinality(Holding) + 1
        BY <2>2, FS_AddElement
    <2>4. /\ Cardinality(Holding') <= Cardinality(Holding \cup {c})
          /\ Cardinality(Holding') \in Nat /\ Cardinality(Holding \cup {c}) \in Nat
        BY <2>1, <2>3, FS_Subset, FS_CardinalityType
    <2>5. Cardinality(Holding) + 1 <= AtOnce BY DEF AgInv, AgentsAnswered, PlacesKept, Accept
    <2>6. AtOnce \in Nat BY AgentServerAssumption
    <2>7. Cardinality(Holding') <= AtOnce BY <2>2, <2>3, <2>4, <2>5, <2>6
    <2> QED BY <2>4, <2>7 DEF PlacesKept, Accept
<1>6. ServerKnown' /\ AgentsKeepWorking'
    BY DEF AgInv, AgentsAnswered, ServerKnown, InHand, AgentsKeepWorking, Accept
<1>7. CallsTurn' /\ TokenIsHeard' BY DEF AgInv, CallsTurn, TokenIsHeard, Accept
<1>8. TurnsKnow' BY DEF AgInv, TurnsKnow, Opening, Accept
<1>9. OnRecord' BY <1>3 DEF AgInv, OnRecord, Accept
<1> QED BY <1>4, <1>5, <1>6, <1>7, <1>8, <1>9 DEF AgInv, AgentsAnswered

\* A server that stops lets its port go, and turns away who waits.
LEMMA BreakKeeps == ASSUME AgInv, Break PROVE AgInv'
<1> USE DEF door, calls, secret, about
<1>1. TypeOK /\ PlacesKept /\ gen \in 0..MaxServers BY DEF AgInv, AgentsAnswered, TypeOK
<1>2. /\ conn' \in [Clients -> [stage : Stages, of : 0..MaxServers]]
      /\ \A d \in Clients : conn'[d] = conn[d] \/ conn'[d] = Out
    <2>1. Out \in [stage : Stages, of : 0..MaxServers]
        BY AgentServerAssumption DEF Out, Stages
    <2> QED BY <1>1, <2>1 DEF TypeOK, Break
<1>3. TypeOK' BY <1>1, <1>2 DEF TypeOK, Break
<1>4. PlacesKept'
    <2>1. Holding' \subseteq Holding BY <1>2 DEF Holding, Served, Break, Out
    <2> QED BY <1>1, <1>3, <2>1, FewerHeld DEF Break
<1>5. ServerKnown' /\ AgentsKeepWorking'
    BY DEF AgInv, AgentsAnswered, ServerKnown, InHand, AgentsKeepWorking, Break
<1>6. CallsTurn' /\ TokenIsHeard' BY DEF AgInv, CallsTurn, TokenIsHeard, Break
<1>7. TurnsKnow' BY DEF AgInv, TurnsKnow, Opening, Break
<1>8. OnRecord' BY <1>1, <1>2 DEF AgInv, OnRecord, Break, Out
<1> QED BY <1>3, <1>4, <1>5, <1>6, <1>7, <1>8 DEF AgInv, AgentsAnswered

\* The server by itself keeps it all.
LEMMA ServeKeeps == ASSUME AgInv, Serve PROVE AgInv'
<1>1. CASE TakeRoom BY <1>1, TakeRoomKeeps
<1>2. CASE Accept BY <1>2, AcceptKeeps
<1>3. CASE Break BY <1>3, BreakKeeps
<1>4. CASE CutOne BY <1>4, LeavesKeeps DEF CutOne, CutOff, Served
<1>5. CASE \E c \in Clients : Late(c) BY <1>5, LeavesKeeps DEF Late
<1> QED BY <1>1, <1>2, <1>3, <1>4, <1>5 DEF Serve

-----------------------------------------------------------------------------
(* The window's calls *)

\* A step of a call that leaves the sockets and the loop alone keeps the places.
LEMMA CallsHold ==
    ASSUME AgInv, UNCHANGED <<conn, gen, loop>> PROVE PlacesKept'
BY SameHeld DEF AgInv, AgentsAnswered

\* A call that is made has no lock yet, and has heard nothing.
LEMMA CallKeeps ==
    ASSUME AgInv, NEW c \in Calls, NEW what \in {"open", "shut", "look"}, Call(c, what)
    PROVE  AgInv'
<1> USE DEF door, secret, server, sockets, about, Call, Goes
<1>1. TypeOK BY DEF AgInv, AgentsAnswered
<1>2. TypeOK' BY <1>1 DEF TypeOK
<1>3. PlacesKept' BY CallsHold
<1>4. ServerKnown' /\ AgentsKeepWorking'
    BY <1>1 DEF AgInv, AgentsAnswered, ServerKnown, InHand, AgentsKeepWorking, TypeOK
<1>5. CallsTurn' BY <1>1 DEF AgInv, CallsTurn, TypeOK
<1>6. TokenIsHeard' BY <1>1 DEF AgInv, TokenIsHeard, TypeOK
<1>7. TurnsKnow' BY <1>1 DEF AgInv, TurnsKnow, Opening, TypeOK
<1>8. OnRecord' BY DEF AgInv, OnRecord
<1> QED BY <1>2, <1>3, <1>4, <1>5, <1>6, <1>7, <1>8 DEF AgInv, AgentsAnswered

\* Nobody else has a turn where the lock is free.
LEMMA LockKeeps == ASSUME AgInv, NEW c \in Calls, Lock(c) PROVE AgInv'
<1> USE AgentServerAssumption DEF secret, Lock, MayTurn, Goes, about, sockets, server
<1>1. TypeOK /\ want[c] # "look" BY DEF AgInv, AgentsAnswered, CallsTurn
<1>2. TypeOK'
    <2>1. CallType'
        <3>1. want[c] \in {"open", "shut", "start"} BY <1>1 DEF TypeOK
        <3>2. \E to \in {"token", "find", "seek"} : pc' = [pc EXCEPT ![c] = to] BY <3>1
        <3> QED BY <1>1, <3>2 DEF TypeOK, CallType
    <2>2. RestType' BY <1>1 DEF TypeOK, RestType, AgInv, TurnsKnow
    <2>3. HasTurn' BY <1>1 DEF TypeOK, HasTurn, AgInv, CallsTurn
    <2> QED BY <2>1, <2>2, <2>3 DEF TypeOK, CallType, RestType, HasTurn
<1>3. PlacesKept' BY CallsHold
<1>4. ServerKnown' BY <1>1 DEF AgInv, AgentsAnswered, ServerKnown, InHand, TypeOK, TurnsKnow
<1>5. AgentsKeepWorking'
    BY <1>1 DEF AgInv, AgentsAnswered, AgentsKeepWorking, TokenIsHeard, OnRecord, TypeOK
<1>6. CallsTurn' BY <1>1 DEF AgInv, CallsTurn, TypeOK
<1>7. TokenIsHeard'
    <2>1. want[c] \in {"open", "shut", "start"} BY <1>1 DEF TypeOK
    <2>2. \E to \in {"token", "find", "seek"} : pc' = [pc EXCEPT ![c] = to] BY <2>1
    <2> QED BY <1>1, <2>2 DEF AgInv, TokenIsHeard, TypeOK
<1>8. TurnsKnow' BY <1>1 DEF AgInv, TurnsKnow, Opening, TypeOK, CallsTurn, OnRecord
<1>9. OnRecord' BY <1>1 DEF AgInv, OnRecord, TypeOK
<1> QED BY <1>2, <1>3, <1>4, <1>5, <1>6, <1>7, <1>8, <1>9 DEF AgInv, AgentsAnswered

\* A door that is recorded as open has a port.
LEMMA SeekKeeps == ASSUME AgInv, NEW c \in Calls, Seek(c) PROVE AgInv'
<1> USE AgentServerAssumption DEF secret, Seek, Goes, Ends, about, sockets, server
<1>1. TypeOK BY DEF AgInv, AgentsAnswered
<1>2. TypeOK'
    <2>1. CallType' BY <1>1 DEF TypeOK, CallType
    <2>2. RestType' BY <1>1 DEF TypeOK, RestType, AgInv, TurnsKnow
    <2>3. HasTurn' BY <1>1 DEF TypeOK, HasTurn, AgInv, CallsTurn
    <2> QED BY <2>1, <2>2, <2>3 DEF TypeOK, CallType, RestType, HasTurn
<1>3. PlacesKept' BY CallsHold
<1>4. ServerKnown' BY <1>1 DEF AgInv, AgentsAnswered, ServerKnown, InHand, TypeOK, TurnsKnow
<1>5. AgentsKeepWorking'
    BY <1>1 DEF AgInv, AgentsAnswered, AgentsKeepWorking, TokenIsHeard, OnRecord, TypeOK
<1>6. CallsTurn' BY <1>1 DEF AgInv, CallsTurn, TypeOK
<1>7. TokenIsHeard' BY <1>1 DEF AgInv, TokenIsHeard, TypeOK
<1>8. TurnsKnow' BY <1>1 DEF AgInv, TurnsKnow, Opening, TypeOK, CallsTurn, OnRecord
<1>9. OnRecord' BY <1>1 DEF AgInv, OnRecord, TypeOK
<1> QED BY <1>2, <1>3, <1>4, <1>5, <1>6, <1>7, <1>8, <1>9 DEF AgInv, AgentsAnswered

\* What is read is the token there is.
LEMMA ReadTokenKeeps == ASSUME AgInv, NEW c \in Calls, ReadToken(c) PROVE AgInv'
<1> USE AgentServerAssumption DEF ReadToken, MayMake, Heard, Goes, door, about, sockets, server
<1>1. TypeOK BY DEF AgInv, AgentsAnswered
<1>2. TypeOK'
    <2>1. CallType'
        <3>1. \E to \in {"again", "find", "make"} : pc' = [pc EXCEPT ![c] = to] OBVIOUS
        <3>2. heard' = heard \/ heard' = [heard EXCEPT ![c] = token] OBVIOUS
        <3>3. making' \in {making, c} OBVIOUS
        <3> QED BY <1>1, <3>1, <3>2, <3>3 DEF TypeOK, CallType
    <2>2. RestType' BY <1>1 DEF TypeOK, RestType, AgInv, TurnsKnow
    <2>3. HasTurn' BY <1>1 DEF TypeOK, HasTurn, AgInv, CallsTurn
    <2> QED BY <2>1, <2>2, <2>3 DEF TypeOK, CallType, RestType, HasTurn
<1>3. PlacesKept' BY CallsHold
<1>4. ServerKnown' BY <1>1 DEF AgInv, AgentsAnswered, ServerKnown, InHand, TypeOK, TurnsKnow
<1>5. AgentsKeepWorking'
    BY <1>1 DEF AgInv, AgentsAnswered, AgentsKeepWorking, TokenIsHeard, OnRecord, TypeOK
<1>6. CallsTurn' BY <1>1 DEF AgInv, CallsTurn, TypeOK
<1>7. TokenIsHeard' BY <1>1 DEF AgInv, TokenIsHeard, TypeOK
<1>8. TurnsKnow' BY <1>1 DEF AgInv, TurnsKnow, Opening, TypeOK, CallsTurn, OnRecord
<1>9. OnRecord' BY <1>1 DEF AgInv, OnRecord, TypeOK
<1> QED BY <1>2, <1>3, <1>4, <1>5, <1>6, <1>7, <1>8, <1>9 DEF AgInv, AgentsAnswered

\* A token is made where there is none, so nobody has heard of another.
LEMMA MakeTokenKeeps == ASSUME AgInv, NEW c \in Calls, MakeToken(c) PROVE AgInv'
<1> USE AgentServerAssumption DEF MakeToken, Heard, Goes, door, about, sockets, server
<1>1. TypeOK BY DEF AgInv, AgentsAnswered
<1>2. TypeOK' BY <1>1 DEF TypeOK, AgInv, CallsTurn, TokenIsHeard, TurnsKnow, Opening
<1>3. PlacesKept' BY CallsHold
<1>4. ServerKnown' BY <1>1 DEF AgInv, AgentsAnswered, ServerKnown, InHand, TypeOK, TurnsKnow
<1>5. AgentsKeepWorking'
    BY <1>1 DEF AgInv, AgentsAnswered, AgentsKeepWorking, TokenIsHeard, OnRecord, TypeOK
<1>6. CallsTurn' BY <1>1 DEF AgInv, CallsTurn, TypeOK
<1>7. TokenIsHeard' BY <1>1 DEF AgInv, TokenIsHeard, TypeOK
<1>8. TurnsKnow' BY <1>1 DEF AgInv, TurnsKnow, Opening, TypeOK, CallsTurn, OnRecord
<1>9. OnRecord' BY <1>1 DEF AgInv, OnRecord, TypeOK
<1> QED BY <1>2, <1>3, <1>4, <1>5, <1>6, <1>7, <1>8, <1>9 DEF AgInv, AgentsAnswered

\* A call that gets no token gives up its turn, or looks again.
LEMMA TokenFailsKeeps == ASSUME AgInv, NEW c \in Calls, TokenFails(c) PROVE AgInv'
<1> USE AgentServerAssumption DEF TokenFails, Goes, Ends, about, sockets, server
<1>1. TypeOK BY DEF AgInv, AgentsAnswered
<1>2. TypeOK'
    <2>1. CallType' BY <1>1 DEF TypeOK, CallType
    <2>2. RestType' BY <1>1 DEF TypeOK, RestType, AgInv, TurnsKnow
    <2>3. HasTurn' BY <1>1 DEF TypeOK, HasTurn, AgInv, CallsTurn
    <2> QED BY <2>1, <2>2, <2>3 DEF TypeOK, CallType, RestType, HasTurn
<1>3. PlacesKept' BY CallsHold
<1>4. ServerKnown' BY <1>1 DEF AgInv, AgentsAnswered, ServerKnown, InHand, TypeOK, TurnsKnow
<1>5. AgentsKeepWorking'
    BY <1>1 DEF AgInv, AgentsAnswered, AgentsKeepWorking, TokenIsHeard, OnRecord, TypeOK
<1>6. CallsTurn' BY <1>1 DEF AgInv, CallsTurn, TypeOK
<1>7. TokenIsHeard' BY <1>1 DEF AgInv, TokenIsHeard, TypeOK
<1>8. TurnsKnow' BY <1>1 DEF AgInv, TurnsKnow, Opening, TypeOK, CallsTurn, OnRecord
<1>9. OnRecord' BY <1>1 DEF AgInv, OnRecord, TypeOK
<1> QED BY <1>2, <1>3, <1>4, <1>5, <1>6, <1>7, <1>8, <1>9 DEF AgInv, AgentsAnswered

\* What is shown is on record, and the token is the one there is.
LEMMA AgainKeeps == ASSUME AgInv, NEW c \in Calls, Again(c) PROVE AgInv'
<1> USE AgentServerAssumption DEF Again, Ends, Goes, secret, about, sockets, server
<1>1. TypeOK BY DEF AgInv, AgentsAnswered
<1>2. TypeOK' BY <1>1 DEF TypeOK, AgInv, CallsTurn, TokenIsHeard, TurnsKnow, Opening
<1>3. PlacesKept' BY CallsHold
<1>4. ServerKnown' BY <1>1 DEF AgInv, AgentsAnswered, ServerKnown, InHand, TypeOK, TurnsKnow
<1>5. AgentsKeepWorking'
    BY <1>1 DEF AgInv, AgentsAnswered, AgentsKeepWorking, TokenIsHeard, OnRecord, TypeOK
<1>6. CallsTurn' BY <1>1 DEF AgInv, CallsTurn, TypeOK
<1>7. TokenIsHeard' BY <1>1 DEF AgInv, TokenIsHeard, TypeOK
<1>8. TurnsKnow' BY <1>1 DEF AgInv, TurnsKnow, Opening, TypeOK, CallsTurn, OnRecord
<1>9. OnRecord' BY <1>1 DEF AgInv, OnRecord, TypeOK
<1> QED BY <1>2, <1>3, <1>4, <1>5, <1>6, <1>7, <1>8, <1>9 DEF AgInv, AgentsAnswered

\* Where no server is held nothing listens, as no other turn is under way.
LEMMA FindKeeps == ASSUME AgInv, NEW c \in Calls, Find(c) PROVE AgInv'
<1> USE AgentServerAssumption DEF Find, Goes, Opening, secret, sockets, about, server
<1>1. TypeOK BY DEF AgInv, AgentsAnswered
<1>2. TypeOK'
    <2>1. CallType' BY <1>1 DEF TypeOK, CallType
    <2>2. RestType' BY <1>1 DEF TypeOK, RestType, AgInv, TurnsKnow
    <2>3. HasTurn' BY <1>1 DEF TypeOK, HasTurn, AgInv, CallsTurn
    <2> QED BY <2>1, <2>2, <2>3 DEF TypeOK, CallType, RestType, HasTurn
<1>3. PlacesKept' BY CallsHold
<1>4. ServerKnown' BY <1>1 DEF AgInv, AgentsAnswered, ServerKnown, InHand, TypeOK, TurnsKnow
<1>5. AgentsKeepWorking'
    BY <1>1 DEF AgInv, AgentsAnswered, AgentsKeepWorking, TokenIsHeard, OnRecord, TypeOK
<1>6. CallsTurn' BY <1>1 DEF AgInv, CallsTurn, TypeOK
<1>7. TokenIsHeard' BY <1>1 DEF AgInv, TokenIsHeard, TypeOK
<1>8. TurnsKnow'
    <2>1. \A d \in Calls : d # c => pc[d] \notin {"find", "stop", "listen", "save", "unlisten"}
        BY <1>1 DEF TypeOK
    <2>2. ~agents => loop = "none"
        BY <2>1 DEF AgInv, AgentsAnswered, ServerKnown, InHand
    <2> QED BY <1>1, <2>1, <2>2 DEF AgInv, TurnsKnow, TypeOK, CallsTurn
<1>9. OnRecord' BY <1>1 DEF AgInv, OnRecord, TypeOK
<1> QED BY <1>2, <1>3, <1>4, <1>5, <1>6, <1>7, <1>8, <1>9 DEF AgInv, AgentsAnswered

\* The server that was told to stop is gone.
LEMMA StoppedKeeps == ASSUME AgInv, NEW c \in Calls, Stopped(c) PROVE AgInv'
<1> USE AgentServerAssumption DEF Stopped, Goes, Opening, door, secret, server, about, sockets
<1>1. TypeOK BY DEF AgInv, AgentsAnswered
<1>2. TypeOK' BY <1>1 DEF TypeOK, AgInv, CallsTurn, TokenIsHeard, TurnsKnow, Opening
<1>3. PlacesKept' BY CallsHold
<1>4. ServerKnown' BY <1>1 DEF AgInv, AgentsAnswered, ServerKnown, InHand, TypeOK, TurnsKnow
<1>5. AgentsKeepWorking'
    BY <1>1 DEF AgInv, AgentsAnswered, AgentsKeepWorking, TokenIsHeard, OnRecord, TypeOK
<1>6. CallsTurn' BY <1>1 DEF AgInv, CallsTurn, TypeOK
<1>7. TokenIsHeard' BY <1>1 DEF AgInv, TokenIsHeard, TypeOK
<1>8. TurnsKnow' BY <1>1 DEF AgInv, TurnsKnow, Opening, TypeOK, CallsTurn, OnRecord
<1>9. OnRecord' BY <1>1 DEF AgInv, OnRecord, TypeOK
<1> QED BY <1>2, <1>3, <1>4, <1>5, <1>6, <1>7, <1>8, <1>9 DEF AgInv, AgentsAnswered

\* A new server starts with every place free.
LEMMA ListenKeeps == ASSUME AgInv, NEW c \in Calls, Listen(c) PROVE AgInv'
<1> USE AgentServerAssumption DEF Listen, Goes, AskedFor, door, secret, sockets, about, server
<1>1. TypeOK BY DEF AgInv, AgentsAnswered
<1>2. TypeOK'
    <2>1. CallType' BY <1>1 DEF TypeOK, CallType
    <2>2. RestType'
        <3>1. gen + 1 \in 0..MaxServers BY <1>1 DEF TypeOK
        <3>2. port' \in Ports BY <1>1 DEF TypeOK
        <3> QED BY <1>1, <3>1, <3>2 DEF TypeOK, RestType
    <2>3. HasTurn' BY <1>1 DEF TypeOK, HasTurn, AgInv, CallsTurn
    <2> QED BY <2>1, <2>2, <2>3 DEF TypeOK, CallType, RestType, HasTurn
<1>3. PlacesKept'
    <2>1. gen \in Nat /\ conn' = conn /\ gen' = gen + 1 /\ loop' = "room"
        BY <1>1 DEF TypeOK
    <2>2. \A d \in Clients : conn[d].of # gen + 1
        <3> TAKE d \in Clients
        <3>1. conn[d].of <= gen /\ conn[d].of \in Nat
            BY <1>1 DEF TypeOK, AgInv, OnRecord
        <3> QED BY <2>1, <3>1
    <2>3. Holding' = {} BY <2>1, <2>2 DEF Holding, Served
    <2>4. Cardinality({}) = 0 BY FS_EmptySet
    <2>5. AtOnce \in Nat BY AgentServerAssumption
    <2> QED BY <2>1, <2>3, <2>4, <2>5 DEF PlacesKept
<1>4. ServerKnown' BY <1>1 DEF AgInv, AgentsAnswered, ServerKnown, InHand, TypeOK, TurnsKnow
<1>5. AgentsKeepWorking'
    BY <1>1 DEF AgInv, AgentsAnswered, AgentsKeepWorking, TokenIsHeard, OnRecord, TypeOK
<1>6. CallsTurn' BY <1>1 DEF AgInv, CallsTurn, TypeOK
<1>7. TokenIsHeard' BY <1>1 DEF AgInv, TokenIsHeard, TypeOK
<1>8. TurnsKnow' BY <1>1 DEF AgInv, TurnsKnow, Opening, TypeOK, CallsTurn, OnRecord
<1>9. OnRecord' BY <1>1 DEF AgInv, OnRecord, TypeOK
<1> QED BY <1>2, <1>3, <1>4, <1>5, <1>6, <1>7, <1>8, <1>9 DEF AgInv, AgentsAnswered

\* Where the port is taken nothing listens.
LEMMA ListenFailsKeeps == ASSUME AgInv, NEW c \in Calls, ListenFails(c) PROVE AgInv'
<1> USE AgentServerAssumption DEF ListenFails, Goes, Ends, secret, server, about, sockets
<1>1. TypeOK BY DEF AgInv, AgentsAnswered
<1>2. TypeOK'
    <2>1. CallType' BY <1>1 DEF TypeOK, CallType
    <2>2. RestType' BY <1>1 DEF TypeOK, RestType, AgInv, TurnsKnow
    <2>3. HasTurn' BY <1>1 DEF TypeOK, HasTurn, AgInv, CallsTurn
    <2> QED BY <2>1, <2>2, <2>3 DEF TypeOK, CallType, RestType, HasTurn
<1>3. PlacesKept' BY CallsHold
<1>4. ServerKnown' BY <1>1 DEF AgInv, AgentsAnswered, ServerKnown, InHand, TypeOK, TurnsKnow
<1>5. AgentsKeepWorking'
    BY <1>1 DEF AgInv, AgentsAnswered, AgentsKeepWorking, TokenIsHeard, OnRecord, TypeOK
<1>6. CallsTurn' BY <1>1 DEF AgInv, CallsTurn, TypeOK
<1>7. TokenIsHeard' BY <1>1 DEF AgInv, TokenIsHeard, TypeOK
<1>8. TurnsKnow' BY <1>1 DEF AgInv, TurnsKnow, Opening, TypeOK, CallsTurn, OnRecord
<1>9. OnRecord' BY <1>1 DEF AgInv, OnRecord, TypeOK
<1> QED BY <1>2, <1>3, <1>4, <1>5, <1>6, <1>7, <1>8, <1>9 DEF AgInv, AgentsAnswered

\* Once the record is written, who listens is on it, on the port there was.
LEMMA SaveKeeps == ASSUME AgInv, NEW c \in Calls, Save(c) PROVE AgInv'
<1> USE AgentServerAssumption DEF Save, Ends, Goes, Opening, secret, server, about, sockets
<1>1. TypeOK BY DEF AgInv, AgentsAnswered
<1>2. TypeOK' BY <1>1 DEF TypeOK, AgInv, CallsTurn, TokenIsHeard, TurnsKnow, Opening
<1>3. PlacesKept' BY CallsHold
<1>4. ServerKnown' BY <1>1 DEF AgInv, AgentsAnswered, ServerKnown, InHand, TypeOK, TurnsKnow
<1>5. AgentsKeepWorking'
    BY <1>1 DEF AgInv, AgentsAnswered, AgentsKeepWorking, TokenIsHeard, TurnsKnow, OnRecord, TypeOK
<1>6. CallsTurn' BY <1>1 DEF AgInv, CallsTurn, TypeOK
<1>7. TokenIsHeard' BY <1>1 DEF AgInv, TokenIsHeard, TypeOK
<1>8. TurnsKnow' BY <1>1 DEF AgInv, TurnsKnow, Opening, TypeOK, CallsTurn, OnRecord
<1>9. OnRecord' BY <1>1 DEF AgInv, OnRecord, TurnsKnow, TypeOK
<1> QED BY <1>2, <1>3, <1>4, <1>5, <1>6, <1>7, <1>8, <1>9 DEF AgInv, AgentsAnswered

\* A server that could not be recorded stays in hand until it is gone.
LEMMA SaveFailsKeeps == ASSUME AgInv, NEW c \in Calls, SaveFails(c) PROVE AgInv'
<1> USE AgentServerAssumption DEF SaveFails, Goes, Ends, NotRecorded, Opening, secret, about, sockets, server
<1>1. TypeOK BY DEF AgInv, AgentsAnswered
<1>2. TypeOK'
    <2>1. CallType' BY <1>1 DEF TypeOK, CallType
    <2>2. RestType' BY <1>1 DEF TypeOK, RestType, AgInv, TurnsKnow
    <2>3. HasTurn' BY <1>1 DEF TypeOK, HasTurn, AgInv, CallsTurn
    <2> QED BY <2>1, <2>2, <2>3 DEF TypeOK, CallType, RestType, HasTurn
<1>3. PlacesKept' BY CallsHold
<1>4. ServerKnown' BY <1>1 DEF AgInv, AgentsAnswered, ServerKnown, InHand, TypeOK, TurnsKnow
<1>5. AgentsKeepWorking'
    BY <1>1 DEF AgInv, AgentsAnswered, AgentsKeepWorking, TokenIsHeard, OnRecord, TypeOK
<1>6. CallsTurn' BY <1>1 DEF AgInv, CallsTurn, TypeOK
<1>7. TokenIsHeard' BY <1>1 DEF AgInv, TokenIsHeard, TypeOK
<1>8. TurnsKnow'
    <2>1. \A d \in Calls : d # c => pc[d] \notin {"find", "stop", "listen", "save", "unlisten"}
        BY <1>1 DEF TypeOK
    <2> QED BY <1>1, <2>1 DEF AgInv, TurnsKnow, TypeOK
<1>9. OnRecord' BY <1>1 DEF AgInv, OnRecord, TypeOK
<1> QED BY <1>2, <1>3, <1>4, <1>5, <1>6, <1>7, <1>8, <1>9 DEF AgInv, AgentsAnswered

\* A server that was not recorded is gone.
LEMMA UnlistenKeeps == ASSUME AgInv, NEW c \in Calls, Unlisten(c) PROVE AgInv'
<1> USE AgentServerAssumption DEF Unlisten, Goes, Ends, secret, server, about, sockets
<1>1. TypeOK BY DEF AgInv, AgentsAnswered
<1>2. TypeOK'
    <2>1. CallType' BY <1>1 DEF TypeOK, CallType
    <2>2. RestType' BY <1>1 DEF TypeOK, RestType, AgInv, TurnsKnow
    <2>3. HasTurn' BY <1>1 DEF TypeOK, HasTurn, AgInv, CallsTurn
    <2> QED BY <2>1, <2>2, <2>3 DEF TypeOK, CallType, RestType, HasTurn
<1>3. PlacesKept' BY CallsHold
<1>4. ServerKnown' BY <1>1 DEF AgInv, AgentsAnswered, ServerKnown, InHand, TypeOK, TurnsKnow
<1>5. AgentsKeepWorking'
    BY <1>1 DEF AgInv, AgentsAnswered, AgentsKeepWorking, TokenIsHeard, OnRecord, TypeOK
<1>6. CallsTurn' BY <1>1 DEF AgInv, CallsTurn, TypeOK
<1>7. TokenIsHeard' BY <1>1 DEF AgInv, TokenIsHeard, TypeOK
<1>8. TurnsKnow' BY <1>1 DEF AgInv, TurnsKnow, Opening, TypeOK, CallsTurn, OnRecord
<1>9. OnRecord' BY <1>1 DEF AgInv, OnRecord, TypeOK
<1> QED BY <1>2, <1>3, <1>4, <1>5, <1>6, <1>7, <1>8, <1>9 DEF AgInv, AgentsAnswered

-----------------------------------------------------------------------------
(* The app *)

\* At first nothing listens and nothing was shown.
LEMMA InitHolds == ASSUME Init PROVE AgInv
<1> USE AgentServerAssumption DEF Init
<1>1. TypeOK
    <2>1. Out \in [stage : Stages, of : 0..MaxServers] BY DEF Out, Stages
    <2>2. <<>> \in Seq(Clients) OBVIOUS
    <2>4. 0 \in 0..MaxServers OBVIOUS
    <2>5. CallType BY DEF CallType
    <2>6. HasTurn BY DEF HasTurn
    <2>7. RestType
        <3>1. conn \in [Clients -> [stage : Stages, of : 0..MaxServers]] BY <2>1
        <3>2. backlog \in Seq(Clients) BY <2>2
        <3>3. record \in [enabled : BOOLEAN, port : Ports \cup {None}] OBVIOUS
        <3>4. shown \in [port : Ports \cup {None}, token : Tokens \cup {None}] OBVIOUS
        <3>5. starts \in 0..MaxStarts /\ lost \in BOOLEAN
            <4>1. starts = 0 /\ MaxStarts \in Nat OBVIOUS
            <4>2. starts \in 0..MaxStarts BY <4>1
            <4>3. lost \in BOOLEAN OBVIOUS
            <4> QED BY <4>2, <4>3
        <3>6. token \in Tokens \cup {None} /\ port \in Ports \cup {None} OBVIOUS
        <3>7. loop \in {"none", "room", "accept"} /\ cancelled \in BOOLEAN OBVIOUS
        <3>8. gen \in 0..MaxServers /\ agents \in BOOLEAN BY <2>4
        <3> QED BY <3>1, <3>2, <3>3, <3>4, <3>5, <3>6, <3>7, <3>8 DEF RestType
    <2> QED BY <2>5, <2>6, <2>7 DEF TypeOK, CallType, HasTurn, RestType
<1>2. PlacesKept
    <2>1. Holding = {} BY DEF Holding, Served, Out
    <2> QED BY <2>1, FS_EmptySet DEF PlacesKept
<1>3. ServerKnown /\ AgentsKeepWorking BY DEF ServerKnown, AgentsKeepWorking
<1>4. CallsTurn /\ TokenIsHeard /\ TurnsKnow BY DEF CallsTurn, TokenIsHeard, TurnsKnow
<1>5. OnRecord BY DEF OnRecord, Out
<1> QED BY <1>1, <1>2, <1>3, <1>4, <1>5 DEF AgInv, AgentsAnswered

\* What an app that starts again has forgotten, it finds on record.
LEMMA RestartKeeps == ASSUME AgInv, Restart PROVE AgInv'
<1> USE AgentServerAssumption DEF Restart
<1>1. TypeOK BY DEF AgInv, AgentsAnswered
<1>2. TypeOK'
    <2>1. Out \in [stage : Stages, of : 0..MaxServers] BY DEF Out, Stages
    <2>2. <<>> \in Seq(Clients) OBVIOUS
    <2>3. starts' \in 0..MaxStarts BY <1>1 DEF TypeOK
    <2>4. 0 \in 0..MaxServers OBVIOUS
    <2>5. CallType' BY <1>1 DEF CallType, TypeOK
    <2>6. HasTurn' BY DEF HasTurn
    <2>7. RestType'
        <3>1. conn' \in [Clients -> [stage : Stages, of : 0..MaxServers]] BY <2>1
        <3>2. backlog' \in Seq(Clients) BY <2>2
        <3> QED BY <1>1, <2>1, <2>2, <2>3, <2>4, <3>1, <3>2 DEF RestType, TypeOK
    <2> QED BY <2>5, <2>6, <2>7 DEF TypeOK, CallType, HasTurn, RestType
<1>3. PlacesKept'
    <2>1. Holding' = {} BY DEF Holding, Served, Out
    <2> QED BY <2>1, FS_EmptySet DEF PlacesKept
<1>4. ServerKnown' /\ AgentsKeepWorking'
    BY DEF AgInv, AgentsAnswered, ServerKnown, AgentsKeepWorking
<1>5. CallsTurn' /\ TokenIsHeard' /\ TurnsKnow' BY DEF CallsTurn, TokenIsHeard, TurnsKnow
<1>6. OnRecord' BY DEF AgInv, OnRecord, Out
<1> QED BY <1>2, <1>3, <1>4, <1>5, <1>6 DEF AgInv, AgentsAnswered

\* A token that is lost is nobody's any more.
LEMMA LoseKeeps == ASSUME AgInv, Lose PROVE AgInv'
<1> USE AgentServerAssumption DEF Lose, door, calls, server, sockets
<1>1. TypeOK BY DEF AgInv, AgentsAnswered
<1>2. TypeOK' BY <1>1 DEF TypeOK
<1>3. PlacesKept' BY CallsHold
<1>4. ServerKnown' BY DEF AgInv, AgentsAnswered, ServerKnown, InHand
<1>5. AgentsKeepWorking' BY <1>1 DEF AgInv, AgentsAnswered, AgentsKeepWorking, TypeOK
<1>6. CallsTurn' BY DEF AgInv, CallsTurn
<1>7. TokenIsHeard' BY DEF AgInv, TokenIsHeard
<1>8. TurnsKnow' BY DEF AgInv, TurnsKnow, Opening
<1>9. OnRecord' BY <1>1 DEF AgInv, OnRecord, TypeOK
<1> QED BY <1>2, <1>3, <1>4, <1>5, <1>6, <1>7, <1>8, <1>9 DEF AgInv, AgentsAnswered

\* Every step keeps it all.
LEMMA StepKeeps == ASSUME AgInv, [Next]_vars PROVE AgInv'
<1>1. CASE \E c \in Calls, what \in {"open", "shut", "look"} : Call(c, what)
    BY <1>1, CallKeeps
<1>2. CASE \E c \in Calls : Turn(c)
    BY <1>2, LockKeeps, SeekKeeps, AgainKeeps, FindKeeps, StoppedKeeps, ListenKeeps,
       ListenFailsKeeps, SaveKeeps, SaveFailsKeeps, UnlistenKeeps DEF Turn
<1>3. CASE \E c \in Calls : Keychain(c)
    BY <1>3, ReadTokenKeeps, MakeTokenKeeps, TokenFailsKeeps DEF Keychain
<1>4. CASE Serve BY <1>4, ServeKeeps
<1>5. CASE Talk BY <1>5, TalkKeeps
<1>6. CASE Restart BY <1>6, RestartKeeps
<1>7. CASE Lose BY <1>7, LoseKeeps
<1>8. CASE UNCHANGED vars
    <2> USE <1>8 DEF vars, door, calls, secret, server, sockets, about
    <2>1. TypeOK' BY DEF AgInv, AgentsAnswered, TypeOK
    <2>2. PlacesKept' BY CallsHold
    <2>3. ServerKnown' /\ AgentsKeepWorking'
        BY DEF AgInv, AgentsAnswered, ServerKnown, InHand, AgentsKeepWorking
    <2>4. CallsTurn' /\ TokenIsHeard' BY DEF AgInv, CallsTurn, TokenIsHeard
    <2>5. TurnsKnow' BY DEF AgInv, TurnsKnow, Opening
    <2>6. OnRecord' BY DEF AgInv, OnRecord
    <2> QED BY <2>1, <2>2, <2>3, <2>4, <2>5, <2>6 DEF AgInv, AgentsAnswered
<1> QED BY <1>1, <1>2, <1>3, <1>4, <1>5, <1>6, <1>7, <1>8 DEF Next

\* Nobody listens who is not on record, what an agent was given keeps working, and no
\* more places are taken than there are, whatever calls, clients and starts come between.
THEOREM AgentsAreAnswered == Spec => []AgentsAnswered
<1>1. Init => AgInv BY InitHolds
<1>2. AgInv /\ [Next]_vars => AgInv' BY StepKeeps
<1>3. AgInv => AgentsAnswered BY DEF AgInv
<1> QED BY <1>1, <1>2, <1>3, PTL DEF Spec

=============================================================================
