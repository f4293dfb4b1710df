-------------------------- MODULE PgSession_proofs --------------------------
(***************************************************************************)
(* What holds of a session for any number of callers and connections: what *)
(* it does to the server's transaction, that it keeps what                 *)
(* ReaderTransaction promises and tells how a save went, and that its      *)
(* header shows where it stands.                                           *)
(***************************************************************************)
EXTENDS PgSession, TransactionHeader, TLAPS

\* Sets of writes that may be made permanent, and those of the reader's statements.
Keepable(S) ==
    /\ S \cap ({"explain", "reading"} \X {1, 2}) = {}
    /\ Label("save", 1) \in S <=> Label("save", 2) \in S
Readers1 == {Label("write", 1)}

\* Jobs whose statement runs inside a transaction of the driver's.
Guarded == {"explain", "reading", "escape"}

-----------------------------------------------------------------------------
(* The inductive invariant *)

\* One call has the lock, and a connection if it is past opening one. The slot is empty
\* while its work runs, and the connection is back in it while it is asked where it stands.
OneHolder ==
    /\ holder = None => conn = None /\ ~inside /\ \A t \in Tasks : pc[t] \in {"idle", "waiting"}
    /\ holder # None =>
         /\ pc[holder] \notin {"idle", "waiting"}
         /\ \A t \in Tasks : t # holder => pc[t] \in {"idle", "waiting"}
         /\ pc[holder] = "connect" => conn = None /\ held = None /\ reported = "idle" /\ ~inside
         /\ pc[holder] \in WorkPcs => conn # None /\ held = None
         /\ pc[holder] \in StatePcs => conn # None /\ held = conn
    /\ \A t \in Tasks : pc[t] # "idle" => job[t] \in JobsOf[whose]

\* What the server has no connection for, it knows nothing of; what is used is there.
NoneKnown ==
    /\ \A c \in Conns : tx[c] = None =>
         /\ wire[c] = None /\ reply[c] = None /\ c \notin broken
         /\ own[c] = "reader" /\ pending[c] = {} /\ saved[c] = None
    /\ held # None => tx[held] # None
    /\ conn # None => tx[conn] # None /\ wire[conn] # None

\* A closed connection answers so.
BrokenTell == \A c \in broken : wire[c] # None => reply[c] = "lost"

\* Whatever connection was dropped on the way, what the server has not yet executed
\* makes nothing permanent that may not be.
SafeToServe ==
    \A c \in Conns : wire[c] # None /\ reply[c] = None /\ c \notin broken =>
        /\ wire[c].command = "commit" => Keepable(pending[c])
        /\ wire[c].command = "write" /\ tx[c] = "idle" => Keepable(wire[c].writes)

\* A connection that is nobody's but the reader's: whose transaction x it is, by o, with
\* what was written, pe, and no savepoint sa.
Clean(o, pe, sa) == o = "reader" /\ pe \subseteq Readers1 /\ sa = None

\* Where the work of job j is when its step p has sent w and the server has answered r,
\* or not yet: the transaction at the server.
AtServer(p, j, in, w, r, x, o, pe, sa) ==
    /\ p # "drain" => w.command = Command(j, p, in) /\ w.writes = WritesOf(j, p)
    /\ in => j = "explain"
    /\ p = "drain" => w.command = "ask" /\ Clean(o, pe, sa) /\ x = "idle" /\ r \in {None, x} /\ ~in
    /\ p \in {"ask", "state"} => Clean(o, pe, sa) /\ x \in States /\ r \in {None, x}
    /\ p = "ask" => j \in {"explain", "save"} /\ ~in
    /\ p = "open" =>
         /\ j \in Guarded \cup {"save"}
         /\ r = None => Clean(o, pe, sa) /\ x = IF in THEN "open" ELSE "idle"
         /\ r # None =>
              /\ r = "ok" /\ x = "open"
              /\ in => o = "reader" /\ pe \subseteq Readers1 /\ sa # None /\ sa \subseteq Readers1
              /\ ~in => pe = {} /\ sa = None /\ o = IF j = "save" THEN "saving" ELSE "reading"
    /\ p = "main" /\ j \notin Guarded => Clean(o, pe, sa) /\ x \in States /\ r \in {None, "ok", "error"}
    /\ p = "main" => j # "save"
    /\ p = "main" /\ j \in Guarded =>
         /\ r = None => x = "open" /\ (~in => pe = {} /\ o = "reading")
         /\ r \in {None, "ok", "error"}
         /\ in => x \in {"open", "failed"} /\ o = "reader" /\ sa # None /\ sa \subseteq Readers1
    /\ p = "end" =>
         /\ j \in Guarded
         /\ r = None /\ in => x \in {"open", "failed"} /\ o = "reader" /\ sa # None /\ sa \subseteq Readers1
         /\ r # None => r = "ok" /\ Clean(o, pe, sa) /\ x = IF in THEN "open" ELSE "idle"
    /\ p \in {"put1", "put2"} =>
         LET before == IF p = "put1" THEN {} ELSE {Label("save", 1)} IN
         /\ j = "save" /\ r \in {None, "ok", "error", "stale"}
         /\ r = None => x = "open" /\ o = "saving" /\ pe = before
         /\ r = "ok" => x = "open" /\ o = "saving" /\ pe = before \cup WritesOf(j, p)
    /\ p = "keep" =>
         /\ j = "save" /\ r \in {None, "ok", "error"}
         /\ r = None => x = "open" /\ pe = {Label("save", 1), Label("save", 2)}
         /\ r # None => Clean(o, pe, sa) /\ x = "idle"
    /\ p = "undo" => j = "save" /\ (r # None => r = "ok" /\ Clean(o, pe, sa) /\ x = "idle")

InWork ==
    holder # None /\ conn # None /\ conn \notin broken =>
        AtServer(pc[holder], job[holder], inside, wire[conn], reply[conn], tx[conn], own[conn],
                 pending[conn], saved[conn])

\* Between jobs the connection is the reader's, and the header is told so. One that was
\* given up on in the middle of an answer is an agent's.
AtRest ==
    holder = None /\ Whole(held) =>
        /\ Clean(own[held], pending[held], saved[held]) /\ tx[held] \in States
        /\ wire[held] # None =>
               wire[held].command = "ask" /\ tx[held] = "idle" /\ reply[held] \in {None, "idle"}

\* An agent is inside a transaction only while its statement runs.
AgentsIdle ==
    whose = "Agent" =>
        /\ reported = "idle" /\ ~inside
        /\ \A c \in {held, conn} : Whole(c) /\ (holder # None => pc[holder] \in {"drain", "ask", "state"}) =>
              tx[c] = "idle"
        /\ holder # None /\ pc[holder] = "open" /\ Whole(conn) /\ reply[conn] = None => tx[conn] = "idle"

IInv ==
    /\ TypeOK /\ OneHolder /\ NoneKnown /\ BrokenTell /\ SafeToServe /\ InWork /\ AtRest
    /\ AgentsIdle /\ ReportedTruly /\ NothingKept

-----------------------------------------------------------------------------

\* A new session satisfies the invariant.
LEMMA InitKeeps == Init => IInv
<1> SUFFICES ASSUME Init PROVE IInv
  OBVIOUS
<1>1. TypeOK
  <2>1. queue \in Seq(Tasks)
    BY DEF Init
  <2>5. whose \in Owners /\ reported \in States /\ inside \in BOOLEAN /\ outcome \in Answers
    BY DEF Init, States, Answers
  <2>6. holder = None /\ held = None /\ conn = None
    BY DEF Init
  <2>7. cancelled \subseteq Tasks /\ broken \subseteq Conns /\ committed \subseteq Written
    BY DEF Init
  <2>2. /\ pc \in [Tasks -> Pcs] /\ job \in [Tasks -> JobsOf[whose] \cup {None}]
        /\ answer \in [Tasks -> Answers \cup {None}]
    BY DEF Init, Pcs
  <2>3. /\ wire \in [Conns -> Sent \cup {None}] /\ reply \in [Conns -> Replies \cup {None}]
        /\ tx \in [Conns -> States \cup {None}]
        /\ own \in [Conns -> {"reader", "reading", "saving"}]
    BY DEF Init
  <2>4. pending \in [Conns -> SUBSET Written] /\ saved \in [Conns -> {None} \cup SUBSET Written]
    BY DEF Init
  <2> QED
    BY <2>1, <2>2, <2>3, <2>4, <2>5, <2>6, <2>7 DEF TypeOK
<1>2. OneHolder /\ InWork /\ AtRest /\ AgentsIdle /\ ReportedTruly
  BY NoneAssumption DEF Init, OneHolder, InWork, AtRest, AgentsIdle, ReportedTruly, Whole
<1>3. NoneKnown /\ BrokenTell /\ SafeToServe /\ NothingKept
  BY NoneAssumption DEF Init, NoneKnown, BrokenTell, SafeToServe, NothingKept, Label
<1> QED
  BY <1>1, <1>2, <1>3 DEF IInv

-----------------------------------------------------------------------------
(* What the server does *)

\* What work in hand has asked for may be executed, also when nobody waits for it any more.
LEMMA WorkIsSafe ==
    ASSUME NEW p \in WorkPcs \cup StatePcs, NEW j, NEW in \in BOOLEAN, NEW w \in Sent,
           NEW x, NEW o, NEW pe, NEW sa, AtServer(p, j, in, w, None, x, o, pe, sa)
    PROVE  /\ w.command = "commit" => Keepable(pe)
           /\ w.command = "write" /\ x = "idle" => Keepable(w.writes)
<1>1. p = "drain" => w.command = "ask"
  BY DEF AtServer
<1>2. p # "drain" => w.command = Command(j, p, in) /\ w.writes = WritesOf(j, p)
  BY DEF AtServer
<1>3. CASE p \in {"ask", "state", "undo"}
  BY <1>2, <1>3 DEF Command
<1>4. CASE p = "end"
  BY <1>2, <1>4 DEF Command, EndOf
<1>5. CASE p = "open"
  BY <1>2, <1>5 DEF Command
<1>6. CASE p \in {"put1", "put2"}
  <2>1. w.command = "write"
    BY <1>2, <1>6 DEF Command
  <2>2. x = "open"
    BY <1>6 DEF AtServer
  <2> QED
    BY <2>1, <2>2
<1>7. CASE p = "keep"
  <2>1. w.command = "commit"
    BY <1>2, <1>7 DEF Command
  <2>2. pe = {Label("save", 1), Label("save", 2)}
    BY <1>7 DEF AtServer
  <2> QED
    BY <2>1, <2>2 DEF Keepable, Label
<1>8. CASE p = "main" /\ j \in Guarded
  <2>1. w.command = "commit" => j = "escape"
    BY <1>2, <1>8 DEF Command, Guarded
  <2>2. /\ x = "open" /\ (~in => pe = {})
        /\ in => j = "explain"
    BY <1>8 DEF AtServer
  <2> QED
    BY <2>1, <2>2 DEF Keepable, Label
<1>9. CASE p = "main" /\ j \notin Guarded
  <2>1. pe \subseteq Readers1
    BY <1>9 DEF AtServer, Clean
  <2>2. w.writes \subseteq Readers1
    BY <1>2, <1>9 DEF AtServer, WritesOf, Readers1, Guarded
  <2> QED
    BY <2>1, <2>2 DEF Keepable, Readers1, Label
<1> QED
  BY <1>1, <1>3, <1>4, <1>5, <1>6, <1>7, <1>8, <1>9 DEF WorkPcs, StatePcs

\* The rest of the state is as it was for all connections but c.
OthersKeep(c) ==
    \A d \in Conns : d # c =>
        /\ reply'[d] = reply[d] /\ tx'[d] = tx[d] /\ own'[d] = own[d]
        /\ pending'[d] = pending[d] /\ saved'[d] = saved[d]

\* The answer r of connection c, and its transaction after it.
Leaves(c, x, o, pe, sa, r) ==
    /\ tx'[c] = x /\ own'[c] = o /\ pending'[c] = pe /\ saved'[c] = sa /\ reply'[c] = r

Stays(c, r) == Leaves(c, tx[c], own[c], pending[c], saved[c], r)
Fails(c) == Leaves(c, "failed", own[c], pending[c], saved[c], "error")
Ends(c, r) == Leaves(c, "idle", "reader", {}, None, r)

\* What each command does, wherever the transaction stands.
ServedAs(c, w) ==
    /\ w.command = "ask" => Stays(c, tx[c])
    /\ w.command \in {"begin", "begin reading"} /\ tx[c] = "idle" =>
           Leaves(c, "open", IF w.command = "begin reading" THEN "reading"
                             ELSE IF Label("save", 1) \in w.writes THEN "saving" ELSE "reader",
                  {}, None, "ok")
    /\ w.command = "begin" /\ tx[c] # "idle" => Stays(c, "ok") \/ Stays(c, "error")
    /\ w.command = "read" => Stays(c, "ok") \/ Stays(c, "error") \/ Fails(c)
    /\ w.command = "write" =>
           \/ Stays(c, "error")
           \/ Fails(c)
           \/ own[c] = "saving" /\ Stays(c, "stale")
           \/ tx[c] = "idle" /\ Ends(c, "ok")
           \/ /\ tx[c] = "open"
              /\ Leaves(c, "open", own[c], pending[c] \cup w.writes, saved[c], "ok")
    /\ w.command = "savepoint" /\ tx[c] = "open" =>
           Leaves(c, "open", own[c], pending[c], pending[c], "ok")
    /\ w.command = "rollback to" => Leaves(c, "open", own[c], saved[c], None, "ok")
    /\ w.command = "commit" => Ends(c, "ok") \/ Ends(c, "error")
    /\ w.command = "rollback" => Ends(c, "ok")

\* After, connection by connection.
LEMMA AfterIs ==
    ASSUME TypeOK, NEW c \in Conns, NEW x, NEW o, NEW pe, NEW sa, NEW kept, NEW r,
           After(c, x, o, pe, sa, kept, r)
    PROVE  /\ Leaves(c, x, o, pe, sa, r) /\ OthersKeep(c) /\ committed' = committed \cup kept
           /\ UNCHANGED <<client, wire, broken>>
BY DEF After, TypeOK, Leaves, OthersKeep

\* The server executes one command, and only where one is to be executed.
LEMMA ServeIs ==
    ASSUME TypeOK, NEW c \in Conns, tx[c] # None, Serve(c)
    PROVE  wire[c] # None /\ reply[c] = None /\ c \notin broken /\ ServedAs(c, wire[c])
<1> DEFINE w == wire[c]
<1>1. w # None /\ reply[c] = None /\ c \notin broken
  BY DEF Serve
<1>2. \A r : Unmoved(c, r) => Stays(c, r)
  BY AfterIs DEF Unmoved, Stays
<1>3. \A kept, r : Ended(c, kept, r) => Ends(c, r)
  BY AfterIs DEF Ended, Ends
<1>4. Failed(c) => Stays(c, "error") \/ Fails(c)
  BY <1>2, AfterIs DEF Failed, Fails
<1>0. SUFFICES ServedAs(c, w)
  BY <1>1
<1>5. CASE tx[c] = "failed" /\ w.command \notin {"commit", "rollback", "rollback to"}
           /\ Unmoved(c, IF w.command = "ask" THEN "failed" ELSE "error")
  <2>1. CASE w.command = "ask"
    BY <1>2, <1>5, <2>1 DEF ServedAs
  <2>2. CASE w.command # "ask"
    <3>1. Stays(c, "error")
      BY <1>2, <1>5, <2>2
    <3>2. tx[c] # "idle" /\ tx[c] # "open"
      BY <1>5
    <3>3. w.command \notin {"commit", "rollback", "rollback to"}
      BY <1>5
    <3> QED
      BY <2>2, <3>1, <3>2, <3>3 DEF ServedAs
  <2> QED
    BY <2>1, <2>2
<1>6. CASE tx[c] # "failed" /\ w.command = "ask" /\ Unmoved(c, tx[c])
  BY <1>2, <1>6 DEF ServedAs
<1>7. CASE /\ tx[c] # "failed" /\ w.command \in {"begin", "begin reading"}
           /\ Began(c, IF w.command = "begin reading" THEN "reading"
                       ELSE IF Label("save", 1) \in w.writes THEN "saving" ELSE "reader")
  <2>1. CASE tx[c] = "open"
    BY <1>2, <1>7, <2>1 DEF Began, ServedAs
  <2>2. CASE tx[c] # "open"
    <3>1. Leaves(c, "open", IF w.command = "begin reading" THEN "reading"
                            ELSE IF Label("save", 1) \in w.writes THEN "saving" ELSE "reader",
                 {}, None, "ok")
      BY <1>7, <2>2, AfterIs DEF Began
    <3>2. tx[c] = "idle"
      BY <1>7, <2>2 DEF TypeOK, States
    <3> QED
      BY <1>7, <2>2, <3>1, <3>2 DEF ServedAs
  <2> QED
    BY <2>1, <2>2
<1>8. CASE tx[c] # "failed" /\ w.command = "read" /\ (Unmoved(c, "ok") \/ Failed(c))
  BY <1>2, <1>4, <1>8 DEF ServedAs
<1>9. CASE /\ tx[c] # "failed" /\ w.command = "write"
           /\ \/ tx[c] = "idle" /\ Ended(c, w.writes, "ok")
              \/ /\ tx[c] = "open"
                 /\ After(c, "open", own[c], pending[c] \cup w.writes, saved[c], {}, "ok")
              \/ own[c] = "saving" /\ Unmoved(c, "stale")
              \/ Failed(c)
  <2>1. CASE tx[c] = "idle" /\ Ended(c, w.writes, "ok")
    BY <1>3, <1>9, <2>1 DEF ServedAs
  <2>2. CASE /\ tx[c] = "open"
             /\ After(c, "open", own[c], pending[c] \cup w.writes, saved[c], {}, "ok")
    BY <1>9, <2>2, AfterIs DEF ServedAs
  <2>3. CASE own[c] = "saving" /\ Unmoved(c, "stale")
    BY <1>2, <1>9, <2>3 DEF ServedAs
  <2>4. CASE Failed(c)
    <3>1. Stays(c, "error") \/ Fails(c)
      BY <1>4, <2>4
    <3>2. w.command = "write"
      BY <1>9
    <3> QED
      BY <3>1, <3>2 DEF ServedAs
  <2> QED
    BY <1>9, <2>1, <2>2, <2>3, <2>4
<1>10. CASE /\ tx[c] = "open" /\ w.command = "savepoint"
            /\ After(c, "open", own[c], pending[c], pending[c], {}, "ok")
  BY <1>10, AfterIs DEF ServedAs
<1>11. CASE /\ saved[c] # None /\ w.command = "rollback to"
            /\ After(c, "open", own[c], saved[c], None, {}, "ok")
  BY <1>11, AfterIs DEF ServedAs
<1>12. CASE /\ w.command = "commit"
            /\ \/ tx[c] # "failed" /\ Ended(c, pending[c], "ok")
               \/ tx[c] = "failed" /\ Ended(c, {}, "ok")
               \/ tx[c] = "open" /\ Ended(c, {}, "error")
  BY <1>3, <1>12 DEF ServedAs
<1>13. CASE w.command = "rollback" /\ Ended(c, {}, "ok")
  BY <1>3, <1>13 DEF ServedAs
<1> QED
  BY <1>5, <1>6, <1>7, <1>8, <1>9, <1>10, <1>11, <1>12, <1>13 DEF Serve

\* The work in hand finds the answer it can deal with.
LEMMA ServedWork ==
    ASSUME TypeOK, NEW c \in Conns, tx[c] # None, Serve(c),
           NEW p \in WorkPcs \cup StatePcs, NEW j, NEW in \in BOOLEAN,
           AtServer(p, j, in, wire[c], None, tx[c], own[c], pending[c], saved[c])
    PROVE  AtServer(p, j, in, wire[c], reply'[c], tx'[c], own'[c], pending'[c], saved'[c])
<1> DEFINE w == wire[c]
<1>1. ServedAs(c, w) /\ w \in Sent
  BY ServeIs DEF TypeOK
<1>2. /\ p # "drain" => w.command = Command(j, p, in) /\ w.writes = WritesOf(j, p)
      /\ in => j = "explain"
  BY DEF AtServer
<1> HIDE DEF w
<1>3. CASE p \in {"drain", "ask", "state"}
  <2>1. w.command = "ask"
    BY <1>2, <1>3 DEF AtServer, Command, w
  <2>2. Leaves(c, tx[c], own[c], pending[c], saved[c], tx[c])
    BY <1>1, <2>1 DEF ServedAs, Stays
  <2> QED
    BY <1>2, <1>3, <2>1, <2>2 DEF AtServer, Leaves, w
<1>4. CASE p = "open"
  <2>1. /\ j \in Guarded \cup {"save"}
        /\ own[c] = "reader" /\ pending[c] \subseteq Readers1 /\ tx[c] = IF in THEN "open" ELSE "idle"
    BY <1>4 DEF AtServer, Clean
  <2>2. CASE in
    <3>1. w.command = "savepoint"
      BY <1>2, <1>4, <2>2 DEF Command
    <3>2. Leaves(c, "open", own[c], pending[c], pending[c], "ok")
      BY <1>1, <2>1, <2>2, <3>1 DEF ServedAs
    <3>3. pending[c] # None
      BY NoneAssumption DEF TypeOK
    <3> QED
      BY <1>2, <1>4, <2>1, <2>2, <3>2, <3>3, NoneAssumption DEF AtServer, Leaves, w, Replies
  <2>3. CASE ~in
    <3>1. /\ w.command = IF j = "save" THEN "begin" ELSE "begin reading"
          /\ Label("save", 1) \in w.writes <=> j = "save"
      BY <1>2, <1>4, <2>1, <2>3 DEF Command, WritesOf, Label, Guarded
    <3>2. Leaves(c, "open", IF j = "save" THEN "saving" ELSE "reading", {}, None, "ok")
      BY <1>1, <2>1, <2>3, <3>1 DEF ServedAs, Guarded
    <3> QED
      BY <1>2, <1>4, <2>1, <2>3, <3>2, NoneAssumption DEF AtServer, Leaves, w, Replies
  <2> QED
    BY <2>2, <2>3
<1>5. CASE p = "main" /\ j \in Guarded
  <2>1. /\ tx[c] = "open" /\ j # "save"
        /\ in => own[c] = "reader" /\ saved[c] # None /\ saved[c] \subseteq Readers1
        /\ ~in => own[c] = "reading"
    BY <1>5 DEF AtServer
  <2>2. CASE j = "escape"
    <3>1. w.command = "commit" /\ ~in
      BY <1>2, <1>5, <2>2 DEF Command
    <3>2. Ends(c, "ok") \/ Ends(c, "error")
      BY <1>1, <3>1 DEF ServedAs
    <3> QED
      BY <1>2, <1>5, <2>1, <3>1, <3>2, NoneAssumption DEF AtServer, Ends, Leaves, w, Replies
  <2>3. CASE j \in {"explain", "reading"}
    <3>1. w.command = "write"
      BY <1>2, <1>5, <2>3 DEF Command
    <3>2. \/ Leaves(c, tx[c], own[c], pending[c], saved[c], "error")
          \/ Leaves(c, "failed", own[c], pending[c], saved[c], "error")
          \/ Leaves(c, "open", own[c], pending[c] \cup w.writes, saved[c], "ok")
      BY <1>1, <2>1, <3>1 DEF ServedAs, Stays, Fails
    <3> QED
      BY <1>2, <1>5, <2>1, <3>2, NoneAssumption DEF AtServer, Leaves, w, Replies
  <2> QED
    BY <1>5, <2>2, <2>3 DEF Guarded
<1>6. CASE p = "main" /\ j \notin Guarded
  <2>1. /\ own[c] = "reader" /\ pending[c] \subseteq Readers1 /\ saved[c] = None
        /\ tx[c] \in States /\ j # "save" /\ ~in
    BY <1>2, <1>6 DEF AtServer, Clean, Guarded
  <2>2. /\ w.command \in {"begin", "commit", "rollback", "read", "write"}
        /\ w.writes \subseteq Readers1
        /\ Label("save", 1) \notin w.writes
    BY <1>2, <1>6, <2>1 DEF Command, WritesOf, Readers1, Guarded, Label
  <2>3. \/ \E r \in {"ok", "error"} : Stays(c, r) \/ Ends(c, r)
        \/ Fails(c)
        \/ Leaves(c, "open", "reader", {}, None, "ok")
        \/ Leaves(c, "open", own[c], pending[c] \cup w.writes, saved[c], "ok")
    BY <1>1, <2>1, <2>2 DEF ServedAs
  <2>4. tx'[c] \in States /\ reply'[c] \in {"ok", "error"} /\ Clean(own'[c], pending'[c], saved'[c])
    BY <2>1, <2>2, <2>3 DEF Stays, Ends, Fails, Leaves, Clean, States
  <2> QED
    BY <1>2, <1>6, <2>1, <2>4, NoneAssumption DEF AtServer, w, Replies
<1>7. CASE p = "end"
  <2>1. /\ j \in Guarded
        /\ in => own[c] = "reader" /\ saved[c] # None /\ saved[c] \subseteq Readers1
    BY <1>7 DEF AtServer
  <2>2. CASE in
    <3>1. w.command = "rollback to"
      BY <1>2, <1>7, <2>2 DEF Command, EndOf
    <3>2. Leaves(c, "open", own[c], saved[c], None, "ok")
      BY <1>1, <3>1 DEF ServedAs
    <3> QED
      BY <1>2, <1>7, <2>1, <2>2, <3>2, NoneAssumption DEF AtServer, Leaves, Clean, w, Replies
  <2>3. CASE ~in
    <3>1. w.command = "rollback"
      BY <1>2, <1>7, <2>3 DEF Command, EndOf
    <3>2. Ends(c, "ok")
      BY <1>1, <3>1 DEF ServedAs
    <3> QED
      BY <1>2, <1>7, <2>1, <2>3, <3>2, NoneAssumption DEF AtServer, Ends, Leaves, Clean, w, Replies
  <2> QED
    BY <2>2, <2>3
<1>8. CASE p \in {"put1", "put2"}
  <2>1. /\ j = "save" /\ tx[c] = "open" /\ own[c] = "saving"
        /\ pending[c] = IF p = "put1" THEN {} ELSE {Label("save", 1)}
    BY <1>8 DEF AtServer
  <2>2. w.command = "write"
    BY <1>2, <1>8 DEF Command
  <2>3. \/ Stays(c, "error") \/ Stays(c, "stale") \/ Fails(c)
        \/ Leaves(c, "open", own[c], pending[c] \cup WritesOf(j, p), saved[c], "ok")
    BY <1>1, <1>2, <1>8, <2>1, <2>2 DEF ServedAs
  <2> QED
    BY <1>2, <1>8, <2>1, <2>3, NoneAssumption DEF AtServer, Stays, Fails, Leaves, w, Replies
<1>9. CASE p = "keep"
  <2>1. j = "save" /\ w.command = "commit"
    BY <1>2, <1>9 DEF Command, AtServer
  <2>2. Ends(c, "ok") \/ Ends(c, "error")
    BY <1>1, <2>1 DEF ServedAs
  <2> QED
    BY <1>2, <1>9, <2>1, <2>2, NoneAssumption DEF AtServer, Ends, Leaves, Clean, w, Replies
<1>10. CASE p = "undo"
  <2>1. j = "save" /\ w.command = "rollback"
    BY <1>2, <1>10 DEF Command, AtServer
  <2>2. Ends(c, "ok")
    BY <1>1, <2>1 DEF ServedAs
  <2> QED
    BY <1>2, <1>10, <2>1, <2>2, NoneAssumption DEF AtServer, Ends, Leaves, Clean, w, Replies
<1> QED
  BY <1>3, <1>4, <1>5, <1>6, <1>7, <1>8, <1>9, <1>10 DEF WorkPcs, StatePcs

\* The server moves one connection, and makes permanent only what was written in a transaction
\* that it commits, or outside one.
LEMMA ServeFrame ==
    ASSUME TypeOK, NEW c \in Conns, tx[c] # None, Serve(c)
    PROVE  /\ TypeOK' /\ OthersKeep(c) /\ UNCHANGED <<client, wire, broken>>
           /\ reply'[c] # None /\ tx'[c] # None
           /\ \/ committed' = committed
              \/ wire[c].command = "commit" /\ committed' = committed \cup pending[c]
              \/ /\ wire[c].command = "write" /\ tx[c] = "idle"
                 /\ committed' = committed \cup wire[c].writes
<1> DEFINE Kept == \/ committed' = committed
                   \/ wire[c].command = "commit" /\ committed' = committed \cup pending[c]
                   \/ /\ wire[c].command = "write" /\ tx[c] = "idle"
                      /\ committed' = committed \cup wire[c].writes
           Goal == /\ TypeOK' /\ OthersKeep(c) /\ UNCHANGED <<client, wire, broken>>
                   /\ reply'[c] # None /\ tx'[c] # None
<1>1. wire[c] \in Sent /\ wire[c].writes \subseteq Written
  BY DEF Serve, TypeOK, Sent
<1>2. ASSUME NEW x \in States, NEW o \in {"reader", "reading", "saving"}, NEW pe \in SUBSET Written,
             NEW sa \in {None} \cup SUBSET Written, NEW kept \in SUBSET Written, NEW r \in Replies,
             After(c, x, o, pe, sa, kept, r)
      PROVE  Goal /\ committed' = committed \cup kept
  <2>1. /\ Leaves(c, x, o, pe, sa, r) /\ OthersKeep(c) /\ committed' = committed \cup kept
        /\ UNCHANGED <<client, wire, broken>>
    BY <1>2, AfterIs
  <2>2. /\ tx' \in [Conns -> States \cup {None}] /\ own' \in [Conns -> {"reader", "reading", "saving"}]
        /\ pending' \in [Conns -> SUBSET Written] /\ saved' \in [Conns -> {None} \cup SUBSET Written]
        /\ reply' \in [Conns -> Replies \cup {None}] /\ committed' \subseteq Written
    BY <1>2 DEF After, TypeOK
  <2>3. TypeOK'
    BY <2>1, <2>2 DEF TypeOK, client
  <2> QED
    BY <2>1, <2>3, NoneAssumption DEF Leaves
<1>3. /\ tx[c] \in States /\ own[c] \in {"reader", "reading", "saving"} /\ pending[c] \in SUBSET Written
      /\ saved[c] \in {None} \cup SUBSET Written /\ {} \in SUBSET Written /\ committed \cup {} = committed
      /\ "idle" \in States /\ "open" \in States /\ "failed" \in States
      /\ "ok" \in Replies /\ "error" \in Replies /\ "stale" \in Replies /\ "failed" \in Replies
      /\ tx[c] \in Replies
  BY DEF TypeOK, States, Replies
<1> HIDE DEF Goal
<1>4. \A r \in Replies : Unmoved(c, r) => Goal /\ Kept
  BY <1>2, <1>3 DEF Unmoved
<1>5. \A kept \in SUBSET Written, r \in Replies : Ended(c, kept, r) =>
          Goal /\ committed' = committed \cup kept
  BY <1>2, <1>3 DEF Ended
<1>6. Failed(c) => Goal /\ Kept
  BY <1>2, <1>3, <1>4 DEF Failed
<1>7. \A o \in {"reader", "reading", "saving"} : Began(c, o) => Goal /\ Kept
  BY <1>2, <1>3, <1>4 DEF Began
<1> DEFINE w == wire[c]
<1>8. SUFFICES Goal /\ Kept
  BY DEF Goal
<1>9. CASE /\ w.command \notin {"commit", "rollback", "rollback to"}
           /\ Unmoved(c, IF w.command = "ask" THEN "failed" ELSE "error")
  BY <1>3, <1>4, <1>9
<1>10. CASE Unmoved(c, tx[c]) \/ Unmoved(c, "ok") \/ Unmoved(c, "stale") \/ Failed(c)
  BY <1>3, <1>4, <1>6, <1>10
<1>11. CASE Began(c, IF w.command = "begin reading" THEN "reading"
                     ELSE IF Label("save", 1) \in w.writes THEN "saving" ELSE "reader")
  BY <1>7, <1>11
<1>12. CASE w.command = "write" /\ tx[c] = "idle" /\ Ended(c, w.writes, "ok")
  BY <1>1, <1>3, <1>5, <1>12
<1>13. CASE tx[c] = "open" /\ After(c, "open", own[c], pending[c] \cup w.writes, saved[c], {}, "ok")
  <2>1. pending[c] \cup w.writes \in SUBSET Written
    BY <1>1, <1>3
  <2> QED
    BY <1>2, <1>3, <1>13, <2>1
<1>14. CASE After(c, "open", own[c], pending[c], pending[c], {}, "ok")
  BY <1>2, <1>3, <1>14
<1>15. CASE saved[c] # None /\ After(c, "open", own[c], saved[c], None, {}, "ok")
  BY <1>2, <1>3, <1>15
<1>16. CASE /\ w.command = "commit"
            /\ \/ tx[c] # "failed" /\ Ended(c, pending[c], "ok")
               \/ tx[c] = "failed" /\ Ended(c, {}, "ok")
               \/ tx[c] = "open" /\ Ended(c, {}, "error")
  BY <1>3, <1>5, <1>16
<1>17. CASE Ended(c, {}, "ok")
  BY <1>3, <1>5, <1>17
<1> HIDE DEF Kept
<1> QED
  BY <1>9, <1>10, <1>11, <1>12, <1>13, <1>14, <1>15, <1>16, <1>17 DEF Serve

\* The server executing a command keeps it.
LEMMA ServeKeeps ==
    ASSUME IInv, NEW c \in Conns, Serve(c)
    PROVE  IInv'
<1>1. TypeOK /\ wire[c] # None /\ reply[c] = None /\ c \notin broken
  BY DEF IInv, Serve
<1>2. tx[c] # None
  BY <1>1 DEF IInv, NoneKnown
<1>3. /\ TypeOK' /\ OthersKeep(c)
      /\ UNCHANGED <<whose, queue, holder, held, reported, pc, job, cancelled, conn, inside, outcome, answer>>
      /\ UNCHANGED <<wire, broken>>
      /\ reply'[c] # None /\ tx'[c] # None
      /\ \/ committed' = committed
         \/ wire[c].command = "commit" /\ committed' = committed \cup pending[c]
         \/ /\ wire[c].command = "write" /\ tx[c] = "idle"
            /\ committed' = committed \cup wire[c].writes
  BY <1>1, <1>2, ServeFrame DEF client
<1>4. OneHolder'
  BY <1>3 DEF IInv, OneHolder
<1>5. NoneKnown'
  BY <1>1, <1>3 DEF IInv, NoneKnown, OthersKeep, TypeOK
<1>6. BrokenTell' /\ SafeToServe'
  <2>1. BrokenTell'
    BY <1>1, <1>3 DEF IInv, BrokenTell, OthersKeep, TypeOK
  <2>2. ASSUME NEW d \in Conns, wire'[d] # None, reply'[d] = None, d \notin broken'
        PROVE  /\ wire'[d].command = "commit" => Keepable(pending'[d])
               /\ wire'[d].command = "write" /\ tx'[d] = "idle" => Keepable(wire'[d].writes)
    <3>1. d # c
      BY <1>3, <2>2
    <3>2. /\ wire[d] # None /\ reply[d] = None /\ d \notin broken
          /\ wire'[d] = wire[d] /\ pending'[d] = pending[d] /\ tx'[d] = tx[d]
      BY <1>3, <2>2, <3>1 DEF OthersKeep
    <3> QED
      BY <3>2 DEF IInv, SafeToServe
  <2> QED
    BY <2>1, <2>2 DEF SafeToServe
<1>7. NothingKept'
  <2>1. Keepable(committed)
    BY DEF IInv, NothingKept, Keepable
  <2>2. /\ wire[c].command = "commit" => Keepable(pending[c])
        /\ wire[c].command = "write" /\ tx[c] = "idle" => Keepable(wire[c].writes)
    BY <1>1 DEF IInv, SafeToServe
  <2>3. \A S, T : Keepable(S) /\ Keepable(T) => Keepable(S \cup T)
    BY DEF Keepable
  <2>4. Keepable(committed')
    BY <1>3, <2>1, <2>2, <2>3
  <2> QED
    BY <2>4 DEF NothingKept, Keepable
<1>8. InWork'
  <2>1. CASE conn = c /\ holder # None
    <3>1. pc[holder] \in WorkPcs \cup StatePcs /\ inside \in BOOLEAN
      BY <1>1, <2>1, NoneAssumption DEF IInv, OneHolder, TypeOK, Pcs
    <3>2. AtServer(pc[holder], job[holder], inside, wire[c], None, tx[c], own[c], pending[c], saved[c])
      BY <1>1, <2>1, NoneAssumption DEF IInv, InWork
    <3>3. AtServer(pc[holder], job[holder], inside, wire[c], reply'[c], tx'[c], own'[c],
                   pending'[c], saved'[c])
      BY <1>1, <1>2, <3>1, <3>2, ServedWork
    <3> QED
      BY <1>3, <2>1, <3>3 DEF InWork
  <2>2. CASE ~(conn = c /\ holder # None)
    BY <1>3, <2>2 DEF IInv, InWork, OthersKeep, TypeOK
  <2> QED
    BY <2>1, <2>2
<1>9. CASE held = c /\ holder = None
  <2>1. /\ wire[c].command = "ask" /\ tx[c] = "idle"
        /\ Clean(own[c], pending[c], saved[c]) /\ reported = tx[c] /\ own[c] = "reader"
    BY <1>1, <1>9, NoneAssumption DEF IInv, AtRest, Whole, ReportedTruly
  <2>2. Leaves(c, tx[c], own[c], pending[c], saved[c], tx[c])
    BY <1>1, <1>2, <2>1, ServeIs DEF ServedAs, Stays
  <2>3. AtRest' /\ ReportedTruly'
    BY <1>3, <1>9, <2>1, <2>2, NoneAssumption DEF AtRest, Whole, ReportedTruly, Leaves, States
  <2>4. conn = None
    BY <1>9 DEF IInv, OneHolder
  <2>5. AgentsIdle'
    BY <1>3, <1>9, <2>1, <2>2, <2>4 DEF IInv, AgentsIdle, Leaves, Whole
  <2> QED
    BY <1>3, <1>4, <1>5, <1>6, <1>7, <1>8, <2>3, <2>5 DEF IInv
<1>10. CASE held # c \/ holder # None
  <2>1. AtRest' /\ ReportedTruly'
    BY <1>3, <1>10 DEF IInv, AtRest, Whole, ReportedTruly, OthersKeep, TypeOK
  <2>2. AgentsIdle'
    <3>1. CASE c \notin {held, conn}
      BY <1>3, <3>1 DEF IInv, AgentsIdle, OthersKeep, Whole, TypeOK
    <3>2. CASE c \in {held, conn}
      <4>1. holder # None /\ conn = c /\ held \in {None, c}
        BY <1>10, <3>2, NoneAssumption DEF IInv, OneHolder, TypeOK, Pcs
      <4>2. /\ pc[holder] = "drain" => wire[c].command = "ask"
            /\ pc[holder] # "drain" => wire[c].command = Command(job[holder], pc[holder], inside)
        BY <1>1, <4>1, NoneAssumption DEF IInv, InWork, AtServer
      <4>3. pc[holder] \in {"drain", "ask", "state"} => tx'[c] = tx[c]
        <5>1. pc[holder] \in {"drain", "ask", "state"} => wire[c].command = "ask"
          BY <4>2 DEF Command
        <5> QED
          BY <1>1, <1>2, <5>1, ServeIs DEF ServedAs, Stays, Leaves
      <4> QED
        BY <1>1, <1>3, <4>1, <4>3, NoneAssumption DEF IInv, AgentsIdle, Whole
    <3> QED
      BY <3>1, <3>2
  <2> QED
    BY <1>3, <1>4, <1>5, <1>6, <1>7, <1>8, <2>1, <2>2 DEF IInv
<1> QED
  BY <1>9, <1>10

\* The server closing a connection keeps it.
LEMMA BreakKeeps ==
    ASSUME IInv, NEW c \in Conns, Break(c)
    PROVE  IInv'
<1>1. /\ tx[c] # None /\ c \notin broken /\ broken' = broken \cup {c}
      /\ tx'[c] = "idle" /\ own'[c] = "reader" /\ pending'[c] = {} /\ saved'[c] = None
      /\ reply'[c] = IF wire[c] = None THEN None ELSE "lost"
      /\ OthersKeep(c) /\ UNCHANGED <<wire, committed>>
      /\ UNCHANGED <<whose, queue, holder, held, reported, pc, job, cancelled, conn, inside, outcome, answer>>
  BY DEF IInv, TypeOK, Break, OthersKeep, client
<1>2. TypeOK'
  <2>1. /\ reply' \in [Conns -> Replies \cup {None}] /\ tx' \in [Conns -> States \cup {None}]
        /\ own' \in [Conns -> {"reader", "reading", "saving"}]
    BY DEF IInv, TypeOK, Break, Replies, States
  <2>2. pending' \in [Conns -> SUBSET Written] /\ saved' \in [Conns -> {None} \cup SUBSET Written]
    BY DEF IInv, TypeOK, Break
  <2> QED
    BY <1>1, <2>1, <2>2 DEF IInv, TypeOK
<1>3. OneHolder' /\ NothingKept'
  BY <1>1 DEF IInv, OneHolder, NothingKept
<1>4. NoneKnown'
  BY <1>1, NoneAssumption DEF IInv, NoneKnown, OthersKeep, TypeOK, States
<1>5. BrokenTell'
  BY <1>1 DEF IInv, BrokenTell, OthersKeep, TypeOK
<1>6. SafeToServe'
  <2>1. ASSUME NEW d \in Conns, d # c
        PROVE  wire'[d] = wire[d] /\ reply'[d] = reply[d] /\ tx'[d] = tx[d] /\ pending'[d] = pending[d]
    BY <1>1, <2>1 DEF OthersKeep
  <2> QED
    BY <1>1, <2>1 DEF IInv, SafeToServe
<1>7. InWork' /\ AtRest' /\ AgentsIdle' /\ ReportedTruly'
  <2>1. \A d \in Conns : d \notin broken' => d # c /\ d \notin broken
    BY <1>1
  <2>2. \A d \in {held, conn} : d # None => d \in Conns
    BY DEF IInv, TypeOK
  <2>3. InWork'
    BY <1>1, <2>1, <2>2 DEF IInv, InWork, OthersKeep
  <2>4. AtRest' /\ ReportedTruly'
    BY <1>1, <2>1, <2>2 DEF IInv, AtRest, ReportedTruly, Whole, OthersKeep
  <2>5. AgentsIdle'
    BY <1>1, <2>1, <2>2 DEF IInv, AgentsIdle, Whole, OthersKeep
  <2> QED
    BY <2>3, <2>4, <2>5
<1> QED
  BY <1>2, <1>3, <1>4, <1>5, <1>6, <1>7 DEF IInv

\* The server hearing of a drop keeps it.
LEMMA ReapKeeps ==
    ASSUME IInv, NEW c \in Conns, Reap(c)
    PROVE  IInv'
<1>1. /\ c \notin {held, conn} /\ broken' = broken \ {c}
      /\ wire'[c] = None /\ reply'[c] = None /\ tx'[c] = None
      /\ own'[c] = "reader" /\ pending'[c] = {} /\ saved'[c] = None
      /\ OthersKeep(c) /\ (\A d \in Conns : d # c => wire'[d] = wire[d]) /\ UNCHANGED committed
      /\ UNCHANGED <<whose, queue, holder, held, reported, pc, job, cancelled, conn, inside, outcome, answer>>
  BY DEF IInv, TypeOK, Reap, Dropped, OthersKeep, client
<1>2. TypeOK'
  <2>1. /\ wire' \in [Conns -> Sent \cup {None}]
        /\ reply' \in [Conns -> Replies \cup {None}] /\ tx' \in [Conns -> States \cup {None}]
        /\ own' \in [Conns -> {"reader", "reading", "saving"}]
    BY DEF IInv, TypeOK, Reap, Replies, States
  <2>2. pending' \in [Conns -> SUBSET Written] /\ saved' \in [Conns -> {None} \cup SUBSET Written]
    BY DEF IInv, TypeOK, Reap
  <2> QED
    BY <1>1, <2>1, <2>2 DEF IInv, TypeOK
<1>3. OneHolder' /\ NothingKept'
  BY <1>1 DEF IInv, OneHolder, NothingKept
<1>4. NoneKnown'
  BY <1>1 DEF IInv, NoneKnown, OthersKeep, TypeOK
<1>5. BrokenTell'
  BY <1>1 DEF IInv, BrokenTell, OthersKeep, TypeOK
<1>6. SafeToServe'
  <2>1. ASSUME NEW d \in Conns, d # c
        PROVE  wire'[d] = wire[d] /\ reply'[d] = reply[d] /\ tx'[d] = tx[d] /\ pending'[d] = pending[d]
    BY <1>1, <2>1 DEF OthersKeep
  <2> QED
    BY <1>1, <2>1 DEF IInv, SafeToServe
<1>7. \A d \in {held, conn} : d # None =>
          /\ d \in Conns /\ d # c /\ (d \in broken' <=> d \in broken) /\ wire'[d] = wire[d]
          /\ reply'[d] = reply[d] /\ tx'[d] = tx[d] /\ own'[d] = own[d]
          /\ pending'[d] = pending[d] /\ saved'[d] = saved[d]
  BY <1>1 DEF IInv, TypeOK, OthersKeep
<1>8. InWork'
  BY <1>1, <1>7 DEF IInv, InWork
<1>9. AtRest' /\ ReportedTruly'
  BY <1>1, <1>7 DEF IInv, AtRest, ReportedTruly, Whole
<1>10. AgentsIdle'
  BY <1>1, <1>7 DEF IInv, AgentsIdle, Whole
<1> QED
  BY <1>2, <1>3, <1>4, <1>5, <1>6, <1>8, <1>9, <1>10 DEF IInv

-----------------------------------------------------------------------------
(* What the callers do *)

\* A call that has not the lock is asked, stops waiting, or is given up.
LEMMA WaitersKeep ==
    ASSUME IInv, NEW t \in Tasks, pc[t] \in {"idle", "waiting"}, NEW p \in {"idle", "waiting"}, NEW j,
           pc' = [pc EXCEPT ![t] = p], job' = [job EXCEPT ![t] = j], p = "waiting" => j \in JobsOf[whose],
           TypeOK', UNCHANGED <<whose, holder, held, reported, conn, inside, server>>
    PROVE  IInv'
<1>1. /\ pc'[t] = p /\ job'[t] = j
      /\ \A u \in Tasks : u # t => pc'[u] = pc[u] /\ job'[u] = job[u]
  BY DEF IInv, TypeOK
<1>2. /\ UNCHANGED <<whose, holder, held, reported, conn, inside>>
      /\ UNCHANGED <<wire, reply, tx, own, pending, saved, broken, committed>>
  BY DEF server
<1>3. holder # t /\ (holder # None => holder \in Tasks)
  BY NoneAssumption DEF IInv, OneHolder, TypeOK
<1>4. OneHolder'
  BY <1>1, <1>2, <1>3 DEF IInv, OneHolder
<1>5. (NoneKnown /\ BrokenTell /\ SafeToServe /\ AtRest /\ ReportedTruly /\ NothingKept)'
  BY <1>2 DEF IInv, NoneKnown, BrokenTell, SafeToServe, AtRest, ReportedTruly, NothingKept, Whole
<1>6. InWork' /\ AgentsIdle'
  BY <1>1, <1>2, <1>3 DEF IInv, InWork, AgentsIdle, Whole
<1> QED
  BY <1>4, <1>5, <1>6 DEF IInv

\* Who is past waiting has the lock.
LEMMA PastWaiting ==
    ASSUME IInv, NEW t \in Tasks, pc[t] \notin {"idle", "waiting"}
    PROVE  /\ holder = t /\ t # None /\ job[t] \in JobsOf[whose]
           /\ pc[t] \in WorkPcs \cup StatePcs => conn \in Conns /\ tx[conn] \in States /\ wire[conn] # None
           /\ pc[t] \in WorkPcs => held = None
           /\ pc[t] \in StatePcs => held = conn
           /\ pc[t] = "connect" => conn = None /\ held = None /\ reported = "idle" /\ ~inside
<1>1. holder = t /\ t # None
  BY NoneAssumption DEF IInv, OneHolder, TypeOK
<1>2. /\ pc[t] \in WorkPcs \cup StatePcs => conn # None
      /\ pc[t] \in WorkPcs => held = None
      /\ pc[t] \in StatePcs => held = conn
      /\ pc[t] = "connect" => conn = None /\ held = None /\ reported = "idle" /\ ~inside
      /\ job[t] \in JobsOf[whose]
  BY <1>1 DEF IInv, OneHolder
<1>3. conn # None => conn \in Conns /\ tx[conn] \in States /\ wire[conn] # None
  BY DEF IInv, NoneKnown, TypeOK
<1> QED
  BY <1>1, <1>2, <1>3

\* The connection is let go, whatever it was in the middle of.
LEMMA LettingGoKeeps ==
    ASSUME IInv, NEW t \in Tasks, pc[t] \notin {"idle", "waiting"}, NEW a \in Answers, Unlock(t, a),
           held' = None, reported' = "idle", UNCHANGED <<whose, server>>
    PROVE  IInv'
<1>1. holder = t /\ t # None
  BY PastWaiting
<1>2. /\ holder' = None /\ conn' = None /\ inside' = FALSE /\ outcome' = "ok" /\ queue' = queue
      /\ pc' = [pc EXCEPT ![t] = "idle"] /\ answer' = [answer EXCEPT ![t] = a]
      /\ cancelled' = cancelled \ {t} /\ job' = [job EXCEPT ![t] = None]
      /\ UNCHANGED <<whose, wire, reply, tx, own, pending, saved, broken, committed>>
  BY DEF Unlock, server
<1>3. /\ pc'[t] = "idle" /\ job'[t] = None
      /\ \A u \in Tasks : u # t => pc'[u] = pc[u] /\ job'[u] = job[u]
  BY <1>2 DEF IInv, TypeOK
<1>4. TypeOK'
  <2>1. pc' \in [Tasks -> Pcs] /\ job' \in [Tasks -> JobsOf[whose] \cup {None}]
        /\ answer' \in [Tasks -> Answers \cup {None}]
    BY <1>2 DEF IInv, TypeOK, Pcs
  <2>2. reported' \in States /\ outcome' \in Answers /\ cancelled' \subseteq Tasks /\ inside' \in BOOLEAN
    BY <1>2 DEF IInv, TypeOK, States, Answers
  <2> QED
    BY <1>2, <2>1, <2>2 DEF IInv, TypeOK
<1>5. OneHolder'
  BY <1>1, <1>2, <1>3 DEF IInv, OneHolder
<1>6. (NoneKnown /\ BrokenTell /\ SafeToServe /\ NothingKept)'
  BY <1>2 DEF IInv, NoneKnown, BrokenTell, SafeToServe, NothingKept
<1>7. (InWork /\ AtRest /\ AgentsIdle /\ ReportedTruly)'
  BY <1>2 DEF InWork, AtRest, AgentsIdle, ReportedTruly, Whole
<1> QED
  BY <1>4, <1>5, <1>6, <1>7 DEF IInv

\* What a step sends is one of the driver's commands.
LEMMA SentTyped ==
    ASSUME NEW j, NEW p \in (WorkPcs \cup StatePcs) \ {"drain"}, NEW in \in BOOLEAN
    PROVE  [command |-> Command(j, p, in), writes |-> WritesOf(j, p)] \in Sent
<1>1. Command(j, p, in) \in Commands
  <2>1. CASE p \in {"ask", "state", "put1", "put2", "keep", "undo"}
    BY <2>1 DEF Command, Commands
  <2>2. CASE p = "open"
    BY <2>2 DEF Command, Commands
  <2>3. CASE p = "end"
    BY <2>3 DEF Command, Commands, EndOf
  <2>4. CASE p = "main"
    BY <2>4 DEF Command, Commands
  <2> QED
    BY <2>1, <2>2, <2>3, <2>4 DEF WorkPcs, StatePcs
<1>2. WritesOf(j, p) \in SUBSET Written
  BY DEF WritesOf, Written, Label
<1> QED
  BY <1>1, <1>2 DEF Sent

\* The holder sends the next command of its work on connection c.
LEMMA SendingKeeps ==
    ASSUME IInv, NEW t \in Tasks, NEW c \in Conns, tx[c] # None,
           NEW p \in (WorkPcs \cup StatePcs) \ {"drain"}, NEW in \in BOOLEAN, NEW went \in Answers,
           holder \in {None, t}, job[t] \in JobsOf[whose], Send(t, c, p, in),
           holder' = t, conn' = c, held' = (IF p \in StatePcs THEN c ELSE None), outcome' = went,
           queue' \in Seq(Tasks), UNCHANGED <<whose, reported, job, cancelled, answer>>,
           c \notin broken => \A w : /\ w.command = Command(job[t], p, in)
                                     /\ w.writes = WritesOf(job[t], p)
                                     => AtServer(p, job[t], in, w, None, tx[c], own[c], pending[c], saved[c]),
           whose = "Agent" => /\ ~in
                              /\ c \notin broken /\ p \in {"ask", "open", "state"} => tx[c] = "idle"
    PROVE  IInv'
<1> DEFINE w == [command |-> Command(job[t], p, in), writes |-> WritesOf(job[t], p)]
<1>1. w \in Sent /\ w # None /\ w.command = Command(job[t], p, in) /\ w.writes = WritesOf(job[t], p)
  BY SentTyped, NoneAssumption
<1>2. /\ pc' = [pc EXCEPT ![t] = p] /\ inside' = in /\ wire' = [wire EXCEPT ![c] = w]
      /\ reply' = [reply EXCEPT ![c] = IF c \in broken THEN "lost" ELSE None]
      /\ UNCHANGED <<tx, own, pending, saved, broken, committed>>
  BY DEF Send
<1> HIDE DEF w
<1>3. /\ pc'[t] = p /\ wire'[c] = w /\ reply'[c] = IF c \in broken THEN "lost" ELSE None
      /\ \A u \in Tasks : u # t => pc'[u] = pc[u]
      /\ \A d \in Conns : d # c => wire'[d] = wire[d] /\ reply'[d] = reply[d]
  BY <1>2 DEF IInv, TypeOK
<1>4. TypeOK'
  <2>1. pc' \in [Tasks -> Pcs] /\ inside' \in BOOLEAN
    BY <1>2 DEF IInv, TypeOK, Pcs
  <2>2. wire' \in [Conns -> Sent \cup {None}] /\ reply' \in [Conns -> Replies \cup {None}]
    BY <1>1, <1>2 DEF IInv, TypeOK, Replies
  <2>3. held' \in Conns \cup {None} /\ conn' \in Conns \cup {None} /\ holder' \in Tasks \cup {None}
        /\ outcome' \in Answers
    OBVIOUS
  <2> QED
    BY <1>2, <2>1, <2>2, <2>3 DEF IInv, TypeOK
<1>5. t # None /\ c # None /\ p \notin {"idle", "waiting", "connect"}
  BY NoneAssumption DEF WorkPcs, StatePcs
<1>6. OneHolder'
  <2>1. \A u \in Tasks : u # t => pc'[u] \in {"idle", "waiting"}
    BY <1>3 DEF IInv, OneHolder
  <2>2. \A u \in Tasks : pc'[u] # "idle" => job'[u] \in JobsOf[whose']
    BY <1>3 DEF IInv, OneHolder
  <2>3. p \in WorkPcs => p \notin StatePcs
    BY DEF WorkPcs, StatePcs
  <2> QED
    BY <1>3, <1>5, <2>1, <2>2, <2>3 DEF OneHolder
<1>7. NoneKnown' /\ BrokenTell'
  <2>1. NoneKnown'
    BY <1>1, <1>2, <1>3, <1>5 DEF IInv, NoneKnown
  <2>2. BrokenTell'
    BY <1>2, <1>3 DEF IInv, BrokenTell, TypeOK
  <2> QED
    BY <2>1, <2>2
<1>8. InWork'
  <2>1. c \notin broken => AtServer(p, job[t], in, w, None, tx[c], own[c], pending[c], saved[c])
    BY <1>1
  <2> QED
    BY <1>2, <1>3, <2>1 DEF InWork
<1>9. SafeToServe'
  <2>1. c \notin broken =>
          /\ w.command = "commit" => Keepable(pending[c])
          /\ w.command = "write" /\ tx[c] = "idle" => Keepable(w.writes)
    BY <1>1, WorkIsSafe
  <2>2. ASSUME NEW d \in Conns, wire'[d] # None, reply'[d] = None, d \notin broken'
        PROVE  /\ wire'[d].command = "commit" => Keepable(pending'[d])
               /\ wire'[d].command = "write" /\ tx'[d] = "idle" => Keepable(wire'[d].writes)
    <3>1. CASE d = c
      BY <1>2, <1>3, <2>1, <2>2, <3>1
    <3>2. CASE d # c
      BY <1>2, <1>3, <2>2, <3>2 DEF IInv, SafeToServe
    <3> QED
      BY <3>1, <3>2
  <2> QED
    BY <2>2 DEF SafeToServe
<1>10. AtRest' /\ ReportedTruly' /\ NothingKept'
  BY <1>2, <1>5 DEF IInv, AtRest, ReportedTruly, NothingKept
<1>11. AgentsIdle'
  <2>1. ASSUME whose = "Agent", NEW d \in {held', conn'}, Whole(d)', p \in {"drain", "ask", "state"}
        PROVE  tx'[d] = "idle"
    BY <1>2, <2>1 DEF Whole
  <2>2. whose = "Agent" => reported' = "idle" /\ ~inside'
    BY <1>2 DEF IInv, AgentsIdle
  <2>3. whose = "Agent" /\ p = "open" /\ Whole(conn)' => tx'[conn'] = "idle"
    BY <1>2 DEF Whole
  <2> QED
    BY <1>3, <1>5, <2>1, <2>2, <2>3 DEF AgentsIdle
<1> QED
  BY <1>4, <1>6, <1>7, <1>8, <1>9, <1>10, <1>11 DEF IInv

\* The connection has answered, and the work goes on to step p.
LEMMA GoingOnKeeps ==
    ASSUME IInv, NEW t \in Tasks, pc[t] \in WorkPcs \cup StatePcs,
           NEW p \in (WorkPcs \cup StatePcs) \ {"drain"}, NEW in \in BOOLEAN, NEW went \in Answers,
           GoOn(t, p, in, went), UNCHANGED whose, p \in StatePcs <=> pc[t] \in StatePcs,
           conn \notin broken => \A w : /\ w.command = Command(job[t], p, in)
                                        /\ w.writes = WritesOf(job[t], p)
                                        => AtServer(p, job[t], in, w, None, tx[conn], own[conn],
                                                    pending[conn], saved[conn]),
           whose = "Agent" => /\ ~in
                              /\ conn \notin broken /\ p \in {"ask", "open", "state"} => tx[conn] = "idle"
    PROVE  IInv'
<1>1. /\ holder = t /\ conn \in Conns /\ tx[conn] # None /\ job[t] \in JobsOf[whose]
      /\ held = IF p \in StatePcs THEN conn ELSE None
  BY PastWaiting, NoneAssumption DEF WorkPcs, StatePcs
<1>2. /\ Send(t, conn, p, in) /\ outcome' = went
      /\ UNCHANGED <<queue, holder, held, reported, job, cancelled, conn, answer>>
  BY DEF GoOn
<1>3. queue' \in Seq(Tasks)
  BY <1>2 DEF IInv, TypeOK
<1> QED
  BY <1>1, <1>2, <1>3, SendingKeeps

\* The work is over: its connection is asked where it stands, or let go.
LEMMA FinishingKeeps ==
    ASSUME IInv, NEW t \in Tasks, pc[t] \in WorkPcs, NEW a \in Answers \cup {"lost"},
           Finish(t, a), UNCHANGED whose,
           a # "lost" /\ conn \notin broken =>
               \A w : /\ w.command = Command(job[t], AfterWork(pc[t], a), inside)
                      /\ w.writes = WritesOf(job[t], AfterWork(pc[t], a))
                      => AtServer(AfterWork(pc[t], a), job[t], inside, w, None, tx[conn], own[conn],
                                  pending[conn], saved[conn]),
           whose = "Agent" /\ a # "lost" /\ conn \notin broken => tx[conn] = "idle"
    PROVE  IInv'
<1>1. /\ holder = t /\ conn \in Conns /\ tx[conn] # None /\ job[t] \in JobsOf[whose] /\ held = None
      /\ pc[t] \notin {"idle", "waiting"}
  BY PastWaiting, NoneAssumption DEF WorkPcs
<1>2. CASE a = "lost"
  <2>1. /\ Unlock(t, "error") /\ held' = None /\ reported' = "idle" /\ UNCHANGED server
        /\ "error" \in Answers
    BY <1>1, <1>2 DEF Finish, Trusted, Answers
  <2> QED
    BY <1>1, <2>1, LettingGoKeeps DEF server
<1>3. CASE a # "lost"
  <2> DEFINE p == AfterWork(pc[t], a)
  <2>1. p \in StatePcs /\ p \in (WorkPcs \cup StatePcs) \ {"drain"} /\ a \in Answers /\ inside \in BOOLEAN
    BY <1>3 DEF AfterWork, StatePcs, IInv, TypeOK
  <2>2. /\ held' = conn /\ outcome' = a /\ Send(t, conn, p, inside)
        /\ UNCHANGED <<queue, holder, reported, job, cancelled, conn, answer>>
    BY <1>3 DEF Finish, Trusted
  <2>3. queue' \in Seq(Tasks)
    BY <2>2 DEF IInv, TypeOK
  <2>4. whose = "Agent" => ~inside
    BY DEF IInv, AgentsIdle
  <2>5. conn \notin broken => \A w : /\ w.command = Command(job[t], p, inside)
                                     /\ w.writes = WritesOf(job[t], p)
                                     => AtServer(p, job[t], inside, w, None, tx[conn], own[conn],
                                                 pending[conn], saved[conn])
    BY <1>3
  <2>6. whose = "Agent" => /\ ~inside
                           /\ conn \notin broken /\ p \in {"ask", "open", "state"} => tx[conn] = "idle"
    BY <1>3, <2>4
  <2>7. held' = IF p \in StatePcs THEN conn ELSE None
    BY <2>1, <2>2
  <2> HIDE DEF p
  <2> QED
    BY <1>1, <2>1, <2>2, <2>3, <2>5, <2>6, <2>7, SendingKeeps
<1> QED
  BY <1>2, <1>3

\* A caller reading its answer keeps it.
LEMMA ReadKeeps ==
    ASSUME IInv, NEW t \in Tasks, Read(t)
    PROVE  IInv'
<1> DEFINE said == reply[conn]
           j == job[t]
           sound == conn \notin broken
           At(p, in, w, r) == AtServer(p, j, in, w, r, tx[conn], own[conn], pending[conn], saved[conn])
           Sends(p, in) == \A w : w.command = Command(j, p, in) /\ w.writes = WritesOf(j, p)
                                  => At(p, in, w, None)
<1>1. pc[t] \in WorkPcs /\ said # None /\ UNCHANGED whose
  BY DEF Read
<1>2. /\ holder = t /\ t # None /\ conn \in Conns /\ conn # None /\ tx[conn] \in States
      /\ wire[conn] # None /\ j \in JobsOf[whose]
  BY <1>1, PastWaiting, NoneAssumption DEF WorkPcs
<1>3. inside \in BOOLEAN /\ outcome \in Answers /\ whose \in {"Reader", "Agent"}
  BY JobsAssumption DEF IInv, TypeOK
<1>4. sound => At(pc[t], inside, wire[conn], said)
  BY <1>2 DEF IInv, InWork
<1>5. ~sound => said = "lost"
  BY <1>2 DEF IInv, BrokenTell
<1>6. whose = "Agent" => ~inside /\ (sound /\ pc[t] \in {"drain", "ask"} => tx[conn] = "idle")
  BY <1>2 DEF IInv, AgentsIdle, Whole
<1>7. /\ {"ok", "error", "refused"} \subseteq Answers
      /\ {"ask", "open", "main", "end", "put1", "put2", "keep"} \subseteq (WorkPcs \cup StatePcs) \ {"drain"}
      /\ \A p \in {"ask", "open", "main", "end", "put1", "put2", "keep"} : p \notin StatePcs
      /\ pc[t] \notin StatePcs
  BY <1>1 DEF Answers, WorkPcs, StatePcs
<1>8. /\ whose = "Reader" => j \in {"begin", "commit", "rollback", "write", "preview", "explain", "save"}
      /\ whose = "Agent" => j \in {"reading", "escape", "explain"}
  BY <1>2 DEF JobsOf
<1>9. ASSUME NEW p \in {"ask", "open", "main", "end", "put1", "put2", "keep"}, NEW in \in BOOLEAN,
             NEW went \in Answers, GoOn(t, p, in, went), sound => Sends(p, in),
             whose = "Agent" => ~in /\ (sound /\ p \in {"ask", "open"} => tx[conn] = "idle")
      PROVE  IInv'
  BY <1>1, <1>7, <1>9, GoingOnKeeps
<1>10. ASSUME NEW a \in Answers \cup {"lost"}, Finish(t, a),
              a # "lost" /\ sound => Sends(AfterWork(pc[t], a), inside),
              whose = "Agent" /\ a # "lost" /\ sound => tx[conn] = "idle"
       PROVE  IInv'
  BY <1>1, <1>10, FinishingKeeps
<1>11. CASE said = "lost" /\ Finish(t, "lost")
  BY <1>10, <1>11
<1>12. CASE pc[t] = "drain" /\ said # "lost" /\ GoOn(t, First(j), FALSE, "ok")
  <2>1. sound /\ Clean(own[conn], pending[conn], saved[conn]) /\ tx[conn] = "idle"
    BY <1>4, <1>5, <1>12 DEF AtServer
  <2>2. First(j) \in {"ask", "open", "main"}
    BY DEF First
  <2>3. Sends(First(j), FALSE)
    <3>1. CASE j \in {"explain", "save"}
      BY <2>1, <3>1 DEF First, AtServer, States
    <3>2. CASE j \in {"reading", "escape"}
      BY <2>1, <3>2 DEF First, AtServer, Guarded
    <3>3. CASE j \notin {"explain", "save", "reading", "escape"}
      BY <2>1, <3>3 DEF First, AtServer, Guarded, States
    <3> QED
      BY <3>1, <3>2, <3>3
  <2> HIDE DEF Sends
  <2> QED
    BY <1>7, <1>9, <1>12, <2>1, <2>2, <2>3
<1>13. CASE /\ pc[t] = "ask" /\ j = "explain" /\ said # "lost"
            /\ IF said = "failed" THEN Finish(t, "error") ELSE GoOn(t, "open", said = "open", "ok")
  <2>1. /\ sound /\ Clean(own[conn], pending[conn], saved[conn]) /\ said = tx[conn] /\ tx[conn] \in States
        /\ ~inside
    BY <1>1, <1>4, <1>5, <1>13 DEF AtServer
  <2>2. CASE said = "failed"
    <3>1. Sends("state", inside)
      BY <2>1 DEF AtServer
    <3>2. AfterWork(pc[t], "error") = "state"
      BY <1>13 DEF AfterWork
    <3>3. whose = "Agent" => tx[conn] = "idle"
      BY <1>6, <1>13, <2>1
    <3> HIDE DEF Sends
    <3> QED
      BY <1>7, <1>10, <1>13, <2>2, <3>1, <3>2, <3>3
  <2>3. CASE said # "failed"
    <3>1. (said = "open") \in BOOLEAN /\ Sends("open", said = "open")
      BY <1>13, <2>1, <2>3 DEF AtServer, Guarded, States
    <3>2. whose = "Agent" => tx[conn] = "idle" /\ said # "open"
      BY <1>6, <1>13, <2>1
    <3> HIDE DEF Sends
    <3> QED
      BY <1>7, <1>9, <1>13, <2>3, <3>1, <3>2
  <2> QED
    BY <2>2, <2>3
<1>14. CASE /\ pc[t] = "ask" /\ j = "save" /\ said # "lost"
            /\ IF said = "idle" THEN GoOn(t, "open", FALSE, "ok") ELSE Finish(t, "refused")
  <2>1. /\ sound /\ Clean(own[conn], pending[conn], saved[conn]) /\ said = tx[conn] /\ tx[conn] \in States
        /\ ~inside /\ whose # "Agent"
    BY <1>1, <1>4, <1>5, <1>8, <1>14 DEF AtServer
  <2>2. CASE said = "idle"
    <3>1. Sends("open", FALSE)
      BY <1>14, <2>1, <2>2 DEF AtServer
    <3> HIDE DEF Sends
    <3> QED
      BY <1>7, <1>9, <1>14, <2>1, <2>2, <3>1
  <2>3. CASE said # "idle"
    <3>1. Sends("state", inside)
      BY <2>1 DEF AtServer
    <3>2. AfterWork(pc[t], "refused") = "state"
      BY <1>14 DEF AfterWork
    <3> HIDE DEF Sends
    <3> QED
      BY <1>7, <1>10, <1>14, <2>1, <2>3, <3>1, <3>2
  <2> QED
    BY <2>2, <2>3
<1>15. CASE /\ pc[t] = "open" /\ said # "lost"
            /\ IF said = "error" THEN Finish(t, "error")
               ELSE GoOn(t, IF j = "save" THEN "put1" ELSE "main", inside, "ok")
  <2>1. sound /\ said = "ok" /\ tx[conn] = "open" /\ j \in Guarded \cup {"save"} /\ (inside => j = "explain")
    BY <1>1, <1>4, <1>5, <1>15 DEF AtServer
  <2>2. /\ inside => own[conn] = "reader" /\ saved[conn] # None /\ saved[conn] \subseteq Readers1
        /\ ~inside => /\ pending[conn] = {} /\ saved[conn] = None
                      /\ own[conn] = IF j = "save" THEN "saving" ELSE "reading"
    BY <1>1, <1>4, <1>15, <2>1 DEF AtServer
  <2>3. CASE j = "save"
    <3>0. tx[conn] = "open" /\ ~inside /\ pending[conn] = {} /\ own[conn] = "saving" /\ None # "ok"
      BY <2>1, <2>2, <2>3, NoneAssumption DEF Replies
    <3>1. Sends("put1", inside)
      BY <2>3, <3>0 DEF AtServer
    <3> HIDE DEF Sends
    <3> QED
      BY <1>3, <1>6, <1>7, <1>9, <1>15, <2>1, <2>3, <3>1
  <2>4. CASE j # "save"
    <3>1. Sends("main", inside)
      BY <2>1, <2>2, <2>4 DEF AtServer
    <3> HIDE DEF Sends
    <3> QED
      BY <1>3, <1>6, <1>7, <1>9, <1>15, <2>1, <2>4, <3>1
  <2> QED
    BY <2>3, <2>4
<1>16. CASE /\ pc[t] = "main" /\ j \in {"explain", "reading", "escape"}
            /\ GoOn(t, "end", inside, IF said = "ok" THEN "ok" ELSE "error")
  <2>1. sound => /\ inside => j = "explain"
                 /\ inside => /\ tx[conn] \in {"open", "failed"} /\ own[conn] = "reader"
                              /\ saved[conn] # None /\ saved[conn] \subseteq Readers1
    BY <1>1, <1>4, <1>16 DEF AtServer, Guarded
  <2>2. sound => Sends("end", inside)
    BY <1>16, <2>1 DEF AtServer, Guarded
  <2> HIDE DEF Sends
  <2> QED
    BY <1>3, <1>6, <1>7, <1>9, <1>16, <2>2
<1>17. CASE /\ pc[t] = "main" /\ j \notin {"explain", "reading", "escape"} /\ said # "lost"
            /\ Finish(t, said)
  <2>1. /\ sound /\ Clean(own[conn], pending[conn], saved[conn]) /\ tx[conn] \in States
        /\ said \in {"ok", "error"} /\ whose # "Agent" /\ (inside => j = "explain")
    BY <1>1, <1>4, <1>5, <1>8, <1>17 DEF AtServer, Guarded
  <2>2. Sends("state", inside)
    BY <2>1 DEF AtServer
  <2>3. AfterWork(pc[t], said) = "state"
    BY <1>17 DEF AfterWork
  <2> HIDE DEF Sends
  <2> QED
    BY <1>7, <1>10, <1>17, <2>1, <2>2, <2>3
<1>18. CASE /\ pc[t] = "end" /\ said # "lost"
            /\ IF said = "error" THEN Finish(t, "lost") ELSE Finish(t, outcome)
  <2>1. /\ sound /\ said = "ok" /\ Clean(own[conn], pending[conn], saved[conn]) /\ (inside => j = "explain")
        /\ tx[conn] = IF inside THEN "open" ELSE "idle"
    BY <1>1, <1>4, <1>5, <1>18 DEF AtServer
  <2>2. Sends("state", inside)
    BY <2>1 DEF AtServer, States
  <2>3. AfterWork(pc[t], outcome) = "state" /\ (whose = "Agent" => tx[conn] = "idle")
    BY <1>6, <1>18, <2>1 DEF AfterWork
  <2> HIDE DEF Sends
  <2> QED
    BY <1>3, <1>10, <1>18, <2>1, <2>2, <2>3
<1>19. CASE /\ pc[t] \in {"put1", "put2"} /\ said # "lost"
            /\ IF said = "ok" THEN GoOn(t, AfterPut(pc[t]), FALSE, "ok")
               ELSE Finish(t, IF said = "stale" THEN "refused" ELSE "error")
  <2>1. sound /\ j = "save" /\ ~inside /\ whose # "Agent"
    BY <1>1, <1>4, <1>5, <1>8, <1>19 DEF AtServer
  <2>2. CASE said = "ok"
    <3>1. /\ tx[conn] = "open" /\ own[conn] = "saving"
          /\ pc[t] = "put1" => pending[conn] = {Label("save", 1)}
          /\ pc[t] = "put2" => pending[conn] = {Label("save", 1), Label("save", 2)}
      BY <1>1, <1>4, <1>19, <2>1, <2>2 DEF AtServer, WritesOf
    <3>2. Sends(AfterPut(pc[t]), FALSE) /\ AfterPut(pc[t]) \in {"put2", "keep"}
      <4>0. None # "ok"
        BY NoneAssumption DEF Replies
      <4>1. CASE pc[t] = "put1"
        <5>1. AfterPut(pc[t]) = "put2"
          BY <4>1 DEF AfterPut
        <5>2. Sends("put2", FALSE)
          BY <2>1, <3>1, <4>0, <4>1 DEF AtServer
        <5> HIDE DEF Sends
        <5> QED
          BY <5>1, <5>2
      <4>2. CASE pc[t] = "put2"
        BY <2>1, <3>1, <4>2 DEF AtServer, AfterPut
      <4> QED
        BY <1>19, <4>1, <4>2
    <3> HIDE DEF Sends
    <3> QED
      BY <1>7, <1>9, <1>19, <2>1, <2>2, <3>2
  <2>3. CASE said # "ok"
    <3> DEFINE a == IF said = "stale" THEN "refused" ELSE "error"
    <3>1. AfterWork(pc[t], a) = "undo"
      BY <1>19 DEF AfterWork
    <3>2. Sends("undo", inside)
      BY <2>1 DEF AtServer
    <3>3. a \in Answers
      BY <1>7
    <3> HIDE DEF Sends
    <3> QED
      BY <1>10, <1>19, <2>1, <2>3, <3>1, <3>2, <3>3
  <2> QED
    BY <2>2, <2>3
<1>20. CASE pc[t] = "keep" /\ said # "lost" /\ Finish(t, said)
  <2>1. /\ sound /\ j = "save" /\ ~inside /\ whose # "Agent" /\ said \in {"ok", "error"}
        /\ Clean(own[conn], pending[conn], saved[conn]) /\ tx[conn] = "idle"
    BY <1>1, <1>4, <1>5, <1>8, <1>20 DEF AtServer
  <2>2. AfterWork(pc[t], said) \in {"undo", "state"}
    BY <1>20 DEF AfterWork
  <2>3. Sends("undo", inside) /\ Sends("state", inside)
    BY <2>1 DEF AtServer, States
  <2> HIDE DEF Sends
  <2> QED
    BY <1>7, <1>10, <1>20, <2>1, <2>2, <2>3
<1> QED
  BY <1>11, <1>12, <1>13, <1>14, <1>15, <1>16, <1>17, <1>18, <1>19, <1>20 DEF Read

\* The work finds the connection in the slot as AtRest says, reads a late answer first, or opens one.
LEMMA LockKeeps ==
    ASSUME IInv, NEW t \in Tasks, Lock(t)
    PROVE  IInv'
<1>1. /\ pc[t] = "waiting" /\ holder = None /\ t # None /\ conn = None /\ ~inside
      /\ job[t] \in JobsOf[whose] /\ whose \in {"Reader", "Agent"}
  BY NoneAssumption, JobsAssumption DEF Lock, IInv, OneHolder, TypeOK
<1>2. /\ queue' = Tail(queue) /\ queue # <<>> /\ holder' = t /\ conn' = held /\ held' = None
      /\ UNCHANGED <<whose, reported, job, cancelled, outcome, answer>>
  BY DEF Lock, LeftIn
<1>3. queue' \in Seq(Tasks)
  BY <1>2 DEF IInv, TypeOK
<1>4. whose = "Agent" => /\ reported = "idle"
                         /\ held # None /\ held \notin broken => tx[held] = "idle"
  BY <1>1 DEF IInv, AgentsIdle, Whole
<1>5. ASSUME NEW p \in {"connect", "drain"}, pc' = [pc EXCEPT ![t] = p], UNCHANGED <<inside, server>>,
             p = "connect" <=> held = None,
             p = "drain" => wire[held] # None
      PROVE  IInv'
  <2>1. /\ pc'[t] = p /\ \A u \in Tasks : u # t => pc'[u] = pc[u]
        /\ UNCHANGED <<wire, reply, tx, own, pending, saved, broken, committed>>
    BY <1>5 DEF IInv, TypeOK, server
  <2>2. TypeOK'
    <3>1. pc' \in [Tasks -> Pcs]
      BY <1>5 DEF IInv, TypeOK, Pcs, WorkPcs
    <3> QED
      BY <1>2, <1>3, <1>5, <2>1, <3>1 DEF IInv, TypeOK
  <2>3. OneHolder'
    <3>1. p = "connect" => reported = "idle"
      BY <1>1, <1>5 DEF IInv, ReportedTruly
    <3> QED
      BY <1>1, <1>2, <1>5, <2>1, <3>1 DEF IInv, OneHolder, WorkPcs, StatePcs
  <2>4. (NoneKnown /\ BrokenTell /\ SafeToServe /\ NothingKept)'
    BY <1>2, <1>5, <2>1 DEF IInv, NoneKnown, BrokenTell, SafeToServe, NothingKept
  <2>5. AtRest' /\ ReportedTruly'
    BY <1>1, <1>2 DEF AtRest, ReportedTruly
  <2>6. InWork'
    <3>1. held # None /\ held \notin broken =>
            /\ p = "drain" /\ Clean(own[held], pending[held], saved[held])
            /\ wire[held].command = "ask" /\ tx[held] = "idle" /\ reply[held] \in {None, "idle"}
      BY <1>1, <1>5 DEF IInv, AtRest, Whole
    <3>2. held # None /\ held \notin broken =>
            AtServer("drain", job[t], FALSE, wire[held], reply[held], tx[held], own[held],
                     pending[held], saved[held])
      BY <3>1 DEF AtServer
    <3>3. inside' = FALSE
      BY <1>1, <1>5 DEF IInv, TypeOK
    <3> QED
      BY <1>1, <1>2, <1>5, <2>1, <3>1, <3>2, <3>3 DEF InWork
  <2>7. AgentsIdle'
    BY <1>1, <1>2, <1>4, <1>5, <2>1 DEF AgentsIdle, Whole
  <2> QED
    BY <2>2, <2>3, <2>4, <2>5, <2>6, <2>7 DEF IInv
<1>6. CASE held = None /\ pc' = [pc EXCEPT ![t] = "connect"] /\ UNCHANGED <<inside, server>>
  BY <1>5, <1>6
<1>7. CASE /\ held # None /\ wire[held] # None /\ pc' = [pc EXCEPT ![t] = "drain"]
           /\ UNCHANGED <<inside, server>>
  BY <1>5, <1>7
<1>8. CASE held # None /\ wire[held] = None /\ Send(t, held, First(job[t]), FALSE)
  <2> DEFINE p == First(job[t])
  <2>1. /\ p \in {"ask", "open", "main"} /\ p \in (WorkPcs \cup StatePcs) \ {"drain"} /\ p \notin StatePcs
        /\ held \in Conns /\ tx[held] # None /\ outcome \in Answers /\ FALSE \in BOOLEAN
    BY <1>8 DEF First, WorkPcs, StatePcs, IInv, NoneKnown, TypeOK
  <2>2. held \notin broken => Clean(own[held], pending[held], saved[held]) /\ tx[held] \in States
    BY <1>1, <1>8 DEF IInv, AtRest, Whole
  <2>3. job[t] \in {"reading", "escape"} => whose = "Agent"
    BY <1>1 DEF JobsOf
  <2>4. held \notin broken =>
          \A w : w.command = Command(job[t], p, FALSE) /\ w.writes = WritesOf(job[t], p)
                 => AtServer(p, job[t], FALSE, w, None, tx[held], own[held], pending[held], saved[held])
    <3>1. CASE job[t] \in {"explain", "save"}
      BY <2>2, <3>1 DEF First, AtServer
    <3>2. CASE job[t] \in {"reading", "escape"}
      <4>1. p = "open" /\ (held \notin broken => tx[held] = "idle")
        BY <1>4, <1>8, <2>3, <3>2 DEF First
      <4> QED
        BY <2>2, <3>2, <4>1 DEF AtServer, Guarded
    <3>3. CASE job[t] \notin {"explain", "save", "reading", "escape"}
      BY <2>2, <3>3 DEF First, AtServer, Guarded
    <3> QED
      BY <3>1, <3>2, <3>3
  <2>5. held' = IF p \in StatePcs THEN held ELSE None
    BY <1>2, <2>1
  <2>6. Send(t, held, p, FALSE)
    BY <1>8
  <2>7. whose = "Agent" => /\ ~FALSE
                           /\ held \notin broken /\ p \in {"ask", "open", "state"} => tx[held] = "idle"
    BY <1>4, <1>8
  <2>8. outcome' = outcome
    BY <1>2
  <2> HIDE DEF p
  <2> QED
    BY <1>1, <1>2, <1>3, <2>1, <2>4, <2>5, <2>6, <2>7, <2>8, SendingKeeps
<1> QED
  BY <1>6, <1>7, <1>8 DEF Lock

\* A caller connecting keeps it.
LEMMA ConnectKeeps ==
    ASSUME IInv, NEW t \in Tasks, Connect(t)
    PROVE  IInv'
<1> DEFINE p == First(job[t])
           Sent1 == [command |-> Command(job[t], p, FALSE), writes |-> WritesOf(job[t], p)]
<1>1. PICK c \in Conns :
        /\ tx[c] = None /\ conn' = c
        /\ tx' = [tx EXCEPT ![c] = "idle"] /\ pc' = [pc EXCEPT ![t] = p]
        /\ wire' = [wire EXCEPT ![c] = Sent1]
  BY DEF Connect
<1>2. /\ pc[t] = "connect"
      /\ UNCHANGED <<whose, queue, holder, held, reported, job, cancelled, inside, outcome, answer,
                     reply, own, pending, saved, broken, committed>>
  BY DEF Connect
<1>3. /\ holder = t /\ t # None /\ job[t] \in JobsOf[whose]
      /\ conn = None /\ held = None /\ reported = "idle" /\ ~inside
  BY <1>2, PastWaiting
<1>4. /\ p \in {"ask", "open", "main"} /\ p \in (WorkPcs \cup StatePcs) \ {"drain"}
      /\ p \in WorkPcs /\ p \notin StatePcs /\ p \in Pcs
  BY DEF First, WorkPcs, StatePcs, Pcs
<1>5. Sent1 \in Sent /\ Sent1 # None /\ c # None
      /\ Sent1.command = Command(job[t], p, FALSE) /\ Sent1.writes = WritesOf(job[t], p)
  BY <1>4, SentTyped, NoneAssumption
<1>6. /\ wire[c] = None /\ reply[c] = None /\ c \notin broken
      /\ own[c] = "reader" /\ pending[c] = {} /\ saved[c] = None
  BY <1>1 DEF IInv, NoneKnown
<1>7. AtServer(p, job[t], FALSE, Sent1, None, "idle", own[c], pending[c], saved[c])
  <2>1. CASE job[t] \in {"explain", "save"}
    BY <1>5, <1>6, <2>1 DEF First, AtServer, Clean, States
  <2>2. CASE job[t] \in {"reading", "escape"}
    BY <1>5, <1>6, <2>2 DEF First, AtServer, Clean, Guarded
  <2>3. CASE job[t] \notin {"explain", "save", "reading", "escape"}
    BY <1>5, <1>6, <2>3 DEF First, AtServer, Clean, Guarded, States
  <2> QED
    BY <2>1, <2>2, <2>3
<1>8. /\ Sent1.command = "commit" => Keepable(pending[c])
      /\ Sent1.command = "write" /\ "idle" = "idle" => Keepable(Sent1.writes)
  BY <1>4, <1>5, <1>7, WorkIsSafe
<1> HIDE DEF p, Sent1
<1>9. /\ pc'[t] = p /\ tx'[c] = "idle" /\ wire'[c] = Sent1
      /\ \A u \in Tasks : u # t => pc'[u] = pc[u]
      /\ \A d \in Conns : d # c => tx'[d] = tx[d] /\ wire'[d] = wire[d]
  BY <1>1 DEF IInv, TypeOK
<1>10. TypeOK'
  <2>1. /\ pc' \in [Tasks -> Pcs] /\ tx' \in [Conns -> States \cup {None}]
        /\ wire' \in [Conns -> Sent \cup {None}]
    BY <1>1, <1>4, <1>5 DEF IInv, TypeOK, States
  <2> QED
    BY <1>1, <1>2, <2>1 DEF IInv, TypeOK
<1>11. OneHolder'
  <2>1. \A u \in Tasks : u # t => pc'[u] \in {"idle", "waiting"}
    BY <1>3, <1>9 DEF IInv, OneHolder
  <2>2. \A u \in Tasks : pc'[u] # "idle" => job'[u] \in JobsOf[whose']
    BY <1>2, <1>3, <1>9 DEF IInv, OneHolder
  <2> QED
    BY <1>1, <1>2, <1>3, <1>4, <1>5, <1>9, <2>1, <2>2 DEF OneHolder
<1>12. NoneKnown'
  BY <1>1, <1>2, <1>3, <1>5, <1>9, NoneAssumption DEF IInv, NoneKnown, States
<1>13. BrokenTell'
  BY <1>2, <1>6, <1>9 DEF IInv, BrokenTell, TypeOK
<1>14. SafeToServe'
  <2>1. ASSUME NEW d \in Conns, wire'[d] # None, reply'[d] = None, d \notin broken'
        PROVE  /\ wire'[d].command = "commit" => Keepable(pending'[d])
               /\ wire'[d].command = "write" /\ tx'[d] = "idle" => Keepable(wire'[d].writes)
    <3>1. CASE d = c
      BY <1>2, <1>8, <1>9, <3>1
    <3>2. CASE d # c
      BY <1>2, <1>9, <2>1, <3>2 DEF IInv, SafeToServe
    <3> QED
      BY <3>1, <3>2
  <2> QED
    BY <2>1 DEF SafeToServe
<1>15. InWork'
  <2>1. inside' = FALSE
    BY <1>2, <1>3 DEF IInv, TypeOK
  <2> QED
    BY <1>1, <1>2, <1>3, <1>6, <1>7, <1>9, <2>1 DEF InWork
<1>16. AtRest' /\ ReportedTruly' /\ NothingKept'
  BY <1>2, <1>3 DEF IInv, AtRest, ReportedTruly, NothingKept
<1>17. AgentsIdle'
  BY <1>1, <1>2, <1>3, <1>9 DEF AgentsIdle, Whole
<1> QED
  BY <1>10, <1>11, <1>12, <1>13, <1>14, <1>15, <1>16, <1>17 DEF IInv

\* The answer tells the header where the reader's transaction stands.
LEMMA ReadStateKeeps ==
    ASSUME IInv, NEW t \in Tasks, ReadState(t)
    PROVE  IInv'
<1> DEFINE said == reply[conn]
           sound == conn \notin broken
<1>1. pc[t] \in StatePcs /\ said # None /\ UNCHANGED whose
  BY DEF ReadState
<1>2. /\ holder = t /\ t # None /\ conn \in Conns /\ conn # None /\ tx[conn] \in States
      /\ wire[conn] # None /\ job[t] \in JobsOf[whose] /\ held = conn
      /\ pc[t] \in WorkPcs \cup StatePcs /\ pc[t] \notin {"idle", "waiting"}
  BY <1>1, PastWaiting, NoneAssumption DEF StatePcs
<1>3. inside \in BOOLEAN /\ outcome \in Answers /\ whose \in {"Reader", "Agent"}
  BY JobsAssumption DEF IInv, TypeOK
<1>4. sound => AtServer(pc[t], job[t], inside, wire[conn], said, tx[conn], own[conn],
                        pending[conn], saved[conn])
  BY <1>2 DEF IInv, InWork
<1>5. ~sound => said = "lost"
  BY <1>2 DEF IInv, BrokenTell
<1>6. CASE pc[t] = "undo" /\ said # "lost"
  <2>1. sound /\ job[t] = "save" /\ Clean(own[conn], pending[conn], saved[conn]) /\ tx[conn] = "idle"
    BY <1>1, <1>4, <1>5, <1>6 DEF AtServer
  <2>2. whose # "Agent"
    BY <1>2, <2>1 DEF JobsOf
  <2>3. GoOn(t, "state", FALSE, outcome)
    BY <1>6 DEF ReadState
  <2>4. \A w : w.command = Command(job[t], "state", FALSE) /\ w.writes = WritesOf(job[t], "state")
               => AtServer("state", job[t], FALSE, w, None, tx[conn], own[conn], pending[conn], saved[conn])
    BY <2>1 DEF AtServer, States
  <2>5. "state" \in (WorkPcs \cup StatePcs) \ {"drain"} /\ "state" \in StatePcs
    BY DEF StatePcs
  <2> QED
    BY <1>1, <1>2, <1>3, <2>1, <2>2, <2>3, <2>4, <2>5, GoingOnKeeps
<1>7. CASE ~(pc[t] = "undo" /\ said # "lost")
  <2>1. /\ held' = (IF said \in States THEN held ELSE None) /\ reported' = Told(said)
        /\ wire' = [wire EXCEPT ![conn] = None] /\ reply' = [reply EXCEPT ![conn] = None]
        /\ Unlock(t, outcome) /\ UNCHANGED <<whose, tx, own, pending, saved, broken, committed>>
    BY <1>1, <1>7 DEF ReadState
  <2>2. /\ holder' = None /\ conn' = None /\ inside' = FALSE /\ outcome' = "ok" /\ queue' = queue
        /\ pc' = [pc EXCEPT ![t] = "idle"] /\ answer' = [answer EXCEPT ![t] = outcome]
        /\ cancelled' = cancelled \ {t} /\ job' = [job EXCEPT ![t] = None]
    BY <2>1 DEF Unlock
  <2>3. /\ pc'[t] = "idle" /\ job'[t] = None /\ wire'[conn] = None /\ reply'[conn] = None
        /\ \A u \in Tasks : u # t => pc'[u] = pc[u] /\ job'[u] = job[u]
        /\ \A d \in Conns : d # conn => wire'[d] = wire[d] /\ reply'[d] = reply[d]
    BY <1>2, <2>1, <2>2 DEF IInv, TypeOK
  <2>4. TypeOK'
    <3>1. pc' \in [Tasks -> Pcs] /\ job' \in [Tasks -> JobsOf[whose] \cup {None}]
          /\ answer' \in [Tasks -> Answers \cup {None}]
      BY <1>3, <2>2 DEF IInv, TypeOK, Pcs
    <3>2. reported' \in States /\ outcome' \in Answers /\ cancelled' \subseteq Tasks /\ inside' \in BOOLEAN
      BY <2>1, <2>2 DEF IInv, TypeOK, States, Answers, Told
    <3>3. wire' \in [Conns -> Sent \cup {None}] /\ reply' \in [Conns -> Replies \cup {None}]
      BY <2>1 DEF IInv, TypeOK
    <3> QED
      BY <2>1, <2>2, <3>1, <3>2, <3>3 DEF IInv, TypeOK
  <2>5. OneHolder'
    BY <1>2, <2>1, <2>2, <2>3 DEF IInv, OneHolder
  <2>6. NoneKnown'
    <3>1. \A d \in Conns : tx[d] = None => wire'[d] = None /\ reply'[d] = None
      BY <2>3 DEF IInv, NoneKnown
    <3> QED
      BY <1>2, <2>1, <2>2, <3>1 DEF IInv, NoneKnown
  <2>7. BrokenTell'
    BY <2>1, <2>3 DEF IInv, BrokenTell, TypeOK
  <2>8. SafeToServe'
    <3>1. ASSUME NEW d \in Conns, wire'[d] # None
          PROVE  wire'[d] = wire[d] /\ reply'[d] = reply[d]
      BY <2>3, <3>1
    <3> QED
      BY <2>1, <3>1 DEF IInv, SafeToServe
  <2>9. InWork' /\ NothingKept'
    BY <2>1, <2>2 DEF IInv, InWork, NothingKept
  <2>10. CASE said \in States
    <3>1. said # "lost"
      BY <2>10 DEF States
    <3>2. pc[t] = "state"
      BY <1>1, <1>7, <3>1 DEF StatePcs
    <3>3. sound /\ said = tx[conn] /\ Clean(own[conn], pending[conn], saved[conn])
      BY <1>1, <1>4, <1>5, <3>1, <3>2 DEF AtServer
    <3>4. reported' = said /\ held' = conn
      BY <1>2, <2>1, <2>10 DEF Told
    <3>5. whose = "Agent" => tx[conn] = "idle"
      BY <1>2, <3>2, <3>3 DEF IInv, AgentsIdle, Whole
    <3>6. AtRest' /\ ReportedTruly'
      BY <1>2, <2>1, <2>3, <3>3, <3>4 DEF AtRest, ReportedTruly, Whole, Clean
    <3>7. AgentsIdle'
      BY <2>1, <2>2, <3>3, <3>4, <3>5 DEF AgentsIdle, Whole
    <3> QED
      BY <2>4, <2>5, <2>6, <2>7, <2>8, <2>9, <3>6, <3>7 DEF IInv
  <2>11. CASE said \notin States
    <3>1. held' = None /\ reported' = "idle"
      BY <2>1, <2>11 DEF Told
    <3>2. (AtRest /\ ReportedTruly /\ AgentsIdle)'
      BY <2>2, <3>1 DEF AtRest, ReportedTruly, AgentsIdle, Whole
    <3> QED
      BY <2>4, <2>5, <2>6, <2>7, <2>8, <2>9, <3>2 DEF IInv
  <2> QED
    BY <2>10, <2>11
<1> QED
  BY <1>6, <1>7

\* The other ways out: cancelled, refused or out of time.
LEMMA GivingUpKeeps ==
    ASSUME IInv, NEW t \in Tasks,
           ConnectCancelled(t) \/ ConnectFails(t) \/ Interrupt(t) \/ StateTimesOut(t)
    PROVE  IInv'
<1>1. /\ pc[t] \in {"connect"} \cup WorkPcs \cup StatePcs /\ pc[t] \notin {"idle", "waiting"}
      /\ UNCHANGED <<whose, server>>
  BY DEF ConnectCancelled, ConnectFails, Interrupt, StateTimesOut, Heard, WorkPcs, StatePcs
<1>2. outcome \in Answers /\ {"cancelled", "error"} \subseteq Answers
  BY DEF IInv, TypeOK, Answers
<1>3. \E a \in Answers : Unlock(t, a)
  BY <1>2 DEF ConnectCancelled, ConnectFails, Interrupt, StateTimesOut
<1>4. held' = None /\ reported' = "idle"
  BY <1>1, PastWaiting DEF ConnectCancelled, ConnectFails, Interrupt, StateTimesOut, Heard
<1> QED
  BY <1>1, <1>3, <1>4, LettingGoKeeps

\* An agent's call leaves the connection in the slot only while it is asked where it stands:
\* there was no transaction on it then.
LEMMA AbandonKeeps ==
    ASSUME IInv, NEW t \in Tasks, Abandon(t)
    PROVE  IInv'
<1>1. whose = "Agent" /\ pc[t] # "idle" /\ UNCHANGED <<whose, held, reported, server>> /\ reported = "idle"
  BY DEF Abandon, IInv, AgentsIdle
<1>2. CASE pc[t] = "waiting"
  <2>1. /\ LeaveQueue(t) /\ pc' = [pc EXCEPT ![t] = "idle"] /\ answer' = [answer EXCEPT ![t] = "timeout"]
        /\ job' = [job EXCEPT ![t] = None] /\ UNCHANGED <<holder, cancelled, conn, inside, outcome>>
    BY <1>2 DEF Abandon
  <2>2. TypeOK'
    <3>1. queue' \in Seq(Tasks)
      BY <2>1 DEF LeaveQueue, IInv, TypeOK
    <3>2. pc' \in [Tasks -> Pcs] /\ job' \in [Tasks -> JobsOf[whose] \cup {None}]
          /\ answer' \in [Tasks -> Answers \cup {None}]
      BY <2>1 DEF IInv, TypeOK, Pcs, Answers
    <3> QED
      BY <1>1, <2>1, <3>1, <3>2 DEF IInv, TypeOK, server
  <2> QED
    BY <1>1, <1>2, <2>1, <2>2, WaitersKeep
<1>3. CASE pc[t] # "waiting"
  <2>1. Unlock(t, "timeout") /\ "timeout" \in Answers /\ pc[t] \notin {"idle", "waiting"}
    BY <1>1, <1>3 DEF Abandon, Answers
  <2>2. holder = t /\ t # None /\ job[t] \in JobsOf[whose]
    BY <2>1, PastWaiting
  <2>3. CASE held = None
    BY <1>1, <2>1, <2>3, LettingGoKeeps
  <2>4. CASE held # None
    <3>1. pc[t] \in StatePcs /\ held = conn /\ held \in Conns
      BY <2>1, <2>2, <2>4 DEF IInv, OneHolder, TypeOK, Pcs
    <3>2. held \notin broken =>
            /\ pc[t] = "state" /\ Clean(own[held], pending[held], saved[held]) /\ tx[held] = "idle"
            /\ wire[held].command = "ask" /\ reply[held] \in {None, "idle"}
      <4> SUFFICES ASSUME held \notin broken
                   PROVE  /\ pc[t] = "state" /\ Clean(own[held], pending[held], saved[held])
                          /\ tx[held] = "idle"
                          /\ wire[held].command = "ask" /\ reply[held] \in {None, "idle"}
        OBVIOUS
      <4>1. AtServer(pc[t], job[t], inside, wire[held], reply[held], tx[held], own[held],
                     pending[held], saved[held])
        BY <2>2, <2>4, <3>1 DEF IInv, InWork
      <4>2. pc[t] = "undo" => job[t] = "save"
        BY <4>1 DEF AtServer
      <4>3. pc[t] = "state"
        BY <1>1, <2>2, <3>1, <4>2 DEF StatePcs, JobsOf
      <4>4. tx[held] = "idle"
        BY <1>1, <2>2, <2>4, <4>3 DEF IInv, AgentsIdle, Whole
      <4>5. wire[held].command = Command(job[t], "state", inside)
        BY <4>1, <4>3 DEF AtServer
      <4>6. wire[held].command = "ask"
        BY <4>5 DEF Command
      <4> QED
        BY <4>1, <4>3, <4>4, <4>6 DEF AtServer
    <3>3. /\ holder' = None /\ conn' = None /\ inside' = FALSE /\ outcome' = "ok" /\ queue' = queue
          /\ pc' = [pc EXCEPT ![t] = "idle"] /\ answer' = [answer EXCEPT ![t] = "timeout"]
          /\ cancelled' = cancelled \ {t} /\ job' = [job EXCEPT ![t] = None]
          /\ UNCHANGED <<whose, held, reported, wire, reply, tx, own, pending, saved, broken, committed>>
      BY <1>1, <2>1 DEF Unlock, server
    <3>4. /\ pc'[t] = "idle" /\ job'[t] = None
          /\ \A u \in Tasks : u # t => pc'[u] = pc[u] /\ job'[u] = job[u]
      BY <3>3 DEF IInv, TypeOK
    <3>5. TypeOK'
      <4>1. pc' \in [Tasks -> Pcs] /\ job' \in [Tasks -> JobsOf[whose] \cup {None}]
            /\ answer' \in [Tasks -> Answers \cup {None}]
        BY <2>1, <3>3 DEF IInv, TypeOK, Pcs
      <4>2. outcome' \in Answers /\ cancelled' \subseteq Tasks /\ inside' \in BOOLEAN
        BY <3>3 DEF IInv, TypeOK, Answers
      <4> QED
        BY <3>3, <4>1, <4>2 DEF IInv, TypeOK
    <3>6. OneHolder'
      BY <2>2, <3>3, <3>4 DEF IInv, OneHolder
    <3>7. (NoneKnown /\ BrokenTell /\ SafeToServe /\ NothingKept)'
      BY <3>3 DEF IInv, NoneKnown, BrokenTell, SafeToServe, NothingKept
    <3>8. (InWork /\ AtRest /\ ReportedTruly)'
      BY <1>1, <2>4, <3>2, <3>3 DEF InWork, AtRest, ReportedTruly, Whole, Clean, States
    <3>9. AgentsIdle'
      BY <1>1, <3>2, <3>3 DEF AgentsIdle, Whole
    <3> QED
      BY <3>5, <3>6, <3>7, <3>8, <3>9 DEF IInv
  <2> QED
    BY <2>3, <2>4
<1> QED
  BY <1>2, <1>3

-----------------------------------------------------------------------------

\* Every step keeps the invariant.
LEMMA NextKeeps == IInv /\ [Next]_vars => IInv'
<1> SUFFICES ASSUME IInv, [Next]_vars PROVE IInv'
  OBVIOUS
<1>1. ASSUME NEW t \in Tasks, NEW j \in Jobs, Ask(t, j) PROVE IInv'
  <2>1. /\ pc[t] = "idle" /\ j \in JobsOf[whose]
        /\ pc' = [pc EXCEPT ![t] = "waiting"] /\ job' = [job EXCEPT ![t] = j]
        /\ queue' = Append(queue, t) /\ answer' = [answer EXCEPT ![t] = None]
        /\ UNCHANGED <<whose, holder, held, reported, cancelled, conn, inside, outcome, server>>
    BY <1>1 DEF Ask
  <2>2. TypeOK'
    <3>1. queue' \in Seq(Tasks)
      BY <2>1 DEF IInv, TypeOK
    <3>2. pc' \in [Tasks -> Pcs] /\ job' \in [Tasks -> JobsOf[whose] \cup {None}]
          /\ answer' \in [Tasks -> Answers \cup {None}]
      BY <2>1 DEF IInv, TypeOK, Pcs
    <3> QED
      BY <2>1, <3>1, <3>2 DEF IInv, TypeOK, server
  <2> QED
    BY <2>1, <2>2, WaitersKeep
<1>2. ASSUME NEW t \in Tasks, Cancel(t) PROVE IInv'
  <2>1. /\ cancelled' = cancelled \cup {t}
        /\ UNCHANGED <<whose, queue, holder, held, reported, pc, job, conn, inside, outcome, answer>>
        /\ UNCHANGED <<wire, reply, tx, own, pending, saved, broken, committed>>
    BY <1>2 DEF Cancel, server
  <2>2. TypeOK'
    BY <2>1 DEF IInv, TypeOK
  <2>3. (OneHolder /\ NoneKnown /\ BrokenTell /\ SafeToServe /\ NothingKept)'
    BY <2>1 DEF IInv, OneHolder, NoneKnown, BrokenTell, SafeToServe, NothingKept
  <2>4. (InWork /\ AtRest /\ AgentsIdle /\ ReportedTruly)'
    BY <2>1 DEF IInv, InWork, AtRest, AgentsIdle, ReportedTruly, Whole
  <2> QED
    BY <2>2, <2>3, <2>4 DEF IInv
<1>3. ASSUME NEW t \in Tasks, StopWaiting(t) PROVE IInv'
  <2>1. /\ pc[t] = "waiting" /\ LeaveQueue(t)
        /\ pc' = [pc EXCEPT ![t] = "idle"] /\ answer' = [answer EXCEPT ![t] = "cancelled"]
        /\ cancelled' = cancelled \ {t} /\ job' = [job EXCEPT ![t] = None]
        /\ UNCHANGED <<whose, holder, held, reported, conn, inside, outcome, server>>
    BY <1>3 DEF StopWaiting
  <2>2. TypeOK'
    <3>1. queue' \in Seq(Tasks)
      BY <2>1 DEF LeaveQueue, IInv, TypeOK
    <3>2. pc' \in [Tasks -> Pcs] /\ job' \in [Tasks -> JobsOf[whose] \cup {None}]
          /\ answer' \in [Tasks -> Answers \cup {None}]
      BY <2>1 DEF IInv, TypeOK, Pcs, Answers
    <3> QED
      BY <2>1, <3>1, <3>2 DEF IInv, TypeOK, server
  <2> QED
    BY <2>1, <2>2, WaitersKeep
<1>4. ASSUME NEW t \in Tasks, Run(t) \/ Abandon(t) PROVE IInv'
  BY <1>3, <1>4, LockKeeps, ConnectKeeps, GivingUpKeeps, ReadKeeps, ReadStateKeeps, AbandonKeeps DEF Run
<1>5. ASSUME NEW c \in Conns, Serve(c) \/ Break(c) \/ Reap(c) PROVE IInv'
  BY <1>5, ServeKeeps, BreakKeeps, ReapKeeps
<1>6. CASE UNCHANGED vars
  <2>1. /\ UNCHANGED <<whose, queue, holder, held, reported, pc, job, cancelled, conn, inside,
                       outcome, answer>>
        /\ UNCHANGED <<wire, reply, tx, own, pending, saved, broken, committed>>
    BY <1>6 DEF vars, client, server
  <2>2. (TypeOK /\ OneHolder /\ NoneKnown /\ BrokenTell /\ SafeToServe /\ NothingKept)'
    BY <2>1 DEF IInv, TypeOK, OneHolder, NoneKnown, BrokenTell, SafeToServe, NothingKept
  <2>3. (InWork /\ AtRest /\ AgentsIdle /\ ReportedTruly)'
    BY <2>1 DEF IInv, InWork, AtRest, AgentsIdle, ReportedTruly, Whole
  <2> QED
    BY <2>2, <2>3 DEF IInv
<1> QED
  BY <1>1, <1>2, <1>4, <1>5, <1>6 DEF Next

\* So it holds throughout.
LEMMA Invariant == Spec => []IInv
<1>1. Init => IInv
  BY InitKeeps
<1>2. IInv /\ [Next]_vars => IInv'
  BY NextKeeps
<1> QED
  BY <1>1, <1>2, PTL DEF Spec

-----------------------------------------------------------------------------
(* What a session does, whoever calls it and however often *)

\* Every variable of a session keeps to its type.
THEOREM SessionTypeCorrect == Spec => []TypeOK
<1>1. IInv => TypeOK
  BY DEF IInv
<1> QED
  BY <1>1, Invariant, PTL

\* Between statements the header is told the truth about the reader's transaction (the end of
\* run_on): for every job, in every order, with cancels, lost connections and timeouts.
THEOREM HeaderToldTruly == Spec => []ReportedTruly
<1>1. IInv => ReportedTruly
  BY DEF IInv
<1> QED
  BY <1>1, Invariant, PTL

\* Nothing an analyzed plan or an agent's read wrote is kept, and no save by halves, however
\* many connections were dropped with a command on its way; and no call of an agent finds the
\* transaction of the one before it (explain::run, execute_reading, edit::apply).
THEOREM NothingIsLeft == Spec => []NothingLeft
<1>1. IInv => StartsClean
  <2> SUFFICES ASSUME IInv, whose = "Agent", NEW t \in Tasks, pc[t] = "open", Whole(conn), reply[conn] = None
               PROVE  tx[conn] = "idle"
    BY DEF StartsClean
  <2>1. holder = t /\ t # None
    BY PastWaiting
  <2> QED
    BY <2>1 DEF IInv, AgentsIdle
<1>2. IInv => NothingLeft
  BY <1>1 DEF IInv, NothingLeft
<1> QED
  BY <1>2, Invariant, PTL

\* An answer that costs the connection comes only of one the server has closed.
LEMMA LostIsBroken ==
    ASSUME IInv, NEW t \in Tasks, Read(t), conn \notin broken
    PROVE  conn \in {held', conn'}
<1> DEFINE said == reply[conn]
<1>1. pc[t] \in WorkPcs /\ said # None
  BY DEF Read
<1>2. holder = t /\ t # None /\ conn \in Conns /\ conn # None
  BY <1>1, PastWaiting, NoneAssumption DEF WorkPcs
<1>3. AtServer(pc[t], job[t], inside, wire[conn], said, tx[conn], own[conn], pending[conn], saved[conn])
  BY <1>2 DEF IInv, InWork
<1>4. said # "lost"
  <2>1. CASE pc[t] \in {"drain", "ask"}
    BY <1>1, <1>3, <2>1 DEF AtServer, States
  <2>2. CASE pc[t] \in {"open", "end", "put1", "put2", "keep"}
    BY <1>1, <1>3, <2>2 DEF AtServer
  <2>3. CASE pc[t] = "main"
    BY <1>1, <1>3, <2>3 DEF AtServer
  <2> QED
    BY <1>1, <2>1, <2>2, <2>3 DEF WorkPcs
<1>5. pc[t] = "end" => said # "error"
  BY <1>1, <1>3 DEF AtServer
<1>6. \A p, in, went : GoOn(t, p, in, went) => conn' = conn
  BY DEF GoOn
<1>7. \A a : a # "lost" /\ Finish(t, a) => held' = conn
  BY DEF Finish, Trusted
<1>8. outcome # "lost"
  BY DEF IInv, TypeOK, Answers
<1> QED
  BY <1>4, <1>5, <1>6, <1>7, <1>8 DEF Read

\* A transaction is given up only for a cancel heard while the work ran, for a server that does
\* not say where it stands, or with a connection the server closed.
THEOREM TransactionNeverLost == Spec => TransactionKept
<1>1. IInv /\ [Next]_vars => [KeptUnlessCancelled]_vars
  <2> SUFFICES ASSUME IInv, Next, NEW c \in {held, conn}, whose = "Reader", Whole(c), c \notin {held', conn'}
               PROVE  \/ pc[holder] \in WorkPcs /\ holder \in cancelled
                      \/ pc[holder] \in StatePcs /\ reply[c] = None
    BY DEF KeptUnlessCancelled
  <2>1. c # None /\ c \notin broken
    BY DEF Whole
  <2>2. CASE UNCHANGED <<held, conn>>
    BY <2>2
  <2>3. ASSUME NEW t \in Tasks, Lock(t) PROVE FALSE
    BY <2>1, <2>3 DEF Lock, IInv, OneHolder
  <2>4. ASSUME NEW t \in Tasks, Connect(t) \/ ConnectCancelled(t) \/ ConnectFails(t) PROVE FALSE
    <3>1. pc[t] = "connect"
      BY <2>4 DEF Connect, ConnectCancelled, ConnectFails
    <3> QED
      BY <2>1, <3>1, PastWaiting
  <2>5. ASSUME NEW t \in Tasks, Interrupt(t) PROVE pc[holder] \in WorkPcs /\ holder \in cancelled
    <3>1. pc[t] \in WorkPcs /\ t \in cancelled
      BY <2>5 DEF Interrupt, Heard
    <3> QED
      BY <3>1, PastWaiting DEF WorkPcs
  <2>6. ASSUME NEW t \in Tasks, Read(t) PROVE FALSE
    <3>1. pc[t] \in WorkPcs
      BY <2>6 DEF Read
    <3>2. held = None
      BY <3>1, PastWaiting DEF WorkPcs
    <3>3. c = conn
      BY <2>1, <3>2
    <3> QED
      BY <2>1, <2>6, <3>3, LostIsBroken
  <2>7. ASSUME NEW t \in Tasks, ReadState(t) PROVE FALSE
    <3>1. pc[t] \in StatePcs /\ reply[conn] # None
      BY <2>7 DEF ReadState
    <3>2. holder = t /\ t # None /\ held = conn /\ c = conn
      BY <3>1, PastWaiting DEF StatePcs
    <3>3. AtServer(pc[t], job[t], inside, wire[conn], reply[conn], tx[conn], own[conn],
                   pending[conn], saved[conn])
      BY <2>1, <3>2 DEF IInv, InWork
    <3>4. CASE pc[t] = "undo"
      <4>1. reply[conn] = "ok"
        BY <3>1, <3>3, <3>4 DEF AtServer
      <4> QED
        BY <2>7, <3>2, <3>4, <4>1 DEF ReadState, GoOn
    <3>5. CASE pc[t] = "state"
      <4>1. reply[conn] \in States
        BY <3>1, <3>3, <3>5 DEF AtServer
      <4> QED
        BY <2>7, <3>2, <3>5, <4>1 DEF ReadState
    <3> QED
      BY <3>1, <3>4, <3>5 DEF StatePcs
  <2>8. ASSUME NEW t \in Tasks, StateTimesOut(t) PROVE pc[holder] \in StatePcs /\ reply[c] = None
    <3>1. pc[t] \in StatePcs /\ reply[conn] = None
      BY <2>8 DEF StateTimesOut
    <3> QED
      BY <3>1, PastWaiting DEF StatePcs
  <2>9. ASSUME NEW t \in Tasks, StopWaiting(t) \/ Abandon(t) \/ Cancel(t) \/ \E j \in Jobs : Ask(t, j)
        PROVE  FALSE
    BY <2>9 DEF StopWaiting, Abandon, Cancel, Ask
  <2>10. ASSUME NEW d \in Conns, Serve(d) \/ Break(d) \/ Reap(d) PROVE FALSE
    <3>1. tx[d] # None
      BY <2>10 DEF Serve, Break, Reap, Dropped, IInv, NoneKnown
    <3>2. UNCHANGED <<held, conn>>
      BY <2>10, <3>1, ServeFrame DEF Break, Reap, client, IInv
    <3> QED
      BY <3>2
  <2> QED
    BY <2>3, <2>4, <2>5, <2>6, <2>7, <2>8, <2>9, <2>10 DEF Next, Run
<1> QED
  BY <1>1, Invariant, PTL DEF Spec, TransactionKept

-----------------------------------------------------------------------------
(* What ReaderTransaction promises, and what is told of a save *)

Rows == {Label("save", 1), Label("save", 2)}

\* Nobody cancels a save, or an agent's call.
Uncancelled ==
    /\ \A t \in cancelled : pc[t] # "idle" /\ job[t] # "save"
    /\ whose = "Agent" => cancelled = {}

\* Outside a transaction nothing is pending. A closed connection has none.
Emptied ==
    /\ \A c \in Conns : tx[c] = "idle" => own[c] = "reader" /\ pending[c] = {} /\ saved[c] = None
    /\ \A c \in broken : tx[c] = "idle"

\* What an agent's dropped connection may yet execute makes nothing permanent.
AgentsAdrift ==
    whose = "Agent" =>
        \A c \in Conns : wire[c] # None /\ reply[c] = None /\ c \notin broken =>
            /\ wire[c].command = "commit" => pending[c] = {}
            /\ wire[c].command = "write" => tx[c] # "idle"

\* A transaction that the driver began is not the reader's until it is over.
Own(p, j, in) ==
    \/ p \in {"put1", "put2", "keep", "undo"}
    \/ p \in {"main", "end"} /\ j \in Guarded /\ ~in

DriversOwn ==
    holder # None /\ conn # None /\ conn \notin broken /\ Own(pc[holder], job[holder], inside) =>
        own[conn] # "reader" \/ tx[conn] = "idle"

\* A save that went well is in the database from its COMMIT on.
SavedWhenDone ==
    holder # None /\ job[holder] = "save" =>
        /\ pc[holder] = "keep" /\ reply[conn] = "ok" => Rows \subseteq committed
        /\ pc[holder] \in StatePcs /\ outcome = "ok" => Rows \subseteq committed

Kept == Uncancelled /\ Emptied /\ AgentsAdrift /\ DriversOwn /\ SavedWhenDone

-----------------------------------------------------------------------------
(* What the steps of a session have in common *)

\* A transaction begins, goes on, fails or ends.
LEMMA ServeShape ==
    ASSUME TypeOK, NEW c \in Conns, tx[c] # None, Serve(c)
    PROVE  \/ \E r : Stays(c, r)
           \/ tx[c] # "idle" /\ Fails(c)
           \/ \E r \in {"ok", "error"} : Ends(c, r)
           \/ /\ wire[c].command \in {"begin", "begin reading"}
              /\ \E o : Leaves(c, "open", o, {}, None, "ok")
           \/ /\ tx[c] = "open" \/ wire[c].command = "rollback to"
              /\ \E pe, sa : Leaves(c, "open", own[c], pe, sa, "ok")
<1> DEFINE w == wire[c]
<1>1. \A r : Unmoved(c, r) => Stays(c, r)
  BY AfterIs DEF Unmoved, Stays
<1>2. \A kept, r : Ended(c, kept, r) => Ends(c, r)
  BY AfterIs DEF Ended, Ends
<1>3. Failed(c) => (\E r : Stays(c, r)) \/ (tx[c] # "idle" /\ Fails(c))
  BY <1>1, AfterIs DEF Failed, Fails
<1>4. \A o : Began(c, o) => (\E r : Stays(c, r)) \/ Leaves(c, "open", o, {}, None, "ok")
  BY <1>1, AfterIs DEF Began
<1>5. \A pe, sa : After(c, "open", own[c], pe, sa, {}, "ok") => Leaves(c, "open", own[c], pe, sa, "ok")
  BY AfterIs
<1>6. CASE \E r : Unmoved(c, r)
  BY <1>1, <1>6
<1>7. CASE w.command \in {"begin", "begin reading"} /\ \E o : Began(c, o)
  BY <1>4, <1>7
<1>8. CASE Failed(c)
  BY <1>3, <1>8
<1>9. CASE \E kept : \E r \in {"ok", "error"} : Ended(c, kept, r)
  BY <1>2, <1>9
<1>10. CASE /\ tx[c] = "open" \/ w.command = "rollback to"
            /\ \E pe, sa : After(c, "open", own[c], pe, sa, {}, "ok")
  BY <1>5, <1>10
<1>11. \/ \E r : Unmoved(c, r)
       \/ w.command \in {"begin", "begin reading"} /\ \E o : Began(c, o)
       \/ Failed(c)
       \/ \E kept : \E r \in {"ok", "error"} : Ended(c, kept, r)
       \/ /\ tx[c] = "open" \/ w.command = "rollback to"
          /\ \E pe, sa : After(c, "open", own[c], pe, sa, {}, "ok")
  BY Zenon DEF Serve
<1> QED
  BY <1>6, <1>7, <1>8, <1>9, <1>10, <1>11

\* A step of a caller that is past waiting: what it does to the connection it uses.
LEMMA ReadShape ==
    ASSUME IInv, NEW t \in Tasks, Read(t)
    PROVE  /\ holder = t /\ pc[t] \in WorkPcs /\ held = None /\ conn \in Conns
           /\ UNCHANGED <<whose, tx, own, pending, saved, broken, committed>>
           /\ \/ /\ conn \in broken /\ Unlock(t, "error") /\ held' = None /\ UNCHANGED server
              \/ \E p, in : /\ Send(t, conn, p, in) /\ p \notin {"idle", "waiting", "connect", "drain"}
                            /\ UNCHANGED <<holder, conn, job, cancelled, answer>>
                            /\ held' \in {None, conn}
<1>1. pc[t] \in WorkPcs /\ UNCHANGED whose
  BY DEF Read
<1>2. holder = t /\ held = None /\ conn \in Conns /\ conn # None
  BY <1>1, PastWaiting, NoneAssumption DEF WorkPcs
<1> DEFINE Gone == conn \in broken /\ Unlock(t, "error") /\ held' = None /\ UNCHANGED server
           Goes(p, in) == /\ Send(t, conn, p, in) /\ p \notin {"idle", "waiting", "connect", "drain"}
                          /\ UNCHANGED <<holder, conn, job, cancelled, answer>>
                          /\ held' \in {None, conn}
<1>3. ASSUME NEW p \in {"ask", "open", "main", "end", "put1", "put2", "keep"}, NEW in, NEW went,
             GoOn(t, p, in, went)
      PROVE  Goes(p, in)
  BY <1>2, <1>3 DEF GoOn
<1>4. ASSUME NEW a, Finish(t, a), a # "lost"
      PROVE  Goes(AfterWork(pc[t], a), inside)
  BY <1>2, <1>4 DEF Finish, Trusted, AfterWork
<1>5. ASSUME Finish(t, "lost")
      PROVE  Gone
  <2>1. Unlock(t, "error") /\ held' = None /\ UNCHANGED server
    BY <1>2, <1>5 DEF Finish, Trusted
  <2>2. conn' = None
    BY <2>1 DEF Unlock
  <2> QED
    BY <1>2, <2>1, <2>2, LostIsBroken
<1> DEFINE Goal == Gone \/ \E p, in : Goes(p, in)
<1>6. Goal
  <2>1. \A p \in {"ask", "open", "main", "end", "put1", "put2", "keep"} : \A in, went :
            GoOn(t, p, in, went) => Goal
    BY <1>3
  <2>2. \A a : Finish(t, a) => Goal
    BY <1>4, <1>5
  <2>3. First(job[t]) \in {"ask", "open", "main"} /\ AfterPut(pc[t]) \in {"put2", "keep"}
    BY DEF First, AfterPut
  <2> HIDE DEF Goal
  <2> QED
    BY <2>1, <2>2, <2>3 DEF Read
<1>7. UNCHANGED <<tx, own, pending, saved, broken, committed>>
  BY <1>6 DEF Send, server
<1> QED
  BY <1>1, <1>2, <1>6, <1>7

\* What the other steps of a caller do.
LEMMA RunShape ==
    ASSUME IInv, NEW t \in Tasks, Run(t) \/ Abandon(t)
    PROVE  /\ UNCHANGED <<whose, own, pending, saved, broken, committed>>
           /\ Connect(t) \/ UNCHANGED tx
           /\ \A d \in Conns \ {conn'} : /\ wire'[d] = wire[d] \/ wire'[d] = None
                                         /\ wire'[d] # None => reply'[d] = reply[d]
<1>1. CASE StopWaiting(t) \/ ConnectCancelled(t) \/ ConnectFails(t) \/ Interrupt(t) \/ StateTimesOut(t)
           \/ Abandon(t)
  BY <1>1 DEF StopWaiting, ConnectCancelled, ConnectFails, Interrupt, StateTimesOut, Abandon, server
<1>2. CASE Lock(t)
  <2>1. CASE held # None /\ wire[held] = None /\ Send(t, held, First(job[t]), FALSE)
    <3>1. conn' = held /\ UNCHANGED whose
      BY <1>2 DEF Lock
    <3>2. held \in Conns
      BY <2>1 DEF IInv, TypeOK
    <3> QED
      BY <2>1, <3>1, <3>2 DEF Send, IInv, TypeOK
  <2> QED
    BY <1>2, <2>1 DEF Lock, server
<1>3. CASE Connect(t)
  BY <1>3 DEF Connect, IInv, TypeOK
<1>4. CASE Read(t)
  <2>1. conn \in Conns /\ UNCHANGED <<whose, tx, own, pending, saved, broken, committed>>
    BY <1>4, ReadShape
  <2>2. CASE UNCHANGED server
    BY <2>1, <2>2 DEF server
  <2>3. CASE \E p, in : Send(t, conn, p, in) /\ UNCHANGED conn
    BY <2>1, <2>3 DEF Send, IInv, TypeOK
  <2> QED
    BY <1>4, <2>2, <2>3, ReadShape
<1>5. CASE ReadState(t)
  <2>1. conn \in Conns
    <3>1. pc[t] \in StatePcs
      BY <1>5 DEF ReadState
    <3> QED
      BY <3>1, PastWaiting DEF StatePcs
  <2>2. CASE GoOn(t, "state", FALSE, outcome)
    BY <1>5, <2>1, <2>2 DEF GoOn, Send, ReadState, IInv, TypeOK
  <2>3. CASE /\ wire' = [wire EXCEPT ![conn] = None] /\ reply' = [reply EXCEPT ![conn] = None]
             /\ UNCHANGED <<tx, own, pending, saved, broken, committed>>
    BY <1>5, <2>1, <2>3 DEF ReadState, IInv, TypeOK
  <2> QED
    BY <1>5, <2>2, <2>3 DEF ReadState
<1> QED
  BY <1>1, <1>2, <1>3, <1>4, <1>5 DEF Run

\* The steps of a session: a caller's, or the server's, or neither.
LEMMA StepIs ==
    ASSUME [Next]_vars
    PROVE  \/ \E t \in Tasks : (\E j \in Jobs : Ask(t, j)) \/ Cancel(t) \/ Run(t) \/ Abandon(t)
           \/ \E c \in Conns : Serve(c) \/ Break(c) \/ Reap(c)
           \/ UNCHANGED <<whose, queue, holder, held, reported, pc, job, cancelled, conn, inside, outcome,
                          answer, wire, reply, tx, own, pending, saved, broken, committed>>
BY DEF Next, vars, client, server

-----------------------------------------------------------------------------
(* Each of the five is kept *)

\* Nobody cancels a save, whatever the step.
LEMMA UncancelledKept == IInv /\ Uncancelled /\ [Next]_vars => Uncancelled'
<1> SUFFICES ASSUME IInv, Uncancelled, [Next]_vars PROVE Uncancelled'
  OBVIOUS
<1>0. pc \in [Tasks -> Pcs] /\ job \in [Tasks -> JobsOf[whose] \cup {None}] /\ cancelled \subseteq Tasks
  BY DEF IInv, TypeOK
<1>1. ASSUME NEW t \in Tasks, NEW j \in Jobs, Ask(t, j) PROVE Uncancelled'
  BY <1>0, <1>1 DEF Ask, Uncancelled
<1>2. ASSUME NEW t \in Tasks, Cancel(t) PROVE Uncancelled'
  BY <1>0, <1>2 DEF Cancel, Cancellable, Uncancelled
<1>3. ASSUME NEW t \in Tasks, cancelled' = cancelled \ {t}, NEW p, NEW j, UNCHANGED whose,
             pc' = [pc EXCEPT ![t] = p], job' = [job EXCEPT ![t] = j]
      PROVE  Uncancelled'
  BY <1>0, <1>3 DEF Uncancelled
<1>4. ASSUME NEW t \in Tasks, UNCHANGED <<whose, cancelled, job>>, NEW p, p # "idle",
             pc' = [pc EXCEPT ![t] = p]
      PROVE  Uncancelled'
  BY <1>0, <1>4 DEF Uncancelled
<1>5. ASSUME NEW t \in Tasks, StopWaiting(t) PROVE Uncancelled'
  BY <1>3, <1>5 DEF StopWaiting
<1>6. ASSUME NEW t \in Tasks, ConnectCancelled(t) \/ ConnectFails(t) \/ Interrupt(t) \/ StateTimesOut(t)
      PROVE  Uncancelled'
  BY <1>3, <1>6 DEF ConnectCancelled, ConnectFails, Interrupt, StateTimesOut, Unlock
<1>7. ASSUME NEW t \in Tasks, Lock(t) PROVE Uncancelled'
  <2>1. First(job[t]) # "idle"
    BY DEF First
  <2> QED
    BY <1>4, <1>7, <2>1 DEF Lock, Send
<1>8. ASSUME NEW t \in Tasks, Connect(t) PROVE Uncancelled'
  <2>1. First(job[t]) # "idle"
    BY DEF First
  <2> QED
    BY <1>4, <1>8, <2>1 DEF Connect
<1>9. ASSUME NEW t \in Tasks, Read(t) PROVE Uncancelled'
  BY <1>3, <1>4, <1>9, ReadShape DEF Unlock, Send
<1>10. ASSUME NEW t \in Tasks, ReadState(t) PROVE Uncancelled'
  BY <1>3, <1>4, <1>10 DEF ReadState, GoOn, Send, Unlock
<1>11. ASSUME NEW t \in Tasks, Abandon(t) PROVE Uncancelled'
  BY <1>0, <1>11 DEF Abandon, Unlock, Uncancelled
<1>12. ASSUME NEW c \in Conns, Serve(c) \/ Break(c) \/ Reap(c) PROVE Uncancelled'
  <2>1. tx[c] # None
    BY <1>12 DEF Serve, Break, Reap, Dropped, IInv, NoneKnown
  <2>2. UNCHANGED <<whose, pc, job, cancelled>>
    BY <1>12, <2>1, ServeFrame DEF Break, Reap, client, IInv
  <2> QED
    BY <2>2 DEF Uncancelled
<1> QED
  BY <1>1, <1>2, <1>5, <1>6, <1>7, <1>8, <1>9, <1>10, <1>11, <1>12, StepIs DEF Run, Uncancelled

\* A transaction that is over leaves nothing pending.
LEMMA EmptiedKept == IInv /\ Emptied /\ [Next]_vars => Emptied'
<1> SUFFICES ASSUME IInv, Emptied, [Next]_vars PROVE Emptied'
  OBVIOUS
<1>0. TypeOK
  BY DEF IInv
<1>1. ASSUME NEW t \in Tasks, (\E j \in Jobs : Ask(t, j)) \/ Cancel(t) PROVE Emptied'
  BY <1>1 DEF Ask, Cancel, server, Emptied
<1>2. ASSUME NEW t \in Tasks, Run(t) \/ Abandon(t) PROVE Emptied'
  <2>1. UNCHANGED <<own, pending, saved, broken>> /\ (Connect(t) \/ UNCHANGED tx)
    BY <1>2, RunShape
  <2>2. CASE Connect(t)
    BY <1>0, <2>1, <2>2 DEF Connect, Emptied, IInv, NoneKnown, TypeOK
  <2> QED
    BY <2>1, <2>2 DEF Emptied
<1>3. ASSUME NEW c \in Conns, Serve(c) PROVE Emptied'
  <2>1. tx[c] # None /\ c \notin broken
    BY <1>3 DEF Serve, IInv, NoneKnown
  <2>2. OthersKeep(c) /\ UNCHANGED broken
    BY <1>0, <1>3, <2>1, ServeFrame
  <2>3. tx'[c] = "idle" => own'[c] = "reader" /\ pending'[c] = {} /\ saved'[c] = None
    BY <1>0, <1>3, <2>1, ServeShape DEF Stays, Fails, Ends, Leaves, Emptied
  <2> QED
    BY <1>0, <2>1, <2>2, <2>3 DEF OthersKeep, Emptied, TypeOK
<1>4. ASSUME NEW c \in Conns, Break(c) \/ Reap(c) PROVE Emptied'
  BY <1>0, <1>4 DEF Break, Reap, Emptied, TypeOK
<1> QED
  BY <1>1, <1>2, <1>3, <1>4, StepIs DEF Emptied

\* What an agent left adrift keeps nothing.
LEMMA AgentsAdriftKept == IInv /\ IInv' /\ AgentsAdrift /\ [Next]_vars => AgentsAdrift'
<1> DEFINE Safe(c) == wire[c] # None /\ reply[c] = None /\ c \notin broken =>
                        /\ wire[c].command = "commit" => pending[c] = {}
                        /\ wire[c].command = "write" => tx[c] # "idle"
<1> SUFFICES ASSUME IInv, IInv', AgentsAdrift, [Next]_vars, whose' = "Agent", NEW c \in Conns
             PROVE  Safe(c)'
  BY DEF AgentsAdrift
<1>1. whose = "Agent" /\ Safe(c)
  <2>1. UNCHANGED whose
    <3>1. ASSUME NEW d \in Conns, Serve(d) \/ Break(d) \/ Reap(d) PROVE UNCHANGED whose
      <4>1. tx[d] # None
        BY <3>1 DEF Serve, Break, Reap, Dropped, IInv, NoneKnown
      <4> QED
        BY <3>1, <4>1, ServeFrame DEF Break, Reap, client, IInv
    <3> QED
      BY <3>1, RunShape, StepIs DEF Ask, Cancel
  <2> QED
    BY <2>1 DEF AgentsAdrift
\* The connection in use: what the work in hand has asked for.
<1>2. CASE holder' # None /\ c = conn'
  <2> SUFFICES ASSUME wire'[c] # None, reply'[c] = None, c \notin broken'
               PROVE  /\ wire'[c].command = "commit" => pending'[c] = {}
                      /\ wire'[c].command = "write" => tx'[c] # "idle"
    OBVIOUS
  <2> DEFINE p == pc'[holder']
             j == job'[holder']
             w == wire'[c]
  <2>1. ~inside' /\ j \in {"reading", "escape", "explain"} /\ p \in WorkPcs \cup StatePcs
    <3>1. holder' \in Tasks /\ c # None
      BY <1>2, NoneAssumption DEF IInv, TypeOK
    <3>2. p \notin {"idle", "waiting", "connect"} /\ p \in Pcs /\ ~inside'
      BY <1>1, <1>2, <3>1 DEF IInv, OneHolder, TypeOK, AgentsIdle
    <3> QED
      BY <1>2, <3>1, <3>2 DEF IInv, OneHolder, Pcs, JobsOf
  <2>2. AtServer(p, j, inside', w, None, tx'[c], own'[c], pending'[c], saved'[c])
    BY <1>2, NoneAssumption DEF IInv, InWork
  <2> HIDE DEF p, j, w
  <2>3. p = "drain" => w.command = "ask"
    BY <2>2 DEF AtServer
  <2>4. p # "drain" => w.command = Command(j, p, inside')
    BY <2>2 DEF AtServer
  <2>5. CASE p \in {"ask", "state", "undo"}
    BY <2>4, <2>5 DEF Command, w
  <2>6. CASE p = "open"
    BY <2>1, <2>4, <2>6 DEF Command, w
  <2>7. CASE p = "end"
    BY <2>1, <2>4, <2>7 DEF Command, EndOf, w
  <2>8. CASE p \in {"put1", "put2", "keep"}
    BY <2>1, <2>2, <2>8 DEF AtServer
  <2>9. CASE p = "main"
    BY <2>1, <2>2, <2>9 DEF AtServer, Guarded
  <2> QED
    BY <2>1, <2>3, <2>5, <2>6, <2>7, <2>8, <2>9 DEF WorkPcs, StatePcs, w
<1>3. CASE ~(holder' # None /\ c = conn')
  <2>1. c # conn'
    BY <1>3, NoneAssumption DEF IInv, OneHolder
  <2>2. ASSUME NEW t \in Tasks, (\E j \in Jobs : Ask(t, j)) \/ Cancel(t) PROVE Safe(c)'
    BY <1>1, <2>2 DEF Ask, Cancel, server
  <2>3. ASSUME NEW t \in Tasks, Run(t) \/ Abandon(t) PROVE Safe(c)'
    <3>1. /\ UNCHANGED <<pending, broken>> /\ (Connect(t) \/ UNCHANGED tx)
          /\ wire'[c] = wire[c] \/ wire'[c] = None
          /\ wire'[c] # None => reply'[c] = reply[c]
      BY <2>1, <2>3, RunShape
    <3>2. tx'[c] = tx[c]
      BY <2>1, <3>1 DEF Connect, IInv, TypeOK
    <3> QED
      BY <1>1, <3>1, <3>2
  <2>4. ASSUME NEW d \in Conns, Serve(d) PROVE Safe(c)'
    <3>1. tx[d] # None
      BY <2>4 DEF Serve, IInv, NoneKnown
    <3>2. OthersKeep(d) /\ UNCHANGED <<wire, broken>> /\ reply'[d] # None
      BY <2>4, <3>1, ServeFrame DEF IInv
    <3> QED
      BY <1>1, <3>2 DEF OthersKeep
  <2>5. ASSUME NEW d \in Conns, Break(d) \/ Reap(d) PROVE Safe(c)'
    BY <1>1, <2>5 DEF Break, Reap, IInv, TypeOK
  <2> QED
    BY <1>1, <2>2, <2>3, <2>4, <2>5, StepIs
<1> QED
  BY <1>2, <1>3

\* A transaction the driver began is the driver's until it is over.
LEMMA DriversOwnKept == IInv /\ IInv' /\ DriversOwn /\ [Next]_vars => DriversOwn'
<1> SUFFICES ASSUME IInv, IInv', DriversOwn, [Next]_vars, holder' # None, conn' # None, conn' \notin broken',
                    Own(pc[holder], job[holder], inside)'
             PROVE  own'[conn'] # "reader" \/ tx'[conn'] = "idle"
  BY DEF DriversOwn
<1> DEFINE Goal == own'[conn'] # "reader" \/ tx'[conn'] = "idle"
<1>0. TypeOK /\ TypeOK' /\ holder' \in Tasks /\ conn' \in Conns
  BY NoneAssumption DEF IInv, TypeOK
\* The statements that follow upon the one that began the transaction.
<1>1. ASSUME UNCHANGED <<holder, conn, tx, own, broken>>, Own(pc[holder], job[holder], inside)
      PROVE  Goal
  BY <1>1 DEF DriversOwn
\* Its own BEGIN is answered by then.
<1>2. ASSUME reply'[conn'] = None, pc'[holder'] \in {"main", "put1", "put2"}
      PROVE  Goal
  <2>1. AtServer(pc'[holder'], job'[holder'], inside', wire'[conn'], None, tx'[conn'], own'[conn'],
                 pending'[conn'], saved'[conn'])
    BY <1>2 DEF IInv, InWork
  <2>2. own'[conn'] \in {"reading", "saving"}
    BY <1>2, <2>1 DEF AtServer, Own
  <2> QED
    BY <2>2
<1>3. ASSUME NEW t \in Tasks, UNCHANGED <<holder, conn, inside, tx, own, broken>>,
             \/ UNCHANGED <<pc, job>>
             \/ /\ pc[t] \in {"idle", "waiting"}
                /\ \E p, j : pc' = [pc EXCEPT ![t] = p] /\ job' = [job EXCEPT ![t] = j]
      PROVE  Goal
  <2>1. holder \in Tasks /\ pc[holder] \notin {"idle", "waiting"}
    BY <1>0, <1>3 DEF IInv, OneHolder
  <2>2. pc'[holder] = pc[holder] /\ job'[holder] = job[holder]
    BY <1>0, <1>3, <2>1 DEF TypeOK
  <2> QED
    BY <1>1, <1>3, <2>2
<1>4. ASSUME NEW t \in Tasks, (\E j \in Jobs : Ask(t, j)) \/ Cancel(t) \/ StopWaiting(t) PROVE Goal
  BY <1>3, <1>4 DEF Ask, Cancel, StopWaiting, server
<1>5. ASSUME NEW t \in Tasks, Lock(t) PROVE Goal
  <2>1. holder' = t /\ job' = job /\ pc'[t] \in {"connect", "drain", First(job[t])}
    BY <1>0, <1>5 DEF Lock, Send, TypeOK
  <2> QED
    BY <2>1 DEF First, Own, Guarded
<1>6. ASSUME NEW t \in Tasks, Connect(t) PROVE Goal
  BY <1>0, <1>6 DEF Connect, TypeOK
<1>7. ASSUME NEW t \in Tasks, Read(t) PROVE Goal
  <2>1. holder = t /\ conn \in Conns /\ pc[t] \in WorkPcs /\ UNCHANGED <<tx, own, broken>>
    BY <1>7, ReadShape
  <2>2. ASSUME NEW p, NEW in, Send(t, conn, p, in), UNCHANGED <<holder, conn, job>>
        PROVE  /\ pc'[t] = p /\ inside' = in /\ reply'[conn] = None /\ Own(p, job[t], in)
               /\ p \in {"main", "put1", "put2"} => Goal
    <3>1. pc'[t] = p /\ inside' = in /\ reply'[conn] = None
      BY <1>0, <2>1, <2>2 DEF Send, TypeOK
    <3> QED
      BY <1>2, <2>1, <2>2, <3>1
  <2>3. \A p, in, went : GoOn(t, p, in, went) => Send(t, conn, p, in) /\ UNCHANGED <<holder, conn, job>>
    BY DEF GoOn
  <2>4. \A p, in, went : GoOn(t, p, in, went) /\ p \in {"main", "put1", "put2"} => Goal
    BY <2>2, <2>3
  <2>5. \A p, in, went : GoOn(t, p, in, went) => p \notin {"ask", "open"}
    BY <2>2, <2>3 DEF Own
  <2>6. \A p, in, went : GoOn(t, p, in, went) /\ Own(pc[t], job[t], inside) => Goal
    BY <1>1, <2>1, <2>3
  <2>7. ASSUME NEW a, Finish(t, a) PROVE Goal
    <3>1. Trusted(a)
      BY <2>7 DEF Finish, Unlock
    <3>2. Send(t, conn, AfterWork(pc[t], a), inside) /\ UNCHANGED <<holder, conn, job>>
      BY <2>7, <3>1 DEF Finish
    <3>3. Own(AfterWork(pc[t], a), job[t], inside)
      BY <2>2, <3>2
    <3>4. pc[t] \in {"put1", "put2", "keep"}
      BY <3>3 DEF Own, AfterWork
    <3> QED
      BY <1>1, <2>1, <3>2, <3>4 DEF Own
  <2>8. CASE pc[t] = "drain" /\ GoOn(t, First(job[t]), FALSE, "ok")
    <3>1. First(job[t]) \in {"ask", "open", "main"}
      BY DEF First
    <3> QED
      BY <2>4, <2>5, <2>8, <3>1
  <2>9. CASE GoOn(t, "open", reply[conn] = "open", "ok") \/ GoOn(t, "open", FALSE, "ok")
    BY <2>5, <2>9
  <2>10. CASE GoOn(t, IF job[t] = "save" THEN "put1" ELSE "main", inside, "ok")
    BY <2>4, <2>10
  <2>11. CASE /\ pc[t] = "main" /\ job[t] \in {"explain", "reading", "escape"}
              /\ GoOn(t, "end", inside, IF reply[conn] = "ok" THEN "ok" ELSE "error")
    <3>1. Own("end", job[t], inside)
      BY <2>2, <2>3, <2>11
    <3>2. Own(pc[t], job[t], inside)
      BY <2>11, <3>1 DEF Own
    <3> QED
      BY <2>6, <2>11, <3>2
  <2>12. CASE pc[t] \in {"put1", "put2"} /\ GoOn(t, AfterPut(pc[t]), FALSE, "ok")
    BY <2>6, <2>12 DEF Own
  <2>13. CASE \E a : Finish(t, a)
    BY <2>7, <2>13
  <2> HIDE DEF Goal
  <2> QED
    BY <1>7, <2>8, <2>9, <2>10, <2>11, <2>12, <2>13 DEF Read
<1>8. ASSUME NEW t \in Tasks, ReadState(t) PROVE Goal
  <2>1. holder = t
    <3>1. pc[t] \in StatePcs
      BY <1>8 DEF ReadState
    <3> QED
      BY <3>1, PastWaiting DEF StatePcs
  <2> QED
    BY <1>0, <1>8, <2>1 DEF ReadState, GoOn, Send, Unlock, Own, TypeOK
<1>9. ASSUME NEW t \in Tasks, ConnectCancelled(t) \/ ConnectFails(t) \/ Interrupt(t) \/ StateTimesOut(t)
      PROVE Goal
  BY <1>9 DEF ConnectCancelled, ConnectFails, Interrupt, StateTimesOut, Unlock
<1>10. ASSUME NEW t \in Tasks, Abandon(t) PROVE Goal
  BY <1>3, <1>10 DEF Abandon, Unlock, server
<1>11. ASSUME NEW c \in Conns, Serve(c) PROVE Goal
  <2>1. tx[c] # None /\ reply[c] = None
    BY <1>11 DEF Serve, IInv, NoneKnown
  <2>2. OthersKeep(c) /\ UNCHANGED <<holder, conn, inside, pc, job, broken>>
    BY <1>0, <1>11, <2>1, ServeFrame DEF client
  <2>3. Own(pc[holder], job[holder], inside) /\ (own[conn] # "reader" \/ tx[conn] = "idle")
    BY <2>2 DEF DriversOwn
  <2>4. CASE c # conn
    BY <1>0, <2>2, <2>3, <2>4 DEF OthersKeep
  <2>5. CASE c = conn
    <3> DEFINE p == pc[holder]
               j == job[holder]
    <3>1. AtServer(p, j, inside, wire[c], None, tx[c], own[c], pending[c], saved[c])
      BY <2>1, <2>2, <2>5 DEF IInv, InWork
    <3> HIDE DEF p, j
    <3>2. p # "drain" => wire[c].command = Command(j, p, inside)
      BY <3>1 DEF AtServer
    <3>3. wire[c].command \in {"write", "commit", "rollback"}
      <4>1. CASE p \in {"put1", "put2", "keep", "undo"}
        BY <3>2, <4>1 DEF Command
      <4>2. CASE p = "main" /\ j \in Guarded
        BY <3>2, <4>2 DEF Command, Guarded
      <4>3. CASE p = "end" /\ ~inside
        BY <3>2, <4>3 DEF Command, EndOf
      <4> QED
        BY <2>3, <4>1, <4>2, <4>3 DEF Own, p, j
    <3> QED
      BY <1>0, <1>11, <2>1, <2>2, <2>3, <2>5, <3>3, ServeShape DEF Stays, Fails, Ends, Leaves
  <2> QED
    BY <2>4, <2>5
<1>12. ASSUME NEW c \in Conns, Break(c) \/ Reap(c) PROVE Goal
  <2>1. conn' # c /\ UNCHANGED <<holder, conn, inside, pc, job>>
    BY <1>12 DEF Break, Reap, Dropped, client
  <2>2. tx'[conn] = tx[conn] /\ own'[conn] = own[conn] /\ conn \notin broken
    BY <1>0, <1>12, <2>1 DEF Break, Reap, TypeOK
  <2> QED
    BY <2>1, <2>2 DEF DriversOwn
<1>13. ASSUME UNCHANGED <<holder, conn, tx, own, broken, pc, job, inside>>
       PROVE  Goal
  BY <1>1, <1>13 DEF Own
<1> HIDE DEF Goal
<1>14. Goal
  BY <1>4, <1>5, <1>6, <1>7, <1>8, <1>9, <1>10, <1>11, <1>12, <1>13, StepIs DEF Run
<1> QED
  BY <1>14 DEF Goal

\* An open transaction whose COMMIT is answered well is in the database.
LEMMA CommitKeeps ==
    ASSUME TypeOK, NEW c \in Conns, Serve(c), wire[c].command = "commit", tx[c] = "open"
    PROVE  \/ Ends(c, "ok") /\ committed' = committed \cup pending[c]
           \/ Ends(c, "error") /\ committed' = committed
<1>1. Ended(c, pending[c], "ok") \/ Ended(c, {}, "error")
  BY DEF Serve
<1> QED
  BY <1>1, AfterIs DEF Ended, Ends

\* From the answer to its COMMIT on, a save is in the database.
LEMMA SavedWhenDoneKept == IInv /\ IInv' /\ SavedWhenDone /\ [Next]_vars => SavedWhenDone'
<1> SUFFICES ASSUME IInv, IInv', SavedWhenDone, [Next]_vars, holder' # None, job'[holder'] = "save",
                    \/ pc'[holder'] = "keep" /\ reply'[conn'] = "ok"
                    \/ pc'[holder'] \in StatePcs /\ outcome' = "ok"
             PROVE  Rows \subseteq committed'
  BY DEF SavedWhenDone
<1> DEFINE Goal == Rows \subseteq committed'
<1>0. TypeOK /\ TypeOK' /\ holder' \in Tasks
  BY NoneAssumption DEF IInv, TypeOK
<1>1. ASSUME committed \subseteq committed', UNCHANGED holder, job[holder] = "save",
             \/ pc[holder] = "keep" /\ reply[conn] = "ok"
             \/ pc[holder] \in StatePcs /\ outcome = "ok"
      PROVE  Goal
  BY <1>1 DEF SavedWhenDone
<1>2. ASSUME NEW t \in Tasks, UNCHANGED <<holder, conn, outcome, reply, committed>>,
             \/ UNCHANGED <<pc, job>>
             \/ /\ pc[t] \in {"idle", "waiting"}
                /\ \E p, j : pc' = [pc EXCEPT ![t] = p] /\ job' = [job EXCEPT ![t] = j]
      PROVE  Goal
  <2>1. holder \in Tasks /\ pc[holder] \notin {"idle", "waiting"}
    BY <1>0, <1>2 DEF IInv, OneHolder
  <2>2. pc'[holder] = pc[holder] /\ job'[holder] = job[holder]
    BY <1>0, <1>2, <2>1 DEF TypeOK
  <2> QED
    BY <1>1, <1>2, <2>2
<1>3. ASSUME NEW t \in Tasks, (\E j \in Jobs : Ask(t, j)) \/ Cancel(t) \/ StopWaiting(t) PROVE Goal
  BY <1>2, <1>3 DEF Ask, Cancel, StopWaiting, server
<1>4. ASSUME NEW t \in Tasks, Lock(t) \/ Connect(t) PROVE Goal
  <2>1. holder' = t /\ job' = job /\ pc'[t] \in {"connect", "drain", First(job[t])}
    <3>1. CASE Lock(t)
      BY <1>0, <3>1 DEF Lock, Send, TypeOK
    <3>2. CASE Connect(t)
      <4>1. pc[t] = "connect" /\ UNCHANGED <<holder, job>> /\ pc'[t] = First(job[t])
        BY <1>0, <3>2 DEF Connect, TypeOK
      <4> QED
        BY <4>1, PastWaiting
    <3> QED
      BY <1>4, <3>1, <3>2
  <2> QED
    BY <2>1 DEF First, StatePcs
<1>5. ASSUME NEW t \in Tasks, Read(t) PROVE Goal
  <2>1. holder = t /\ conn \in Conns /\ pc[t] \in WorkPcs /\ UNCHANGED committed
    BY <1>5, ReadShape
  <2>2. ASSUME NEW p, NEW in, Send(t, conn, p, in), UNCHANGED <<holder, conn, job>>
        PROVE  p \in StatePcs /\ outcome' = "ok" /\ job[t] = "save"
    <3>1. pc'[t] = p /\ reply'[conn] # "ok"
      BY <1>0, <2>1, <2>2, NoneAssumption DEF Send, TypeOK, Replies
    <3> QED
      BY <2>1, <2>2, <3>1
  <2>3. \A p, in, went : GoOn(t, p, in, went) => p \in StatePcs
    BY <2>2 DEF GoOn
  <2>4. ASSUME NEW a, Finish(t, a) PROVE a = "ok" /\ job[t] = "save"
    <3>1. Trusted(a)
      BY <2>4 DEF Finish, Unlock
    <3>2. Send(t, conn, AfterWork(pc[t], a), inside) /\ UNCHANGED <<holder, conn, job>> /\ outcome' = a
      BY <2>4, <3>1 DEF Finish
    <3> QED
      BY <2>2, <3>2
  <2>5. First(job[t]) \notin StatePcs /\ AfterPut(pc[t]) \notin StatePcs
    BY DEF First, AfterPut, StatePcs
  <2>6. /\ \A in, went : ~GoOn(t, "open", in, went) /\ ~GoOn(t, "end", in, went)
        /\ \A in, went : ~GoOn(t, "put1", in, went) /\ ~GoOn(t, "main", in, went)
        /\ \A in, went : ~GoOn(t, First(job[t]), in, went) /\ ~GoOn(t, AfterPut(pc[t]), in, went)
    BY <2>3, <2>5 DEF StatePcs
  <2>7. ~Finish(t, "lost") /\ ~Finish(t, "error") /\ ~Finish(t, "refused")
    BY <2>4
  <2>8. CASE pc[t] = "keep" /\ Finish(t, reply[conn])
    <3>1. reply[conn] = "ok" /\ job[t] = "save"
      BY <2>4, <2>8
    <3>2. UNCHANGED holder
      BY <2>8, <3>1 DEF Finish, Trusted
    <3> QED
      BY <1>1, <2>1, <2>8, <3>1, <3>2
  <2>9. reply[conn] # None
    BY <1>5 DEF Read
  <2>10. conn \in broken => reply[conn] = "lost"
    BY <2>1, PastWaiting DEF IInv, BrokenTell, WorkPcs
  <2>11. pc[t] = "main" \/ pc[t] = "end" => job[t] # "save" \/ reply[conn] = "lost"
    <3> SUFFICES ASSUME pc[t] \in {"main", "end"}, conn \notin broken PROVE job[t] # "save"
      BY <2>10
    <3>1. AtServer(pc[t], job[t], inside, wire[conn], reply[conn], tx[conn], own[conn],
                   pending[conn], saved[conn])
      BY <2>1, NoneAssumption DEF IInv, InWork
    <3> QED
      BY <3>1 DEF AtServer, Guarded
  <2>12. CASE pc[t] \in {"main", "end"} /\ \E a : Finish(t, a)
    <3>1. job[t] = "save"
      BY <2>4, <2>12
    <3>2. reply[conn] = "lost"
      BY <2>11, <2>12, <3>1
    <3> QED
      BY <1>5, <2>6, <2>7, <2>12, <3>2 DEF Read
  <2> HIDE DEF Goal
  <2> QED
    BY <1>5, <2>6, <2>7, <2>8, <2>12 DEF Read
<1>6. ASSUME NEW t \in Tasks, ReadState(t) PROVE Goal
  <2>1. pc[t] \in StatePcs
    BY <1>6 DEF ReadState
  <2>2. holder = t
    BY <2>1, PastWaiting DEF StatePcs
  <2>3. GoOn(t, "state", FALSE, outcome)
    BY <1>6 DEF ReadState, Unlock
  <2>4. UNCHANGED <<holder, job, committed>> /\ outcome' = outcome
    BY <2>3 DEF GoOn, Send
  <2>5. pc'[t] = "state"
    BY <1>0, <2>3 DEF GoOn, Send, TypeOK
  <2> QED
    BY <1>1, <2>1, <2>2, <2>4, <2>5
<1>7. ASSUME NEW t \in Tasks, ConnectCancelled(t) \/ ConnectFails(t) \/ Interrupt(t) \/ StateTimesOut(t)
      PROVE Goal
  BY <1>7 DEF ConnectCancelled, ConnectFails, Interrupt, StateTimesOut, Unlock
<1>8. ASSUME NEW t \in Tasks, Abandon(t) PROVE Goal
  BY <1>2, <1>8 DEF Abandon, Unlock, server
<1>9. ASSUME NEW c \in Conns, Serve(c) PROVE Goal
  <2>1. tx[c] # None /\ reply[c] = None /\ c \notin broken
    BY <1>9 DEF Serve, IInv, NoneKnown
  <2>2. OthersKeep(c) /\ UNCHANGED <<holder, conn, outcome, pc, job>> /\ committed \subseteq committed'
    BY <1>0, <1>9, <2>1, ServeFrame DEF client
  <2>3. CASE pc[holder] \in StatePcs
    BY <1>1, <2>2, <2>3 DEF StatePcs
  <2>4. CASE pc[holder] = "keep"
    <3>0. conn \in Conns /\ holder \in Tasks
      BY <1>0, <2>2, <2>4, PastWaiting DEF WorkPcs
    <3>1. CASE conn # c
      BY <1>1, <2>2, <2>4, <3>0, <3>1 DEF OthersKeep, StatePcs
    <3>2. CASE conn = c
      <4>1. AtServer("keep", "save", inside, wire[c], None, tx[c], own[c], pending[c], saved[c])
        BY <2>1, <2>2, <2>4, <3>0, <3>2, NoneAssumption DEF IInv, InWork
      <4>2. tx[c] = "open" /\ pending[c] = Rows /\ wire[c].command = Command("save", "keep", inside)
        BY <4>1 DEF AtServer, Rows
      <4>3. wire[c].command = "commit"
        BY <4>2 DEF Command
      <4>4. reply'[c] = "ok"
        BY <2>2, <2>4, <3>2 DEF StatePcs
      <4> QED
        BY <1>0, <1>9, <4>2, <4>3, <4>4, CommitKeeps DEF Ends, Leaves
    <3> QED
      BY <3>1, <3>2
  <2> QED
    BY <2>2, <2>3, <2>4
<1>10. ASSUME NEW c \in Conns, Break(c) \/ Reap(c) PROVE Goal
  <2>1. UNCHANGED <<holder, conn, outcome, pc, job, committed>>
    BY <1>10 DEF Break, Reap, client
  <2>2. pc'[holder] = "keep" /\ reply'[conn] = "ok" => reply[conn] = "ok"
    <3> SUFFICES ASSUME pc[holder] = "keep", reply'[conn] = "ok" PROVE reply[conn] = "ok"
      BY <2>1
    <3>1. conn \in Conns
      BY <1>0, <2>1, PastWaiting DEF WorkPcs
    <3>2. None # "ok"
      BY NoneAssumption DEF Replies
    <3> QED
      BY <1>0, <1>10, <3>1, <3>2 DEF Break, Reap, TypeOK
  <2> QED
    BY <1>1, <2>1, <2>2
<1>11. ASSUME UNCHANGED <<holder, conn, outcome, pc, job, reply, committed>> PROVE Goal
  BY <1>1, <1>11
<1> HIDE DEF Goal
<1>12. Goal
  BY <1>3, <1>4, <1>5, <1>6, <1>7, <1>8, <1>9, <1>10, <1>11, StepIs DEF Run
<1> QED
  BY <1>12 DEF Goal

\* All of these hold throughout, beside the invariant.
LEMMA KeptInvariant == Spec => [](IInv /\ Kept)
<1>1. Init => IInv /\ Kept
  <2> SUFFICES ASSUME Init PROVE Kept
    BY InitKeeps
  <2>1. Uncancelled /\ DriversOwn /\ SavedWhenDone
    BY DEF Init, Uncancelled, DriversOwn, SavedWhenDone
  <2>2. Emptied /\ AgentsAdrift
    BY NoneAssumption DEF Init, Emptied, AgentsAdrift
  <2> QED
    BY <2>1, <2>2 DEF Kept
<1>2. IInv /\ Kept /\ [Next]_vars => (IInv /\ Kept)'
  <2> SUFFICES ASSUME IInv, Kept, [Next]_vars PROVE IInv' /\ Kept'
    OBVIOUS
  <2>1. IInv'
    BY NextKeeps
  <2>2. Uncancelled' /\ Emptied' /\ AgentsAdrift' /\ DriversOwn' /\ SavedWhenDone'
    BY <2>1, UncancelledKept, EmptiedKept, AgentsAdriftKept, DriversOwnKept, SavedWhenDoneKept DEF Kept
  <2> QED
    BY <2>1, <2>2 DEF Kept
<1> QED
  BY <1>1, <1>2, PTL DEF Spec

-----------------------------------------------------------------------------
(* What a save is told *)

\* A save that reports success in a step is in the database.
LEMMA SavesToldStep == IInv /\ Kept /\ [Next]_vars => SavesTold
<1> SUFFICES ASSUME IInv, Kept, [Next]_vars, NEW t \in Tasks, job[t] = "save", job'[t] = None
             PROVE  /\ answer'[t] = "ok" => Rows \subseteq committed'
                    /\ answer'[t] = "refused" /\ held' # None => pending'[held'] \cap Rows = {}
  BY DEF SavesTold, Rows
<1> DEFINE Goal == /\ answer'[t] = "ok" => Rows \subseteq committed'
                   /\ answer'[t] = "refused" /\ held' # None => pending'[held'] \cap Rows = {}
<1>0. TypeOK /\ "save" # None
  BY NoneAssumption DEF IInv, JobsOf
<1>1. ASSUME answer'[t] \notin {"ok", "refused"} PROVE Goal
  BY <1>1
<1>2. ASSUME job' = job PROVE Goal
  BY <1>0, <1>2
<1>3. ASSUME NEW u \in Tasks, NEW v, job' = [job EXCEPT ![u] = v], u # t PROVE Goal
  BY <1>0, <1>3 DEF TypeOK
<1>4. ASSUME NEW u \in Tasks, NEW a, Unlock(u, a), a \notin {"ok", "refused"} PROVE Goal
  BY <1>0, <1>1, <1>3, <1>4 DEF Unlock, TypeOK
<1>5. ASSUME NEW u \in Tasks, NEW j \in Jobs, Ask(u, j) PROVE Goal
  <2>1. j # None
    BY NoneAssumption, JobsAssumption
  <2> QED
    BY <1>0, <1>3, <1>5, <2>1 DEF Ask, TypeOK
<1>6. ASSUME NEW u \in Tasks, StopWaiting(u) PROVE Goal
  BY <1>0, <1>1, <1>3, <1>6 DEF StopWaiting, TypeOK
<1>7. ASSUME NEW u \in Tasks, ConnectCancelled(u) \/ ConnectFails(u) \/ Interrupt(u) PROVE Goal
  BY <1>4, <1>7 DEF ConnectCancelled, ConnectFails, Interrupt
<1>8. ASSUME NEW u \in Tasks, Abandon(u) PROVE Goal
  BY <1>0, <1>1, <1>3, <1>4, <1>8 DEF Abandon, TypeOK
<1>9. ASSUME NEW u \in Tasks, Read(u) PROVE Goal
  <2>1. Unlock(u, "error") \/ job' = job
    BY <1>9, ReadShape
  <2> QED
    BY <1>2, <1>4, <2>1
<1>10. ASSUME NEW u \in Tasks, ReadState(u) \/ StateTimesOut(u), u = t, Unlock(u, outcome),
              UNCHANGED committed
       PROVE  Goal
  <2>1. pc[t] \in StatePcs
    BY <1>10 DEF ReadState, StateTimesOut
  <2>2. holder = t /\ t # None /\ conn \in Conns /\ held = conn
    BY <2>1, PastWaiting DEF StatePcs
  <2>3. answer'[t] = outcome
    BY <1>0, <1>10 DEF Unlock, TypeOK
  <2>4. outcome = "ok" => Rows \subseteq committed'
    BY <1>10, <2>1, <2>2 DEF Kept, SavedWhenDone
  <2>5. ASSUME held' # None PROVE pending'[held'] \cap Rows = {}
    <3>0. ReadState(t)
      BY <1>10, <2>5 DEF StateTimesOut
    <3>1. ~(pc[t] = "undo" /\ reply[conn] # "lost")
      <4>1. holder' # holder
        BY <1>10, <2>2 DEF Unlock
      <4> QED
        BY <3>0, <4>1 DEF ReadState, GoOn
    <3>2. reply[conn] \in States /\ held' = conn /\ pending' = pending
      BY <2>2, <2>5, <3>0, <3>1 DEF ReadState
    <3>3. pc[t] = "state" /\ conn \notin broken
      <4>1. reply[conn] # "lost"
        BY <3>2 DEF States
      <4>2. wire[conn] # None
        BY <2>1, PastWaiting DEF StatePcs
      <4>3. conn \in broken => reply[conn] = "lost"
        BY <4>2 DEF IInv, BrokenTell
      <4> QED
        BY <4>3, <2>1, <3>1, <4>1 DEF StatePcs
    <3>4. AtServer("state", job[t], inside, wire[conn], reply[conn], tx[conn], own[conn],
                   pending[conn], saved[conn])
      BY <2>2, <3>3, NoneAssumption DEF IInv, InWork
    <3>5. pending[conn] \subseteq {Label("write", 1)}
      BY <3>4 DEF AtServer, Clean, Readers1
    <3> QED
      BY <3>2, <3>5 DEF Label, Rows
  <2> QED
    BY <2>3, <2>4, <2>5
<1>11. ASSUME NEW u \in Tasks, ReadState(u) \/ StateTimesOut(u) PROVE Goal
  <2>1. job' = job \/ (Unlock(u, outcome) /\ UNCHANGED committed)
    BY <1>11 DEF ReadState, StateTimesOut, GoOn, server
  <2>2. CASE u # t
    BY <1>2, <1>3, <2>1, <2>2 DEF Unlock
  <2> QED
    BY <1>2, <1>10, <1>11, <2>1, <2>2
<1>12. ASSUME NEW c \in Conns, Serve(c) \/ Break(c) \/ Reap(c) PROVE job' = job
  <2>1. tx[c] # None
    BY <1>12, NoneAssumption DEF Serve, Break, Reap, Dropped, IInv, NoneKnown
  <2>2. CASE Serve(c)
    BY <1>0, <2>1, <2>2, ServeFrame DEF client
  <2> QED
    BY <1>12, <2>2 DEF Break, Reap, client
<1>13. ASSUME NEW u \in Tasks, Cancel(u) \/ Lock(u) \/ Connect(u) PROVE job' = job
  BY <1>13 DEF Cancel, Lock, Connect
<1> HIDE DEF Goal
<1>14. Goal
  BY <1>2, <1>5, <1>6, <1>7, <1>8, <1>9, <1>11, <1>12, <1>13 DEF Next, Run, vars, client
<1> QED
  BY <1>14 DEF Goal

\* A save told done is in the database, and one told refused has left nothing a later
\* COMMIT would keep (apply_plan).
THEOREM SaveToldTruly == Spec => SaveTold
<1>1. [](IInv /\ Kept) /\ [][Next]_vars => [][SavesTold]_vars
  BY SavesToldStep, PTL
<1> QED
  BY <1>1, KeptInvariant, PTL DEF Spec, SaveTold

-----------------------------------------------------------------------------
(* A session keeps ReaderTransaction *)

\* What the refinement shows of a session.
Doing == IF holder = None THEN None ELSE job[holder]
Link  == IF Whole(Current) THEN Current ELSE None
TheirTx == IF ~Readers THEN "none" ELSE IF Planned THEN "open" ELSE tx[Current]
TheirPending == IF ~Readers THEN {} ELSE IF Planned THEN saved[Current] ELSE pending[Current]
Adrift == {pending[c] : c \in {c \in Stranded : wire[c].command = "commit" /\ tx[c] = "open"}}
          \cup
          {wire[c].writes : c \in {c \in Stranded : wire[c].command = "write" /\ tx[c] = "idle"}}

\* Connection c may yet make S permanent.
MayKeep(c, S) ==
    \/ wire[c].command = "commit" /\ tx[c] = "open" /\ S = pending[c]
    \/ wire[c].command = "write" /\ tx[c] = "idle" /\ S = wire[c].writes

\* What is adrift, connection by connection.
LEMMA AdriftIs == \A S : S \in Adrift <=> \E c \in Stranded : MayKeep(c, S)
BY DEF Adrift, MayKeep

\* The promise's actions, in the words of the refinement.
Turns == /\ TheirTx # "none" => Link' = Link
         /\ UNCHANGED <<TheirTx, TheirPending, committed, Adrift>>
Begins == /\ Doing = "begin" /\ TheirTx = "none" /\ TheirTx' = "open"
          /\ UNCHANGED <<Doing, Link, TheirPending, committed, Adrift>>
Writes(w) == /\ Doing = "write" /\ w = Label("write", 1)
             /\ \/ TheirTx = "none" /\ committed' = committed \cup {w} /\ UNCHANGED TheirPending
                \/ TheirTx = "open" /\ TheirPending' = TheirPending \cup {w} /\ UNCHANGED committed
             /\ UNCHANGED <<Doing, Link, TheirTx, Adrift>>
FailsTheirs == /\ Doing \in {"write", "preview"} /\ TheirTx = "open" /\ TheirTx' = "failed"
               /\ UNCHANGED <<Doing, Link, TheirPending, committed, Adrift>>
EndsTheirs == /\ Doing \in {"commit", "rollback"} /\ TheirTx # "none"
              /\ TheirTx' = "none" /\ TheirPending' = {}
              /\ \/ Doing = "commit" /\ TheirTx = "open" /\ committed' = committed \cup TheirPending
                 \/ UNCHANGED committed
              /\ UNCHANGED <<Doing, Link, Adrift>>
Saves == /\ Doing = "save" /\ TheirTx = "none" /\ committed' = committed \cup Rows
         /\ UNCHANGED <<Doing, Link, TheirTx, TheirPending, Adrift>>
Loses == /\ Link # None /\ Link' = None /\ TheirTx' = "none" /\ TheirPending' = {}
         /\ \/ UNCHANGED Adrift
            \/ Doing = "commit" /\ TheirTx = "open" /\ Adrift' = Adrift \cup {TheirPending}
            \/ Doing = "write" /\ TheirTx = "none" /\ Adrift' = Adrift \cup {{Label("write", 1)}}
         /\ UNCHANGED committed
Settles(S) == /\ S \in Adrift
              /\ committed' \in {committed, committed \cup S} /\ Adrift' \in {Adrift, Adrift \ {S}}
              /\ UNCHANGED <<Doing, Link, TheirTx, TheirPending>>

\* The kinds of step there are of what a session promises.
LEMMA PromiseSteps ==
    ASSUME \/ Turns \/ Begins \/ FailsTheirs \/ EndsTheirs \/ Saves \/ Loses
           \/ (\E w : Writes(w)) \/ \E S : Settles(S)
    PROVE  Promise!Next
<1>1. Turns => Promise!Turn
  BY DEF Turns, Promise!Turn, Doing, Link, TheirTx, TheirPending, Adrift
<1>2. Begins => Promise!Begin
  BY DEF Begins, Promise!Begin, Doing, Link, TheirTx, TheirPending, Adrift
<1>3. FailsTheirs => Promise!Fail
  BY DEF FailsTheirs, Promise!Fail, Doing, Link, TheirTx, TheirPending, Adrift
<1>4. EndsTheirs => Promise!End
  BY DEF EndsTheirs, Promise!End, Doing, Link, TheirTx, TheirPending, Adrift
<1>5. Saves => Promise!Save
  BY DEF Saves, Promise!Save, Doing, Link, TheirTx, TheirPending, Adrift, Rows
<1>6. Loses => Promise!Lose
  BY DEF Loses, Promise!Lose, Doing, Link, TheirTx, TheirPending, Adrift
<1>7. ASSUME NEW w, Writes(w) PROVE Promise!Write
  BY <1>7 DEF Writes, Promise!Write, Doing, Link, TheirTx, TheirPending, Adrift
<1>8. ASSUME NEW S, Settles(S) PROVE Promise!Next
  BY <1>8 DEF Settles, Promise!Next, Promise!Settle, Doing, Link, TheirTx, TheirPending, Adrift
<1> QED
  BY <1>1, <1>2, <1>3, <1>4, <1>5, <1>6, <1>7, <1>8 DEF Promise!Next

\* What the reader's transaction is read off: the current connection.
LEMMA ViewKept ==
    ASSUME Current' = Current,
           Current # None => /\ tx'[Current] = tx[Current] /\ own'[Current] = own[Current]
                             /\ saved'[Current] = saved[Current] /\ pending'[Current] = pending[Current]
    PROVE  UNCHANGED <<TheirTx, TheirPending>>
<1>1. Readers' <=> Readers
  BY DEF Readers
<1>2. Readers => (Planned' <=> Planned)
  BY <1>1 DEF Planned, Readers
<1>3. Readers => /\ Current # None /\ tx'[Current] = tx[Current] /\ saved'[Current] = saved[Current]
                 /\ pending'[Current] = pending[Current]
  BY DEF Readers
<1> QED
  BY <1>1, <1>2, <1>3 DEF TheirTx, TheirPending

\* A reader without a transaction sees none.
LEMMA NoneTheirs == ~Readers => TheirTx = "none" /\ TheirPending = {}
BY DEF TheirTx, TheirPending

\* And after a step.
LEMMA NoneTheirsNext == ~Readers' => TheirTx' = "none" /\ TheirPending' = {}
BY DEF TheirTx, TheirPending

\* Where nothing changes of the connections that were dropped, the same is adrift.
LEMMA AdriftKept ==
    ASSUME Stranded' = Stranded, \A c \in Stranded : \A S : MayKeep(c, S)' <=> MayKeep(c, S)
    PROVE  Adrift' = Adrift
<1>1. \A S : S \in Adrift' <=> \E c \in Stranded' : MayKeep(c, S)'
  BY DEF Adrift, MayKeep
<1>2. \A S : S \in Adrift' <=> S \in Adrift
  BY <1>1, AdriftIs
<1> QED
  BY <1>2 DEF Adrift

\* The slot and the connection in use are never two.
LEMMA OneLink ==
    ASSUME IInv
    PROVE  /\ {held, conn} \subseteq {Current, None}
           /\ Current \in Conns \cup {None} /\ (Current # None => tx[Current] # None)
           /\ holder # None /\ pc[holder] \in WorkPcs \cup StatePcs => conn = Current /\ conn # None
           /\ holder = None => Current = held
<1>1. TypeOK /\ held \in Conns \cup {None} /\ conn \in Conns \cup {None}
  BY DEF IInv, TypeOK
<1>2. (held # None => tx[held] # None) /\ (conn # None => tx[conn] # None)
  BY DEF IInv, NoneKnown
<1>3. held # None /\ conn # None => held = conn
  BY <1>1 DEF IInv, OneHolder, TypeOK, Pcs, WorkPcs, StatePcs
<1>4. holder # None /\ pc[holder] \in WorkPcs \cup StatePcs => conn # None
  BY DEF IInv, OneHolder
<1> QED
  BY <1>1, <1>2, <1>3, <1>4 DEF Current, IInv, OneHolder

\* An agent's session never has a transaction of a reader's.
AgentsFree == whose = "Agent" => ~Readers /\ Adrift = {}

\* In an agent's session no reader has a transaction, and nothing is adrift.
LEMMA AgentsNone == IInv /\ Kept => AgentsFree
<1> SUFFICES ASSUME IInv, Kept, whose = "Agent" PROVE ~Readers /\ Adrift = {}
  BY DEF AgentsFree
<1>1. Stranded = {}
  BY DEF Stranded
<1>2. Adrift = {}
  BY <1>1 DEF Adrift
<1>3. SUFFICES ASSUME Current # None, own[Current] = "reader", tx[Current] # "idle" PROVE FALSE
  BY <1>2 DEF Readers
<1>4. Current \in Conns /\ Current \notin broken
  BY <1>3, OneLink DEF Kept, Emptied
<1>5. Whole(Current) /\ Current \in {held, conn}
  BY <1>3, <1>4 DEF Whole, Current
<1>6. ~(holder # None => pc[holder] \in {"drain", "ask", "state"})
  BY <1>3, <1>5 DEF IInv, AgentsIdle
<1>7. holder \in Tasks /\ pc[holder] \notin {"idle", "waiting", "connect"} /\ pc[holder] \in Pcs
  <2>1. holder \in Tasks /\ pc[holder] \in Pcs
    BY <1>6 DEF IInv, TypeOK
  <2>2. pc[holder] \notin {"idle", "waiting"}
    BY <1>6 DEF IInv, OneHolder
  <2>3. pc[holder] = "connect" => Current = None
    BY <1>6 DEF IInv, OneHolder, Current
  <2> QED
    BY <1>3, <2>1, <2>2, <2>3
<1>8. pc[holder] \in {"open", "main", "end", "put1", "put2", "keep", "undo"}
  BY <1>6, <1>7 DEF Pcs, WorkPcs, StatePcs
<1>9. conn = Current /\ job[holder] \in JobsOf["Agent"]
  BY <1>6, <1>7, <1>8, OneLink, PastWaiting DEF WorkPcs, StatePcs
<1>10. job[holder] \in Guarded /\ job[holder] # "save" /\ ~inside
  BY <1>9 DEF JobsOf, Guarded, IInv, AgentsIdle
<1>11. AtServer(pc[holder], job[holder], inside, wire[conn], reply[conn], tx[conn], own[conn],
                pending[conn], saved[conn])
  BY <1>3, <1>4, <1>6, <1>9 DEF IInv, InWork
<1>12. CASE pc[holder] \in {"main", "end", "put1", "put2", "keep", "undo"}
  BY <1>3, <1>4, <1>6, <1>9, <1>10, <1>12 DEF Kept, DriversOwn, Own
<1>13. CASE pc[holder] = "open"
  <2>1. reply[conn] # None
    BY <1>3, <1>5, <1>6, <1>9, <1>13 DEF IInv, AgentsIdle
  <2> QED
    BY <1>3, <1>9, <1>10, <1>11, <1>13, <2>1 DEF AtServer
<1> QED
  BY <1>8, <1>12, <1>13

\* A session stays whose it is.
LEMMA SessionKept ==
    ASSUME IInv, [Next]_vars
    PROVE  whose' = whose
<1>0. TypeOK
  BY DEF IInv
<1>1. ASSUME NEW t \in Tasks, (\E j \in Jobs : Ask(t, j)) \/ Cancel(t) \/ Run(t) \/ Abandon(t)
      PROVE whose' = whose
  BY <1>1, RunShape DEF Ask, Cancel
<1>2. ASSUME NEW c \in Conns, Serve(c) \/ Break(c) \/ Reap(c) PROVE whose' = whose
  <2>1. tx[c] # None
    BY <1>2, NoneAssumption DEF Serve, Break, Reap, Dropped, IInv, NoneKnown
  <2> QED
    BY <1>0, <1>2, <2>1, ServeFrame DEF Break, Reap, client
<1> QED
  BY <1>1, <1>2, StepIs

\* No step of a caller changes what is committed.
LEMMA ClientKeepsRows ==
    ASSUME IInv, NEW t \in Tasks, (\E j \in Jobs : Ask(t, j)) \/ Cancel(t) \/ Run(t) \/ Abandon(t)
    PROVE  committed' = committed
BY RunShape DEF Ask, Cancel, server

\* A step of an agent's session is a turn.
LEMMA AgentsStep ==
    ASSUME IInv, Kept, AgentsFree, AgentsFree', [Next]_vars, whose = "Agent"
    PROVE  Turns
<1>1. ~Readers' /\ Adrift' = {} /\ ~Readers /\ Adrift = {}
  BY SessionKept DEF AgentsFree
<1>2. UNCHANGED <<TheirTx, TheirPending, Adrift>> /\ TheirTx = "none"
  BY <1>1, NoneTheirs, NoneTheirsNext
<1>3. ASSUME NEW c \in Conns, Serve(c) PROVE committed' = committed
  <2>1. TypeOK /\ tx[c] # None /\ reply[c] = None /\ wire[c] # None /\ c \notin broken
    BY <1>3 DEF Serve, IInv, NoneKnown
  <2>2. /\ wire[c].command = "commit" => pending[c] = {}
        /\ wire[c].command = "write" => tx[c] # "idle"
    BY <2>1 DEF Kept, AgentsAdrift
  <2>3. committed \cup {} = committed
    OBVIOUS
  <2> QED
    BY <1>3, <2>1, <2>2, <2>3, ServeFrame
<1>4. committed' = committed
  BY <1>3, ClientKeepsRows, StepIs DEF Break, Reap
<1> QED
  BY <1>2, <1>4 DEF Turns

\* A dropped connection of which nothing is expected any more.
LEMMA Settling ==
    ASSUME IInv, NEW c \in Conns, c # Current, OthersKeep(c), UNCHANGED client,
           \A d \in Conns : d # c => wire'[d] = wire[d] /\ (d \in broken' <=> d \in broken),
           c \notin Stranded',
           \/ committed' = committed
           \/ c \in Stranded /\ \E S : MayKeep(c, S) /\ committed' = committed \cup S
    PROVE  Turns \/ \E S : Settles(S)
<1>1. Current' = Current /\ Doing' = Doing /\ UNCHANGED <<whose, held, conn>>
  BY DEF client, Current, Doing
<1>2. Current # None => /\ tx'[Current] = tx[Current] /\ own'[Current] = own[Current]
                        /\ saved'[Current] = saved[Current] /\ pending'[Current] = pending[Current]
                        /\ (Current \in broken' <=> Current \in broken)
  BY OneLink DEF OthersKeep
<1>3. UNCHANGED <<TheirTx, TheirPending, Link>>
  BY <1>1, <1>2, ViewKept DEF Link, Whole
<1>4. Stranded' = Stranded \ {c}
  <2>1. \A d \in Conns : d # c => (d \in Stranded' <=> d \in Stranded)
    BY <1>1 DEF Stranded, Dropped, OthersKeep
  <2> QED
    BY <2>1 DEF Stranded
<1>5. \A d \in Stranded \ {c} : \A S : MayKeep(d, S)' <=> MayKeep(d, S)
  BY DEF MayKeep, OthersKeep, Stranded
<1>6. \A S : S \in Adrift' <=> \E d \in Stranded \ {c} : MayKeep(d, S)
  <2>1. \A S : S \in Adrift' <=> \E d \in Stranded' : MayKeep(d, S)'
    BY DEF Adrift, MayKeep
  <2> QED
    BY <1>4, <1>5, <2>1
<1>7. CASE c \in Stranded /\ \E S : MayKeep(c, S)
  <2>1. PICK S : MayKeep(c, S)
    BY <1>7
  <2>2. \A T : MayKeep(c, T) => T = S
    BY <2>1 DEF MayKeep
  <2>3. S \in Adrift /\ \A T : T \in Adrift <=> T = S \/ T \in Adrift'
    BY <1>6, <1>7, <2>1, <2>2, AdriftIs
  <2>4. Adrift' \in {Adrift, Adrift \ {S}}
    <3>1. CASE S \in Adrift'
      <4>1. \A T : T \in Adrift <=> T \in Adrift'
        BY <2>3, <3>1
      <4> QED
        BY <4>1 DEF Adrift
    <3>2. CASE S \notin Adrift'
      <4>1. \A T : T \in Adrift' <=> T \in Adrift \ {S}
        BY <2>3, <3>2
      <4>2. Adrift' = Adrift \ {S}
        BY <4>1 DEF Adrift
      <4> QED
        BY <4>2
    <3> QED
      BY <3>1, <3>2
  <2>5. committed' \in {committed, committed \cup S}
    BY <2>2
  <2> QED
    BY <1>1, <1>3, <2>3, <2>4, <2>5 DEF Settles
<1>8. CASE ~(c \in Stranded /\ \E S : MayKeep(c, S))
  <2>1. \A S : S \in Adrift' <=> S \in Adrift
    BY <1>6, <1>8, AdriftIs
  <2>2. Adrift' = Adrift
    BY <2>1 DEF Adrift
  <2> QED
    BY <1>3, <1>8, <2>2 DEF Turns
<1> QED
  BY <1>7, <1>8

\* A step that leaves the current connection and the dropped ones as they are.
LEMMA Turning ==
    ASSUME Current' = Current, UNCHANGED <<whose, tx, own, pending, saved, broken, committed>>,
           \A c \in Conns : Dropped(c) \/ Dropped(c)' =>
               c \notin {held, conn, held', conn'} /\ wire'[c] = wire[c] /\ reply'[c] = reply[c]
    PROVE  Turns
<1>1. UNCHANGED <<TheirTx, TheirPending>>
  BY ViewKept
<1>2. Link' = Link
  BY DEF Link, Whole
<1>3. \A c \in Conns : Dropped(c)' <=> Dropped(c)
  BY DEF Dropped
<1>4. Stranded' = Stranded
  BY <1>3 DEF Stranded
<1>5. \A c \in Stranded : \A S : MayKeep(c, S)' <=> MayKeep(c, S)
  BY DEF MayKeep, Stranded
<1>6. Adrift' = Adrift
  BY <1>4, <1>5, AdriftKept
<1> QED
  BY <1>1, <1>2, <1>6 DEF Turns

\* With no connection, or a broken one, the reader has no transaction.
LEMMA BrokenIsEmpty ==
    ASSUME Kept, Current = None \/ Current \in broken
    PROVE  ~Readers
BY DEF Kept, Emptied, Readers

\* A connection the server has closed is let go.
LEMMA LettingBrokenGo ==
    ASSUME IInv, Kept, Current = None \/ Current \in broken, held' = None, conn' = None,
           UNCHANGED <<whose, tx, own, pending, saved, broken, committed>>,
           \A c \in Conns : c # Current => wire'[c] = wire[c] /\ reply'[c] = reply[c]
    PROVE  Turns
<1>1. Current' = None
  BY DEF Current
<1>2. ~Readers /\ ~Readers'
  BY <1>1, BrokenIsEmpty DEF Readers
<1>3. UNCHANGED <<TheirTx, TheirPending>> /\ TheirTx = "none"
  BY <1>2, NoneTheirs, NoneTheirsNext
<1>4. \A c \in Conns : c # Current => (Dropped(c)' <=> Dropped(c))
  BY OneLink, NoneAssumption DEF Dropped
<1>5. \A c \in Conns : c = Current => c \in broken
  BY NoneAssumption
<1>6. \A c \in Conns : c \in Stranded' <=> c \in Stranded
  BY <1>4, <1>5 DEF Stranded
<1>7. Stranded' = Stranded
  BY <1>6 DEF Stranded
<1>8. \A c \in Stranded : \A S : MayKeep(c, S)' <=> MayKeep(c, S)
  BY <1>5 DEF MayKeep, Stranded
<1>9. Adrift' = Adrift
  BY <1>7, <1>8, AdriftKept
<1> QED
  BY <1>3, <1>9 DEF Turns

\* A connection the server still serves is let go, with what it was sent.
LEMMA Losing ==
    ASSUME IInv, Current # None, Current \notin broken, held' = None, conn' = None,
           UNCHANGED <<whose, server>>,
           \/ \A S : Current \in Stranded' => ~MayKeep(Current, S)
           \/ MayKeep(Current, TheirPending) /\ Doing = "commit" /\ TheirTx = "open" /\ Current \in Stranded'
           \/ /\ MayKeep(Current, {Label("write", 1)}) /\ Doing = "write" /\ TheirTx = "none"
              /\ Current \in Stranded'
    PROVE  Loses
<1>1. Current' = None /\ Link # None /\ Link' = None
  BY NoneAssumption DEF Current, Link, Whole
<1>2. TheirTx' = "none" /\ TheirPending' = {}
  BY <1>1, NoneTheirsNext DEF Readers
<1>3. \A c \in Conns : c # Current => (c \in Stranded' <=> c \in Stranded)
  BY OneLink, NoneAssumption DEF Dropped, Stranded, server
<1>4. Current \in Conns /\ Current \notin Stranded
  <2>1. Current \in {held, conn}
    BY DEF Current
  <2> QED
    BY <2>1, OneLink DEF Stranded, Dropped
<1>5. \A c : \A S : MayKeep(c, S)' <=> MayKeep(c, S)
  BY DEF MayKeep, server
<1>6. \A S : S \in Adrift' <=> \E c \in Stranded' : MayKeep(c, S)
  <2>1. \A S : S \in Adrift' <=> \E c \in Stranded' : MayKeep(c, S)'
    BY DEF Adrift, MayKeep
  <2> QED
    BY <1>5, <2>1
<1>7. \A S : S \in Adrift' <=> S \in Adrift \/ (Current \in Stranded' /\ MayKeep(Current, S))
  <2>1. Stranded \subseteq Conns /\ Stranded' \subseteq Conns
    BY DEF Stranded
  <2> QED
    BY <1>3, <1>4, <1>6, <2>1, AdriftIs
<1>8. \A S, T : MayKeep(Current, S) /\ MayKeep(Current, T) => S = T
  BY DEF MayKeep
<1>9. ASSUME NEW T, MayKeep(Current, T), Current \in Stranded' PROVE Adrift' = Adrift \cup {T}
  <2>1. \A S : S \in Adrift' <=> S \in Adrift \cup {T}
    BY <1>7, <1>8, <1>9
  <2> QED
    BY <2>1 DEF Adrift
<1>10. ASSUME \A S : Current \in Stranded' => ~MayKeep(Current, S) PROVE Adrift' = Adrift
  <2>1. \A S : S \in Adrift' <=> S \in Adrift
    BY <1>7, <1>10
  <2> QED
    BY <2>1 DEF Adrift
<1>11. committed' = committed
  BY DEF server
<1>12. \/ UNCHANGED Adrift
       \/ Doing = "commit" /\ TheirTx = "open" /\ Adrift' = Adrift \cup {TheirPending}
       \/ Doing = "write" /\ TheirTx = "none" /\ Adrift' = Adrift \cup {{Label("write", 1)}}
  BY <1>9, <1>10
<1> QED
  BY <1>1, <1>2, <1>11, <1>12 DEF Loses

-----------------------------------------------------------------------------
(* What a caller's step is to the reader's transaction *)

\* A step that leaves the lock, the connection and the server alone is a turn.
LEMMA WaitersTurn ==
    ASSUME UNCHANGED <<whose, held, conn, server>>
    PROVE  Turns
<1>1. Current' = Current
  BY DEF Current
<1>2. \A c \in Conns : Dropped(c) \/ Dropped(c)' => c \notin {held, conn, held', conn'}
  BY DEF Dropped
<1> QED
  BY <1>1, <1>2, Turning DEF server

\* So is taking the lock.
LEMMA LockTurns ==
    ASSUME IInv, NEW t \in Tasks, Lock(t)
    PROVE  Turns
<1>1. holder = None /\ conn = None /\ conn' = held /\ held' = None
  BY DEF Lock, LeftIn, IInv, OneHolder
<1>2. Current = held /\ Current' = held
  BY <1>1, OneLink DEF Current
<1>3. \A c \in Conns : Dropped(c) \/ Dropped(c)' => c \notin {held, conn, held', conn'}
  BY <1>1, NoneAssumption DEF Dropped
<1>4. UNCHANGED <<whose, tx, own, pending, saved, broken, committed>>
  BY DEF Lock, Send, server
<1>5. \A c \in Conns : c # held => wire'[c] = wire[c] /\ reply'[c] = reply[c]
  BY DEF Lock, Send, server, IInv, TypeOK
<1> QED
  BY <1>2, <1>3, <1>4, <1>5, Turning

\* So is connecting.
LEMMA ConnectTurns ==
    ASSUME IInv, NEW t \in Tasks, Connect(t)
    PROVE  Turns
<1>1. conn = None /\ held = None
  BY PastWaiting DEF Connect, WorkPcs, StatePcs
<1>2. PICK c \in Conns : /\ tx[c] = None /\ conn' = c
                         /\ tx' = [tx EXCEPT ![c] = "idle"]
                         /\ \A d \in Conns : d # c => wire'[d] = wire[d]
  BY DEF Connect, IInv, TypeOK
<1>3. UNCHANGED <<whose, held, reply, own, pending, saved, broken, committed>>
  BY DEF Connect
<1>4. tx'[c] = "idle" /\ \A d \in Conns : d # c => tx'[d] = tx[d]
  BY <1>2 DEF IInv, TypeOK
<1>5. Current = None /\ Current' = c
  BY <1>1, <1>2, <1>3 DEF Current
<1>6. ~Readers /\ ~Readers'
  BY <1>4, <1>5 DEF Readers
<1>7. UNCHANGED <<TheirTx, TheirPending>> /\ TheirTx = "none"
  BY <1>6, NoneTheirs, NoneTheirsNext
<1>8. \A d \in Conns : d # c => (Dropped(d)' <=> Dropped(d))
  BY <1>1, <1>2, <1>3, <1>4, NoneAssumption DEF Dropped
<1>9. ~Dropped(c) /\ ~Dropped(c)'
  BY <1>2 DEF Dropped
<1>10. \A d \in Conns : d \in Stranded' <=> d \in Stranded
  BY <1>2, <1>3, <1>8, <1>9 DEF Stranded
<1>11. Stranded' = Stranded /\ c \notin Stranded
  BY <1>9, <1>10 DEF Stranded
<1>12. \A d \in Stranded : \A S : MayKeep(d, S)' <=> MayKeep(d, S)
  BY <1>2, <1>3, <1>4, <1>11 DEF MayKeep, Stranded
<1>13. Adrift' = Adrift
  BY <1>11, <1>12, AdriftKept
<1> QED
  BY <1>3, <1>7, <1>13 DEF Turns

\* So is sending a command.
LEMMA SendTurns ==
    ASSUME IInv, NEW t \in Tasks, pc[t] \in WorkPcs \cup StatePcs, NEW p, NEW in, Send(t, conn, p, in),
           conn' = conn, held' \in {held, conn}, whose' = whose
    PROVE  Turns
<1>1. conn \in Conns /\ held \in {None, conn} /\ conn # None
  BY PastWaiting, NoneAssumption DEF WorkPcs, StatePcs
<1>2. Current = conn /\ Current' = conn
  BY <1>1 DEF Current
<1>3. \A c \in Conns : c # conn => wire'[c] = wire[c] /\ reply'[c] = reply[c]
  BY DEF Send, IInv, TypeOK
<1>4. \A c \in Conns : Dropped(c) \/ Dropped(c)' => c \notin {held, conn, held', conn'}
  BY <1>1, NoneAssumption DEF Dropped
<1>5. UNCHANGED <<tx, own, pending, saved, broken, committed>>
  BY DEF Send
<1> QED
  BY <1>2, <1>3, <1>4, <1>5, Turning

\* So is reading an answer.
LEMMA ReadTurns ==
    ASSUME IInv, Kept, NEW t \in Tasks, Read(t)
    PROVE  Turns
<1>1. /\ holder = t /\ pc[t] \in WorkPcs /\ held = None /\ conn \in Conns
      /\ UNCHANGED <<whose, tx, own, pending, saved, broken, committed>>
  BY ReadShape
<1>2. CASE conn \in broken /\ Unlock(t, "error") /\ held' = None /\ UNCHANGED server
  <2>1. conn' = None /\ Current = conn /\ UNCHANGED <<wire, reply>>
    BY <1>1, <1>2 DEF Unlock, Current, server
  <2> QED
    BY <1>1, <1>2, <2>1, LettingBrokenGo
<1>3. CASE \E p, in : Send(t, conn, p, in) /\ conn' = conn /\ held' \in {None, conn}
  BY <1>1, <1>3, SendTurns
<1> QED
  BY <1>2, <1>3, ReadShape

\* So is reading where the transaction stands.
LEMMA ReadStateTurns ==
    ASSUME IInv, Kept, NEW t \in Tasks, ReadState(t)
    PROVE  Turns
<1>1. pc[t] \in StatePcs /\ reply[conn] # None /\ whose' = whose
  BY DEF ReadState
<1>2. /\ holder = t /\ t # None /\ held = conn /\ conn \in Conns /\ conn # None
      /\ Current = conn /\ wire[conn] # None
  BY <1>1, PastWaiting, NoneAssumption DEF StatePcs, Current
<1>3. CASE pc[t] = "undo" /\ reply[conn] # "lost"
  <2>1. GoOn(t, "state", FALSE, outcome)
    BY <1>3 DEF ReadState
  <2>2. Send(t, conn, "state", FALSE) /\ conn' = conn /\ held' = held
    BY <2>1 DEF GoOn
  <2> QED
    BY <1>1, <1>2, <2>2, SendTurns DEF StatePcs
<1>4. CASE ~(pc[t] = "undo" /\ reply[conn] # "lost")
  <2>1. /\ held' = IF reply[conn] \in States THEN held ELSE None
        /\ wire' = [wire EXCEPT ![conn] = None] /\ reply' = [reply EXCEPT ![conn] = None]
        /\ conn' = None
        /\ UNCHANGED <<whose, tx, own, pending, saved, broken, committed>>
    BY <1>4 DEF ReadState, Unlock
  <2>2. \A c \in Conns : c # conn => wire'[c] = wire[c] /\ reply'[c] = reply[c]
    BY <2>1 DEF IInv, TypeOK
  <2>3. CASE held' = held
    <3>1. Current' = conn
      BY <1>2, <2>3 DEF Current
    <3>2. \A c \in Conns : Dropped(c) \/ Dropped(c)' => c \notin {held, conn, held', conn'}
      BY <1>2, <2>1, <2>3, NoneAssumption DEF Dropped
    <3> QED
      BY <1>2, <2>1, <2>2, <3>1, <3>2, Turning
  <2>4. CASE held' = None /\ reply[conn] \notin States
    <3>1. conn \in broken
      <4> SUFFICES ASSUME conn \notin broken PROVE FALSE
        OBVIOUS
      <4>1. AtServer(pc[t], job[t], inside, wire[conn], reply[conn], tx[conn], own[conn],
                     pending[conn], saved[conn])
        BY <1>2 DEF IInv, InWork
      <4>2. pc[t] \in {"state", "undo"}
        BY <1>1 DEF StatePcs
      <4>3. CASE pc[t] = "state"
        BY <1>1, <2>4, <4>1, <4>3 DEF AtServer
      <4>4. CASE pc[t] = "undo"
        BY <1>1, <1>4, <4>1, <4>4 DEF AtServer
      <4> QED
        BY <4>2, <4>3, <4>4
    <3> QED
      BY <1>2, <2>1, <2>2, <2>4, <3>1, LettingBrokenGo
  <2> QED
    BY <1>2, <2>1, <2>3, <2>4
<1> QED
  BY <1>3, <1>4

\* A state that is not told in time loses the connection.
LEMMA TimeoutLoses ==
    ASSUME IInv, Kept, NEW t \in Tasks, StateTimesOut(t)
    PROVE  Loses
<1>1. pc[t] \in StatePcs /\ reply[conn] = None /\ held' = None /\ conn' = None /\ UNCHANGED <<whose, server>>
  BY DEF StateTimesOut, Unlock
<1>2. /\ holder = t /\ t # None /\ held = conn /\ conn \in Conns /\ conn # None
      /\ Current = conn /\ wire[conn] # None
  BY <1>1, PastWaiting, NoneAssumption DEF StatePcs, Current
<1>3. conn \notin broken
  <2>1. None # "lost"
    BY NoneAssumption DEF Replies
  <2> QED
    BY <1>1, <1>2, <2>1 DEF IInv, BrokenTell
<1>4. AtServer(pc[t], job[t], inside, wire[conn], reply[conn], tx[conn], own[conn],
               pending[conn], saved[conn])
  BY <1>2, <1>3 DEF IInv, InWork
<1>5. wire[conn].command \in {"ask", "rollback"}
  <2>1. wire[conn].command = Command(job[t], pc[t], inside)
    BY <1>1, <1>4 DEF AtServer, StatePcs
  <2>2. CASE pc[t] = "state"
    BY <2>1, <2>2 DEF Command
  <2>3. CASE pc[t] = "undo"
    BY <2>1, <2>3 DEF Command
  <2> QED
    BY <1>1, <2>2, <2>3 DEF StatePcs
<1>6. \A S : ~MayKeep(Current, S)
  BY <1>2, <1>5 DEF MayKeep
<1> QED
  BY <1>1, <1>2, <1>3, <1>6, Losing

\* A cancel loses the connection it is heard on, or is a turn.
LEMMA InterruptLoses ==
    ASSUME IInv, Kept, NEW t \in Tasks, Interrupt(t), whose = "Reader"
    PROVE  Turns \/ Loses
<1>1. pc[t] \in WorkPcs /\ t \in cancelled /\ held' = held /\ conn' = None /\ UNCHANGED <<whose, server>>
  BY DEF Interrupt, Heard, Unlock
<1>2. /\ holder = t /\ t # None /\ held = None /\ conn \in Conns /\ conn # None /\ Current = conn
      /\ job[t] \in JobsOf["Reader"]
  BY <1>1, PastWaiting, NoneAssumption DEF WorkPcs, Current
<1>3. job[t] # "save" /\ Doing = job[t]
  BY <1>1, <1>2 DEF Kept, Uncancelled, Doing
<1>4. CASE conn \in broken
  BY <1>1, <1>2, <1>4, LettingBrokenGo DEF server
<1>5. ASSUME conn \notin broken PROVE Loses
  <2>1. AtServer(pc[t], job[t], inside, wire[conn], reply[conn], tx[conn], own[conn],
                 pending[conn], saved[conn])
    BY <1>2, <1>5 DEF IInv, InWork
  <2>2. CASE \A S : Current \in Stranded' => ~MayKeep(Current, S)
    BY <1>1, <1>2, <1>5, <2>2, Losing
  <2>3. ASSUME NEW S, Current \in Stranded', MayKeep(Current, S) PROVE Loses
    <3>1. reply[conn] = None /\ wire[conn].command \in {"commit", "write"}
      BY <1>1, <1>2, <2>3 DEF Stranded, MayKeep, server
    <3>2. pc[t] \notin {"put1", "put2", "keep"}
      BY <1>3, <2>1 DEF AtServer
    <3>3. pc[t] \notin {"drain", "ask"}
      <4>1. pc[t] = "drain" => wire[conn].command = "ask"
        BY <2>1 DEF AtServer
      <4>2. pc[t] = "ask" => wire[conn].command = Command(job[t], "ask", inside)
        BY <2>1 DEF AtServer
      <4>3. Command(job[t], "ask", inside) = "ask"
        BY DEF Command
      <4> QED
        BY <3>1, <4>1, <4>2, <4>3
    <3>4. pc[t] \notin {"open", "end"}
      <4>1. pc[t] # "drain" => wire[conn].command = Command(job[t], pc[t], inside)
        BY <2>1 DEF AtServer
      <4>2. Command(job[t], "open", inside) \notin {"commit", "write"}
        BY DEF Command
      <4>3. Command(job[t], "end", inside) \notin {"commit", "write"}
        BY DEF Command, EndOf
      <4> QED
        BY <3>1, <4>1, <4>2, <4>3
    <3>5. pc[t] = "main"
      BY <1>1, <3>2, <3>3, <3>4 DEF WorkPcs
    <3>6. wire[conn].command = Command(job[t], "main", inside) /\ wire[conn].writes = WritesOf(job[t], "main")
      BY <2>1, <3>5 DEF AtServer
    <3>7. job[t] = "explain" => tx[conn] = "open"
      BY <2>1, <3>1, <3>5 DEF AtServer, Guarded
    <3>8. job[t] \in {"commit", "write"} /\ wire[conn].command = job[t]
      <4>1. job[t] \in {"begin", "commit", "rollback", "write", "preview", "explain"}
        BY <1>2, <1>3 DEF JobsOf
      <4>2. CASE job[t] = "explain"
        <5>1. wire[conn].command = "write"
          BY <3>6, <4>2 DEF Command
        <5> QED
          BY <1>2, <2>3, <3>7, <4>2, <5>1 DEF MayKeep
      <4> QED
        BY <3>1, <3>6, <4>1, <4>2 DEF Command
    <3>9. Clean(own[conn], pending[conn], saved[conn])
      BY <2>1, <3>5, <3>8 DEF AtServer, Guarded
    <3>10. CASE job[t] = "commit"
      <4>1. tx[conn] = "open" /\ S = pending[conn]
        BY <1>2, <2>3, <3>8, <3>10 DEF MayKeep
      <4>2. TheirTx = "open" /\ TheirPending = pending[conn]
        BY <1>2, <3>9, <4>1 DEF TheirTx, TheirPending, Readers, Planned, Clean
      <4> QED
        BY <1>1, <1>2, <1>3, <1>5, <2>3, <3>10, <4>1, <4>2, Losing
    <3>11. CASE job[t] = "write"
      <4>1. tx[conn] = "idle" /\ S = wire[conn].writes
        BY <1>2, <2>3, <3>8, <3>11 DEF MayKeep
      <4>2. S = {Label("write", 1)}
        BY <3>6, <3>11, <4>1 DEF WritesOf
      <4>3. TheirTx = "none"
        BY <1>2, <4>1, NoneTheirs DEF Readers
      <4> QED
        BY <1>1, <1>2, <1>3, <1>5, <2>3, <3>11, <4>2, <4>3, Losing
    <3> QED
      BY <3>8, <3>10, <3>11
  <2> QED
    BY <2>2, <2>3
<1> QED
  BY <1>4, <1>5

\* A step of a caller is a turn or loses the connection.
LEMMA CallersStep ==
    ASSUME IInv, Kept, whose = "Reader", NEW t \in Tasks,
           (\E j \in Jobs : Ask(t, j)) \/ Cancel(t) \/ Run(t) \/ Abandon(t)
    PROVE  Turns \/ Loses
<1>1. CASE (\E j \in Jobs : Ask(t, j)) \/ Cancel(t) \/ StopWaiting(t)
  <2>1. UNCHANGED <<whose, held, conn, server>>
    BY <1>1 DEF Ask, Cancel, StopWaiting
  <2> QED
    BY <2>1, WaitersTurn
<1>2. CASE ConnectCancelled(t) \/ ConnectFails(t)
  <2>1. conn = None /\ conn' = None /\ UNCHANGED <<whose, held, server>>
    BY <1>2, PastWaiting DEF ConnectCancelled, ConnectFails, Unlock
  <2> QED
    BY <2>1, WaitersTurn
<1>3. ~Abandon(t)
  BY DEF Abandon
<1> QED
  BY <1>1, <1>2, <1>3, LockTurns, ConnectTurns, ReadTurns, ReadStateTurns, TimeoutLoses,
     InterruptLoses DEF Run

-----------------------------------------------------------------------------
(* What a step of the server is to it *)

\* Unmoved, connection by connection.
LEMMA UnmovedIs ==
    ASSUME TypeOK, NEW c \in Conns, NEW r, Unmoved(c, r)
    PROVE  Stays(c, r) /\ committed' = committed
<1>1. committed \cup {} = committed
  OBVIOUS
<1> QED
  BY <1>1, AfterIs DEF Unmoved, Stays

\* Ended, connection by connection.
LEMMA EndedIs ==
    ASSUME TypeOK, NEW c \in Conns, NEW kept, NEW r, Ended(c, kept, r)
    PROVE  Ends(c, r) /\ committed' = committed \cup kept
BY AfterIs DEF Ended, Ends

\* A command that fails fails the transaction there is, and stores nothing.
LEMMA FailedIs ==
    ASSUME TypeOK, NEW c \in Conns, Failed(c)
    PROVE  /\ committed' = committed
           /\ \/ tx[c] = "idle" /\ Stays(c, "error")
              \/ tx[c] # "idle" /\ Fails(c)
<1>1. CASE tx[c] = "idle"
  BY <1>1, UnmovedIs DEF Failed
<1>2. CASE tx[c] # "idle"
  <2>1. After(c, "failed", own[c], pending[c], saved[c], {}, "error")
    BY <1>2 DEF Failed
  <2>2. committed \cup {} = committed
    OBVIOUS
  <2> QED
    BY <1>2, <2>1, <2>2, AfterIs DEF Fails
<1> QED
  BY <1>1, <1>2

\* A transaction left open stores nothing.
LEMMA LeavesOpen ==
    ASSUME TypeOK, NEW c \in Conns, NEW o, NEW pe, NEW sa, After(c, "open", o, pe, sa, {}, "ok")
    PROVE  Leaves(c, "open", o, pe, sa, "ok") /\ committed' = committed
<1>1. committed \cup {} = committed
  OBVIOUS
<1> QED
  BY <1>1, AfterIs

\* What comes of a write.
LEMMA ServeWrites ==
    ASSUME TypeOK, NEW c \in Conns, Serve(c), wire[c].command = "write", own[c] # "saving"
    PROVE  \/ (\E r : Stays(c, r)) /\ committed' = committed
           \/ tx[c] = "idle" /\ Ends(c, "ok") /\ committed' = committed \cup wire[c].writes
           \/ /\ tx[c] = "open" /\ committed' = committed
              /\ Leaves(c, "open", own[c], pending[c] \cup wire[c].writes, saved[c], "ok")
           \/ tx[c] \notin {"idle", "failed"} /\ Fails(c) /\ committed' = committed
<1>1. \/ Unmoved(c, "error")
      \/ tx[c] = "idle" /\ Ended(c, wire[c].writes, "ok")
      \/ tx[c] = "open" /\ After(c, "open", own[c], pending[c] \cup wire[c].writes, saved[c], {}, "ok")
      \/ tx[c] # "failed" /\ Failed(c)
  BY DEF Serve
<1> QED
  BY <1>1, UnmovedIs, EndedIs, FailedIs, LeavesOpen

\* What comes of a reading.
LEMMA ServeReads ==
    ASSUME TypeOK, NEW c \in Conns, Serve(c), wire[c].command = "read"
    PROVE  /\ committed' = committed
           /\ \/ \E r : Stays(c, r)
              \/ tx[c] \notin {"idle", "failed"} /\ Fails(c)
<1>1. Unmoved(c, "error") \/ Unmoved(c, "ok") \/ (tx[c] # "failed" /\ Failed(c))
  BY DEF Serve
<1> QED
  BY <1>1, UnmovedIs, FailedIs

\* What comes of a BEGIN.
LEMMA ServeBegins ==
    ASSUME TypeOK, NEW c \in Conns, tx[c] \in States, Serve(c), wire[c].command \in {"begin", "begin reading"}
    PROVE  /\ committed' = committed
           /\ \/ \E r : Stays(c, r)
              \/ /\ tx[c] = "idle"
                 /\ Leaves(c, "open", IF wire[c].command = "begin reading" THEN "reading"
                                      ELSE IF Label("save", 1) \in wire[c].writes THEN "saving" ELSE "reader",
                           {}, None, "ok")
<1> DEFINE o == IF wire[c].command = "begin reading" THEN "reading"
                ELSE IF Label("save", 1) \in wire[c].writes THEN "saving" ELSE "reader"
<1>1. Unmoved(c, "error") \/ (tx[c] # "failed" /\ Began(c, o))
  BY DEF Serve
<1>2. Began(c, o) => Unmoved(c, "ok") \/ (tx[c] # "open" /\ After(c, "open", o, {}, None, {}, "ok"))
  BY DEF Began
<1> HIDE DEF o
<1>3. \/ \E r : Unmoved(c, r)
      \/ tx[c] = "idle" /\ After(c, "open", o, {}, None, {}, "ok")
  BY <1>1, <1>2 DEF States
<1> QED
  BY <1>3, UnmovedIs, LeavesOpen DEF o

\* What comes of a COMMIT or ROLLBACK.
LEMMA ServeEnds ==
    ASSUME TypeOK, NEW c \in Conns, tx[c] \in States, Serve(c), wire[c].command \in {"commit", "rollback"}
    PROVE  /\ \E r : Ends(c, r)
           /\ \/ committed' = committed
              \/ wire[c].command = "commit" /\ tx[c] # "failed" /\ committed' = committed \cup pending[c]
<1>1. committed \cup {} = committed
  OBVIOUS
<1>2. \/ wire[c].command = "commit" /\ tx[c] # "failed" /\ Ended(c, pending[c], "ok")
      \/ \E r : Ended(c, {}, r)
  BY DEF Serve
<1> QED
  BY <1>1, <1>2, EndedIs

\* What comes of a SAVEPOINT.
LEMMA ServeSavepoint ==
    ASSUME TypeOK, NEW c \in Conns, tx[c] = "open", Serve(c), wire[c].command = "savepoint"
    PROVE  Leaves(c, "open", own[c], pending[c], pending[c], "ok") /\ committed' = committed
<1>1. After(c, "open", own[c], pending[c], pending[c], {}, "ok")
  BY DEF Serve
<1> QED
  BY <1>1, LeavesOpen

\* What comes of a ROLLBACK TO.
LEMMA ServeRollsBackTo ==
    ASSUME TypeOK, NEW c \in Conns, Serve(c), wire[c].command = "rollback to"
    PROVE  Leaves(c, "open", own[c], saved[c], None, "ok") /\ committed' = committed
<1>1. After(c, "open", own[c], saved[c], None, {}, "ok")
  BY DEF Serve
<1> QED
  BY <1>1, LeavesOpen

\* The current connection serves: only its own transaction may change.
ServesCurrent(c) ==
    /\ c \in Conns /\ c = Current /\ Serve(c) /\ TypeOK /\ tx[c] \in States /\ c \notin broken
    /\ c # None /\ wire[c] # None /\ reply[c] = None

\* A command executed on the current connection leaves what is adrift alone.
LEMMA CurrentServed ==
    ASSUME IInv, NEW c \in Conns, ServesCurrent(c)
    PROVE  Current' = c /\ UNCHANGED <<Doing, Link, Adrift>>
<1>1. OthersKeep(c) /\ UNCHANGED <<client, wire, broken>> /\ tx'[c] # None
  BY ServeFrame, NoneAssumption DEF ServesCurrent
<1>2. Current' = c /\ Doing' = Doing /\ Link' = Link /\ UNCHANGED <<whose, held, conn>>
  BY <1>1 DEF client, Current, Doing, Link, Whole, ServesCurrent
<1>3. c \in {held, conn}
  BY DEF ServesCurrent, Current
<1>4. \A d \in Conns : d \in Stranded' <=> d \in Stranded
  BY <1>1, <1>2, <1>3 DEF Stranded, Dropped, OthersKeep
<1>5. Stranded' = Stranded /\ c \notin Stranded
  BY <1>3, <1>4 DEF Stranded, Dropped
<1>6. \A d \in Stranded : \A S : MayKeep(d, S)' <=> MayKeep(d, S)
  BY <1>1, <1>5 DEF MayKeep, Stranded, OthersKeep
<1> QED
  BY <1>2, <1>5, <1>6, AdriftKept

\* What the reader sees of it, before and after.
LEMMA Seen ==
    ASSUME NEW c, c = Current, c # None
    PROVE  /\ own[c] # "reader" \/ tx[c] = "idle" => TheirTx = "none" /\ TheirPending = {}
           /\ own[c] = "reader" /\ tx[c] # "idle" /\ saved[c] = None =>
                  TheirTx = tx[c] /\ TheirPending = pending[c]
           /\ own[c] = "reader" /\ tx[c] # "idle" /\ saved[c] # None =>
                  TheirTx = "open" /\ TheirPending = saved[c]
BY DEF TheirTx, TheirPending, Readers, Planned

\* What the reader sees of the current connection after a step.
LEMMA SeenNext ==
    ASSUME NEW c, c = Current', c # None
    PROVE  /\ own'[c] # "reader" \/ tx'[c] = "idle" => TheirTx' = "none" /\ TheirPending' = {}
           /\ own'[c] = "reader" /\ tx'[c] # "idle" /\ saved'[c] = None =>
                  TheirTx' = tx'[c] /\ TheirPending' = pending'[c]
           /\ own'[c] = "reader" /\ tx'[c] # "idle" /\ saved'[c] # None =>
                  TheirTx' = "open" /\ TheirPending' = saved'[c]
BY DEF TheirTx, TheirPending, Readers, Planned

\* A command that leaves the transaction as it was is a turn.
LEMMA StayingTurns ==
    ASSUME IInv, NEW c \in Conns, ServesCurrent(c), NEW r, Stays(c, r), committed' = committed
    PROVE  Turns
<1>1. Current' = Current /\ c = Current /\ UNCHANGED <<Link, Adrift>>
  BY CurrentServed DEF ServesCurrent
<1>2. tx'[c] = tx[c] /\ own'[c] = own[c] /\ saved'[c] = saved[c] /\ pending'[c] = pending[c]
  BY DEF Stays, Leaves
<1>3. UNCHANGED <<TheirTx, TheirPending>>
  BY <1>1, <1>2, ViewKept
<1> QED
  BY <1>1, <1>3 DEF Turns

\* One of the reader's statements, or a preview.
LEMMA StatementServed ==
    ASSUME IInv, Kept, NEW c \in Conns, ServesCurrent(c),
           NEW j \in {"begin", "commit", "rollback", "write", "preview"},
           Doing = j, wire[c].command = Command(j, "main", inside), wire[c].writes = WritesOf(j, "main"),
           Clean(own[c], pending[c], saved[c])
    PROVE  Turns \/ Begins \/ (\E w : Writes(w)) \/ FailsTheirs \/ EndsTheirs
<1>1. /\ c = Current /\ c # None /\ c = Current' /\ TypeOK /\ tx[c] \in States /\ Serve(c)
      /\ UNCHANGED <<Doing, Link, Adrift>>
  BY CurrentServed DEF ServesCurrent
<1>2. own[c] = "reader" /\ saved[c] = None
  BY DEF Clean
<1>3. tx[c] = "idle" => TheirTx = "none" /\ TheirPending = {} /\ pending[c] = {}
  BY <1>1, Seen DEF Kept, Emptied
<1>4. tx[c] # "idle" => TheirTx = tx[c] /\ TheirPending = pending[c]
  BY <1>1, <1>2, Seen
<1>5. ASSUME NEW r, Stays(c, r), committed' = committed PROVE Turns
  BY <1>5, StayingTurns
<1>6. CASE j = "begin"
  <2>1. wire[c].command = "begin" /\ wire[c].writes = {}
    BY <1>6 DEF Command, WritesOf
  <2>2. ASSUME tx[c] = "idle", Leaves(c, "open", "reader", {}, None, "ok"), committed' = committed
        PROVE  Begins
    <3>1. TheirTx' = "open" /\ TheirPending' = {}
      BY <1>1, <2>2, SeenNext DEF Leaves
    <3> QED
      BY <1>1, <1>3, <1>6, <2>2, <3>1 DEF Begins
  <2> QED
    BY <1>1, <1>5, <2>1, <2>2, ServeBegins
<1>7. ASSUME Fails(c), tx[c] = "open", committed' = committed, j \in {"write", "preview"} PROVE FailsTheirs
  <2>1. TheirTx' = "failed" /\ TheirPending' = pending[c]
    BY <1>1, <1>2, <1>7, SeenNext DEF Fails, Leaves
  <2> QED
    BY <1>1, <1>4, <1>7, <2>1 DEF FailsTheirs
<1>8. tx[c] \notin {"idle", "failed"} => tx[c] = "open"
  BY <1>1 DEF States
<1>9. CASE j = "write"
  <2> DEFINE w == Label("write", 1)
  <2>1. wire[c].command = "write" /\ wire[c].writes = {w}
    BY <1>9 DEF Command, WritesOf
  <2>2. ASSUME tx[c] = "idle", Ends(c, "ok"), committed' = committed \cup {w} PROVE Writes(w)
    <3>1. TheirTx' = "none" /\ TheirPending' = {}
      BY <1>1, <2>2, SeenNext DEF Ends, Leaves
    <3> QED
      BY <1>1, <1>3, <1>9, <2>2, <3>1 DEF Writes
  <2>3. ASSUME tx[c] = "open", committed' = committed,
               Leaves(c, "open", own[c], pending[c] \cup {w}, saved[c], "ok")
        PROVE  Writes(w)
    <3>1. TheirTx' = "open" /\ TheirPending' = pending[c] \cup {w}
      BY <1>1, <1>2, <2>3, SeenNext DEF Leaves
    <3> QED
      BY <1>1, <1>4, <1>9, <2>3, <3>1 DEF Writes
  <2> HIDE DEF w
  <2>4. own[c] # "saving"
    BY <1>2
  <2> QED
    BY <1>1, <1>5, <1>7, <1>8, <1>9, <2>1, <2>2, <2>3, <2>4, ServeWrites
<1>10. CASE j = "preview"
  <2>1. wire[c].command = "read"
    BY <1>10 DEF Command
  <2> QED
    BY <1>1, <1>5, <1>7, <1>8, <1>10, <2>1, ServeReads
<1>11. CASE j \in {"commit", "rollback"}
  <2>1. wire[c].command = j
    BY <1>11 DEF Command
  <2>2. /\ \E r : Ends(c, r)
        /\ \/ committed' = committed
           \/ j = "commit" /\ tx[c] # "failed" /\ committed' = committed \cup pending[c]
    BY <1>1, <1>11, <2>1, ServeEnds
  <2>3. TheirTx' = "none" /\ TheirPending' = {}
    BY <1>1, <2>2, SeenNext DEF Ends, Leaves
  <2>4. CASE tx[c] = "idle"
    <3>1. committed' = committed
      BY <1>3, <2>2, <2>4
    <3> QED
      BY <1>1, <1>3, <2>3, <2>4, <3>1 DEF Turns
  <2>5. CASE tx[c] # "idle"
    <3>1. tx[c] # "failed" => TheirTx = "open"
      BY <1>4, <1>8, <2>5
    <3> QED
      BY <1>1, <1>4, <1>11, <2>2, <2>3, <2>5, <3>1 DEF EndsTheirs
  <2> QED
    BY <2>4, <2>5
<1> QED
  BY <1>6, <1>9, <1>10, <1>11

\* A step of a job in a transaction the driver began is none of the reader's.
LEMMA DriversServed ==
    ASSUME IInv, ServesCurrent(Current), ~Readers, ~Readers', committed' = committed
    PROVE  Turns
<1>1. Link' = Link /\ Adrift' = Adrift
  BY CurrentServed DEF ServesCurrent
<1> QED
  BY <1>1, NoneTheirs, NoneTheirsNext DEF Turns

\* A command executed on the current connection is a step of the promise.
LEMMA CurrentStep ==
    ASSUME IInv, Kept, IInv', Kept', NEW c \in Conns, c = Current, Serve(c), whose = "Reader"
    PROVE  Turns \/ Begins \/ (\E w : Writes(w)) \/ FailsTheirs \/ EndsTheirs \/ Saves
<1>1. ServesCurrent(c)
  <2>1. TypeOK /\ c # None /\ tx[c] # None
    BY OneLink, NoneAssumption DEF IInv
  <2> QED
    BY <2>1 DEF ServesCurrent, Serve, TypeOK
<1>2. /\ c # None /\ c = Current' /\ TypeOK /\ tx[c] \in States /\ c \notin broken /\ reply[c] = None
      /\ wire[c] # None /\ tx[c] # None /\ UNCHANGED <<Doing, Link, Adrift>>
  BY <1>1, CurrentServed, NoneAssumption DEF ServesCurrent
<1>3. ASSUME wire[c].command = "ask" PROVE Turns
  <2>1. Unmoved(c, "failed") \/ Unmoved(c, tx[c])
    BY <1>3 DEF Serve
  <2> QED
    BY <1>1, <1>2, <2>1, UnmovedIs, StayingTurns
<1>4. CASE holder = None
  <2>1. Whole(held) /\ held = c
    BY <1>2, <1>4, OneLink DEF Whole
  <2> QED
    BY <1>2, <1>3, <1>4, <2>1 DEF IInv, AtRest
<1>5. CASE holder # None
  <2> DEFINE t == holder
             j == job[holder]
             p == pc[holder]
  <2>1. /\ t \in Tasks /\ p \in WorkPcs \cup StatePcs /\ conn = c /\ j \in JobsOf["Reader"] /\ Doing = j
    <3>1. t \in Tasks /\ p \in Pcs /\ p \notin {"idle", "waiting"}
      BY <1>5 DEF IInv, TypeOK, OneHolder
    <3>2. p # "connect"
      BY <1>2, <1>5 DEF IInv, OneHolder, Current
    <3> QED
      BY <1>5, <3>1, <3>2, OneLink, PastWaiting DEF Pcs, WorkPcs, StatePcs, Doing
  <2>2. AtServer(p, j, inside, wire[c], None, tx[c], own[c], pending[c], saved[c])
    BY <1>2, <1>5, <2>1 DEF IInv, InWork
  <2>3. /\ OthersKeep(c) /\ UNCHANGED <<client, wire, broken>>
    BY <1>2, ServeFrame
  <2>4. Own(p, j, inside) => ~Readers /\ ~Readers'
    <3>1. Own(p, j, inside) => own[c] # "reader" \/ tx[c] = "idle"
      BY <1>2, <1>5, <2>1 DEF Kept, DriversOwn
    <3>2. Own(p, j, inside) => own'[c] # "reader" \/ tx'[c] = "idle"
      <4>1. UNCHANGED <<holder, conn, pc, job, inside, broken>>
        BY <2>3 DEF client
      <4> QED
        BY <1>2, <1>5, <2>1, <4>1 DEF Kept, DriversOwn
    <3> QED
      BY <1>2, <3>1, <3>2 DEF Readers
  <2>5. AtServer(p, j, inside, wire[c], reply'[c], tx'[c], own'[c], pending'[c], saved'[c])
    BY <1>2, <2>1, <2>2, ServedWork DEF IInv, TypeOK
  <2>6. reply'[c] # None
    BY <1>2, ServeFrame
  <2>7. p # "drain" => wire[c].command = Command(j, p, inside) /\ wire[c].writes = WritesOf(j, p)
    BY <2>2 DEF AtServer
  <2>8. CASE p \in {"drain", "ask", "state"}
    <3>1. wire[c].command = "ask"
      BY <2>2, <2>7, <2>8 DEF AtServer, Command
    <3> QED
      BY <1>3, <3>1
  <2>9. CASE p = "open" /\ inside
    <3>1. j = "explain" /\ tx[c] = "open" /\ Clean(own[c], pending[c], saved[c])
      BY <2>2, <2>9 DEF AtServer
    <3>2. wire[c].command = "savepoint"
      BY <2>7, <2>9, <3>1 DEF Command
    <3>3. Leaves(c, "open", own[c], pending[c], pending[c], "ok") /\ committed' = committed
      BY <1>2, <3>1, <3>2, ServeSavepoint
    <3>4. TheirTx = "open" /\ TheirPending = pending[c]
      BY <1>2, <3>1, Seen DEF Clean
    <3>5. pending[c] # None
      BY <1>2, NoneAssumption DEF TypeOK
    <3>6. TheirTx' = "open" /\ TheirPending' = pending[c]
      BY <1>2, <3>1, <3>3, <3>5, SeenNext DEF Clean, Leaves
    <3> QED
      BY <1>2, <3>3, <3>4, <3>6 DEF Turns
  <2>10. CASE p = "open" /\ ~inside
    <3>1. tx[c] = "idle" /\ j \in Guarded \cup {"save"}
      BY <2>2, <2>10 DEF AtServer
    <3>2. wire[c].command \in {"begin", "begin reading"}
      BY <2>7, <2>10, <3>1 DEF Command
    <3>3. committed' = committed
      BY <1>2, <3>2, ServeBegins
    <3>4. own'[c] # "reader"
      BY <2>5, <2>6, <2>10 DEF AtServer
    <3> QED
      BY <1>1, <1>2, <3>1, <3>3, <3>4, DriversServed DEF Readers
  <2>11. CASE p = "main" /\ j \notin Guarded
    <3>1. j \in {"begin", "commit", "rollback", "write", "preview"}
      BY <2>1, <2>2, <2>11 DEF AtServer, JobsOf, Guarded
    <3>2. Clean(own[c], pending[c], saved[c])
      BY <2>2, <2>11 DEF AtServer
    <3> QED
      BY <1>1, <2>1, <2>7, <2>11, <3>1, <3>2, StatementServed
  <2>12. CASE p = "main" /\ j \in Guarded
    <3>1. tx[c] = "open" /\ j = "explain"
      BY <2>1, <2>2, <2>12 DEF AtServer, JobsOf, Guarded
    <3>2. wire[c].command = "write" /\ wire[c].writes = {Label("explain", 1)}
      BY <2>7, <2>12, <3>1 DEF Command, WritesOf
    <3>3. own[c] # "saving"
      BY <2>2, <2>12, <3>1 DEF AtServer
    <3>4. committed' = committed
      BY <1>2, <3>1, <3>2, <3>3, ServeWrites
    <3>5. CASE ~inside
      BY <1>1, <1>2, <2>4, <2>12, <3>4, <3>5, DriversServed DEF Own
    <3>6. CASE inside
      <4>1. own[c] = "reader" /\ saved[c] # None
        BY <2>2, <2>12, <3>6 DEF AtServer
      <4>2. own'[c] = own[c] /\ tx'[c] # "idle" /\ saved'[c] = saved[c]
        BY <1>2, <3>1, <3>2, <3>3, ServeWrites DEF Stays, Fails, Leaves
      <4>3. TheirTx = "open" /\ TheirPending = saved[c]
        BY <1>2, <3>1, <4>1, Seen
      <4>4. TheirTx' = "open" /\ TheirPending' = saved[c]
        BY <1>2, <4>1, <4>2, SeenNext
      <4> QED
        BY <1>2, <3>4, <4>3, <4>4 DEF Turns
    <3> QED
      BY <3>5, <3>6
  <2>13. CASE p = "end" /\ inside
    <3>1. wire[c].command = "rollback to"
      BY <2>7, <2>13 DEF Command, EndOf
    <3>2. tx[c] # "idle" /\ own[c] = "reader" /\ saved[c] # None
      BY <2>2, <2>13 DEF AtServer
    <3>3. Leaves(c, "open", own[c], saved[c], None, "ok") /\ committed' = committed
      BY <1>2, <3>1, ServeRollsBackTo
    <3>4. TheirTx = "open" /\ TheirPending = saved[c]
      BY <1>2, <3>2, Seen
    <3>5. TheirTx' = "open" /\ TheirPending' = saved[c]
      BY <1>2, <3>2, <3>3, SeenNext DEF Leaves
    <3> QED
      BY <1>2, <3>3, <3>4, <3>5 DEF Turns
  <2>14. CASE (p = "end" /\ ~inside) \/ p = "undo"
    <3>1. wire[c].command = "rollback" /\ (p = "end" => j \in Guarded)
      BY <2>2, <2>7, <2>14 DEF Command, EndOf, AtServer
    <3>2. committed' = committed
      BY <1>2, <3>1, ServeEnds
    <3> QED
      BY <1>1, <1>2, <2>4, <2>14, <3>1, <3>2, DriversServed DEF Own
  <2>15. CASE p \in {"put1", "put2"}
    <3>1. tx[c] = "open" /\ j = "save"
      BY <2>2, <2>15 DEF AtServer
    <3>2. wire[c].command = "write"
      BY <2>7, <2>15 DEF Command
    <3>3. committed' = committed
      BY <1>2, <3>1, <3>2, ServeFrame
    <3> QED
      BY <1>1, <1>2, <2>4, <2>15, <3>3, DriversServed DEF Own
  <2>16. CASE p = "keep"
    <3>1. tx[c] = "open" /\ j = "save" /\ pending[c] = Rows
      BY <2>2, <2>16 DEF AtServer, Rows
    <3>2. wire[c].command = "commit"
      BY <2>7, <2>16 DEF Command
    <3>3. ~Readers /\ ~Readers'
      BY <2>4, <2>16 DEF Own
    <3>4. committed' \in {committed, committed \cup Rows}
      BY <1>2, <3>1, <3>2, ServeFrame
    <3>5. CASE committed' = committed
      BY <1>1, <1>2, <3>3, <3>5, DriversServed
    <3>6. CASE committed' = committed \cup Rows
      BY <1>2, <2>1, <3>1, <3>3, <3>6, NoneTheirs, NoneTheirsNext DEF Saves
    <3> QED
      BY <3>4, <3>5, <3>6
  <2> QED
    BY <2>1, <2>8, <2>9, <2>10, <2>11, <2>12, <2>13, <2>14, <2>15, <2>16 DEF WorkPcs, StatePcs
<1> QED
  BY <1>4, <1>5

\* A command executed on a dropped one settles what was adrift, or is a turn.
LEMMA DroppedServes ==
    ASSUME IInv, Kept, NEW c \in Conns, c # Current, Serve(c), whose = "Reader"
    PROVE  Turns \/ \E S : Settles(S)
<1>1. TypeOK /\ tx[c] # None /\ tx[c] \in States /\ wire[c] # None /\ reply[c] = None /\ c \notin broken
  BY DEF Serve, IInv, NoneKnown, TypeOK
<1>2. OthersKeep(c) /\ UNCHANGED <<client, wire, broken>> /\ reply'[c] # None
  BY <1>1, ServeFrame
<1>3. c \in Stranded /\ c \notin Stranded'
  BY <1>1, <1>2, OneLink, NoneAssumption DEF Stranded, Dropped
<1>4. \/ committed' = committed
      \/ \E S : MayKeep(c, S) /\ committed' = committed \cup S
  <2>1. CASE wire[c].command = "commit"
    <3>1. committed' = committed \/ (tx[c] # "failed" /\ committed' = committed \cup pending[c])
      BY <1>1, <2>1, ServeEnds
    <3>2. tx[c] = "idle" => pending[c] = {}
      BY DEF Kept, Emptied
    <3>3. tx[c] = "open" => MayKeep(c, pending[c])
      BY <2>1 DEF MayKeep
    <3> QED
      BY <1>1, <3>1, <3>2, <3>3 DEF States
  <2>2. CASE wire[c].command # "commit"
    <3>1. \/ committed' = committed
          \/ /\ wire[c].command = "write" /\ tx[c] = "idle" /\ committed' = committed \cup wire[c].writes
      BY <1>1, <2>2, ServeFrame
    <3>2. wire[c].command = "write" /\ tx[c] = "idle" => MayKeep(c, wire[c].writes)
      BY DEF MayKeep
    <3> QED
      BY <3>1, <3>2
  <2> QED
    BY <2>1, <2>2
<1> QED
  BY <1>2, <1>3, <1>4, Settling

\* The server closing a connection loses it, settles what was adrift, or is a turn.
LEMMA BreakStep ==
    ASSUME IInv, NEW c \in Conns, Break(c)
    PROVE  Turns \/ Loses \/ \E S : Settles(S)
<1>1. /\ c \notin broken /\ broken' = broken \cup {c} /\ tx'[c] = "idle"
      /\ OthersKeep(c) /\ UNCHANGED <<client, wire, committed>>
  BY DEF Break, OthersKeep, IInv, TypeOK
<1>2. CASE c # Current
  <2>1. c \notin Stranded'
    BY <1>1 DEF Stranded
  <2> QED
    BY <1>1, <1>2, <2>1, Settling
<1>3. CASE c = Current
  <2>1. Current' = c /\ Doing' = Doing /\ UNCHANGED <<whose, held, conn>> /\ c # None /\ c \in {held, conn}
    BY <1>1, <1>3, NoneAssumption DEF client, Current, Doing
  <2>2. Link # None /\ Link' = None
    BY <1>1, <1>3, <2>1 DEF Link, Whole
  <2>3. TheirTx' = "none" /\ TheirPending' = {}
    BY <1>1, <2>1, SeenNext
  <2>4. \A d \in Conns : d \in Stranded' <=> d \in Stranded
    BY <1>1, <2>1 DEF Stranded, Dropped, OthersKeep
  <2>5. Stranded' = Stranded /\ c \notin Stranded
    BY <2>1, <2>4 DEF Stranded, Dropped
  <2>6. \A d \in Stranded : \A S : MayKeep(d, S)' <=> MayKeep(d, S)
    BY <1>1, <2>5 DEF MayKeep, Stranded, OthersKeep
  <2>7. Adrift' = Adrift
    BY <2>5, <2>6, AdriftKept
  <2> QED
    BY <1>1, <2>2, <2>3, <2>7 DEF Loses
<1> QED
  BY <1>2, <1>3

\* The server hearing of a drop settles what was adrift, or is a turn.
LEMMA ReapStep ==
    ASSUME IInv, NEW c \in Conns, Reap(c)
    PROVE  Turns \/ \E S : Settles(S)
<1>1. /\ c \notin {held, conn} /\ wire'[c] = None /\ broken' = broken \ {c}
      /\ \A d \in Conns : d # c => wire'[d] = wire[d]
      /\ OthersKeep(c) /\ UNCHANGED <<client, committed>>
  BY DEF Reap, Dropped, OthersKeep, IInv, TypeOK
<1>2. c # Current /\ c \notin Stranded'
  BY <1>1 DEF Current, Stranded
<1> QED
  BY <1>1, <1>2, Settling

-----------------------------------------------------------------------------

\* A new session promises what a new promise does.
LEMMA PromiseBegins == Init => Promise!Init
<1> SUFFICES ASSUME Init PROVE Promise!Init
  OBVIOUS
<1>1. Current = None
  BY DEF Init, Current
<1>2. Doing = None /\ Link = None /\ committed = {}
  BY <1>1 DEF Init, Doing, Link, Whole
<1>3. ~Readers
  BY <1>1 DEF Readers
<1>4. Adrift = {}
  <2>1. Stranded = {}
    BY NoneAssumption DEF Init, Stranded
  <2> QED
    BY <2>1 DEF Adrift
<1> QED
  BY <1>2, <1>3, <1>4, NoneTheirs DEF Promise!Init, Doing, Link, TheirTx, TheirPending, Adrift

\* And every step of it keeps the promise.
LEMMA PromiseStep ==
    ASSUME IInv, Kept, AgentsFree, IInv', Kept', AgentsFree', [Next]_vars
    PROVE  Promise!Next
<1>1. CASE whose = "Agent"
  BY <1>1, AgentsStep, PromiseSteps
<1>2. CASE whose = "Reader"
  <2>1. ASSUME NEW t \in Tasks, (\E j \in Jobs : Ask(t, j)) \/ Cancel(t) \/ Run(t) \/ Abandon(t)
        PROVE Promise!Next
    BY <1>2, <2>1, CallersStep, PromiseSteps
  <2>2. ASSUME NEW c \in Conns, Serve(c) PROVE Promise!Next
    <3>1. CASE c = Current
      BY <1>2, <2>2, <3>1, CurrentStep, PromiseSteps
    <3>2. CASE c # Current
      BY <1>2, <2>2, <3>2, DroppedServes, PromiseSteps
    <3> QED
      BY <3>1, <3>2
  <2>3. ASSUME NEW c \in Conns, Break(c) \/ Reap(c) PROVE Promise!Next
    BY <2>3, BreakStep, ReapStep, PromiseSteps
  <2>4. ASSUME UNCHANGED <<whose, held, conn, server>> PROVE Promise!Next
    BY <2>4, WaitersTurn, PromiseSteps
  <2>5. UNCHANGED <<whose, queue, holder, held, reported, pc, job, cancelled, conn, inside, outcome,
                    answer, wire, reply, tx, own, pending, saved, broken, committed>> => Promise!Next
    BY <2>4 DEF server
  <2> QED
    BY <2>1, <2>2, <2>3, <2>5, StepIs
<1>3. whose \in {"Reader", "Agent"}
  BY JobsAssumption DEF IInv, TypeOK
<1> QED
  BY <1>1, <1>2, <1>3

\* The session keeps its reader's promise: it implements ReaderTransaction (run_on and
\* everything asked of it).
THEOREM PromiseImplemented == Spec => PromiseKept
<1>1. Init => Promise!Init
  BY PromiseBegins
<1>2. IInv /\ Kept => AgentsFree
  BY AgentsNone
<1>3. IInv /\ Kept /\ AgentsFree /\ (IInv /\ Kept /\ AgentsFree)' /\ [Next]_vars =>
          [Promise!Next]_(Promise!vars)
  BY PromiseStep
<1>4. Spec => [](IInv /\ Kept)
  BY KeptInvariant
<1> QED
  BY <1>1, <1>2, <1>3, <1>4, PTL DEF Spec, PromiseKept, Promise!Spec

-----------------------------------------------------------------------------
(* The header over a reader's session *)

\* A call that asks where its connection stands, or is about to, would hear what the header
\* was told.
SaidBefore ==
    holder # None /\ pc[holder] \in {"drain", "ask"} /\ conn \notin broken => reported = tx[conn]

\* A save that is under way found no transaction, and leaves none.
SaidAfter ==
    holder # None /\ job[holder] = "save" =>
        /\ pc[holder] \in {"open", "put1", "put2", "keep"} => reported = "idle"
        /\ pc[holder] \in StatePcs /\ outcome = "ok" =>
             reported = "idle" /\ (conn \notin broken => tx[conn] = "idle")

\* What is shown, or on its way to be, is what the header should show, unless it is asked
\* again or a preview moved it since.
HeaderSays == ~stale /\ ~missed => reported = IF fetching # None THEN fetching ELSE shown

HdInv ==
    /\ IInv /\ HeaderTypeOK /\ whose = "Reader"
    /\ SaidBefore /\ SaidAfter /\ HeaderSays

\* A call moves what the header is told only as it settles, and then, unless it is a preview,
\* has it asked again.
LEMMA MovesAsk ==
    ASSUME IInv, SaidAfter, Next, whose = "Reader"
    PROVE  \/ reported' = reported
           \/ \E t \in Tasks : Answered(t) /\ (AsksAgain(job[t], answer'[t]) \/ job[t] = "preview")
<1> DEFINE Moves ==
        \/ reported' = reported
        \/ \E t \in Tasks : Answered(t) /\ (AsksAgain(job[t], answer'[t]) \/ job[t] = "preview")
<1>1. ASSUME NEW t \in Tasks, pc[t] \notin {"idle", "waiting"}
      PROVE  /\ holder = t /\ t # None /\ job[t] # None
             /\ job[t] \in {"begin", "commit", "rollback", "write", "preview", "explain", "save"}
  <2>1. holder = t /\ t # None /\ job[t] \in JobsOf.Reader
    BY <1>1, PastWaiting
  <2>2. None \notin JobsOf.Reader
    BY NoneAssumption
  <2> QED
    BY <2>1, <2>2 DEF JobsOf
<1>2. ASSUME NEW t \in Tasks, pc[t] \notin {"idle", "waiting"}, NEW a, Unlock(t, a),
             a # "ok" \/ job[t] # "save"
      PROVE  Moves
  <2>1. job'[t] = None /\ answer'[t] = a
    BY <1>2 DEF Unlock, IInv, TypeOK
  <2>2. job[t] # None
    BY <1>1, <1>2
  <2>3. AsksAgain(job[t], answer'[t]) \/ job[t] = "preview"
    BY <1>1, <1>2, <2>1 DEF AsksAgain
  <2> QED
    BY <2>1, <2>2, <2>3 DEF Answered
<1>3. ASSUME NEW t \in Tasks, NEW j \in Jobs, Ask(t, j) PROVE Moves
  BY <1>3 DEF Ask
<1>4. ASSUME NEW t \in Tasks, Cancel(t) \/ StopWaiting(t) \/ Lock(t) \/ Connect(t) \/ ConnectFails(t)
      PROVE  Moves
  BY <1>4 DEF Cancel, StopWaiting, Lock, Connect, ConnectFails
<1>5. ASSUME NEW t \in Tasks, ConnectCancelled(t) \/ Interrupt(t) PROVE Moves
  <2>1. Unlock(t, "cancelled") /\ pc[t] \notin {"idle", "waiting"}
    BY <1>5 DEF ConnectCancelled, Interrupt, Heard, WorkPcs
  <2> QED
    BY <1>2, <2>1
<1>6. ASSUME NEW t \in Tasks, Read(t) PROVE Moves
  <2>1. pc[t] \notin {"idle", "waiting"}
    BY <1>6 DEF Read, WorkPcs
  <2>2. ASSUME NEW p, NEW in, NEW went, GoOn(t, p, in, went) PROVE Moves
    BY <2>2 DEF GoOn
  <2>3. ASSUME NEW a, Finish(t, a) PROVE Moves
    <3>1. CASE Trusted(a)
      BY <2>3, <3>1 DEF Finish
    <3>2. CASE ~Trusted(a)
      <4>1. Unlock(t, "error")
        BY <2>3, <3>2 DEF Finish
      <4> QED
        BY <1>2, <2>1, <4>1
    <3> QED
      BY <3>1, <3>2
  <2> HIDE DEF Moves
  <2> QED
    BY <1>6, <2>2, <2>3 DEF Read
<1>7. ASSUME NEW t \in Tasks, ReadState(t) PROVE Moves
  <2>1. pc[t] \in StatePcs /\ pc[t] \notin {"idle", "waiting"} /\ reply[conn] # None
    BY <1>7 DEF ReadState, StatePcs
  <2>2. CASE GoOn(t, "state", FALSE, outcome)
    BY <2>2 DEF GoOn
  <2>3. CASE /\ ~(pc[t] = "undo" /\ reply[conn] # "lost")
             /\ reported' = Told(reply[conn]) /\ Unlock(t, outcome)
    <3>1. CASE outcome # "ok" \/ job[t] # "save"
      BY <1>2, <2>1, <2>3, <3>1
    <3>2. CASE outcome = "ok" /\ job[t] = "save"
      <4>1. reported = "idle" /\ (conn \notin broken => tx[conn] = "idle")
        BY <1>1, <2>1, <3>2 DEF SaidAfter
      <4>2. conn \in Conns /\ conn # None /\ wire[conn] # None
        BY <2>1, PastWaiting, NoneAssumption
      <4>3. CASE conn \in broken
        <5>1. reply[conn] = "lost"
          BY <4>2, <4>3 DEF IInv, BrokenTell
        <5> QED
          BY <2>3, <4>1, <5>1 DEF Told, States
      <4>4. CASE conn \notin broken /\ pc[t] = "state"
        <5>1. reply[conn] = tx[conn]
          BY <1>1, <2>1, <4>2, <4>4 DEF IInv, InWork, AtServer
        <5> QED
          BY <2>3, <4>1, <4>4, <5>1 DEF Told
      <4>5. CASE pc[t] # "state"
        <5>1. reply[conn] = "lost"
          BY <2>1, <2>3, <4>5 DEF StatePcs
        <5> QED
          BY <2>3, <4>1, <5>1 DEF Told, States
      <4> QED
        BY <4>3, <4>4, <4>5
    <3> QED
      BY <3>1, <3>2
  <2> QED
    BY <1>7, <2>2, <2>3 DEF ReadState
<1>8. ASSUME NEW t \in Tasks, StateTimesOut(t) PROVE Moves
  <2>1. pc[t] \in StatePcs /\ pc[t] \notin {"idle", "waiting"} /\ reported' = "idle" /\ Unlock(t, outcome)
    BY <1>8 DEF StateTimesOut, StatePcs
  <2>2. CASE outcome # "ok" \/ job[t] # "save"
    BY <1>2, <2>1, <2>2
  <2>3. CASE outcome = "ok" /\ job[t] = "save"
    BY <1>1, <2>1, <2>3 DEF SaidAfter
  <2> QED
    BY <2>2, <2>3
<1>9. ASSUME NEW t \in Tasks, Abandon(t) PROVE Moves
  BY <1>9 DEF Abandon
<1>10. ASSUME NEW c \in Conns, Serve(c) \/ Break(c) \/ Reap(c) PROVE Moves
  <2>1. UNCHANGED client
    <3>1. CASE Serve(c)
      <4>1. tx[c] # None
        BY <3>1 DEF Serve, IInv, NoneKnown
      <4> QED
        BY <3>1, <4>1, ServeFrame DEF IInv
    <3> QED
      BY <1>10, <3>1 DEF Break, Reap
  <2> QED
    BY <2>1 DEF client
<1> HIDE DEF Moves
<1>11. Moves
  BY <1>3, <1>4, <1>5, <1>6, <1>7, <1>8, <1>9, <1>10 DEF Next, Run
<1> QED
  BY <1>11 DEF Moves

\* What is said before a call and after a save stays so, whoever takes a step.
LEMMA SaidKeeps ==
    ASSUME IInv, SaidBefore, SaidAfter, Next
    PROVE  SaidBefore' /\ SaidAfter'
<1>0. /\ pc \in [Tasks -> Pcs] /\ job \in [Tasks -> JobsOf[whose] \cup {None}]
      /\ tx \in [Conns -> States \cup {None}] /\ broken \subseteq Conns
      /\ (holder # None => holder \in Tasks)
  BY DEF IInv, TypeOK
<1>1. ASSUME holder' = None PROVE SaidBefore' /\ SaidAfter'
  BY <1>1 DEF SaidBefore, SaidAfter
<1>2. ASSUME NEW t \in Tasks, NEW a, Unlock(t, a) PROVE SaidBefore' /\ SaidAfter'
  BY <1>1, <1>2 DEF Unlock
<1>3. ASSUME NEW t \in Tasks, pc[t] \in {"idle", "waiting"}, NEW p, NEW j,
             pc' = [pc EXCEPT ![t] = p], job' = [job EXCEPT ![t] = j],
             UNCHANGED <<holder, reported, conn, outcome, tx, broken>>
      PROVE  SaidBefore' /\ SaidAfter'
  <2>1. holder # None => pc'[holder] = pc[holder] /\ job'[holder] = job[holder]
    BY <1>0, <1>3 DEF IInv, OneHolder
  <2> QED
    BY <1>3, <2>1 DEF SaidBefore, SaidAfter
<1>4. ASSUME NEW t \in Tasks, (\E j \in Jobs : Ask(t, j)) \/ Cancel(t) \/ StopWaiting(t)
      PROVE  SaidBefore' /\ SaidAfter'
  <2>1. CASE Cancel(t)
    BY <2>1 DEF Cancel, server, SaidBefore, SaidAfter
  <2>2. CASE (\E j \in Jobs : Ask(t, j)) \/ StopWaiting(t)
    BY <1>3, <2>2 DEF Ask, StopWaiting, server
  <2> QED
    BY <1>4, <2>1, <2>2
<1>5. ASSUME NEW t \in Tasks, Lock(t) PROVE SaidBefore' /\ SaidAfter'
  <2>1. /\ holder = None /\ holder' = t /\ conn' = held /\ UNCHANGED <<reported, job, outcome>>
        /\ UNCHANGED <<tx, broken>> /\ pc'[t] \in {"connect", "drain", First(job[t])}
    BY <1>0, <1>5 DEF Lock, Send, server
  <2>2. SaidBefore'
    <3>1. held # None /\ held \notin broken => reported = tx[held]
      BY <2>1 DEF IInv, ReportedTruly, Whole
    <3>2. pc'[t] \in {"drain", "ask"} => held # None
      BY <1>0, <1>5 DEF Lock
    <3> QED
      BY <2>1, <3>1, <3>2 DEF SaidBefore
  <2>3. SaidAfter'
    BY <2>1 DEF SaidAfter, First, StatePcs
  <2> QED
    BY <2>2, <2>3
<1>6. ASSUME NEW t \in Tasks, Connect(t) PROVE SaidBefore' /\ SaidAfter'
  <2>1. holder = t /\ reported = "idle"
    BY <1>6, PastWaiting DEF Connect
  <2>2. /\ holder' = t /\ conn' \in Conns /\ tx'[conn'] = "idle" /\ pc'[t] = First(job[t])
        /\ UNCHANGED <<reported, job, outcome>>
    BY <1>0, <1>6, <2>1 DEF Connect
  <2> QED
    BY <2>1, <2>2 DEF SaidBefore, SaidAfter, First, StatePcs
<1>7. ASSUME NEW t \in Tasks, ConnectCancelled(t) \/ ConnectFails(t) \/ Interrupt(t) \/ StateTimesOut(t)
      PROVE  SaidBefore' /\ SaidAfter'
  BY <1>2, <1>7 DEF ConnectCancelled, ConnectFails, Interrupt, StateTimesOut
<1>8. ASSUME NEW t \in Tasks, holder = t, NEW p, NEW in, NEW o,
             Send(t, conn, p, in), outcome' = o, UNCHANGED <<holder, reported, job, conn>>,
             p \in {"drain", "ask"} => conn \in broken \/ reported = tx[conn],
             job[t] = "save" /\ p \in {"open", "put1", "put2", "keep"} => reported = "idle",
             job[t] = "save" /\ p \in StatePcs /\ o = "ok" =>
                 reported = "idle" /\ (conn \in broken \/ tx[conn] = "idle")
      PROVE  SaidBefore' /\ SaidAfter'
  <2>1. pc'[t] = p /\ UNCHANGED <<tx, broken>>
    BY <1>0, <1>8 DEF Send
  <2> QED
    BY <1>8, <2>1 DEF SaidBefore, SaidAfter
<1>9. ASSUME NEW t \in Tasks, Read(t) PROVE SaidBefore' /\ SaidAfter'
  <2> DEFINE said == reply[conn]
             Held == SaidBefore' /\ SaidAfter'
  <2>1. /\ holder = t /\ holder # None /\ pc[t] \in WorkPcs /\ said # None
        /\ conn \in Conns /\ conn # None /\ wire[conn] # None
    <3>1. pc[t] \in WorkPcs /\ reply[conn] # None
      BY <1>9 DEF Read
    <3> QED
      BY <3>1, PastWaiting, NoneAssumption DEF WorkPcs
  <2>2. said # "lost" => conn \notin broken
    BY <2>1 DEF IInv, BrokenTell
  <2>3. said # "lost" =>
          AtServer(pc[t], job[t], inside, wire[conn], said, tx[conn], own[conn], pending[conn], saved[conn])
    BY <2>1, <2>2 DEF IInv, InWork
  <2>4. ASSUME NEW a, Finish(t, a),
               a = "ok" /\ job[t] = "save" => reported = "idle" /\ tx[conn] = "idle"
        PROVE  Held
    <3>1. CASE Trusted(a)
      <4>1. AfterWork(pc[t], a) \in StatePcs
        BY DEF AfterWork, StatePcs
      <4>2. Send(t, conn, AfterWork(pc[t], a), inside) /\ outcome' = a /\
             UNCHANGED <<holder, reported, job, conn>>
        BY <2>4, <3>1 DEF Finish
      <4> QED
        BY <1>8, <2>1, <2>4, <4>1, <4>2 DEF StatePcs
    <3>2. CASE ~Trusted(a)
      BY <1>2, <2>4, <3>2 DEF Finish
    <3> QED
      BY <3>1, <3>2
  <2>5. ASSUME NEW p \in {"open", "put1", "put2", "keep"}, NEW in, NEW o, GoOn(t, p, in, o),
               job[t] = "save" => reported = "idle"
        PROVE  Held
    BY <1>8, <2>1, <2>5 DEF GoOn, StatePcs
  <2>6. ASSUME NEW p \in {"main", "end"}, NEW in, NEW o, GoOn(t, p, in, o)
        PROVE  Held
    BY <1>8, <2>1, <2>6 DEF GoOn, StatePcs
  <2> SUFFICES Held
    OBVIOUS
  <2> HIDE DEF Held
  <2>7. CASE said = "lost" /\ Finish(t, "lost")
    BY <2>4, <2>7
  <2>8. CASE pc[t] = "drain" /\ said # "lost" /\ GoOn(t, First(job[t]), FALSE, "ok")
    <3>1. reported = tx[conn]
      BY <2>1, <2>2, <2>8 DEF SaidBefore
    <3>2. CASE First(job[t]) = "ask"
      BY <1>8, <2>1, <2>8, <3>1, <3>2 DEF GoOn, StatePcs, Held
    <3>3. CASE First(job[t]) = "main"
      BY <2>6, <2>8, <3>3
    <3>4. CASE First(job[t]) = "open"
      BY <2>5, <2>8, <3>4 DEF First
    <3> QED
      BY <3>2, <3>3, <3>4 DEF First
  <2>9. CASE pc[t] = "ask" /\ job[t] = "explain" /\ said # "lost"
    BY <1>9, <2>4, <2>5, <2>9 DEF Read
  <2>10. CASE pc[t] = "ask" /\ job[t] = "save" /\ said # "lost"
    <3>1. said = "idle" => reported = "idle"
      BY <2>1, <2>2, <2>3, <2>10 DEF SaidBefore, AtServer
    <3> QED
      BY <1>9, <2>4, <2>5, <2>10, <3>1 DEF Read
  <2>11. CASE pc[t] = "open" /\ said # "lost"
    <3>1. job[t] = "save" => reported = "idle"
      BY <2>1, <2>11 DEF SaidAfter
    <3>2. \/ Finish(t, "error")
          \/ GoOn(t, IF job[t] = "save" THEN "put1" ELSE "main", inside, "ok")
      BY <1>9, <2>11 DEF Read
    <3> QED
      BY <2>4, <2>5, <2>6, <3>1, <3>2
  <2>12. CASE /\ pc[t] = "main" /\ job[t] \in {"explain", "reading", "escape"}
              /\ \E o : GoOn(t, "end", inside, o)
    BY <2>6, <2>12
  <2>13. CASE pc[t] = "main" /\ said # "lost" /\ Finish(t, said)
    <3>1. job[t] # "save"
      BY <2>3, <2>13 DEF AtServer
    <3> QED
      BY <2>4, <2>13, <3>1
  <2>14. CASE pc[t] = "end" /\ said # "lost" /\ \E a : Finish(t, a)
    <3>1. job[t] # "save"
      BY <2>3, <2>14 DEF AtServer, Guarded
    <3> QED
      BY <2>4, <2>14, <3>1
  <2>15. CASE pc[t] \in {"put1", "put2"} /\ said # "lost"
    <3>1. job[t] = "save" => reported = "idle"
      BY <2>1, <2>15 DEF SaidAfter
    <3>2. \/ GoOn(t, AfterPut(pc[t]), FALSE, "ok")
          \/ \E a \in {"refused", "error"} : Finish(t, a)
      BY <1>9, <2>15 DEF Read
    <3>3. AfterPut(pc[t]) \in {"put2", "keep"}
      BY DEF AfterPut
    <3> QED
      BY <2>4, <2>5, <3>1, <3>2, <3>3
  <2>16. CASE pc[t] = "keep" /\ said # "lost" /\ Finish(t, said)
    <3>1. job[t] = "save" => reported = "idle"
      BY <2>1, <2>16 DEF SaidAfter
    <3>2. tx[conn] = "idle"
      BY <2>1, <2>3, <2>16 DEF AtServer
    <3> QED
      BY <2>4, <2>16, <3>1, <3>2
  <2>17. Held
    BY <1>9, <2>7, <2>8, <2>9, <2>10, <2>11, <2>12, <2>13, <2>14, <2>15, <2>16 DEF Read
  <2> QED
    BY <2>17 DEF Held
<1>10. ASSUME NEW t \in Tasks, ReadState(t) PROVE SaidBefore' /\ SaidAfter'
  <2>1. holder = t /\ holder # None /\ pc[t] \in StatePcs
    <3>1. pc[t] \in StatePcs
      BY <1>10 DEF ReadState
    <3> QED
      BY <3>1, PastWaiting, NoneAssumption DEF StatePcs
  <2>2. CASE GoOn(t, "state", FALSE, outcome)
    <3>1. job[t] = "save" /\ outcome = "ok" => reported = "idle" /\ (conn \in broken \/ tx[conn] = "idle")
      BY <2>1 DEF SaidAfter
    <3> QED
      BY <1>8, <2>1, <2>2, <3>1 DEF GoOn, StatePcs
  <2>3. CASE Unlock(t, outcome)
    BY <1>2, <2>3
  <2> QED
    BY <1>10, <2>2, <2>3 DEF ReadState
<1>11. ASSUME NEW t \in Tasks, Abandon(t) PROVE SaidBefore' /\ SaidAfter'
  <2>1. CASE pc[t] = "waiting"
    BY <1>3, <1>11, <2>1 DEF Abandon, server
  <2>2. CASE Unlock(t, "timeout")
    BY <1>2, <2>2
  <2> QED
    BY <1>11, <2>1, <2>2 DEF Abandon
<1>12. ASSUME NEW c \in Conns, Serve(c) PROVE SaidBefore' /\ SaidAfter'
  <2>1. tx[c] # None
    BY <1>12 DEF Serve, IInv, NoneKnown
  <2>2. OthersKeep(c) /\ UNCHANGED <<client, broken>>
    BY <1>12, <2>1, ServeFrame DEF IInv
  <2>3. UNCHANGED <<holder, pc, job, conn, reported, outcome, broken>>
    BY <2>2 DEF client
  <2>4. conn # c => conn \notin Conns \/ tx'[conn] = tx[conn]
    BY <2>2 DEF OthersKeep
  <2>5. ASSUME holder # None, conn = c, pc[holder] \in {"drain", "ask", "state"}, c \notin broken
        PROVE  tx'[c] = tx[c]
    <3>1. wire[c].command = "ask"
      <4>1. AtServer(pc[holder], job[holder], inside, wire[c], reply[c], tx[c], own[c], pending[c], saved[c])
        BY <2>5, NoneAssumption DEF IInv, InWork
      <4> QED
        BY <2>5, <4>1 DEF AtServer, Command
    <3>2. \E r : Unmoved(c, r)
      BY <1>12, <3>1 DEF Serve
    <3> QED
      BY <1>0, <3>2 DEF Unmoved, After
  <2>6. ASSUME holder # None, conn = c, pc[holder] = "undo", c \notin broken
        PROVE  tx'[c] = "idle"
    <3>1. wire[c].command = "rollback"
      <4>1. AtServer(pc[holder], job[holder], inside, wire[c], reply[c], tx[c], own[c], pending[c], saved[c])
        BY <2>6, NoneAssumption DEF IInv, InWork
      <4> QED
        BY <2>6, <4>1 DEF AtServer, Command
    <3>2. Ended(c, {}, "ok")
      BY <1>12, <3>1 DEF Serve
    <3> QED
      BY <1>0, <3>2 DEF Ended, After
  <2>7. holder # None /\ pc[holder] \in WorkPcs \cup StatePcs => conn \in Conns
    BY PastWaiting, <1>0 DEF WorkPcs, StatePcs
  <2>8. SaidBefore'
    BY <2>3, <2>4, <2>5, <2>7 DEF SaidBefore, WorkPcs
  <2>9. SaidAfter'
    BY <2>3, <2>4, <2>5, <2>6, <2>7 DEF SaidAfter, StatePcs
  <2> QED
    BY <2>8, <2>9
<1>13. ASSUME NEW c \in Conns, Break(c) \/ Reap(c) PROVE SaidBefore' /\ SaidAfter'
  <2>1. UNCHANGED <<holder, pc, job, conn, reported, outcome>>
    BY <1>13 DEF Break, Reap, client
  <2>2. conn \in Conns /\ conn \notin broken' => conn \notin broken /\ tx'[conn] = tx[conn]
    BY <1>0, <1>13 DEF Break, Reap, Dropped
  <2>3. holder # None /\ pc[holder] \in WorkPcs \cup StatePcs => conn \in Conns
    BY PastWaiting, <1>0 DEF WorkPcs, StatePcs
  <2>4. SaidBefore'
    BY <2>1, <2>2, <2>3 DEF SaidBefore, WorkPcs
  <2>5. SaidAfter'
    BY <2>1, <2>2, <2>3 DEF SaidAfter, StatePcs
  <2> QED
    BY <2>4, <2>5
<1> QED
  BY <1>4, <1>5, <1>6, <1>7, <1>9, <1>10, <1>11, <1>12, <1>13 DEF Next, Run

\* A session is whose it was.
LEMMA OwnerStays ==
    ASSUME IInv, Next
    PROVE  UNCHANGED whose
<1>1. ASSUME NEW t \in Tasks, (\E j \in Jobs : Ask(t, j)) \/ Cancel(t) \/ Run(t) \/ Abandon(t)
      PROVE  UNCHANGED whose
  <2>1. CASE (\E j \in Jobs : Ask(t, j)) \/ Cancel(t) \/ Abandon(t)
    BY <2>1 DEF Ask, Cancel, Abandon
  <2>2. CASE StopWaiting(t) \/ Lock(t) \/ Connect(t) \/ ConnectCancelled(t) \/ ConnectFails(t)
    BY <2>2 DEF StopWaiting, Lock, Connect, ConnectCancelled, ConnectFails
  <2>3. CASE Interrupt(t) \/ Read(t) \/ ReadState(t) \/ StateTimesOut(t)
    BY <2>3 DEF Interrupt, Read, ReadState, StateTimesOut
  <2> QED
    BY <1>1, <2>1, <2>2, <2>3 DEF Run
<1>2. ASSUME NEW c \in Conns, Serve(c) \/ Break(c) \/ Reap(c) PROVE UNCHANGED whose
  <2>1. tx[c] # None
    BY <1>2 DEF Serve, Break, Reap, Dropped, IInv, NoneKnown
  <2> QED
    BY <1>2, <2>1, ServeFrame DEF Break, Reap, client, IInv
<1> QED
  BY <1>1, <1>2 DEF Next

\* No step of the session, of the state on its way, or of the header, changes what is known of
\* it.
LEMMA HeaderStepKeeps ==
    ASSUME HdInv, [HeaderNext]_<<vars, header>>
    PROVE  HdInv'
<1>1. CASE Session
  <2>1. Next /\ Observed /\ whose = "Reader"
    BY <1>1 DEF Session, HdInv
  <2>2. IInv'
    BY <2>1, NextKeeps DEF HdInv
  <2>3. SaidBefore' /\ SaidAfter'
    BY <2>1, SaidKeeps DEF HdInv
  <2>4. whose' = "Reader"
    BY <2>1, OwnerStays DEF HdInv
  <2>5. HeaderTypeOK'
    BY <2>1 DEF Observed, HdInv, HeaderTypeOK
  <2>6. HeaderSays'
    <3>1. CASE stale'
      BY <3>1 DEF HeaderSays
    <3>2. CASE missed'
      BY <3>2 DEF HeaderSays
    <3>3. CASE UNCHANGED <<stale, fetching, shown>> /\ reported' = reported /\ ~missed
      BY <3>3 DEF HeaderSays, HdInv
    <3> QED
      BY <2>1, <3>1, <3>2, <3>3, MovesAsk DEF Observed, MovesUnasked, Answered, HdInv
  <2> QED
    BY <2>2, <2>3, <2>4, <2>5, <2>6 DEF HdInv
<1>2. CASE Fetch \/ Show \/ UNCHANGED <<vars, header>>
  <2>1. UNCHANGED vars
    BY <1>2 DEF Fetch, Show
  <2>2. IInv'
    BY <2>1, NextKeeps DEF HdInv
  <2>3. UNCHANGED <<whose, holder, pc, job, conn, reported, outcome, tx, broken>>
    BY <2>1 DEF vars, client, server
  <2>4. SaidBefore' /\ SaidAfter' /\ whose' = "Reader"
    BY <2>3 DEF HdInv, SaidBefore, SaidAfter
  <2>5. HeaderTypeOK'
    BY <1>2, <2>3 DEF Fetch, Show, header, HdInv, IInv, TypeOK, HeaderTypeOK
  <2>6. HeaderSays'
    <3>1. reported # None
      BY NoneAssumption DEF HdInv, IInv, TypeOK
    <3> QED
      BY <1>2, <2>3, <3>1 DEF Fetch, Show, header, HdInv, HeaderSays
  <2> QED
    BY <2>2, <2>4, <2>5, <2>6 DEF HdInv
<1> QED
  BY <1>1, <1>2 DEF HeaderNext

\* Once nothing is asked the header shows what the last of the calls left
\* (transaction/hooks.ts), for any number of callers and connections and whatever was
\* cancelled, lost or refused, unless a preview moved the transaction since it was asked.
THEOREM HeaderShowsTruly == HeaderSpec => []HeaderKept
<1>1. HeaderInit => HdInv
  <2> SUFFICES ASSUME HeaderInit PROVE HdInv
    OBVIOUS
  <2>1. IInv /\ holder = None /\ stale = TRUE
    BY InitKeeps DEF HeaderInit, Init
  <2>2. HeaderTypeOK /\ whose = "Reader"
    BY DEF HeaderInit, HeaderTypeOK
  <2> QED
    BY <2>1, <2>2 DEF HdInv, SaidBefore, SaidAfter, HeaderSays
<1>2. HdInv /\ [HeaderNext]_<<vars, header>> => HdInv'
  BY HeaderStepKeeps
<1>3. HdInv => HeaderKept
  BY DEF HdInv, HeaderSays, HeaderKept, HeaderTrue
<1> QED
  BY <1>1, <1>2, <1>3, PTL DEF HeaderSpec

=============================================================================
