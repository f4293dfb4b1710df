------------------------- MODULE StatementLog_proofs -------------------------
(***************************************************************************)
(* What holds of the registered ids for any number of calls at once, and   *)
(* of the log and the handoffs for any number of connections and runs.     *)
(***************************************************************************)
EXTENDS StatementLog, FiniteSetTheorems, TLAPS

Waiting == {"session", "work", "record"}
Asked   == [pc : {"register", "session", "work", "record", "find", "hand"},
            kind : Reader \cup Agent, conn : Connections, id : Ids \cup {None}]

\* A call that registers has an id of the window's, and no other has one; only a
\* handoff looks for its connection first.
CallsTyped ==
    /\ running \in [Ids -> Calls \cup {None}]
    /\ call \in [Calls -> Asked \cup {Idle}]
    /\ \A c \in Calls : call[c].pc # "idle" =>
         /\ call[c].kind \in Registers => call[c].id \in Ids
         /\ call[c].kind \notin Registers => call[c].id = None
         /\ call[c].pc \in {"find", "hand"} => call[c].kind = "hand"

\* An id that is taken is taken by a call that is not over: none is lost for good.
TakenByCalls ==
    \A i \in Ids : running[i] # None =>
        call[running[i]].id = i /\ call[running[i]].pc \in Waiting

SlInv == CallsTyped /\ Cancellable /\ TakenByCalls

-----------------------------------------------------------------------------

\* With no call, the invariant holds.
LEMMA SlInitKeeps == Init => SlInv
BY DEF Init, SlInv, CallsTyped, Cancellable, TakenByCalls, Idle

\* A call that is over, or refused, or moves on by itself, disturbs no other.
LEMMA OverKeeps ==
    ASSUME SlInv, NEW c \in Calls, call[c].pc # "idle",
           call[c].pc \in Waiting \/ call[c].kind \notin Registers, Over(c)
    PROVE  SlInv'
<1> USE DEF SlInv
<1>1. /\ call' = [call EXCEPT ![c] = Idle]
      /\ running' = [i \in Ids |-> IF call[c].id = i THEN None ELSE running[i]]
  BY DEF Over
<1>2. CallsTyped'
  BY <1>1 DEF CallsTyped, Idle
<1>3. Cancellable'
  <2> SUFFICES ASSUME NEW d \in Calls, call'[d].kind \in Registers, call'[d].pc \in Waiting
               PROVE  running'[call'[d].id] = d
    BY DEF Cancellable, Waiting
  <2>1. d # c /\ call'[d] = call[d]
    BY <1>1 DEF CallsTyped, Idle, Waiting
  <2>2. call[d].id \in Ids /\ running[call[d].id] = d
    BY <2>1 DEF Cancellable, CallsTyped, Waiting
  <2>3. call[c].id # call[d].id
    BY <2>1, <2>2, StatementLogAssumption DEF Cancellable, CallsTyped, Waiting
  <2> QED
    BY <1>1, <2>1, <2>2, <2>3
<1>4. TakenByCalls'
  <2> SUFFICES ASSUME NEW i \in Ids, running'[i] # None
               PROVE  call'[running'[i]].id = i /\ call'[running'[i]].pc \in Waiting
    BY DEF TakenByCalls
  <2>1. running'[i] = running[i] /\ call[c].id # i
    BY <1>1
  <2>2. running[i] \in Calls /\ call[running[i]].id = i
    BY <2>1 DEF TakenByCalls, CallsTyped
  <2>3. call'[running[i]] = call[running[i]]
    BY <1>1, <2>1, <2>2 DEF CallsTyped
  <2> QED
    BY <2>1, <2>3 DEF TakenByCalls
<1> QED
  BY <1>2, <1>3, <1>4

\* A call that goes on under its registration keeps it.
LEMMA MovesKeep ==
    ASSUME SlInv, NEW c \in Calls, NEW to \in Waiting \cup {"hand"},
           call[c].pc \in Waiting \/ (call[c].pc \in {"find", "hand"} /\ call[c].kind = "hand"),
           to = "hand" => call[c].pc = "find" /\ call[c].kind = "hand",
           Goes(c, to), UNCHANGED running
    PROVE  SlInv'
<1> USE DEF SlInv
<1>1. call' = [call EXCEPT ![c].pc = to]
  BY DEF Goes
<1>2. call[c] \in Asked
  BY DEF CallsTyped, Idle, Waiting
<1>3. call'[c] \in Asked /\ call'[c].kind = call[c].kind /\ call'[c].id = call[c].id /\ call'[c].pc = to
  BY <1>1, <1>2 DEF Asked, Waiting, CallsTyped
<1>4. \A d \in Calls : d # c => call'[d] = call[d]
  BY <1>1 DEF CallsTyped
<1>5. CallsTyped'
  <2>1. call' \in [Calls -> Asked \cup {Idle}]
    BY <1>1, <1>3 DEF CallsTyped
  <2>2. \A d \in Calls : call'[d].pc # "idle" =>
          /\ call'[d].kind \in Registers => call'[d].id \in Ids
          /\ call'[d].kind \notin Registers => call'[d].id = None
          /\ call'[d].pc \in {"find", "hand"} => call'[d].kind = "hand"
    BY <1>3, <1>4 DEF CallsTyped, Waiting
  <2> QED
    BY <2>1, <2>2 DEF CallsTyped
<1>6. Cancellable'
  BY <1>3, <1>4 DEF Cancellable, Waiting, Registers
<1>7. TakenByCalls'
  BY <1>3, <1>4 DEF TakenByCalls, Waiting, Cancellable, CallsTyped
<1> QED
  BY <1>5, <1>6, <1>7

\* A call begins, or takes its id when nobody has it.
LEMMA BeginKeeps ==
    ASSUME SlInv, NEW c \in Calls, ReaderAsks(c) \/ AgentAsks(c)
    PROVE  SlInv'
<1> USE DEF SlInv
<1>1. PICK new \in Asked :
        /\ call' = [call EXCEPT ![c] = new] /\ UNCHANGED running /\ call[c] = Idle
        /\ new.kind \in Registers => new.pc = "register" /\ new.id \in Ids
        /\ new.kind \notin Registers => new.id = None
        /\ new.pc \in {"find", "hand"} => new.kind = "hand"
  <2>1. CASE ReaderAsks(c)
    <3>1. PICK k \in Reader, x \in Connections, i \in Ids :
            call' = [call EXCEPT ![c] =
              IF k \in Registers THEN [pc |-> "register", kind |-> k, conn |-> x, id |-> i]
              ELSE [pc |-> "session", kind |-> k, conn |-> x, id |-> None]]
      BY <2>1 DEF ReaderAsks
    <3>2. CASE k \in Registers
      <4> DEFINE new == [pc |-> "register", kind |-> k, conn |-> x, id |-> i]
      <4>1. new \in Asked
        BY DEF Asked
      <4> QED
        BY <2>1, <3>1, <3>2, <4>1 DEF ReaderAsks
    <3>3. CASE k \notin Registers
      <4> DEFINE new == [pc |-> "session", kind |-> k, conn |-> x, id |-> None]
      <4>1. new \in Asked
        BY DEF Asked
      <4> QED
        BY <2>1, <3>1, <3>3, <4>1 DEF ReaderAsks
    <3> QED
      BY <3>2, <3>3
  <2>2. CASE AgentAsks(c)
    <3>1. PICK k \in Agent, x \in Connections :
            call' = [call EXCEPT ![c] =
              [pc |-> IF k = "hand" THEN "find" ELSE "session", kind |-> k, conn |-> x, id |-> None]]
      BY <2>2 DEF AgentAsks
    <3> DEFINE new == [pc |-> IF k = "hand" THEN "find" ELSE "session", kind |-> k, conn |-> x, id |-> None]
    <3>2. new \in Asked
      BY DEF Asked
    <3>3. k \notin Registers
      BY DEF Agent, Registers
    <3> QED
      BY <2>2, <3>1, <3>2, <3>3 DEF AgentAsks
  <2> QED
    BY <2>1, <2>2
<1>2. call'[c] = new /\ \A d \in Calls : d # c => call'[d] = call[d]
  BY <1>1 DEF CallsTyped
<1>3. CallsTyped'
  BY <1>1, <1>2 DEF CallsTyped
<1>4. Cancellable'
  BY <1>1, <1>2 DEF Cancellable
<1>5. TakenByCalls'
  BY <1>1, <1>2 DEF TakenByCalls, CallsTyped, Idle, Waiting
<1> QED
  BY <1>3, <1>4, <1>5

\* A registration keeps it.
LEMMA RegisterKeeps ==
    ASSUME SlInv, NEW c \in Calls, Register(c)
    PROVE  SlInv'
<1> USE DEF SlInv
<1>1. call[c].pc = "register" /\ call[c] \in Asked
  BY DEF Register, CallsTyped, Idle
<1>2. CASE running[call[c].id] # None
  <2>1. call' = [call EXCEPT ![c] = Idle] /\ UNCHANGED running
    BY <1>2 DEF Register, Refused
  <2>2. call'[c] = Idle /\ \A d \in Calls : d # c => call'[d] = call[d]
    BY <2>1 DEF CallsTyped
  <2>3. CallsTyped'
    BY <2>1, <2>2 DEF CallsTyped, Idle
  <2>4. Cancellable'
    BY <2>1, <2>2 DEF Cancellable, Idle
  <2>5. TakenByCalls'
    BY <1>1, <2>1, <2>2 DEF TakenByCalls, CallsTyped, Waiting
  <2> QED
    BY <2>3, <2>4, <2>5
<1>3. CASE running[call[c].id] = None
  <2>1. /\ call' = [call EXCEPT ![c].pc = "session"]
        /\ running' = [running EXCEPT ![call[c].id] = c]
    BY <1>3 DEF Register, Goes
  <2>2. /\ call'[c] \in Asked /\ call'[c].pc = "session"
        /\ call'[c].kind = call[c].kind /\ call'[c].id = call[c].id
    BY <1>1, <2>1 DEF Asked, CallsTyped
  <2>3. \A d \in Calls : d # c => call'[d] = call[d]
    BY <2>1 DEF CallsTyped
  <2>4. CallsTyped'
    BY <1>1, <2>1, <2>2, <2>3 DEF CallsTyped
  <2>5. Cancellable'
    <3> SUFFICES ASSUME NEW d \in Calls, call'[d].kind \in Registers, call'[d].pc \in Waiting
                 PROVE  running'[call'[d].id] = d
      BY DEF Cancellable, Waiting
    <3>1. CASE d = c
      BY <1>1, <2>1, <2>2, <3>1 DEF CallsTyped
    <3>2. CASE d # c
      <4>1. call[d].id \in Ids /\ running[call[d].id] = d
        BY <2>3, <3>2 DEF Cancellable, CallsTyped, Waiting
      <4> QED
        BY <1>3, <2>1, <2>3, <3>2, <4>1, StatementLogAssumption DEF CallsTyped
    <3> QED
      BY <3>1, <3>2
  <2>6. TakenByCalls'
    <3> SUFFICES ASSUME NEW i \in Ids, running'[i] # None
                 PROVE  call'[running'[i]].id = i /\ call'[running'[i]].pc \in Waiting
      BY DEF TakenByCalls
    <3>1. CASE i = call[c].id
      BY <2>1, <2>2, <3>1 DEF CallsTyped, Waiting
    <3>2. CASE i # call[c].id
      <4>1. running'[i] = running[i] /\ running[i] \in Calls
        BY <2>1, <3>2 DEF CallsTyped
      <4>2. running[i] # c
        BY <3>2, <4>1 DEF TakenByCalls
      <4> QED
        BY <2>3, <4>1, <4>2 DEF TakenByCalls
    <3> QED
      BY <3>1, <3>2
  <2> QED
    BY <2>4, <2>5, <2>6
<1> QED
  BY <1>2, <1>3

\* What answers a call, or ends the wait for it.
LEMMA RanKeeps ==
    ASSUME SlInv, NEW c \in Calls, call[c].pc = "work", Ran(c)
    PROVE  SlInv'
<1>1. CASE Over(c)
  BY <1>1, OverKeeps DEF Waiting
<1>2. CASE Goes(c, "record") /\ UNCHANGED running
  BY <1>2, MovesKeep DEF Waiting
<1> QED
  BY <1>1, <1>2 DEF Ran

\* Every step keeps it.
LEMMA SlNextKeeps == SlInv /\ [Next]_vars => SlInv'
<1> SUFFICES ASSUME SlInv, [Next]_vars PROVE SlInv'
  OBVIOUS
<1>1. ASSUME UNCHANGED <<call, running>> PROVE SlInv'
  BY <1>1 DEF SlInv, CallsTyped, Cancellable, TakenByCalls
<1>2. ASSUME NEW c \in Calls, ReaderAsks(c) \/ AgentAsks(c) PROVE SlInv'
  BY <1>2, BeginKeeps
<1>3. ASSUME NEW c \in Calls, Register(c) PROVE SlInv'
  BY <1>3, RegisterKeeps
<1>4. ASSUME NEW c \in Calls, Session(c) PROVE SlInv'
  <2>1. CASE Over(c)
    BY <1>4, <2>1, OverKeeps DEF Session, Waiting
  <2>2. CASE Goes(c, "work") /\ UNCHANGED running
    BY <1>4, <2>2, MovesKeep DEF Session, Waiting
  <2> QED
    BY <1>4, <2>1, <2>2 DEF Session
<1>5. ASSUME NEW c \in Calls, Answered(c) \/ Interrupted(c) \/ TimedOut(c) PROVE SlInv'
  BY <1>5, RanKeeps DEF Answered, Interrupted, TimedOut
<1>6. ASSUME NEW c \in Calls, CutOff(c) PROVE SlInv'
  <2>1. CASE call[c].pc = "idle"
    <3>1. call[c] = Idle
      BY <2>1 DEF SlInv, CallsTyped, Asked
    <3>2. call' = call /\ running' = running
      BY <1>6, <3>1, StatementLogAssumption DEF CutOff, Over, SlInv, CallsTyped, Idle
    <3> QED
      BY <1>1, <3>2
  <2>2. CASE call[c].pc # "idle"
    BY <1>6, <2>2, OverKeeps DEF CutOff, Agent, Registers
  <2> QED
    BY <2>1, <2>2
<1>7. ASSUME NEW c \in Calls, Record(c) PROVE SlInv'
  BY <1>7, OverKeeps DEF Record, Waiting
<1>8. ASSUME NEW c \in Calls, Find(c) PROVE SlInv'
  <2>1. call[c].pc = "find" /\ call[c].kind = "hand"
    BY <1>8 DEF Find, SlInv, CallsTyped, Idle
  <2>2. CASE Over(c)
    BY <2>1, <2>2, OverKeeps DEF Registers
  <2>3. CASE Goes(c, "hand") /\ UNCHANGED running
    BY <2>1, <2>3, MovesKeep
  <2> QED
    BY <1>8, <2>2, <2>3 DEF Find
<1>9. ASSUME NEW c \in Calls, Hand(c) PROVE SlInv'
  <2>1. call[c].pc = "hand" /\ call[c].kind = "hand"
    BY <1>9 DEF Hand, SlInv, CallsTyped, Idle
  <2>2. CASE Over(c)
    BY <2>1, <2>2, OverKeeps DEF Registers
  <2>3. CASE Goes(c, "record") /\ UNCHANGED running
    BY <2>1, <2>3, MovesKeep DEF Waiting
  <2> QED
    BY <1>9, <2>2, <2>3 DEF Hand
<1>10. ASSUME NEW i \in Ids, Cancel(i) PROVE SlInv'
  BY <1>1, <1>10 DEF Cancel
<1>11. ASSUME (\E x \in Connections : Delete(x)) \/ Listen \/ Tick \/ UNCHANGED vars PROVE SlInv'
  BY <1>1, <1>11 DEF Delete, Listen, Tick, vars, asked
<1> QED
  BY <1>2, <1>3, <1>4, <1>5, <1>6, <1>7, <1>8, <1>9, <1>10, <1>11 DEF Next

\* So it holds throughout.
LEMMA SlKept == Spec => []SlInv
BY SlInitKeeps, SlNextKeeps, PTL DEF Spec

-----------------------------------------------------------------------------

\* For any number of calls that ask for the same ids: a statement that runs has its
\* own token under its id (QueryRegistry::register).
THEOREM RunsCanBeCancelled == Spec => []Cancellable
BY SlKept, PTL DEF SlInv

\* An id stays taken only as long as its call runs, whichever way the call ends
\* (QueryRegistry::forget, dropped with the registration).
THEOREM IdsAreForgotten == Spec => []TakenByCalls
BY SlKept, PTL DEF SlInv

-----------------------------------------------------------------------------
(* The log, for any connections and any number of runs *)

\* Ids are given in the order of the runs of a connection.
InStep(rows) ==
    \A i, j \in DOMAIN rows :
        rows[i].conn = rows[j].conn => (i < j <=> rows[i].nth < rows[j].nth)

\* The runs there are of a connection are its last ones.
Gapless(rows, x, top, keep) ==
    {rows[i].nth : i \in Of(rows, x)} = {n \in 1..top : top < n + keep}

Table(rows) ==
    /\ DOMAIN rows \subseteq 1..MaxRecords
    /\ \A i \in DOMAIN rows : rows[i].conn \in Connections /\ rows[i].nth \in Nat
    /\ InStep(rows)

LogTyped ==
    /\ conns \subseteq Connections /\ count \in [Connections -> Nat]
    /\ \A i \in DOMAIN history : history[i] \in [conn : conns, nth : Nat]

LogInv ==
    /\ LogTyped /\ Table(history)
    /\ \A x \in Connections : Gapless(history, x, count[x], Keep)

\* Of the last runs, as many are newer than one as have a greater number.
LEMMA NewerCounted ==
    ASSUME NEW rows, Table(rows), NEW x \in Connections, NEW top \in Nat, NEW keep \in Nat,
           Gapless(rows, x, top, keep), NEW i \in Of(rows, x)
    PROVE  Cardinality({j \in Of(rows, x) : j > i}) = top - rows[i].nth
<1> DEFINE S == {j \in Of(rows, x) : j > i}
           T == (rows[i].nth + 1)..top
           f == [j \in T |-> CHOOSE k \in S : rows[k].nth = j]
<1>1. /\ \A j \in Of(rows, x) : /\ j \in DOMAIN rows /\ j \in Nat /\ rows[j].conn = x
                                /\ rows[j].nth \in 1..top /\ top < rows[j].nth + keep
      /\ i \in DOMAIN rows /\ i \in Nat /\ rows[i].conn = x
      /\ rows[i].nth \in 1..top /\ top < rows[i].nth + keep
  <2>1. \A j \in Of(rows, x) : rows[j].nth \in {n \in 1..top : top < n + keep}
    BY DEF Gapless
  <2>2. \A j \in Of(rows, x) : j \in DOMAIN rows /\ rows[j].conn = x
    BY DEF Of
  <2>3. \A j \in DOMAIN rows : j \in Nat
    BY DEF Table
  <2> QED
    BY <2>1, <2>2, <2>3
<1>2. \A j, k \in Of(rows, x) : j < k <=> rows[j].nth < rows[k].nth
  BY <1>1 DEF Table, InStep
<1>3. ASSUME NEW n \in T PROVE \E k \in S : rows[k].nth = n
  <2>1. n \in Nat /\ rows[i].nth < n /\ n <= top
    BY <1>1
  <2>2. n \in {m \in 1..top : top < m + keep}
    BY <1>1, <2>1
  <2>3. PICK k \in Of(rows, x) : rows[k].nth = n
    BY <2>2 DEF Gapless
  <2>4. i < k
    BY <1>2, <2>1, <2>3
  <2> QED
    BY <1>1, <2>3, <2>4
<1>4. \A n \in T : f[n] \in S /\ rows[f[n]].nth = n
  BY <1>3
<1>5. ASSUME NEW k \in S PROVE rows[k].nth \in T /\ f[rows[k].nth] = k
  <2>1. rows[k].nth \in T
    BY <1>1, <1>2
  <2>2. f[rows[k].nth] \in S /\ rows[f[rows[k].nth]].nth = rows[k].nth
    BY <1>4, <2>1
  <2> QED
    BY <1>1, <1>2, <2>1, <2>2
<1>6. f \in [T -> S]
  BY <1>4
<1> HIDE DEF f
<1>7. f \in Bijection(T, S)
  <2>1. \A a, b \in T : f[a] = f[b] => a = b
    BY <1>4
  <2>2. \A k \in S : \E a \in T : f[a] = k
    BY <1>5
  <2> QED
    BY <1>6, <2>1, <2>2 DEF Bijection, Injection, Surjection, IsInjective
<1>8. IsFiniteSet(T) /\ Cardinality(T) = top - rows[i].nth
  <2>1. rows[i].nth + 1 \in Int /\ top \in Int
    BY <1>1
  <2>2. IsFiniteSet(T) /\ Cardinality(T) = IF rows[i].nth + 1 > top THEN 0 ELSE top - (rows[i].nth + 1) + 1
    BY <2>1, FS_Interval
  <2> QED
    BY <1>1, <2>2
<1> HIDE DEF S, T
<1>9. Cardinality(S) = Cardinality(T)
  BY <1>7, <1>8, FS_Bijection DEF ExistsBijection
<1> QED
  BY <1>8, <1>9 DEF S

\* So what ORDER BY id DESC LIMIT takes are those with the greatest numbers.
LEMMA NewestCounted ==
    ASSUME NEW rows, Table(rows), NEW x \in Connections, NEW top \in Nat, NEW keep \in Nat,
           Gapless(rows, x, top, keep), NEW limit \in Nat
    PROVE  /\ Newest(rows, x, limit) = {i \in Of(rows, x) : top < rows[i].nth + limit}
           /\ {rows[i].nth : i \in Newest(rows, x, limit)} =
                {n \in 1..top : top < n + limit /\ top < n + keep}
<1>1. \A i \in Of(rows, x) : rows[i].nth \in 1..top
  BY DEF Gapless
<1>2. \A i \in Of(rows, x) : Cardinality({j \in Of(rows, x) : j > i}) < limit <=> top < rows[i].nth + limit
  <2> TAKE i \in Of(rows, x)
  <2>1. Cardinality({j \in Of(rows, x) : j > i}) = top - rows[i].nth
    BY NewerCounted
  <2> QED
    BY <1>1, <2>1
<1>3. Newest(rows, x, limit) = {i \in Of(rows, x) : top < rows[i].nth + limit}
  BY <1>2 DEF Newest
<1>4. {rows[i].nth : i \in {k \in Of(rows, x) : top < rows[k].nth + limit}} =
        {n \in {rows[i].nth : i \in Of(rows, x)} : top < n + limit}
  OBVIOUS
<1>5. {n \in {m \in 1..top : top < m + keep} : top < n + limit} =
        {n \in 1..top : top < n + limit /\ top < n + keep}
  OBVIOUS
<1> QED
  BY <1>3, <1>4, <1>5 DEF Gapless

\* Some rows of a table are one too.
LEMMA PartOfTable ==
    ASSUME NEW rows, Table(rows), NEW D \in SUBSET DOMAIN rows
    PROVE  /\ Table([i \in D |-> rows[i]])
           /\ \A x : Of([i \in D |-> rows[i]], x) = D \cap Of(rows, x)
BY DEF Table, InStep, Of

\* The entry and the pruning keep the newest (record, prune).
LEMMA RecordKeepsLog ==
    ASSUME LogInv, NEW x \in conns, NEW id \in 1..MaxRecords, NextId(id), UNCHANGED conns,
           count' = [count EXCEPT ![x] = @ + 1],
           history' = Pruned([i \in DOMAIN history \cup {id} |->
                        IF i = id THEN [conn |-> x, nth |-> count[x] + 1] ELSE history[i]], x)
    PROVE  LogInv'
<1> DEFINE rows == [i \in DOMAIN history \cup {id} |->
                      IF i = id THEN [conn |-> x, nth |-> count[x] + 1] ELSE history[i]]
           top == count[x] + 1
           D == (DOMAIN rows \ Of(rows, x)) \cup Newest(rows, x, Keep)
<1>1. /\ x \in Connections /\ count[x] \in Nat /\ top \in Nat /\ Keep \in Nat \ {0} /\ id \in Nat
      /\ Keep \in Nat /\ Keep + 1 \in Nat
      /\ \A i \in DOMAIN history : i < id /\ i \in Nat /\ history[i].nth \in Nat
  BY StatementLogAssumption DEF LogInv, LogTyped, Table, NextId
<1>2. /\ DOMAIN rows = DOMAIN history \cup {id} /\ id \notin DOMAIN history
      /\ rows[id].conn = x /\ rows[id].nth = top
      /\ \A i \in DOMAIN history : rows[i] = history[i]
  BY <1>1
<1>3. \A i \in DOMAIN history : history[i].conn = x => history[i].nth \in 1..count[x]
  BY <1>1 DEF LogInv, Gapless, Of
<1> HIDE DEF rows
<1>4. Table(rows)
  <2>1. ASSUME NEW i \in DOMAIN rows, NEW j \in DOMAIN rows, rows[i].conn = rows[j].conn
        PROVE  i < j <=> rows[i].nth < rows[j].nth
    <3>1. CASE i \in DOMAIN history /\ j \in DOMAIN history
      BY <1>2, <2>1, <3>1 DEF LogInv, Table, InStep
    <3>2. CASE i = id /\ j \in DOMAIN history
      <4>1. rows[j].nth \in 1..count[x] /\ j < id /\ j \in Nat
        BY <1>1, <1>2, <1>3, <2>1, <3>2
      <4> QED
        BY <1>1, <1>2, <3>2, <4>1
    <3>3. CASE i \in DOMAIN history /\ j = id
      <4>1. rows[i].nth \in 1..count[x] /\ i < id
        BY <1>1, <1>2, <1>3, <2>1, <3>3
      <4> QED
        BY <1>1, <1>2, <3>3, <4>1
    <3>4. CASE i = id /\ j = id
      BY <1>1, <1>2, <3>4
    <3> QED
      BY <1>2, <3>1, <3>2, <3>3, <3>4
  <2>2. /\ DOMAIN rows \subseteq 1..MaxRecords
        /\ \A i \in DOMAIN rows : rows[i].conn \in Connections /\ rows[i].nth \in Nat
    BY <1>1, <1>2 DEF LogInv, Table
  <2> QED
    BY <2>1, <2>2 DEF Table, InStep
<1>5. Of(rows, x) = Of(history, x) \cup {id} /\ \A y \in Connections \ {x} : Of(rows, y) = Of(history, y)
  BY <1>2 DEF Of
<1>6. Gapless(rows, x, top, Keep + 1)
  <2>1. {rows[i].nth : i \in Of(rows, x)} = {history[i].nth : i \in Of(history, x)} \cup {top}
    BY <1>2, <1>5 DEF Of
  <2>2. {n \in 1..top : top < n + (Keep + 1)} = {n \in 1..count[x] : count[x] < n + Keep} \cup {top}
    BY <1>1
  <2> QED
    BY <1>1, <2>1, <2>2 DEF LogInv, Gapless
<1>7. /\ Newest(rows, x, Keep) \subseteq Of(rows, x)
      /\ {rows[i].nth : i \in Newest(rows, x, Keep)} = {n \in 1..top : top < n + Keep}
  <2> HIDE DEF top
  <2>1. {rows[i].nth : i \in Newest(rows, x, Keep)} =
          {n \in 1..top : top < n + Keep /\ top < n + (Keep + 1)}
    BY <1>1, <1>4, <1>6, NewestCounted
  <2>2. \A n \in 1..top : top < n + Keep => top < n + (Keep + 1)
    BY <1>1
  <2> QED
    BY <2>1, <2>2 DEF Newest
<1> HIDE DEF top
<1>8. D \subseteq DOMAIN rows /\ history' = [i \in D |-> rows[i]]
  BY <1>7 DEF Pruned, rows, Of
<1>9. /\ D \cap Of(rows, x) = Newest(rows, x, Keep)
      /\ \A y \in Connections \ {x} : D \cap Of(rows, y) = Of(history, y)
  BY <1>5, <1>7 DEF Of
<1> HIDE DEF D
<1>10. Table(history') /\ DOMAIN history' = D /\ \A i \in D : history'[i] = rows[i]
  BY <1>4, <1>8, PartOfTable
<1>11. \A y : Of(history', y) = D \cap Of(rows, y)
  BY <1>8, <1>10 DEF Of
<1>12. count' \in [Connections -> Nat] /\ count'[x] = top /\ \A y \in Connections \ {x} : count'[y] = count[y]
  BY <1>1 DEF top, LogInv, LogTyped
<1>13. LogTyped'
  <2>1. \A i \in DOMAIN rows : rows[i] \in [conn : conns, nth : Nat]
    BY <1>1 DEF rows, LogInv, LogTyped
  <2> QED
    BY <1>8, <1>10, <1>12, <2>1 DEF LogInv, LogTyped
<1>14. ASSUME NEW y \in Connections PROVE Gapless(history', y, count'[y], Keep)
  <2>1. CASE y = x
    <3>1. {history'[i].nth : i \in Of(history', x)} = {rows[i].nth : i \in Newest(rows, x, Keep)}
      <4>1. Of(history', x) = Newest(rows, x, Keep)
        BY <1>9, <1>11
      <4>2. \A i \in Newest(rows, x, Keep) : history'[i] = rows[i]
        BY <1>9, <1>10
      <4> QED
        BY <4>1, <4>2
    <3> QED
      BY <1>7, <1>12, <2>1, <3>1 DEF Gapless
  <2>2. CASE y # x
    <3>1. Of(history', y) = Of(history, y)
      BY <1>9, <1>11, <2>2
    <3>2. \A i \in Of(history, y) : history'[i] = history[i]
      BY <1>2, <1>10, <1>11, <3>1 DEF Of
    <3>3. {history'[i].nth : i \in Of(history', y)} = {history[i].nth : i \in Of(history, y)}
      BY <3>1, <3>2
    <3> QED
      BY <1>12, <2>2, <3>3 DEF LogInv, Gapless
  <2> QED
    BY <2>1, <2>2
<1> QED
  BY <1>10, <1>13, <1>14 DEF LogInv, Table, Gapless, Of, InStep

\* A connection's history goes with it.
LEMMA DeleteKeepsLog ==
    ASSUME LogInv, NEW x \in Connections, Delete(x)
    PROVE  LogInv'
<1> DEFINE D == DOMAIN history \ Of(history, x)
<1>1. /\ conns' = conns \ {x} /\ count' = [count EXCEPT ![x] = 0]
      /\ history' = [i \in D |-> history[i]]
  BY DEF Delete
<1>2. Table(history) /\ D \in SUBSET DOMAIN history
  BY DEF LogInv
<1> HIDE DEF D
<1>3. Table(history') /\ \A y : Of(history', y) = D \cap Of(history, y)
  BY <1>1, <1>2, PartOfTable
<1>4. LogTyped'
  BY <1>1 DEF LogInv, LogTyped, D, Of
<1>5. ASSUME NEW y \in Connections PROVE Gapless(history', y, count'[y], Keep)
  <2>1. CASE y = x
    <3>1. Of(history', x) = {}
      BY <1>3 DEF D
    <3>2. count'[x] = 0
      BY <1>1 DEF LogInv, LogTyped
    <3> QED
      BY <2>1, <3>1, <3>2 DEF Gapless
  <2>2. CASE y # x
    <3>1. Of(history', y) = Of(history, y) /\ count'[y] = count[y]
      BY <1>1, <1>3, <2>2 DEF D, Of, LogInv, LogTyped
    <3>2. \A i \in Of(history, y) : history'[i] = history[i]
      BY <1>1, <2>2 DEF D, Of
    <3>3. {history'[i].nth : i \in Of(history', y)} = {history[i].nth : i \in Of(history, y)}
      BY <3>1, <3>2
    <3> QED
      BY <3>1, <3>3 DEF LogInv, Gapless
  <2> QED
    BY <2>1, <2>2
<1> QED
  BY <1>3, <1>4, <1>5 DEF LogInv, Table, Gapless, Of, InStep

-----------------------------------------------------------------------------
(* Handing over, for any allowance and any stretch of time *)

HandsTyped ==
    /\ listening \in BOOLEAN
    /\ handed \in Seq(0..Within) /\ Len(handed) <= AtMost
    /\ given \in Seq(0..Within) /\ Len(given) <= AtMost + 1

\* The queue is the last part of what was handed over, oldest first, and what it
\* forgot was handed over too long ago to count.
HandInv ==
    /\ HandsTyped
    /\ \A i, j \in 1..Len(given) : i <= j => given[j] <= given[i]
    /\ Len(handed) <= Len(given)
    /\ \A i \in 1..Len(handed) : handed[i] = given[Len(given) - Len(handed) + i]
    /\ \A i \in 1..(Len(given) - Len(handed)) : given[i] = Within

\* Some number there is among them is the least.
LEMMA LeastOf ==
    ASSUME NEW S, S \subseteq Nat, S # {}
    PROVE  \E n \in S : \A o \in S : n <= o
<1>1. PICK n \in S : \A o \in S : <<o, n>> \notin OpToRel(<, Nat)
  BY WFMin, NatLessThanWellFounded
<1>2. \A o \in S : ~(o < n)
  BY <1>1 DEF OpToRel
<1> QED
  BY <1>2

\* The queue is popped up to the first that is still inside (Handed::admit).
LEMMA ForgetsOldest ==
    ASSUME HandsTyped
    PROVE  /\ Forgets \in 0..Len(handed)
           /\ Forgets < Len(handed) => handed[Forgets + 1] < Within
           /\ \A n \in 1..Forgets : handed[n] = Within
<1> DEFINE kept == {n \in 0..Len(handed) : n < Len(handed) => Still(handed[n + 1])}
<1>1. /\ Len(handed) \in Nat /\ Within \in Nat
      /\ \A i \in 1..Len(handed) : handed[i] \in 0..Within
  BY StatementLogAssumption DEF HandsTyped
<1>2. kept \subseteq Nat /\ kept # {}
  <2>1. Len(handed) \in kept
    BY <1>1
  <2> QED
    BY <1>1, <2>1
<1>3. \E n \in kept : \A o \in kept : n <= o
  <2> HIDE DEF kept
  <2> QED
    BY <1>2, LeastOf
<1>4. Forgets \in kept /\ \A o \in kept : Forgets <= o
  BY <1>3 DEF Forgets
<1>5. ASSUME NEW n \in 1..Forgets PROVE handed[n] = Within
  <2>0. Forgets \in 0..Len(handed) /\ n \in Nat /\ n <= Forgets /\ 1 <= n /\ ~(Forgets <= n - 1)
    BY <1>1, <1>4
  <2>1. n - 1 \in 0..Len(handed) /\ n - 1 < Len(handed) /\ n \in 1..Len(handed)
    BY <1>1, <2>0
  <2>4. n - 1 \notin kept
    BY <1>4, <2>0
  <2>2. ~Still(handed[(n - 1) + 1])
    BY <2>1, <2>4
  <2>3. (n - 1) + 1 = n /\ handed[n] \in 0..Within
    BY <1>1, <2>1
  <2> QED
    BY <1>1, <2>2, <2>3 DEF Still
<1> QED
  BY <1>4, <1>5 DEF Still

\* What stays in the queue, and that no more was given since.
LEMMA LeftIsLast ==
    ASSUME HandInv
    PROVE  /\ Left \in Seq(0..Within) /\ Len(Left) = Len(handed) - Forgets
           /\ Forgets \in 0..Len(handed)
           /\ \A i \in 1..Len(Left) : Left[i] = given[Len(given) - Len(Left) + i]
           /\ \A i \in 1..(Len(given) - Len(Left)) : given[i] = Within
<1>1. /\ Forgets \in 0..Len(handed) /\ \A n \in 1..Forgets : handed[n] = Within
      /\ Len(handed) \in Nat /\ Len(given) \in Nat /\ Len(handed) <= Len(given)
      /\ \A i \in 1..Len(handed) : handed[i] \in 0..Within
  <2>1. HandsTyped /\ Len(handed) <= Len(given)
    BY DEF HandInv
  <2>2. Forgets \in 0..Len(handed) /\ \A n \in 1..Forgets : handed[n] = Within
    BY <2>1, ForgetsOldest
  <2>3. handed \in Seq(0..Within) /\ given \in Seq(0..Within)
    BY <2>1 DEF HandsTyped
  <2>4. Len(handed) \in Nat /\ Len(given) \in Nat
    BY <2>3
  <2>5. \A i \in 1..Len(handed) : handed[i] \in 0..Within
    BY <2>3, StatementLogAssumption
  <2> QED
    BY <2>1, <2>2, <2>4, <2>5
<1>2. /\ Left \in Seq(0..Within) /\ Len(Left) = Len(handed) - Forgets
      /\ \A i \in 1..Len(Left) : Left[i] = handed[Forgets + i]
  <2> DEFINE n == Forgets
  <2>1. n \in Nat /\ n <= Len(handed) /\ handed \in Seq(0..Within)
    BY <1>1 DEF HandInv, HandsTyped
  <2>2. Left = SubSeq(handed, n + 1, Len(handed))
    BY DEF Left
  <2> HIDE DEF n
  <2>3. /\ SubSeq(handed, n + 1, Len(handed)) \in Seq(0..Within)
        /\ Len(SubSeq(handed, n + 1, Len(handed))) = Len(handed) - n
        /\ \A i \in 1..(Len(handed) - n) : SubSeq(handed, n + 1, Len(handed))[i] = handed[n + i]
    BY <1>1, <2>1
  <2> QED
    BY <2>2, <2>3 DEF n
<1>3. ASSUME NEW i \in 1..Len(Left) PROVE Left[i] = given[Len(given) - Len(Left) + i]
  <2>1. /\ Forgets + i \in 1..Len(handed)
        /\ Len(given) - Len(handed) + (Forgets + i) = Len(given) - Len(Left) + i
    BY <1>1, <1>2
  <2>2. handed[Forgets + i] = given[Len(given) - Len(handed) + (Forgets + i)]
    BY <2>1 DEF HandInv
  <2> QED
    BY <1>2, <2>1, <2>2
<1>4. ASSUME NEW i \in 1..(Len(given) - Len(Left)) PROVE given[i] = Within
  <2>1. CASE i <= Len(given) - Len(handed)
    BY <1>1, <1>2, <2>1 DEF HandInv
  <2>2. CASE i > Len(given) - Len(handed)
    <3> DEFINE n == i - (Len(given) - Len(handed))
    <3>1. n \in 1..Forgets /\ n \in 1..Len(handed) /\ Len(given) - Len(handed) + n = i
      BY <1>1, <1>2, <2>2
    <3>2. handed[n] = given[Len(given) - Len(handed) + n]
      BY <3>1 DEF HandInv
    <3> QED
      BY <1>1, <3>1, <3>2
  <2> QED
    BY <1>1, <1>2, <2>1, <2>2
<1> QED
  BY <1>1, <1>2, <1>3, <1>4

\* The queue lets through exactly those that would not be one too many.
LEMMA AllowanceFollows == HandInv => AllowanceExact
<1> SUFFICES ASSUME HandInv PROVE AllowanceExact
  OBVIOUS
<1>1. /\ AtMost \in Nat \ {0} /\ Within \in Nat
      /\ Len(handed) \in Nat /\ Len(given) \in Nat /\ Len(handed) <= Len(given)
      /\ Len(handed) <= AtMost /\ Len(given) <= AtMost + 1
  BY StatementLogAssumption DEF HandInv, HandsTyped
<1>2. /\ Len(Left) = Len(handed) - Forgets /\ Forgets \in 0..Len(handed)
      /\ Forgets < Len(handed) => handed[Forgets + 1] < Within
      /\ \A i \in 1..(Len(given) - Len(Left)) : given[i] = Within
  BY LeftIsLast, ForgetsOldest DEF HandInv
<1>3. Len(given) > AtMost => given[1] = Within
  BY <1>1 DEF HandInv
<1>4. ASSUME Admits PROVE Len(given) < AtMost \/ given[Len(given) - AtMost + 1] = Within
  <2>1. Len(Left) < AtMost
    BY <1>4 DEF Admits
  <2>2. Len(given) >= AtMost => Len(given) - AtMost + 1 \in 1..(Len(given) - Len(Left))
    BY <1>1, <1>2, <2>1
  <2> QED
    BY <1>1, <1>2, <2>2
<1>5. ASSUME ~Admits PROVE ~(Len(given) < AtMost) /\ given[Len(given) - AtMost + 1] # Within
  <2>1. Len(handed) = AtMost /\ Forgets = 0
    BY <1>1, <1>2, <1>5 DEF Admits
  <2>2. 1 \in 1..Len(handed) /\ handed[1] < Within
    BY <1>1, <1>2, <2>1
  <2>3. handed[1] = given[Len(given) - Len(handed) + 1]
    BY <2>2 DEF HandInv
  <2> QED
    BY <1>1, <2>1, <2>2, <2>3
<1> QED
  BY <1>3, <1>4, <1>5 DEF AllowanceExact

\* What appending does to ages.
LEMMA AgesAppended ==
    ASSUME NEW ages \in Seq(0..Within)
    PROVE  /\ Append(ages, 0) \in Seq(0..Within) /\ Len(Append(ages, 0)) = Len(ages) + 1
           /\ \A i \in 1..Len(ages) : Append(ages, 0)[i] = ages[i]
           /\ Append(ages, 0)[Len(ages) + 1] = 0
<1>1. Within \in Nat /\ 0 \in 0..Within /\ Len(ages) \in Nat
  BY StatementLogAssumption
<1> QED
  BY <1>1

\* What leaving out the first does.
LEMMA TailOf ==
    ASSUME NEW S, NEW s \in Seq(S), Len(s) > 0
    PROVE  /\ Tail(s) \in Seq(S) /\ Len(Tail(s)) = Len(s) - 1
           /\ \A i \in 1..(Len(s) - 1) : Tail(s)[i] = s[i + 1]
OBVIOUS

\* A statement handed over is the newest in both; one refused takes nothing but what
\* was forgotten out of the queue.
LEMMA HandKeepsAllowance ==
    ASSUME HandInv, NEW c \in Calls, Hand(c)
    PROVE  HandInv'
<1>1. /\ AtMost \in Nat \ {0} /\ Within \in Nat /\ 0 \in 0..Within
      /\ Len(handed) \in Nat /\ Len(given) \in Nat /\ Len(handed) <= Len(given)
      /\ Len(handed) <= AtMost /\ Len(given) <= AtMost + 1
      /\ handed \in Seq(0..Within) /\ given \in Seq(0..Within) /\ listening \in BOOLEAN
  BY StatementLogAssumption DEF HandInv, HandsTyped
<1>2. /\ Left \in Seq(0..Within) /\ Len(Left) = Len(handed) - Forgets
      /\ Forgets \in 0..Len(handed)
      /\ \A i \in 1..Len(Left) : Left[i] = given[Len(given) - Len(Left) + i]
      /\ \A i \in 1..(Len(given) - Len(Left)) : given[i] = Within
  BY LeftIsLast
<1>3. \A i, j \in 1..Len(given) : i <= j => given[j] <= given[i]
  BY DEF HandInv
<1>4. listening' = listening
  BY DEF Hand
<1> DEFINE m == Len(Left)  g == Len(given)
<1>5. /\ m \in Nat /\ m <= Len(handed) /\ m = Len(Left)
      /\ g \in Nat /\ g = Len(given) /\ g <= AtMost + 1 /\ m <= g
      /\ \A i \in 1..m : Left[i] = given[g - m + i]
      /\ \A i \in 1..(g - m) : given[i] = Within
      /\ \A i, j \in 1..g : i <= j => given[j] <= given[i]
  BY <1>1, <1>2, <1>3
<1> HIDE DEF m, g
<1>6. CASE UNCHANGED <<handed, given>>
  BY <1>4, <1>6 DEF HandInv, HandsTyped
<1>7. CASE handed' = Left /\ UNCHANGED given
  <2>1. HandsTyped'
    BY <1>1, <1>2, <1>4, <1>5, <1>7 DEF HandsTyped
  <2>2. \A i \in 1..m : handed'[i] = given'[g - m + i]
    BY <1>2, <1>5, <1>7
  <2>3. Len(handed') = m /\ Len(given') = g /\ given' = given
    BY <1>5, <1>7
  <2> QED
    BY <1>5, <2>1, <2>2, <2>3 DEF HandInv
<1>8. CASE /\ Admits /\ handed' = Append(Left, 0)
           /\ given' = Append(IF Len(given) > AtMost THEN Tail(given) ELSE given, 0)
  <2> DEFINE n == IF g > AtMost THEN AtMost ELSE g
  <2>1. m < AtMost /\ n \in Nat /\ n <= AtMost /\ m <= n /\ n <= g
    BY <1>1, <1>5, <1>8 DEF Admits
  <2>0. (g > AtMost => n = AtMost /\ g = AtMost + 1) /\ (g <= AtMost => n = g)
    BY <1>1, <1>5
  <2> HIDE DEF n
  <2>2. PICK s \in Seq(0..Within) : /\ given' = Append(s, 0) /\ Len(s) = n
                                    /\ \A i \in 1..n : s[i] = given[g - n + i]
    <3>1. CASE g > AtMost
      <4>1. g = AtMost + 1 /\ n = AtMost /\ Len(given) > 0 /\ Len(given) - 1 = AtMost
        BY <1>1, <1>5, <2>0, <3>1
      <4>2. Tail(given) \in Seq(0..Within) /\ Len(Tail(given)) = Len(given) - 1
        BY <1>1, <4>1, TailOf
      <4>3. \A i \in 1..(Len(given) - 1) : Tail(given)[i] = given[i + 1]
        BY <1>1, <4>1, TailOf
      <4>4. \A i \in 1..n : Tail(given)[i] = given[g - n + i]
        BY <1>1, <4>1, <4>3
      <4> QED
        BY <1>5, <1>8, <3>1, <4>1, <4>2, <4>4
    <3>2. CASE g <= AtMost
      <4>1. n = g /\ given' = Append(given, 0)
        BY <1>1, <1>5, <1>8, <2>0, <3>2
      <4>2. \A i \in 1..n : given[i] = given[g - n + i]
        BY <1>5, <4>1
      <4> QED
        BY <1>1, <1>5, <4>1, <4>2
    <3>3. g > AtMost \/ g <= AtMost
      BY <1>1, <1>5
    <3> QED
      BY <3>1, <3>2, <3>3
  <2>3. /\ handed' \in Seq(0..Within) /\ Len(handed') = m + 1
        /\ \A i \in 1..m : handed'[i] = Left[i]
        /\ handed'[m + 1] = 0
    BY <1>2, <1>5, <1>8, AgesAppended
  <2>4. /\ given' \in Seq(0..Within) /\ Len(given') = n + 1
        /\ \A i \in 1..n : given'[i] = given[g - n + i]
        /\ given'[n + 1] = 0
    BY <2>2, AgesAppended
  <2>5. HandsTyped' /\ Len(handed') <= Len(given')
    BY <1>1, <1>4, <1>5, <2>1, <2>3, <2>4 DEF HandsTyped
  <2>6. ASSUME NEW i \in 1..Len(given'), NEW j \in 1..Len(given'), i <= j
        PROVE  given'[j] <= given'[i]
    <3>1. \A k \in 1..Len(given') : given'[k] \in 0..Within
      BY <1>1, <2>4
    <3>2. CASE j = n + 1
      BY <1>1, <2>1, <2>4, <2>6, <3>1, <3>2
    <3>3. CASE j \in 1..n
      <4>1. /\ i \in 1..n /\ g - n + i \in 1..g /\ g - n + j \in 1..g
            /\ g - n + i <= g - n + j
        BY <1>5, <2>1, <2>4, <2>6, <3>3
      <4> QED
        BY <1>5, <2>4, <3>3, <4>1
    <3> QED
      BY <2>1, <2>4, <2>6, <3>2, <3>3
  <2>7. ASSUME NEW i \in 1..Len(handed')
        PROVE  handed'[i] = given'[Len(given') - Len(handed') + i]
    <3>1. CASE i = m + 1
      BY <1>5, <2>1, <2>3, <2>4, <3>1
    <3>2. CASE i \in 1..m
      <4>1. n - m + i \in 1..n /\ g - n + (n - m + i) = g - m + i
            /\ Len(given') - Len(handed') + i = n - m + i
        BY <1>5, <2>1, <2>3, <2>4, <3>2
      <4>2. given'[n - m + i] = given[g - m + i]
        BY <2>4, <4>1
      <4> QED
        BY <1>5, <2>3, <3>2, <4>1, <4>2
    <3> QED
      BY <1>5, <2>3, <3>1, <3>2
  <2>8. ASSUME NEW i \in 1..(Len(given') - Len(handed')) PROVE given'[i] = Within
    <3>1. Len(given') - Len(handed') = n - m
      BY <1>5, <2>1, <2>3, <2>4
    <3>2. i \in 1..n /\ g - n + i \in 1..(g - m)
      BY <1>5, <2>1, <3>1
    <3> QED
      BY <1>5, <2>4, <3>2
  <2> QED
    BY <2>5, <2>6, <2>7, <2>8 DEF HandInv
<1> QED
  BY <1>6, <1>7, <1>8 DEF Hand

\* Time goes by for all of them.
LEMMA TickKeepsAllowance ==
    ASSUME HandInv, Tick
    PROVE  HandInv'
<1>1. /\ Within \in Nat
      /\ Len(handed) \in Nat /\ Len(given) \in Nat /\ Len(handed) <= Len(given)
      /\ handed \in Seq(0..Within) /\ given \in Seq(0..Within)
      /\ \A i \in 1..Len(handed) : handed[i] \in 0..Within
      /\ \A i \in 1..Len(given) : given[i] \in 0..Within
  BY StatementLogAssumption DEF HandInv, HandsTyped
<1>2. ASSUME NEW ages \in Seq(0..Within)
      PROVE  /\ Aged(ages) \in Seq(0..Within) /\ Len(Aged(ages)) = Len(ages)
             /\ \A i \in 1..Len(ages) :
                  Aged(ages)[i] = IF ages[i] < Within THEN ages[i] + 1 ELSE ages[i]
  <2>1. Len(ages) \in Nat /\ \A i \in 1..Len(ages) : ages[i] \in 0..Within
    BY <1>1
  <2>2. Aged(ages) = [i \in 1..Len(ages) |-> IF ages[i] < Within THEN ages[i] + 1 ELSE ages[i]]
    BY DEF Aged
  <2>3. \A i \in 1..Len(ages) : (IF ages[i] < Within THEN ages[i] + 1 ELSE ages[i]) \in 0..Within
    BY <1>1, <2>1
  <2> QED
    BY <2>1, <2>2, <2>3
<1>3. /\ handed' \in Seq(0..Within) /\ Len(handed') = Len(handed)
      /\ \A i \in 1..Len(handed) :
           handed'[i] = IF handed[i] < Within THEN handed[i] + 1 ELSE handed[i]
  BY <1>1, <1>2 DEF Tick
<1>4. /\ given' \in Seq(0..Within) /\ Len(given') = Len(given)
      /\ \A i \in 1..Len(given) :
           given'[i] = IF given[i] < Within THEN given[i] + 1 ELSE given[i]
  BY <1>1, <1>2 DEF Tick
<1>5. HandsTyped'
  BY <1>3, <1>4 DEF Tick, HandInv, HandsTyped
<1>6. ASSUME NEW i \in 1..Len(given), NEW j \in 1..Len(given), i <= j
      PROVE  given'[j] <= given'[i]
  <2>1. given[j] <= given[i] /\ given[i] \in 0..Within /\ given[j] \in 0..Within
    BY <1>1, <1>6 DEF HandInv
  <2> QED
    BY <1>1, <1>4, <2>1
<1>7. ASSUME NEW i \in 1..Len(handed) PROVE handed'[i] = given'[Len(given) - Len(handed) + i]
  <2>1. Len(given) - Len(handed) + i \in 1..Len(given)
    BY <1>1
  <2>2. handed[i] = given[Len(given) - Len(handed) + i]
    BY DEF HandInv
  <2> QED
    BY <1>3, <1>4, <2>1, <2>2
<1>8. ASSUME NEW i \in 1..(Len(given) - Len(handed)) PROVE given'[i] = Within
  <2>1. i \in 1..Len(given) /\ given[i] = Within
    BY <1>1 DEF HandInv
  <2> QED
    BY <1>1, <1>4, <2>1
<1> QED
  BY <1>1, <1>3, <1>4, <1>5, <1>6, <1>7, <1>8 DEF HandInv

-----------------------------------------------------------------------------
(* The log and the handoffs, step by step *)

CountedInv == LogInv /\ HandInv /\ cancelled \subseteq Calls

\* With nothing recorded or handed over, the counts are right.
LEMMA CountedInit == Init => CountedInv
<1> SUFFICES ASSUME Init PROVE CountedInv
  OBVIOUS
<1>1. /\ AtMost \in Nat /\ Within \in Nat /\ history = <<>> /\ handed = <<>> /\ given = <<>>
      /\ conns = Connections /\ count = [x \in Connections |-> 0] /\ DOMAIN history = {}
  BY StatementLogAssumption DEF Init
<1>2. HandInv
  <2>1. handed \in Seq(0..Within) /\ given \in Seq(0..Within) /\ Len(handed) = 0 /\ Len(given) = 0
    <3>1. handed = <<>> /\ given = <<>>
      BY <1>1
    <3> QED
      BY <3>1
  <2>2. listening \in BOOLEAN /\ 0 <= AtMost /\ 0 <= AtMost + 1
    <3>1. AtMost \in Nat
      BY StatementLogAssumption
    <3>2. 0 <= AtMost /\ 0 <= AtMost + 1
      BY <3>1
    <3>3. listening = FALSE
      BY DEF Init
    <3> QED
      BY <3>2, <3>3
  <2>3. HandsTyped
    BY <2>1, <2>2 DEF HandsTyped
  <2> QED
    BY <2>1, <2>3 DEF HandInv
<1>3. \A x \in Connections : Of(history, x) = {} /\ count[x] = 0
  BY <1>1 DEF Of
<1>4. LogInv
  BY <1>1, <1>3 DEF LogInv, LogTyped, Table, InStep, Gapless
<1> QED
  BY <1>2, <1>4 DEF CountedInv, Init

\* Only recording and deleting write the log, only handing over and time the queue.
LEMMA CountedStep == SlInv /\ CountedInv /\ [Next]_vars => CountedInv'
<1> SUFFICES ASSUME SlInv, CountedInv, [Next]_vars PROVE CountedInv'
  OBVIOUS
<1>1. UNCHANGED log => LogInv'
  BY DEF log, CountedInv, LogInv, LogTyped, Table, InStep, Gapless, Of
<1>2. UNCHANGED hands => HandInv'
  BY DEF hands, CountedInv, HandInv, HandsTyped
<1>3. ASSUME NEW c \in Calls, UNCHANGED cancelled \/ Over(c) PROVE cancelled' \subseteq Calls
  BY <1>3 DEF CountedInv, Over
<1>4. ASSUME NEW c \in Calls,
             \/ ReaderAsks(c) \/ Register(c) \/ AgentAsks(c) \/ Session(c) \/ Answered(c)
             \/ Interrupted(c) \/ TimedOut(c) \/ CutOff(c) \/ Find(c)
      PROVE  CountedInv'
  <2>1. UNCHANGED log /\ UNCHANGED hands /\ (UNCHANGED cancelled \/ Over(c))
    BY <1>4 DEF ReaderAsks, Register, AgentAsks, Session, Answered, Interrupted, TimedOut, CutOff,
                Find, Ran, log, hands
  <2> QED
    BY <1>1, <1>2, <1>3, <2>1 DEF CountedInv
<1>5. ASSUME NEW c \in Calls, Record(c) PROVE CountedInv'
  <2>1. UNCHANGED hands /\ UNCHANGED conns /\ Over(c)
    BY <1>5 DEF Record, hands
  <2>2. CASE UNCHANGED <<history, count>>
    BY <1>1, <1>2, <1>3, <2>1, <2>2 DEF CountedInv, log
  <2>3. CASE ~UNCHANGED <<history, count>>
    <3> DEFINE x == call[c].conn
    <3>1. /\ x \in conns /\ count' = [count EXCEPT ![x] = @ + 1]
          /\ \E id \in 1..MaxRecords :
                /\ NextId(id)
                /\ history' = Pruned([i \in DOMAIN history \cup {id} |->
                     IF i = id THEN [conn |-> x, nth |-> count[x] + 1] ELSE history[i]], x)
      BY <1>5, <2>3 DEF Record
    <3> HIDE DEF x
    <3>2. LogInv'
      BY <2>1, <3>1, RecordKeepsLog DEF CountedInv
    <3> QED
      BY <1>2, <1>3, <2>1, <3>2 DEF CountedInv
  <2> QED
    BY <2>2, <2>3
<1>6. ASSUME NEW c \in Calls, Hand(c) PROVE CountedInv'
  <2>1. HandInv' /\ UNCHANGED log /\ (UNCHANGED cancelled \/ Over(c))
    BY <1>6, HandKeepsAllowance DEF CountedInv, Hand, log
  <2> QED
    BY <1>1, <1>3, <2>1 DEF CountedInv
<1>7. ASSUME NEW i \in Ids, Cancel(i) PROVE CountedInv'
  <2>1. UNCHANGED log /\ UNCHANGED hands /\ cancelled' = cancelled \cup {running[i]} /\ running[i] \in Calls
    BY <1>7 DEF Cancel, log, hands, SlInv, CallsTyped
  <2> QED
    BY <1>1, <1>2, <2>1 DEF CountedInv
<1>8. ASSUME NEW x \in Connections, Delete(x) PROVE CountedInv'
  <2>1. LogInv'
    BY <1>8, DeleteKeepsLog DEF CountedInv
  <2>2. UNCHANGED hands /\ UNCHANGED cancelled
    BY <1>8 DEF Delete, asked
  <2> QED
    BY <1>2, <2>1, <2>2 DEF CountedInv
<1>9. CASE Listen
  <2>1. listening' \in BOOLEAN /\ UNCHANGED <<handed, given>> /\ UNCHANGED log /\ UNCHANGED cancelled
    BY <1>9 DEF Listen, asked, log
  <2> QED
    BY <1>1, <2>1 DEF CountedInv, HandInv, HandsTyped
<1>10. CASE Tick
  <2>1. UNCHANGED log /\ UNCHANGED cancelled
    BY <1>10 DEF Tick, asked, log
  <2> QED
    BY <1>1, <1>10, <2>1, TickKeepsAllowance DEF CountedInv
<1>11. CASE UNCHANGED vars
  <2>1. UNCHANGED log /\ UNCHANGED hands /\ UNCHANGED cancelled
    BY <1>11 DEF vars, asked
  <2> QED
    BY <1>1, <1>2, <2>1 DEF CountedInv
<1> QED
  BY <1>4, <1>5, <1>6, <1>7, <1>8, <1>9, <1>10, <1>11 DEF Next

\* What the log and the queue hold is what was recorded and handed over.
LEMMA CountedFollows == SlInv /\ CountedInv => Counted
<1> SUFFICES ASSUME SlInv, CountedInv PROVE Counted
  OBVIOUS
<1>1. TypeOK
  <2>1. \A c \in Calls : call[c] = Idle \/ call[c] \in Asked
    BY DEF SlInv, CallsTyped
  <2>2. running \in [Ids -> Calls \cup {None}] /\ \A i \in Ids : running[i] # None => call[running[i]].id = i
    BY DEF SlInv, CallsTyped, TakenByCalls
  <2> QED
    BY <2>1, <2>2 DEF TypeOK, Asked, CountedInv, LogInv, LogTyped, Table, HandInv, HandsTyped
<1>2. ASSUME NEW x \in Connections, NEW limit \in {Keep, Recent}
      PROVE  Listed(x, limit) = {n \in 1..count[x] : count[x] < n + limit /\ count[x] < n + Keep}
  <2>1. /\ count[x] \in Nat /\ Keep \in Nat /\ limit \in Nat
        /\ Table(history) /\ Gapless(history, x, count[x], Keep)
    BY StatementLogAssumption DEF CountedInv, LogInv, LogTyped
  <2> QED
    BY <2>1, NewestCounted DEF Listed
<1>3. NewestKept
  BY <1>2 DEF NewestKept, CountedInv, LogInv, Table, InStep
<1> QED
  BY <1>1, <1>3, AllowanceFollows DEF Counted, CountedInv

\* For any connections, runs, calls and limits: the log keeps and lists exactly the last
\* runs of each connection (record, prune, list, query_history), although ids are given
\* again once a connection is deleted; and an agent is refused a handoff exactly when
\* AT_MOST were made in the last WITHIN (Handed::admit).
THEOREM CountedRightly == Spec => []Counted
<1>1. Spec => []CountedInv
  BY SlKept, CountedInit, CountedStep, PTL DEF Spec
<1> QED
  BY <1>1, SlKept, CountedFollows, PTL

=============================================================================
