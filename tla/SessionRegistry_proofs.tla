----------------------- MODULE SessionRegistry_proofs -----------------------
(***************************************************************************)
(* What holds of the session registry for any number of connections,       *)
(* callers and writers.                                                    *)
(***************************************************************************)
EXTENDS SessionRegistry, TLAPS

-----------------------------------------------------------------------------
(* Type correctness *)

\* One step of a caller or of a writer, whichever it is.
CallerStep(c) ==
    Get(c) \/ GiveUp(c) \/ \E id \in Ids, whose \in Whose : Ask(c, id, whose)

WriterStep(w) ==
    \/ Write(w)
    \/ \E op \in {"create", "edit"}, id \in Ids, new \in Rows, password \in Secrets :
         Save(w, op, id, new, password)
    \/ \E id \in Ids : Delete(w, id)

\* The types at the start.
LEMMA TypeInit == Init => TypeOK
BY DEF Init, TypeOK, ReadsKept, Jobs, Rest, Whose, Secrets

\* A get that ends leaves nothing of itself behind but its answer.
LEMMA TypeReturn ==
    ASSUME TypeOK, NEW c \in Callers, NEW session \in Sessions \cup {None}, Return(c, session),
           open' \in [Ids \X Whose -> Sessions \cup {None}],
           UNCHANGED <<stores, closes, writing>>
    PROVE  TypeOK'
BY DEF TypeOK, ReadsKept, Return, Forget, stores, writing

\* Every step of a get, and a caller giving up, keeps the types.
LEMMA TypeCaller ==
    ASSUME TypeOK, NEW c \in Callers, CallerStep(c)
    PROVE  TypeOK'
<1> USE DEF TypeOK, stores, writing, Forget
<1>1. CASE Peek(c)
  <2>1. want[c] \in Ids \X Whose /\ want[c][1] \in Ids
    OBVIOUS
  <2>2. CASE open[want[c]] # None
    <3>1. open[want[c]] \in Sessions \cup {None} /\ Return(c, open[want[c]])
      BY <1>1, <2>1, <2>2 DEF Peek
    <3> QED
      BY <1>1, <3>1, TypeReturn DEF Peek
  <2>3. CASE open[want[c]] = None
    BY <1>1, <2>1, <2>3 DEF Peek, ReadsKept
  <2> QED
    BY <2>2, <2>3
<1>2. CASE FindRow(c)
  <2> DEFINE read == row[want[c][1]]
  <2>1. read \in Rows \cup {None}
    BY DEF Whose
  <2>2. read \in Rows => Made(c, read, None) \in Sessions
    BY DEF Made, Sessions, Secrets, Rows, Drivers
  <2> HIDE DEF read
  <2>3. CASE read = None
    <3>1. Return(c, None) /\ UNCHANGED <<stores, open, closes, writing>>
      BY <1>2, <2>3 DEF FindRow, read
    <3> QED
      BY <3>1, TypeReturn
  <2>4. CASE read # None
    <3> DEFINE opened == IF read.driver = "Postgres" THEN None ELSE Made(c, read, None)
    <3>1. opened \in Sessions \cup {None} /\ (opened = None => read.driver = "Postgres")
      BY <2>1, <2>2, <2>4, NoneAssumption
    <3>2. /\ pc' = [pc EXCEPT ![c] = IF read.driver = "Postgres" THEN "secret" ELSE "land"]
          /\ found' = [found EXCEPT ![c] = read]
          /\ made' = [made EXCEPT ![c] = opened]
          /\ UNCHANGED <<stores, open, closes, want, seen, answer, writing>>
      BY <1>2, <2>4 DEF FindRow, read
    <3> HIDE DEF opened
    <3> QED
      BY <1>2, <2>1, <2>4, <3>1, <3>2 DEF FindRow, ReadsKept
  <2> QED
    BY <2>3, <2>4
<1>3. CASE ReadSecret(c)
  <2> DEFINE password == secret[want[c][1]]
             opened == Made(c, found[c], password)
  <2>1. pc[c] = "secret" /\ found[c] \in Rows
    BY <1>3 DEF ReadSecret, ReadsKept
  <2>2. opened \in Sessions /\ opened # None
    <3>1. opened \in Sessions
      BY <2>1 DEF Made, Sessions, Secrets, Rows, Drivers, Whose
    <3> QED
      BY <3>1, NoneAssumption
  <2>3. CASE password = None
    <3>1. Return(c, None) /\ UNCHANGED <<stores, open, closes, writing>>
      BY <1>3, <2>3 DEF ReadSecret
    <3> QED
      BY <3>1, TypeReturn
  <2>4. CASE password # None
    <3>1. /\ pc' = [pc EXCEPT ![c] = "land"]
          /\ made' = [made EXCEPT ![c] = opened]
          /\ UNCHANGED <<stores, open, closes, want, seen, found, answer, writing>>
      BY <1>3, <2>4 DEF ReadSecret
    <3> HIDE DEF opened
    <3> QED
      BY <2>2, <3>1 DEF ReadsKept
  <2> QED
    BY <2>3, <2>4
<1>4. CASE ReadFails(c)
  BY <1>4, TypeReturn DEF ReadFails
<1>5. CASE Land(c)
  <2>1. CASE closes[want[c][1]] # seen[c]
    <3>1. /\ pc' = [pc EXCEPT ![c] = "peek"] /\ Forget(c)
          /\ UNCHANGED <<stores, open, closes, want, answer, writing>>
      BY <1>5, <2>1 DEF Land, RetriesFrom
    <3> QED
      BY <3>1 DEF ReadsKept
  <2>2. CASE closes[want[c][1]] = seen[c]
    <3> DEFINE landed == IF open[want[c]] = None THEN made[c] ELSE open[want[c]]
    <3>1. landed \in Sessions \cup {None}
      OBVIOUS
    <3>2. /\ open' = [open EXCEPT ![want[c]] = landed]
          /\ Return(c, landed) /\ UNCHANGED <<stores, closes, writing>>
      BY <1>5, <2>2 DEF Land, Landed
    <3> HIDE DEF landed
    <3> QED
      BY <3>1, <3>2, TypeReturn
  <2> QED
    BY <2>1, <2>2
<1>6. CASE GiveUp(c)
  BY <1>6 DEF GiveUp, ReadsKept
<1>7. CASE \E id \in Ids, whose \in Whose : Ask(c, id, whose)
  BY <1>7 DEF Ask, ReadsKept
<1> QED
  BY <1>1, <1>2, <1>3, <1>4, <1>5, <1>6, <1>7 DEF CallerStep, Get

\* So does every step of a save or a delete.
LEMMA TypeWriter ==
    ASSUME TypeOK, NEW w \in Writers, WriterStep(w)
    PROVE  TypeOK'
<1> USE DEF TypeOK, ReadsKept, stores, getting, Jobs, Rest, Secrets
<1>1. CASE Check(w)
  BY <1>1 DEF Check
<1>2. CASE WriteRow(w)
  BY <1>2 DEF WriteRow
<1>3. CASE WriteSecret(w)
  BY <1>3 DEF WriteSecret, SecretAfter
<1>4. CASE Commit(w)
  BY <1>4 DEF Commit
<1>5. CASE WriteFails(w)
  BY <1>5 DEF WriteFails, RollBack
<1>6. CASE CommitFails(w)
  BY <1>6 DEF CommitFails, RollBack
<1>7. CASE Close(w)
  BY <1>7 DEF Close, Counted
<1>8. CASE \E op \in {"create", "edit"}, id \in Ids, new \in Rows, password \in Secrets :
            Save(w, op, id, new, password)
  BY <1>8 DEF Save
<1>9. CASE \E id \in Ids : Delete(w, id)
  BY <1>9 DEF Delete
<1> QED
  BY <1>1, <1>2, <1>3, <1>4, <1>5, <1>6, <1>7, <1>8, <1>9 DEF WriterStep, Write

\* The variables keep their types in every behaviour.
THEOREM TypeCorrect == Spec => []TypeOK
<1>1. TypeOK /\ [Next]_vars => TypeOK'
  <2> SUFFICES ASSUME TypeOK, [Next]_vars PROVE TypeOK'
    OBVIOUS
  <2>1. CASE Next
    BY <2>1, TypeCaller, TypeWriter DEF Next, CallerStep, WriterStep
  <2>2. CASE UNCHANGED vars
    BY <2>2 DEF vars, stores, getting, writing, TypeOK, ReadsKept
  <2> QED
    BY <2>1, <2>2
<1> QED
  BY <1>1, TypeInit, PTL DEF Spec

-----------------------------------------------------------------------------
(* Sessions are current *)

Creating(w) == job[w].op = "create" /\ doing[w] \in {"check", "begun", "locked", "stored"}

\* A connection is known once its row was committed, and everything that has
\* to do with a row concerns a known connection.
KnownIds ==
    /\ \A id \in Ids : row[id] # None => id \in listed
    /\ \A key \in Ids \X Whose : open[key] # None => key[1] \in listed
    /\ \A c \in Callers : pc[c] # "idle" => want[c][1] \in listed

\* A connection being made is known to its writer alone, so that writer may
\* fail without closing it.
CreatedAlone ==
    \A w \in Writers : Creating(w) =>
        /\ job[w].id \notin listed
        /\ \A v \in Writers \ {w} : doing[v] # "idle" => job[v].id # job[w].id

\* The closes a caller remembers are not from the future.
ClosesSeen ==
    \A c \in Callers : pc[c] \in {"find", "secret", "land"} => seen[c] <= closes[want[c][1]]

\* What was read of a connection is current: nothing may have changed since,
\* or a close is still to come.
RowCurrent(read, id)     == row[id] = read \/ Changing(id)
SessionCurrent(opened, id) == Opens(opened, id) \/ Changing(id)

\* What a caller has read is current if no close overtook it.
ReadCurrent ==
    \A c \in Callers : seen[c] = closes[want[c][1]] =>
        /\ pc[c] = "secret"
            => found[c].driver = "Postgres" /\ RowCurrent(found[c], want[c][1])
        /\ pc[c] = "land" => SessionCurrent(made[c], want[c][1])

Known == KnownIds /\ CreatedAlone
IInv  == TypeOK /\ Known /\ ClosesSeen /\ ReadCurrent /\ SessionsCurrent

\* No session is registered and nothing is being read at the start.
LEMMA InvInit == Init => IInv
<1> SUFFICES ASSUME Init PROVE IInv
  OBVIOUS
<1>1. TypeOK
  BY TypeInit
<1>2. Known
  BY DEF Init, Known, KnownIds, CreatedAlone, Creating
<1>3. ClosesSeen /\ ReadCurrent /\ SessionsCurrent
  BY DEF Init, ClosesSeen, ReadCurrent, SessionsCurrent
<1> QED
  BY <1>1, <1>2, <1>3 DEF IInv

\* A caller changes nothing of what the stores hold or the writers do.
LEMMA CallerReads ==
    ASSUME NEW c \in Callers, CallerStep(c)
    PROVE  UNCHANGED <<stores, closes, writing>>
BY DEF CallerStep, Get, Peek, FindRow, ReadSecret, ReadFails, Land, GiveUp, Ask

\* So what was current stays so.
LEMMA CallerKeepsCurrent ==
    ASSUME UNCHANGED <<stores, closes, writing>>
    PROVE  /\ \A id, read : RowCurrent(read, id)' <=> RowCurrent(read, id)
           /\ \A id, opened : SessionCurrent(opened, id)' <=> SessionCurrent(opened, id)
BY DEF stores, writing, RowCurrent, SessionCurrent, Opens, Changing

\* A get that ends keeps the invariant, if what is registered after it was
\* registered before or is current.
LEMMA ReturnKeeps ==
    ASSUME IInv, NEW c \in Callers, NEW session, Return(c, session),
           UNCHANGED <<stores, closes, writing>>, TypeOK',
           \A key \in Ids \X Whose : open'[key] # None =>
               \/ open'[key] = open[key]
               \/ key[1] \in listed /\ SessionCurrent(open'[key], key[1])
    PROVE  IInv'
<1> USE DEF IInv, Known
<1>1. \A x \in Callers : x # c =>
        /\ pc'[x] = pc[x] /\ want'[x] = want[x] /\ seen'[x] = seen[x]
        /\ found'[x] = found[x] /\ made'[x] = made[x]
  BY DEF Return, Forget, TypeOK
<1>2. pc'[c] = "idle" /\ want' = want
  BY DEF Return, TypeOK
<1>3. KnownIds'
  BY <1>1, <1>2 DEF KnownIds, stores
<1>4. CreatedAlone'
  BY DEF CreatedAlone, Creating, stores, writing
<1>5. ClosesSeen'
  BY <1>1, <1>2 DEF ClosesSeen
<1>6. ReadCurrent'
  BY <1>1, <1>2, CallerKeepsCurrent DEF ReadCurrent
<1>7. SessionsCurrent'
  BY CallerKeepsCurrent DEF SessionsCurrent, SessionCurrent
<1> QED
  BY <1>3, <1>4, <1>5, <1>6, <1>7

\* A caller that goes on, having registered nothing, keeps the invariant if
\* what it has read is current.
LEMMA GoesOnKeeps ==
    ASSUME IInv, NEW c \in Callers, UNCHANGED <<stores, closes, writing, open>>, TypeOK',
           want'[c][1] \in listed,
           \A x \in Callers : x # c =>
               /\ pc'[x] = pc[x] /\ want'[x] = want[x] /\ seen'[x] = seen[x]
               /\ found'[x] = found[x] /\ made'[x] = made[x],
           pc'[c] \in {"find", "secret", "land"} => seen'[c] <= closes[want'[c][1]],
           seen'[c] = closes[want'[c][1]] =>
               /\ pc'[c] = "secret" => /\ found'[c].driver = "Postgres"
                                       /\ RowCurrent(found'[c], want'[c][1])
               /\ pc'[c] = "land" => SessionCurrent(made'[c], want'[c][1])
    PROVE  IInv'
<1> USE DEF IInv, Known
<1>1. KnownIds' /\ CreatedAlone' /\ ClosesSeen'
  BY DEF KnownIds, CreatedAlone, Creating, ClosesSeen, stores, writing
<1>2. ReadCurrent'
  BY CallerKeepsCurrent DEF ReadCurrent
<1>3. SessionsCurrent'
  BY CallerKeepsCurrent DEF SessionsCurrent, SessionCurrent
<1> QED
  BY <1>1, <1>2, <1>3

\* Every step of a get, and a caller giving up, keeps the invariant.
LEMMA InvCaller ==
    ASSUME IInv, NEW c \in Callers, CallerStep(c)
    PROVE  IInv'
<1>1. TypeOK /\ TypeOK' /\ UNCHANGED <<stores, closes, writing>>
  BY TypeCaller, CallerReads DEF IInv
<1>2. want[c] \in Ids \X Whose /\ want[c][1] \in Ids /\ closes[want[c][1]] \in Nat
  BY <1>1 DEF TypeOK
<1>3. pc[c] # "idle" => want[c][1] \in listed
  BY DEF IInv, Known, KnownIds
<1>4. CASE Peek(c)
  <2>1. CASE open[want[c]] # None
    <3>1. Return(c, open[want[c]]) /\ UNCHANGED open
      BY <1>4, <2>1 DEF Peek
    <3> QED
      BY <1>1, <3>1, ReturnKeeps
  <2>2. CASE open[want[c]] = None
    <3>1. /\ pc[c] = "peek" /\ pc' = [pc EXCEPT ![c] = "find"]
          /\ seen' = [seen EXCEPT ![c] = closes[want[c][1]]]
          /\ UNCHANGED <<open, want, found, made, answer>>
      BY <1>4, <2>2 DEF Peek
    <3>2. \A x \in Callers : x # c =>
               /\ pc'[x] = pc[x] /\ want'[x] = want[x] /\ seen'[x] = seen[x]
               /\ found'[x] = found[x] /\ made'[x] = made[x]
      BY <1>1, <3>1 DEF TypeOK
    <3>3. /\ pc'[c] = "find" /\ want'[c][1] \in listed
          /\ seen'[c] = closes[want'[c][1]] /\ closes[want'[c][1]] \in Nat
      BY <1>1, <1>2, <1>3, <3>1 DEF TypeOK
    <3>4. UNCHANGED <<stores, closes, writing, open>>
      BY <1>1, <3>1
    <3>5. seen'[c] <= closes[want'[c][1]]
      BY <3>3
    <3> QED
      BY <1>1, <3>2, <3>3, <3>4, <3>5, GoesOnKeeps
  <2> QED
    BY <2>1, <2>2
<1>5. CASE FindRow(c)
  <2> DEFINE read == row[want[c][1]]
  <2>1. CASE read = None
    <3>1. Return(c, None) /\ UNCHANGED open
      BY <1>5, <2>1 DEF FindRow
    <3> QED
      BY <1>1, <3>1, ReturnKeeps
  <2>2. CASE read # None
    <3>1. pc[c] = "find" /\ UNCHANGED <<open, want, seen>>
      BY <1>5, <2>2 DEF FindRow
    <3>2. seen[c] <= closes[want[c][1]]
      BY <3>1 DEF IInv, ClosesSeen
    <3>3. found' = [found EXCEPT ![c] = read]
      BY <1>5, <2>2 DEF FindRow
    <3>4. CASE read.driver = "Postgres"
      <4>1. /\ pc' = [pc EXCEPT ![c] = "secret"]
            /\ made' = [made EXCEPT ![c] = None]
        BY <1>5, <2>2, <3>4 DEF FindRow
      <4>2. RowCurrent(read, want[c][1])
        BY DEF RowCurrent
      <4> QED
        BY <1>1, <1>3, <3>1, <3>2, <3>3, <3>4, <4>1, <4>2, GoesOnKeeps DEF TypeOK
    <3>5. CASE read.driver # "Postgres"
      <4>1. /\ pc' = [pc EXCEPT ![c] = "land"]
            /\ made' = [made EXCEPT ![c] = Made(c, read, None)]
        BY <1>5, <2>2, <3>5 DEF FindRow
      <4>2. SessionCurrent(Made(c, read, None), want[c][1])
        BY <2>2, <3>5 DEF SessionCurrent, Opens, Made
      <4> QED
        BY <1>1, <1>3, <3>1, <3>2, <3>3, <4>1, <4>2, GoesOnKeeps DEF TypeOK
    <3> QED
      BY <3>4, <3>5
  <2> QED
    BY <2>1, <2>2
<1>6. CASE ReadSecret(c)
  <2> DEFINE password == secret[want[c][1]]
  <2>1. CASE password = None
    <3>1. Return(c, None) /\ UNCHANGED open
      BY <1>6, <2>1 DEF ReadSecret
    <3> QED
      BY <1>1, <3>1, ReturnKeeps
  <2>2. CASE password # None
    <3>1. /\ pc[c] = "secret" /\ UNCHANGED <<open, want, seen, found>>
          /\ pc' = [pc EXCEPT ![c] = "land"]
          /\ made' = [made EXCEPT ![c] = Made(c, found[c], password)]
      BY <1>6, <2>2 DEF ReadSecret
    <3>2. seen[c] <= closes[want[c][1]]
      BY <3>1 DEF IInv, ClosesSeen
    <3>3. seen[c] = closes[want[c][1]] =>
            SessionCurrent(Made(c, found[c], password), want[c][1])
      <4> SUFFICES ASSUME seen[c] = closes[want[c][1]], ~Changing(want[c][1])
                   PROVE  Opens(Made(c, found[c], password), want[c][1])
        BY DEF SessionCurrent
      <4>1. row[want[c][1]] = found[c] /\ found[c].driver = "Postgres"
        BY <3>1 DEF IInv, ReadCurrent, RowCurrent
      <4>2. found[c] # None
        BY <1>1, <3>1 DEF TypeOK, ReadsKept
      <4> QED
        BY <4>1, <4>2 DEF Opens, Made
    <3> QED
      BY <1>1, <1>3, <3>1, <3>2, <3>3, GoesOnKeeps DEF TypeOK
  <2> QED
    BY <2>1, <2>2
<1>7. CASE ReadFails(c)
  <2>1. Return(c, None) /\ UNCHANGED open
    BY <1>7 DEF ReadFails
  <2> QED
    BY <1>1, <2>1, ReturnKeeps
<1>8. CASE Land(c)
  <2> DEFINE landed == IF open[want[c]] = None THEN made[c] ELSE open[want[c]]
  <2>1. CASE closes[want[c][1]] # seen[c]
    <3>1. /\ pc[c] = "land" /\ pc' = [pc EXCEPT ![c] = "peek"] /\ Forget(c)
          /\ UNCHANGED <<open, want, answer>>
      BY <1>8, <2>1 DEF Land, RetriesFrom
    <3> QED
      BY <1>1, <1>3, <3>1, GoesOnKeeps DEF Forget, TypeOK
  <2>2. CASE closes[want[c][1]] = seen[c]
    <3>1. pc[c] = "land" /\ open' = [open EXCEPT ![want[c]] = landed] /\ Return(c, landed)
      BY <1>8, <2>2 DEF Land, Landed
    <3>2. SessionCurrent(made[c], want[c][1])
      BY <2>2, <3>1 DEF IInv, ReadCurrent
    <3>3. \A key \in Ids \X Whose : open'[key] # None =>
            \/ open'[key] = open[key]
            \/ key[1] \in listed /\ SessionCurrent(open'[key], key[1])
      BY <1>1, <1>2, <1>3, <3>1, <3>2 DEF TypeOK
    <3> HIDE DEF landed
    <3> QED
      BY <1>1, <3>1, <3>3, ReturnKeeps
  <2> QED
    BY <2>1, <2>2
<1>9. CASE GiveUp(c)
  <2>1. /\ UNCHANGED <<pc, want, seen, found, made>>
        /\ open' = [open EXCEPT ![want[c]] = None]
    BY <1>9 DEF GiveUp
  <2>2. \A key \in Ids \X Whose : open'[key] # None => open'[key] = open[key]
    BY <1>1, <1>2, <2>1 DEF TypeOK
  <2> QED
    BY <1>1, <2>1, <2>2, CallerKeepsCurrent
    DEF IInv, Known, KnownIds, CreatedAlone, Creating, ClosesSeen, ReadCurrent,
        SessionsCurrent, SessionCurrent, TypeOK, stores, writing
<1>10. CASE \E id \in Ids, whose \in Whose : Ask(c, id, whose)
  <2> PICK id \in Ids, whose \in Whose : Ask(c, id, whose)
    BY <1>10
  <2>1. /\ id \in listed
        /\ pc' = [pc EXCEPT ![c] = "peek"]
        /\ want' = [want EXCEPT ![c] = <<id, whose>>]
        /\ UNCHANGED <<open, seen, found, made>>
    BY DEF Ask
  <2>2. pc'[c] = "peek" /\ want'[c] = <<id, whose>> /\ want'[c][1] = id
    BY <1>1, <2>1 DEF TypeOK
  <2> QED
    BY <1>1, <2>1, <2>2, GoesOnKeeps DEF TypeOK
<1> QED
  BY <1>4, <1>5, <1>6, <1>7, <1>8, <1>9, <1>10 DEF CallerStep, Get

\* A writer's step short of its close, as far as callers can tell.
Silent == UNCHANGED <<open, closes, getting>>

\* Of a known connection, what was current stays current.
StaysCurrent ==
    \A id \in listed :
        /\ \A read : read # None /\ RowCurrent(read, id) => RowCurrent(read, id)'
        /\ \A opened : SessionCurrent(opened, id) => SessionCurrent(opened, id)'

\* Where what was current stays so, a step outside the registry keeps the invariant.
LEMMA SilentKeeps ==
    ASSUME IInv, TypeOK', Known', Silent, StaysCurrent
    PROVE  IInv'
<1> USE DEF IInv, Known, Silent, getting
<1>1. ClosesSeen'
  BY DEF ClosesSeen
<1>2. ReadCurrent'
  <2> SUFFICES ASSUME NEW c \in Callers, (seen[c] = closes[want[c][1]])'
               PROVE  /\ (pc[c] = "secret" => /\ found[c].driver = "Postgres"
                                              /\ RowCurrent(found[c], want[c][1]))'
                      /\ (pc[c] = "land" => SessionCurrent(made[c], want[c][1]))'
    BY DEF ReadCurrent
  <2>1. pc[c] # "idle" => want[c][1] \in listed
    BY DEF KnownIds
  <2>2. pc[c] = "secret" => found[c] # None
    BY DEF TypeOK, ReadsKept
  <2> QED
    BY <2>1, <2>2 DEF ReadCurrent, StaysCurrent
<1>3. SessionsCurrent'
  <2> SUFFICES ASSUME NEW key \in Ids \X Whose, open[key] # None
               PROVE  SessionCurrent(open[key], key[1])'
    BY DEF SessionsCurrent, SessionCurrent
  <2>1. key[1] \in listed /\ SessionCurrent(open[key], key[1])
    BY DEF KnownIds, SessionsCurrent, SessionCurrent
  <2>2. SessionCurrent(open[key], key[1])'
    BY <2>1 DEF StaysCurrent
  <2> QED
    BY <2>2
<1> QED
  BY <1>1, <1>2, <1>3

\* A step that leaves the stores alone, and no writer's close undone, leaves
\* current what was.
LEMMA StoresAlone ==
    ASSUME UNCHANGED <<row, secret>>, \A id \in listed : Changing(id) => Changing(id)'
    PROVE  StaysCurrent
BY DEF StaysCurrent, RowCurrent, SessionCurrent, Opens

\* One that changes the stores of one connection alone does too, if that
\* connection's close is to come or nobody knows it.
LEMMA OneStoreChanged ==
    ASSUME NEW i \in Ids, i \notin listed \/ Changing(i)',
           \A id \in Ids \ {i} : row'[id] = row[id] /\ secret'[id] = secret[id],
           \A id \in listed : Changing(id) => Changing(id)', listed \subseteq Ids
    PROVE  StaysCurrent
BY DEF StaysCurrent, RowCurrent, SessionCurrent, Opens

\* A writer that goes on with its job, its stores untouched, keeps the
\* invariant.
LEMMA GoesOnWriting ==
    ASSUME IInv, TypeOK', NEW w \in Writers, NEW d,
           doing[w] \in {"check", "begun", "locked"}, d # "idle",
           doing' = [doing EXCEPT ![w] = d],
           UNCHANGED <<row, secret, listed, job>>, Silent
    PROVE  IInv'
<1>1. doing \in [Writers -> {"idle", "check", "begun", "locked", "stored", "closing"}]
  BY DEF IInv, TypeOK
<1>2. KnownIds'
  BY DEF IInv, Known, KnownIds, Silent, getting
<1>3. CreatedAlone'
  BY <1>1 DEF IInv, Known, CreatedAlone, Creating
<1>4. StaysCurrent
  BY <1>1, StoresAlone DEF Changing
<1> QED
  BY <1>2, <1>3, <1>4, SilentKeeps DEF Known

\* A writer that starts on a connection keeps the invariant.
LEMMA StartsWriting ==
    ASSUME IInv, TypeOK', NEW w \in Writers, NEW d \in {"check", "begun"}, NEW j \in Jobs,
           doing[w] = "idle",
           IF j.op = "create" THEN Unused(j.id) ELSE j.id \in listed,
           doing' = [doing EXCEPT ![w] = d], job' = [job EXCEPT ![w] = j],
           UNCHANGED stores, Silent
    PROVE  IInv'
<1>1. /\ doing \in [Writers -> {"idle", "check", "begun", "locked", "stored", "closing"}]
      /\ job \in [Writers -> Jobs]
  BY DEF IInv, TypeOK
<1>2. KnownIds'
  BY DEF IInv, Known, KnownIds, Silent, getting, stores
<1>3. CreatedAlone'
  BY <1>1 DEF IInv, Known, CreatedAlone, Creating, Unused, stores
<1>4. StaysCurrent
  BY <1>1, StoresAlone DEF Changing, stores
<1> QED
  BY <1>2, <1>3, <1>4, SilentKeeps DEF Known

\* A writer that rolls its row back keeps the invariant: its close is still to
\* come, or nobody knows the connection it was making.
LEMMA RollBackKeeps ==
    ASSUME IInv, TypeOK', NEW w \in Writers, doing[w] \in {"check", "begun", "locked", "stored"},
           \A id \in Ids \ {job[w].id} : secret'[id] = secret[id],
           RollBack(w)
    PROVE  IInv'
<1>1. /\ doing \in [Writers -> {"idle", "check", "begun", "locked", "stored", "closing"}]
      /\ job \in [Writers -> Jobs] /\ job[w].id \in Ids /\ listed \subseteq Ids
      /\ Silent /\ UNCHANGED <<row, listed>>
  BY DEF IInv, TypeOK, RollBack, Silent, Jobs
<1>2. \A v \in Writers \ {w} : doing'[v] = doing[v] /\ job'[v] = job[v]
  BY <1>1 DEF RollBack
<1>3. job'[w].id = job[w].id
  BY <1>1 DEF RollBack, Rest
<1>4. IF job[w].op = "create" THEN doing'[w] = "idle" ELSE doing'[w] = "closing" /\ job' = job
  BY <1>1 DEF RollBack
<1>5. KnownIds'
  BY <1>1 DEF IInv, Known, KnownIds, Silent, getting
<1>6. CreatedAlone'
  BY <1>1, <1>2, <1>3, <1>4 DEF IInv, Known, CreatedAlone, Creating
<1>7. StaysCurrent
  <2> PICK i \in Ids : i = job[w].id
    BY <1>1
  <2>1. \A id \in listed : Changing(id) => Changing(id)'
    BY <1>2, <1>3, <1>4 DEF Changing, IInv, Known, CreatedAlone, Creating
  <2>2. i \notin listed \/ Changing(i)'
    BY <1>3, <1>4 DEF Changing, IInv, Known, CreatedAlone, Creating
  <2>3. \A id \in Ids \ {i} : row'[id] = row[id] /\ secret'[id] = secret[id]
    BY <1>1
  <2> QED
    BY <1>1, <2>1, <2>2, <2>3, OneStoreChanged
<1> QED
  BY <1>1, <1>5, <1>6, <1>7, SilentKeeps DEF Known

\* Every step of a save or a delete keeps the invariant.
LEMMA InvWriter ==
    ASSUME IInv, NEW w \in Writers, WriterStep(w)
    PROVE  IInv'
<1>1. TypeOK /\ TypeOK' /\ Known /\ listed \subseteq Ids /\ job[w].id \in Ids
  BY TypeWriter DEF IInv, TypeOK, Jobs
<1> PICK i \in Ids : i = job[w].id
  BY <1>1
<1>2. CASE Check(w)
  <2>1. doing[w] = "check" /\ UNCHANGED <<row, secret, listed, job>> /\ Silent
    BY <1>2 DEF Check, Silent, stores
  <2>2. doing' = [doing EXCEPT ![w] = "closing"] \/ doing' = [doing EXCEPT ![w] = "begun"]
    BY <1>2 DEF Check
  <2> QED
    BY <1>1, <2>1, <2>2, GoesOnWriting
<1>3. CASE WriteRow(w)
  <2>1. doing[w] = "begun" /\ UNCHANGED <<row, secret, listed, job>> /\ Silent
    BY <1>3 DEF WriteRow, Silent
  <2>2. doing' = [doing EXCEPT ![w] = "closing"] \/ doing' = [doing EXCEPT ![w] = "locked"]
    BY <1>3 DEF WriteRow
  <2> QED
    BY <1>1, <2>1, <2>2, GoesOnWriting
<1>4. CASE WriteSecret(w)
  <2>1. /\ doing[w] = "locked" /\ doing' = [doing EXCEPT ![w] = "stored"]
        /\ secret' = [secret EXCEPT ![i] = SecretAfter(w)]
        /\ UNCHANGED <<row, listed, job>> /\ Silent
    BY <1>4 DEF WriteSecret, Silent
  <2>2. KnownIds' /\ CreatedAlone'
    BY <1>1, <2>1 DEF Known, KnownIds, CreatedAlone, Creating, Silent, getting, TypeOK
  <2>3. Changing(i)' /\ \A id \in listed : Changing(id) => Changing(id)'
    BY <1>1, <2>1 DEF Changing, TypeOK
  <2>4. \A id \in Ids \ {i} : row'[id] = row[id] /\ secret'[id] = secret[id]
    BY <1>1, <2>1 DEF TypeOK
  <2>5. StaysCurrent
    BY <1>1, <2>3, <2>4, OneStoreChanged
  <2> QED
    BY <1>1, <2>1, <2>2, <2>5, SilentKeeps DEF Known
<1>5. CASE Commit(w)
  <2>1. /\ doing[w] = "stored" /\ doing' = [doing EXCEPT ![w] = "closing"]
        /\ row' = [row EXCEPT ![i] = job[w].row] /\ listed' = listed \cup {i}
        /\ UNCHANGED <<secret, job>> /\ Silent
    BY <1>5 DEF Commit, Silent
  <2>2. KnownIds'
    BY <1>1, <2>1 DEF Known, KnownIds, Silent, getting, TypeOK
  <2>3. CreatedAlone'
    BY <1>1, <2>1 DEF Known, CreatedAlone, Creating, TypeOK
  <2>4. Changing(i)' /\ \A id \in listed : Changing(id) => Changing(id)'
    BY <1>1, <2>1 DEF Changing, TypeOK
  <2>5. \A id \in Ids \ {i} : row'[id] = row[id] /\ secret'[id] = secret[id]
    BY <1>1, <2>1 DEF TypeOK
  <2>6. StaysCurrent
    BY <1>1, <2>4, <2>5, OneStoreChanged
  <2> QED
    BY <1>1, <2>1, <2>2, <2>3, <2>6, SilentKeeps DEF Known
<1>6. CASE WriteFails(w)
  <2>1. doing[w] \in {"check", "begun", "locked"} /\ RollBack(w)
    BY <1>6 DEF WriteFails
  <2>2. \A id \in Ids \ {i} : secret'[id] = secret[id]
    BY <1>1, <1>6 DEF WriteFails, TypeOK
  <2> QED
    BY <1>1, <2>1, <2>2, RollBackKeeps
<1>7. CASE CommitFails(w)
  <2>1. doing[w] = "stored" /\ RollBack(w) /\ UNCHANGED secret
    BY <1>7 DEF CommitFails
  <2> QED
    BY <1>1, <2>1, RollBackKeeps
<1>8. CASE Close(w)
  <2>1. /\ doing[w] = "closing" /\ doing' = [doing EXCEPT ![w] = "idle"]
        /\ job' = [job EXCEPT ![w] = Rest(i)]
        /\ open' = [key \in Ids \X Whose |-> IF key[1] = i THEN None ELSE open[key]]
        /\ closes' = [closes EXCEPT ![i] = @ + 1]
        /\ UNCHANGED <<stores, getting>>
    BY <1>8 DEF Close, Counted
  <2>2. KnownIds'
    BY <1>1, <2>1 DEF Known, KnownIds, stores, getting
  <2>3. CreatedAlone'
    BY <1>1, <2>1 DEF Known, CreatedAlone, Creating, Rest, TypeOK, stores
  <2>4. /\ closes'[i] = closes[i] + 1 /\ closes[i] \in Nat
        /\ \A id \in Ids \ {i} : closes'[id] = closes[id] /\ closes[id] \in Nat
    BY <1>1, <2>1 DEF TypeOK
  <2>5. \A c \in Callers : want[c][1] \in Ids /\ seen[c] \in Nat
    BY <1>1 DEF TypeOK
  <2>6. ClosesSeen'
    BY <2>1, <2>4, <2>5 DEF IInv, ClosesSeen, getting
  <2>7. \A id : id # i => (Changing(id) => Changing(id)')
    BY <1>1, <2>1 DEF Changing, Rest, TypeOK
  <2>8. \A id : id # i => /\ \A read : RowCurrent(read, id) => RowCurrent(read, id)'
                          /\ \A opened : SessionCurrent(opened, id) => SessionCurrent(opened, id)'
    BY <2>1, <2>7 DEF RowCurrent, SessionCurrent, Opens, stores
  <2>9. ReadCurrent'
    <3> SUFFICES ASSUME NEW c \in Callers, (seen[c] = closes[want[c][1]])'
                 PROVE  /\ (pc[c] = "secret" => /\ found[c].driver = "Postgres"
                                                /\ RowCurrent(found[c], want[c][1]))'
                        /\ (pc[c] = "land" => SessionCurrent(made[c], want[c][1]))'
      BY DEF ReadCurrent
    <3>1. UNCHANGED <<pc, want, seen, found, made>>
      BY <2>1 DEF getting
    <3>2. CASE want[c][1] = i
      BY <2>4, <2>5, <3>1, <3>2 DEF IInv, ClosesSeen
    <3>3. CASE want[c][1] # i
      BY <2>4, <2>5, <2>8, <3>1, <3>3 DEF IInv, ReadCurrent
    <3> QED
      BY <3>2, <3>3
  <2>10. SessionsCurrent'
    <3> SUFFICES ASSUME NEW key \in Ids \X Whose, open'[key] # None
                 PROVE  SessionCurrent(open[key], key[1])'
      BY DEF SessionsCurrent, SessionCurrent
    <3>1. key[1] # i /\ open'[key] = open[key]
      BY <2>1
    <3> QED
      BY <2>8, <3>1 DEF IInv, SessionsCurrent, SessionCurrent
  <2> QED
    BY <1>1, <2>2, <2>3, <2>6, <2>9, <2>10 DEF IInv, Known
<1>9. CASE \E op \in {"create", "edit"}, id \in Ids, new \in Rows, password \in Secrets :
            Save(w, op, id, new, password)
  <2> PICK op \in {"create", "edit"}, id \in Ids, new \in Rows, password \in Secrets :
            Save(w, op, id, new, password)
    BY <1>9
  <2> DEFINE j == [op |-> op, id |-> id, row |-> new, secret |-> password]
             d == IF op = "edit" /\ new.driver = "Postgres" /\ password = None
                  THEN "check" ELSE "begun"
  <2>1. j \in Jobs /\ j.op = op /\ j.id = id /\ d \in {"check", "begun"}
    BY DEF Jobs
  <2>2. /\ doing[w] = "idle" /\ IF op = "edit" THEN id \in listed ELSE Unused(id)
        /\ doing' = [doing EXCEPT ![w] = d] /\ job' = [job EXCEPT ![w] = j]
        /\ UNCHANGED stores /\ Silent
    BY DEF Save, Silent
  <2> HIDE DEF j, d
  <2> QED
    BY <1>1, <2>1, <2>2, StartsWriting
<1>10. CASE \E id \in Ids : Delete(w, id)
  <2> PICK id \in Ids : Delete(w, id)
    BY <1>10
  <2> DEFINE j == Rest(id)
  <2>1. j \in Jobs /\ j.op = "delete" /\ j.id = id
    BY DEF Jobs, Rest, Secrets
  <2>2. /\ doing[w] = "idle" /\ id \in listed
        /\ doing' = [doing EXCEPT ![w] = "begun"] /\ job' = [job EXCEPT ![w] = j]
        /\ UNCHANGED stores /\ Silent
    BY DEF Delete, Silent, Rest
  <2> HIDE DEF j
  <2> QED
    BY <1>1, <2>1, <2>2, StartsWriting
<1> QED
  BY <1>2, <1>3, <1>4, <1>5, <1>6, <1>7, <1>8, <1>9, <1>10 DEF WriterStep, Write

\* So every step keeps it.
LEMMA InvStep == IInv /\ [Next]_vars => IInv'
<1> SUFFICES ASSUME IInv, [Next]_vars PROVE IInv'
  OBVIOUS
<1>1. CASE Next
  BY <1>1, InvCaller, InvWriter DEF Next, CallerStep, WriterStep
<1>2. CASE UNCHANGED vars
  BY <1>2 DEF vars, stores, getting, writing, IInv, TypeOK, ReadsKept, Known, KnownIds,
              CreatedAlone, Creating, ClosesSeen, ReadCurrent, RowCurrent, SessionCurrent,
              SessionsCurrent, Opens, Changing
<1> QED
  BY <1>1, <1>2

\* No open that a save or a delete overtook leaves a session with old
\* credentials registered: what get, save_connection and delete_connection
\* promise one another, for any number of each at once.
THEOREM SessionsStayCurrent == Spec => []SessionsCurrent
<1>1. IInv => SessionsCurrent
  BY DEF IInv
<1> QED
  BY <1>1, InvInit, InvStep, PTL DEF Spec

\* Callers share one session, whatever they and the writers interleave.
THEOREM SessionsAreShared == Spec => SessionShared
<1> DEFINE Kept == \A key \in Ids \X Whose :
                     open[key] # None /\ open'[key] # None => open'[key] = open[key]
           Given == \A c \in Callers :
                     answer'[c] # answer[c] /\ answer'[c] # None => answer'[c] = open'[want[c]]
<1>1. ASSUME TypeOK, NEW c \in Callers, CallerStep(c) PROVE Kept /\ Given
  <2>1. /\ open \in [Ids \X Whose -> Sessions \cup {None}]
        /\ want[c] \in Ids \X Whose
        /\ answer \in [Callers -> Sessions \cup {None}]
    BY <1>1 DEF TypeOK
  <2>2. ASSUME NEW session, answer' = [answer EXCEPT ![c] = session],
               session # None => session = open'[want[c]]
        PROVE  Given
    BY <2>1, <2>2
  <2>3. CASE Peek(c)
    BY <2>1, <2>2, <2>3 DEF Peek, Return
  <2>4. CASE FindRow(c)
    BY <2>1, <2>2, <2>4 DEF FindRow, Return
  <2>5. CASE ReadSecret(c)
    BY <2>1, <2>2, <2>5 DEF ReadSecret, Return
  <2>6. CASE ReadFails(c)
    BY <2>1, <2>2, <2>6 DEF ReadFails, Return
  <2>7. CASE Land(c)
    BY <2>1, <2>2, <2>7 DEF Land, Landed, Return
  <2>8. CASE GiveUp(c)
    BY <2>1, <2>2, <2>8 DEF GiveUp
  <2>9. CASE \E id \in Ids, whose \in Whose : Ask(c, id, whose)
    BY <2>1, <2>2, <2>9 DEF Ask
  <2> QED
    BY <1>1, <2>3, <2>4, <2>5, <2>6, <2>7, <2>8, <2>9 DEF CallerStep, Get
<1>2. ASSUME TypeOK, NEW w \in Writers, WriterStep(w) PROVE Kept /\ Given
  <2>1. UNCHANGED answer
    BY <1>2 DEF WriterStep, Write, Save, Delete, Check, WriteRow, WriteSecret, Commit,
                WriteFails, CommitFails, RollBack, Close, getting
  <2>2. UNCHANGED open \/ Close(w)
    BY <1>2 DEF WriterStep, Write, Save, Delete, Check, WriteRow, WriteSecret, Commit,
                WriteFails, CommitFails, RollBack
  <2> QED
    BY <2>1, <2>2 DEF Close
<1>3. TypeOK /\ [Next]_vars => [Kept /\ Given]_vars
  BY <1>1, <1>2 DEF Next, CallerStep, WriterStep
<1> QED
  BY <1>3, TypeCorrect, PTL DEF SessionShared, Spec

-----------------------------------------------------------------------------
(* Every Postgres row has a password *)

\* Between its first write and its commit or rollback a writer has the lock.
Locked == \A w \in Writers : doing[w] \in {"locked", "stored"} => lock = w

\* A save that keeps the password found one to keep, or another took it away since; and what
\* is written of a Postgres connection has one.
WritesPassword(w) ==
    /\ job[w].op = "delete" => job[w].row = None
    /\ doing[w] # "idle" /\ job[w].op # "delete" => job[w].row \in Rows
    /\ job[w].op = "create" /\ job[w].row # None /\ job[w].row.driver = "Postgres" => job[w].secret # None
    /\ doing[w] \in {"begun", "locked"} /\ Keeps(w) =>
         row[job[w].id] = None \/ row[job[w].id].driver = "Postgres" \/ job[w].id \in torn
    /\ job[w].op = "edit" /\ doing[w] = "locked" => row[job[w].id] # None
    /\ doing[w] = "stored" /\ job[w].row # None /\ job[w].row.driver = "Postgres" =>
         secret[job[w].id] # None \/ (Keeps(w) /\ job[w].id \in torn)

\* A row keeps its password but for the moment between the writes of the two stores.
Taken(w, id) == doing[w] = "stored" /\ job[w].id = id /\ Takes(w)
HasPassword(id) ==
    row[id] # None /\ row[id].driver = "Postgres" =>
        secret[id] # None \/ id \in torn \/ \E w \in Writers : Taken(w, id)

PasswordInv ==
    Locked /\ (\A w \in Writers : WritesPassword(w)) /\ (\A id \in Ids : HasPassword(id))

\* What a step of one writer is judged by: the rest of them go on as they were.
OthersRest(w) == \A v \in Writers \ {w} : doing'[v] = doing[v] /\ job'[v] = job[v]

\* A step that leaves both stores alone, and is not one out of the stored state.
LEMMA StoresAloneKeepPasswords ==
    ASSUME TypeOK, TypeOK', PasswordInv, NEW w \in Writers, OthersRest(w), UNCHANGED <<row, secret, torn>>,
           doing[w] # "stored", Locked', WritesPassword(w)'
    PROVE  PasswordInv'
<1>1. \A v \in Writers \ {w} : WritesPassword(v)'
  BY DEF PasswordInv, WritesPassword, OthersRest, Keeps
<1>2. \A v \in Writers, id \in Ids : Taken(v, id) => Taken(v, id)'
  BY DEF Taken, Takes, OthersRest
<1>3. \A id \in Ids : HasPassword(id)'
  BY <1>2 DEF PasswordInv, HasPassword
<1> QED
  BY <1>1, <1>3 DEF PasswordInv

\* A writer that gives its lock back, if it had it, leaves the others theirs.
LEMMA LockGivenBack ==
    ASSUME Locked, NEW w \in Writers, OthersRest(w), doing'[w] \notin {"locked", "stored"},
           lock' = lock \/ lock' = (IF lock = w THEN None ELSE lock)
    PROVE  Locked'
BY DEF Locked, OthersRest

\* No step of a writer leaves a row without, but those that `torn` is told of.
LEMMA WriterKeepsPasswords ==
    ASSUME IInv, TypeOK', PasswordInv, NEW w \in Writers, WriterStep(w)
    PROVE  PasswordInv'
<1>0. /\ row \in [Ids -> Rows \cup {None}] /\ secret \in [Ids -> Secrets] /\ job[w].id \in Ids
      /\ doing \in [Writers -> {"idle", "check", "begun", "locked", "stored", "closing"}]
      /\ job \in [Writers -> Jobs] /\ \A v \in Writers : job[v].id \in Ids
      /\ torn \subseteq Ids /\ lock \in Writers \cup {None} /\ None \notin Rows /\ None \notin Writers
      /\ TypeOK /\ Locked /\ (\A v \in Writers : WritesPassword(v)) /\ \A id \in Ids : HasPassword(id)
  BY NoneAssumption DEF IInv, PasswordInv, TypeOK, Jobs
<1> PICK i \in Ids : i = job[w].id
  BY <1>0
<1>1. job[w].op \in {"create", "edit", "delete"}
  BY <1>0 DEF Jobs
<1>2. ASSUME doing[w] = "stored" \/ doing[w] = "locked"
      PROVE  lock = w /\ \A v \in Writers \ {w} : doing[v] \notin {"locked", "stored"}
  BY <1>0, <1>2 DEF Locked
<1>3. CASE Check(w)
  <2>1. /\ doing[w] = "check" /\ UNCHANGED <<row, secret, torn, lock, job>>
        /\ doing' = [doing EXCEPT ![w] = IF NothingToKeep(row[i]) THEN "closing" ELSE "begun"]
    BY <1>3 DEF Check, stores
  <2>2. OthersRest(w) /\ doing'[w] = IF NothingToKeep(row[i]) THEN "closing" ELSE "begun"
    BY <1>0, <2>1 DEF OthersRest
  <2>3. NothingToKeep(row[i]) \/ row[i] = None \/ row[i].driver = "Postgres"
    BY <1>0 DEF NothingToKeep, Rows, Drivers
  <2>4. WritesPassword(w)'
    BY <1>0, <2>1, <2>2, <2>3 DEF WritesPassword, Keeps
  <2>5. Locked'
    BY <1>0, <2>1, <2>2, LockGivenBack
  <2> QED
    BY <1>0, <2>1, <2>2, <2>4, <2>5, StoresAloneKeepPasswords
<1>4. CASE WriteRow(w)
  <2>1. doing[w] = "begun" /\ lock = None /\ UNCHANGED <<row, secret, torn, job>>
    BY <1>4 DEF WriteRow
  <2>2. \/ /\ job[w].op = "edit" /\ row[i] = None /\ lock' = lock
           /\ doing' = [doing EXCEPT ![w] = "closing"]
        \/ /\ ~(job[w].op = "edit" /\ row[i] = None) /\ lock' = w
           /\ doing' = [doing EXCEPT ![w] = "locked"]
    BY <1>4 DEF WriteRow
  <2>3. OthersRest(w) /\ doing'[w] \in {"closing", "locked"}
    BY <1>0, <2>1, <2>2 DEF OthersRest
  <2>4. WritesPassword(w)'
    BY <1>0, <2>1, <2>2, <2>3 DEF WritesPassword, Keeps
  <2>5. Locked'
    <3>1. \A v \in Writers : doing[v] \notin {"locked", "stored"}
      BY <1>0, <2>1 DEF Locked
    <3> QED
      BY <1>0, <2>2, <2>3, <3>1 DEF Locked, OthersRest
  <2> QED
    BY <1>0, <2>1, <2>3, <2>4, <2>5, StoresAloneKeepPasswords
<1>5. CASE WriteSecret(w)
  <2>1. /\ doing[w] = "locked" /\ doing' = [doing EXCEPT ![w] = "stored"]
        /\ UNCHANGED <<row, torn, lock, job>>
        /\ secret' = [secret EXCEPT ![i] = SecretAfter(w)]
    BY <1>5 DEF WriteSecret
  <2>2. /\ secret'[i] = SecretAfter(w) /\ \A id \in Ids \ {i} : secret'[id] = secret[id]
        /\ doing'[w] = "stored" /\ OthersRest(w)
    BY <1>0, <2>1 DEF OthersRest
  <2>3. \A v \in Writers : ~Taken(v, i)
    BY <1>2, <2>1 DEF Taken
  <2>4. ASSUME job[w].row # None, job[w].row.driver = "Postgres"
        PROVE  SecretAfter(w) # None \/ (Keeps(w) /\ i \in torn)
    <3>1. job[w].op # "delete" /\ ~Takes(w)
      BY <1>0, <2>4 DEF WritesPassword, Takes
    <3>2. CASE job[w].secret # None
      BY <3>1, <3>2 DEF SecretAfter
    <3>3. CASE job[w].secret = None
      <4>1. job[w].op = "edit" /\ Keeps(w)
        BY <1>0, <1>1, <2>4, <3>1, <3>3 DEF WritesPassword, Keeps
      <4>2. row[i] # None /\ (row[i].driver = "Postgres" \/ i \in torn)
        BY <1>0, <2>1, <4>1 DEF WritesPassword
      <4>3. secret[i] # None \/ i \in torn
        BY <1>0, <2>3, <4>2 DEF HasPassword
      <4> QED
        BY <3>1, <3>3, <4>1, <4>3 DEF SecretAfter
    <3> QED
      BY <3>2, <3>3
  <2>5. WritesPassword(w)'
    BY <1>0, <2>1, <2>2, <2>4 DEF WritesPassword, Keeps
  <2>6. ASSUME NEW v \in Writers \ {w} PROVE WritesPassword(v)'
    <3>1. doing[v] # "stored"
      BY <1>2, <2>1
    <3> QED
      BY <1>0, <2>1, <2>2, <3>1 DEF WritesPassword, Keeps, OthersRest
  <2>7. \A id \in Ids \ {i} : HasPassword(id)'
    <3>1. \A v \in Writers, id \in Ids \ {i} : Taken(v, id) => Taken(v, id)'
      BY <2>1, <2>2 DEF Taken, Takes, OthersRest
    <3> QED
      BY <1>0, <2>1, <2>2, <3>1 DEF HasPassword
  <2>8. HasPassword(i)'
    <3>1. CASE Takes(w)
      <4>1. Taken(w, i)'
        BY <2>1, <2>2, <3>1 DEF Taken, Takes
      <4> QED
        BY <4>1 DEF HasPassword
    <3>2. CASE ~Takes(w)
      <4>1. SecretAfter(w) = job[w].secret \/ SecretAfter(w) = secret[i]
        BY <3>2 DEF SecretAfter
      <4>2. secret[i] # None => SecretAfter(w) # None
        BY <3>2 DEF SecretAfter
      <4> QED
        BY <1>0, <2>1, <2>2, <2>3, <4>2 DEF HasPassword
    <3> QED
      BY <3>1, <3>2
  <2>9. Locked'
    BY <1>0, <1>2, <2>1, <2>2 DEF Locked, OthersRest
  <2> QED
    BY <2>5, <2>6, <2>7, <2>8, <2>9 DEF PasswordInv
<1>6. CASE Commit(w)
  <2>1. /\ doing[w] = "stored" /\ doing' = [doing EXCEPT ![w] = "closing"] /\ UNCHANGED <<secret, job>>
        /\ row' = [row EXCEPT ![i] = job[w].row] /\ lock' = None
        /\ torn' = IF Takes(w) /\ Overtakes(w) THEN torn \cup {i} ELSE IF Keeps(w) THEN torn ELSE torn \ {i}
    BY <1>6 DEF Commit
  <2>2. /\ row'[i] = job[w].row /\ \A id \in Ids \ {i} : row'[id] = row[id]
        /\ doing'[w] = "closing" /\ OthersRest(w)
    BY <1>0, <2>1 DEF OthersRest
  <2>3. \A id \in Ids \ {i} : id \in torn' <=> id \in torn
    BY <2>1
  <2>4. WritesPassword(w)'
    BY <1>0, <2>1, <2>2 DEF WritesPassword
  <2>5. ASSUME NEW v \in Writers \ {w} PROVE WritesPassword(v)'
    <3>1. doing[v] \notin {"locked", "stored"}
      BY <1>2, <2>1
    <3>2. doing'[v] = doing[v] /\ job'[v] = job[v] /\ WritesPassword(v)
      BY <1>0, <2>2 DEF OthersRest
    <3>3. CASE job[v].id # i
      BY <1>0, <2>2, <2>3, <3>1, <3>2, <3>3 DEF WritesPassword, Keeps
    <3>4. CASE job[v].id = i
      <4>1. ASSUME doing[v] = "begun", Keeps(v)
            PROVE  row'[i] = None \/ row'[i].driver = "Postgres" \/ i \in torn'
        <5>1. Overtakes(w)
          BY <3>4, <4>1 DEF Overtakes
        <5>2. job[w].op # "create"
          BY <2>1, <3>4, <4>1 DEF IInv, Known, CreatedAlone, Creating
        <5>3. CASE job[w].op = "delete"
          BY <1>0, <2>2, <5>3 DEF WritesPassword
        <5>4. CASE job[w].op = "edit"
          <6>1. job[w].row \in Rows
            BY <1>0, <2>1, <5>4 DEF WritesPassword
          <6>2. job[w].row.driver = "Postgres" \/ job[w].row.driver = "BigQuery"
            BY <6>1 DEF Rows, Drivers
          <6>3. job[w].row.driver = "BigQuery" => Takes(w)
            BY <5>4 DEF Takes
          <6> QED
            BY <2>1, <2>2, <5>1, <6>2, <6>3
        <5> QED
          BY <1>1, <5>2, <5>3, <5>4
      <4> QED
        BY <3>1, <3>2, <3>4, <4>1 DEF WritesPassword, Keeps
    <3> QED
      BY <3>3, <3>4
  <2>6. ASSUME NEW id \in Ids PROVE HasPassword(id)'
    <3>1. CASE id = i
      <4>1. ASSUME row'[i] # None, row'[i].driver = "Postgres" PROVE secret'[i] # None \/ i \in torn'
        <5>1. ~Takes(w)
          BY <1>0, <2>2, <4>1 DEF Takes, WritesPassword
        <5>2. secret[i] # None \/ (Keeps(w) /\ i \in torn)
          BY <1>0, <2>1, <2>2, <4>1 DEF WritesPassword
        <5> QED
          BY <2>1, <5>1, <5>2
      <4> QED
        BY <3>1, <4>1 DEF HasPassword
    <3>2. CASE id # i
      <4>1. \A v \in Writers : Taken(v, id) => Taken(v, id)'
        BY <2>1, <2>2, <3>2 DEF Taken, Takes, OthersRest
      <4> QED
        BY <1>0, <2>1, <2>2, <2>3, <3>2, <4>1 DEF HasPassword
    <3> QED
      BY <3>1, <3>2
  <2>7. Locked'
    BY <1>0, <1>2, <2>1, <2>2 DEF Locked, OthersRest
  <2> QED
    BY <2>4, <2>5, <2>6, <2>7 DEF PasswordInv
<1>7. CASE WriteFails(w) \/ CommitFails(w)
  <2>1. /\ RollBack(w) /\ doing[w] \in {"check", "begun", "locked", "stored"}
        /\ \/ UNCHANGED <<secret, torn>> /\ ~Taken(w, i)
           \/ UNCHANGED secret /\ torn' = torn \cup {i}
           \/ /\ secret' = [secret EXCEPT ![i] = None] /\ torn' = torn \cup {i}
              /\ doing[w] = "locked"
    BY <1>7 DEF WriteFails, CommitFails, Taken
  <2>2. row' = row /\ lock' = (IF lock = w THEN None ELSE lock)
    BY <2>1 DEF RollBack
  <2>3. OthersRest(w) /\ doing'[w] \in {"idle", "closing"}
    BY <1>0, <2>1 DEF RollBack, OthersRest
  <2>4. \/ job[w].op = "create" /\ doing'[w] = "idle" /\ job'[w] = Rest(i)
        \/ doing'[w] = "closing" /\ job'[w] = job[w]
    BY <1>0, <2>1 DEF RollBack
  <2>5. WritesPassword(w)'
    <3>1. WritesPassword(w) /\ doing[w] # "idle"
      BY <1>0, <2>1
    <3> QED
      BY <2>4, <3>1 DEF WritesPassword, Rest
  <2>6. ASSUME NEW v \in Writers \ {w} PROVE WritesPassword(v)'
    <3>1. doing'[v] = doing[v] /\ job'[v] = job[v] /\ WritesPassword(v)
      BY <1>0, <2>3 DEF OthersRest
    <3>2. torn \subseteq torn' /\ (doing[v] = "stored" => secret' = secret)
      BY <1>2, <2>1
    <3> QED
      BY <2>2, <3>1, <3>2 DEF WritesPassword, Keeps
  <2>7. ASSUME NEW id \in Ids PROVE HasPassword(id)'
    <3>1. torn \subseteq torn' /\ \A v \in Writers \ {w} : Taken(v, id) => Taken(v, id)'
      BY <2>1, <2>3 DEF Taken, Takes, OthersRest
    <3>2. (id = i /\ i \in torn') \/ (secret'[id] = secret[id] /\ ~Taken(w, id))
      BY <1>0, <2>1 DEF Taken
    <3> QED
      BY <1>0, <2>2, <3>1, <3>2 DEF HasPassword
  <2>8. Locked'
    BY <1>0, <2>2, <2>3, LockGivenBack
  <2> QED
    BY <2>5, <2>6, <2>7, <2>8 DEF PasswordInv
<1>8. CASE Close(w)
  <2>1. /\ doing[w] = "closing" /\ doing' = [doing EXCEPT ![w] = "idle"]
        /\ job' = [job EXCEPT ![w] = Rest(i)] /\ UNCHANGED <<row, secret, torn, lock>>
    BY <1>8 DEF Close, stores
  <2>2. OthersRest(w) /\ doing'[w] = "idle" /\ job'[w] = Rest(i)
    BY <1>0, <2>1 DEF OthersRest
  <2>3. WritesPassword(w)' /\ Locked'
    BY <1>0, <2>1, <2>2, LockGivenBack DEF WritesPassword, Rest
  <2> QED
    BY <1>0, <2>1, <2>2, <2>3, StoresAloneKeepPasswords
<1>9. ASSUME NEW op \in {"create", "edit"}, NEW id \in Ids, NEW new \in Rows, NEW password \in Secrets,
             Save(w, op, id, new, password)
      PROVE  PasswordInv'
  <2> DEFINE j == [op |-> op, id |-> id, row |-> new, secret |-> password]
             d == IF op = "edit" /\ new.driver = "Postgres" /\ password = None THEN "check" ELSE "begun"
  <2>1. /\ doing[w] = "idle" /\ UNCHANGED <<row, secret, torn, lock>>
        /\ job' = [job EXCEPT ![w] = j] /\ doing' = [doing EXCEPT ![w] = d]
        /\ op = "create" /\ new.driver = "Postgres" => password # None
    BY <1>9 DEF Save, stores
  <2>2. OthersRest(w) /\ doing'[w] = d /\ job'[w] = j
    BY <1>0, <2>1 DEF OthersRest
  <2>3. WritesPassword(w)'
    BY <1>0, <2>1, <2>2 DEF WritesPassword, Keeps
  <2>4. Locked'
    BY <1>0, <2>1, <2>2, LockGivenBack
  <2> HIDE DEF j, d
  <2> QED
    BY <1>0, <2>1, <2>2, <2>3, <2>4, StoresAloneKeepPasswords
<1>10. ASSUME NEW id \in Ids, Delete(w, id) PROVE PasswordInv'
  <2> DEFINE j == [op |-> "delete", id |-> id, row |-> None, secret |-> None]
  <2>1. /\ doing[w] = "idle" /\ UNCHANGED <<row, secret, torn, lock>>
        /\ job' = [job EXCEPT ![w] = j] /\ doing' = [doing EXCEPT ![w] = "begun"]
    BY <1>10 DEF Delete, stores
  <2>2. OthersRest(w) /\ doing'[w] = "begun" /\ job'[w] = j
    BY <1>0, <2>1 DEF OthersRest
  <2>3. WritesPassword(w)'
    BY <1>0, <2>1, <2>2 DEF WritesPassword, Keeps
  <2>4. Locked'
    BY <1>0, <2>1, <2>2, LockGivenBack
  <2> HIDE DEF j
  <2> QED
    BY <1>0, <2>1, <2>2, <2>3, <2>4, StoresAloneKeepPasswords
<1> QED
  BY <1>3, <1>4, <1>5, <1>6, <1>7, <1>8, <1>9, <1>10 DEF WriterStep, Write

\* Every way a connection's driver and password are edited keeps the two stores in step
\* (save_connection, delete_connection), for any number of connections, callers and saves at
\* once, and stores that may refuse any step: a Postgres row is without its password only
\* where a refused save had taken it, or one that keeps it was overtaken by one that takes it.
THEOREM PasswordsStayStored == Spec => []PasswordStored
<1>1. Init => PasswordInv
  <2> SUFFICES ASSUME Init PROVE PasswordInv
    OBVIOUS
  <2>1. TypeOK /\ \A w \in Writers : doing[w] = "idle" /\ job[w].op = "delete" /\ job[w].row = None
    BY TypeInit DEF Init, Rest
  <2>2. \A id \in Ids : HasPassword(id)
    BY DEF Init, HasPassword
  <2> QED
    BY <2>1, <2>2 DEF PasswordInv, WritesPassword, Locked, Keeps
<1>2. PasswordInv /\ IInv /\ [Next]_vars /\ TypeOK' => PasswordInv'
  <2> SUFFICES ASSUME PasswordInv, IInv, [Next]_vars, TypeOK' PROVE PasswordInv'
    OBVIOUS
  <2>1. CASE UNCHANGED <<stores, writing>>
    BY <2>1 DEF stores, writing, PasswordInv, WritesPassword, HasPassword, Locked, Keeps, Taken, Takes
  <2>2. ASSUME NEW c \in Callers, CallerStep(c) PROVE UNCHANGED <<stores, writing>>
    BY <2>2, CallerReads
  <2> QED
    BY <2>1, <2>2, WriterKeepsPasswords DEF Next, CallerStep, WriterStep, vars
<1>3. PasswordInv => PasswordStored
  BY DEF PasswordInv, HasPassword, PasswordStored, Changing, Taken
<1>4. IInv => TypeOK
  BY DEF IInv
<1> QED
  BY <1>1, <1>2, <1>3, <1>4, InvInit, InvStep, PTL DEF Spec

=============================================================================
