------------------------ MODULE ShellCommands_proofs ------------------------
(***************************************************************************)
(* What holds of the commands for any number of connections, shells and    *)
(* calls.                                                                  *)
(***************************************************************************)
EXTENDS ShellCommands, TLAPS

\* The calls that have a shell of their own: no other call that spawned has it, it is
\* for their connection, and nobody watches it yet.
Spawners == {t \in Tasks : pc[t] \in {"insert", "refuse", "watch"}}
SpawnedApart ==
    \A t \in Spawners :
        /\ home[mine[t]] = at[t] /\ watcher[mine[t]] = "none"
        /\ \A u \in Spawners : mine[u] = mine[t] => u = t

\* A call knows its connection, and takes out of the registry only what is gone.
CallsKnow ==
    \A t \in Tasks :
        /\ pc[t] # "idle" => at[t] \in Conns
        /\ pc[t] = "remove" => life[mine[t]] = "reaped"

\* A shell is spawned for a connection, and a run is registered for its own.
RegisteredHome ==
    /\ \A r \in Runs : life[r] # "unborn" => home[r] \in Conns
    /\ \A c \in Conns : running[c] # None => home[running[c]] = c /\ life[running[c]] # "unborn"

\* A watcher reads the last words, and tells, of shells that are reaped.
WatchersKnow ==
    \A r \in Runs :
        /\ life[r] = "unborn" => watcher[r] = "none"
        /\ watcher[r] \in {"drain", "announce", "gone"} => life[r] = "reaped"

KilledEnded == \A r \in killed : life[r] \in {"dead", "reaped"}

\* NoneBeside without the help of a call that only has yet to watch.
UpRegistered ==
    \A r \in Runs : life[r] = "alive" =>
        \/ running[home[r]] = r \/ r \in doomed
        \/ \E t \in Tasks : mine[t] = r /\ pc[t] \in {"insert", "refuse"}

IInv ==
    /\ TypeOK /\ SpawnedApart /\ CallsKnow /\ RegisteredHome /\ WatchersKnow
    /\ KilledEnded /\ UpRegistered /\ Agrees /\ GroupGone

-----------------------------------------------------------------------------

\* With no run, the invariant holds.
LEMMA InitKeeps == Init => IInv
BY NoneAssumption DEF Init, IInv, TypeOK, Spawners, SpawnedApart, CallsKnow, RegisteredHome, WatchersKnow,
   KilledEnded, UpRegistered, Agrees, GroupGone, Registered

-----------------------------------------------------------------------------
(* Calls *)

\* A call that has no shell of its own moves on, and touches no shell.
LEMMA MovesKeep ==
    ASSUME IInv, NEW t \in Tasks, pc[t] \notin {"insert", "refuse", "watch"},
           NEW p \in {"idle", "find", "spawn", "get", "signal", "await", "remove"},
           NEW r \in Runs \cup {None}, NEW c \in Conns \cup {None},
           pc' = [pc EXCEPT ![t] = p], mine' = [mine EXCEPT ![t] = r], at' = [at EXCEPT ![t] = c],
           p # "idle" => c \in Conns,
           p \in {"signal", "await", "remove"} => r \in Runs /\ life[r] # "unborn",
           p = "remove" => life[r] = "reaped",
           UNCHANGED <<running, processes, watcher, quitting>>,
           row' \in [Conns -> {"none", "bare", "command"}], stop' \in [Runs -> {"unset", "set", "sent"}]
    PROVE  IInv'
<1> USE DEF processes, quitting
<1>1. /\ pc'[t] = p /\ mine'[t] = r /\ at'[t] = c
      /\ \A u \in Tasks : u # t => pc'[u] = pc[u] /\ mine'[u] = mine[u] /\ at'[u] = at[u]
  BY DEF IInv, TypeOK
<1>2. TypeOK'
  BY <1>1 DEF IInv, TypeOK
<1>3. Spawners' = Spawners /\ t \notin Spawners
  BY <1>1 DEF Spawners
<1>4. SpawnedApart'
  BY <1>1, <1>3 DEF IInv, SpawnedApart, Spawners
<1>5. CallsKnow'
  BY <1>1 DEF IInv, CallsKnow
<1>6. UpRegistered'
  BY <1>1 DEF IInv, UpRegistered
<1>7. (RegisteredHome /\ WatchersKnow /\ KilledEnded /\ Agrees /\ GroupGone)'
  BY DEF IInv, RegisteredHome, WatchersKnow, KilledEnded, Agrees, GroupGone, Registered
<1> QED
  BY <1>2, <1>4, <1>5, <1>6, <1>7 DEF IInv

\* What a call waits at, looks up or is asked for.
Asks(t) == \E c \in Conns : Click(t, c) \/ Stop(t, c) \/ Save(t, c) \/ Delete(t, c)
Looks(t) == FindRow(t) \/ SpawnFails(t) \/ Get(t) \/ Signal(t) \/ Await(t)

\* A call that is made keeps it.
LEMMA AsksKeep ==
    ASSUME IInv, NEW t \in Tasks, Asks(t)
    PROVE  IInv'
<1>1. PICK c \in Conns : Click(t, c) \/ Stop(t, c) \/ Save(t, c) \/ Delete(t, c)
  BY DEF Asks
<1>2. pc[t] = "idle"
  BY <1>1 DEF Click, Stop, Save, Delete
<1>3. mine[t] \in Runs \cup {None} /\ at[t] \in Conns \cup {None}
  BY DEF IInv, TypeOK
<1>4. mine' = [mine EXCEPT ![t] = mine[t]]
  BY <1>1 DEF IInv, TypeOK, Click, Stop, Save, Delete
<1>5. row' \in [Conns -> {"none", "bare", "command"}]
  BY <1>1 DEF IInv, TypeOK, Click, Stop, Save, Delete
<1>6. /\ UNCHANGED <<running, processes, watcher, quitting>>
      /\ stop' \in [Runs -> {"unset", "set", "sent"}]
  BY <1>1 DEF IInv, TypeOK, Click, Stop, Save, Delete, watching
<1>7. CASE \E p \in {"find", "get"} : pc' = [pc EXCEPT ![t] = p] /\ at' = [at EXCEPT ![t] = c]
  <2>1. PICK p \in {"find", "get"} : pc' = [pc EXCEPT ![t] = p] /\ at' = [at EXCEPT ![t] = c]
    BY <1>7
  <2> QED
    BY <1>2, <1>3, <1>4, <1>5, <1>6, <2>1, MovesKeep
<1>8. CASE UNCHANGED <<pc, at>>
  <2>1. pc' = [pc EXCEPT ![t] = "idle"] /\ at' = [at EXCEPT ![t] = at[t]]
    BY <1>2, <1>8 DEF IInv, TypeOK
  <2> QED
    BY <2>1, <1>2, <1>3, <1>4, <1>5, <1>6, MovesKeep
<1> QED
  BY <1>1, <1>7, <1>8 DEF Click, Stop, Save, Delete

\* A call that finds its row or its run, or waits, keeps it.
LEMMA LooksKeep ==
    ASSUME IInv, NEW t \in Tasks, Looks(t)
    PROVE  IInv'
<1>1. pc[t] \in {"find", "spawn", "get", "signal", "await"} /\ at[t] \in Conns
  BY DEF Looks, FindRow, SpawnFails, Get, Signal, Await, IInv, CallsKnow
<1>2. /\ UNCHANGED <<running, processes, watcher, quitting>>
      /\ row' \in [Conns -> {"none", "bare", "command"}]
      /\ stop' \in [Runs -> {"unset", "set", "sent"}]
  BY DEF Looks, FindRow, SpawnFails, Get, Signal, Await, IInv, TypeOK, watching
<1>3. CASE Return(t)
  BY <1>1, <1>2, <1>3, MovesKeep DEF Return
<1>4. CASE FindRow(t) /\ Go(t, "spawn", None)
  <2>1. at' = [at EXCEPT ![t] = at[t]]
    BY <1>4 DEF Go, IInv, TypeOK
  <2> QED
    BY <1>1, <1>2, <1>4, <2>1, MovesKeep DEF Go
<1>5. CASE Get(t) /\ running[at[t]] # None /\ Go(t, "signal", running[at[t]])
  <2>1. at' = [at EXCEPT ![t] = at[t]]
    BY <1>5 DEF Go, IInv, TypeOK
  <2>2. running[at[t]] \in Runs /\ life[running[at[t]]] # "unborn"
    BY <1>1, <1>5 DEF IInv, TypeOK, RegisteredHome
  <2> QED
    <3>1. pc' = [pc EXCEPT ![t] = "signal"] /\ mine' = [mine EXCEPT ![t] = running[at[t]]]
      BY <1>5 DEF Go
    <3> QED
      BY <1>1, <1>2, <2>1, <2>2, <3>1, MovesKeep
<1>6. CASE Signal(t) \/ Await(t)
  <2>1. at' = [at EXCEPT ![t] = at[t]]
    BY <1>6 DEF Signal, Await, Go, IInv, TypeOK
  <2>2. mine[t] \in Runs /\ life[mine[t]] # "unborn"
    BY <1>6 DEF Signal, Await, IInv, TypeOK
  <2>3. CASE Signal(t)
    <3>1. pc' = [pc EXCEPT ![t] = "await"] /\ mine' = [mine EXCEPT ![t] = mine[t]]
      BY <2>3 DEF Signal, Go
    <3> QED
      BY <1>1, <1>2, <2>1, <2>2, <3>1, MovesKeep
  <2>4. CASE Await(t)
    <3>1. /\ pc' = [pc EXCEPT ![t] = "remove"] /\ mine' = [mine EXCEPT ![t] = mine[t]]
          /\ life[mine[t]] = "reaped"
      BY <2>4 DEF Await, Go, Gone
    <3> QED
      BY <1>1, <1>2, <2>1, <2>2, <3>1, MovesKeep
  <2> QED
    BY <1>6, <2>3, <2>4
<1> QED
  BY <1>3, <1>4, <1>5, <1>6 DEF Looks, FindRow, SpawnFails, Get

\* A call that spawns a shell keeps it.
LEMMA SpawnKeeps ==
    ASSUME IInv, NEW t \in Tasks, Spawn(t)
    PROVE  IInv'
<1>1. PICK r \in Runs :
        /\ life[r] = "unborn" /\ life' = [life EXCEPT ![r] = "alive"]
        /\ home' = [home EXCEPT ![r] = at[t]] /\ Go(t, "insert", r)
  BY DEF Spawn
<1>2. /\ pc[t] = "spawn" /\ at[t] \in Conns
      /\ UNCHANGED <<row, running, killed, forked, stop, watcher, doomed, spent>>
  BY DEF Spawn, IInv, CallsKnow, watching, quitting
<1>3. /\ pc'[t] = "insert" /\ mine'[t] = r /\ UNCHANGED at
      /\ \A u \in Tasks : u # t => pc'[u] = pc[u] /\ mine'[u] = mine[u]
  BY <1>1 DEF Go, IInv, TypeOK
<1>4. /\ life'[r] = "alive" /\ home'[r] = at[t]
      /\ \A q \in Runs : q # r => life'[q] = life[q] /\ home'[q] = home[q]
  BY <1>1 DEF IInv, TypeOK
<1>5. TypeOK'
  BY <1>1, <1>2, <1>3, <1>4 DEF Go, IInv, TypeOK
<1>6. SpawnedApart'
  <2>1. \A u \in Tasks : pc[u] \in {"insert", "refuse", "watch"} => mine[u] \in Runs /\ mine[u] # r
    BY <1>1 DEF IInv, TypeOK
  <2>2. watcher[r] = "none"
    BY <1>1 DEF IInv, WatchersKnow
  <2> QED
    BY <1>2, <1>3, <1>4, <2>1, <2>2 DEF IInv, SpawnedApart, Spawners
<1>7. CallsKnow'
  BY <1>1, <1>2, <1>3, <1>4 DEF IInv, CallsKnow, TypeOK
<1>8. RegisteredHome'
  BY <1>1, <1>2, <1>4 DEF IInv, RegisteredHome, TypeOK
<1>9. WatchersKnow' /\ KilledEnded'
  BY <1>1, <1>2, <1>4 DEF IInv, WatchersKnow, KilledEnded, TypeOK
<1>10. UpRegistered'
  BY <1>2, <1>3, <1>4 DEF IInv, UpRegistered
<1>11. Agrees' /\ GroupGone'
  BY <1>2 DEF IInv, Agrees, GroupGone, Registered
<1> QED
  BY <1>5, <1>6, <1>7, <1>8, <1>9, <1>10, <1>11 DEF IInv

\* A call that registers its run keeps it.
LEMMA InsertKeeps ==
    ASSUME IInv, NEW t \in Tasks, Insert(t)
    PROVE  IInv'
<1>1. /\ pc[t] = "insert" /\ at[t] \in Conns /\ mine[t] \in Runs /\ t \in Spawners
      /\ UNCHANGED <<row, home, life, killed, forked, stop, watcher, at, mine, doomed, spent>>
  BY DEF Insert, Go, IInv, TypeOK, CallsKnow, Spawners, processes, watching, quitting
<1>2. home[mine[t]] = at[t] /\ watcher[mine[t]] = "none" /\ life[mine[t]] # "unborn"
  BY <1>1 DEF IInv, SpawnedApart, TypeOK, Spawners
<1>3. PICK p \in {"watch", "refuse"} :
        /\ pc' = [pc EXCEPT ![t] = p]
        /\ \/ p = "watch" /\ running[at[t]] = None /\ running' = [running EXCEPT ![at[t]] = mine[t]]
           \/ p = "refuse" /\ UNCHANGED running
  BY DEF Insert, Go
<1>4. pc'[t] = p /\ \A u \in Tasks : u # t => pc'[u] = pc[u]
  BY <1>3 DEF IInv, TypeOK
<1>5. TypeOK'
  BY <1>1, <1>2, <1>3, <1>4 DEF IInv, TypeOK
<1>6. Spawners' = Spawners
  BY <1>1, <1>4 DEF Spawners
<1>7. SpawnedApart' /\ CallsKnow' /\ WatchersKnow' /\ KilledEnded' /\ GroupGone'
  BY <1>1, <1>4, <1>6 DEF IInv, SpawnedApart, CallsKnow, WatchersKnow, KilledEnded, GroupGone, Spawners
<1>8. RegisteredHome'
  BY <1>1, <1>2, <1>3 DEF IInv, RegisteredHome, TypeOK
<1>9. UpRegistered'
  <2> SUFFICES ASSUME NEW r \in Runs, life[r] = "alive"
               PROVE  \/ running'[home[r]] = r \/ r \in doomed
                      \/ \E u \in Tasks : mine[u] = r /\ pc'[u] \in {"insert", "refuse"}
    BY <1>1 DEF UpRegistered
  <2>1. CASE r = mine[t]
    BY <1>1, <1>2, <1>3, <1>4, <2>1 DEF IInv, TypeOK
  <2>2. CASE r # mine[t]
    <3>1. running[home[r]] = r => running'[home[r]] = r
      BY <1>1, <1>3, NoneAssumption DEF IInv, TypeOK, RegisteredHome
    <3> QED
      BY <1>4, <2>2, <3>1 DEF IInv, UpRegistered
  <2> QED
    BY <2>1, <2>2
<1>10. Agrees'
  BY <1>1, <1>2, <1>3 DEF IInv, Agrees, Registered, TypeOK
<1> QED
  BY <1>5, <1>7, <1>8, <1>9, <1>10 DEF IInv

\* A call that starts a watcher keeps it.
LEMMA WatchKeeps ==
    ASSUME IInv, NEW t \in Tasks, Watch(t)
    PROVE  IInv'
<1>1. /\ pc[t] = "watch" /\ mine[t] \in Runs /\ life[mine[t]] # "unborn" /\ t \in Spawners
      /\ UNCHANGED <<row, running, home, life, killed, forked, doomed, spent>>
  BY DEF Watch, IInv, TypeOK, Spawners, processes, quitting
<1>2. /\ stop' = [stop EXCEPT ![mine[t]] = "set"]
      /\ watcher' = [watcher EXCEPT ![mine[t]] = "waiting"]
      /\ pc' = [pc EXCEPT ![t] = "idle"] /\ mine' = [mine EXCEPT ![t] = None]
      /\ at' = [at EXCEPT ![t] = None]
  BY DEF Watch, Return
<1>3. /\ pc'[t] = "idle"
      /\ \A u \in Tasks : u # t => pc'[u] = pc[u] /\ mine'[u] = mine[u] /\ at'[u] = at[u]
  BY <1>2 DEF IInv, TypeOK
<1>4. watcher'[mine[t]] = "waiting" /\ \A r \in Runs : r # mine[t] => watcher'[r] = watcher[r]
  BY <1>1, <1>2 DEF IInv, TypeOK
<1>5. TypeOK'
  BY <1>1, <1>2, <1>3 DEF IInv, TypeOK
<1>6. SpawnedApart'
  <2> SUFFICES ASSUME NEW u \in Spawners'
               PROVE  /\ home[mine'[u]] = at'[u] /\ watcher'[mine'[u]] = "none"
                      /\ \A v \in Spawners' : mine'[v] = mine'[u] => v = u
    BY <1>1 DEF SpawnedApart
  <2>1. Spawners' = Spawners \ {t}
    BY <1>3 DEF Spawners
  <2>2. u \in Spawners /\ u # t /\ mine'[u] = mine[u] /\ at'[u] = at[u] /\ mine[u] \in Runs
    BY <1>3, <2>1 DEF Spawners, IInv, TypeOK
  <2>3. mine[u] # mine[t]
    BY <1>1, <2>2 DEF IInv, SpawnedApart
  <2>4. \A v \in Spawners' : mine'[v] = mine[v] /\ v \in Spawners
    BY <1>3, <2>1 DEF Spawners
  <2> QED
    BY <1>4, <2>2, <2>3, <2>4 DEF IInv, SpawnedApart
<1>7. CallsKnow'
  BY <1>1, <1>3 DEF IInv, CallsKnow
<1>8. WatchersKnow'
  BY <1>1, <1>4 DEF IInv, WatchersKnow
<1>9. UpRegistered'
  <2> SUFFICES ASSUME NEW r \in Runs, life[r] = "alive", running[home[r]] # r, r \notin doomed
               PROVE  \E u \in Tasks : mine'[u] = r /\ pc'[u] \in {"insert", "refuse"}
    BY <1>1 DEF UpRegistered
  <2>1. PICK u \in Tasks : mine[u] = r /\ pc[u] \in {"insert", "refuse"}
    BY DEF IInv, UpRegistered
  <2> QED
    BY <1>1, <1>3, <2>1
<1>10. Agrees'
  BY <1>1, <1>4 DEF IInv, Agrees, Registered
<1>11. RegisteredHome' /\ KilledEnded' /\ GroupGone'
  BY <1>1 DEF IInv, RegisteredHome, KilledEnded, GroupGone
<1> QED
  BY <1>5, <1>6, <1>7, <1>8, <1>9, <1>10, <1>11 DEF IInv

\* A call that takes a run out keeps it.
LEMMA RemoveKeeps ==
    ASSUME IInv, NEW t \in Tasks, Remove(t)
    PROVE  IInv'
<1>1. /\ pc[t] = "remove" /\ at[t] \in Conns /\ mine[t] \in Runs /\ life[mine[t]] = "reaped"
      /\ UNCHANGED <<row, home, life, killed, forked, stop, watcher, doomed, spent>>
  BY DEF Remove, IInv, TypeOK, CallsKnow, processes, watching, quitting
<1>2. /\ pc' = [pc EXCEPT ![t] = "idle"] /\ mine' = [mine EXCEPT ![t] = None]
      /\ at' = [at EXCEPT ![t] = None]
  BY DEF Remove, Return
<1>3. /\ pc'[t] = "idle"
      /\ \A u \in Tasks : u # t => pc'[u] = pc[u] /\ mine'[u] = mine[u] /\ at'[u] = at[u]
  BY <1>2 DEF IInv, TypeOK
<1>4. /\ running' \in [Conns -> Runs \cup {None}]
      /\ \A c \in Conns : running'[c] = running[c] \/ (running[c] = mine[t] /\ running'[c] = None)
  BY <1>1 DEF Remove, Without, IInv, TypeOK
<1>5. TypeOK'
  BY <1>1, <1>2, <1>3, <1>4 DEF IInv, TypeOK
<1>6. Spawners' = Spawners /\ t \notin Spawners
  BY <1>1, <1>3 DEF Spawners
<1>7. SpawnedApart' /\ CallsKnow' /\ WatchersKnow' /\ KilledEnded' /\ GroupGone'
  BY <1>1, <1>3, <1>6 DEF IInv, SpawnedApart, CallsKnow, WatchersKnow, KilledEnded, GroupGone, Spawners
<1>8. RegisteredHome' /\ Agrees'
  BY <1>1, <1>4 DEF IInv, RegisteredHome, Agrees, Registered
<1>9. UpRegistered'
  <2> SUFFICES ASSUME NEW r \in Runs, life[r] = "alive", r \notin doomed,
                      \A u \in Tasks : ~(mine'[u] = r /\ pc'[u] \in {"insert", "refuse"})
               PROVE  running'[home[r]] = r
    BY <1>1 DEF UpRegistered
  <2>1. running[home[r]] = r
    BY <1>1, <1>3 DEF IInv, UpRegistered
  <2>2. home[r] \in Conns
    BY DEF IInv, RegisteredHome
  <2> QED
    BY <1>1, <1>4, <2>1, <2>2
<1> QED
  BY <1>5, <1>7, <1>8, <1>9 DEF IInv

-----------------------------------------------------------------------------
(* Shells and what kills them *)

\* A group that is killed leaves nothing up, and no shell comes back.
LEMMA KillFacts ==
    ASSUME IInv, NEW r \in Runs, KillGroup(r)
    PROVE  /\ life' \in [Runs -> {"unborn", "alive", "dead", "reaped"}] /\ life'[r] # "alive"
           /\ \A q \in Runs : life'[q] = life[q] \/ (life[q] = "alive" /\ life'[q] = "dead")
           /\ killed' \subseteq Runs /\ forked' \subseteq Runs /\ UNCHANGED home
           /\ KilledEnded' /\ GroupGone'
<1>1. /\ life' = [life EXCEPT ![r] = IF @ = "alive" THEN "dead" ELSE @]
      /\ killed' = IF life[r] = "alive" THEN killed \cup {r} ELSE killed
      /\ forked' = forked \ {r} /\ UNCHANGED home
  BY DEF KillGroup
<1>2. KilledEnded'
  BY <1>1 DEF IInv, TypeOK, KilledEnded
<1>3. GroupGone'
  BY <1>1 DEF IInv, GroupGone
<1> QED
  BY <1>1, <1>2, <1>3 DEF IInv, TypeOK

\* A call that lost the race keeps it.
LEMMA RefuseKeeps ==
    ASSUME IInv, NEW t \in Tasks, Refuse(t)
    PROVE  IInv'
<1>1. /\ pc[t] = "refuse" /\ mine[t] \in Runs /\ KillGroup(mine[t])
      /\ UNCHANGED <<row, running, stop, watcher, doomed, spent>>
      /\ pc' = [pc EXCEPT ![t] = "idle"] /\ mine' = [mine EXCEPT ![t] = None]
      /\ at' = [at EXCEPT ![t] = None]
  BY DEF Refuse, Return, IInv, TypeOK, watching, quitting
<1>2. /\ pc'[t] = "idle"
      /\ \A u \in Tasks : u # t => pc'[u] = pc[u] /\ mine'[u] = mine[u] /\ at'[u] = at[u]
  BY <1>1 DEF IInv, TypeOK
<1>3. /\ life' \in [Runs -> {"unborn", "alive", "dead", "reaped"}] /\ life'[mine[t]] # "alive"
      /\ \A q \in Runs : life'[q] = life[q] \/ (life[q] = "alive" /\ life'[q] = "dead")
      /\ killed' \subseteq Runs /\ forked' \subseteq Runs /\ UNCHANGED home
      /\ KilledEnded' /\ GroupGone'
  BY <1>1, KillFacts
<1>4. TypeOK'
  <2>1. \A u \in Tasks : pc'[u] \in {"insert", "watch", "refuse", "signal", "await", "remove"} =>
          mine'[u] \in Runs /\ life'[mine'[u]] # "unborn"
    BY <1>2, <1>3 DEF IInv, TypeOK
  <2> QED
    BY <1>1, <1>3, <2>1 DEF IInv, TypeOK
<1>5. Spawners' = Spawners \ {t}
  BY <1>2 DEF Spawners
<1>6. SpawnedApart'
  BY <1>1, <1>2, <1>3, <1>5 DEF IInv, SpawnedApart, Spawners
<1>7. CallsKnow'
  BY <1>2, <1>3 DEF IInv, CallsKnow, TypeOK
<1>8. RegisteredHome' /\ WatchersKnow' /\ Agrees'
  BY <1>1, <1>3 DEF IInv, RegisteredHome, WatchersKnow, Agrees, Registered, TypeOK
<1>9. UpRegistered'
  <2> SUFFICES ASSUME NEW r \in Runs, life'[r] = "alive", running[home[r]] # r, r \notin doomed
               PROVE  \E u \in Tasks : mine'[u] = r /\ pc'[u] \in {"insert", "refuse"}
    BY <1>1, <1>3 DEF UpRegistered
  <2>1. PICK u \in Tasks : mine[u] = r /\ pc[u] \in {"insert", "refuse"}
    BY <1>3 DEF IInv, UpRegistered
  <2>2. u # t
    BY <1>3, <2>1
  <2> QED
    BY <1>2, <2>1, <2>2
<1> QED
  BY <1>3, <1>4, <1>6, <1>7, <1>8, <1>9 DEF IInv

\* Where no call moves, what is up stays registered, spawned or doomed.
LEMMA ShellsKeep ==
    ASSUME IInv, UNCHANGED <<row, calls, stop, home>>,
           life' \in [Runs -> {"unborn", "alive", "dead", "reaped"}],
           \A q \in Runs : \/ life'[q] = life[q]
                           \/ life[q] = "alive" /\ life'[q] = "dead"
                           \/ life[q] = "dead" /\ life'[q] = "reaped",
           running' \in [Conns -> Runs \cup {None}],
           \A c \in Conns : running'[c] = running[c] \/ running'[c] = None,
           watcher' \in [Runs -> {"none", "waiting", "killing", "drain", "announce", "gone"}],
           \A q \in Runs : watcher[q] = "none" => watcher'[q] = "none",
           killed' \subseteq Runs, forked' \subseteq Runs, doomed' \subseteq Runs, spent' \subseteq Runs,
           WatchersKnow', KilledEnded', GroupGone', Agrees',
           \A q \in Runs : life'[q] = "alive" /\ (running[home[q]] = q \/ q \in doomed) =>
               running'[home[q]] = q \/ q \in doomed'
    PROVE  IInv'
<1> USE DEF calls
<1>1. TypeOK'
  BY DEF IInv, TypeOK
<1>2. SpawnedApart'
  BY DEF IInv, SpawnedApart, Spawners, TypeOK
<1>3. CallsKnow'
  BY DEF IInv, CallsKnow, TypeOK
<1>4. RegisteredHome'
  BY DEF IInv, RegisteredHome, TypeOK
<1>5. UpRegistered'
  BY DEF IInv, UpRegistered
<1> QED
  BY <1>1, <1>2, <1>3, <1>4, <1>5 DEF IInv

\* Nothing but a shell that goes on by itself.
World(r) == Fork(r) \/ End(r)

\* What shells do keeps it.
LEMMA WorldKeeps ==
    ASSUME IInv, NEW r \in Runs, World(r)
    PROVE  IInv'
<1>1. /\ UNCHANGED <<row, calls, stop, home, running, watcher, killed, doomed, spent>>
      /\ life' \in [Runs -> {"unborn", "alive", "dead", "reaped"}]
      /\ \A q \in Runs : life'[q] = life[q] \/ (life[q] = "alive" /\ life'[q] = "dead")
      /\ forked' \subseteq Runs
      /\ life[r] = "alive" /\ forked' \subseteq forked \cup {r}
  BY DEF World, Fork, End, IInv, TypeOK, watching, quitting
<1>2. WatchersKnow' /\ KilledEnded' /\ Agrees'
  BY <1>1 DEF IInv, WatchersKnow, KilledEnded, Agrees, Registered, TypeOK
<1>3. GroupGone'
  BY <1>1 DEF IInv, GroupGone, KilledEnded
<1>4. /\ running' \in [Conns -> Runs \cup {None}] /\ killed' \subseteq Runs
      /\ watcher' \in [Runs -> {"none", "waiting", "killing", "drain", "announce", "gone"}]
      /\ doomed' \subseteq Runs /\ spent' \subseteq Runs
  BY <1>1 DEF IInv, TypeOK
<1> QED
  BY <1>1, <1>2, <1>3, <1>4, ShellsKeep

\* What watchers do keeps it.
LEMMA WatcherKeeps ==
    ASSUME IInv, NEW r \in Runs, Watcher(r)
    PROVE  IInv'
<1>1. CASE HearStop(r)
  <2>1. /\ UNCHANGED <<row, running, stop, calls, doomed, spent>> /\ KillGroup(r)
        /\ watcher[r] = "waiting" /\ watcher' = [watcher EXCEPT ![r] = "killing"]
    BY <1>1 DEF HearStop, quitting
  <2>2. /\ life' \in [Runs -> {"unborn", "alive", "dead", "reaped"}]
        /\ \A q \in Runs : life'[q] = life[q] \/ (life[q] = "alive" /\ life'[q] = "dead")
        /\ killed' \subseteq Runs /\ forked' \subseteq Runs /\ UNCHANGED home
        /\ KilledEnded' /\ GroupGone'
    BY <2>1, KillFacts
  <2>3. WatchersKnow' /\ Agrees'
    BY <2>1, <2>2 DEF IInv, WatchersKnow, Agrees, Registered, TypeOK
  <2>4. /\ running' \in [Conns -> Runs \cup {None}] /\ doomed' \subseteq Runs /\ spent' \subseteq Runs
        /\ watcher' \in [Runs -> {"none", "waiting", "killing", "drain", "announce", "gone"}]
        /\ \A q \in Runs : watcher[q] = "none" => watcher'[q] = "none"
    BY <2>1 DEF IInv, TypeOK
  <2> QED
    BY <2>1, <2>2, <2>3, <2>4, ShellsKeep
<1>2. CASE Reap(r)
  <2>1. /\ UNCHANGED <<row, running, stop, calls, home, killed, forked, doomed, spent>>
        /\ life[r] = "dead" /\ life' = [life EXCEPT ![r] = "reaped"]
        /\ watcher[r] \in {"killing", "waiting"} /\ watcher' = [watcher EXCEPT ![r] = "drain"]
    BY <1>2 DEF Reap, quitting
  <2>2. /\ life' \in [Runs -> {"unborn", "alive", "dead", "reaped"}]
        /\ life'[r] = "reaped" /\ \A q \in Runs : q # r => life'[q] = life[q]
        /\ watcher' \in [Runs -> {"none", "waiting", "killing", "drain", "announce", "gone"}]
        /\ watcher'[r] = "drain" /\ \A q \in Runs : q # r => watcher'[q] = watcher[q]
    BY <2>1 DEF IInv, TypeOK
  <2>3. WatchersKnow' /\ Agrees' /\ KilledEnded' /\ GroupGone'
    BY <2>1, <2>2 DEF IInv, WatchersKnow, Agrees, Registered, KilledEnded, GroupGone, TypeOK
  <2>4. /\ running' \in [Conns -> Runs \cup {None}] /\ doomed' \subseteq Runs /\ spent' \subseteq Runs
        /\ killed' \subseteq Runs /\ forked' \subseteq Runs
    BY <2>1 DEF IInv, TypeOK
  <2> QED
    BY <2>1, <2>2, <2>3, <2>4, ShellsKeep
<1>3. CASE Flush(r) \/ Announce(r)
  <2>1. /\ UNCHANGED <<row, stop, calls, home, life, killed, forked, doomed, spent>>
        /\ watcher[r] \in {"drain", "announce"} /\ life[r] = "reaped"
        /\ watcher' \in [Runs -> {"none", "waiting", "killing", "drain", "announce", "gone"}]
        /\ watcher'[r] \in {"announce", "gone"} /\ \A q \in Runs : q # r => watcher'[q] = watcher[q]
        /\ running' \in [Conns -> Runs \cup {None}]
    BY <1>3 DEF Flush, Announce, Without, IInv, TypeOK, WatchersKnow, processes, quitting
  <2>2. \A c \in Conns : running'[c] = running[c] \/ (running[c] = r /\ running'[c] = None)
    BY <1>3 DEF Flush, Announce, Without, IInv, TypeOK
  <2>3. WatchersKnow' /\ KilledEnded' /\ GroupGone'
    BY <2>1 DEF IInv, WatchersKnow, KilledEnded, GroupGone
  <2>4. r \notin Registered'
    <3> SUFFICES ASSUME NEW c \in Conns, running'[c] = r PROVE FALSE
      BY DEF Registered
    <3>1. running[c] = r /\ r \in Registered
      BY <2>2, NoneAssumption DEF Registered
    <3>2. home[r] = c
      BY <3>1, NoneAssumption DEF IInv, RegisteredHome
    <3>3. watcher[r] = "drain" /\ Flush(r)
      BY <1>3, <3>1 DEF Announce, IInv, Agrees, Flush
    <3> QED
      BY <3>1, <3>2, <3>3, NoneAssumption DEF Flush, Without, IInv, TypeOK
  <2>5. Agrees'
    BY <2>1, <2>2, <2>4 DEF IInv, Agrees, Registered
  <2>6. \A q \in Runs : life'[q] = "alive" /\ running[home[q]] = q => running'[home[q]] = q
    BY <2>1, <2>2 DEF IInv, RegisteredHome
  <2>7. /\ life' \in [Runs -> {"unborn", "alive", "dead", "reaped"}] /\ killed' \subseteq Runs
        /\ forked' \subseteq Runs /\ doomed' \subseteq Runs /\ spent' \subseteq Runs
    BY <2>1 DEF IInv, TypeOK
  <2>8. \A q \in Runs : watcher[q] = "none" => watcher'[q] = "none"
    BY <2>1
  <2> QED
    BY <2>1, <2>2, <2>3, <2>5, <2>6, <2>7, <2>8, ShellsKeep
<1> QED
  BY <1>1, <1>2, <1>3 DEF Watcher

\* The app quitting keeps it.
LEMMA QuittingKeeps ==
    ASSUME IInv, Quitting
    PROVE  IInv'
<1>1. /\ watcher \in [Runs -> {"none", "waiting", "killing", "drain", "announce", "gone"}]
      /\ running \in [Conns -> Runs \cup {None}] /\ doomed \subseteq Runs /\ spent \subseteq Runs
      /\ life \in [Runs -> {"unborn", "alive", "dead", "reaped"}]
      /\ killed \subseteq Runs /\ forked \subseteq Runs
  BY DEF IInv, TypeOK
<1>2. CASE TakeAll
  <2>1. /\ UNCHANGED <<row, calls, stop, home, life, killed, forked, watcher, spent>>
        /\ doomed' = doomed \cup Registered /\ running' = [c \in Conns |-> None]
    BY <1>2 DEF TakeAll, processes, watching
  <2>2. WatchersKnow' /\ KilledEnded' /\ GroupGone' /\ Agrees'
    BY <2>1, NoneAssumption DEF IInv, WatchersKnow, KilledEnded, GroupGone, Agrees, Registered
  <2>3. Registered \subseteq Runs
    BY <1>1 DEF Registered
  <2>4. \A q \in Runs : life[q] = "alive" /\ running[home[q]] = q => q \in Registered
    BY NoneAssumption DEF IInv, RegisteredHome, Registered
  <2> QED
    BY <1>1, <2>1, <2>2, <2>3, <2>4, ShellsKeep
<1>3. ASSUME NEW r \in Runs, KillTaken(r) PROVE IInv'
  <2>1. /\ UNCHANGED <<row, running, calls, stop, watcher>> /\ KillGroup(r)
        /\ doomed' = doomed \ {r} /\ spent' = spent \cup {r}
    BY <1>3 DEF KillTaken, watching
  <2>2. /\ life' \in [Runs -> {"unborn", "alive", "dead", "reaped"}] /\ life'[r] # "alive"
        /\ \A q \in Runs : life'[q] = life[q] \/ (life[q] = "alive" /\ life'[q] = "dead")
        /\ killed' \subseteq Runs /\ forked' \subseteq Runs /\ UNCHANGED home
        /\ KilledEnded' /\ GroupGone'
    BY <2>1, KillFacts
  <2>3. WatchersKnow' /\ Agrees'
    BY <2>1, <2>2 DEF IInv, WatchersKnow, Agrees, Registered, TypeOK
  <2>4. \A q \in Runs : life'[q] = "alive" /\ q \in doomed => q \in doomed'
    BY <2>1, <2>2
  <2> QED
    BY <1>1, <2>1, <2>2, <2>3, <2>4, ShellsKeep
<1>4. ASSUME NEW r \in Runs, DropTaken(r) PROVE IInv'
  <2>1. /\ UNCHANGED <<row, running, processes, calls, stop, watcher, doomed>> /\ spent' = spent \ {r}
    BY <1>4 DEF DropTaken, watching
  <2>2. WatchersKnow' /\ Agrees' /\ KilledEnded' /\ GroupGone'
    BY <2>1 DEF IInv, WatchersKnow, Agrees, Registered, KilledEnded, GroupGone, processes
  <2> QED
    BY <1>1, <2>1, <2>2, ShellsKeep DEF processes
<1> QED
  BY <1>2, <1>3, <1>4 DEF Quitting

-----------------------------------------------------------------------------

\* Every step keeps it.
LEMMA NextKeeps == IInv /\ [Next]_vars => IInv'
<1> SUFFICES ASSUME IInv, [Next]_vars PROVE IInv'
  OBVIOUS
<1>1. ASSUME NEW t \in Tasks, Asks(t) \/ Call(t) PROVE IInv'
  BY <1>1, AsksKeep, LooksKeep, SpawnKeeps, InsertKeeps, WatchKeeps, RefuseKeeps, RemoveKeeps DEF Call, Looks
<1>2. ASSUME NEW r \in Runs, Watcher(r) \/ World(r) PROVE IInv'
  BY <1>2, WatcherKeeps, WorldKeeps
<1>3. CASE UNCHANGED vars
  BY <1>3 DEF vars, IInv, TypeOK, SpawnedApart, CallsKnow, RegisteredHome, WatchersKnow,
     KilledEnded, UpRegistered, Agrees, GroupGone, Registered, Spawners
<1> QED
  BY <1>1, <1>2, <1>3, QuittingKeeps DEF Next, Asks, World

\* So it holds throughout.
LEMMA Kept == Spec => []IInv
BY InitKeeps, NextKeeps, PTL DEF Spec

\* A run leaves the registry by the call that waited for it, the watcher that reaped
\* it, or the app's quitting.
LEMMA LeavesWhenGone == IInv /\ [Next]_vars => [RemovedWhenGone]_vars
<1> SUFFICES ASSUME IInv, Next, NEW c \in Conns, running[c] # None, running'[c] # running[c]
             PROVE  life[running[c]] = "reaped" \/ running[c] \in doomed'
  BY DEF RemovedWhenGone
<1>1. ASSUME NEW t \in Tasks, Remove(t) PROVE life[running[c]] = "reaped"
  BY <1>1 DEF Remove, Without, IInv, CallsKnow, TypeOK
<1>2. ASSUME NEW t \in Tasks, Insert(t) PROVE FALSE
  BY <1>2 DEF Insert, IInv, TypeOK
<1>3. ASSUME NEW r \in Runs, Flush(r) PROVE life[running[c]] = "reaped"
  BY <1>3 DEF Flush, Without, IInv, WatchersKnow, TypeOK
<1>4. CASE TakeAll
  BY <1>4 DEF TakeAll, Registered
<1>5. ASSUME NEW t \in Tasks, Asks(t) \/ Looks(t) \/ Spawn(t) \/ Watch(t) \/ Refuse(t) PROVE FALSE
  BY <1>5 DEF Asks, Click, Stop, Save, Delete, Looks, FindRow, SpawnFails, Get, Signal, Await, Spawn,
     Watch, Refuse
<1>6. ASSUME NEW r \in Runs, World(r) \/ HearStop(r) \/ Reap(r) \/ Announce(r) \/ KillTaken(r) \/ DropTaken(r)
      PROVE  FALSE
  BY <1>6 DEF World, Fork, End, HearStop, Reap, Announce, KillTaken, DropTaken
<1> QED
  BY <1>1, <1>2, <1>3, <1>4, <1>5, <1>6 DEF Next, Call, Watcher, Quitting, Asks, Looks, World

\* For any number of clicks, stops, edits and quits at once: a shell that is up is
\* registered, about to be, or about to be killed, and nothing of a group whose shell the
\* app killed is left up (run_command, stop_all_commands, GroupKill::now).
THEOREM ShellsStayUp == Spec => []ShellsUp
<1>1. IInv => ShellsUp
  BY DEF IInv, UpRegistered, NoneBeside, InHand, ShellsUp
<1> QED
  BY Kept, <1>1, PTL

\* Who is told of an ending does not find the run registered (ShellRun::watch).
THEOREM ListenersAgree == Spec => []Agrees
BY Kept, PTL DEF IInv

\* No stop or ending takes a successor out of the registry (remove_run).
THEOREM SuccessorsStay == Spec => SuccessorKept
BY Kept, LeavesWhenGone, PTL DEF Spec, SuccessorKept

=============================================================================
