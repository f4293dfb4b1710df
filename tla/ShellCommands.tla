--------------------------- MODULE ShellCommands ---------------------------
(***************************************************************************)
(* The commands that run beside connections: app/shell.rs over             *)
(* shell/mod.rs (the registry) and shell/session.rs (one run and its       *)
(* watcher), with the edits of a connection that stop its command.         *)
(*                                                                         *)
(* A run is a shell that leads a process group. Whoever spawned it         *)
(* registers it and then has it watched; the watcher alone waits for the   *)
(* shell, and so alone can reap it. Calls run on the threads of one        *)
(* runtime: a step ends at an await, and where another thread can get      *)
(* between two locks of the registry, the run or its stop slot.            *)
(***************************************************************************)
EXTENDS Naturals, FiniteSets

CONSTANTS Conns, \* connections
          Runs,  \* bound: shells ever spawned
          Tasks, \* calls in flight at once
          Quits, \* whether the app may be quit
          None

ASSUME NoneAssumption == None \notin Conns \cup Runs
ASSUME QuitsAssumption == Quits \in BOOLEAN

VARIABLES
    row,     \* of each connection: "none", "bare" or "command"
    running, \* the registry: the run of each connection, or None
    home,    \* the connection each run is for, or None
    life,    \* of each shell: "unborn", "alive", "dead", or "reaped"
    killed,  \* runs whose shell the app killed
    forked,  \* runs with other processes alive in their group
    stop,    \* the sender of each run: "unset", "set", or "sent"
    watcher, \* of each run: where its watching task is
    pc,      \* where each call is
    at,      \* the connection it is for, or None
    mine,    \* the run it has a handle on, or None
    doomed,  \* runs stop_all_commands has taken and not yet killed
    spent    \* runs it has killed and not yet dropped

vars == <<row, running, home, life, killed, forked, stop, watcher, pc, at, mine, doomed, spent>>

Registered == {running[c] : c \in Conns} \ {None}

TypeOK ==
    /\ row \in [Conns -> {"none", "bare", "command"}]
    /\ running \in [Conns -> Runs \cup {None}]
    /\ life \in [Runs -> {"unborn", "alive", "dead", "reaped"}]
    /\ killed \subseteq Runs /\ forked \subseteq Runs
    /\ doomed \subseteq Runs /\ spent \subseteq Runs
    /\ home \in [Runs -> Conns \cup {None}]
    /\ stop \in [Runs -> {"unset", "set", "sent"}]
    /\ watcher \in [Runs -> {"none", "waiting", "killing", "drain", "announce", "gone"}]
    /\ pc \in [Tasks -> {"idle", "find", "spawn", "insert", "watch", "refuse",
                         "get", "signal", "await", "remove"}]
    /\ at \in [Tasks -> Conns \cup {None}] /\ mine \in [Tasks -> Runs \cup {None}]
    /\ \A t \in Tasks : pc[t] \in {"insert", "watch", "refuse", "signal", "await", "remove"} =>
           mine[t] \in Runs /\ life[mine[t]] # "unborn"

Init ==
    /\ row = [c \in Conns |-> "command"]
    /\ running = [c \in Conns |-> None]
    /\ life = [r \in Runs |-> "unborn"] /\ killed = {} /\ forked = {}
    /\ stop = [r \in Runs |-> "unset"] /\ watcher = [r \in Runs |-> "none"]
    /\ pc = [t \in Tasks |-> "idle"] /\ at = [t \in Tasks |-> None]
    /\ mine = [t \in Tasks |-> None] 
    /\ home = [r \in Runs |-> None] /\ doomed = {} /\ spent = {}

\* A call moves to p, with a handle on r, or returns.
Go(t, p, r) ==
    /\ pc' = [pc EXCEPT ![t] = p]
    /\ mine' = [mine EXCEPT ![t] = r]
    /\ UNCHANGED at

Return(t) ==
    /\ pc' = [pc EXCEPT ![t] = "idle"] /\ mine' = [mine EXCEPT ![t] = None]
    /\ at' = [at EXCEPT ![t] = None]

processes == <<home, life, killed, forked>>
watching  == <<stop, watcher>>
calls     == <<pc, at, mine>>
quitting  == <<doomed, spent>>

\* Mutant: only the shell is killed, as dropping its handle does.
KillShell(r) ==
    /\ life' = [life EXCEPT ![r] = IF @ = "alive" THEN "dead" ELSE @]
    /\ killed' = IF life[r] = "alive" THEN killed \cup {r} ELSE killed
    /\ UNCHANGED <<home, forked>>

\* GroupKill::now.
KillGroup(r) ==
    /\ life' = [life EXCEPT ![r] = IF @ = "alive" THEN "dead" ELSE @]
    /\ killed' = IF life[r] = "alive" THEN killed \cup {r} ELSE killed
    /\ forked' = forked \ {r}
    /\ UNCHANGED home

\* Mutant: whatever run a connection has now.
WithoutAny(c, r) == [running EXCEPT ![c] = None]

\* ShellRegistry::remove_run: only if it is still the one registered.
Without(c, r) == IF running[c] = r THEN [running EXCEPT ![c] = None] ELSE running

-----------------------------------------------------------------------------
(* The world: a shell forks, and ends on its own *)

Fork(r) ==
    /\ life[r] = "alive" /\ forked' = forked \cup {r}
    /\ UNCHANGED <<row, running, home, life, killed, watching, calls, quitting>>

End(r) ==
    /\ life[r] = "alive" /\ life' = [life EXCEPT ![r] = "dead"]
    /\ UNCHANGED <<row, running, home, killed, forked, watching, calls, quitting>>

-----------------------------------------------------------------------------
(* run_command *)

Click(t, c) ==
    /\ pc[t] = "idle" /\ running[c] = None
    /\ pc' = [pc EXCEPT ![t] = "find"] /\ at' = [at EXCEPT ![t] = c]
    /\ UNCHANGED <<row, running, processes, watching, mine, quitting>>

FindRow(t) ==
    /\ pc[t] = "find"
    /\ \/ row[at[t]] = "command" /\ Go(t, "spawn", None)
       \/ row[at[t]] # "command" /\ Return(t)
    /\ UNCHANGED <<row, running, processes, watching, quitting>>

Spawn(t) ==
    /\ pc[t] = "spawn"
    /\ \E r \in Runs :
        /\ life[r] = "unborn"
        /\ life' = [life EXCEPT ![r] = "alive"] /\ home' = [home EXCEPT ![r] = at[t]]
        /\ Go(t, "insert", r)
    /\ UNCHANGED <<row, running, killed, forked, watching, quitting>>

SpawnFails(t) ==
    /\ pc[t] = "spawn" /\ Return(t)
    /\ UNCHANGED <<row, running, processes, watching, quitting>>

Insert(t) ==
    /\ pc[t] = "insert"
    /\ \/ /\ running[at[t]] = None
          /\ running' = [running EXCEPT ![at[t]] = mine[t]]
          /\ Go(t, "watch", mine[t])
       \/ /\ running[at[t]] # None
          /\ Go(t, "refuse", mine[t])
          /\ UNCHANGED running
    /\ UNCHANGED <<row, processes, watching, quitting>>

Watch(t) ==
    /\ pc[t] = "watch"
    /\ stop' = [stop EXCEPT ![mine[t]] = "set"]
    /\ watcher' = [watcher EXCEPT ![mine[t]] = "waiting"]
    /\ Return(t)
    /\ UNCHANGED <<row, running, processes, quitting>>

\* Mutant: the run that lost is forgotten.
RefuseAndForget(t) ==
    /\ pc[t] = "refuse"
    /\ Return(t)
    /\ UNCHANGED <<row, running, processes, watching, quitting>>

\* Lost the race: the group is killed, and the handle's drop reaps the shell.
Refuse(t) ==
    /\ pc[t] = "refuse"
    /\ KillGroup(mine[t])
    /\ Return(t)
    /\ UNCHANGED <<row, running, watching, quitting>>

-----------------------------------------------------------------------------
(* stop_command, and the edits that end in one *)

Stop(t, c) ==
    /\ pc[t] = "idle"
    /\ pc' = [pc EXCEPT ![t] = "get"] /\ at' = [at EXCEPT ![t] = c]
    /\ UNCHANGED <<row, running, processes, watching, mine, quitting>>

\* save_connection of a row that exists: its command stays or is taken away,
\* or nothing is stored.
Save(t, c) ==
    /\ pc[t] = "idle" /\ row[c] # "none"
    /\ \/ /\ row' = [row EXCEPT ![c] = "command"] /\ UNCHANGED <<pc, at>>
       \/ /\ row' = [row EXCEPT ![c] = "bare"]
          /\ pc' = [pc EXCEPT ![t] = "get"] /\ at' = [at EXCEPT ![t] = c]
    /\ UNCHANGED <<running, processes, watching, mine, quitting>>

\* delete_connection stops the command also when the row could not be deleted.
Delete(t, c) ==
    /\ pc[t] = "idle"
    /\ row' \in {row, [row EXCEPT ![c] = "none"]}
    /\ pc' = [pc EXCEPT ![t] = "get"] /\ at' = [at EXCEPT ![t] = c]
    /\ UNCHANGED <<running, processes, watching, mine, quitting>>

\* Mutant: something is always running.
GetAny(t) ==
    /\ pc[t] = "get" /\ Go(t, "signal", running[at[t]])
    /\ UNCHANGED <<row, running, processes, watching, quitting>>

Get(t) ==
    /\ pc[t] = "get"
    /\ \/ running[at[t]] = None /\ Return(t)
       \/ running[at[t]] # None /\ Go(t, "signal", running[at[t]])
    /\ UNCHANGED <<row, running, processes, watching, quitting>>

\* ShellRun::stop takes the sender when there is one.
Signal(t) ==
    /\ pc[t] = "signal"
    /\ stop' = [stop EXCEPT ![mine[t]] = IF @ = "set" THEN "sent" ELSE @]
    /\ Go(t, "await", mine[t])
    /\ UNCHANGED <<row, running, processes, watcher, quitting>>

\* Mutant: the caller does not wait for the shell to be gone.
GoneOrToldTo(r) == stop[r] = "sent" \/ life[r] = "reaped"

\* The `reaped` token.
Gone(r) == life[r] = "reaped"

Await(t) ==
    /\ pc[t] = "await" /\ Gone(mine[t])
    /\ Go(t, "remove", mine[t])
    /\ UNCHANGED <<row, running, processes, watching, quitting>>

Remove(t) ==
    /\ pc[t] = "remove"
    /\ running' = Without(at[t], mine[t])
    /\ Return(t)
    /\ UNCHANGED <<row, processes, watching, quitting>>

-----------------------------------------------------------------------------
(* ShellRun::watch, the task *)

\* Told to stop, or nobody has a handle on the run any more.
Held(r) == r \in Registered \cup doomed \cup spent \/ \E t \in Tasks : mine[t] = r

Stopping(r) == stop[r] = "sent" \/ ~Held(r)

HearStop(r) ==
    /\ watcher[r] = "waiting" /\ Stopping(r)
    /\ KillGroup(r)
    /\ watcher' = [watcher EXCEPT ![r] = "killing"]
    /\ UNCHANGED <<row, running, stop, calls, quitting>>

\* The shell ended and is waited for; being told to stop is looked at first.
Reap(r) ==
    /\ life[r] = "dead"
    /\ watcher[r] = "killing" \/ (watcher[r] = "waiting" /\ ~Stopping(r))
    /\ life' = [life EXCEPT ![r] = "reaped"]
    /\ watcher' = [watcher EXCEPT ![r] = "drain"]
    /\ UNCHANGED <<row, running, home, killed, forked, stop, calls, quitting>>

\* Mutants: removed only after it is announced, and read to the end of its pipes.
FlushAfter(r) ==
    /\ watcher[r] = "drain"
    /\ watcher' = [watcher EXCEPT ![r] = "announce"]
    /\ UNCHANGED <<row, running, processes, stop, calls, quitting>>

FlushToEnd(r) ==
    /\ watcher[r] = "drain" /\ r \notin forked
    /\ running' = Without(home[r], r)
    /\ watcher' = [watcher EXCEPT ![r] = "announce"]
    /\ UNCHANGED <<row, processes, stop, calls, quitting>>

\* Its last words are read for LAST_WORDS at most, whoever holds its pipes.
Flush(r) ==
    /\ watcher[r] = "drain"
    /\ running' = Without(home[r], r)
    /\ watcher' = [watcher EXCEPT ![r] = "announce"]
    /\ UNCHANGED <<row, processes, stop, calls, quitting>>

Announce(r) ==
    /\ watcher[r] = "announce"
    /\ watcher' = [watcher EXCEPT ![r] = "gone"]
    /\ UNCHANGED <<row, running, processes, stop, calls, quitting>>

-----------------------------------------------------------------------------
(* stop_all_commands, as the app quits *)

TakeAll ==
    /\ Quits /\ Registered # {}
    /\ doomed' = doomed \cup Registered
    /\ running' = [c \in Conns |-> None]
    /\ UNCHANGED <<row, processes, watching, calls, spent>>

KillTaken(r) ==
    /\ r \in doomed
    /\ KillGroup(r)
    /\ doomed' = doomed \ {r} /\ spent' = spent \cup {r}
    /\ UNCHANGED <<row, running, watching, calls>>

DropTaken(r) ==
    /\ r \in spent /\ spent' = spent \ {r}
    /\ UNCHANGED <<row, running, processes, watching, calls, doomed>>

-----------------------------------------------------------------------------

Call(t) ==
    \/ FindRow(t) \/ Spawn(t) \/ SpawnFails(t) \/ Insert(t) \/ Watch(t) \/ Refuse(t)
    \/ Get(t) \/ Signal(t) \/ Await(t) \/ Remove(t)

Watcher(r) == HearStop(r) \/ Reap(r) \/ Flush(r) \/ Announce(r)

Quitting == TakeAll \/ \E r \in Runs : KillTaken(r) \/ DropTaken(r)

Next ==
    \/ \E t \in Tasks : \/ \E c \in Conns : Click(t, c) \/ Stop(t, c) \/ Save(t, c) \/ Delete(t, c)
                        \/ Call(t)
    \/ \E r \in Runs : Watcher(r) \/ Fork(r) \/ End(r)
    \/ Quitting

Spec == Init /\ [][Next]_vars

\* Calls and watchers are polled, and stop_all_commands runs to its end. Nobody
\* has to click, and a shell need not end by itself.
FairSpec ==
    /\ Spec
    /\ \A t \in Tasks : WF_vars(Call(t))
    /\ \A r \in Runs : WF_vars(Watcher(r)) /\ WF_vars(KillTaken(r)) /\ WF_vars(DropTaken(r))

-----------------------------------------------------------------------------
(* What must hold *)

InHand(r) == \E t \in Tasks : mine[t] = r /\ pc[t] \in {"insert", "refuse", "watch"}

\* A shell that is up can be stopped: it is the one registered for its
\* connection, unless the call that spawned it or the app's quitting is about
\* to register it or kill it. A second click leaves no second tunnel (insert,
\* run_command, stop_all_commands).
NoneBeside ==
    \A r \in Runs : life[r] = "alive" =>
        running[home[r]] = r \/ InHand(r) \/ r \in doomed

\* What the app kills goes with everything it forked (GroupKill, process_group).
GroupGone == forked \cap killed = {}

\* One shell that is up and unstopped for a connection, registered with a watcher or
\* on its way to one, and nothing of a killed command's group left up (run_command,
\* GroupKill::now).
ShellsUp == TypeOK /\ NoneBeside /\ GroupGone

\* A run leaves the registry only when its shell is gone, so that a start finds
\* it rather than racing it for its port, or when the app quits; a run that
\* ended never takes its successor out (stop_command, remove_run).
RemovedWhenGone ==
    \A c \in Conns : running[c] # None /\ running'[c] # running[c] =>
        life[running[c]] = "reaped" \/ running[c] \in doomed'
SuccessorKept == [][RemovedWhenGone]_vars

\* Whoever asks what is running when an ending is announced does not find it
\* (watch, "a listener that asks what is running agrees").
Agrees == \A r \in Runs : watcher[r] \in {"announce", "gone"} => r \notin Registered

\* Every ending of a watched run is announced, also when what it forked holds
\* its pipes open, whoever stops it meanwhile (LAST_WORDS).
EndingAnnounced == \A r \in Runs : watcher[r] # "none" /\ life[r] = "dead" ~> watcher[r] = "gone"

\* A shell nobody can stop any more, refused or taken, does not stay up.
StrayEnds ==
    \A r \in Runs : life[r] = "alive" /\ r \notin Registered ~>
                        life[r] # "alive" \/ r \in Registered

-----------------------------------------------------------------------------
(* What the comments say, and the code does not keep *)

\* "Returns once the command is gone" (stop_command), "Have the watcher kill
\* the command" (ShellRun::stop).
StopReturns == \A t \in Tasks : pc[t] = "await" ~> pc[t] # "await"

=============================================================================
