------------------------------ MODULE MCEndings ------------------------------
(***************************************************************************)
(* What was begun on a connection ends: the gets of its session             *)
(* (SessionRegistry) and its shells (ShellCommands), which share nothing    *)
(* but the rows, of which each has its own here. In a behaviour one of them *)
(* moves and the other rests.                                               *)
(***************************************************************************)
EXTENDS SessionRegistry, TLC

CONSTANTS Runs, Tasks, Quits

VARIABLES stored, running, home, life, killed, forked, stop, watcher, calling, at, mine, doomed, spent

shellVars ==
    <<stored, running, home, life, killed, forked, stop, watcher, calling, at, mine, doomed, spent>>

Shells == INSTANCE ShellCommands WITH Conns <- Ids, row <- stored, pc <- calling

VARIABLE part \* the part that moves

\* Stores that hold something matter to the sessions only.
EndingsInit ==
    /\ Shells!Init /\ Init
    /\ part = "session" \/ (part = "shell" /\ \A id \in Ids : row[id] = None)

EndingsNext ==
    \/ part = "shell" /\ Shells!Next /\ UNCHANGED <<part, vars>>
    \/ part = "session" /\ Next /\ UNCHANGED <<part, shellVars>>

\* The fairness of both FairSpecs, each where its part moves.
EndingsSpec ==
    /\ EndingsInit /\ [][EndingsNext]_<<part, vars, shellVars>>
    /\ \A t \in Tasks : WF_shellVars(part = "shell" /\ Shells!Call(t))
    /\ \A r \in Runs : /\ WF_shellVars(part = "shell" /\ Shells!Watcher(r))
                       /\ WF_shellVars(part = "shell" /\ Shells!KillTaken(r))
                       /\ WF_shellVars(part = "shell" /\ Shells!DropTaken(r))
    /\ \A c \in Callers : WF_vars(part = "session" /\ Get(c))
    /\ \A w \in Writers : WF_vars(part = "session" /\ Write(w))

\* As ShellCommands states them.
StrayEnds       == Shells!StrayEnds
EndingAnnounced == Shells!EndingAnnounced

=============================================================================
