-------------------------- MODULE MCShellCommands --------------------------
(***************************************************************************)
(* ShellCommands for TLC: the callers are alike, and so are the shells.    *)
(***************************************************************************)
EXTENDS ShellCommands, TLC

Symmetry == Permutations(Tasks) \cup Permutations(Runs)

=============================================================================
