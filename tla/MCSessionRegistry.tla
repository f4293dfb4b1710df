------------------------- MODULE MCSessionRegistry -------------------------
(* Instances of SessionRegistry for TLC. *)
EXTENDS SessionRegistry, TLC

\* Configs, passwords, callers and writers are compared for equality only.
Symmetry ==
    Permutations(Callers) \cup Permutations(Writers)
        \cup Permutations(Configs) \cup Permutations(Passwords)

=============================================================================
