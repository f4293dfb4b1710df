---------------------------- MODULE MCPgSession ----------------------------
(***************************************************************************)
(* PgSession for TLC. The connections of a session are alike.              *)
(***************************************************************************)
EXTENDS PgSession, TLC

Symmetry == Permutations(Conns)

=============================================================================
