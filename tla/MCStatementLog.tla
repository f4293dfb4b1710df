--------------------------- MODULE MCStatementLog ---------------------------
(***************************************************************************)
(* StatementLog for TLC.                                                   *)
(***************************************************************************)
EXTENDS StatementLog, TLC

=============================================================================
