--------------------------- MODULE MCBigQueryJob ---------------------------
(***************************************************************************)
(* BigQueryJob on its own for TLC; MCProtocols has it with several calls.  *)
(***************************************************************************)
EXTENDS BigQueryJob, TLC

=============================================================================
