-------------------------- MODULE MCLanguageClient --------------------------
(***************************************************************************)
(* LanguageClient for TLC.                                                 *)
(***************************************************************************)
EXTENDS LanguageClient, TLC

=============================================================================
