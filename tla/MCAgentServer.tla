--------------------------- MODULE MCAgentServer ---------------------------
(***************************************************************************)
(* AgentServer for TLC.                                                    *)
(***************************************************************************)
EXTENDS AgentServer, TLC

=============================================================================
