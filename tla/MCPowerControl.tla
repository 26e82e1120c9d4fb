---------------------------- MODULE MCPowerControl ----------------------------
(* PowerControl for TLC: any mix of disturbances, as many as the run allows. *)
EXTENDS PowerControl

=============================================================================
