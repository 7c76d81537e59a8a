------------------------------ MODULE MCPingPong ------------------------------
(* A handful of values: both cells are used, overwritten and exchanged often. *)
EXTENDS PingPong
==============================================================================
