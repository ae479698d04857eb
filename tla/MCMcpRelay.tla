----------------------------- MODULE MCMcpRelay ------------------------------
(***************************************************************************)
(* Instance of McpRelay for TLC: channels and requests are model values.   *)
(* No symmetry, because the run checks liveness.                           *)
(***************************************************************************)
EXTENDS McpRelay
=============================================================================
