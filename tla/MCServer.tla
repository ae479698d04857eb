------------------------------ MODULE MCServer -------------------------------
(***************************************************************************)
(* Instance of Server for TLC: one command and one agent meet every        *)
(* combination of listeners.                                               *)
(***************************************************************************)
EXTENDS Server
=============================================================================
