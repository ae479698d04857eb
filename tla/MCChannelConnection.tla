------------------------- MODULE MCChannelConnection -------------------------
(***************************************************************************)
(* Instance of ChannelConnection for TLC: joins are model values.  No      *)
(* symmetry, because the passing run checks liveness.                      *)
(***************************************************************************)
EXTENDS ChannelConnection
=============================================================================
