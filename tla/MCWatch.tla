------------------------------- MODULE MCWatch -------------------------------
(***************************************************************************)
(* Instance of Watch for TLC: channels and entries are model values.  One  *)
(* entry more than channels, so that a join always finds a fresh one.      *)
(* No symmetry, because the run checks liveness.                           *)
(***************************************************************************)
EXTENDS Watch

ASSUME EntriesSuffice == Cardinality(Entry) > Cardinality(Channel)
=============================================================================
