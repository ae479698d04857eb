----------------------------- MODULE MCDownload ------------------------------
(***************************************************************************)
(* Instance of Download for TLC.  A request allocates one entry at most,   *)
(* so as many entries as requests are enough for each to find a fresh one. *)
(* No symmetry, because the run checks liveness.                           *)
(***************************************************************************)
EXTENDS Download

ASSUME EntriesSuffice == Cardinality(Entry) >= Cardinality(Request)
=============================================================================
