---------------------------- MODULE MCAcpSession ----------------------------
(***************************************************************************)
(* Instance of AcpSession for TLC; channels are interchangeable.           *)
(***************************************************************************)
EXTENDS AcpSession, TLC

Symmetry == Permutations(Channel)
=============================================================================
