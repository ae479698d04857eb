---------------------------- MODULE MCAcpOutbox -----------------------------
(***************************************************************************)
(* Instance of AcpOutbox for TLC; the client's connections are             *)
(* interchangeable.                                                        *)
(***************************************************************************)
EXTENDS AcpOutbox

Symmetry == Permutations(Channel)
=============================================================================
