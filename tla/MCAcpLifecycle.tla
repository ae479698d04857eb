--------------------------- MODULE MCAcpLifecycle ---------------------------
(***************************************************************************)
(* Instance of AcpLifecycle for TLC: channels and process incarnations are *)
(* model values, interchangeable wherever no liveness is checked.          *)
(***************************************************************************)
EXTENDS AcpLifecycle, TLC

Symmetry == Permutations(Channel) \cup Permutations(Proc)
=============================================================================
