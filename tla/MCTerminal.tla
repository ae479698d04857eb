----------------------------- MODULE MCTerminal ------------------------------
(***************************************************************************)
(* Instance of Terminal for TLC.  Every buffer holds one unit or two, and  *)
(* there is enough input and output to fill all of them at once.           *)
(***************************************************************************)
EXTENDS Terminal

ASSUME BuffersFill ==
    /\ MaxInput * InputSize > InCapacity
    /\ MaxOutput > OutCapacity + Capacity + 1
=============================================================================
