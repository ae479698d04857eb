--------------------------- MODULE MCFileRequests ----------------------------
(***************************************************************************)
(* Instance of FileRequests for TLC.  Two paths are enough to copy and to  *)
(* move; writes go to one of them, guarded by its initial contents or by   *)
(* those of another request.                                               *)
(***************************************************************************)
EXTENDS FileRequests, TLC

CONSTANTS a, b, r1

MCOp ==
    {o \in Operations :
        /\ o.kind = "write" => o.path = a /\ o.expected \in {None, a, r1}
        /\ o.kind \in {"delete", "copy"} => o.path = a}
=============================================================================
