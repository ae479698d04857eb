------------------------------- MODULE Stream -------------------------------
(***************************************************************************)
(* What a client may rely on when it reconnects to a session: the agent's  *)
(* messages form one stream, and the client sees it from the beginning     *)
(* without gaps.  A reconnection may show it again what it has seen, never *)
(* skip ahead.  The output of a terminal is such a stream as well, of one  *)
(* connection.                                                             *)
(***************************************************************************)
EXTENDS Naturals

VARIABLES
    emitted,   \* messages the agent has sent in the session
    received   \* how much of the stream the client has seen

vars == <<emitted, received>>

Init == emitted = 0 /\ received = 0

Emit == emitted' = emitted + 1 /\ UNCHANGED received

Receive ==
    /\ received < emitted
    /\ received' = received + 1
    /\ UNCHANGED emitted

Spec == Init /\ [][Emit \/ Receive]_vars
=============================================================================
