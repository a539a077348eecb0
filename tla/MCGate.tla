------------------------------- MODULE MCGate -------------------------------
(***************************************************************************)
(* Two browsers of one student; passwords p1 and p2.  The lockout, the     *)
(* sessions and the window meet in few places, so that each gets a story   *)
(* of its own, with what it meets, instead of one with everything.         *)
(***************************************************************************)
EXTENDS GateHistory

Lockout == {"guess", "reset"}
Sessions == {"setup", "reset", "leave"}
Window == {"setup", "leave", "faculty"}

Stories == {Lockout, Sessions, Window}
=============================================================================
