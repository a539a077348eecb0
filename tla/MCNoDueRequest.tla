-------------------------- MODULE MCNoDueRequest --------------------------
(***************************************************************************)
(* NoDueRequest for TLC: model values come from the .cfg files, and the    *)
(* documents of the old attempts model from here.                          *)
(***************************************************************************)
EXTENDS NoDueRequest

Old(status, attempts) ==
    [status |-> status, attempts |-> attempts, model |-> 1,
     cooldown |-> 0, created |-> 0, receipt |-> NoFile]

\* Sent once; sent twice; approved after two sends; rejected after one.
OldSent     == {Old("PENDING", 1), Old("PENDING", 2)}
OldAnswered == {Old("APPROVED", 2), Old("REJECTED", 1)}
OldAll      == OldSent \cup OldAnswered
=============================================================================
