-------------------------- MODULE MCNoDueHistory --------------------------
(***************************************************************************)
(* NoDueHistory for TLC, with the old documents of MCNoDueRequest.         *)
(***************************************************************************)
EXTENDS NoDueHistory, MCNoDueRequest
=============================================================================
