------------------------- MODULE PromotionContract -------------------------
(***************************************************************************)
(* What a promotion promises: the students of a semester, in all           *)
(* departments or in one, move up together, or nobody does.                *)
(***************************************************************************)
EXTENDS Integers

CONSTANTS Student, Dept, AllDepts, DeptOf, StartSems

VARIABLE roster   \* the semester of each student

Batch(from, d) ==
    {s \in Student : /\ d = AllDepts \/ DeptOf[s] = d
                     /\ roster[s] \in IF from = 0 THEN 1..7 ELSE {from}}

Init == roster \in StartSems

\* from = 0: everybody below Semester 8.
Promote ==
    /\ roster' # roster
    /\ \E from \in 0..7, d \in Dept \cup {AllDepts} :
        roster' = [s \in Student |->
            IF s \in Batch(from, d) THEN roster[s] + 1 ELSE roster[s]]

\* The undo of a completed run takes back some of its students after the others.
TakeBack ==
    /\ roster' # roster
    /\ \E S \in SUBSET {s \in Student : roster[s] > 1} :
        roster' = [s \in Student |-> IF s \in S THEN roster[s] - 1 ELSE roster[s]]

Spec == Init /\ [][Promote \/ TakeBack]_roster
=============================================================================
