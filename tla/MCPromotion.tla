---------------------------- MODULE MCPromotion ----------------------------
(***************************************************************************)
(* Promotion for TLC: three students of one or two departments.            *)
(***************************************************************************)
EXTENDS Promotion

CONSTANTS s1, s2, s3, d1, d2

\* s1 and s2 are classmates to be.
Departments == [s \in Student |-> IF s \in {s1, s2} THEN d1 ELSE d2]

Roster(a, b, c) == [s \in Student |-> IF s = s1 THEN a ELSE IF s = s2 THEN b ELSE c]

\* One class of two; two years of one department, the lower one about to enter
\* the year of the upper one, beside a Semester 8.
Rosters == {Roster(1, 1, 2), Roster(2, 3, 8)}

OneClass == {Roster(1, 1, 1)}

\* s1 has everything approved, the others have sent nothing.
Dues == {[s \in Student |-> IF s = s1 THEN Cleared ELSE NoDue]}
=============================================================================
