--------------------------- MODULE MCDepartments ---------------------------
(***************************************************************************)
(* Departments for TLC: two codes, both with a default login, one student  *)
(* and one form for another.                                               *)
(***************************************************************************)
EXTENDS Departments

CONSTANTS s1, s2, d1, d2, i1, i2, k1, k2, e1

RegNos == [s \in Student |-> s]
At(d) == [dept |-> d, sem |-> 1]
Rosters == {[s \in Student |-> IF s = s1 THEN pl ELSE NoPlace] : pl \in {NoPlace, At(d1)}}
Archives == {[c \in Copy |-> NoCopy],
             [c \in Copy |-> [who |-> s2, place |-> At(d2), due |-> FALSE]]}

\* One department; both.
Registers == {[i \in DeptId |-> IF i = i1 THEN d1 ELSE NoCode],
              [i \in DeptId |-> IF i = i1 THEN d1 ELSE IF i = i2 THEN d2 ELSE NoCode]}

OneEach == {[p \in Editor |-> {"add", "edit", "delete", "restore"}]}

AnyCall == [k \in Clerk |-> IF k = k1 THEN {"add", "edit", "delete"}
                            ELSE {"edit", "toggle", "delete", "password"}]

\* A renaming leaves the login alone only beside calls that have none to write.
LoginWriters == {{"edit"}, {"edit", "delete"}, {"edit", "password"}, {"delete", "password"}}

OnlyRenames == [k \in Clerk |-> {"edit"}]
=============================================================================
