----------------------------- MODULE MCRoster -----------------------------
(***************************************************************************)
(* Roster for TLC: two departments, semesters 1, 2 and 8, two calls at a   *)
(* time.                                                                   *)
(***************************************************************************)
EXTENDS Roster

CONSTANTS s1, s2, s3, s4, d1, d2, c1, c2, e1, e2

\* s3 and s4 are two forms for one register number.
RegNos == [s \in Student |-> IF s = s4 THEN s3 ELSE s]

At(d, k) == [dept |-> d, sem |-> k]
Students(a, b) == [s \in Student |-> IF s = s1 THEN a ELSE IF s = s2 THEN b ELSE NoPlace]

\* A class of two, two classes, a class that was mixed before the rule, a
\* Semester 8, and the classmate of a deleted student.
Rosters == {Students(At(d1, 1), At(d1, 1)), Students(At(d1, 1), At(d2, 1)),
            Students(At(d1, 1), At(d1, 2)), Students(At(d2, 8), At(d1, 1)),
            Students(NoPlace, At(d1, 1))}

Entry(s, pl, d) == [who |-> s, place |-> pl, due |-> d]
Archive(a, b) == [c \in Copy |-> IF c = c1 THEN a ELSE b]

\* Nobody; s3 with requests; s3 in Semester 8; s3 in a class that has moved on,
\* and s1; and s3 twice, as two deletions of one student leave it.
Archives == {Archive(NoCopy, NoCopy),
             Archive(Entry(s3, At(d1, 1), TRUE), NoCopy),
             Archive(Entry(s3, At(d1, 8), TRUE), NoCopy),
             Archive(Entry(s3, At(d1, 2), TRUE), Entry(s1, At(d1, 1), FALSE)),
             Archive(Entry(s3, At(d1, 2), TRUE), Entry(s3, At(d1, 1), FALSE))}

Pair(a, b) == [p \in Editor |-> IF p = e1 THEN a ELSE b]

\* Every pair of calls but those that break a property: those of Overlapping,
\* an edit or a profile beside a repair, a deletion beside a restoration, and an
\* import beside a call that may take one of its register numbers.
Separate ==
    {Pair({"add", "bulk"}, {"add", "edit", "profile", "delete", "restore", "sem8", "fix", "promote"}),
     Pair({"restore"}, {"restore", "edit", "profile", "sem8", "fix", "promote"}),
     Pair({"edit"}, {"edit", "delete", "sem8", "promote"}),
     Pair({"profile"}, {"profile", "delete", "sem8", "promote"}),
     Pair({"import"}, {"edit", "profile", "delete", "sem8", "fix", "promote"}),
     Pair({"delete"}, {"delete", "sem8", "fix", "promote"}),
     Pair({"fix", "promote", "sem8"}, {"fix", "promote", "sem8"})}

\* The faculty edits a student who saves his own profile.
Overlapping == {Pair({"edit"}, {"profile"})}
=============================================================================
