------------------------------ MODULE Roster ------------------------------
(***************************************************************************)
(* The roster and its rule: one semester per department and year.          *)
(*                                                                         *)
(* Whoever writes a student's class checks the rule before the write,      *)
(* verifies it after the write, and takes the write back when the second   *)
(* look fails.  Nothing makes the three one: other calls come in between,  *)
(* and a promotion announces itself by a lock that the two checks read.    *)
(*                                                                         *)
(* An Editor is one call of a page: add_student, bulk_add_students,        *)
(* import_students_excel, edit_student, update_student_profile,            *)
(* delete_students, restore_archived, remove_sem8_students, fix_cohort or  *)
(* run_promotion.  Every action is one call to the database with the local *)
(* computation after it; the two reads of a check (lock, class) are one.   *)
(* A promotion is taken as in the module Promotion when nothing fails: its *)
(* journal, its faults and its undo are there.                             *)
(***************************************************************************)
EXTENDS Integers, FiniteSets

CONSTANTS
    Student,       \* documents of the students collection, by _id
    RegOf,         \* their register numbers, which the index keeps unique
    Dept, Sem,     \* department codes, semesters
    NoPlace,       \* the place of a document that does not exist
    Copy, NoCopy,  \* documents of archived_students
    StartRosters,  \* rosters and archives the calls may find
    StartArchives,
    Editor,
    Casts,         \* which calls each editor may make
    Resave,        \* forms are also saved with the class unchanged
    Killable       \* editors whose process may be killed in mid-call

Place == [dept : Dept, sem : Sem]
Year(k) == (k + 1) \div 2

Adding  == {"add", "bulk", "import"}
Editing == {"edit", "profile"}
Locking == {"sem8", "fix", "promote"}
Kinds   == Adding \cup Editing \cup Locking \cup {"delete", "restore"}

Archived == [who : Student, place : Place, due : BOOLEAN]

ASSUME RosterAssumption ==
    /\ Sem \subseteq 1..8
    /\ NoPlace \notin Place
    /\ \A c \in Copy : c # NoCopy
    /\ NoCopy \notin Archived
    /\ StartRosters \subseteq [Student -> Place \cup {NoPlace}]
    /\ StartArchives \subseteq [Copy -> Archived \cup {NoCopy}]
    /\ Casts \subseteq [Editor -> SUBSET Kinds]
    /\ Resave \in BOOLEAN
    /\ Killable \subseteq Editor

ASSUME FiniteAssumption == IsFiniteSet(Student) /\ IsFiniteSet(Copy)

VARIABLES
    place,    \* department and semester of each student
    due,      \* the students with requests and history
    archive,
    locked,   \* promotion_in_progress
    call,     \* the local variables of each editor
    cast,
    life,     \* history: ids not handed out, asked for, entered for good
    found     \* history: classes mixed from the start and not repaired since

rosterVars == <<place, due, archive, locked, call, cast, life, found>>

-----------------------------------------------------------------------------
PCs == {"idle", "look", "check", "insert", "save", "verify", "unadd", "unsave",
        "dues", "drop", "copy", "remove", "clear", "grace", "plan", "move",
        "settle", "repair", "release", "done", "killed"}

\* who: the documents the call is about; to: the class asked for; was: the
\* class read; new: the documents it inserted; copy, dues: the archive's document
\* and whether it holds requests; mixed: the classes mixed before a promotion.
Local == [pc : PCs, kind : Kinds, who : SUBSET Student,
          to : Place \cup {NoPlace}, was : Place \cup {NoPlace},
          new : SUBSET Student, copy : Copy \cup {NoCopy}, dues : BOOLEAN,
          mixed : SUBSET (Dept \X (1..4))]

NoCall == [pc |-> "idle", kind |-> "add", who |-> {}, to |-> NoPlace,
           was |-> NoPlace, new |-> {}, copy |-> NoCopy, dues |-> FALSE,
           mixed |-> {}]

Goto(p, pc) == call' = [call EXCEPT ![p].pc = pc]

Present == {s \in Student : place[s] # NoPlace}
ArchivedStudents == {s \in Student : \E c \in Copy : archive[c] # NoCopy /\ archive[c].who = s}
RegTaken(s) == \E t \in Present : RegOf[t] = RegOf[s]

-----------------------------------------------------------------------------
(***************************************************************************)
(* The rule.                                                               *)
(***************************************************************************)

\* cohort_semesters: the semesters in a department and year, without some.
Semesters(d, y, except) ==
    {place[s].sem : s \in {t \in Present \ except :
                              place[t].dept = d /\ Year(place[t].sem) = y}}

MixedClasses ==
    {c \in Dept \X (1..4) : Cardinality(Semesters(c[1], c[2], {})) > 1}

\* check_cohort_semester
MayJoin(pl, except) ==
    /\ ~locked
    /\ Semesters(pl.dept, Year(pl.sem), except) \subseteq {pl.sem}

\* Mutant: the second look takes everything for good.
AlwaysHolds(pl) == ~locked

\* verify_cohort_after_write
Holds(pl) ==
    /\ ~locked
    /\ Cardinality(Semesters(pl.dept, Year(pl.sem), {})) <= 1

-----------------------------------------------------------------------------
RosterInit ==
    /\ place \in StartRosters
    /\ due \in {{}, Present}
    /\ archive \in StartArchives
    /\ ArchivedStudents \cap Present = {}
    /\ locked = FALSE
    /\ call = [p \in Editor |-> NoCall]
    /\ cast \in Casts
    /\ life = [s \in Student |-> IF s \in Present \cup ArchivedStudents THEN "student" ELSE "new"]
    /\ found = MixedClasses

\* The calls p may still make.
Open(p) == IF call[p].pc = "idle" THEN cast[p] ELSE {}

Begin(p, kind, rec) == call' = [call EXCEPT ![p] = [rec EXCEPT !.kind = kind]]

-----------------------------------------------------------------------------
(***************************************************************************)
(* New students: one, a range of register numbers, a spreadsheet.          *)
(***************************************************************************)

\* The form is valid; every row of a spreadsheet is for one class.
StartAdding(p) ==
    \E kind \in Open(p) \cap Adding, S \in SUBSET Student, to \in Place :
        /\ S # {}
        /\ kind = "add" => Cardinality(S) = 1
        /\ \A s \in S : life[s] = "new"
        /\ \A s, t \in S : RegOf[s] = RegOf[t] => s = t
        /\ Begin(p, kind, [NoCall EXCEPT !.who = S, !.to = to,
                                         !.pc = IF kind = "import" THEN "look" ELSE "check"])
        /\ life' = [s \in Student |-> IF s \in S THEN "asked" ELSE life[s]]
        /\ UNCHANGED <<place, due, archive, locked, cast, found>>

\* Register numbers that exist are left out.
LookForDuplicates(p) ==
    LET S == {s \in call[p].who : ~RegTaken(s)} IN
    /\ call[p].pc = "look" /\ call[p].kind \in Adding
    /\ call' = [call EXCEPT ![p].who = S,
            ![p].pc = IF S = {} THEN "done"
                      ELSE IF call[p].kind = "import" THEN "check" ELSE "insert"]
    /\ UNCHANGED <<place, due, archive, locked, cast, life, found>>

\* check_cohort_semester: an edited student is not counted.
CheckClass(p) ==
    LET self == IF call[p].kind \in Editing THEN call[p].who ELSE {}
        next == IF call[p].kind \in {"add", "bulk"} THEN "look"
                ELSE IF call[p].kind \in Editing THEN "save" ELSE "insert"
    IN
    /\ call[p].pc = "check"
    /\ Goto(p, IF MayJoin(call[p].to, self) THEN next ELSE "done")
    /\ UNCHANGED <<place, due, archive, locked, cast, life, found>>

\* insert_one and insert_many: the index refuses the register numbers taken in
\* the meantime.  An import that meets one ends there, with the rest inserted
\* and not verified.
Insert(p) ==
    LET S == {s \in call[p].who : ~RegTaken(s)}
        cut == S = {} \/ (call[p].kind = "import" /\ S # call[p].who)
    IN
    /\ call[p].pc = "insert"
    /\ place' = [s \in Student |-> IF s \in S THEN call[p].to ELSE place[s]]
    /\ life' = [s \in Student |-> IF s \in S /\ cut THEN "student" ELSE life[s]]
    /\ call' = [call EXCEPT ![p].new = S, ![p].pc = IF cut THEN "done" ELSE "verify"]
    /\ UNCHANGED <<due, archive, locked, cast, found>>

\* delete_one, delete_many of what this call inserted.
Unadd(p) ==
    /\ call[p].pc = "unadd"
    /\ place' = [s \in Student |-> IF s \in call[p].new THEN NoPlace ELSE place[s]]
    /\ Goto(p, "done")
    /\ UNCHANGED <<due, archive, locked, cast, life, found>>

\* verify_cohort_after_write
Verify(p) ==
    LET ok == Holds(call[p].to) IN
    /\ call[p].pc = "verify"
    /\ Goto(p, IF ok THEN IF call[p].kind = "restore" THEN "dues" ELSE "done"
               ELSE IF call[p].kind \in Editing THEN "unsave" ELSE "unadd")
    /\ life' = [s \in Student |-> IF ok /\ s \in call[p].new THEN "student" ELSE life[s]]
    /\ UNCHANGED <<place, due, archive, locked, cast, found>>

-----------------------------------------------------------------------------
(***************************************************************************)
(* Edits: the faculty's form, the student's own profile.                   *)
(***************************************************************************)

\* The student is read.  Only a change of class is checked; the profile form
\* has a year and a semester, and keeps the department.
StartEditing(p) ==
    \E kind \in Open(p) \cap Editing, s \in Student, to \in Place :
        /\ place[s] # NoPlace
        /\ kind = "profile" => to.dept = place[s].dept
        /\ Resave \/ to # place[s]
        /\ Begin(p, kind, [NoCall EXCEPT !.who = {s}, !.to = to, !.was = place[s],
                              !.pc = IF to = place[s] THEN "save" ELSE "check"])
        /\ UNCHANGED <<place, due, archive, locked, cast, life, found>>

\* A profile writes the semester whatever the department has become.
Rewritten(p, pl) ==
    [s \in Student |->
        IF s \in call[p].who \cap Present
        THEN IF call[p].kind = "profile" THEN [place[s] EXCEPT !.sem = pl.sem] ELSE pl
        ELSE place[s]]

\* The faculty's form verifies a change only, the profile always.
Save(p) ==
    /\ call[p].pc = "save"
    /\ place' = Rewritten(p, call[p].to)
    /\ Goto(p, IF call[p].kind = "profile" \/ call[p].to # call[p].was
               THEN "verify" ELSE "done")
    /\ UNCHANGED <<due, archive, locked, cast, life, found>>

\* The class read at the start is written back, whatever came in between.
Unsave(p) ==
    /\ call[p].pc = "unsave"
    /\ place' = Rewritten(p, call[p].was)
    /\ Goto(p, "done")
    /\ UNCHANGED <<due, archive, locked, cast, life, found>>

-----------------------------------------------------------------------------
(***************************************************************************)
(* Deletion, by way of the archive, and restoration from it.               *)
(***************************************************************************)

\* delete_students: the selection of a page that may be out of date.
StartDeleting(p) ==
    \E kind \in Open(p) \cap {"delete"}, s \in Student :
        /\ ~locked
        /\ place[s] # NoPlace \/ life[s] = "student"
        /\ Begin(p, kind, [NoCall EXCEPT !.who = {s}, !.pc = "copy"])
        /\ UNCHANGED <<place, due, archive, locked, cast, life, found>>

\* archive_students: those that exist, under an _id that no call knows.
CopyToArchive(p) ==
    LET S    == call[p].who \cap Present
        free == {c \in Copy : archive[c] = NoCopy /\ \A q \in Editor : call[q].copy # c}
    IN
    /\ call[p].pc = "copy"
    /\ Cardinality(S) <= Cardinality(free)
    /\ LET at == CHOOSE f \in [S -> free] : \A s, t \in S : f[s] = f[t] => s = t
       IN  archive' = [c \in Copy |->
                IF \E s \in S : at[s] = c
                THEN LET s == CHOOSE s \in S : at[s] = c
                     IN  [who |-> s, place |-> place[s], due |-> s \in due]
                ELSE archive[c]]
    /\ Goto(p, "remove")
    /\ UNCHANGED <<place, due, locked, cast, life, found>>

Remove(p) ==
    /\ call[p].pc = "remove"
    /\ place' = [s \in Student |-> IF s \in call[p].who THEN NoPlace ELSE place[s]]
    /\ Goto(p, "clear")
    /\ UNCHANGED <<due, archive, locked, cast, life, found>>

\* The requests go last, and with Semester 8 the history.
ClearDues(p) ==
    /\ call[p].pc = "clear"
    /\ due' = due \ call[p].who
    /\ Goto(p, IF call[p].kind = "sem8" THEN "release" ELSE "done")
    /\ UNCHANGED <<place, archive, locked, cast, life, found>>

\* Mutant: the copy is given up first.
StartRestoringLate(p) ==
    \E kind \in Open(p) \cap {"restore"}, c \in Copy :
        /\ ~locked
        /\ archive[c] # NoCopy
        /\ Begin(p, kind, [NoCall EXCEPT !.copy = c, !.who = {archive[c].who},
                                !.to = archive[c].place, !.dues = archive[c].due,
                                !.pc = "drop"])
        /\ UNCHANGED <<place, due, archive, locked, cast, life, found>>

\* restore_archived, one copy after the other.
StartRestoring(p) ==
    \E kind \in Open(p) \cap {"restore"}, c \in Copy :
        /\ ~locked
        /\ archive[c] # NoCopy
        /\ Begin(p, kind, [NoCall EXCEPT !.copy = c, !.who = {archive[c].who},
                                !.to = archive[c].place, !.dues = archive[c].due,
                                !.pc = "look"])
        /\ UNCHANGED <<place, due, archive, locked, cast, life, found>>

LookForStudent(p) ==
    /\ call[p].pc = "look" /\ call[p].kind = "restore"
    /\ Goto(p, IF \E s \in call[p].who : RegTaken(s) THEN "done" ELSE "check")
    /\ UNCHANGED <<place, due, archive, locked, cast, life, found>>

\* Mutant: only the student comes back.
ReinsertNothing(p) ==
    /\ call[p].pc = "dues"
    /\ Goto(p, "drop")
    /\ UNCHANGED <<place, due, archive, locked, cast, life, found>>

\* insert_one for each request and history row of the copy.
ReinsertDues(p) ==
    /\ call[p].pc = "dues"
    /\ due' = IF call[p].dues THEN due \cup call[p].who ELSE due
    /\ Goto(p, "drop")
    /\ UNCHANGED <<place, archive, locked, cast, life, found>>

DropCopy(p) ==
    /\ call[p].pc = "drop"
    /\ archive' = [archive EXCEPT ![call[p].copy] = NoCopy]
    /\ Goto(p, "done")
    /\ UNCHANGED <<place, due, locked, cast, life, found>>

-----------------------------------------------------------------------------
(***************************************************************************)
(* Calls that hold the lock.                                               *)
(***************************************************************************)

\* acquire_lock
Lock(p) ==
    \E kind \in Open(p) \cap Locking :
        /\ ~locked /\ locked' = TRUE
        /\ Begin(p, kind, [NoCall EXCEPT !.pc = IF kind = "promote" THEN "grace" ELSE "plan"])
        /\ UNCHANGED <<place, due, archive, cast, life, found>>

\* release_lock
Release(p) ==
    /\ call[p].pc = "release"
    /\ locked' = FALSE
    /\ Goto(p, "done")
    /\ UNCHANGED <<place, due, archive, cast, life, found>>

\* Mutant: a promotion starts at once.
NoGrace(p) ==
    /\ call[p].pc = "grace"
    /\ Goto(p, "plan")
    /\ UNCHANGED <<place, due, archive, locked, cast, life, found>>

\* WRITE_GRACE_SECONDS: the writes that passed their check before the lock are
\* taken to end meanwhile.
InFlight == {"look", "insert", "save", "verify", "unadd", "unsave", "dues", "drop",
             "copy", "remove", "clear"}

Grace(p) ==
    /\ call[p].pc = "grace"
    /\ \A q \in Editor : call[q].pc \notin InFlight
    /\ Goto(p, "plan")
    /\ UNCHANGED <<place, due, archive, locked, cast, life, found>>

\* remove_sem8_students reads who they are.
PlanRemoval(p) ==
    LET S == {s \in Present : place[s].sem = 8} IN
    /\ call[p].pc = "plan" /\ call[p].kind = "sem8"
    /\ call' = [call EXCEPT ![p].who = S, ![p].pc = IF S = {} THEN "release" ELSE "copy"]
    /\ UNCHANGED <<place, due, archive, locked, cast, life, found>>

InClass(d, y) == {s \in Present : place[s].dept = d /\ Year(place[s].sem) = y}

\* fix_cohort reads the students of the other semester of the year.
PlanFix(p) ==
    /\ call[p].pc = "plan" /\ call[p].kind = "fix"
    /\ \E to \in Place :
        LET S == {s \in InClass(to.dept, Year(to.sem)) : place[s].sem # to.sem} IN
        call' = [call EXCEPT ![p].who = S, ![p].to = to,
                                 ![p].pc = IF S = {} THEN "release" ELSE "repair"]
    /\ UNCHANGED <<place, due, archive, locked, cast, life, found>>

\* update_many: semester and year of those that still exist.
Repair(p) ==
    LET to == call[p].to IN
    /\ call[p].pc = "repair"
    /\ place' = [s \in Student |-> IF s \in call[p].who \cap Present
                                   THEN [place[s] EXCEPT !.sem = to.sem] ELSE place[s]]
    /\ found' = found \ {<<to.dept, Year(to.sem)>>}
    /\ Goto(p, "release")
    /\ UNCHANGED <<due, archive, locked, cast, life>>

\* Mutant: the highest semester is promoted too.
MayPromoteAny(from, S) == S # {}

\* check_promotion of one semester in one department, with the students S.
MayPromote(from, S) ==
    LET next == [from EXCEPT !.sem = @ + 1] IN
    /\ next \in Place /\ S # {}
    /\ from.sem \in {2, 4, 6} => \A s \in Present : place[s].dept = from.dept => place[s].sem # 8
    /\ InClass(next.dept, Year(next.sem)) \subseteq S

PlanPromotion(p) ==
    /\ call[p].pc = "plan" /\ call[p].kind = "promote"
    /\ \E from \in Place :
        LET S == {s \in Present : place[s] = from} IN
        /\ MayPromote(from, S)
        /\ call' = [call EXCEPT ![p].who = S, ![p].was = from,
                                 ![p].to = [from EXCEPT !.sem = @ + 1],
                                 ![p].mixed = MixedClasses, ![p].pc = "move"]
    /\ UNCHANGED <<place, due, archive, locked, cast, life, found>>

\* The rules forbid every promotion.
RefusePromotion(p) ==
    /\ call[p].pc = "plan" /\ call[p].kind = "promote"
    /\ Goto(p, "release")
    /\ UNCHANGED <<place, due, archive, locked, cast, life, found>>

\* update_many on those that are still in the semester.
Move(p) ==
    /\ call[p].pc = "move"
    /\ place' = [s \in Student |->
            IF s \in call[p].who \cap Present /\ place[s].sem = call[p].was.sem
            THEN [place[s] EXCEPT !.sem = call[p].to.sem] ELSE place[s]]
    /\ Goto(p, "settle")
    /\ UNCHANGED <<due, archive, locked, cast, life, found>>

\* The integrity check: a class mixed since undoes the run, for the students
\* who are in one of its two semesters.
Settle(p) ==
    /\ call[p].pc = "settle"
    /\ place' = [s \in Student |->
            IF /\ ~(MixedClasses \subseteq call[p].mixed)
               /\ s \in call[p].who \cap Present
               /\ place[s].sem \in {call[p].was.sem, call[p].to.sem}
            THEN [place[s] EXCEPT !.sem = call[p].was.sem] ELSE place[s]]
    /\ Goto(p, "release")
    /\ UNCHANGED <<due, archive, locked, cast, life, found>>

\* The process is killed in the middle of a call that holds no lock.
Kill(p) ==
    /\ p \in Killable /\ call[p].kind \notin Locking
    /\ call[p].pc \notin {"idle", "done", "killed"}
    /\ Goto(p, "killed")
    /\ UNCHANGED <<place, due, archive, locked, cast, life, found>>

-----------------------------------------------------------------------------
Add(p) == StartAdding(p) \/ LookForDuplicates(p) \/ CheckClass(p) \/ Insert(p)
          \/ Verify(p) \/ Unadd(p)
Edit(p) == StartEditing(p) \/ Save(p) \/ Unsave(p)
Delete(p) == StartDeleting(p) \/ CopyToArchive(p) \/ Remove(p) \/ ClearDues(p)
Restore(p) == StartRestoring(p) \/ LookForStudent(p) \/ ReinsertDues(p) \/ DropCopy(p)
Promote(p) == Lock(p) \/ Grace(p) \/ PlanRemoval(p) \/ PlanFix(p) \/ Repair(p)
              \/ PlanPromotion(p) \/ RefusePromotion(p) \/ Move(p) \/ Settle(p) \/ Release(p)

RosterStep(p) == Add(p) \/ Edit(p) \/ Delete(p) \/ Restore(p) \/ Promote(p) \/ Kill(p)

RosterNext == \E p \in Editor : RosterStep(p)

RosterSpec == RosterInit /\ [][RosterNext]_rosterVars

-----------------------------------------------------------------------------
RosterTypeOK ==
    /\ place \in [Student -> Place \cup {NoPlace}]
    /\ due \subseteq Student
    /\ archive \in [Copy -> Archived \cup {NoCopy}]
    /\ locked \in BOOLEAN
    /\ call \in [Editor -> Local]
    /\ cast \in Casts
    /\ life \in [Student -> {"new", "asked", "student"}]
    /\ found \subseteq Dept \X (1..4)

\* Nobody is in the middle of a call, nor was killed there.
Quiet == \A p \in Editor : call[p].pc \in {"idle", "done"}

\* A form saved with the class it was read with: it asks for no check.
SameClass(l) == l.kind \in Editing /\ l.to = l.was

\* THE RULE of promotion.py: when every write has been verified or taken back,
\* no class has two semesters that had not when it was found, or was repaired.
\* Forms saved with the class unchanged are no part of it: see PromotionAlone.
ClassesWhole ==
    Quiet /\ (\A p \in Editor : ~SameClass(call[p])) => MixedClasses \subseteq found

\* What archive_students is for: a student who was entered is on the roster or
\* in the archive, also when the deletion or the restoration was killed.
NobodyLost ==
    \A s \in Student : life[s] = "student" =>
        place[s] # NoPlace \/ s \in ArchivedStudents

\* s has also been deleted, or removed with Semester 8.
Retaken(s) ==
    \E q \in Editor : /\ call[q].kind \in {"delete", "sem8"} /\ s \in call[q].who
                      /\ call[q].pc \in {"remove", "clear", "release", "done", "killed"}

\* A copy leaves the archive when all it holds is back: never for a
\* restoration that was taken back, refused or killed.  Only where another call
\* takes the student off the roster as well may something be missing.
RestoredWhole ==
    [][\A c \in Copy : archive[c] # NoCopy /\ archive'[c] = NoCopy =>
            \/ Retaken(archive[c].who)
            \/ /\ place[archive[c].who] # NoPlace
               /\ archive[c].due => archive[c].who \in due]_rosterVars

\* Between the grace period and the end of a promotion nobody else writes the
\* roster ("Roster writes are refused while it is held", promotion.py), except
\* for a form saved with the class unchanged, which nothing refuses, and which
\* writes the class of the one student it shows.
PromotionAlone ==
    [][\A p \in Editor : call[p].pc \in {"move", "settle"} /\ call'[p].pc = call[p].pc
            => \A s \in Student : place'[s] # place[s] =>
                  \E q \in Editor : /\ SameClass(call[q]) /\ s \in call[q].who
                                    /\ call[q].pc \in {"save", "unsave"}]_rosterVars
=============================================================================
