----------------------------- MODULE Promotion -----------------------------
(***************************************************************************)
(* Semester promotion: one run at a time under a lease in the database, a  *)
(* journal before anything changes, and three ways back: a failed run      *)
(* undoes itself, a killed one is undone by whoever finds it, a completed  *)
(* one is undone by the faculty while nobody has used the new semester.    *)
(*                                                                         *)
(*   Promoter  run_promotion                                               *)
(*   Undoer    rollback_last_run                                           *)
(*   Worker    recover_interrupted_runs, in the maintenance cycle          *)
(*                                                                         *)
(* On a replica set (txn) the writes to the students are one transaction;  *)
(* otherwise every call to the database is an action of its own.  The      *)
(* requests of a student are taken together as one, which student and      *)
(* offices go on using meanwhile: nothing keeps them out.                  *)
(***************************************************************************)
EXTENDS Integers, FiniteSets

CONSTANTS
    Student, NoStudent,
    Dept, AllDepts,
    DeptOf,      \* the department of each student
    StartSems,   \* the rosters to start from
    StartDues,   \* and the requests
    Active,      \* students whose request is sent and answered meanwhile
    Promoter, Undoer, Worker,
    Killable,    \* threads whose process may be killed
    Faults,      \* stages whose database calls may fail: "apply", "restore"
    Slow,        \* a live run may outlast its lease
    MaxRuns      \* bound on the number of runs

Thread == Promoter \cup Undoer \cup Worker

Sem == 1..8
Promotable == 1..7
NewYearFrom == {2, 4, 6}
Year(k) == (k + 1) \div 2

\* Runs are numbered in the order of their start.
Run == 1..MaxRuns
NoRun == 0

\* after: the runs that had ended, or begun if unfinished, when it was written.
Due == [status : {"ABSENT", "NOT_SENT", "PENDING", "APPROVED"}, after : SUBSET Run]
NoDue == [status |-> "ABSENT", after |-> {}]
Cleared == [status |-> "APPROVED", after |-> {}]

ASSUME SetsAssumption ==
    /\ NoStudent \notin Student /\ AllDepts \notin Dept
    /\ DeptOf \in [Student -> Dept]
    /\ StartSems \subseteq [Student -> Sem]
    /\ StartDues \subseteq [Student -> {NoDue, Cleared}]
    /\ Active \subseteq Student
    /\ Promoter \cap Undoer = {} /\ Promoter \cap Worker = {} /\ Undoer \cap Worker = {}
    /\ Killable \subseteq Thread
    /\ Faults \subseteq {"apply", "restore"} /\ Slow \in BOOLEAN
    /\ MaxRuns \in Nat

\* A row of promotion_logs: the run that wrote it (NoRun: the completion log),
\* the semester the student moved on to (0: none yet), everything approved?
Row == [by : {NoRun} \cup Run, to : {0} \cup Sem, cleared : BOOLEAN]
NoRow == [by |-> NoRun, to |-> 0, cleared |-> FALSE]

\* A journal entry: semester, request and history row as they were.
Item == [from : Promotable, due : Due, row : Row]
NoItem == [from |-> 0, due |-> NoDue, row |-> NoRow]

RunStatuses == {"none", "in_progress", "interrupted", "completed", "failed",
                "auto_undone", "rolled_back", "auto_recovered"}

VARIABLES
    txn,     \* transactions_supported
    lock,    \* "free", "held", or "stale": its expiry has passed
    sem,     \* the semester of each student
    due,     \* the request of each student
    log,     \* log[s][k]: the history row of student s for semester k
    run,     \* promotion_runs: the status of each run
    item,    \* promotion_run_items: item[r][s]
    proc     \* the local variables of each thread

vars == <<txn, lock, sem, due, log, run, item, proc>>

-----------------------------------------------------------------------------
Applying  == {"extend", "history", "move"}
Restoring == {"restore", "delete", "insert", "relog", "mark"}

PCs == {"idle", "recover", "check", "journal", "complete", "verify", "interrupt",
        "undo_check", "release"} \cup Applying \cup Restoring

\* seen: the roster the run was planned on; left: students still to come in the
\* loop the thread is in; cur: the one it is at; sems: semesters not yet
\* applied; mixed: classes mixed before the run; verdict: the status of the run
\* once restored; then: where recovery returns.
Local == [pc : PCs, run : {NoRun} \cup Run, seen : [Student -> {0} \cup Sem],
          left : SUBSET Student,
          cur : Student \cup {NoStudent}, sems : SUBSET Promotable,
          mixed : SUBSET (Dept \X (1..4)), verdict : RunStatuses,
          then : {"check", "release"}]

Idle == [pc |-> "idle", run |-> NoRun, seen |-> [s \in Student |-> 0], left |-> {},
         cur |-> NoStudent, sems |-> {}, mixed |-> {}, verdict |-> "none",
         then |-> "release"]

Goto(p, pc) == proc' = [proc EXCEPT ![p].pc = pc]

-----------------------------------------------------------------------------
(***************************************************************************)
(* The rules of a promotion.                                               *)
(***************************************************************************)

InScope(s, d) == d = AllDepts \/ DeptOf[s] = d

\* The students a promotion moves: those of semester from (0: of all seven),
\* in department d or in all.
Moving(from, d) ==
    {s \in Student : /\ InScope(s, d)
                     /\ sem[s] \in IF from = 0 THEN Promotable ELSE {from}}

\* Department + Year pairs with more than one semester.
MixedClasses(roster) ==
    {c \in Dept \X (1..4) : \E s, t \in Student :
        /\ DeptOf[s] = c[1] /\ DeptOf[t] = c[1]
        /\ Year(roster[s]) = c[2] /\ Year(roster[t]) = c[2]
        /\ roster[s] # roster[t]}

MovedUp(S) == [s \in Student |-> IF s \in S THEN sem[s] + 1 ELSE sem[s]]

\* Mutant: the promotion is not simulated before it is made.
MayPromoteUnsimulated(from, d) ==
    /\ from = 0 => d = AllDepts
    /\ Moving(from, d) # {}
    /\ from \in {0} \cup NewYearFrom => \A s \in Student : InScope(s, d) => sem[s] # 8

\* check_promotion: Semester 8 is empty where that is asked for, somebody
\* moves, nobody joins a year where others stay, and no class is left mixed.
MayPromote(from, d) ==
    LET S == Moving(from, d) IN
    /\ from = 0 => d = AllDepts
    /\ S # {}
    /\ from \in {0} \cup NewYearFrom => \A s \in Student : InScope(s, d) => sem[s] # 8
    /\ \A s \in S, t \in Student \ S :
            DeptOf[t] = DeptOf[s] => Year(sem[t]) # Year(sem[s] + 1)
    /\ \A s \in S : \A y \in {Year(sem[s]), Year(sem[s] + 1)} :
            <<DeptOf[s], y>> \notin MixedClasses(MovedUp(S))

-----------------------------------------------------------------------------
(***************************************************************************)
(* Runs, requests and history.                                             *)
(***************************************************************************)

Unfinished(r) == run[r] \in {"in_progress", "interrupted"}

\* Mutant: recovery takes every student for one of the run's.
EveryStudent(r) == Student

Journalled(r) == {s \in Student : item[r][s] # NoItem}

\* last_run: the latest of those that can be undone.
IsLast(r) ==
    LET undoable == {q \in Run : Unfinished(q) \/ run[q] = "completed"}
    IN  r \in undoable /\ \A q \in undoable : q <= r

\* undo_blockers: requests written after the run, by its students.
Blocked(r) == \E s \in Journalled(r) :
    due[s].status \notin {"ABSENT", "NOT_SENT"} /\ r \in due[s].after

\* A request written now.
Written(status) == [status |-> status, after |-> {r \in Run : run[r] # "none"}]

\* The request of a new semester.
Fresh(d) == IF d.status = "ABSENT" THEN d ELSE [d EXCEPT !.status = "NOT_SENT"]

\* Mutant: the row is written without the id of the run.
WithAnonymousHistory(r, s) ==
    LET k == item[r][s].from IN
    [log[s] EXCEPT ![k] =
        IF @ = NoRow
        THEN [by |-> NoRun, to |-> k + 1, cleared |-> item[r][s].due.status = "APPROVED"]
        ELSE [@ EXCEPT !.to = k + 1]]

\* _write_history: the rows of a student who leaves the journalled semester.
WithHistory(r, s) ==
    LET k == item[r][s].from IN
    [log[s] EXCEPT ![k] =
        IF @ = NoRow
        THEN [by |-> r, to |-> k + 1, cleared |-> item[r][s].due.status = "APPROVED"]
        ELSE [@ EXCEPT !.to = k + 1]]

\* _restore: the rows of the run go, the journalled row is put back.
WithoutHistory(r, s) ==
    [k \in Sem |->
        IF k = item[r][s].from /\ item[r][s].row # NoRow THEN item[r][s].row
        ELSE IF log[s][k].by = r THEN NoRow
        ELSE log[s][k]]

\* Mutant: a student is put back from wherever they are now.
MayRestoreAnyone(r, s, verdict) == TRUE

\* _restore leaves a student alone who is in neither of the run's semesters,
\* except when the run undoes itself.
MayRestore(r, s, verdict) ==
    verdict = "failed" \/ sem[s] \in {item[r][s].from, item[r][s].from + 1}

-----------------------------------------------------------------------------
Init ==
    /\ txn \in BOOLEAN
    /\ lock = "free"
    /\ sem \in StartSems
    /\ due \in StartDues
    /\ log = [s \in Student |-> [k \in Sem |-> NoRow]]
    /\ run = [r \in Run |-> "none"]
    /\ item = [r \in Run |-> [s \in Student |-> NoItem]]
    /\ proc = [p \in Thread |-> Idle]

\* Mutant: the lock is taken without asking for it.
AcquireAnyway(p, pc, then) ==
    /\ proc[p].pc = "idle"
    /\ lock' = "held"
    /\ proc' = [proc EXCEPT ![p].pc = pc, ![p].then = then]
    /\ UNCHANGED <<txn, sem, due, log, run, item>>

\* Mutant: the lock has no expiry.
AcquireFree(p, pc, then) ==
    /\ proc[p].pc = "idle"
    /\ lock = "free"
    /\ lock' = "held"
    /\ proc' = [proc EXCEPT ![p].pc = pc, ![p].then = then]
    /\ UNCHANGED <<txn, sem, due, log, run, item>>

\* acquire_lock.  Who holds the lock is not written down.
Acquire(p, pc, then) ==
    /\ proc[p].pc = "idle"
    /\ lock # "held"
    /\ lock' = "held"
    /\ proc' = [proc EXCEPT ![p].pc = pc, ![p].then = then]
    /\ UNCHANGED <<txn, sem, due, log, run, item>>

StartPromotion(p) == Acquire(p, "recover", "check")
StartUndo(u)      == Acquire(u, "undo_check", "release")
StartRecovery(w)  == (\E r \in Run : Unfinished(r)) /\ Acquire(w, "recover", "release")

\* release_lock, whoever holds it by now.
Release(p) ==
    /\ proc[p].pc = "release"
    /\ lock' = "free"
    /\ proc' = [proc EXCEPT ![p] = Idle]
    /\ UNCHANGED <<txn, sem, due, log, run, item>>

\* The lease ends: when its holder was killed, or is too slow to extend it.
LeaseEnds ==
    /\ lock = "held"
    /\ Slow \/ \A p \in Thread : proc[p].pc = "idle"
    /\ lock' = "stale"
    /\ UNCHANGED <<txn, sem, due, log, run, item, proc>>

Crash(p) ==
    /\ p \in Killable
    /\ proc[p].pc # "idle"
    /\ proc' = [proc EXCEPT ![p] = Idle]
    /\ UNCHANGED <<txn, lock, sem, due, log, run, item>>

-----------------------------------------------------------------------------
(***************************************************************************)
(* run_promotion                                                           *)
(***************************************************************************)

\* The rules allow it and the page was up to date: the run is recorded, and
\* the students it will move are read.
Begin(p) ==
    \E from \in 0..7, d \in Dept \cup {AllDepts}, r \in Run :
        /\ proc[p].pc = "check"
        /\ MayPromote(from, d)
        /\ run[r] = "none" /\ \A q \in Run : run[q] = "none" => r <= q
        /\ run' = [run EXCEPT ![r] = "in_progress"]
        /\ proc' = [proc EXCEPT ![p] = [Idle EXCEPT
                !.pc = "journal", !.run = r, !.seen = sem, !.left = Moving(from, d),
                !.sems = {sem[s] : s \in Moving(from, d)},
                !.mixed = MixedClasses(sem)]]
        /\ UNCHANGED <<txn, lock, sem, due, log, item>>

\* The rules forbid it, or the page was out of date.
Refuse(p) ==
    /\ proc[p].pc \in {"check", "undo_check"}
    /\ Goto(p, "release")
    /\ UNCHANGED <<txn, lock, sem, due, log, run, item>>

\* _journal_students: one student's request and history row are read.
Journal(p) ==
    \E s \in proc[p].left :
        LET k == proc[p].seen[s] IN
        /\ proc[p].pc = "journal"
        /\ item' = [item EXCEPT ![proc[p].run][s] =
                [from |-> k, due |-> due[s], row |-> log[s][k]]]
        /\ proc' = [proc EXCEPT ![p].left = @ \ {s}]
        /\ UNCHANGED <<txn, lock, sem, due, log, run>>

\* Mutant: the students are moved with the journal still being written.
StartApplyEarly(p) ==
    /\ proc[p].pc = "journal"
    /\ Goto(p, "extend")
    /\ UNCHANGED <<txn, lock, sem, due, log, run, item>>

\* The journal is complete.
StartApply(p) ==
    /\ proc[p].pc = "journal" /\ proc[p].left = {}
    /\ Goto(p, "extend")
    /\ UNCHANGED <<txn, lock, sem, due, log, run, item>>

\* The highest semester not yet applied, and its students.
Highest(S) == CHOOSE k \in S : \A j \in S : j <= k
Batch(p) == {s \in Journalled(proc[p].run) :
                item[proc[p].run][s].from = Highest(proc[p].sems)}

Reset(S) == [s \in Student |-> IF s \in S THEN Fresh(due[s]) ELSE due[s]]

\* extend_lock, once per semester.
Extended == IF lock = "free" THEN "free" ELSE "held"

Extend(p) ==
    /\ proc[p].pc = "extend" /\ ~txn
    /\ lock' = Extended
    /\ proc' = [proc EXCEPT ![p].pc = "history", ![p].left = Batch(p)]
    /\ UNCHANGED <<txn, sem, due, log, run, item>>

WriteHistory(p) ==
    \E s \in proc[p].left :
        /\ proc[p].pc = "history"
        /\ log' = [log EXCEPT ![s] = WithHistory(proc[p].run, s)]
        /\ proc' = [proc EXCEPT ![p].left = @ \ {s}]
        /\ UNCHANGED <<txn, lock, sem, due, run, item>>

\* update_many on the requests of the batch, whatever they have become.
ResetDues(p) ==
    /\ proc[p].pc = "history" /\ proc[p].left = {}
    /\ due' = Reset(Batch(p))
    /\ Goto(p, "move")
    /\ UNCHANGED <<txn, lock, sem, log, run, item>>

\* update_many on the students of the batch that are still in the semester.
Move(p) ==
    LET rest == proc[p].sems \ {Highest(proc[p].sems)} IN
    /\ proc[p].pc = "move"
    /\ sem' = MovedUp({s \in Batch(p) : sem[s] = Highest(proc[p].sems)})
    /\ proc' = [proc EXCEPT ![p].sems = rest,
                            ![p].pc = IF rest = {} THEN "complete" ELSE "extend"]
    /\ UNCHANGED <<txn, lock, due, log, run, item>>

\* All of it in one transaction.
ApplyAtOnce(p) ==
    LET r == proc[p].run
        S == Journalled(r)
    IN
    /\ proc[p].pc = "extend" /\ txn
    /\ lock' = Extended
    /\ log' = [s \in Student |-> IF s \in S THEN WithHistory(r, s) ELSE log[s]]
    /\ due' = Reset(S)
    /\ sem' = MovedUp({s \in S : sem[s] = item[r][s].from})
    /\ Goto(p, "complete")
    /\ UNCHANGED <<txn, run, item>>

\* The run is completed: what was written before is not after it.
Complete(p) ==
    LET r == proc[p].run IN
    /\ proc[p].pc = "complete"
    /\ run' = [run EXCEPT ![r] = "completed"]
    /\ due' = [s \in Student |-> [due[s] EXCEPT !.after = @ \ {r}]]
    /\ Goto(p, "verify")
    /\ UNCHANGED <<txn, lock, sem, log, item>>

\* The integrity check: a class that has become mixed undoes the run.
Verify(p) ==
    /\ proc[p].pc = "verify"
    /\ IF MixedClasses(sem) \subseteq proc[p].mixed
       THEN Goto(p, "release")
       ELSE proc' = [proc EXCEPT ![p].pc = "restore", ![p].verdict = "auto_undone",
                                 ![p].left = Journalled(proc[p].run)]
    /\ UNCHANGED <<txn, lock, sem, due, log, run, item>>

-----------------------------------------------------------------------------
(***************************************************************************)
(* Undo and recovery.                                                      *)
(***************************************************************************)

\* rollback_last_run: the run is the last one and nothing blocks its undo.
UndoCheck(p) ==
    \E r \in Run :
        /\ proc[p].pc = "undo_check"
        /\ IsLast(r) /\ ~Blocked(r)
        /\ proc' = [proc EXCEPT ![p].pc = "restore", ![p].run = r,
                                ![p].verdict = "rolled_back", ![p].left = Journalled(r)]
        /\ UNCHANGED <<txn, lock, sem, due, log, run, item>>

\* recover_interrupted_runs: the next unfinished run, the latest first.
Recover(p) ==
    /\ proc[p].pc = "recover"
    /\ \/ /\ \A q \in Run : ~Unfinished(q)
          /\ Goto(p, proc[p].then)
       \/ \E r \in Run :
             /\ Unfinished(r) /\ \A q \in Run : Unfinished(q) => q <= r
             /\ proc' = [proc EXCEPT ![p].pc = "restore", ![p].run = r,
                                     ![p].verdict = "auto_recovered",
                                     ![p].left = Journalled(r)]
    /\ UNCHANGED <<txn, lock, sem, due, log, run, item>>

\* The student goes back, or is left alone.
RestoreStudent(p) ==
    LET r == proc[p].run IN
    \E s \in proc[p].left :
        /\ proc[p].pc = "restore" /\ ~txn
        /\ IF MayRestore(r, s, proc[p].verdict)
           THEN /\ sem' = [sem EXCEPT ![s] = item[r][s].from]
                /\ proc' = [proc EXCEPT ![p].pc = "delete", ![p].cur = s,
                                        ![p].left = @ \ {s}]
           ELSE /\ proc' = [proc EXCEPT ![p].left = @ \ {s}]
                /\ UNCHANGED sem
        /\ UNCHANGED <<txn, lock, due, log, run, item>>

DeleteDues(p) ==
    /\ proc[p].pc = "delete"
    /\ due' = [due EXCEPT ![proc[p].cur] = NoDue]
    /\ Goto(p, "insert")
    /\ UNCHANGED <<txn, lock, sem, log, run, item>>

\* insert_many: a request sent since the deletion makes it fail.
InsertDues(p) ==
    LET s == proc[p].cur
        old == item[proc[p].run][s].due
    IN
    /\ proc[p].pc = "insert"
    /\ due[s].status = "ABSENT" \/ old.status = "ABSENT"
    /\ due' = [due EXCEPT ![s] = IF old.status = "ABSENT" THEN @ ELSE old]
    /\ Goto(p, "relog")
    /\ UNCHANGED <<txn, lock, sem, log, run, item>>

RestoreHistory(p) ==
    LET s == proc[p].cur IN
    /\ proc[p].pc = "relog"
    /\ log' = [log EXCEPT ![s] = WithoutHistory(proc[p].run, s)]
    /\ proc' = [proc EXCEPT ![p].pc = "restore", ![p].cur = NoStudent]
    /\ UNCHANGED <<txn, lock, sem, due, run, item>>

\* All of it in one transaction.
RestoreAtOnce(p) ==
    LET r == proc[p].run
        S == {s \in proc[p].left : MayRestore(r, s, proc[p].verdict)}
    IN
    /\ proc[p].pc = "restore" /\ txn
    /\ sem' = [s \in Student |-> IF s \in S THEN item[r][s].from ELSE sem[s]]
    /\ due' = [s \in Student |-> IF s \in S THEN item[r][s].due ELSE due[s]]
    /\ log' = [s \in Student |-> IF s \in S THEN WithoutHistory(r, s) ELSE log[s]]
    /\ proc' = [proc EXCEPT ![p].pc = "mark", ![p].left = {}]
    /\ UNCHANGED <<txn, lock, run, item>>

Restored(p) ==
    /\ proc[p].pc = "restore" /\ proc[p].left = {} /\ ~txn
    /\ Goto(p, "mark")
    /\ UNCHANGED <<txn, lock, sem, due, log, run, item>>

\* The run gets the status its undoing ends with.
Mark(p) ==
    /\ proc[p].pc = "mark"
    /\ run' = [run EXCEPT ![proc[p].run] = proc[p].verdict]
    /\ Goto(p, IF proc[p].verdict = "auto_recovered" THEN "recover" ELSE "release")
    /\ UNCHANGED <<txn, lock, sem, due, log, item>>

-----------------------------------------------------------------------------
(***************************************************************************)
(* Errors.                                                                 *)
(***************************************************************************)

\* A call fails while applying: the journal is replayed backwards; the
\* transaction has rolled back by itself.
ApplyFails(p) ==
    /\ proc[p].pc \in Applying /\ "apply" \in Faults
    /\ proc' = [proc EXCEPT ![p].verdict = "failed",
                    ![p].pc = IF txn THEN "mark" ELSE "restore",
                    ![p].left = IF txn THEN {} ELSE Journalled(proc[p].run)]
    /\ UNCHANGED <<txn, lock, sem, due, log, run, item>>

\* A call fails before or after that.
RunFails(p) ==
    /\ proc[p].pc \in {"journal", "complete", "verify"} /\ "apply" \in Faults
    /\ Goto(p, "interrupt")
    /\ UNCHANGED <<txn, lock, sem, due, log, run, item>>

\* A call fails while restoring: always when the request is there again.
Failing(p) ==
    \/ proc[p].pc \in Restoring /\ "restore" \in Faults
    \/ /\ proc[p].pc = "insert" /\ due[proc[p].cur].status # "ABSENT"
       /\ item[proc[p].run][proc[p].cur].due.status # "ABSENT"

\* Recovery gives up and returns as if it had recovered; an undo ends; a run
\* that was undoing itself goes to its outer handler.
RestoreFails(p) ==
    /\ Failing(p)
    /\ proc' = [proc EXCEPT ![p].left = {}, ![p].cur = NoStudent,
            ![p].pc = IF proc[p].verdict = "auto_recovered" THEN proc[p].then
                      ELSE IF proc[p].verdict = "rolled_back" THEN "release"
                      ELSE "interrupt"]
    /\ UNCHANGED <<txn, lock, sem, due, log, run, item>>

\* The outer handler of run_promotion: an unfinished run is recovered at once.
Interrupt(p) ==
    LET r == proc[p].run IN
    /\ proc[p].pc = "interrupt"
    /\ run' = IF run[r] = "in_progress" THEN [run EXCEPT ![r] = "interrupted"] ELSE run
    /\ proc' = [proc EXCEPT ![p].pc = "recover", ![p].then = "release"]
    /\ UNCHANGED <<txn, lock, sem, due, log, item>>

-----------------------------------------------------------------------------
(***************************************************************************)
(* Meanwhile: the student sends, the offices approve, and the last         *)
(* approval is entered in the history.                                     *)
(***************************************************************************)

Send(s) ==
    /\ s \in Active
    /\ due[s].status \in {"ABSENT", "NOT_SENT"}
    /\ due' = [due EXCEPT ![s] = Written("PENDING")]
    /\ UNCHANGED <<txn, lock, sem, log, run, item, proc>>

Approve(s) ==
    /\ s \in Active
    /\ due[s].status = "PENDING"
    /\ due' = [due EXCEPT ![s] = Written("APPROVED")]
    /\ log' = [log EXCEPT ![s][sem[s]] =
                [@ EXCEPT !.cleared = TRUE]]
    /\ UNCHANGED <<txn, lock, sem, run, item, proc>>

-----------------------------------------------------------------------------
RestoreStep(p) ==
    \/ Recover(p) \/ RestoreStudent(p) \/ DeleteDues(p) \/ InsertDues(p)
    \/ RestoreHistory(p) \/ RestoreAtOnce(p) \/ Restored(p) \/ Mark(p)
    \/ RestoreFails(p) \/ Release(p)

PromoterStep(p) ==
    \/ StartPromotion(p) \/ Begin(p) \/ Refuse(p) \/ Journal(p) \/ StartApply(p)
    \/ Extend(p) \/ WriteHistory(p) \/ ResetDues(p) \/ Move(p) \/ ApplyAtOnce(p)
    \/ Complete(p) \/ Verify(p) \/ ApplyFails(p) \/ RunFails(p) \/ Interrupt(p) \/ RestoreStep(p)

UndoerStep(u) == StartUndo(u) \/ UndoCheck(u) \/ Refuse(u) \/ RestoreStep(u)

WorkerStep(w) == StartRecovery(w) \/ RestoreStep(w)

Next ==
    \/ LeaseEnds
    \/ \E p \in Thread : Crash(p)
    \/ \E p \in Promoter : PromoterStep(p)
    \/ \E u \in Undoer : UndoerStep(u)
    \/ \E w \in Worker : WorkerStep(w)
    \/ \E s \in Student : Send(s) \/ Approve(s)

Spec == Init /\ [][Next]_vars

\* The lease of a killed thread runs out; a call that has begun goes on; the
\* maintenance cycle tries every minute, and not always while another call
\* holds the lock.
Fairness ==
    /\ WF_vars(LeaseEnds)
    /\ \A p \in Promoter : WF_vars(PromoterStep(p) /\ proc[p].pc # "idle")
    /\ \A u \in Undoer : WF_vars(UndoerStep(u) /\ proc[u].pc # "idle")
    /\ \A w \in Worker : WF_vars(WorkerStep(w)) /\ SF_vars(StartRecovery(w))

FairSpec == Spec /\ Fairness

-----------------------------------------------------------------------------
TypeOK ==
    /\ txn \in BOOLEAN
    /\ lock \in {"free", "held", "stale"}
    /\ sem \in [Student -> Sem]
    /\ due \in [Student -> Due]
    /\ log \in [Student -> [Sem -> Row]]
    /\ run \in [Run -> RunStatuses]
    /\ item \in [Run -> [Student -> Item \cup {NoItem}]]
    /\ proc \in [Thread -> Local]

\* One promotion, undo or recovery at a time, though the lock does not know
\* whose it is.
OneAtATime ==
    \A p, q \in Thread : proc[p].pc # "idle" /\ proc[q].pc # "idle" => p = q

Settled ==
    /\ \A p \in Thread : proc[p].pc = "idle"
    /\ \A r \in Run : run[r] \notin {"in_progress", "interrupted"}

\* The rule: one semester per department and year, whenever nothing is under way.
ClassesWhole == Settled => MixedClasses(sem) = {}

\* A journal is written before anything changes: students move only between
\* the two semesters of an entry of a run that can still be undone, even when
\* runs, recoveries and undos have piled up on them.
OnlyJournalledMoves ==
    [][\A s \in Student : sem'[s] # sem[s] =>
        \E r \in Run : /\ run[r] \in {"in_progress", "interrupted", "completed"}
                       /\ item[r][s] # NoItem
                       /\ {sem[s], sem'[s]} = {item[r][s].from, item[r][s].from + 1}]_vars

\* A run that ends undone leaves every student as it found them: semester,
\* request and history row.
UndoneIsUndone ==
    [][\A r \in Run :
        run'[r] # run[r] /\ run'[r] \in {"failed", "auto_undone", "rolled_back",
                                         "auto_recovered"}
        => \A s \in Journalled(r) :
                LET k == item[r][s].from IN
                sem[s] = k /\ due[s] = item[r][s].due /\ log[s][k] = item[r][s].row]_vars

\* A request once sent is lost to nothing but a promotion of its student: an
\* undo is refused as soon as there is one (undo_blockers).
RequestKept ==
    [][\A s \in Student :
        /\ due[s].status \in {"PENDING", "APPROVED"}
        /\ due'[s].status \in {"ABSENT", "NOT_SENT"}
        => \E r \in Run : run[r] \in {"in_progress", "interrupted"} /\ item[r][s] # NoItem]_vars

\* An unfinished run does not stay so.
Recovered ==
    \A r \in Run : (run[r] \in {"in_progress", "interrupted"})
                        ~> (run[r] \notin {"in_progress", "interrupted"})

\* The roster as a reader of the journal sees it: a student of an unfinished
\* run is still where the run found them.
Seen == [s \in Student |->
    IF \E r \in Run : Unfinished(r) /\ item[r][s] # NoItem
    THEN item[CHOOSE r \in Run : /\ Unfinished(r) /\ item[r][s] # NoItem
                                 /\ \A q \in Run : Unfinished(q) /\ item[q][s] # NoItem
                                        => r <= q][s].from
    ELSE sem[s]]

Contract == INSTANCE PromotionContract WITH roster <- Seen

ImplementsContract == Contract!Spec
=============================================================================
