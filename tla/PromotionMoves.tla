--------------------------- MODULE PromotionMoves ---------------------------
(***************************************************************************)
(* Type correctness of a promotion, and what the journal is for: a student *)
(* moves only between the two semesters of an entry.                       *)
(*                                                                         *)
(* Local variables are typed only together with what the journal holds: a  *)
(* loop runs over students that have an entry (Fits).  Where students may  *)
(* be while a run is at work (Underway) holds because nobody else is at    *)
(* work, so it rests on Exclusion.                                         *)
(***************************************************************************)
EXTENDS PromotionProofs

AtRun == {"journal", "complete", "verify", "interrupt"} \cup Applying \cup Restoring

OnStudent == {"delete", "insert", "relog"}

Verdicts == {"failed", "auto_undone", "rolled_back", "auto_recovered"}

\* A thread at work on a run has one, and its loops are over entries of the journal.
Fits(l) ==
    /\ l.pc \in AtRun => l.run \in Run
    /\ l.pc = "journal" => \A s \in l.left : l.seen[s] \in Promotable
    /\ l.pc \in {"history"} \cup Restoring => l.left \subseteq Journalled(l.run)
    /\ l.pc \in OnStudent => l.cur \in Journalled(l.run)
    /\ l.pc \in Restoring => l.verdict \in Verdicts

Sound == TypeOK /\ \A p \in Thread : Fits(proc[p])

\* Everybody the run has journalled is in one of its two semesters.
Within(r) == \A s \in Journalled(r) : sem[s] \in {item[r][s].from, item[r][s].from + 1}

\* Where the run of a thread and its students are.
Underway(l) ==
    /\ l.pc = "journal" =>
          /\ run[l.run] = "in_progress" /\ sem = l.seen
          /\ \A s \in Journalled(l.run) : item[l.run][s].from = sem[s]
    /\ l.pc \in Applying => run[l.run] = "in_progress" /\ Within(l.run)
    /\ l.pc = "complete" => run[l.run] = "in_progress"
    /\ l.pc = "verify" => run[l.run] = "completed"
    /\ l.pc \in Restoring => run[l.run] \in {"in_progress", "interrupted", "completed"}
    /\ l.pc \in Restoring /\ l.verdict = "failed" => Within(l.run)

\* A run that has not begun has journalled nobody.
Unwritten == \A r \in Run : run[r] = "none" => Journalled(r) = {}

Tracked == Unwritten /\ \A p \in Thread : Underway(proc[p])
-----------------------------------------------------------------------------
(***************************************************************************)
(* Type correctness.                                                       *)
(***************************************************************************)

\* A journalled student has a proper entry.
LEMMA EntryIsItem ==
  ASSUME TypeOK, NEW r \in Run, NEW s \in Journalled(r)
  PROVE  s \in Student /\ item[r][s] \in Item
  BY DEF TypeOK, Journalled

LEMMA IdleFits == Idle \in Local /\ Fits(Idle)
  BY SetsAssumption DEF Idle, Local, PCs, Applying, Restoring, RunStatuses, Fits, AtRun, OnStudent

\* One thread takes a step that leaves the journal as it is.
LEMMA Change ==
  ASSUME Sound, NEW p \in Thread, NEW l \in Local, Fits(l),
         proc' = [proc EXCEPT ![p] = l], item' = item
  PROVE  proc' \in [Thread -> Local] /\ (\A q \in Thread : Fits(proc[q]))'
<1>1. proc' \in [Thread -> Local] BY DEF Sound, TypeOK
<1>2. ASSUME NEW q \in Thread PROVE Fits(proc[q])'
  <2>1. Fits(proc'[q]) BY DEF Sound, TypeOK
  <2>2. QED BY <2>1 DEF Fits, Journalled
<1>3. QED BY <1>1, <1>2

\* No thread takes a step.
LEMMA NoChange ==
  ASSUME Sound, UNCHANGED <<proc, item>>
  PROVE  proc' \in [Thread -> Local] /\ (\A q \in Thread : Fits(proc[q]))'
  BY DEF Sound, TypeOK, Fits, Journalled

\* A step to a place where nothing is asked of the other variables, or less
\* than where it comes from.
LEMMA GotoFits ==
  ASSUME Sound, NEW p \in Thread, NEW pc \in PCs, Goto(p, pc), item' = item,
         \/ pc \notin AtRun
         \/ proc[p].pc \in AtRun /\ pc \notin {"journal", "history"} \cup Restoring
         \/ proc[p].pc \in OnStudent /\ pc \in OnStudent
         \/ proc[p].pc \in Restoring /\ pc = "mark"
  PROVE  proc' \in [Thread -> Local] /\ (\A q \in Thread : Fits(proc[q]))'
<1> DEFINE l == [proc[p] EXCEPT !.pc = pc]
<1>1. proc' = [proc EXCEPT ![p] = l] BY Zenon DEF Goto
<1>2. proc[p] \in Local /\ Fits(proc[p]) BY DEF Sound, TypeOK
<1>3. l \in Local BY <1>2 DEF Local
<1>4. /\ l.pc = pc /\ l.run = proc[p].run /\ l.seen = proc[p].seen /\ l.left = proc[p].left
      /\ l.cur = proc[p].cur /\ l.verdict = proc[p].verdict
  BY <1>2 DEF Local
<1> HIDE DEF l
<1>5. Fits(l) BY <1>2, <1>4 DEF Fits, AtRun, Applying, Restoring, OnStudent
<1>6. QED BY <1>1, <1>3, <1>5, Change

\* The students move up, from a semester of an entry.
LEMMA MovedUpTyped ==
  ASSUME TypeOK, NEW S, \A s \in S : s \in Student => sem[s] \in Promotable
  PROVE  MovedUp(S) \in [Student -> Sem]
<1>1. ASSUME NEW s \in Student PROVE (IF s \in S THEN sem[s] + 1 ELSE sem[s]) \in Sem
  BY DEF TypeOK, Sem, Promotable
<1>2. QED BY <1>1 DEF MovedUp

LEMMA ResetTyped ==
  ASSUME TypeOK, NEW S
  PROVE  Reset(S) \in [Student -> Due]
<1>1. ASSUME NEW s \in Student PROVE (IF s \in S THEN Fresh(due[s]) ELSE due[s]) \in Due
  BY DEF TypeOK, Fresh, Due
<1>2. QED BY <1>1 DEF Reset

LEMMA WithHistoryTyped ==
  ASSUME TypeOK, NEW r \in Run, NEW s \in Journalled(r)
  PROVE  WithHistory(r, s) \in [Sem -> Row]
<1> DEFINE k == item[r][s].from
           old == log[s][k]
           new == IF old = NoRow
                  THEN [by |-> r, to |-> k + 1, cleared |-> item[r][s].due.status = "APPROVED"]
                  ELSE [old EXCEPT !.to = k + 1]
<1>1. s \in Student /\ k \in Promotable BY EntryIsItem DEF Item
<1>2. log[s] \in [Sem -> Row] /\ k \in Sem /\ k + 1 \in Sem
  BY <1>1 DEF TypeOK, Sem, Promotable
<1>3. old \in Row BY <1>2
<1>4. (item[r][s].due.status = "APPROVED") \in BOOLEAN OBVIOUS
<1>5. new \in Row BY <1>2, <1>3, <1>4 DEF Row
<1>6. WithHistory(r, s) = [log[s] EXCEPT ![k] = new] BY Zenon DEF WithHistory
<1> HIDE DEF new
<1>7. QED BY <1>2, <1>5, <1>6

LEMMA NoRowTyped == NoRow \in Row BY DEF NoRow, Row

LEMMA WithoutHistoryTyped ==
  ASSUME TypeOK, NEW r \in Run, NEW s \in Journalled(r)
  PROVE  WithoutHistory(r, s) \in [Sem -> Row]
<1>1. s \in Student /\ item[r][s].row \in Row BY EntryIsItem DEF Item
<1>2. log[s] \in [Sem -> Row] BY <1>1 DEF TypeOK
<1>3. QED BY <1>1, <1>2, NoRowTyped DEF WithoutHistory

LEMMA NoDueTyped == NoDue \in Due BY DEF NoDue, Due

\* Everything begins well typed.
LEMMA SoundInit == Init => Sound
<1> SUFFICES ASSUME Init PROVE Sound OBVIOUS
<1>1. sem \in [Student -> Sem] BY SetsAssumption DEF Init
<1>2. due \in [Student -> Due]
  BY SetsAssumption DEF Init, Due, NoDue, Cleared
<1>3. log \in [Student -> [Sem -> Row]] BY NoRowTyped DEF Init
<1>4. run \in [Run -> RunStatuses] BY DEF Init, RunStatuses
<1>5. item \in [Run -> [Student -> Item \cup {NoItem}]] BY DEF Init
<1>6. proc \in [Thread -> Local] /\ \A p \in Thread : Fits(proc[p]) BY IdleFits DEF Init
<1>7. QED BY <1>1, <1>2, <1>3, <1>4, <1>5, <1>6 DEF Init, Sound, TypeOK
\* The lock is taken, given back or runs out; a process is killed.
LEMMA LockSound ==
  ASSUME Sound, NEW p \in Thread,
         \/ \E pc \in {"recover", "undo_check"}, then \in {"check", "release"} : Acquire(p, pc, then)
         \/ Release(p) \/ LeaseEnds \/ Crash(p)
  PROVE  Sound'
<1>1. ASSUME NEW pc \in {"recover", "undo_check"}, NEW then \in {"check", "release"},
             Acquire(p, pc, then)
      PROVE  Sound'
  <2> DEFINE l == [proc[p] EXCEPT !.pc = pc, !.then = then]
  <2>1. proc' = [proc EXCEPT ![p] = l] BY <1>1, Zenon DEF Acquire
  <2>2. proc[p] \in Local BY DEF Sound, TypeOK
  <2>3. l \in Local /\ l.pc = pc BY <2>2 DEF Local, PCs
  <2> HIDE DEF l
  <2>4. Fits(l) BY <2>3 DEF Fits, AtRun, Applying, Restoring, OnStudent
  <2>5. proc' \in [Thread -> Local] /\ (\A q \in Thread : Fits(proc[q]))'
    BY <1>1, <2>1, <2>3, <2>4, Change DEF Acquire
  <2>6. QED BY <1>1, <2>5 DEF Acquire, Sound, TypeOK
<1>2. ASSUME proc' = [proc EXCEPT ![p] = Idle], UNCHANGED <<txn, sem, due, log, run, item>>,
             lock' \in {"free", "held", "stale"}
      PROVE  Sound'
  <2>1. proc' \in [Thread -> Local] /\ (\A q \in Thread : Fits(proc[q]))'
    BY <1>2, IdleFits, Change
  <2>2. QED BY <1>2, <2>1 DEF Sound, TypeOK
<1>3. CASE Release(p) BY <1>2, <1>3 DEF Release
<1>4. CASE Crash(p) BY <1>2, <1>4 DEF Crash, Sound, TypeOK
<1>5. CASE LeaseEnds
  <2>1. proc' \in [Thread -> Local] /\ (\A q \in Thread : Fits(proc[q]))'
    BY <1>5, NoChange DEF LeaseEnds
  <2>2. QED BY <1>5, <2>1 DEF LeaseEnds, Sound, TypeOK
<1>6. QED BY <1>1, <1>3, <1>4, <1>5

\* The run begins: its record, the roster it is planned on, its students.
LEMMA BeginSound ==
  ASSUME Sound, NEW p \in Thread, Begin(p)
  PROVE  Sound'
<1>1. PICK from \in 0..7, d \in Dept \cup {AllDepts}, r \in Run : Begin(p)!(from, d, r)
  BY DEF Begin
<1> DEFINE S == Moving(from, d)
           l == [Idle EXCEPT !.pc = "journal", !.run = r, !.seen = sem, !.left = S,
                             !.sems = {sem[s] : s \in S}, !.mixed = MixedClasses(sem)]
<1>2. proc' = [proc EXCEPT ![p] = l] BY <1>1, Zenon
<1>3. S \subseteq Student /\ \A s \in S : sem[s] \in Promotable
  BY DEF Moving, Promotable
<1>4. {sem[s] : s \in S} \subseteq Promotable BY <1>3
<1>5. MixedClasses(sem) \subseteq Dept \X (1..4) BY DEF MixedClasses
<1>6. sem \in [Student -> {0} \cup Sem] BY DEF Sound, TypeOK
<1>7. /\ l.pc = "journal" /\ l.run = r /\ l.seen = sem /\ l.left = S /\ l.cur = NoStudent
      /\ l.verdict = "none" /\ l.then = "release" /\ l.sems = {sem[s] : s \in S}
      /\ l.mixed = MixedClasses(sem)
  BY DEF Idle
<1>8. l \in Local
  <2> HIDE DEF S
  <2>1. "journal" \in PCs BY DEF PCs
  <2>2. "none" \in RunStatuses BY DEF RunStatuses
  <2>3. QED BY <1>3, <1>4, <1>5, <1>6, <2>1, <2>2 DEF Local, Idle
<1>9. Fits(l)
  <2> HIDE DEF l, S
  <2>1. QED BY <1>3, <1>7 DEF Fits, Restoring, OnStudent
<1>10. run' \in [Run -> RunStatuses] BY <1>1 DEF Sound, TypeOK, RunStatuses
<1> HIDE DEF l
<1>11. proc' \in [Thread -> Local] /\ (\A q \in Thread : Fits(proc[q]))'
  BY <1>1, <1>2, <1>8, <1>9, Change
<1>12. QED BY <1>1, <1>10, <1>11 DEF Sound, TypeOK

\* A student is entered in the journal.
LEMMA JournalSound ==
  ASSUME Sound, NEW p \in Thread, Journal(p)
  PROVE  Sound'
<1>1. PICK s \in proc[p].left : Journal(p)!(s) BY DEF Journal
<1> DEFINE r == proc[p].run
           k == proc[p].seen[s]
           entry == [from |-> k, due |-> due[s], row |-> log[s][k]]
           l == [proc[p] EXCEPT !.left = proc[p].left \ {s}]
<1>2. proc[p] \in Local /\ Fits(proc[p]) /\ proc[p].pc = "journal" BY <1>1 DEF Sound, TypeOK
<1>3. r \in Run /\ s \in Student /\ k \in Promotable BY <1>2 DEF Fits, AtRun, Local
<1>4. due[s] \in Due /\ log[s][k] \in Row BY <1>3 DEF Sound, TypeOK, Promotable, Sem
<1>5. entry \in Item BY <1>3, <1>4 DEF Item
<1>6. item' = [item EXCEPT ![r][s] = entry] BY <1>1, Zenon
<1>7. proc' = [proc EXCEPT ![p] = l] BY <1>1, Zenon
<1>8. entry # NoItem
  <2>1. entry.from \in Promotable BY <1>3
  <2>2. QED BY <2>1 DEF NoItem, Promotable
<1> HIDE DEF entry
<1>9. item' \in [Run -> [Student -> Item \cup {NoItem}]]
  BY <1>3, <1>5, <1>6 DEF Sound, TypeOK
<1>10. \A q \in Run, t \in Student : item[q][t] # NoItem => item'[q][t] # NoItem
  BY <1>3, <1>6, <1>8 DEF Sound, TypeOK
<1>11. /\ l \in Local /\ l.pc = "journal" /\ l.run = r /\ l.seen = proc[p].seen
       /\ l.left \subseteq proc[p].left
  BY <1>2 DEF Local
<1> HIDE DEF l
<1>12. proc' \in [Thread -> Local] BY <1>7, <1>11 DEF Sound, TypeOK
<1>13. ASSUME NEW q \in Thread PROVE Fits(proc[q])'
  <2>1. CASE q = p
    <3>1. proc'[q] = l BY <1>7, <2>1 DEF Sound, TypeOK
    <3>2. /\ proc'[q].pc = "journal" /\ proc'[q].run \in Run
          /\ \A t \in proc'[q].left : proc'[q].seen[t] \in Promotable
      BY <1>2, <1>3, <1>11, <3>1 DEF Fits
    <3>3. QED BY <3>2 DEF Fits, Restoring, OnStudent
  <2>2. CASE q # p
    <3>1. proc'[q] = proc[q] BY <1>7, <2>2 DEF Sound, TypeOK
    <3>2. Fits(proc[q]) BY DEF Sound
    <3>3. proc[q].pc \in {"history"} \cup Restoring \cup OnStudent => proc[q].run \in Run
      BY <3>2 DEF Fits, AtRun, Applying, Restoring, OnStudent
    <3>4. QED BY <1>10, <3>1, <3>2, <3>3 DEF Fits, Journalled
  <2>3. QED BY <2>1, <2>2
<1>14. QED BY <1>1, <1>9, <1>12, <1>13 DEF Sound, TypeOK
\* Steps of run_promotion that only go on somewhere else.
LEMMA PlainRunSound ==
  ASSUME Sound, NEW p \in Thread, Refuse(p) \/ StartApply(p) \/ RunFails(p)
  PROVE  Sound'
<1>1. CASE Refuse(p)
  <2>1. proc' \in [Thread -> Local] /\ (\A q \in Thread : Fits(proc[q]))'
    BY <1>1, GotoFits DEF Refuse, PCs, AtRun, Applying, Restoring
  <2>2. QED BY <1>1, <2>1 DEF Refuse, Sound, TypeOK
<1>2. CASE StartApply(p)
  <2>1. proc' \in [Thread -> Local] /\ (\A q \in Thread : Fits(proc[q]))'
    BY <1>2, GotoFits DEF StartApply, PCs, AtRun, Applying, Restoring
  <2>2. QED BY <1>2, <2>1 DEF StartApply, Sound, TypeOK
<1>3. CASE RunFails(p)
  <2>1. proc' \in [Thread -> Local] /\ (\A q \in Thread : Fits(proc[q]))'
    BY <1>3, GotoFits DEF RunFails, PCs, AtRun, Applying, Restoring
  <2>2. QED BY <1>3, <2>1 DEF RunFails, Sound, TypeOK
<1>4. QED BY <1>1, <1>2, <1>3

\* The next semester of the run.
LEMMA ExtendSound ==
  ASSUME Sound, NEW p \in Thread, Extend(p)
  PROVE  Sound'
<1> DEFINE l == [proc[p] EXCEPT !.pc = "history", !.left = Batch(p)]
<1>1. proc' = [proc EXCEPT ![p] = l] BY Zenon DEF Extend
<1>2. proc[p] \in Local /\ Fits(proc[p]) /\ proc[p].run \in Run
  BY DEF Extend, Sound, TypeOK, Fits, AtRun, Applying
<1>3. Batch(p) \subseteq Journalled(proc[p].run) /\ Journalled(proc[p].run) \subseteq Student
  BY DEF Batch, Journalled
<1>4. l \in Local /\ l.pc = "history" /\ l.run = proc[p].run /\ l.left = Batch(p)
  BY <1>2, <1>3 DEF Local, PCs, Applying
<1> HIDE DEF l
<1>5. Fits(l) BY <1>2, <1>3, <1>4 DEF Fits, Restoring, OnStudent
<1>6. proc' \in [Thread -> Local] /\ (\A q \in Thread : Fits(proc[q]))'
  BY <1>1, <1>4, <1>5, Change DEF Extend
<1>7. lock' \in {"free", "held", "stale"} BY DEF Extend, Extended
<1>8. QED BY <1>6, <1>7 DEF Extend, Sound, TypeOK

\* A history row is written.
LEMMA WriteHistorySound ==
  ASSUME Sound, NEW p \in Thread, WriteHistory(p)
  PROVE  Sound'
<1>1. PICK s \in proc[p].left : WriteHistory(p)!(s) BY DEF WriteHistory
<1> DEFINE l == [proc[p] EXCEPT !.left = proc[p].left \ {s}]
<1>2. proc' = [proc EXCEPT ![p] = l] BY <1>1, Zenon
<1>3. proc[p] \in Local /\ Fits(proc[p]) /\ proc[p].run \in Run
  BY <1>1 DEF Sound, TypeOK, Fits, AtRun, Applying
<1>4. s \in Journalled(proc[p].run) /\ s \in Student BY <1>1, <1>3 DEF Fits, Local
<1>5. /\ l \in Local /\ l.pc = "history" /\ l.run = proc[p].run
      /\ l.left \subseteq proc[p].left
  BY <1>1, <1>3 DEF Local
<1> HIDE DEF l
<1>6. Fits(l) BY <1>1, <1>3, <1>5 DEF Fits, Restoring, OnStudent
<1>7. proc' \in [Thread -> Local] /\ (\A q \in Thread : Fits(proc[q]))'
  BY <1>1, <1>2, <1>5, <1>6, Change
<1>8. WithHistory(proc[p].run, s) \in [Sem -> Row] BY <1>3, <1>4, WithHistoryTyped DEF Sound
<1>9. log' \in [Student -> [Sem -> Row]] BY <1>1, <1>4, <1>8 DEF Sound, TypeOK
<1>10. QED BY <1>1, <1>7, <1>9 DEF Sound, TypeOK

\* The requests of a semester are reset.
LEMMA ResetDuesSound ==
  ASSUME Sound, NEW p \in Thread, ResetDues(p)
  PROVE  Sound'
<1>1. proc' \in [Thread -> Local] /\ (\A q \in Thread : Fits(proc[q]))'
  BY GotoFits DEF ResetDues, PCs, AtRun, Applying, Restoring
<1>2. due' \in [Student -> Due] BY ResetTyped DEF ResetDues, Sound
<1>3. QED BY <1>1, <1>2 DEF ResetDues, Sound, TypeOK

\* The students of a semester move.
LEMMA MoveSound ==
  ASSUME Sound, NEW p \in Thread, Move(p)
  PROVE  Sound'
<1> DEFINE k == Highest(proc[p].sems)
           rest == proc[p].sems \ {k}
           S == {s \in Batch(p) : sem[s] = k}
           l == [proc[p] EXCEPT !.sems = rest, !.pc = IF rest = {} THEN "complete" ELSE "extend"]
<1>1. proc' = [proc EXCEPT ![p] = l] BY Zenon DEF Move
<1>2. proc[p] \in Local /\ Fits(proc[p]) /\ proc[p].run \in Run
  BY DEF Move, Sound, TypeOK, Fits, AtRun, Applying
<1>3. /\ l \in Local /\ l.pc \in {"complete", "extend"} /\ l.run = proc[p].run
  BY <1>2 DEF Local, PCs, Applying
<1>4. ASSUME NEW s \in S PROVE sem[s] \in Promotable
  <2>1. s \in Journalled(proc[p].run) /\ item[proc[p].run][s].from = k BY DEF Batch
  <2>2. QED BY <1>2, <1>4, <2>1, EntryIsItem DEF Sound, Item
<1>5. sem' = MovedUp(S) BY DEF Move
<1> HIDE DEF l, S
<1>6. Fits(l) BY <1>2, <1>3 DEF Fits, Restoring, OnStudent
<1>7. proc' \in [Thread -> Local] /\ (\A q \in Thread : Fits(proc[q]))'
  BY <1>1, <1>3, <1>6, Change DEF Move
<1>8. sem' \in [Student -> Sem] BY <1>4, <1>5, MovedUpTyped DEF Sound
<1>9. QED BY <1>7, <1>8 DEF Move, Sound, TypeOK

\* All of it at once.
LEMMA ApplyAtOnceSound ==
  ASSUME Sound, NEW p \in Thread, ApplyAtOnce(p)
  PROVE  Sound'
<1> DEFINE r == proc[p].run
           J == Journalled(r)
           S == {s \in J : sem[s] = item[r][s].from}
<1>1. r \in Run BY DEF ApplyAtOnce, Sound, TypeOK, Fits, AtRun, Applying
<1>2. proc' \in [Thread -> Local] /\ (\A q \in Thread : Fits(proc[q]))'
  BY GotoFits DEF ApplyAtOnce, PCs, AtRun, Applying, Restoring
<1>3. sem' = MovedUp(S) /\ due' = Reset(J) BY DEF ApplyAtOnce
<1>4. ASSUME NEW s \in S PROVE sem[s] \in Promotable
  BY <1>1, EntryIsItem DEF Sound, Item
<1>5. sem' \in [Student -> Sem]
  <2> HIDE DEF S
  <2>1. QED BY <1>3, <1>4, MovedUpTyped DEF Sound
<1>6. due' \in [Student -> Due] BY <1>3, ResetTyped DEF Sound
<1>7. log' = [s \in Student |-> IF s \in J THEN WithHistory(r, s) ELSE log[s]]
  BY DEF ApplyAtOnce
<1>8. \A s \in J : WithHistory(r, s) \in [Sem -> Row] BY <1>1, WithHistoryTyped DEF Sound
<1>9. log' \in [Student -> [Sem -> Row]]
  <2> HIDE DEF J
  <2>1. QED BY <1>7, <1>8 DEF Sound, TypeOK
<1>10. lock' \in {"free", "held", "stale"} BY DEF ApplyAtOnce, Extended
<1>11. QED BY <1>2, <1>5, <1>6, <1>9, <1>10 DEF ApplyAtOnce, Sound, TypeOK

\* The run is completed.
LEMMA CompleteSound ==
  ASSUME Sound, NEW p \in Thread, Complete(p)
  PROVE  Sound'
<1>1. proc' \in [Thread -> Local] /\ (\A q \in Thread : Fits(proc[q]))'
  BY GotoFits DEF Complete, PCs, AtRun, Applying, Restoring
<1>2. ASSUME NEW s \in Student PROVE [due[s] EXCEPT !.after = @ \ {proc[p].run}] \in Due
  BY DEF Sound, TypeOK, Due
<1>3. due' \in [Student -> Due] BY <1>2 DEF Complete
<1>4. run' \in [Run -> RunStatuses] BY DEF Complete, Sound, TypeOK, RunStatuses
<1>5. QED BY <1>1, <1>3, <1>4 DEF Complete, Sound, TypeOK

\* A thread begins to restore the students of a run.
LEMMA RestoreFits ==
  ASSUME Sound, NEW p \in Thread, NEW r \in Run, NEW verdict \in Verdicts, NEW l \in Local,
         l.pc = "restore" \/ l.pc = "mark", l.run = r, l.verdict = verdict,
         l.left \subseteq Journalled(r), proc' = [proc EXCEPT ![p] = l], item' = item
  PROVE  proc' \in [Thread -> Local] /\ (\A q \in Thread : Fits(proc[q]))'
<1>1. Fits(l) BY DEF Fits, OnStudent
<1>2. QED BY <1>1, Change

\* The integrity check.
LEMMA VerifySound ==
  ASSUME Sound, NEW p \in Thread, Verify(p)
  PROVE  Sound'
<1> DEFINE r == proc[p].run
           l == [proc[p] EXCEPT !.pc = "restore", !.verdict = "auto_undone", !.left = Journalled(r)]
<1>1. proc[p] \in Local /\ r \in Run BY DEF Verify, Sound, TypeOK, Fits, AtRun
<1>2. CASE Goto(p, "release")
  <2>1. proc' \in [Thread -> Local] /\ (\A q \in Thread : Fits(proc[q]))'
    BY <1>2, GotoFits DEF Verify, PCs, AtRun, Applying, Restoring
  <2>2. QED BY <2>1 DEF Verify, Sound, TypeOK
<1>3. CASE ~Goto(p, "release")
  <2>1. proc' = [proc EXCEPT ![p] = l] BY <1>3, Zenon DEF Verify
  <2>2. Journalled(r) \subseteq Student /\ "auto_undone" \in Verdicts
    BY DEF Journalled, Verdicts
  <2>3. /\ l \in Local /\ l.pc = "restore" /\ l.run = r /\ l.verdict = "auto_undone"
        /\ l.left = Journalled(r)
    BY <1>1, <2>2 DEF Local, PCs, Restoring, RunStatuses
  <2> HIDE DEF l, r
  <2>4. item' = item BY DEF Verify
  <2>5. proc' \in [Thread -> Local] /\ (\A q \in Thread : Fits(proc[q]))'
    BY <1>1, <2>1, <2>2, <2>3, <2>4, RestoreFits
  <2>6. QED BY <2>5 DEF Verify, Sound, TypeOK
<1>4. QED BY <1>2, <1>3

\* A call fails while applying.
LEMMA ApplyFailsSound ==
  ASSUME Sound, NEW p \in Thread, ApplyFails(p)
  PROVE  Sound'
<1> DEFINE r == proc[p].run
           pc == IF txn THEN "mark" ELSE "restore"
           left == IF txn THEN {} ELSE Journalled(r)
           l == [proc[p] EXCEPT !.verdict = "failed", !.pc = pc, !.left = left]
<1>1. proc[p] \in Local /\ r \in Run BY DEF ApplyFails, Sound, TypeOK, Fits, AtRun
<1>2. proc' = [proc EXCEPT ![p] = l] BY Zenon DEF ApplyFails
<1>3. Journalled(r) \subseteq Student BY DEF Journalled
<1>4. /\ pc \in {"mark", "restore"} /\ pc \in PCs
      /\ left \subseteq Journalled(r) /\ left \in SUBSET Student
  BY <1>3 DEF PCs, Restoring
<1>5. "failed" \in Verdicts /\ "failed" \in RunStatuses BY DEF Verdicts, RunStatuses
<1> HIDE DEF pc, left
<1>6. l \in Local BY <1>1, <1>4, <1>5 DEF Local
<1>7. l.pc = pc /\ l.run = r /\ l.verdict = "failed" /\ l.left = left
  BY <1>1 DEF Local
<1> HIDE DEF l, r
<1>8. item' = item BY DEF ApplyFails
<1>9. proc' \in [Thread -> Local] /\ (\A q \in Thread : Fits(proc[q]))'
  BY <1>1, <1>2, <1>4, <1>5, <1>6, <1>7, <1>8, RestoreFits
<1>10. QED BY <1>9 DEF ApplyFails, Sound, TypeOK

\* The outer handler.
LEMMA InterruptSound ==
  ASSUME Sound, NEW p \in Thread, Interrupt(p)
  PROVE  Sound'
<1> DEFINE l == [proc[p] EXCEPT !.pc = "recover", !.then = "release"]
<1>1. proc[p] \in Local BY DEF Sound, TypeOK
<1>2. proc' = [proc EXCEPT ![p] = l] BY Zenon DEF Interrupt
<1>3. l \in Local /\ l.pc = "recover" BY <1>1 DEF Local, PCs
<1> HIDE DEF l
<1>4. Fits(l) BY <1>3 DEF Fits, AtRun, Applying, Restoring, OnStudent
<1>5. proc' \in [Thread -> Local] /\ (\A q \in Thread : Fits(proc[q]))'
  BY <1>2, <1>3, <1>4, Change DEF Interrupt
<1>6. run' \in [Run -> RunStatuses] BY DEF Interrupt, Sound, TypeOK, RunStatuses
<1>7. QED BY <1>5, <1>6 DEF Interrupt, Sound, TypeOK
\* A run is found to undo, or to recover.
LEMMA FindSound ==
  ASSUME Sound, NEW p \in Thread, UndoCheck(p) \/ Recover(p)
  PROVE  Sound'
<1>1. proc[p] \in Local /\ item' = item BY DEF Sound, TypeOK, UndoCheck, Recover
<1>2. ASSUME NEW r \in Run, NEW verdict \in {"rolled_back", "auto_recovered"},
             proc' = [proc EXCEPT ![p].pc = "restore", ![p].run = r,
                                  ![p].verdict = verdict, ![p].left = Journalled(r)]
      PROVE  proc' \in [Thread -> Local] /\ (\A q \in Thread : Fits(proc[q]))'
  <2> DEFINE l == [proc[p] EXCEPT !.pc = "restore", !.run = r,
                                  !.verdict = verdict, !.left = Journalled(r)]
  <2>1. proc' = [proc EXCEPT ![p] = l] BY <1>2, Zenon
  <2>2. Journalled(r) \subseteq Student /\ verdict \in Verdicts BY DEF Journalled, Verdicts
  <2>3. /\ l \in Local /\ l.pc = "restore" /\ l.run = r /\ l.verdict = verdict
        /\ l.left = Journalled(r)
    BY <1>1, <2>2 DEF Local, PCs, Restoring, RunStatuses
  <2> HIDE DEF l
  <2>4. QED BY <1>1, <2>1, <2>2, <2>3, RestoreFits
<1>3. CASE UndoCheck(p)
  <2>1. PICK r \in Run : UndoCheck(p)!(r) BY <1>3 DEF UndoCheck
  <2>2. QED BY <1>2, <2>1 DEF Sound, TypeOK
<1>4. CASE Recover(p) /\ Goto(p, proc[p].then)
  <2>1. proc[p].then \in PCs \ AtRun BY <1>1 DEF Local, PCs, AtRun, Applying, Restoring
  <2>2. proc' \in [Thread -> Local] /\ (\A q \in Thread : Fits(proc[q]))'
    BY <1>1, <1>4, <2>1, GotoFits
  <2>3. QED BY <1>4, <2>2 DEF Recover, Sound, TypeOK
<1>5. CASE Recover(p) /\ ~Goto(p, proc[p].then)
  <2>1. PICK r \in Run :
          proc' = [proc EXCEPT ![p].pc = "restore", ![p].run = r,
                               ![p].verdict = "auto_recovered", ![p].left = Journalled(r)]
    BY <1>5 DEF Recover
  <2>2. proc' \in [Thread -> Local] /\ (\A q \in Thread : Fits(proc[q]))'
    BY <1>2, <2>1
  <2>3. QED BY <1>5, <2>2 DEF Recover, Sound, TypeOK
<1>6. QED BY <1>3, <1>4, <1>5

\* A student goes back, or is left alone.
LEMMA RestoreStudentSound ==
  ASSUME Sound, NEW p \in Thread, RestoreStudent(p)
  PROVE  Sound'
<1>1. PICK s \in proc[p].left : RestoreStudent(p)!1!(s) BY DEF RestoreStudent
<1> DEFINE r == proc[p].run
<1>2. /\ proc[p] \in Local /\ Fits(proc[p]) /\ r \in Run
      /\ proc[p].left \subseteq Journalled(r) /\ proc[p].verdict \in Verdicts
  BY <1>1 DEF Sound, TypeOK, Fits, AtRun, Restoring
<1>3. s \in Student /\ item[r][s] \in Item BY <1>2, EntryIsItem DEF Sound
<1>4. item[r][s].from \in Sem BY <1>3 DEF Item, Promotable, Sem
<1>5. CASE MayRestore(r, s, proc[p].verdict)
  <2> DEFINE l == [proc[p] EXCEPT !.pc = "delete", !.cur = s, !.left = proc[p].left \ {s}]
  <2>1. proc' = [proc EXCEPT ![p] = l] BY <1>1, <1>5, Zenon
  <2>2. /\ l \in Local /\ l.pc = "delete" /\ l.run = r /\ l.cur = s
        /\ l.left \subseteq proc[p].left /\ l.verdict = proc[p].verdict
    BY <1>2, <1>3 DEF Local, PCs, Restoring
  <2> HIDE DEF l
  <2>3. Fits(l) BY <1>2, <2>2 DEF Fits
  <2>4. item' = item BY <1>1
  <2>5. proc' \in [Thread -> Local] /\ (\A q \in Thread : Fits(proc[q]))'
    BY <2>1, <2>2, <2>3, <2>4, Change
  <2>6. sem' = [sem EXCEPT ![s] = item[r][s].from] BY <1>1, <1>5
  <2>7. sem' \in [Student -> Sem] BY <1>4, <2>6 DEF Sound, TypeOK
  <2>8. QED BY <1>1, <2>5, <2>7 DEF Sound, TypeOK
<1>6. CASE ~MayRestore(r, s, proc[p].verdict)
  <2> DEFINE l == [proc[p] EXCEPT !.left = proc[p].left \ {s}]
  <2>1. proc' = [proc EXCEPT ![p] = l] BY <1>1, <1>6, Zenon
  <2>2. /\ l \in Local /\ l.pc = "restore" /\ l.run = r
        /\ l.left \subseteq proc[p].left /\ l.verdict = proc[p].verdict
    BY <1>1, <1>2 DEF Local
  <2> HIDE DEF l
  <2>3. Fits(l) BY <1>2, <2>2 DEF Fits, OnStudent
  <2>4. item' = item BY <1>1
  <2>5. proc' \in [Thread -> Local] /\ (\A q \in Thread : Fits(proc[q]))'
    BY <2>1, <2>2, <2>3, <2>4, Change
  <2>6. QED BY <1>1, <1>6, <2>5 DEF Sound, TypeOK
<1>7. QED BY <1>5, <1>6

\* The student's requests go, and come back from the journal.
LEMMA RestoreDuesSound ==
  ASSUME Sound, NEW p \in Thread, DeleteDues(p) \/ InsertDues(p)
  PROVE  Sound'
<1> DEFINE s == proc[p].cur
           r == proc[p].run
<1>1. /\ proc[p] \in Local /\ r \in Run /\ s \in Journalled(r)
  BY DEF DeleteDues, InsertDues, Sound, TypeOK, Fits, AtRun, Restoring, OnStudent
<1>2. s \in Student /\ item[r][s].due \in Due BY <1>1, EntryIsItem DEF Sound, Item
<1>3. CASE DeleteDues(p)
  <2>1. proc' \in [Thread -> Local] /\ (\A q \in Thread : Fits(proc[q]))'
    BY <1>3, GotoFits DEF DeleteDues, PCs, OnStudent, Restoring
  <2>2. due' \in [Student -> Due] BY <1>2, <1>3, NoDueTyped DEF DeleteDues, Sound, TypeOK
  <2>3. QED BY <1>3, <2>1, <2>2 DEF DeleteDues, Sound, TypeOK
<1>4. CASE InsertDues(p)
  <2>1. proc' \in [Thread -> Local] /\ (\A q \in Thread : Fits(proc[q]))'
    BY <1>4, GotoFits DEF InsertDues, PCs, OnStudent, Restoring
  <2>2. due' \in [Student -> Due] BY <1>2, <1>4 DEF InsertDues, Sound, TypeOK
  <2>3. QED BY <1>4, <2>1, <2>2 DEF InsertDues, Sound, TypeOK
<1>5. QED BY <1>3, <1>4

\* And the history rows.
LEMMA RestoreHistorySound ==
  ASSUME Sound, NEW p \in Thread, RestoreHistory(p)
  PROVE  Sound'
<1> DEFINE s == proc[p].cur
           r == proc[p].run
           l == [proc[p] EXCEPT !.pc = "restore", !.cur = NoStudent]
<1>1. /\ proc[p] \in Local /\ r \in Run /\ s \in Journalled(r)
      /\ proc[p].left \subseteq Journalled(r) /\ proc[p].verdict \in Verdicts
  BY DEF RestoreHistory, Sound, TypeOK, Fits, AtRun, Restoring, OnStudent
<1>2. s \in Student /\ WithoutHistory(r, s) \in [Sem -> Row]
  BY <1>1, EntryIsItem, WithoutHistoryTyped DEF Sound
<1>3. log' \in [Student -> [Sem -> Row]] BY <1>2 DEF RestoreHistory, Sound, TypeOK
<1>4. proc' = [proc EXCEPT ![p] = l] BY Zenon DEF RestoreHistory
<1>5. /\ l \in Local /\ l.pc = "restore" /\ l.run = r
      /\ l.left = proc[p].left /\ l.verdict = proc[p].verdict
  BY <1>1 DEF Local, PCs, Restoring
<1>6. item' = item BY DEF RestoreHistory
<1> HIDE DEF l
<1>7. proc' \in [Thread -> Local] /\ (\A q \in Thread : Fits(proc[q]))'
  BY <1>1, <1>4, <1>5, <1>6, RestoreFits
<1>8. QED BY <1>3, <1>7 DEF RestoreHistory, Sound, TypeOK

\* All of it at once.
LEMMA RestoreAtOnceSound ==
  ASSUME Sound, NEW p \in Thread, RestoreAtOnce(p)
  PROVE  Sound'
<1> DEFINE r == proc[p].run
           S == {s \in proc[p].left : MayRestore(r, s, proc[p].verdict)}
           l == [proc[p] EXCEPT !.pc = "mark", !.left = {}]
<1>1. /\ proc[p] \in Local /\ r \in Run
      /\ proc[p].left \subseteq Journalled(r) /\ proc[p].verdict \in Verdicts
  BY DEF RestoreAtOnce, Sound, TypeOK, Fits, AtRun, Restoring, OnStudent
<1>2. \A s \in S : /\ s \in Student /\ item[r][s].from \in Sem /\ item[r][s].due \in Due
                   /\ WithoutHistory(r, s) \in [Sem -> Row]
  BY <1>1, EntryIsItem, WithoutHistoryTyped DEF Sound, Item, Promotable, Sem
<1>3. /\ sem' = [s \in Student |-> IF s \in S THEN item[r][s].from ELSE sem[s]]
      /\ due' = [s \in Student |-> IF s \in S THEN item[r][s].due ELSE due[s]]
      /\ log' = [s \in Student |-> IF s \in S THEN WithoutHistory(r, s) ELSE log[s]]
  BY DEF RestoreAtOnce
<1>4. proc' = [proc EXCEPT ![p] = l] BY Zenon DEF RestoreAtOnce
<1>5. /\ l \in Local /\ l.pc = "mark" /\ l.run = r
      /\ l.left \subseteq Journalled(r) /\ l.verdict = proc[p].verdict
  BY <1>1 DEF Local, PCs, Restoring
<1>6. item' = item BY DEF RestoreAtOnce
<1> HIDE DEF l, S
<1>7. proc' \in [Thread -> Local] /\ (\A q \in Thread : Fits(proc[q]))'
  BY <1>1, <1>4, <1>5, <1>6, RestoreFits
<1>8. sem' \in [Student -> Sem] BY <1>2, <1>3 DEF Sound, TypeOK
<1>9. due' \in [Student -> Due] BY <1>2, <1>3 DEF Sound, TypeOK
<1>10. log' \in [Student -> [Sem -> Row]] BY <1>2, <1>3 DEF Sound, TypeOK
<1>11. QED BY <1>7, <1>8, <1>9, <1>10 DEF RestoreAtOnce, Sound, TypeOK

\* Everybody is back, and the run gets its last status.
LEMMA EndSound ==
  ASSUME Sound, NEW p \in Thread, Restored(p) \/ Mark(p)
  PROVE  Sound'
<1>1. CASE Restored(p)
  <2>1. proc' \in [Thread -> Local] /\ (\A q \in Thread : Fits(proc[q]))'
    BY <1>1, GotoFits DEF Restored, PCs, Restoring
  <2>2. QED BY <1>1, <2>1 DEF Restored, Sound, TypeOK
<1>2. CASE Mark(p)
  <2> DEFINE pc == IF proc[p].verdict = "auto_recovered" THEN "recover" ELSE "release"
  <2>1. pc \in PCs \ AtRun BY DEF PCs, AtRun, Applying, Restoring
  <2>2. Goto(p, pc) /\ item' = item BY <1>2 DEF Mark
  <2> HIDE DEF pc
  <2>3. proc' \in [Thread -> Local] /\ (\A q \in Thread : Fits(proc[q]))'
    BY <2>1, <2>2, GotoFits
  <2>4. proc[p].verdict \in RunStatuses BY DEF Sound, TypeOK, Local
  <2>5. run' \in [Run -> RunStatuses] BY <1>2, <2>4 DEF Mark, Sound, TypeOK
  <2>6. QED BY <1>2, <2>3, <2>5 DEF Mark, Sound, TypeOK
<1>3. QED BY <1>1, <1>2

\* A call fails while restoring.
LEMMA RestoreFailsSound ==
  ASSUME Sound, NEW p \in Thread, RestoreFails(p)
  PROVE  Sound'
<1> DEFINE pc == IF proc[p].verdict = "auto_recovered" THEN proc[p].then
                 ELSE IF proc[p].verdict = "rolled_back" THEN "release" ELSE "interrupt"
           l == [proc[p] EXCEPT !.left = {}, !.cur = NoStudent, !.pc = pc]
<1>1. proc[p] \in Local /\ proc[p].run \in Run
  BY DEF RestoreFails, Failing, Sound, TypeOK, Fits, AtRun, Restoring
<1>2. pc \in {"check", "release", "interrupt"} BY <1>1 DEF Local
<1>3. proc' = [proc EXCEPT ![p] = l] BY Zenon DEF RestoreFails
<1> HIDE DEF pc
<1>4. /\ l \in Local /\ l.pc = pc /\ l.run = proc[p].run
  BY <1>1, <1>2 DEF Local, PCs
<1> HIDE DEF l
<1>5. Fits(l) BY <1>1, <1>2, <1>4 DEF Fits, AtRun, Applying, Restoring, OnStudent
<1>6. item' = item BY DEF RestoreFails
<1>7. proc' \in [Thread -> Local] /\ (\A q \in Thread : Fits(proc[q]))'
  BY <1>3, <1>4, <1>5, <1>6, Change
<1>8. QED BY <1>7 DEF RestoreFails, Sound, TypeOK

\* The student and the offices meanwhile.
LEMMA MeanwhileSound ==
  ASSUME Sound, NEW s \in Student, Send(s) \/ Approve(s)
  PROVE  Sound'
<1>1. proc' \in [Thread -> Local] /\ (\A q \in Thread : Fits(proc[q]))'
  BY NoChange DEF Send, Approve
<1>2. Written("PENDING") \in Due /\ Written("APPROVED") \in Due BY DEF Written, Due
<1>3. due' \in [Student -> Due] BY <1>2 DEF Send, Approve, Sound, TypeOK
<1>4. CASE Send(s) BY <1>1, <1>3, <1>4 DEF Send, Sound, TypeOK
<1>5. CASE Approve(s)
  <2> DEFINE old == log[s][sem[s]]
             row == [old EXCEPT !.cleared = TRUE]
  <2>1. sem[s] \in Sem /\ log[s] \in [Sem -> Row] /\ old \in Row BY DEF Sound, TypeOK
  <2>2. row \in Row
    <3> HIDE DEF old
    <3>1. QED BY <2>1 DEF Row
  <2>3. log' = [log EXCEPT ![s] = [log[s] EXCEPT ![sem[s]] = row]] BY <1>5, Zenon DEF Approve
  <2> HIDE DEF row
  <2>4. log' \in [Student -> [Sem -> Row]] BY <2>1, <2>2, <2>3 DEF Sound, TypeOK
  <2>5. QED BY <1>1, <1>3, <1>5, <2>4 DEF Approve, Sound, TypeOK
<1>6. QED BY <1>4, <1>5

LEMMA SoundNext == Sound /\ [Next]_vars => Sound'
<1> SUFFICES ASSUME Sound, [Next]_vars PROVE Sound'
  OBVIOUS
<1>1. CASE LeaseEnds
  <2>1. proc' \in [Thread -> Local] /\ (\A q \in Thread : Fits(proc[q]))'
    BY <1>1, NoChange DEF LeaseEnds
  <2>2. QED BY <1>1, <2>1 DEF LeaseEnds, Sound, TypeOK
<1>2. CASE \E p \in Thread : Crash(p) BY <1>2, LockSound
<1>3. ASSUME NEW p \in Thread, RestoreStep(p) PROVE Sound'
  BY <1>3, LockSound, FindSound, RestoreStudentSound, RestoreDuesSound, RestoreHistorySound,
     RestoreAtOnceSound, EndSound, RestoreFailsSound DEF RestoreStep
<1>4. ASSUME NEW p \in Thread, StartPromotion(p) \/ StartUndo(p) \/ StartRecovery(p) PROVE Sound'
  BY <1>4, LockSound DEF StartPromotion, StartUndo, StartRecovery
<1>5. CASE \E p \in Promoter : PromoterStep(p)
  <2>1. PICK p \in Promoter : PromoterStep(p) BY <1>5
  <2>2. p \in Thread BY DEF Thread
  <2>3. CASE StartPromotion(p) \/ RestoreStep(p) BY <1>3, <1>4, <2>2, <2>3
  <2>4. CASE ~StartPromotion(p) /\ ~RestoreStep(p)
    BY <2>1, <2>2, <2>4, BeginSound, PlainRunSound, JournalSound, ExtendSound, WriteHistorySound,
       ResetDuesSound, MoveSound, ApplyAtOnceSound, CompleteSound, VerifySound,
       ApplyFailsSound, InterruptSound DEF PromoterStep
  <2>5. QED BY <2>3, <2>4
<1>6. CASE \E u \in Undoer : UndoerStep(u)
  <2>1. PICK u \in Undoer : UndoerStep(u) BY <1>6
  <2>2. u \in Thread BY DEF Thread
  <2>3. QED BY <1>3, <1>4, <2>1, <2>2, FindSound, PlainRunSound DEF UndoerStep
<1>7. CASE \E w \in Worker : WorkerStep(w)
  <2>1. PICK w \in Worker : WorkerStep(w) BY <1>7
  <2>2. w \in Thread BY DEF Thread
  <2>3. QED BY <1>3, <1>4, <2>1, <2>2 DEF WorkerStep
<1>8. CASE \E s \in Student : Send(s) \/ Approve(s) BY <1>8, MeanwhileSound
<1>9. CASE UNCHANGED vars
  <2>1. proc' \in [Thread -> Local] /\ (\A q \in Thread : Fits(proc[q]))'
    BY <1>9, NoChange DEF vars
  <2>2. QED BY <1>9, <2>1 DEF vars, Sound, TypeOK
<1>10. QED BY <1>1, <1>2, <1>5, <1>6, <1>7, <1>8, <1>9 DEF Next

\* Every variable of a promotion keeps its type: above all, nobody is moved out
\* of Semesters 1 to 8, whatever fails and whoever is killed, even when a live
\* run loses its lease.
THEOREM PromotionTypeCorrect == Spec => []TypeOK
<1>1. Init => Sound BY SoundInit
<1>2. Sound /\ [Next]_vars => Sound' BY SoundNext
<1>3. Sound => TypeOK BY DEF Sound
<1>4. QED BY <1>1, <1>2, <1>3, PTL DEF Spec
-----------------------------------------------------------------------------
(***************************************************************************)
(* Who moves whom.                                                         *)
(***************************************************************************)

LEMMA TrackedInit == Init => Tracked
  BY DEF Init, Tracked, Unwritten, Journalled, Underway, Idle, Applying, Restoring

\* While one thread is at work the others are idle, and nothing is asked of
\* them before the step or after it.
LEMMA OthersRest ==
  ASSUME Exclusion, NEW p \in Thread, proc[p].pc # "idle",
         \A q \in Thread \ {p} : proc'[q] = proc[q], Underway(proc[p])'
  PROVE  \A q \in Thread : Underway(proc[q])'
<1>1. ASSUME NEW q \in Thread \ {p} PROVE Underway(proc[q])'
  <2>1. proc'[q].pc = "idle" BY DEF Exclusion, OneAtATime
  <2>2. QED BY <2>1 DEF Underway, Applying, Restoring
<1>2. QED BY <1>1

\* Steps that concern no student's semester and no run.
LEMMA NothingMoves ==
  ASSUME Tracked, UNCHANGED <<sem, run, item, proc>>
  PROVE  Tracked'
  BY DEF Tracked, Unwritten, Journalled, Underway, Within

\* A thread steps where nothing is asked of it.
LEMMA Leaves ==
  ASSUME Tracked, NEW p \in Thread, UNCHANGED <<sem, run, item>>,
         \A q \in Thread \ {p} : proc'[q] = proc[q],
         proc'[p].pc \notin {"journal", "complete", "verify"} \cup Applying \cup Restoring
  PROVE  Tracked'
<1>1. Unwritten' BY DEF Tracked, Unwritten, Journalled
<1>2. ASSUME NEW q \in Thread PROVE Underway(proc[q])'
  <2>1. CASE q = p BY <2>1 DEF Underway
  <2>2. CASE q # p
    <3>1. Underway(proc[q]) /\ proc'[q] = proc[q] BY <2>2 DEF Tracked
    <3>2. QED BY <3>1 DEF Underway, Within, Journalled
  <2>3. QED BY <2>1, <2>2
<1>3. QED BY <1>1, <1>2 DEF Tracked
\* A thread at work steps, and the journal stays as it is.
LEMMA Steps ==
  ASSUME Exclusion, Tracked, NEW p \in Thread, proc[p].pc # "idle", item' = item,
         \A q \in Thread \ {p} : proc'[q] = proc[q],
         \A r \in Run : run'[r] = "none" => run[r] = "none",
         Underway(proc[p])'
  PROVE  Tracked'
<1>1. Unwritten' BY DEF Tracked, Unwritten, Journalled
<1>2. \A q \in Thread : Underway(proc[q])' BY OthersRest
<1>3. QED BY <1>1, <1>2 DEF Tracked

\* The run begins: it finds its journal empty.
LEMMA BeginTracked ==
  ASSUME Sound, Exclusion, Tracked, NEW p \in Thread, Begin(p)
  PROVE  Tracked'
<1>1. PICK from \in 0..7, d \in Dept \cup {AllDepts}, r \in Run : Begin(p)!(from, d, r)
  BY DEF Begin
<1> DEFINE S == Moving(from, d)
           l == [Idle EXCEPT !.pc = "journal", !.run = r, !.seen = sem, !.left = S,
                             !.sems = {sem[s] : s \in S}, !.mixed = MixedClasses(sem)]
<1>2. proc' = [proc EXCEPT ![p] = l] BY <1>1, Zenon
<1>3. l.pc = "journal" /\ l.run = r /\ l.seen = sem BY DEF Idle
<1> HIDE DEF l
<1>4. proc'[p] = l /\ \A q \in Thread \ {p} : proc'[q] = proc[q] BY <1>2 DEF Sound, TypeOK
<1>5. run'[r] = "in_progress" /\ \A q \in Run : run'[q] = "none" => run[q] = "none"
  BY <1>1 DEF Sound, TypeOK
<1>6. \A s \in Student : item'[r][s] = NoItem BY <1>1 DEF Tracked, Unwritten, Journalled
<1>7. Underway(proc[p])'
  BY <1>1, <1>3, <1>4, <1>5, <1>6 DEF Underway, Applying, Restoring, Journalled
<1>8. item' = item /\ proc[p].pc # "idle" BY <1>1
<1>9. QED BY <1>4, <1>5, <1>7, <1>8, Steps

\* A student is journalled where they are.
LEMMA JournalTracked ==
  ASSUME Sound, Exclusion, Tracked, NEW p \in Thread, Journal(p)
  PROVE  Tracked'
<1>1. PICK s \in proc[p].left : Journal(p)!(s) BY DEF Journal
<1> DEFINE r == proc[p].run
           k == proc[p].seen[s]
           entry == [from |-> k, due |-> due[s], row |-> log[s][k]]
<1>2. /\ proc[p] \in Local /\ Fits(proc[p]) /\ Underway(proc[p]) /\ proc[p].pc = "journal"
  BY <1>1 DEF Sound, TypeOK, Tracked
<1>3. /\ r \in Run /\ s \in Student /\ run[r] = "in_progress" /\ sem = proc[p].seen
      /\ \A t \in Journalled(r) : item[r][t].from = sem[t]
  BY <1>2 DEF Fits, AtRun, Local, Underway
<1>4. item' = [item EXCEPT ![r][s] = entry] BY <1>1, Zenon
<1>5. entry.from = sem[s] BY <1>3
<1> HIDE DEF entry
<1>6. \A q \in Run, t \in Student : item'[q][t] = IF q = r /\ t = s THEN entry ELSE item[q][t]
  BY <1>3, <1>4 DEF Sound, TypeOK
<1>7. /\ proc'[p].pc = "journal" /\ proc'[p].run = r /\ proc'[p].seen = proc[p].seen
      /\ \A q \in Thread \ {p} : proc'[q] = proc[q]
  BY <1>1, <1>2 DEF Sound, TypeOK, Local
<1>8. Underway(proc[p])'
  <2>1. \A t \in Student : item'[r][t] # NoItem => item'[r][t].from = sem[t]
    BY <1>3, <1>5, <1>6 DEF Journalled
  <2>2. QED BY <1>1, <1>3, <1>7, <2>1 DEF Underway, Applying, Restoring, Journalled
<1>9. \A q \in Thread : Underway(proc[q])'
  BY <1>2, <1>7, <1>8, OthersRest
<1>10. Unwritten'
  BY <1>1, <1>3, <1>6 DEF Tracked, Unwritten, Journalled
<1>11. QED BY <1>9, <1>10 DEF Tracked

\* A step within a run that moves nobody and changes no run.
LEMMA KeepsTracked ==
  ASSUME Sound, Exclusion, Tracked, NEW p \in Thread, proc[p].pc # "idle",
         UNCHANGED <<sem, run, item>>, \A q \in Thread \ {p} : proc'[q] = proc[q],
         proc'[p].run = proc[p].run,
         \/ proc[p].pc \in Applying /\ proc'[p].pc \in Applying
         \/ proc[p].pc = "journal" /\ proc'[p].pc \in Applying
         \/ proc[p].pc \in Applying /\ proc'[p].pc \in Restoring
         \/ proc[p].pc = "verify" /\ proc'[p].pc \in Restoring /\ proc'[p].verdict # "failed"
         \/ /\ proc[p].pc \in Restoring /\ proc'[p].pc \in Restoring
            /\ proc'[p].verdict = proc[p].verdict
  PROVE  Tracked'
<1> DEFINE r == proc[p].run
<1>1. Underway(proc[p]) BY DEF Tracked
<1>2. proc[p].pc = "journal" => Within(r)
  <2>1. ASSUME proc[p].pc = "journal", NEW s \in Journalled(r)
        PROVE  sem[s] \in {item[r][s].from, item[r][s].from + 1}
    BY <1>1, <2>1 DEF Underway
  <2>2. QED BY <2>1 DEF Within
<1>3. Within(r) => Within(r)' BY DEF Within, Journalled
<1>4. proc[p].pc \in Applying \/ proc[p].pc = "journal" => Within(r) /\ run[r] = "in_progress"
  BY <1>1, <1>2 DEF Underway
<1>5. Underway(proc[p])'
  <2>1. \/ proc'[p].pc \in Applying /\ run'[r] = "in_progress" /\ Within(r)'
        \/ /\ proc'[p].pc \in Restoring /\ run'[r] \in {"in_progress", "interrupted", "completed"}
           /\ proc'[p].verdict = "failed" => Within(r)'
    BY <1>1, <1>3, <1>4 DEF Underway
  <2>2. QED BY <2>1 DEF Underway, Within, Journalled, Applying, Restoring
<1>6. QED BY <1>5, Steps
\* Who is moved up was in the semester of the entry.
LEMMA MoveTracked ==
  ASSUME Sound, Exclusion, Tracked, NEW p \in Thread, Move(p)
  PROVE  Tracked'
<1> DEFINE r == proc[p].run
           k == Highest(proc[p].sems)
           S == {s \in Batch(p) : sem[s] = k}
<1>1. /\ proc[p] \in Local /\ r \in Run /\ run[r] = "in_progress" /\ Within(r)
  BY DEF Move, Sound, TypeOK, Fits, AtRun, Applying, Tracked, Underway
<1>2. /\ proc'[p].run = r /\ proc'[p].pc \in {"complete", "extend"}
      /\ \A q \in Thread \ {p} : proc'[q] = proc[q]
  BY <1>1 DEF Move, Sound, TypeOK, Local
<1>3. \A s \in S : sem[s] = item[r][s].from BY DEF Batch
<1>4. sem' = MovedUp(S) BY DEF Move
<1> HIDE DEF S
<1>5. ASSUME NEW s \in Student, item[r][s] # NoItem
      PROVE  sem'[s] \in {item[r][s].from, item[r][s].from + 1}
  <2>1. sem[s] \in {item[r][s].from, item[r][s].from + 1}
    BY <1>1, <1>5 DEF Within, Journalled
  <2>2. sem'[s] = IF s \in S THEN sem[s] + 1 ELSE sem[s] BY <1>4 DEF MovedUp
  <2>3. QED BY <1>3, <2>1, <2>2
<1>6. run' = run /\ item' = item /\ proc[p].pc # "idle" BY DEF Move
<1>7. Underway(proc[p])'
  BY <1>1, <1>2, <1>5, <1>6 DEF Underway, Applying, Restoring, Within, Journalled
<1>8. QED BY <1>2, <1>6, <1>7, Steps

LEMMA ApplyAtOnceTracked ==
  ASSUME Sound, Exclusion, Tracked, NEW p \in Thread, ApplyAtOnce(p)
  PROVE  Tracked'
<1>1. /\ proc[p] \in Local /\ run[proc[p].run] = "in_progress"
  BY DEF ApplyAtOnce, Sound, TypeOK, Applying, Tracked, Underway
<1>2. /\ proc'[p].run = proc[p].run /\ proc'[p].pc = "complete"
      /\ \A q \in Thread \ {p} : proc'[q] = proc[q]
  BY <1>1 DEF ApplyAtOnce, Goto, Sound, TypeOK, Local
<1>3. run' = run /\ item' = item /\ proc[p].pc # "idle" BY DEF ApplyAtOnce
<1>4. Underway(proc[p])' BY <1>1, <1>2, <1>3 DEF Underway, Applying, Restoring
<1>5. QED BY <1>2, <1>3, <1>4, Steps

LEMMA CompleteTracked ==
  ASSUME Sound, Exclusion, Tracked, NEW p \in Thread, Complete(p)
  PROVE  Tracked'
<1> DEFINE r == proc[p].run
<1>1. /\ proc[p] \in Local /\ r \in Run
  BY DEF Complete, Sound, TypeOK, Fits, AtRun
<1>2. /\ proc'[p].run = r /\ proc'[p].pc = "verify"
      /\ \A q \in Thread \ {p} : proc'[q] = proc[q]
  BY <1>1 DEF Complete, Goto, Sound, TypeOK, Local
<1>3. run'[r] = "completed" /\ \A q \in Run : run'[q] = "none" => run[q] = "none"
  BY <1>1 DEF Complete, Sound, TypeOK
<1>4. item' = item /\ proc[p].pc # "idle" BY DEF Complete
<1>5. Underway(proc[p])' BY <1>2, <1>3 DEF Underway, Applying, Restoring
<1>6. QED BY <1>2, <1>3, <1>4, <1>5, Steps

\* Steps within a run that move nobody.
LEMMA QuietTracked ==
  ASSUME Sound, Exclusion, Tracked, NEW p \in Thread,
         \/ StartApply(p) \/ Extend(p) \/ WriteHistory(p) \/ ResetDues(p) \/ Verify(p)
         \/ ApplyFails(p) \/ DeleteDues(p) \/ InsertDues(p) \/ RestoreHistory(p) \/ Restored(p)
  PROVE  Tracked'
<1>1. proc \in [Thread -> Local] BY DEF Sound, TypeOK
<1>2. CASE StartApply(p)
  <2>1. /\ proc[p].pc = "journal" /\ proc'[p].pc \in Applying /\ proc'[p].run = proc[p].run
        /\ \A q \in Thread \ {p} : proc'[q] = proc[q]
    BY <1>1, <1>2 DEF StartApply, Goto, Local, Applying
  <2>2. QED BY <1>2, <2>1, KeepsTracked DEF StartApply
<1>3. CASE Extend(p)
  <2>1. /\ proc[p].pc \in Applying /\ proc'[p].pc \in Applying /\ proc'[p].run = proc[p].run
        /\ \A q \in Thread \ {p} : proc'[q] = proc[q]
    BY <1>1, <1>3 DEF Extend, Local, Applying
  <2>2. QED BY <1>3, <2>1, KeepsTracked DEF Extend
<1>4. CASE WriteHistory(p)
  <2>1. /\ proc[p].pc \in Applying /\ proc'[p].pc \in Applying /\ proc'[p].run = proc[p].run
        /\ \A q \in Thread \ {p} : proc'[q] = proc[q]
    BY <1>1, <1>4 DEF WriteHistory, Local, Applying
  <2>2. QED BY <1>4, <2>1, KeepsTracked DEF WriteHistory
<1>5. CASE ResetDues(p)
  <2>1. /\ proc[p].pc \in Applying /\ proc'[p].pc \in Applying /\ proc'[p].run = proc[p].run
        /\ \A q \in Thread \ {p} : proc'[q] = proc[q]
    BY <1>1, <1>5 DEF ResetDues, Goto, Local, Applying
  <2>2. QED BY <1>5, <2>1, KeepsTracked DEF ResetDues
<1>6. CASE Verify(p) /\ Goto(p, "release")
  <2>1. /\ proc'[p].pc = "release" /\ \A q \in Thread \ {p} : proc'[q] = proc[q]
    BY <1>1, <1>6 DEF Goto, Local
  <2>2. QED BY <1>6, <2>1, Leaves DEF Verify, Applying, Restoring
<1>7. CASE Verify(p) /\ ~Goto(p, "release")
  <2>1. /\ proc'[p].pc \in Restoring /\ proc'[p].run = proc[p].run
        /\ proc'[p].verdict # "failed" /\ \A q \in Thread \ {p} : proc'[q] = proc[q]
    BY <1>1, <1>7 DEF Verify, Local, Restoring
  <2>2. QED BY <1>7, <2>1, KeepsTracked DEF Verify
<1>8. CASE ApplyFails(p)
  <2>1. /\ proc[p].pc \in Applying /\ proc'[p].pc \in Restoring /\ proc'[p].run = proc[p].run
        /\ \A q \in Thread \ {p} : proc'[q] = proc[q]
    BY <1>1, <1>8 DEF ApplyFails, Local, Restoring
  <2>2. QED BY <1>8, <2>1, KeepsTracked DEF ApplyFails, Applying
<1>9. CASE DeleteDues(p)
  <2>1. /\ proc[p].pc \in Restoring /\ proc'[p].pc \in Restoring /\ proc'[p].run = proc[p].run
        /\ proc'[p].verdict = proc[p].verdict /\ \A q \in Thread \ {p} : proc'[q] = proc[q]
    BY <1>1, <1>9 DEF DeleteDues, Goto, Local, Restoring
  <2>2. QED BY <1>9, <2>1, KeepsTracked DEF DeleteDues
<1>10. CASE InsertDues(p)
  <2>1. /\ proc[p].pc \in Restoring /\ proc'[p].pc \in Restoring /\ proc'[p].run = proc[p].run
        /\ proc'[p].verdict = proc[p].verdict /\ \A q \in Thread \ {p} : proc'[q] = proc[q]
    BY <1>1, <1>10 DEF InsertDues, Goto, Local, Restoring
  <2>2. QED BY <1>10, <2>1, KeepsTracked DEF InsertDues
<1>11. CASE RestoreHistory(p)
  <2>1. /\ proc[p].pc \in Restoring /\ proc'[p].pc \in Restoring /\ proc'[p].run = proc[p].run
        /\ proc'[p].verdict = proc[p].verdict /\ \A q \in Thread \ {p} : proc'[q] = proc[q]
    BY <1>1, <1>11 DEF RestoreHistory, Local, Restoring
  <2>2. QED BY <1>11, <2>1, KeepsTracked DEF RestoreHistory
<1>12. CASE Restored(p)
  <2>1. /\ proc[p].pc \in Restoring /\ proc'[p].pc \in Restoring /\ proc'[p].run = proc[p].run
        /\ proc'[p].verdict = proc[p].verdict /\ \A q \in Thread \ {p} : proc'[q] = proc[q]
    BY <1>1, <1>12 DEF Restored, Goto, Local, Restoring
  <2>2. QED BY <1>12, <2>1, KeepsTracked DEF Restored
<1>13. QED BY <1>2, <1>3, <1>4, <1>5, <1>6, <1>7, <1>8, <1>9, <1>10, <1>11, <1>12

\* A run is found that is unfinished or completed.
LEMMA FindTracked ==
  ASSUME Sound, Exclusion, Tracked, NEW p \in Thread, UndoCheck(p) \/ Recover(p)
  PROVE  Tracked'
<1>1. proc \in [Thread -> Local] BY DEF Sound, TypeOK
<1>2. ASSUME NEW r \in Run, run[r] \in {"in_progress", "interrupted", "completed"},
             NEW verdict \in {"rolled_back", "auto_recovered"},
             UNCHANGED <<run, item>>, proc[p].pc # "idle",
             proc' = [proc EXCEPT ![p].pc = "restore", ![p].run = r,
                                  ![p].verdict = verdict, ![p].left = Journalled(r)]
      PROVE  Tracked'
  <2>1. /\ proc'[p].pc = "restore" /\ proc'[p].run = r /\ proc'[p].verdict # "failed"
        /\ \A q \in Thread \ {p} : proc'[q] = proc[q]
    BY <1>1, <1>2 DEF Local
  <2>2. Underway(proc[p])' BY <1>2, <2>1 DEF Underway, Applying
  <2>3. QED BY <1>2, <2>1, <2>2, Steps
<1>3. CASE UndoCheck(p)
  <2>1. PICK r \in Run : UndoCheck(p)!(r) BY <1>3 DEF UndoCheck
  <2>2. run[r] \in {"in_progress", "interrupted", "completed"} BY <2>1 DEF IsLast, Unfinished
  <2>3. QED BY <1>2, <2>1, <2>2
<1>4. CASE Recover(p) /\ Goto(p, proc[p].then)
  <2>1. proc'[p].pc \in {"check", "release"} /\ \A q \in Thread \ {p} : proc'[q] = proc[q]
    BY <1>1, <1>4 DEF Goto, Local
  <2>2. QED BY <1>4, <2>1, Leaves DEF Recover, Applying, Restoring
<1>5. CASE Recover(p) /\ ~Goto(p, proc[p].then)
  <2>1. PICK r \in Run :
          /\ Unfinished(r)
          /\ proc' = [proc EXCEPT ![p].pc = "restore", ![p].run = r,
                                  ![p].verdict = "auto_recovered", ![p].left = Journalled(r)]
    BY <1>5 DEF Recover
  <2>2. run[r] \in {"in_progress", "interrupted", "completed"} BY <2>1 DEF Unfinished
  <2>3. UNCHANGED <<run, item>> /\ proc[p].pc # "idle" BY <1>5 DEF Recover
  <2>4. QED BY <1>2, <2>1, <2>2, <2>3
<1>6. QED BY <1>3, <1>4, <1>5

\* Who is moved back is in the semester of the entry.
LEMMA BackTracked ==
  ASSUME Sound, Exclusion, Tracked, NEW p \in Thread, RestoreStudent(p) \/ RestoreAtOnce(p)
  PROVE  Tracked'
<1> DEFINE r == proc[p].run
<1>1. /\ proc \in [Thread -> Local] /\ Underway(proc[p]) /\ proc[p].pc = "restore"
      /\ UNCHANGED <<run, item>>
  BY DEF RestoreStudent, RestoreAtOnce, Sound, TypeOK, Tracked
<1>2. /\ proc'[p].pc \in Restoring /\ proc'[p].run = r /\ proc'[p].verdict = proc[p].verdict
      /\ \A q \in Thread \ {p} : proc'[q] = proc[q]
      /\ \A s \in Student : sem'[s] \in {sem[s], item[r][s].from}
  <2>1. CASE RestoreAtOnce(p)
    BY <1>1, <2>1 DEF RestoreAtOnce, Local, Restoring
  <2>2. CASE RestoreStudent(p)
    <3>1. PICK s \in proc[p].left : RestoreStudent(p)!1!(s) BY <2>2 DEF RestoreStudent
    <3>2. CASE MayRestore(r, s, proc[p].verdict)
      <4>1. sem' = [sem EXCEPT ![s] = item[r][s].from] BY <3>1, <3>2
      <4>2. proc' = [proc EXCEPT ![p].pc = "delete", ![p].cur = s, ![p].left = @ \ {s}]
        BY <3>1, <3>2
      <4>3. /\ proc'[p].pc = "delete" /\ proc'[p].run = r /\ proc'[p].verdict = proc[p].verdict
            /\ \A q \in Thread \ {p} : proc'[q] = proc[q]
        BY <1>1, <4>2 DEF Local
      <4>4. \A t \in Student : sem'[t] \in {sem[t], item[r][t].from}
        BY <4>1 DEF Sound, TypeOK
      <4>5. QED BY <4>3, <4>4 DEF Restoring
    <3>3. CASE ~MayRestore(r, s, proc[p].verdict)
      <4>1. sem' = sem /\ proc' = [proc EXCEPT ![p].left = @ \ {s}] BY <3>1, <3>3
      <4>2. QED BY <1>1, <4>1 DEF Local, Restoring
    <3>4. QED BY <3>2, <3>3
  <2>3. QED BY <2>1, <2>2
<1>3. Within(r) => \A s \in Student : item[r][s] # NoItem =>
                        sem'[s] \in {item[r][s].from, item[r][s].from + 1}
  BY <1>2 DEF Within, Journalled
<1>4. Underway(proc[p])'
  BY <1>1, <1>2, <1>3 DEF Underway, Within, Journalled, Applying, Restoring
<1>5. QED BY <1>1, <1>2, <1>4, Steps

\* A run changes its status and its thread is done with it.
LEMMA DoneTracked ==
  ASSUME Sound, Exclusion, Tracked, NEW p \in Thread, Mark(p) \/ Interrupt(p)
  PROVE  Tracked'
<1>1. proc \in [Thread -> Local] BY DEF Sound, TypeOK
<1>2. /\ proc'[p].pc \in {"recover", "release"} /\ item' = item /\ proc[p].pc # "idle"
      /\ \A q \in Thread \ {p} : proc'[q] = proc[q]
  BY <1>1 DEF Mark, Interrupt, Goto, Local
<1>3. \A r \in Run : run'[r] = "none" => run[r] = "none"
  <2>1. Mark(p) => proc[p].verdict # "none"
    BY DEF Mark, Sound, Fits, Restoring, Verdicts
  <2>2. CASE Mark(p) BY <2>1, <2>2 DEF Mark, Sound, TypeOK
  <2>3. CASE Interrupt(p) BY <2>3 DEF Interrupt, Sound, TypeOK
  <2>4. QED BY <2>2, <2>3
<1>4. Underway(proc[p])' BY <1>2 DEF Underway, Applying, Restoring
<1>5. QED BY <1>2, <1>3, <1>4, Steps

\* Steps that leave a run, or have none.
LEMMA AsideTracked ==
  ASSUME Sound, Exclusion, Tracked, NEW p \in Thread,
         \/ StartPromotion(p) \/ StartUndo(p) \/ StartRecovery(p) \/ Release(p) \/ Crash(p)
         \/ Refuse(p) \/ RunFails(p) \/ RestoreFails(p)
  PROVE  Tracked'
<1>1. proc \in [Thread -> Local] BY DEF Sound, TypeOK
<1>2. UNCHANGED <<sem, run, item>>
  BY DEF StartPromotion, StartUndo, StartRecovery, Acquire, Release, Crash, Refuse, RunFails,
         RestoreFails
<1>3. CASE StartPromotion(p) \/ StartUndo(p) \/ StartRecovery(p)
  <2>1. /\ proc'[p].pc \in {"recover", "undo_check"} /\ \A q \in Thread \ {p} : proc'[q] = proc[q]
    BY <1>1, <1>3 DEF StartPromotion, StartUndo, StartRecovery, Acquire, Local
  <2>2. QED BY <1>2, <2>1, Leaves DEF Applying, Restoring
<1>4. CASE Release(p) \/ Crash(p)
  <2>1. proc'[p].pc = "idle" /\ \A q \in Thread \ {p} : proc'[q] = proc[q]
    BY <1>1, <1>4 DEF Release, Crash, Idle
  <2>2. QED BY <1>2, <2>1, Leaves DEF Applying, Restoring
<1>5. CASE Refuse(p) \/ RunFails(p)
  <2>1. proc'[p].pc \in {"release", "interrupt"} /\ \A q \in Thread \ {p} : proc'[q] = proc[q]
    BY <1>1, <1>5 DEF Refuse, RunFails, Goto, Local
  <2>2. QED BY <1>2, <2>1, Leaves DEF Applying, Restoring
<1>6. CASE RestoreFails(p)
  <2>1. /\ proc'[p].pc \in {"check", "release", "interrupt"}
        /\ \A q \in Thread \ {p} : proc'[q] = proc[q]
    BY <1>1, <1>6 DEF RestoreFails, Local
  <2>2. QED BY <1>2, <2>1, Leaves DEF Applying, Restoring
<1>7. QED BY <1>3, <1>4, <1>5, <1>6

LEMMA TrackedNext == Sound /\ Exclusion /\ Tracked /\ [Next]_vars => Tracked'
<1> SUFFICES ASSUME Sound, Exclusion, Tracked, [Next]_vars PROVE Tracked'
  OBVIOUS
<1>1. CASE LeaseEnds BY <1>1, NothingMoves DEF LeaseEnds
<1>2. CASE \E p \in Thread : Crash(p) BY <1>2, AsideTracked
<1>3. ASSUME NEW p \in Thread, RestoreStep(p) PROVE Tracked'
  BY <1>3, FindTracked, BackTracked, QuietTracked, DoneTracked, AsideTracked DEF RestoreStep
<1>4. CASE \E p \in Promoter : PromoterStep(p)
  <2>1. PICK p \in Promoter : PromoterStep(p) BY <1>4
  <2>2. p \in Thread BY DEF Thread
  <2>3. CASE RestoreStep(p) BY <1>3, <2>2, <2>3
  <2>4. CASE ~RestoreStep(p)
    BY <2>1, <2>2, <2>4, BeginTracked, JournalTracked, MoveTracked, ApplyAtOnceTracked,
       CompleteTracked, QuietTracked, DoneTracked, AsideTracked DEF PromoterStep
  <2>5. QED BY <2>3, <2>4
<1>5. CASE \E u \in Undoer : UndoerStep(u)
  <2>1. PICK u \in Undoer : UndoerStep(u) BY <1>5
  <2>2. u \in Thread BY DEF Thread
  <2>3. QED BY <1>3, <2>1, <2>2, FindTracked, AsideTracked DEF UndoerStep
<1>6. CASE \E w \in Worker : WorkerStep(w)
  <2>1. PICK w \in Worker : WorkerStep(w) BY <1>6
  <2>2. w \in Thread BY DEF Thread
  <2>3. QED BY <1>3, <2>1, <2>2, AsideTracked DEF WorkerStep
<1>7. CASE \E s \in Student : Send(s) \/ Approve(s) BY <1>7, NothingMoves DEF Send, Approve
<1>8. CASE UNCHANGED vars BY <1>8, NothingMoves DEF vars
<1>9. QED BY <1>1, <1>2, <1>4, <1>5, <1>6, <1>7, <1>8 DEF Next
-----------------------------------------------------------------------------
\* OnlyJournalledMoves for one step.
MovesByJournal ==
    \A s \in Student : sem'[s] # sem[s] =>
        \E r \in Run : /\ run[r] \in {"in_progress", "interrupted", "completed"}
                       /\ item[r][s] # NoItem
                       /\ {sem[s], sem'[s]} = {item[r][s].from, item[r][s].from + 1}

\* Up: the students of the semester of their entry.
LEMMA UpByJournal ==
  ASSUME Sound, Tracked, NEW p \in Thread, Move(p) \/ ApplyAtOnce(p)
  PROVE  MovesByJournal
<1> DEFINE r == proc[p].run
<1>1. r \in Run /\ run[r] = "in_progress"
  BY DEF Move, ApplyAtOnce, Sound, TypeOK, Fits, AtRun, Applying, Tracked, Underway
<1>2. ASSUME NEW s \in Student, sem'[s] # sem[s]
      PROVE  /\ item[r][s] # NoItem
             /\ sem[s] = item[r][s].from /\ sem'[s] = sem[s] + 1
  <2>1. CASE Move(p) BY <1>2, <2>1 DEF Move, MovedUp, Batch, Journalled
  <2>2. CASE ApplyAtOnce(p) BY <1>2, <2>2 DEF ApplyAtOnce, MovedUp, Journalled
  <2>3. QED BY <2>1, <2>2
<1>3. QED BY <1>1, <1>2 DEF MovesByJournal

\* Back: the students in the other semester of their entry.
LEMMA BackByJournal ==
  ASSUME Sound, Tracked, NEW p \in Thread, RestoreStudent(p) \/ RestoreAtOnce(p)
  PROVE  MovesByJournal
<1> DEFINE r == proc[p].run
<1>1. /\ r \in Run /\ run[r] \in {"in_progress", "interrupted", "completed"}
      /\ proc[p].left \subseteq Journalled(r)
      /\ proc[p].verdict = "failed" => Within(r)
  BY DEF RestoreStudent, RestoreAtOnce, Sound, TypeOK, Fits, AtRun, Restoring, Tracked, Underway
<1>2. ASSUME NEW s \in proc[p].left, MayRestore(r, s, proc[p].verdict)
      PROVE  sem[s] \in {item[r][s].from, item[r][s].from + 1}
  BY <1>1, <1>2 DEF MayRestore, Within
<1>3. ASSUME NEW s \in Student, sem'[s] # sem[s]
      PROVE  /\ s \in proc[p].left /\ MayRestore(r, s, proc[p].verdict)
             /\ sem'[s] = item[r][s].from
  <2>1. CASE RestoreStudent(p)
    <3>1. PICK t \in proc[p].left : RestoreStudent(p)!1!(t) BY <2>1 DEF RestoreStudent
    <3>2. sem' = [sem EXCEPT ![t] = item[r][t].from] /\ MayRestore(r, t, proc[p].verdict)
      BY <1>3, <3>1
    <3>3. QED BY <1>3, <3>2 DEF Sound, TypeOK
  <2>2. CASE RestoreAtOnce(p) BY <1>3, <2>2 DEF RestoreAtOnce
  <2>3. QED BY <2>1, <2>2
<1>4. ASSUME NEW s \in Student, sem'[s] # sem[s]
      PROVE  /\ item[r][s] # NoItem
             /\ sem'[s] = item[r][s].from /\ sem[s] = item[r][s].from + 1
  BY <1>1, <1>2, <1>3, <1>4 DEF Journalled
<1>5. QED BY <1>1, <1>4 DEF MovesByJournal

LEMMA EveryMove == Sound /\ Tracked /\ [Next]_vars => MovesByJournal
<1> SUFFICES ASSUME Sound, Tracked, [Next]_vars PROVE MovesByJournal
  OBVIOUS
<1>1. CASE sem' = sem BY <1>1 DEF MovesByJournal
<1>2. CASE \E p \in Thread : Move(p) \/ ApplyAtOnce(p) BY <1>2, UpByJournal
<1>3. CASE \E p \in Thread : RestoreStudent(p) \/ RestoreAtOnce(p) BY <1>3, BackByJournal
<1>4. ASSUME NEW p \in Thread, RestoreStep(p)
      PROVE  sem' = sem \/ RestoreStudent(p) \/ RestoreAtOnce(p)
  BY <1>4 DEF RestoreStep, Recover, DeleteDues, InsertDues, RestoreHistory, Restored, Mark,
              RestoreFails, Release
<1>5. CASE \E p \in Promoter : PromoterStep(p)
  <2>1. PICK p \in Promoter : PromoterStep(p) BY <1>5
  <2>2. p \in Thread BY DEF Thread
  <2>3. CASE RestoreStep(p) BY <1>1, <1>3, <1>4, <2>2, <2>3
  <2>4. CASE ~RestoreStep(p) /\ ~Move(p) /\ ~ApplyAtOnce(p)
    <3>1. sem' = sem
      BY <2>1, <2>4 DEF PromoterStep, StartPromotion, Acquire, Begin, Refuse, Journal, StartApply,
             Extend, WriteHistory, ResetDues, Complete, Verify, ApplyFails, RunFails, Interrupt
    <3>2. QED BY <1>1, <3>1
  <2>5. QED BY <1>2, <2>2, <2>3, <2>4
<1>6. CASE \E u \in Undoer : UndoerStep(u)
  <2>1. PICK u \in Undoer : UndoerStep(u) BY <1>6
  <2>2. u \in Thread BY DEF Thread
  <2>3. sem' = sem \/ RestoreStudent(u) \/ RestoreAtOnce(u)
    BY <1>4, <2>1, <2>2 DEF UndoerStep, StartUndo, Acquire, UndoCheck, Refuse
  <2>4. QED BY <1>1, <1>3, <2>2, <2>3
<1>7. CASE \E w \in Worker : WorkerStep(w)
  <2>1. PICK w \in Worker : WorkerStep(w) BY <1>7
  <2>2. w \in Thread BY DEF Thread
  <2>3. sem' = sem \/ RestoreStudent(w) \/ RestoreAtOnce(w)
    BY <1>4, <2>1, <2>2 DEF WorkerStep, StartRecovery, Acquire
  <2>4. QED BY <1>1, <1>3, <2>2, <2>3
<1>8. CASE LeaseEnds \/ (\E p \in Thread : Crash(p)) \/ (\E s \in Student : Send(s) \/ Approve(s))
  BY <1>1, <1>8 DEF LeaseEnds, Crash, Send, Approve
<1>9. CASE UNCHANGED vars BY <1>1, <1>9 DEF vars
<1>10. QED BY <1>5, <1>6, <1>7, <1>8, <1>9 DEF Next

\* Nobody changes semester but by an entry of the journal of a run that can
\* still be undone, and only between its two semesters: however often runs are
\* killed, fail, stack up and are undone by others, as long as no live call
\* outlasts its lease.
THEOREM JournalledMoves == ~Slow => (Spec => OnlyJournalledMoves)
<1> SUFFICES ASSUME ~Slow PROVE Spec => OnlyJournalledMoves
  OBVIOUS
<1> DEFINE Inv == Sound /\ Exclusion /\ Tracked
<1>1. Init => Inv BY SoundInit, ExclusionInit, TrackedInit
<1>2. Inv /\ [Next]_vars => Inv' BY SoundNext, ExclusionNext, TrackedNext
<1>3. Inv /\ [Next]_vars => [MovesByJournal]_vars BY EveryMove
<1> HIDE DEF Inv
<1>4. Spec => [][MovesByJournal]_vars BY <1>1, <1>2, <1>3, PTL DEF Spec
<1>5. QED BY <1>4 DEF OnlyJournalledMoves, MovesByJournal
=============================================================================
