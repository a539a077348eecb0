-------------------------- MODULE PromotionProofs --------------------------
(***************************************************************************)
(* Mutual exclusion of promotion runs, undos and recoveries.  The lock has *)
(* no owner, so the argument is about all threads at once: whoever is at   *)
(* work is covered by the lock (Covered), which is what keeps the others   *)
(* out of Acquire and LeaseEnds out of the way; and it is alone            *)
(* (OneAtATime), so nobody is left uncovered when it releases the lock     *)
(* without asking whose it is.                                             *)
(***************************************************************************)
EXTENDS Promotion, TLAPS

\* The local variables of a thread are a record with a pc.
Shape == /\ DOMAIN proc = Thread
         /\ \A p \in Thread : "pc" \in DOMAIN proc[p]

\* Whoever is at work is covered by the lock.
Covered == \A p \in Thread : proc[p].pc # "idle" => lock = "held"

Exclusion == Shape /\ OneAtATime /\ Covered

-----------------------------------------------------------------------------
\* Nobody is at work in the beginning.
LEMMA ExclusionInit == Init => Exclusion
  BY DEF Init, Exclusion, Shape, OneAtATime, Covered, Idle

\* A thread at work goes on, and at most extends the lock.
LEMMA GoesOn ==
  ASSUME Exclusion, NEW p \in Thread, proc[p].pc # "idle",
         lock' = lock \/ lock' = Extended,
         DOMAIN proc' = Thread, "pc" \in DOMAIN proc'[p],
         \A q \in Thread \ {p} : proc'[q] = proc[q]
  PROVE  Exclusion'
  BY DEF Exclusion, Shape, OneAtATime, Covered, Extended

\* acquire_lock: while the lock is not held nobody is at work.
LEMMA AcquireKeeps ==
  ASSUME Exclusion, NEW p \in Thread, NEW pc, NEW then, Acquire(p, pc, then)
  PROVE  Exclusion'
  BY DEF Acquire, Exclusion, Shape, OneAtATime, Covered

\* release_lock: whoever releases the lock was alone.
LEMMA ReleaseKeeps ==
  ASSUME Exclusion, NEW p \in Thread, Release(p)
  PROVE  Exclusion'
  BY DEF Release, Exclusion, Shape, OneAtATime, Covered, Idle

\* A lease that is kept by its holder runs out when nobody is at work.
LEMMA LeaseEndsKeeps ==
  ASSUME Exclusion, ~Slow, LeaseEnds
  PROVE  Exclusion'
  BY DEF LeaseEnds, Exclusion, Shape, OneAtATime, Covered

LEMMA CrashKeeps ==
  ASSUME Exclusion, NEW p \in Thread, Crash(p)
  PROVE  Exclusion'
  BY DEF Crash, Exclusion, Shape, OneAtATime, Covered, Idle

\* The steps of run_promotion between taking the lock and giving it back.
LEMMA RunKeeps ==
  ASSUME Exclusion, NEW p \in Thread,
         Begin(p) \/ Refuse(p) \/ Journal(p) \/ StartApply(p) \/ Extend(p) \/
         WriteHistory(p) \/ ResetDues(p) \/ Move(p) \/ ApplyAtOnce(p) \/ Complete(p) \/
         Verify(p) \/ ApplyFails(p) \/ RunFails(p) \/ Interrupt(p)
  PROVE  Exclusion'
<1>1. CASE Begin(p)
  <2>1. proc[p].pc # "idle" BY <1>1 DEF Begin
  <2>2. lock' = lock \/ lock' = Extended BY <1>1 DEF Begin
  <2>3. \E l : proc' = [proc EXCEPT ![p] = l] /\ "pc" \in DOMAIN l
    <3>1. PICK from \in 0..7, d \in Dept \cup {AllDepts}, r \in Run : Begin(p)!(from, d, r)
      BY <1>1 DEF Begin
    <3> DEFINE l == [Idle EXCEPT !.pc = "journal", !.run = r, !.seen = sem, !.left = Moving(from, d),
                                 !.sems = {sem[s] : s \in Moving(from, d)},
                                 !.mixed = MixedClasses(sem)]
    <3>2. proc' = [proc EXCEPT ![p] = l] BY <3>1
    <3>3. "pc" \in DOMAIN l BY DEF Idle
    <3>4. QED BY <3>2, <3>3
  <2>4. /\ DOMAIN proc' = Thread /\ "pc" \in DOMAIN proc'[p]
        /\ \A q \in Thread \ {p} : proc'[q] = proc[q]
    BY <2>3 DEF Exclusion, Shape
  <2>5. QED BY <2>1, <2>2, <2>4, GoesOn
<1>2. CASE Refuse(p)
  <2>1. proc[p].pc # "idle" BY <1>2 DEF Refuse
  <2>2. lock' = lock \/ lock' = Extended BY <1>2 DEF Refuse
  <2>3. DOMAIN proc' = Thread /\ "pc" \in DOMAIN proc'[p] BY <1>2 DEF Refuse, Goto, Exclusion, Shape
  <2>4. \A q \in Thread \ {p} : proc'[q] = proc[q] BY <1>2 DEF Refuse, Goto, Exclusion, Shape
  <2>5. QED BY <2>1, <2>2, <2>3, <2>4, GoesOn
<1>3. CASE Journal(p)
  <2>1. proc[p].pc # "idle" BY <1>3 DEF Journal
  <2>2. lock' = lock \/ lock' = Extended BY <1>3 DEF Journal
  <2>3. DOMAIN proc' = Thread /\ "pc" \in DOMAIN proc'[p] BY <1>3 DEF Journal, Exclusion, Shape
  <2>4. \A q \in Thread \ {p} : proc'[q] = proc[q] BY <1>3 DEF Journal, Exclusion, Shape
  <2>5. QED BY <2>1, <2>2, <2>3, <2>4, GoesOn
<1>4. CASE StartApply(p)
  <2>1. proc[p].pc # "idle" BY <1>4 DEF StartApply
  <2>2. lock' = lock \/ lock' = Extended BY <1>4 DEF StartApply
  <2>3. DOMAIN proc' = Thread /\ "pc" \in DOMAIN proc'[p] BY <1>4 DEF StartApply, Goto, Exclusion, Shape
  <2>4. \A q \in Thread \ {p} : proc'[q] = proc[q] BY <1>4 DEF StartApply, Goto, Exclusion, Shape
  <2>5. QED BY <2>1, <2>2, <2>3, <2>4, GoesOn
<1>5. CASE Extend(p)
  <2>1. proc[p].pc # "idle" BY <1>5 DEF Extend
  <2>2. lock' = lock \/ lock' = Extended BY <1>5 DEF Extend
  <2>3. DOMAIN proc' = Thread /\ "pc" \in DOMAIN proc'[p] BY <1>5 DEF Extend, Exclusion, Shape
  <2>4. \A q \in Thread \ {p} : proc'[q] = proc[q] BY <1>5 DEF Extend, Exclusion, Shape
  <2>5. QED BY <2>1, <2>2, <2>3, <2>4, GoesOn
<1>6. CASE WriteHistory(p)
  <2>1. proc[p].pc # "idle" BY <1>6 DEF WriteHistory
  <2>2. lock' = lock \/ lock' = Extended BY <1>6 DEF WriteHistory
  <2>3. DOMAIN proc' = Thread /\ "pc" \in DOMAIN proc'[p] BY <1>6 DEF WriteHistory, Exclusion, Shape
  <2>4. \A q \in Thread \ {p} : proc'[q] = proc[q] BY <1>6 DEF WriteHistory, Exclusion, Shape
  <2>5. QED BY <2>1, <2>2, <2>3, <2>4, GoesOn
<1>7. CASE ResetDues(p)
  <2>1. proc[p].pc # "idle" BY <1>7 DEF ResetDues
  <2>2. lock' = lock \/ lock' = Extended BY <1>7 DEF ResetDues
  <2>3. DOMAIN proc' = Thread /\ "pc" \in DOMAIN proc'[p] BY <1>7 DEF ResetDues, Goto, Exclusion, Shape
  <2>4. \A q \in Thread \ {p} : proc'[q] = proc[q] BY <1>7 DEF ResetDues, Goto, Exclusion, Shape
  <2>5. QED BY <2>1, <2>2, <2>3, <2>4, GoesOn
<1>8. CASE Move(p)
  <2>1. proc[p].pc # "idle" BY <1>8 DEF Move
  <2>2. lock' = lock \/ lock' = Extended BY <1>8 DEF Move
  <2>3. DOMAIN proc' = Thread /\ "pc" \in DOMAIN proc'[p] BY <1>8 DEF Move, Exclusion, Shape
  <2>4. \A q \in Thread \ {p} : proc'[q] = proc[q] BY <1>8 DEF Move, Exclusion, Shape
  <2>5. QED BY <2>1, <2>2, <2>3, <2>4, GoesOn
<1>9. CASE ApplyAtOnce(p)
  <2>1. proc[p].pc # "idle" BY <1>9 DEF ApplyAtOnce
  <2>2. lock' = lock \/ lock' = Extended BY <1>9 DEF ApplyAtOnce
  <2>3. DOMAIN proc' = Thread /\ "pc" \in DOMAIN proc'[p] BY <1>9 DEF ApplyAtOnce, Goto, Exclusion, Shape
  <2>4. \A q \in Thread \ {p} : proc'[q] = proc[q] BY <1>9 DEF ApplyAtOnce, Goto, Exclusion, Shape
  <2>5. QED BY <2>1, <2>2, <2>3, <2>4, GoesOn
<1>10. CASE Complete(p)
  <2>1. proc[p].pc # "idle" BY <1>10 DEF Complete
  <2>2. lock' = lock \/ lock' = Extended BY <1>10 DEF Complete
  <2>3. DOMAIN proc' = Thread /\ "pc" \in DOMAIN proc'[p] BY <1>10 DEF Complete, Goto, Exclusion, Shape
  <2>4. \A q \in Thread \ {p} : proc'[q] = proc[q] BY <1>10 DEF Complete, Goto, Exclusion, Shape
  <2>5. QED BY <2>1, <2>2, <2>3, <2>4, GoesOn
<1>11. CASE Verify(p)
  <2>1. proc[p].pc # "idle" BY <1>11 DEF Verify
  <2>2. lock' = lock \/ lock' = Extended BY <1>11 DEF Verify
  <2>3. DOMAIN proc' = Thread /\ "pc" \in DOMAIN proc'[p] BY <1>11 DEF Verify, Goto, Exclusion, Shape
  <2>4. \A q \in Thread \ {p} : proc'[q] = proc[q] BY <1>11 DEF Verify, Goto, Exclusion, Shape
  <2>5. QED BY <2>1, <2>2, <2>3, <2>4, GoesOn
<1>12. CASE ApplyFails(p)
  <2>1. proc[p].pc # "idle" BY <1>12 DEF ApplyFails, Applying
  <2>2. lock' = lock \/ lock' = Extended BY <1>12 DEF ApplyFails
  <2>3. DOMAIN proc' = Thread /\ "pc" \in DOMAIN proc'[p] BY <1>12 DEF ApplyFails, Exclusion, Shape
  <2>4. \A q \in Thread \ {p} : proc'[q] = proc[q] BY <1>12 DEF ApplyFails, Exclusion, Shape
  <2>5. QED BY <2>1, <2>2, <2>3, <2>4, GoesOn
<1>13. CASE RunFails(p)
  <2>1. proc[p].pc # "idle" BY <1>13 DEF RunFails
  <2>2. lock' = lock \/ lock' = Extended BY <1>13 DEF RunFails
  <2>3. DOMAIN proc' = Thread /\ "pc" \in DOMAIN proc'[p] BY <1>13 DEF RunFails, Goto, Exclusion, Shape
  <2>4. \A q \in Thread \ {p} : proc'[q] = proc[q] BY <1>13 DEF RunFails, Goto, Exclusion, Shape
  <2>5. QED BY <2>1, <2>2, <2>3, <2>4, GoesOn
<1>14. CASE Interrupt(p)
  <2>1. proc[p].pc # "idle" BY <1>14 DEF Interrupt
  <2>2. lock' = lock \/ lock' = Extended BY <1>14 DEF Interrupt
  <2>3. DOMAIN proc' = Thread /\ "pc" \in DOMAIN proc'[p] BY <1>14 DEF Interrupt, Exclusion, Shape
  <2>4. \A q \in Thread \ {p} : proc'[q] = proc[q] BY <1>14 DEF Interrupt, Exclusion, Shape
  <2>5. QED BY <2>1, <2>2, <2>3, <2>4, GoesOn
<1>15. QED BY <1>1, <1>2, <1>3, <1>4, <1>5, <1>6, <1>7, <1>8, <1>9, <1>10, <1>11, <1>12, <1>13, <1>14

\* The steps of an undo or a recovery.
LEMMA RestoreKeeps ==
  ASSUME Exclusion, NEW p \in Thread,
         UndoCheck(p) \/ Recover(p) \/ RestoreStudent(p) \/ DeleteDues(p) \/ InsertDues(p) \/
         RestoreHistory(p) \/ RestoreAtOnce(p) \/ Restored(p) \/ Mark(p) \/ RestoreFails(p)
  PROVE  Exclusion'
<1>1. CASE UndoCheck(p)
  <2>1. proc[p].pc # "idle" BY <1>1 DEF UndoCheck
  <2>2. lock' = lock \/ lock' = Extended BY <1>1 DEF UndoCheck
  <2>3. DOMAIN proc' = Thread /\ "pc" \in DOMAIN proc'[p] BY <1>1 DEF UndoCheck, Exclusion, Shape
  <2>4. \A q \in Thread \ {p} : proc'[q] = proc[q] BY <1>1 DEF UndoCheck, Exclusion, Shape
  <2>5. QED BY <2>1, <2>2, <2>3, <2>4, GoesOn
<1>2. CASE Recover(p)
  <2>1. proc[p].pc # "idle" BY <1>2 DEF Recover
  <2>2. lock' = lock \/ lock' = Extended BY <1>2 DEF Recover
  <2>3. DOMAIN proc' = Thread /\ "pc" \in DOMAIN proc'[p] BY <1>2 DEF Recover, Goto, Exclusion, Shape
  <2>4. \A q \in Thread \ {p} : proc'[q] = proc[q] BY <1>2 DEF Recover, Goto, Exclusion, Shape
  <2>5. QED BY <2>1, <2>2, <2>3, <2>4, GoesOn
<1>3. CASE RestoreStudent(p)
  <2>1. proc[p].pc # "idle" BY <1>3 DEF RestoreStudent
  <2>2. lock' = lock \/ lock' = Extended BY <1>3 DEF RestoreStudent
  <2>3. DOMAIN proc' = Thread /\ "pc" \in DOMAIN proc'[p] BY <1>3 DEF RestoreStudent, Exclusion, Shape
  <2>4. \A q \in Thread \ {p} : proc'[q] = proc[q] BY <1>3 DEF RestoreStudent, Exclusion, Shape
  <2>5. QED BY <2>1, <2>2, <2>3, <2>4, GoesOn
<1>4. CASE DeleteDues(p)
  <2>1. proc[p].pc # "idle" BY <1>4 DEF DeleteDues
  <2>2. lock' = lock \/ lock' = Extended BY <1>4 DEF DeleteDues
  <2>3. DOMAIN proc' = Thread /\ "pc" \in DOMAIN proc'[p] BY <1>4 DEF DeleteDues, Goto, Exclusion, Shape
  <2>4. \A q \in Thread \ {p} : proc'[q] = proc[q] BY <1>4 DEF DeleteDues, Goto, Exclusion, Shape
  <2>5. QED BY <2>1, <2>2, <2>3, <2>4, GoesOn
<1>5. CASE InsertDues(p)
  <2>1. proc[p].pc # "idle" BY <1>5 DEF InsertDues
  <2>2. lock' = lock \/ lock' = Extended BY <1>5 DEF InsertDues
  <2>3. DOMAIN proc' = Thread /\ "pc" \in DOMAIN proc'[p] BY <1>5 DEF InsertDues, Goto, Exclusion, Shape
  <2>4. \A q \in Thread \ {p} : proc'[q] = proc[q] BY <1>5 DEF InsertDues, Goto, Exclusion, Shape
  <2>5. QED BY <2>1, <2>2, <2>3, <2>4, GoesOn
<1>6. CASE RestoreHistory(p)
  <2>1. proc[p].pc # "idle" BY <1>6 DEF RestoreHistory
  <2>2. lock' = lock \/ lock' = Extended BY <1>6 DEF RestoreHistory
  <2>3. DOMAIN proc' = Thread /\ "pc" \in DOMAIN proc'[p] BY <1>6 DEF RestoreHistory, Exclusion, Shape
  <2>4. \A q \in Thread \ {p} : proc'[q] = proc[q] BY <1>6 DEF RestoreHistory, Exclusion, Shape
  <2>5. QED BY <2>1, <2>2, <2>3, <2>4, GoesOn
<1>7. CASE RestoreAtOnce(p)
  <2>1. proc[p].pc # "idle" BY <1>7 DEF RestoreAtOnce
  <2>2. lock' = lock \/ lock' = Extended BY <1>7 DEF RestoreAtOnce
  <2>3. DOMAIN proc' = Thread /\ "pc" \in DOMAIN proc'[p] BY <1>7 DEF RestoreAtOnce, Exclusion, Shape
  <2>4. \A q \in Thread \ {p} : proc'[q] = proc[q] BY <1>7 DEF RestoreAtOnce, Exclusion, Shape
  <2>5. QED BY <2>1, <2>2, <2>3, <2>4, GoesOn
<1>8. CASE Restored(p)
  <2>1. proc[p].pc # "idle" BY <1>8 DEF Restored
  <2>2. lock' = lock \/ lock' = Extended BY <1>8 DEF Restored
  <2>3. DOMAIN proc' = Thread /\ "pc" \in DOMAIN proc'[p] BY <1>8 DEF Restored, Goto, Exclusion, Shape
  <2>4. \A q \in Thread \ {p} : proc'[q] = proc[q] BY <1>8 DEF Restored, Goto, Exclusion, Shape
  <2>5. QED BY <2>1, <2>2, <2>3, <2>4, GoesOn
<1>9. CASE Mark(p)
  <2>1. proc[p].pc # "idle" BY <1>9 DEF Mark
  <2>2. lock' = lock \/ lock' = Extended BY <1>9 DEF Mark
  <2>3. DOMAIN proc' = Thread /\ "pc" \in DOMAIN proc'[p] BY <1>9 DEF Mark, Goto, Exclusion, Shape
  <2>4. \A q \in Thread \ {p} : proc'[q] = proc[q] BY <1>9 DEF Mark, Goto, Exclusion, Shape
  <2>5. QED BY <2>1, <2>2, <2>3, <2>4, GoesOn
<1>10. CASE RestoreFails(p)
  <2>1. proc[p].pc # "idle" BY <1>10 DEF RestoreFails, Failing, Restoring
  <2>2. lock' = lock \/ lock' = Extended BY <1>10 DEF RestoreFails
  <2>3. DOMAIN proc' = Thread /\ "pc" \in DOMAIN proc'[p] BY <1>10 DEF RestoreFails, Exclusion, Shape
  <2>4. \A q \in Thread \ {p} : proc'[q] = proc[q] BY <1>10 DEF RestoreFails, Exclusion, Shape
  <2>5. QED BY <2>1, <2>2, <2>3, <2>4, GoesOn
<1>11. QED BY <1>1, <1>2, <1>3, <1>4, <1>5, <1>6, <1>7, <1>8, <1>9, <1>10

-----------------------------------------------------------------------------
LEMMA ExclusionNext == ~Slow /\ Exclusion /\ [Next]_vars => Exclusion'
<1> SUFFICES ASSUME ~Slow, Exclusion, [Next]_vars PROVE Exclusion'
  OBVIOUS
<1>1. CASE LeaseEnds BY <1>1, LeaseEndsKeeps
<1>2. CASE \E p \in Thread : Crash(p) BY <1>2, CrashKeeps
<1>3. ASSUME NEW p \in Thread, RestoreStep(p) PROVE Exclusion'
  BY <1>3, RestoreKeeps, ReleaseKeeps DEF RestoreStep
<1>4. CASE \E p \in Promoter : PromoterStep(p)
  <2>1. PICK p \in Promoter : PromoterStep(p) BY <1>4
  <2>2. p \in Thread BY DEF Thread
  <2>3. CASE StartPromotion(p) BY <2>2, <2>3, AcquireKeeps DEF StartPromotion
  <2>4. CASE RestoreStep(p) BY <2>2, <2>4, <1>3
  <2>5. CASE ~StartPromotion(p) /\ ~RestoreStep(p)
    BY <2>1, <2>2, <2>5, RunKeeps DEF PromoterStep
  <2>6. QED BY <2>3, <2>4, <2>5
<1>5. CASE \E u \in Undoer : UndoerStep(u)
  <2>1. PICK u \in Undoer : UndoerStep(u) BY <1>5
  <2>2. u \in Thread BY DEF Thread
  <2>3. CASE StartUndo(u) BY <2>2, <2>3, AcquireKeeps DEF StartUndo
  <2>4. CASE RestoreStep(u) BY <2>2, <2>4, <1>3
  <2>5. CASE UndoCheck(u) BY <2>2, <2>5, RestoreKeeps
  <2>6. CASE Refuse(u) BY <2>2, <2>6, RunKeeps
  <2>7. QED BY <2>1, <2>3, <2>4, <2>5, <2>6 DEF UndoerStep
<1>6. CASE \E w \in Worker : WorkerStep(w)
  <2>1. PICK w \in Worker : WorkerStep(w) BY <1>6
  <2>2. w \in Thread BY DEF Thread
  <2>3. CASE StartRecovery(w) BY <2>2, <2>3, AcquireKeeps DEF StartRecovery
  <2>4. CASE RestoreStep(w) BY <2>2, <2>4, <1>3
  <2>5. QED BY <2>1, <2>3, <2>4 DEF WorkerStep
<1>7. CASE \E s \in Student : Send(s) \/ Approve(s)
  BY <1>7 DEF Send, Approve, Exclusion, Shape, OneAtATime, Covered
<1>8. CASE UNCHANGED vars
  BY <1>8 DEF vars, Exclusion, Shape, OneAtATime, Covered
<1>9. QED BY <1>1, <1>2, <1>4, <1>5, <1>6, <1>7, <1>8 DEF Next

\* run_promotion, rollback_last_run and recover_interrupted_runs exclude one
\* another, in any number of processes that may be killed anywhere, as long as
\* no live call outlasts its lease.
THEOREM Exclusive == ~Slow => (Spec => []OneAtATime)
<1> SUFFICES ASSUME ~Slow PROVE Spec => []OneAtATime
  OBVIOUS
<1>1. Init => Exclusion BY ExclusionInit
<1>2. Exclusion /\ [Next]_vars => Exclusion' BY ExclusionNext
<1>3. Exclusion => OneAtATime BY DEF Exclusion
<1>4. QED BY <1>1, <1>2, <1>3, PTL DEF Spec
=============================================================================
