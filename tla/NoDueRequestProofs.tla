------------------------ MODULE NoDueRequestProofs ------------------------
(***************************************************************************)
(* Proofs about NoDueRequest, for every set of requests, threads and files *)
(* and every length of the pause above two clock units.                    *)
(***************************************************************************)
EXTENDS NoDueRequest, TLAPS

USE SetsAssumption, TimeAssumption

-----------------------------------------------------------------------------
(***************************************************************************)
(* The values the handlers compute.                                        *)
(***************************************************************************)

\* What each handler writes is a document again.
LEMMA WritesAreDocs ==
    ASSUME NEW d \in Doc, NEW snap \in Doc, NEW t \in Nat,
           NEW f \in File \cup {NoFile}, clock \in Nat
    PROVE  /\ NoDoc \in Doc
           /\ Reset(d) \in Doc
           /\ Sent(d, snap, f) \in Doc
           /\ Rejected(d, snap, t) \in Doc
           /\ Expired(d, snap) \in Doc
           /\ [d EXCEPT !.status = "APPROVED"] \in Doc
           /\ [[d EXCEPT !.status = "NOT_SENT"] EXCEPT !.created = clock] \in Doc
<1> USE DEF Doc, Statuses
<1>1. NoDoc \in Doc
  BY DEF NoDoc
<1>2. Reset(d) \in Doc
  BY DEF Reset
<1>3. Sent(d, snap, f) \in Doc
  BY DEF Sent
<1>4. Rejected(d, snap, t) \in Doc
  <2>1. RejectedAttempts(snap) \in {0, 1, 2}
    BY DEF RejectedAttempts
  <2>2. t + Cooldown \in Nat
    OBVIOUS
  <2>3. (IF RejectedAttempts(snap) = 2 THEN t + Cooldown ELSE d.cooldown) \in Nat
    BY <2>2
  <2>4. QED
    BY <2>1, <2>3 DEF Rejected
<1>5. Expired(d, snap) \in Doc
  <2>1. ExpiredAttempts(snap) \in {0, 1, 2}
    BY DEF ExpiredAttempts
  <2>2. QED
    BY <2>1 DEF Expired
<1>6. [d EXCEPT !.status = "APPROVED"] \in Doc
  OBVIOUS
<1>7. [[d EXCEPT !.status = "NOT_SENT"] EXCEPT !.created = clock] \in Doc
  OBVIOUS
<1>8. QED
  BY <1>1, <1>2, <1>3, <1>4, <1>5, <1>6, <1>7

\* The local states a read leads to.
LEMMA ReadsAreLocal ==
    ASSUME NEW r \in Request, NEW d \in Doc, NEW pc \in PCs
    PROVE  /\ Idle \in Local
           /\ At(pc, r, d) \in Local
           /\ SendChecked(r, d) \in Local
<1>1. NoDoc \in Doc
  BY DEF NoDoc, Doc, Statuses
<1>2. QED
  BY <1>1 DEF Idle, At, SendChecked, Local, Locals, Requestless, PCs

-----------------------------------------------------------------------------
(***************************************************************************)
(* Type correctness.                                                       *)
(***************************************************************************)

LEMMA SweptType ==
    ASSUME TypeOK
    PROVE  Swept \in [Request -> Doc]
<1>1. ASSUME NEW r \in Request
      PROVE  Reset(doc[r]) \in Doc
  <2>1. doc[r] \in Doc
    BY DEF TypeOK
  <2>2. QED
    BY <2>1 DEF Reset, Doc, Statuses
<1>2. QED
  BY <1>1 DEF Swept, TypeOK

LEMMA InitType == ASSUME Init PROVE TypeOK
<1>1. NoDoc \in Doc /\ \A d \in OldDocs : d \in Doc
  BY OldDocsAssumption DEF NoDoc, Doc, Statuses, OldDoc
<1>2. Idle \in Local
  BY <1>1 DEF Idle, Local, Locals, Requestless, PCs
<1>3. QED
  BY <1>1, <1>2 DEF Init, TypeOK

\* The ways a thread's local variables change are type correct.
LEMMA MovesAreTyped ==
    ASSUME TypeOK, NEW p \in Thread
    PROVE  /\ Return(p) => proc' \in [Thread -> Local]
           /\ \A pc \in PCs :
                (pc \in Requestless \/ proc[p].pc \notin Requestless) /\ Goto(p, pc)
                    => proc' \in [Thread -> Local]
           /\ \A l \in Local : [proc EXCEPT ![p] = l] \in [Thread -> Local]
           /\ proc[p] \in Local
           /\ proc[p].snap \in Doc
           /\ proc[p].file \in File \cup {NoFile}
<1>1. proc \in [Thread -> Local]
  BY DEF TypeOK
<1>2. Idle \in Local
  BY DEF Idle, Local, Locals, Requestless, PCs, NoDoc, Doc, Statuses
<1>3. ASSUME NEW pc \in PCs, Goto(p, pc),
             pc \in Requestless \/ proc[p].pc \notin Requestless
      PROVE  proc' \in [Thread -> Local]
  <2>1. [proc[p] EXCEPT !.pc = pc] \in Local
    BY <1>1, <1>3 DEF Local, Locals
  <2>2. QED
    BY <1>1, <1>3, <2>1 DEF Goto
<1>4. proc[p].snap \in Doc /\ proc[p].file \in File \cup {NoFile}
  BY <1>1 DEF Local, Locals
<1>5. QED
  BY <1>1, <1>2, <1>3, <1>4 DEF Return

LEMMA TickType == ASSUME TypeOK, Tick PROVE TypeOK'
<1>1. clock' \in 0..MaxClock
  BY DEF Tick, TypeOK
<1>2. ASSUME NEW p \in Thread
      PROVE  [proc[p] EXCEPT !.late = (proc[p].pc # "idle")] \in Local
  <2>1. proc[p] \in Local
    BY DEF TypeOK
  <2>2. QED
    BY <2>1 DEF Local, Locals
<1>3. QED
  BY <1>1, <1>2 DEF Tick, TypeOK

LEMMA CrashType == ASSUME TypeOK, NEW p \in Thread, Crash(p) PROVE TypeOK'
  BY MovesAreTyped DEF Crash, TypeOK

LEMMA TabType == ASSUME TypeOK, NEW t \in Tab, TabStep(t) PROVE TypeOK'
<1>1. t \in Thread
  BY DEF Thread
<1>2. ASSUME NEW r \in Request, SendRead(t, r) PROVE TypeOK'
  <2>1. doc' \in [Request -> Doc]
    BY <1>2, SweptType DEF SendRead, TypeOK
  <2>2. doc'[r] \in Doc
    BY <2>1
  <2>3. /\ At("send_clear", r, doc'[r]) \in Local
        /\ SendChecked(r, doc'[r]) \in Local
    BY <2>2, ReadsAreLocal DEF PCs
  <2>4. proc' \in [Thread -> Local]
    BY <1>1, <1>2, <2>3, MovesAreTyped DEF SendRead
  <2>5. QED
    BY <1>2, <2>1, <2>4 DEF SendRead, TypeOK
<1>3. ASSUME NEW r \in Request, RetryRead(t, r) PROVE TypeOK'
  <2>1. doc' \in [Request -> Doc]
    BY <1>3, SweptType DEF RetryRead, TypeOK
  <2>2. doc'[r] \in Doc
    BY <2>1
  <2>3. /\ At("retry_clear", r, doc'[r]) \in Local
        /\ At("retry_write", r, doc'[r]) \in Local
        /\ Idle \in Local
    BY <2>2, ReadsAreLocal DEF PCs
  <2>4. proc' \in [Thread -> Local]
    BY <1>1, <1>3, <2>3, MovesAreTyped DEF RetryRead
  <2>5. QED
    BY <1>3, <2>1, <2>4 DEF RetryRead, TypeOK
<1>4. CASE ClearElapsed(t)
  <2>1. doc' \in [Request -> Doc]
    <3>1. proc[t].req \in Request => doc[proc[t].req] \in Doc
      BY DEF TypeOK
    <3>2. proc[t].req \in Request => Reset(doc[proc[t].req]) \in Doc
      BY <3>1 DEF Reset, Doc, Statuses
    <3>3. QED
      BY <1>4, <3>2 DEF ClearElapsed, TypeOK
  <2>2. proc' \in [Thread -> Local]
    BY <1>1, <1>4, MovesAreTyped DEF ClearElapsed, PCs, Requestless
  <2>3. QED
    BY <1>4, <2>1, <2>2 DEF ClearElapsed, TypeOK
<1>5. CASE Reread(t)
  <2>1. proc[t].req \in Request
    BY <1>1, <1>5 DEF Reread, TypeOK, Local, Requestless
  <2>2. doc[proc[t].req] \in Doc
    BY <2>1 DEF TypeOK
  <2>3. /\ SendChecked(proc[t].req, doc[proc[t].req]) \in Local
        /\ At("retry_write", proc[t].req, doc[proc[t].req]) \in Local
        /\ Idle \in Local
    BY <2>1, <2>2, ReadsAreLocal DEF PCs
  <2>4. proc[t].late \in BOOLEAN
    BY <1>1 DEF TypeOK, Local, Locals
  <2>5. \A l \in Local : [l EXCEPT !.late = proc[t].late] \in Local
    BY <2>4 DEF Local, Locals
  <2>6. proc' \in [Thread -> Local]
    <3> DEFINE next == IF proc[t].pc = "send_reread"
                       THEN SendChecked(proc[t].req, doc[proc[t].req])
                       ELSE IF MayRetry(doc[proc[t].req])
                       THEN At("retry_write", proc[t].req, doc[proc[t].req])
                       ELSE Idle
               l == IF next = Idle THEN Idle ELSE [next EXCEPT !.late = proc[t].late]
    <3>1. next \in Local
      BY <2>3
    <3>2. l \in Local
      BY <2>3, <2>5, <3>1
    <3>3. proc' = [proc EXCEPT ![t] = l]
      BY <1>5 DEF Reread
    <3>4. QED
      BY <1>1, <3>2, <3>3, MovesAreTyped
  <2>7. QED
    BY <1>5, <2>6 DEF Reread, TypeOK
<1>6. CASE UploadFails(t)
  BY <1>1, <1>6, MovesAreTyped DEF UploadFails, TypeOK
<1>7. CASE Upload(t)
  <2>1. CASE Goto(t, "send_write") /\ UNCHANGED <<files, uploaded>>
    BY <1>1, <1>7, <2>1, MovesAreTyped DEF Upload, TypeOK, PCs, Requestless
  <2>2. ASSUME NEW f \in File \ uploaded,
               files' = files \cup {f},
               uploaded' = uploaded \cup {f},
               proc' = [proc EXCEPT ![t].pc = "send_write", ![t].file = f]
        PROVE  TypeOK'
    <3>1. [proc[t] EXCEPT !.pc = "send_write", !.file = f] \in Local
      <4>1. proc[t] \in Local /\ proc[t].req \in Request
        BY <1>1, <1>7 DEF Upload, TypeOK, Local, Requestless
      <4>2. "send_write" \in PCs /\ f \in File \cup {NoFile}
        BY <2>2 DEF PCs
      <4>3. QED
        BY <4>1, <4>2 DEF Local, Locals
    <3>2. proc' \in [Thread -> Local]
      BY <1>1, <2>2, <3>1 DEF TypeOK
    <3>3. QED
      BY <1>7, <2>2, <3>2 DEF Upload, TypeOK
  <2>3. QED
    BY <1>7, <2>1, <2>2 DEF Upload
<1>8. CASE SendWrite(t)
  <2>1. proc[t].req \in Request => doc[proc[t].req] \in Doc
    BY DEF TypeOK
  <2>2. proc[t].snap \in Doc /\ proc[t].file \in File \cup {NoFile}
    BY <1>1, MovesAreTyped
  <2>3. clock \in Nat
    BY DEF TypeOK
  <2>4. proc[t].req \in Request
          => Sent(doc[proc[t].req], proc[t].snap, proc[t].file) \in Doc
    BY <2>1, <2>2, <2>3, WritesAreDocs
  <2>5. doc' \in [Request -> Doc]
    BY <1>8, <2>4 DEF SendWrite, TypeOK
  <2>6. QED
    BY <1>1, <1>8, <2>5, MovesAreTyped DEF SendWrite, TypeOK
<1>9. CASE SendConflict(t)
  BY <1>1, <1>9, MovesAreTyped DEF SendConflict, TypeOK, PCs, Requestless
<1>10. CASE SendDiscard(t)
  <2>1. proc' \in [Thread -> Local] /\ proc[t].file \in File \cup {NoFile}
    BY <1>1, <1>10, MovesAreTyped DEF SendDiscard
  <2>2. QED
    BY <1>10, <2>1 DEF SendDiscard, DeleteOrQueue, TypeOK
<1>11. CASE RetryWrite(t)
  <2>1. clock \in Nat
    BY DEF TypeOK
  <2>2. proc[t].req \in Request => doc[proc[t].req] \in Doc
    BY DEF TypeOK
  <2>3. proc[t].req \in Request =>
            [[doc[proc[t].req] EXCEPT !.status = "NOT_SENT"] EXCEPT !.created = clock] \in Doc
    BY <2>1, <2>2 DEF Doc, Statuses
  <2>4. proc[t].req \in Request
    BY <1>1, <1>11 DEF RetryWrite, TypeOK, Local, Requestless
  <2>5. doc' \in [Request -> Doc]
    BY <1>11, <2>3, <2>4 DEF RetryWrite, TypeOK
  <2>6. QED
    BY <1>1, <1>11, <2>5, MovesAreTyped DEF RetryWrite, TypeOK
<1>12. QED
  BY <1>2, <1>3, <1>4, <1>5, <1>6, <1>7, <1>8, <1>9, <1>10, <1>11
     DEF TabStep, TabContinues

LEMMA StaffType == ASSUME TypeOK, NEW s \in Staff, StaffStep(s) PROVE TypeOK'
<1>1. s \in Thread
  BY DEF Thread
<1>2. ASSUME NEW r \in Request, Approve(s, r) PROVE TypeOK'
  <2>1. doc[r] \in Doc
    BY DEF TypeOK
  <2>2. [doc[r] EXCEPT !.status = "APPROVED"] \in Doc
    BY <2>1 DEF Doc, Statuses
  <2>3. QED
    BY <1>2, <2>2 DEF Approve, TypeOK
<1>3. ASSUME NEW r \in Request, RejectRead(s, r) PROVE TypeOK'
  <2>1. doc[r] \in Doc
    BY DEF TypeOK
  <2>2. /\ At("reject_delete", r, doc[r]) \in Local
        /\ At("reject_write", r, doc[r]) \in Local
    BY <2>1, ReadsAreLocal DEF PCs
  <2>3. proc' \in [Thread -> Local]
    BY <1>1, <1>3, <2>2, MovesAreTyped DEF RejectRead
  <2>4. QED
    BY <1>3, <2>3 DEF RejectRead, TypeOK
<1>4. CASE RejectDelete(s)
  <2>1. proc[s].snap.receipt \in File \cup {NoFile}
    BY <1>1, MovesAreTyped DEF Doc
  <2>2. proc' \in [Thread -> Local]
    BY <1>1, <1>4, MovesAreTyped DEF RejectDelete, PCs, Requestless
  <2>3. QED
    BY <1>4, <2>1, <2>2 DEF RejectDelete, DeleteOrQueue, TypeOK
<1>5. CASE RejectWrite(s)
  <2>1. proc[s].req \in Request => doc[proc[s].req] \in Doc
    BY DEF TypeOK
  <2>2. proc[s].snap \in Doc
    BY <1>1, MovesAreTyped
  <2>3. clock \in Nat /\ ReadTime(s) + Cooldown \in Nat
    BY DEF TypeOK, ReadTime
  <2>4. proc[s].req \in Request
          => Rejected(doc[proc[s].req], proc[s].snap, ReadTime(s)) \in Doc
    <3>1. SUFFICES ASSUME proc[s].req \in Request
                   PROVE  Rejected(doc[proc[s].req], proc[s].snap, ReadTime(s)) \in Doc
      OBVIOUS
    <3> DEFINE d == doc[proc[s].req]
    <3>2. d \in Doc
      BY <2>1, <3>1
    <3>3. RejectedAttempts(proc[s].snap) \in {0, 1, 2}
      BY DEF RejectedAttempts
    <3>4. (IF RejectedAttempts(proc[s].snap) = 2 THEN ReadTime(s) + Cooldown
                                                 ELSE d.cooldown) \in Nat
      BY <2>3, <3>2 DEF Doc
    <3> HIDE DEF d
    <3>5. Rejected(d, proc[s].snap, ReadTime(s)) \in Doc
      BY <3>2, <3>3, <3>4 DEF Rejected, Doc, Statuses
    <3>6. QED
      BY <3>5 DEF d
  <2>5. doc' \in [Request -> Doc]
    BY <1>5, <2>4 DEF RejectWrite, TypeOK
  <2>6. QED
    BY <1>1, <1>5, <2>5, MovesAreTyped DEF RejectWrite, TypeOK
<1>6. QED
  BY <1>2, <1>3, <1>4, <1>5 DEF StaffStep, StaffContinues

LEMMA WorkerType == ASSUME TypeOK, NEW w \in Worker, WorkerStep(w) PROVE TypeOK'
<1>1. w \in Thread
  BY DEF Thread
<1>2. CASE Sweep(w)
  BY <1>2, SweptType DEF Sweep, TypeOK
<1>3. ASSUME NEW r \in Request, ExpireRead(w, r) PROVE TypeOK'
  <2>1. doc[r] \in Doc
    BY DEF TypeOK
  <2>2. /\ At("expire_delete", r, doc[r]) \in Local
        /\ At("expire_write", r, doc[r]) \in Local
    BY <2>1, ReadsAreLocal DEF PCs
  <2>3. proc' \in [Thread -> Local]
    BY <1>1, <1>3, <2>2, MovesAreTyped DEF ExpireRead
  <2>4. QED
    BY <1>3, <2>3 DEF ExpireRead, TypeOK
<1>4. ASSUME NEW f \in File, CleanCheck(w, f) PROVE TypeOK'
  <2>1. \A pc \in {"clean_drop", "clean_destroy"} :
            [Idle EXCEPT !.pc = pc, !.file = f] \in Local
    BY DEF Idle, NoDoc, Doc, Statuses, Local, Locals, PCs, Requestless
  <2>2. proc' \in [Thread -> Local]
    BY <1>1, <1>4, <2>1, MovesAreTyped DEF CleanCheck
  <2>3. QED
    BY <1>4, <2>2 DEF CleanCheck, TypeOK
<1>5. CASE ExpireDelete(w)
  <2>1. proc[w].snap.receipt \in File \cup {NoFile}
    BY <1>1, MovesAreTyped DEF Doc
  <2>2. proc' \in [Thread -> Local]
    BY <1>1, <1>5, MovesAreTyped DEF ExpireDelete, PCs, Requestless
  <2>3. QED
    BY <1>5, <2>1, <2>2 DEF ExpireDelete, DeleteOrQueue, TypeOK
<1>6. CASE ExpireWrite(w)
  <2>1. proc[w].req \in Request => doc[proc[w].req] \in Doc
    BY DEF TypeOK
  <2>2. proc[w].snap \in Doc
    BY <1>1, MovesAreTyped
  <2>3. clock \in Nat
    BY DEF TypeOK
  <2>4. proc[w].req \in Request
          => Expired(doc[proc[w].req], proc[w].snap) \in Doc
    BY <2>1, <2>2, <2>3, WritesAreDocs
  <2>5. doc' \in [Request -> Doc]
    BY <1>6, <2>4 DEF ExpireWrite, TypeOK
  <2>6. QED
    BY <1>1, <1>6, <2>5, MovesAreTyped DEF ExpireWrite, TypeOK
<1>7. CASE CleanDestroy(w)
  <2>1. proc' \in [Thread -> Local]
    BY <1>1, <1>7, MovesAreTyped DEF CleanDestroy, PCs, Requestless
  <2>2. QED
    BY <1>7, <2>1 DEF CleanDestroy, TypeOK
<1>8. CASE CleanDrop(w)
  BY <1>1, <1>8, MovesAreTyped DEF CleanDrop, TypeOK
<1>9. QED
  BY <1>2, <1>3, <1>4, <1>5, <1>6, <1>7, <1>8 DEF WorkerStep, WorkerContinues

\* Every state of every behaviour is of the declared types.
THEOREM TypeCorrect == Spec => []TypeOK
<1>1. Init => TypeOK
  BY InitType
<1>2. TypeOK /\ [Next]_vars => TypeOK'
  <2>1. ASSUME TypeOK, UNCHANGED vars PROVE TypeOK'
    BY <2>1 DEF vars, TypeOK
  <2>2. ASSUME TypeOK, Next PROVE TypeOK'
    BY <2>2, TickType, CrashType, TabType, StaffType, WorkerType DEF Next
  <2>3. QED
    BY <2>1, <2>2
<1>3. QED
  BY <1>1, <1>2, PTL DEF Spec

-----------------------------------------------------------------------------
(***************************************************************************)
(* What a step may do to one document, whichever thread takes it.          *)
(***************************************************************************)

Unchanged(d, e) == e = d

Ended(d, e) ==
    Elapsed(d) /\ e.status = "NOT_SENT" /\ e.attempts = 0 /\ e.cooldown = 0

Opened(d, e) ==
    /\ d.attempts < 2
    /\ e.status = "PENDING" /\ e.attempts = d.attempts /\ e.cooldown = d.cooldown

Withdrawn(d, e) ==
    /\ ~Untouched(d)
    /\ e.status = "NOT_SENT" /\ e.attempts = d.attempts /\ e.cooldown = d.cooldown

Granted(d, e) ==
    /\ d.status = "PENDING" /\ e.status = "APPROVED" /\ e.model = d.model
    /\ e.attempts = d.attempts /\ e.cooldown = d.cooldown

Refused(d, e) ==
    /\ d.status = "PENDING" /\ e.status = "REJECTED"
    /\ \/ e.attempts < 2 /\ e.cooldown = d.cooldown
       \/ e.attempts = 2 /\ e.cooldown \in clock + Cooldown - 1 .. clock + Cooldown

Returned(d, e) ==
    /\ d.status = "PENDING" /\ e.status = "NOT_SENT"
    /\ e.attempts < 2 /\ e.cooldown = d.cooldown

DocStep(d, e) ==
    \/ Unchanged(d, e) \/ Ended(d, e) \/ Opened(d, e) \/ Withdrawn(d, e)
    \/ Granted(d, e) \/ Refused(d, e) \/ Returned(d, e)

DocsStep == \A r \in Request : DocStep(doc[r], doc'[r])

\* A request that changes from open to paused or back does so as DocStep says:
\* the invariants on documents survive it.
LEMMA DocStepKeepsDocs ==
    ASSUME InductiveInvariant, DocsStep, TypeOK'
    PROVE  /\ PauseClosesRequest'
           /\ SpentIsOld'
           /\ \A r \in Request : ~Untouched(doc[r]) => ~Untouched(doc'[r])
<1> SUFFICES ASSUME NEW r \in Request
             PROVE  /\ doc'[r].cooldown # 0 => /\ doc'[r].attempts = 2
                                               /\ doc'[r].status \in {"NOT_SENT", "REJECTED"}
                    /\ Untouched(doc'[r]) => /\ doc'[r].model = 1
                                             /\ doc'[r].status \in {"PENDING", "APPROVED"}
                    /\ ~Untouched(doc[r]) => ~Untouched(doc'[r])
  BY DEF PauseClosesRequest, SpentIsOld, Untouched
<1> DEFINE d == doc[r]
           e == doc'[r]
<1>1. d \in Doc /\ e \in Doc /\ clock \in Nat
  BY DEF InductiveInvariant, TypeOK
<1>2. d.cooldown # 0 => d.attempts = 2 /\ d.status \in {"NOT_SENT", "REJECTED"}
  BY DEF InductiveInvariant, PauseClosesRequest
<1>3. Untouched(d) => d.model = 1 /\ d.status \in {"PENDING", "APPROVED"}
  BY DEF InductiveInvariant, SpentIsOld
<1>4. DocStep(d, e)
  BY DEF DocsStep
<1> HIDE DEF d, e
<1>5. CASE Unchanged(d, e)
  BY <1>2, <1>3, <1>5 DEF Unchanged, d, e
<1>6. CASE Ended(d, e)
  BY <1>6 DEF Ended, Untouched, d, e
<1>7. CASE Opened(d, e)
  BY <1>1, <1>2, <1>7 DEF Opened, Untouched, Doc, d, e
<1>8. CASE Withdrawn(d, e)
  BY <1>1, <1>2, <1>8 DEF Withdrawn, Untouched, Doc, d, e
<1>9. CASE Granted(d, e)
  BY <1>1, <1>2, <1>3, <1>9 DEF Granted, Untouched, Doc, d, e
<1>10. CASE Refused(d, e)
  BY <1>1, <1>2, <1>10 DEF Refused, Untouched, Doc, d, e
<1>11. CASE Returned(d, e)
  BY <1>1, <1>2, <1>11 DEF Returned, Untouched, Doc, d, e
<1>12. QED
  BY <1>4, <1>5, <1>6, <1>7, <1>8, <1>9, <1>10, <1>11 DEF DocStep, d, e

\* A thread that does not move keeps what it relies on.
LEMMA DocStepKeepsThreads ==
    ASSUME InductiveInvariant, DocsStep, TypeOK', clock' = clock,
           NEW p \in Thread, proc'[p] = proc[p]
    PROVE  SnapshotHolds(proc[p])' /\ NewPauseOutlives(proc[p])'
<1> DEFINE l == proc[p]
           d == doc[l.req]
           e == doc'[l.req]
<1>1. l \in Local /\ clock \in Nat
  BY DEF InductiveInvariant, TypeOK
<1>2. SnapshotHolds(l) /\ NewPauseOutlives(l)
  BY DEF InductiveInvariant
<1>3. l.pc \in Clearing \cup Rereading \cup Retrying => l.req \in Request
  BY <1>1 DEF Local, Requestless, Clearing, Rereading, Retrying
<1>4. SnapshotHolds(proc[p])'
  <2>1. l.pc \in Retrying => ~Untouched(e)
    BY <1>2, <1>3, DocStepKeepsDocs DEF SnapshotHolds
  <2>2. l.pc \in Clearing => Elapsed(l.snap)'
    BY <1>2 DEF SnapshotHolds, Elapsed
  <2>3. QED
    BY <1>2, <2>1, <2>2 DEF SnapshotHolds
<1>5. NewPauseOutlives(proc[p])'
  <2>1. SUFFICES ASSUME l.pc \in Clearing \cup Rereading
                 PROVE  \/ e.cooldown = 0
                        \/ l.pc \in Clearing /\ e.cooldown = l.snap.cooldown
                        \/ e.cooldown >= clock + (IF l.late THEN 1 ELSE 2)
    BY DEF NewPauseOutlives
  <2>2. d \in Doc /\ e \in Doc
    BY <1>3, <2>1 DEF InductiveInvariant, TypeOK
  <2>3. \/ e.cooldown = d.cooldown \/ e.cooldown = 0
        \/ e.cooldown \in clock + Cooldown - 1 .. clock + Cooldown
    <3>1. DocStep(d, e)
      BY <1>3, <2>1 DEF DocsStep
    <3>2. QED
      BY <3>1 DEF DocStep, Unchanged, Ended, Opened, Withdrawn, Granted, Refused, Returned
  <2>4. e.cooldown \in clock + Cooldown - 1 .. clock + Cooldown => e.cooldown >= clock + 2
    BY <1>1
  <2>5. \/ d.cooldown = 0
        \/ l.pc \in Clearing /\ d.cooldown = l.snap.cooldown
        \/ d.cooldown >= clock + (IF l.late THEN 1 ELSE 2)
    BY <1>2, <2>1 DEF NewPauseOutlives
  <2>6. l.late \in BOOLEAN
    BY <1>1 DEF Local, Locals
  <2>7. QED
    BY <1>1, <2>2, <2>3, <2>4, <2>5, <2>6 DEF Doc
<1>6. QED
  BY <1>4, <1>5

-----------------------------------------------------------------------------
(***************************************************************************)
(* Each thread's steps change documents as DocStep says and leave that     *)
(* thread with what it will rely on.                                       *)
(***************************************************************************)

\* The document of a request, as the invariant knows it.
LEMMA DocFacts ==
    ASSUME InductiveInvariant, NEW r \in Request
    PROVE  /\ doc[r] \in Doc
           /\ doc[r].attempts \in {0, 1, 2} /\ doc[r].cooldown \in Nat
           /\ doc[r].cooldown # 0 => /\ doc[r].attempts = 2
                                     /\ doc[r].status \in {"NOT_SENT", "REJECTED"}
           /\ Untouched(doc[r]) => doc[r].status \in {"PENDING", "APPROVED"}
  BY DEF InductiveInvariant, TypeOK, Doc, PauseClosesRequest, SpentIsOld

\* The sweep ends elapsed pauses and touches nothing else.
LEMMA SweepSteps ==
    ASSUME InductiveInvariant, doc' \in {doc, Swept}
    PROVE  DocsStep
<1> SUFFICES ASSUME NEW r \in Request PROVE DocStep(doc[r], doc'[r])
  BY DEF DocsStep
<1>1. doc[r] \in Doc
  BY DocFacts
<1>2. CASE doc'[r] = doc[r]
  BY <1>2 DEF DocStep, Unchanged
<1>3. CASE Elapsed(doc[r]) /\ doc'[r] = Reset(doc[r])
  BY <1>1, <1>3 DEF DocStep, Ended, Reset, Doc
<1>4. QED
  BY <1>2, <1>3 DEF Swept

\* The invariant's claim about the thread that moves.
Holds(p) == SnapshotHolds(proc[p]) /\ NewPauseOutlives(proc[p])

\* Where a thread relies on nothing, or on the attempts it read.
LEMMA RestingHolds ==
    ASSUME NEW p \in Thread,
           \/ proc'[p] = Idle
           \/ proc'[p].pc \in {"send_discard", "reject_delete", "reject_write",
                               "clean_destroy", "clean_drop"}
           \/ /\ proc'[p].pc \in {"send_upload", "send_write"}
              /\ proc'[p].snap.attempts < 2
    PROVE  Holds(p)'
  BY DEF Holds, SnapshotHolds, NewPauseOutlives, Idle, Clearing, Rereading, Retrying

\* A step of thread p: documents move as DocStep says, at most one of them
\* unless by a sweep, and p is left with what it will rely on.
OneDocStep ==
    \E r \in Request :
        /\ DocStep(doc[r], doc'[r])
        /\ doc' = [doc EXCEPT ![r] = doc'[r]]

Moves(p) ==
    /\ doc' \in {doc, Swept} \/ OneDocStep
    /\ Holds(p)'
    /\ clock' = clock
    /\ \A q \in Thread \ {p} : proc'[q] = proc[q]

LEMMA MovesStep ==
    ASSUME InductiveInvariant, doc' \in {doc, Swept} \/ OneDocStep
    PROVE  DocsStep
<1>1. CASE doc' \in {doc, Swept}
  BY <1>1, SweepSteps
<1>2. CASE OneDocStep
  BY <1>2 DEF OneDocStep, DocsStep, DocStep, Unchanged, InductiveInvariant, TypeOK
<1>3. QED
  BY <1>1, <1>2

\* What is known of a thread before it moves, and of the others after.
LEMMA ThreadFacts ==
    ASSUME InductiveInvariant, NEW p \in Thread
    PROVE  /\ proc[p] \in Local /\ proc[p].snap \in Doc
           /\ SnapshotHolds(proc[p]) /\ NewPauseOutlives(proc[p])
           /\ proc[p].pc \notin Requestless => proc[p].req \in Request
           /\ clock \in Nat
           /\ \A l : proc' = [proc EXCEPT ![p] = l]
                        => proc'[p] = l /\ \A q \in Thread \ {p} : proc'[q] = proc[q]
  BY DEF InductiveInvariant, TypeOK, Local, Locals

\* A send that goes ahead has an attempt left.
LEMMA SendCheckedFacts ==
    ASSUME NEW r \in Request, NEW d \in Doc, ~Elapsed(d), clock \in Nat,
           Untouched(d) => d.status \in {"PENDING", "APPROVED"}
    PROVE  \/ SendChecked(r, d) = Idle
           \/ /\ SendChecked(r, d).pc \in {"send_upload", "send_write"}
              /\ SendChecked(r, d).snap.attempts < 2
<1>1. ASSUME MaySend(d) PROVE d.attempts < 2
  <2>1. d.attempts \in {0, 1, 2} /\ d.cooldown \in Nat
    BY DEF Doc
  <2>2. QED
    BY <1>1, <2>1 DEF MaySend, Untouched, Paused, Elapsed
<1>2. QED
  BY <1>1 DEF SendChecked, At

LEMMA TabMoves ==
    ASSUME InductiveInvariant, TypeOK', NEW t \in Tab, TabStep(t)
    PROVE  Moves(t)
<1>1. t \in Thread
  BY DEF Thread
<1> DEFINE l == proc[t]
<1>2. /\ l \in Local /\ l.snap \in Doc
      /\ SnapshotHolds(l) /\ NewPauseOutlives(l)
      /\ l.pc \notin Requestless => l.req \in Request
      /\ clock \in Nat
      /\ \A m : proc' = [proc EXCEPT ![t] = m]
                    => proc'[t] = m /\ \A q \in Thread \ {t} : proc'[q] = proc[q]
  BY <1>1, ThreadFacts
<1>3. ASSUME NEW r \in Request, doc' \in {doc, Swept}
      PROVE  /\ doc'[r] \in Doc
             /\ Untouched(doc'[r]) => doc'[r].status \in {"PENDING", "APPROVED"}
  BY <1>3, SweepSteps, DocStepKeepsDocs DEF TypeOK, SpentIsOld
<1>4. ASSUME NEW r \in Request, SendRead(t, r) PROVE Moves(t)
  <2> DEFINE d == doc'[r]
  <2>1. /\ doc' \in {doc, Swept} /\ clock' = clock
        /\ proc' = [proc EXCEPT ![t] =
                        IF Elapsed(d) THEN At("send_clear", r, d) ELSE SendChecked(r, d)]
    BY <1>4 DEF SendRead
  <2>2. /\ proc'[t] = IF Elapsed(d) THEN At("send_clear", r, d) ELSE SendChecked(r, d)
        /\ \A q \in Thread \ {t} : proc'[q] = proc[q]
    BY <1>2, <2>1
  <2>3. CASE Elapsed(d)
    <3>1. proc'[t] = At("send_clear", r, d) /\ d.cooldown # 0 /\ d.cooldown <= clock'
      BY <2>1, <2>2, <2>3 DEF Elapsed
    <3>2. Holds(t)'
      BY <3>1 DEF Holds, SnapshotHolds, NewPauseOutlives, At, Clearing, Rereading,
                  Retrying, Elapsed
    <3>3. QED
      BY <2>1, <2>2, <3>2 DEF Moves
  <2>4. CASE ~Elapsed(d)
    <3>1. d \in Doc /\ (Untouched(d) => d.status \in {"PENDING", "APPROVED"})
      BY <1>3, <2>1
    <3>2. \/ proc'[t] = Idle
          \/ /\ proc'[t].pc \in {"send_upload", "send_write"}
             /\ proc'[t].snap.attempts < 2
      BY <1>2, <2>2, <2>4, <3>1, SendCheckedFacts
    <3>3. QED
      BY <1>1, <2>1, <2>2, <3>2, RestingHolds DEF Moves
  <2>5. QED
    BY <2>3, <2>4
<1>5. ASSUME NEW r \in Request, RetryRead(t, r) PROVE Moves(t)
  <2> DEFINE d == doc'[r]
             m == IF d.status # "REJECTED" THEN Idle
                  ELSE IF Elapsed(d) THEN At("retry_clear", r, d)
                  ELSE IF MayRetry(d) THEN At("retry_write", r, d) ELSE Idle
  <2>1. /\ doc' \in {doc, Swept} /\ clock' = clock
        /\ proc' = [proc EXCEPT ![t] = m]
    BY <1>5 DEF RetryRead
  <2>2. proc'[t] = m /\ \A q \in Thread \ {t} : proc'[q] = proc[q]
    BY <1>2, <2>1
  <2>3. CASE m = Idle
    BY <1>1, <2>1, <2>2, <2>3, RestingHolds DEF Moves
  <2>4. CASE m = At("retry_clear", r, d) /\ Elapsed(d)
    <3>1. d.cooldown # 0 /\ d.cooldown <= clock' /\ ~Untouched(d)
      BY <2>1, <2>4 DEF Elapsed, Untouched
    <3>2. Holds(t)'
      BY <2>2, <2>4, <3>1 DEF Holds, SnapshotHolds, NewPauseOutlives, At, Clearing,
                              Rereading, Retrying, Elapsed, Untouched
    <3>3. QED
      BY <2>1, <2>2, <3>2 DEF Moves
  <2>5. CASE m = At("retry_write", r, d) /\ MayRetry(d)
    <3>1. ~Untouched(d)
      BY <2>5 DEF MayRetry, Untouched
    <3>2. Holds(t)'
      BY <2>2, <2>5, <3>1 DEF Holds, SnapshotHolds, NewPauseOutlives, At, Clearing,
                              Rereading, Retrying, Untouched
    <3>3. QED
      BY <2>1, <2>2, <3>2 DEF Moves
  <2>6. QED
    BY <2>3, <2>4, <2>5
<1>6. CASE ClearElapsed(t)
  <2> DEFINE d == doc[l.req]
  <2>1. /\ l.pc \in Clearing /\ l.req \in Request /\ Elapsed(l.snap) /\ clock' = clock
        /\ doc' = IF d.cooldown = l.snap.cooldown
                  THEN [doc EXCEPT ![l.req] = Reset(d)] ELSE doc
    BY <1>2, <1>6 DEF ClearElapsed, Clearing, Requestless, SnapshotHolds
  <2>2. d \in Doc
    BY <2>1, DocFacts
  <2>3. doc' = doc \/ OneDocStep
    <3>1. CASE d.cooldown = l.snap.cooldown
      <4>1. DocStep(d, Reset(d))
        BY <2>1, <2>2, <3>1 DEF DocStep, Ended, Reset, Elapsed, Doc
      <4>2. QED
        BY <2>1, <3>1, <4>1 DEF OneDocStep, InductiveInvariant, TypeOK
    <3>2. QED
      BY <2>1, <3>1
  <2>4. /\ proc'[t] = [l EXCEPT !.pc = IF l.pc = "send_clear" THEN "send_reread"
                                                             ELSE "retry_reread"]
        /\ \A q \in Thread \ {t} : proc'[q] = proc[q]
    BY <1>1, <1>6 DEF ClearElapsed, Goto, InductiveInvariant, TypeOK
  <2>5. SnapshotHolds(proc[t])'
    <3>1. l.pc = "retry_clear" => ~Untouched(doc'[l.req])
      BY <1>2, <2>1, <2>3, MovesStep, DocStepKeepsDocs DEF SnapshotHolds, Retrying
    <3>2. /\ proc'[t].req = l.req
          /\ proc'[t].pc \in {"send_reread", "retry_reread"}
          /\ proc'[t].pc = "retry_reread" => l.pc = "retry_clear"
      BY <1>2, <2>1, <2>4 DEF Local, Locals, Clearing
    <3>3. QED
      BY <3>1, <3>2 DEF SnapshotHolds, Clearing, Retrying
  <2>6. NewPauseOutlives(proc[t])'
    <3>1. /\ proc'[t].req = l.req /\ proc'[t].late = l.late
          /\ proc'[t].pc \in {"send_reread", "retry_reread"}
      BY <1>2, <2>1, <2>4 DEF Local, Locals
    <3>2. \/ d.cooldown = 0
          \/ d.cooldown = l.snap.cooldown
          \/ d.cooldown >= clock + (IF l.late THEN 1 ELSE 2)
      BY <1>2, <2>1 DEF NewPauseOutlives
    <3>3. \/ doc'[l.req].cooldown = 0
          \/ doc'[l.req].cooldown >= clock + (IF l.late THEN 1 ELSE 2)
      <4>1. Reset(d).cooldown = 0
        BY <2>2 DEF Reset, Doc
      <4>2. d.cooldown = l.snap.cooldown => doc'[l.req] = Reset(d)
        BY <2>1 DEF InductiveInvariant, TypeOK
      <4>3. d.cooldown # l.snap.cooldown => doc' = doc
        BY <2>1
      <4>4. QED
        BY <3>2, <4>1, <4>2, <4>3
    <3>4. QED
      BY <2>1, <3>1, <3>3 DEF NewPauseOutlives
  <2>7. QED
    BY <2>1, <2>3, <2>4, <2>5, <2>6 DEF Moves, Holds
<1>7. CASE Reread(t)
  <2> DEFINE d == doc[l.req]
             next == IF l.pc = "send_reread" THEN SendChecked(l.req, d)
                     ELSE IF MayRetry(d) THEN At("retry_write", l.req, d) ELSE Idle
             m == IF next = Idle THEN Idle ELSE [next EXCEPT !.late = l.late]
  <2>1. /\ l.pc \in Rereading /\ l.req \in Request
        /\ doc' = doc /\ clock' = clock /\ proc' = [proc EXCEPT ![t] = m]
    BY <1>2, <1>7 DEF Reread, Rereading, Requestless
  <2>2. proc'[t] = m /\ \A q \in Thread \ {t} : proc'[q] = proc[q]
    BY <1>2, <2>1
  <2>3. d \in Doc /\ (Untouched(d) => d.status \in {"PENDING", "APPROVED"})
    BY <2>1, DocFacts
  <2>4. ~Elapsed(d)
    <3>1. d.cooldown \in Nat /\ l.late \in BOOLEAN /\ l.pc \notin Clearing
      BY <1>2, <2>1, <2>3 DEF Doc, Local, Locals, Rereading, Clearing
    <3>2. d.cooldown = 0 \/ d.cooldown >= clock + (IF l.late THEN 1 ELSE 2)
      BY <1>2, <2>1, <3>1 DEF NewPauseOutlives
    <3>3. QED
      BY <1>2, <3>1, <3>2 DEF Elapsed
  <2>5. Holds(t)'
    <3>1. CASE next = Idle
      BY <1>1, <2>2, <3>1, RestingHolds
    <3>2. CASE next # Idle /\ l.pc = "send_reread"
      <4>1. next = SendChecked(l.req, d)
        BY <3>2
      <4>2. next.pc \in {"send_upload", "send_write"} /\ next.snap.attempts < 2
        BY <1>2, <2>1, <2>3, <2>4, <3>2, <4>1, SendCheckedFacts
      <4>3. next = At("send_upload", l.req, d) \/ next = At("send_write", l.req, d)
        BY <3>2, <4>1 DEF SendChecked
      <4>4. m.pc = next.pc /\ m.snap = next.snap
        BY <3>2, <4>3 DEF At
      <4>5. QED
        BY <1>1, <2>2, <4>2, <4>4, RestingHolds
    <3>3. CASE next = At("retry_write", l.req, d) /\ MayRetry(d)
      <4>1. ~Untouched(d)
        BY <3>3 DEF MayRetry, Untouched
      <4>2. m.pc = "retry_write" /\ m.req = l.req
        BY <3>3 DEF At, Idle
      <4>3. QED
        <5>1. SnapshotHolds(proc[t])'
          BY <2>1, <2>2, <4>1, <4>2 DEF SnapshotHolds, Clearing, Retrying, Untouched
        <5>2. NewPauseOutlives(proc[t])'
          BY <2>2, <4>2 DEF NewPauseOutlives, Clearing, Rereading
        <5>3. QED
          BY <5>1, <5>2 DEF Holds
    <3>4. QED
      BY <2>1, <3>1, <3>2, <3>3 DEF Rereading
  <2>6. QED
    BY <2>1, <2>2, <2>5 DEF Moves
<1>8. CASE UploadFails(t) \/ SendConflict(t) \/ SendDiscard(t)
  <2>1. /\ doc' = doc /\ clock' = clock
        /\ Return(t) \/ Goto(t, "send_discard")
    BY <1>8 DEF UploadFails, SendConflict, SendDiscard
  <2>2. /\ proc'[t] = Idle \/ proc'[t].pc = "send_discard"
        /\ \A q \in Thread \ {t} : proc'[q] = proc[q]
    BY <1>1, <2>1 DEF Return, Goto, InductiveInvariant, TypeOK, Local, Locals
  <2>3. QED
    BY <1>1, <2>1, <2>2, RestingHolds DEF Moves
<1>9. CASE Upload(t)
  <2>1. doc' = doc /\ clock' = clock /\ l.snap.attempts < 2
    BY <1>2, <1>9 DEF Upload, SnapshotHolds
  <2>2. /\ proc'[t].pc = "send_write" /\ proc'[t].snap = l.snap
        /\ \A q \in Thread \ {t} : proc'[q] = proc[q]
    <3>1. CASE Goto(t, "send_write")
      BY <1>1, <3>1 DEF Goto, InductiveInvariant, TypeOK, Local, Locals
    <3>2. ASSUME NEW f, proc' = [proc EXCEPT ![t].pc = "send_write", ![t].file = f]
          PROVE  /\ proc'[t].pc = "send_write" /\ proc'[t].snap = l.snap
                 /\ \A q \in Thread \ {t} : proc'[q] = proc[q]
      <4>1. proc \in [Thread -> Local]
        BY DEF InductiveInvariant, TypeOK
      <4>2. proc' = [proc EXCEPT ![t] = [l EXCEPT !.pc = "send_write", !.file = f]]
        BY <1>1, <3>2, <4>1
      <4>3. proc'[t] = [l EXCEPT !.pc = "send_write", !.file = f]
        BY <1>1, <4>1, <4>2
      <4>4. /\ proc'[t].pc = "send_write" /\ proc'[t].snap = l.snap
        BY <1>2, <4>3 DEF Local, Locals
      <4>5. \A q \in Thread \ {t} : proc'[q] = proc[q]
        BY <4>1, <4>2
      <4>6. QED
        BY <4>4, <4>5
    <3>3. QED
      BY <1>9, <3>1, <3>2 DEF Upload
  <2>3. QED
    BY <1>1, <2>1, <2>2, RestingHolds DEF Moves
<1>10. CASE SendWrite(t)
  <2> DEFINE d == doc[l.req]
             e == Sent(d, l.snap, l.file)
  <2>1. /\ l.req \in Request /\ l.snap.attempts < 2 /\ SameVersion(d, l.snap)
        /\ doc' = [doc EXCEPT ![l.req] = e] /\ clock' = clock /\ Return(t)
    BY <1>2, <1>10 DEF SendWrite, Requestless, SnapshotHolds
  <2>2. d \in Doc
    BY <2>1, DocFacts
  <2>3. DocStep(d, e)
    BY <2>1, <2>2 DEF DocStep, Opened, Sent, SameVersion, Doc
  <2>4. OneDocStep
    BY <2>1, <2>3 DEF OneDocStep, InductiveInvariant, TypeOK
  <2>5. proc'[t] = Idle /\ \A q \in Thread \ {t} : proc'[q] = proc[q]
    BY <1>2, <2>1 DEF Return
  <2>6. QED
    BY <1>1, <2>1, <2>4, <2>5, RestingHolds DEF Moves
<1>11. CASE RetryWrite(t)
  <2> DEFINE d == doc[l.req]
             e == [[d EXCEPT !.status = "NOT_SENT"] EXCEPT !.created = clock]
  <2>1. /\ l.req \in Request /\ ~Untouched(d) /\ clock' = clock /\ Return(t)
    BY <1>2, <1>11 DEF RetryWrite, Requestless, SnapshotHolds, Retrying
  <2>2. d \in Doc
    BY <2>1, DocFacts
  <2>3. doc' = [doc EXCEPT ![l.req] = e]
    BY <1>11, <2>1, <2>2 DEF RetryWrite, InductiveInvariant, TypeOK
  <2>4. DocStep(d, e)
    BY <2>1, <2>2 DEF DocStep, Withdrawn, Doc
  <2>5. OneDocStep
    BY <2>1, <2>3, <2>4 DEF OneDocStep, InductiveInvariant, TypeOK
  <2>6. proc'[t] = Idle /\ \A q \in Thread \ {t} : proc'[q] = proc[q]
    BY <1>2, <2>1 DEF Return
  <2>7. QED
    BY <1>1, <2>1, <2>5, <2>6, RestingHolds DEF Moves
<1>12. QED
  BY <1>4, <1>5, <1>6, <1>7, <1>8, <1>9, <1>10, <1>11 DEF TabStep, TabContinues

LEMMA StaffMoves ==
    ASSUME InductiveInvariant, TypeOK', NEW s \in Staff, StaffStep(s)
    PROVE  Moves(s)
<1>1. s \in Thread
  BY DEF Thread
<1> DEFINE l == proc[s]
<1>2. /\ l \in Local /\ l.snap \in Doc
      /\ SnapshotHolds(l) /\ NewPauseOutlives(l)
      /\ l.pc \notin Requestless => l.req \in Request
      /\ clock \in Nat
      /\ \A m : proc' = [proc EXCEPT ![s] = m]
                    => proc'[s] = m /\ \A q \in Thread \ {s} : proc'[q] = proc[q]
  BY <1>1, ThreadFacts
<1>3. ASSUME NEW r \in Request, Approve(s, r) PROVE Moves(s)
  <2> DEFINE e == [doc[r] EXCEPT !.status = "APPROVED"]
  <2>1. doc' = [doc EXCEPT ![r] = e] /\ clock' = clock /\ proc' = proc
    BY <1>3 DEF Approve
  <2>2. DocStep(doc[r], e)
    BY <1>3, DocFacts DEF Approve, DocStep, Granted, Doc
  <2>3. OneDocStep
    BY <2>1, <2>2 DEF OneDocStep, InductiveInvariant, TypeOK
  <2>4. Holds(s)'
    BY <1>1, <2>1, <2>3, MovesStep, DocStepKeepsThreads DEF Holds
  <2>5. QED
    BY <2>1, <2>3, <2>4 DEF Moves
<1>4. ASSUME NEW r \in Request, RejectRead(s, r) PROVE Moves(s)
  <2> DEFINE m == At(IF HasReceipt(r, doc[r]) THEN "reject_delete" ELSE "reject_write",
                     r, doc[r])
  <2>1. doc' = doc /\ clock' = clock /\ proc' = [proc EXCEPT ![s] = m]
    BY <1>4 DEF RejectRead
  <2>2. proc'[s] = m /\ \A q \in Thread \ {s} : proc'[q] = proc[q]
    BY <1>2, <2>1
  <2>3. m.pc \in {"reject_delete", "reject_write"}
    BY DEF At
  <2>4. QED
    BY <1>1, <2>1, <2>2, <2>3, RestingHolds DEF Moves
<1>5. CASE RejectDelete(s)
  <2>1. doc' = doc /\ clock' = clock /\ Goto(s, "reject_write")
    BY <1>5 DEF RejectDelete
  <2>2. /\ proc'[s].pc = "reject_write"
        /\ \A q \in Thread \ {s} : proc'[q] = proc[q]
    BY <1>1, <2>1 DEF Goto, InductiveInvariant, TypeOK, Local, Locals
  <2>3. QED
    BY <1>1, <2>1, <2>2, RestingHolds DEF Moves
<1>6. CASE RejectWrite(s)
  <2> DEFINE d == doc[l.req]
             t == ReadTime(s)
             n == RejectedAttempts(l.snap)
             e == Rejected(d, l.snap, t)
  <2>1. /\ l.req \in Request /\ clock' = clock /\ Return(s)
        /\ doc' = IF d.status = "PENDING" THEN [doc EXCEPT ![l.req] = e] ELSE doc
    BY <1>2, <1>6 DEF RejectWrite, Requestless
  <2>2. d \in Doc /\ t + Cooldown \in clock + Cooldown - 1 .. clock + Cooldown
    BY <1>2, <2>1, DocFacts DEF ReadTime
  <2>3. n \in {1, 2}
    BY DEF RejectedAttempts
  <2>4. /\ e.status = "REJECTED" /\ e.attempts = n
        /\ n = 2 => e.cooldown = t + Cooldown
        /\ n # 2 => e.cooldown = d.cooldown
    BY <2>2 DEF Rejected, Doc
  <2>5. d.status = "PENDING" => DocStep(d, e)
    <3> HIDE DEF d, e, n, t
    <3>1. d.status = "PENDING" => Refused(d, e)
      BY <2>2, <2>3, <2>4 DEF Refused
    <3>2. QED
      BY <3>1 DEF DocStep
  <2>6. doc' = doc \/ OneDocStep
    BY <2>1, <2>5 DEF OneDocStep, InductiveInvariant, TypeOK
  <2>7. proc'[s] = Idle /\ \A q \in Thread \ {s} : proc'[q] = proc[q]
    BY <1>2, <2>1 DEF Return
  <2>8. QED
    BY <1>1, <2>1, <2>6, <2>7, RestingHolds DEF Moves
<1>7. QED
  BY <1>3, <1>4, <1>5, <1>6 DEF StaffStep, StaffContinues

LEMMA WorkerMoves ==
    ASSUME InductiveInvariant, TypeOK', NEW w \in Worker, WorkerStep(w)
    PROVE  Moves(w)
<1>1. w \in Thread
  BY DEF Thread
<1> DEFINE l == proc[w]
<1>2. /\ l \in Local /\ l.snap \in Doc
      /\ SnapshotHolds(l) /\ NewPauseOutlives(l)
      /\ l.pc \notin Requestless => l.req \in Request
      /\ clock \in Nat
      /\ \A m : proc' = [proc EXCEPT ![w] = m]
                    => proc'[w] = m /\ \A q \in Thread \ {w} : proc'[q] = proc[q]
  BY <1>1, ThreadFacts
<1>3. CASE Sweep(w)
  <2>1. doc' = Swept /\ clock' = clock /\ proc' = proc
    BY <1>3 DEF Sweep
  <2>2. Holds(w)'
    BY <1>1, <2>1, SweepSteps, DocStepKeepsThreads DEF Holds
  <2>3. QED
    BY <2>1, <2>2 DEF Moves
<1>4. ASSUME NEW r \in Request, ExpireRead(w, r) PROVE Moves(w)
  <2> DEFINE m == At(IF HasReceipt(r, doc[r]) THEN "expire_delete" ELSE "expire_write",
                     r, doc[r])
  <2>1. doc' = doc /\ clock' = clock /\ proc' = [proc EXCEPT ![w] = m]
    BY <1>4 DEF ExpireRead
  <2>2. proc'[w] = m /\ \A q \in Thread \ {w} : proc'[q] = proc[q]
    BY <1>2, <2>1
  <2>3. m.pc \in {"expire_delete", "expire_write"} /\ m.snap = doc[r] /\ ~m.late
    BY DEF At
  <2>4. doc[r].model = 2 => doc[r].attempts < 2
    <3>1. doc[r].status = "PENDING"
      BY <1>4 DEF ExpireRead, Unanswered
    <3>2. Untouched(doc[r]) => doc[r].model = 1
      BY DEF InductiveInvariant, SpentIsOld
    <3>3. QED
      BY <3>1, <3>2, DocFacts DEF Untouched
  <2>5. Holds(w)'
    BY <2>2, <2>3, <2>4 DEF Holds, SnapshotHolds, NewPauseOutlives, Clearing, Rereading,
                            Retrying
  <2>6. QED
    BY <2>1, <2>2, <2>5 DEF Moves
<1>5. CASE ExpireDelete(w)
  <2>1. /\ doc' = doc /\ clock' = clock /\ Goto(w, "expire_write")
        /\ l.snap.model = 2 => l.snap.attempts < 2
    BY <1>2, <1>5 DEF ExpireDelete, SnapshotHolds
  <2>2. /\ proc'[w].pc = "expire_write" /\ proc'[w].snap = l.snap
        /\ \A q \in Thread \ {w} : proc'[q] = proc[q]
    BY <1>1, <2>1 DEF Goto, InductiveInvariant, TypeOK, Local, Locals
  <2>3. Holds(w)'
    BY <2>1, <2>2 DEF Holds, SnapshotHolds, NewPauseOutlives, Clearing, Rereading, Retrying
  <2>4. QED
    BY <2>1, <2>2, <2>3 DEF Moves
<1>6. CASE ExpireWrite(w)
  <2> DEFINE d == doc[l.req]
             n == ExpiredAttempts(l.snap)
             e == Expired(d, l.snap)
  <2>1. /\ l.req \in Request /\ clock' = clock /\ Return(w)
        /\ doc' = IF d.status = "PENDING" THEN [doc EXCEPT ![l.req] = e] ELSE doc
        /\ l.snap.model = 2 => l.snap.attempts < 2
    BY <1>2, <1>6 DEF ExpireWrite, Requestless, SnapshotHolds
  <2>2. d \in Doc /\ l.snap.attempts \in {0, 1, 2}
    BY <1>2, <2>1, DocFacts DEF Doc
  <2>3. n < 2
    BY <2>1, <2>2 DEF ExpiredAttempts
  <2>4. e.status = "NOT_SENT" /\ e.attempts = n /\ e.cooldown = d.cooldown
    BY <2>2 DEF Expired, Doc
  <2>5. d.status = "PENDING" => DocStep(d, e)
    <3> HIDE DEF d, e, n
    <3>1. d.status = "PENDING" => Returned(d, e)
      BY <2>3, <2>4 DEF Returned
    <3>2. QED
      BY <3>1 DEF DocStep
  <2>6. doc' = doc \/ OneDocStep
    BY <2>1, <2>5 DEF OneDocStep, InductiveInvariant, TypeOK
  <2>7. proc'[w] = Idle /\ \A q \in Thread \ {w} : proc'[q] = proc[q]
    BY <1>2, <2>1 DEF Return
  <2>8. QED
    BY <1>1, <2>1, <2>6, <2>7, RestingHolds DEF Moves
<1>7. ASSUME NEW f \in File, CleanCheck(w, f) PROVE Moves(w)
  <2> DEFINE m == [Idle EXCEPT !.pc = IF StillUsed(f) THEN "clean_drop" ELSE "clean_destroy",
                               !.file = f]
  <2>1. doc' = doc /\ clock' = clock /\ proc' = [proc EXCEPT ![w] = m]
    BY <1>7 DEF CleanCheck
  <2>2. proc'[w] = m /\ \A q \in Thread \ {w} : proc'[q] = proc[q]
    BY <1>2, <2>1
  <2>3. m.pc \in {"clean_drop", "clean_destroy"}
    BY DEF Idle
  <2>4. QED
    BY <1>1, <2>1, <2>2, <2>3, RestingHolds DEF Moves
<1>8. CASE CleanDestroy(w) \/ CleanDrop(w)
  <2>1. /\ doc' = doc /\ clock' = clock
        /\ Return(w) \/ Goto(w, "clean_drop")
    BY <1>8 DEF CleanDestroy, CleanDrop
  <2>2. /\ proc'[w] = Idle \/ proc'[w].pc = "clean_drop"
        /\ \A q \in Thread \ {w} : proc'[q] = proc[q]
    BY <1>1, <2>1 DEF Return, Goto, InductiveInvariant, TypeOK, Local, Locals
  <2>3. QED
    BY <1>1, <2>1, <2>2, RestingHolds DEF Moves
<1>9. QED
  BY <1>3, <1>4, <1>5, <1>6, <1>7, <1>8 DEF WorkerStep, WorkerContinues

\* A killed process forgets what it relied on.
LEMMA CrashMoves ==
    ASSUME InductiveInvariant, NEW p \in Thread, Crash(p)
    PROVE  Moves(p)
<1>1. /\ doc' = doc /\ clock' = clock /\ proc'[p] = Idle
      /\ \A q \in Thread \ {p} : proc'[q] = proc[q]
  BY DEF Crash, Return, InductiveInvariant, TypeOK
<1>2. QED
  BY <1>1, RestingHolds DEF Moves

\* A tick makes threads late: what they rely on is stated with a day's margin.
LEMMA TickHolds ==
    ASSUME InductiveInvariant, Tick, TypeOK'
    PROVE  InductiveInvariant'
<1>1. doc' = doc /\ clock' = clock + 1
  BY DEF Tick
<1>2. PauseClosesRequest' /\ SpentIsOld'
  BY <1>1 DEF InductiveInvariant, PauseClosesRequest, SpentIsOld, Untouched
<1>3. ASSUME NEW p \in Thread
      PROVE  SnapshotHolds(proc[p])' /\ NewPauseOutlives(proc[p])'
  <2> DEFINE l == proc[p]
             m == proc'[p]
  <2>1. /\ l \in Local /\ ~l.late /\ clock \in Nat
        /\ SnapshotHolds(l) /\ NewPauseOutlives(l)
    BY DEF Tick, InductiveInvariant, TypeOK
  <2>2. /\ m.pc = l.pc /\ m.req = l.req /\ m.snap = l.snap
        /\ m.late <=> l.pc # "idle"
    BY <2>1 DEF Tick, Local, Locals
  <2>3. SnapshotHolds(proc[p])'
    <3>1. l.snap.cooldown \in Nat
      BY <2>1 DEF Local, Locals, Doc
    <3>2. l.pc \in Clearing => l.snap.cooldown # 0 /\ l.snap.cooldown <= clock'
      BY <1>1, <2>1, <3>1 DEF SnapshotHolds, Elapsed
    <3>3. l.pc \in Retrying => ~Untouched(doc'[l.req])
      BY <1>1, <2>1 DEF SnapshotHolds
    <3>4. QED
      BY <2>1, <2>2, <3>2, <3>3 DEF SnapshotHolds, Elapsed
  <2>4. NewPauseOutlives(proc[p])'
    <3>1. ASSUME l.pc \in Clearing \cup Rereading
          PROVE  \/ doc'[l.req].cooldown = 0
                 \/ l.pc \in Clearing /\ doc'[l.req].cooldown = l.snap.cooldown
                 \/ doc'[l.req].cooldown >= clock' + 1
      <4>1. doc[l.req].cooldown \in Nat
        BY <2>1, <3>1 DEF InductiveInvariant, TypeOK, Local, Requestless, Clearing,
                          Rereading, Doc
      <4>2. QED
        BY <1>1, <2>1, <3>1, <4>1 DEF NewPauseOutlives
    <3>2. l.pc \in Clearing \cup Rereading => m.late
      BY <2>2 DEF Clearing, Rereading
    <3>3. QED
      BY <2>2, <3>1, <3>2 DEF NewPauseOutlives
  <2>5. QED
    BY <2>3, <2>4
<1>4. QED
  BY <1>2, <1>3 DEF InductiveInvariant

LEMMA MovesHolds ==
    ASSUME InductiveInvariant, TypeOK', NEW p \in Thread, Moves(p)
    PROVE  InductiveInvariant'
<1>1. DocsStep
  BY MovesStep DEF Moves
<1>2. PauseClosesRequest' /\ SpentIsOld'
  BY <1>1, DocStepKeepsDocs
<1>3. ASSUME NEW q \in Thread
      PROVE  SnapshotHolds(proc[q])' /\ NewPauseOutlives(proc[q])'
  <2>1. CASE q = p
    BY <2>1 DEF Moves, Holds
  <2>2. CASE q # p
    BY <1>1, <2>2, DocStepKeepsThreads DEF Moves
  <2>3. QED
    BY <2>1, <2>2
<1>4. QED
  BY <1>2, <1>3 DEF InductiveInvariant

\* Every step is a tick or the move of a thread.
LEMMA StepMoves ==
    ASSUME InductiveInvariant, Next
    PROVE  TypeOK' /\ (Tick \/ \E p \in Thread : Moves(p))
<1>1. TypeOK
  BY DEF InductiveInvariant
<1>2. TypeOK'
  BY <1>1, TickType, CrashType, TabType, StaffType, WorkerType DEF Next
<1>3. QED
  BY <1>2, TabMoves, StaffMoves, WorkerMoves, CrashMoves DEF Next, Thread

LEMMA InitHolds == ASSUME Init PROVE InductiveInvariant
<1>1. TypeOK
  BY InitType
<1>2. ASSUME NEW r \in Request
      PROVE  /\ doc[r].cooldown = 0
             /\ Untouched(doc[r]) => /\ doc[r].model = 1
                                     /\ doc[r].status \in {"PENDING", "APPROVED"}
  <2>1. CASE doc[r] = NoDoc
    BY <2>1 DEF NoDoc, Untouched
  <2>2. CASE doc[r] \in OldDocs
    BY <2>2, OldDocsAssumption DEF OldDoc, Untouched
  <2>3. QED
    BY <2>1, <2>2 DEF Init
<1>3. \A p \in Thread : SnapshotHolds(proc[p]) /\ NewPauseOutlives(proc[p])
  BY DEF Init, Idle, SnapshotHolds, NewPauseOutlives, Clearing, Rereading, Retrying
<1>4. QED
  BY <1>1, <1>2, <1>3 DEF InductiveInvariant, PauseClosesRequest, SpentIsOld

\* The strengthening that carries the results below: what each thread may
\* still rely on when its next call to the database comes.
THEOREM Inductive == Spec => []InductiveInvariant
<1>1. Init => InductiveInvariant
  BY InitHolds
<1>2. InductiveInvariant /\ [Next]_vars => InductiveInvariant'
  <2>1. ASSUME InductiveInvariant, UNCHANGED vars PROVE InductiveInvariant'
    <3>1. TypeOK'
      BY <2>1 DEF vars, TypeOK, InductiveInvariant
    <3>2. PauseClosesRequest' /\ SpentIsOld'
      BY <2>1 DEF vars, InductiveInvariant, PauseClosesRequest, SpentIsOld, Untouched
    <3>3. doc' \in {doc, Swept} /\ clock' = clock
          /\ \A p \in Thread : proc'[p] = proc[p]
      BY <2>1 DEF vars
    <3>4. \A p \in Thread : SnapshotHolds(proc[p])' /\ NewPauseOutlives(proc[p])'
      BY <2>1, <3>1, <3>3, SweepSteps, DocStepKeepsThreads
    <3>5. QED
      BY <3>1, <3>2, <3>4 DEF InductiveInvariant
  <2>2. ASSUME InductiveInvariant, Next PROVE InductiveInvariant'
    BY <2>2, StepMoves, TickHolds, MovesHolds
  <2>3. QED
    BY <2>1, <2>2
<1>3. QED
  BY <1>1, <1>2, PTL DEF Spec

\* A paused request is closed, whatever threads race: no send, retry, late
\* decision or expiry opens a request during the 24 hours after its second
\* rejection (send_no_due_request, reject_request).
THEOREM PauseCloses == Spec => []PauseClosesRequest
<1>1. InductiveInvariant => PauseClosesRequest
  BY DEF InductiveInvariant
<1>2. QED
  BY <1>1, Inductive, PTL

\* A pause lasts until its expiry: no sweep, no clear decided on an earlier
\* snapshot and no late write shortens it or gives the attempts back.
THEOREM PauseLasts == Spec => PauseServed
<1>1. ASSUME InductiveInvariant, DocsStep, NEW r \in Request, Paused(doc[r])
      PROVE  doc'[r].cooldown = doc[r].cooldown /\ doc'[r].attempts = 2
  <2> DEFINE d == doc[r]
             e == doc'[r]
  <2>1. /\ d.attempts = 2 /\ d.status \in {"NOT_SENT", "REJECTED"}
        /\ d.cooldown \in Nat /\ clock \in Nat
    BY <1>1, DocFacts DEF Paused, InductiveInvariant, TypeOK
  <2>2. ~Elapsed(d)
    BY <1>1, <2>1 DEF Paused, Elapsed
  <2>3. DocStep(d, e)
    BY <1>1 DEF DocsStep
  <2> HIDE DEF d, e
  <2>4. Unchanged(d, e) \/ Withdrawn(d, e)
    BY <2>1, <2>2, <2>3 DEF DocStep, Ended, Opened, Granted, Refused, Returned
  <2>5. QED
    BY <2>1, <2>4 DEF Unchanged, Withdrawn, d, e
<1>2. InductiveInvariant /\ [Next]_vars
        => [\A r \in Request : Paused(doc[r]) =>
               doc'[r].cooldown = doc[r].cooldown /\ doc'[r].attempts = 2]_vars
  <2>1. ASSUME InductiveInvariant, Next PROVE DocsStep
    <3>1. CASE Tick
      BY <2>1, <3>1, SweepSteps DEF Tick
    <3>2. ASSUME NEW p \in Thread, Moves(p) PROVE DocsStep
      BY <2>1, <3>2, MovesStep DEF Moves
    <3>3. QED
      BY <2>1, <3>1, <3>2, StepMoves
  <2>2. QED
    BY <1>1, <2>1
<1>3. QED
  BY <1>2, Inductive, PTL DEF Spec, PauseServed

-----------------------------------------------------------------------------
(***************************************************************************)
(* The threads implement PauseContract.                                    *)
(***************************************************************************)

IsOpen(d) == d.status \in {"PENDING", "APPROVED"}

\* PauseContract's variables, as NoDueRequest reads them.
Open  == [r \in Request |-> doc[r].status \in {"PENDING", "APPROVED"}]
Until == [r \in Request |-> doc[r].cooldown]

\* A step on one document, seen by the contract.
LEMMA OneDocRefines ==
    ASSUME InductiveInvariant, TypeOK', clock' = clock, NEW r \in Request,
           DocStep(doc[r], doc'[r]), doc' = [doc EXCEPT ![r] = doc'[r]]
    PROVE  \/ Open' = Open /\ Until' = Until
           \/ Contract!Turn(r)
           \/ Contract!Pause(r)
           \/ Contract!End({r})
<1> DEFINE d == doc[r]
           e == doc'[r]
<1>1. /\ d \in Doc /\ e \in Doc /\ clock \in Nat
      /\ d.cooldown # 0 => d.attempts = 2 /\ ~IsOpen(d)
  BY DocFacts DEF InductiveInvariant, TypeOK, IsOpen
<1>2. /\ Open' = [Open EXCEPT ![r] = IsOpen(e)] /\ Open[r] = IsOpen(d)
      /\ Until' = [Until EXCEPT ![r] = e.cooldown] /\ Until[r] = d.cooldown
  BY DEF Open, Until, IsOpen, InductiveInvariant, TypeOK
<1>3. DocStep(d, e)
  OBVIOUS
<1> HIDE DEF d, e
<1>4. CASE IsOpen(e) = IsOpen(d) /\ e.cooldown = d.cooldown
  <2>1. Open' = [Open EXCEPT ![r] = Open[r]] /\ Until' = [Until EXCEPT ![r] = Until[r]]
    BY <1>2, <1>4
  <2>2. [Open EXCEPT ![r] = Open[r]] = Open /\ [Until EXCEPT ![r] = Until[r]] = Until
    BY DEF Open, Until
  <2>3. QED
    BY <2>1, <2>2
<1>5. CASE d.cooldown = 0 /\ e.cooldown = 0 /\ IsOpen(e) = ~IsOpen(d)
  <2>1. Open' = [Open EXCEPT ![r] = ~Open[r]] /\ Until' = [Until EXCEPT ![r] = Until[r]]
    BY <1>2, <1>5
  <2>2. [Until EXCEPT ![r] = Until[r]] = Until
    BY DEF Until
  <2>3. Contract!Turn(r)
    BY <1>2, <1>5, <2>1, <2>2 DEF Contract!Turn, Open, Until
  <2>4. QED
    BY <2>3
<1>6. CASE /\ d.cooldown = 0 /\ IsOpen(d) /\ ~IsOpen(e)
           /\ e.cooldown \in clock + Cooldown - 1 .. clock + Cooldown
  <2>1. IsOpen(e) = FALSE
    BY <1>6 DEF IsOpen
  <2>2. Contract!Pause(r)
    BY <1>2, <1>6, <2>1 DEF Contract!Pause, Open, Until
  <2>3. QED
    BY <2>2
<1>7. CASE Elapsed(d) /\ e.cooldown = 0 /\ IsOpen(e) = IsOpen(d)
  <2>1. Until' = [q \in Request |-> IF q \in {r} THEN 0 ELSE Until[q]]
    BY <1>2, <1>7 DEF Until
  <2>2. Open' = Open
    BY <1>2, <1>7 DEF Open
  <2>3. \A q \in {r} : Until[q] # 0 /\ Until[q] <= clock
    BY <1>2, <1>7 DEF Elapsed
  <2>4. Contract!End({r})
    BY <2>1, <2>2, <2>3 DEF Contract!End, Open, Until
  <2>5. QED
    BY <2>4
<1>8. \/ IsOpen(e) = IsOpen(d) /\ e.cooldown = d.cooldown
      \/ d.cooldown = 0 /\ e.cooldown = 0 /\ IsOpen(e) = ~IsOpen(d)
      \/ /\ d.cooldown = 0 /\ IsOpen(d) /\ ~IsOpen(e)
         /\ e.cooldown \in clock + Cooldown - 1 .. clock + Cooldown
      \/ Elapsed(d) /\ e.cooldown = 0 /\ IsOpen(e) = IsOpen(d)
  <2>1. CASE Unchanged(d, e)
    BY <2>1 DEF Unchanged
  <2>2. CASE Ended(d, e)
    BY <1>1, <2>2 DEF Ended, Elapsed, IsOpen
  <2>3. CASE Opened(d, e) \/ Withdrawn(d, e) \/ Granted(d, e)
    BY <1>1, <2>3 DEF Opened, Withdrawn, Granted, IsOpen, Doc
  <2>4. CASE Refused(d, e) \/ Returned(d, e)
    BY <1>1, <2>4 DEF Refused, Returned, IsOpen, Doc
  <2>5. QED
    BY <1>3, <2>1, <2>2, <2>3, <2>4 DEF DocStep
<1>9. QED
  BY <1>4, <1>5, <1>6, <1>7, <1>8

\* A sweep ends together the pauses that are over.
LEMMA SweepRefines ==
    ASSUME InductiveInvariant, clock' = clock, doc' = Swept,
           NEW S, S = {r \in Request : Elapsed(doc[r])}
    PROVE  Contract!End(S)
<1>1. ASSUME NEW r \in Request
      PROVE  /\ r \in S => Until[r] # 0 /\ Until[r] <= clock
             /\ Until'[r] = IF r \in S THEN 0 ELSE Until[r]
             /\ Open'[r] = Open[r]
  <2>1. doc[r] \in Doc /\ doc'[r] = IF Elapsed(doc[r]) THEN Reset(doc[r]) ELSE doc[r]
    BY DocFacts DEF Swept
  <2>2. Elapsed(doc[r]) => doc[r].status \in {"NOT_SENT", "REJECTED"}
    BY DocFacts DEF Elapsed
  <2>3. CASE Elapsed(doc[r])
    <3>1. Reset(doc[r]).status = "NOT_SENT" /\ Reset(doc[r]).cooldown = 0
      BY <2>1 DEF Reset, Doc
    <3>2. /\ (doc'[r].status \in {"PENDING", "APPROVED"}) = FALSE
          /\ (doc[r].status \in {"PENDING", "APPROVED"}) = FALSE
      BY <2>1, <2>2, <2>3, <3>1
    <3>3. Open'[r] = FALSE /\ Open[r] = FALSE
      BY <3>2 DEF Open
    <3>4. Until'[r] = 0 /\ Until[r] = doc[r].cooldown
      BY <2>1, <2>3, <3>1 DEF Until
    <3>5. doc[r].cooldown # 0 /\ doc[r].cooldown <= clock
      BY <2>3 DEF Elapsed
    <3>6. QED
      BY <2>3, <3>3, <3>4, <3>5
  <2>4. CASE ~Elapsed(doc[r])
    BY <2>1, <2>4 DEF Open, Until
  <2>5. QED
    BY <2>3, <2>4
<1>2. Until' = [r \in Request |-> IF r \in S THEN 0 ELSE Until[r]]
  <2>1. Until' = [r \in Request |-> Until'[r]]
    BY DEF Until
  <2>2. QED
    BY <1>1, <2>1
<1>3. Open' = Open
  <2>1. Open' = [r \in Request |-> Open'[r]] /\ Open = [r \in Request |-> Open[r]]
    BY DEF Open
  <2>2. QED
    BY <1>1, <2>1
<1>4. \A r \in S : Until[r] # 0 /\ Until[r] <= clock
  BY <1>1
<1>5. QED
  BY <1>2, <1>3, <1>4 DEF Contract!End, Open, Until

\* Every behaviour of the three kinds of threads, as far as the pauses go, is
\* one of PauseContract.
THEOREM Refines == Spec => ImplementsContract
<1>1. Init => Contract!Init
  <2>1. ASSUME Init PROVE \A r \in Request : doc[r].cooldown = 0
    BY <2>1, OldDocsAssumption DEF Init, NoDoc, OldDoc
  <2>2. QED
    BY <2>1 DEF Init, Contract!Init
<1>2. InductiveInvariant /\ [Next]_vars => [Contract!Next]_(Contract!vars)
  <2>1. ASSUME InductiveInvariant, UNCHANGED vars PROVE UNCHANGED Contract!vars
    BY <2>1 DEF vars, Contract!vars
  <2>2. ASSUME InductiveInvariant, Next PROVE [Contract!Next]_(Contract!vars)
    <3>1. CASE Tick
      BY <3>1 DEF Tick, Contract!Next, Contract!Pass
    <3>2. ASSUME NEW p \in Thread, Moves(p), TypeOK'
          PROVE  [Contract!Next]_(Contract!vars)
      <4>1. CASE doc' = doc
        BY <3>2, <4>1 DEF Moves, Contract!vars
      <4>2. CASE doc' = Swept
        <5>1. PICK S \in SUBSET Request : S = {r \in Request : Elapsed(doc[r])}
          OBVIOUS
        <5>2. Contract!End(S)
          BY <2>2, <3>2, <4>2, <5>1, SweepRefines DEF Moves
        <5>3. QED
          BY <5>2 DEF Contract!Next
      <4>3. CASE OneDocStep
        <5>1. PICK r \in Request : /\ DocStep(doc[r], doc'[r])
                                   /\ doc' = [doc EXCEPT ![r] = doc'[r]]
          BY <4>3 DEF OneDocStep
        <5>2. clock' = clock
          BY <3>2 DEF Moves
        <5>3. \/ Open' = Open /\ Until' = Until
              \/ Contract!Turn(r) \/ Contract!Pause(r) \/ Contract!End({r})
          BY <2>2, <3>2, <5>1, <5>2, OneDocRefines
        <5>4. Open' = Open /\ Until' = Until => UNCHANGED Contract!vars
          BY <5>2 DEF Open, Until, Contract!vars
        <5>5. {r} \in SUBSET Request
          OBVIOUS
        <5>6. QED
          BY <5>3, <5>4, <5>5 DEF Contract!Next
      <4>4. QED
        BY <3>2, <4>1, <4>2, <4>3 DEF Moves
    <3>3. QED
      BY <2>2, <3>1, <3>2, StepMoves
  <2>3. QED
    BY <2>1, <2>2
<1>3. QED
  BY <1>1, <1>2, Inductive, PTL DEF Spec, ImplementsContract, Contract!Spec

=============================================================================
