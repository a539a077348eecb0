--------------------------- MODULE NoDueOutcomes ---------------------------
(***************************************************************************)
(* More proofs about NoDueRequest: what becomes of the attempts, of the    *)
(* decisions and of the receipts.                                          *)
(***************************************************************************)
EXTENDS NoDueRequestProofs, NoDueHistory

-----------------------------------------------------------------------------
(***************************************************************************)
(* What one step of one thread does to the documents, and where it leaves  *)
(* the thread.                                                             *)
(***************************************************************************)

Expiring  == {"expire_delete", "expire_write"}
Rejecting == {"reject_delete", "reject_write"}
Sending   == {"send_upload", "send_write"}

TabPCs    == Clearing \cup Rereading \cup Sending \cup {"send_discard", "retry_write"}
StaffPCs  == Rejecting
WorkerPCs == Expiring \cup {"clean_destroy", "clean_drop"}

\* Document d of request r becomes e.
Kept(d, e) == e = d

PauseOver(d, e) == Elapsed(d) /\ e = Reset(d)

SentBy(p, r, d, e) ==
    /\ proc[p].pc = "send_write" /\ proc[p].req = r
    /\ SameVersion(d, proc[p].snap)
    /\ e = Sent(d, proc[p].snap, proc[p].file)

TakenBackBy(p, r, d, e) ==
    /\ proc[p].pc = "retry_write" /\ proc[p].req = r
    /\ e = [[d EXCEPT !.status = "NOT_SENT"] EXCEPT !.created = clock]

ApprovedBy(p, d, e) ==
    /\ proc[p].pc = "idle" /\ p \in Staff
    /\ d.status = "PENDING"
    /\ e = [d EXCEPT !.status = "APPROVED"]

RejectedBy(p, r, d, e) ==
    /\ proc[p].pc = "reject_write" /\ proc[p].req = r
    /\ d.status = "PENDING"
    /\ e = Rejected(d, proc[p].snap, ReadTime(p))

ExpiredBy(p, r, d, e) ==
    /\ proc[p].pc = "expire_write" /\ proc[p].req = r
    /\ d.status = "PENDING"
    /\ e = Expired(d, proc[p].snap)

DocAct(p) ==
    \A r \in Request :
        LET d == doc[r]
            e == doc'[r]
        IN
        \/ Kept(d, e) \/ PauseOver(d, e)
        \/ SentBy(p, r, d, e) \/ TakenBackBy(p, r, d, e)
        \/ ApprovedBy(p, d, e) \/ RejectedBy(p, r, d, e) \/ ExpiredBy(p, r, d, e)

\* A decision begins with a read of the waiting request, and goes on with it.
DecisionAct(p) ==
    LET l == proc[p]
        m == proc'[p]
    IN
    m.pc \in Expiring \cup Rejecting =>
        /\ doc' = doc
        /\ \/ /\ m.req = l.req /\ m.snap = l.snap /\ m.late = l.late
              /\ m.pc \in Expiring <=> l.pc \in Expiring
              /\ m.pc \in Rejecting <=> l.pc \in Rejecting
           \/ /\ m.req \in Request /\ m.snap = doc[m.req] /\ ~m.late
              /\ doc[m.req].status = "PENDING"
              /\ m.pc \in Expiring => Unanswered(doc[m.req])

\* A retry begins with a read of the rejected request.
RetryAct(p) ==
    LET l == proc[p]
        m == proc'[p]
    IN
    m.pc \in Retrying =>
        \/ m.req \in Request /\ doc'[m.req].status = "REJECTED"
        \/ l.pc \in Retrying /\ m.req = l.req /\ m.late = l.late

\* A send goes ahead from a request that is neither waiting nor approved.
SendAct(p) ==
    LET l == proc[p]
        m == proc'[p]
    IN
    m.pc \in Sending =>
        \/ m.snap.status \notin {"PENDING", "APPROVED"}
        \/ l.pc \in Sending /\ m.snap = l.snap

RoleAct(p) ==
    LET m == proc'[p] IN
    /\ m.pc \in TabPCs => p \in Tab
    /\ m.pc \in StaffPCs => p \in Staff
    /\ m.pc \in WorkerPCs => p \in Worker

Acts(p) ==
    /\ DocAct(p) /\ DecisionAct(p) /\ RetryAct(p) /\ SendAct(p) /\ RoleAct(p)
    /\ clock' = clock
    /\ \A q \in Thread \ {p} : proc'[q] = proc[q]

-----------------------------------------------------------------------------
\* Both hold of a step that leaves the documents alone or sweeps them.
LEMMA SweepActs ==
    ASSUME doc' \in {doc, Swept}
    PROVE  \A p \in Thread : DocAct(p)
<1> SUFFICES ASSUME NEW r \in Request
             PROVE  Kept(doc[r], doc'[r]) \/ PauseOver(doc[r], doc'[r])
  BY DEF DocAct
<1>1. QED
  BY DEF Swept, Kept, PauseOver

\* A step on one document is a step on all.
LEMMA OneActs ==
    ASSUME InductiveInvariant, NEW p \in Thread, NEW r \in Request, NEW e,
           doc' = [doc EXCEPT ![r] = e],
           \/ PauseOver(doc[r], e)
           \/ SentBy(p, r, doc[r], e) \/ TakenBackBy(p, r, doc[r], e)
           \/ ApprovedBy(p, doc[r], e)
           \/ RejectedBy(p, r, doc[r], e) \/ ExpiredBy(p, r, doc[r], e)
    PROVE  DocAct(p)
<1>1. doc'[r] = e /\ \A x \in Request \ {r} : doc'[x] = doc[x]
  BY DEF InductiveInvariant, TypeOK
<1>2. QED
  BY <1>1 DEF DocAct, Kept

\* The local states a step can lead to.
LEMMA Arrives ==
    ASSUME InductiveInvariant, NEW p \in Thread
    PROVE  /\ Return(p) => proc'[p] = Idle
           /\ \A pc : Goto(p, pc) => /\ proc'[p].pc = pc
                                     /\ proc'[p].req = proc[p].req
                                     /\ proc'[p].snap = proc[p].snap
                                     /\ proc'[p].file = proc[p].file
                                     /\ proc'[p].late = proc[p].late
  BY DEF Return, Goto, InductiveInvariant, TypeOK, Local, Locals

\* A thread that has returned relies on nothing.
LEMMA IdleActs ==
    ASSUME NEW p \in Thread, proc'[p].pc = "idle"
    PROVE  DecisionAct(p) /\ RetryAct(p) /\ SendAct(p) /\ RoleAct(p)
  BY DEF DecisionAct, RetryAct, SendAct, RoleAct, Expiring, Rejecting, Retrying, Sending,
         TabPCs, StaffPCs, WorkerPCs, Clearing, Rereading

\* A send or a retry is no decision.
LEMMA TabIsNoDecision ==
    ASSUME NEW t \in Tab, proc'[t].pc \in TabPCs
    PROVE  DecisionAct(t) /\ RoleAct(t)
  BY DEF DecisionAct, RoleAct, Expiring, Rejecting, Sending, TabPCs, StaffPCs, WorkerPCs,
         Clearing, Rereading

LEMMA TabActs ==
    ASSUME InductiveInvariant, NEW t \in Tab, TabStep(t)
    PROVE  DocAct(t) /\ DecisionAct(t) /\ RetryAct(t) /\ SendAct(t) /\ RoleAct(t)
<1> DEFINE Goal == DocAct(t) /\ DecisionAct(t) /\ RetryAct(t) /\ SendAct(t) /\ RoleAct(t)
           l == proc[t]
           d == doc[l.req]
<1>1. t \in Thread
  BY DEF Thread
<1>2. /\ l \in Local /\ l.snap \in Doc /\ SnapshotHolds(l)
      /\ l.pc \notin Requestless => l.req \in Request
      /\ \A m : proc' = [proc EXCEPT ![t] = m] => proc'[t] = m
  BY <1>1, ThreadFacts
<1>3. ASSUME NEW r \in Request, NEW e, proc'[t] = SendChecked(r, e)
      PROVE  DecisionAct(t) /\ RetryAct(t) /\ SendAct(t) /\ RoleAct(t)
  <2>1. CASE ~MaySend(e)
    <3>1. proc'[t].pc = "idle"
      BY <1>3, <2>1 DEF SendChecked, Idle
    <3>2. QED
      BY <1>1, <3>1, IdleActs
  <2>2. CASE MaySend(e)
    <3>1. proc'[t].pc \in Sending /\ proc'[t].snap = e
      BY <1>3, <2>2 DEF SendChecked, At, Sending
    <3>2. SendAct(t) /\ RetryAct(t)
      BY <2>2, <3>1 DEF SendAct, RetryAct, Retrying, MaySend, Sending
    <3>3. QED
      BY <3>1, <3>2, TabIsNoDecision DEF TabPCs
  <2>3. QED
    BY <2>1, <2>2
<1>4. ASSUME proc'[t].pc \in TabPCs \ (Retrying \cup Sending)
      PROVE  DecisionAct(t) /\ RetryAct(t) /\ SendAct(t) /\ RoleAct(t)
  BY <1>4, TabIsNoDecision DEF RetryAct, SendAct
<1>5. ASSUME NEW r \in Request, SendRead(t, r) PROVE Goal
  <2> DEFINE m == IF Elapsed(doc'[r]) THEN At("send_clear", r, doc'[r])
                                      ELSE SendChecked(r, doc'[r])
  <2>1. doc' \in {doc, Swept} /\ proc' = [proc EXCEPT ![t] = m]
    BY <1>5 DEF SendRead
  <2>2. proc'[t] = m
    BY <1>2, <2>1
  <2>3. CASE Elapsed(doc'[r])
    <3>1. proc'[t].pc \in TabPCs \ (Retrying \cup Sending)
      BY <2>2, <2>3 DEF At, TabPCs, Clearing, Retrying, Sending
    <3>2. QED
      BY <1>1, <1>4, <2>1, <3>1, SweepActs
  <2>4. CASE ~Elapsed(doc'[r])
    BY <1>1, <1>3, <2>1, <2>2, <2>4, SweepActs
  <2>5. QED
    BY <2>3, <2>4
<1>6. ASSUME NEW r \in Request, RetryRead(t, r) PROVE Goal
  <2> DEFINE m == IF doc'[r].status # "REJECTED" THEN Idle
                  ELSE IF Elapsed(doc'[r]) THEN At("retry_clear", r, doc'[r])
                  ELSE IF MayRetry(doc'[r]) THEN At("retry_write", r, doc'[r])
                  ELSE Idle
  <2>1. doc' \in {doc, Swept} /\ proc' = [proc EXCEPT ![t] = m]
    BY <1>6 DEF RetryRead
  <2>2. proc'[t] = m
    BY <1>2, <2>1
  <2>3. CASE m = Idle
    BY <1>1, <2>1, <2>2, <2>3, SweepActs, IdleActs DEF Idle
  <2>4. ASSUME NEW pc \in {"retry_clear", "retry_write"}, m = At(pc, r, doc'[r]),
               doc'[r].status = "REJECTED"
        PROVE  Goal
    <3>1. proc'[t].pc \in TabPCs \ Sending /\ proc'[t].req = r
      BY <2>2, <2>4 DEF At, TabPCs, Clearing, Sending
    <3>2. RetryAct(t) /\ SendAct(t)
      BY <2>4, <3>1 DEF RetryAct, SendAct
    <3>3. QED
      BY <1>1, <2>1, <3>1, <3>2, SweepActs, TabIsNoDecision
  <2>5. QED
    BY <2>3, <2>4
<1>7. CASE ClearElapsed(t)
  <2>1. /\ l.pc \in Clearing /\ l.req \in Request /\ Elapsed(l.snap)
        /\ doc' = IF d.cooldown = l.snap.cooldown
                  THEN [doc EXCEPT ![l.req] = Reset(d)] ELSE doc
        /\ Goto(t, IF l.pc = "send_clear" THEN "send_reread" ELSE "retry_reread")
    BY <1>2, <1>7 DEF ClearElapsed, Clearing, Requestless, SnapshotHolds
  <2>2. DocAct(t)
    <3>1. CASE d.cooldown = l.snap.cooldown
      <4>1. PauseOver(d, Reset(d))
        BY <2>1, <3>1 DEF PauseOver, Elapsed
      <4>2. QED
        BY <1>1, <2>1, <3>1, <4>1, OneActs
    <3>2. QED
      BY <1>1, <2>1, <3>1, SweepActs
  <2>3. /\ proc'[t].pc = IF l.pc = "send_clear" THEN "send_reread" ELSE "retry_reread"
        /\ proc'[t].req = l.req /\ proc'[t].late = l.late
    BY <1>1, <2>1, Arrives
  <2>4. RetryAct(t) /\ SendAct(t) /\ proc'[t].pc \in TabPCs
    BY <2>1, <2>3 DEF RetryAct, SendAct, Retrying, Sending, Clearing, Rereading, TabPCs
  <2>5. QED
    BY <2>2, <2>4, TabIsNoDecision
<1>8. CASE Reread(t)
  <2> DEFINE next == IF l.pc = "send_reread" THEN SendChecked(l.req, d)
                     ELSE IF MayRetry(d) THEN At("retry_write", l.req, d) ELSE Idle
             m == IF next = Idle THEN Idle ELSE [next EXCEPT !.late = l.late]
  <2>1. /\ doc' = doc /\ proc' = [proc EXCEPT ![t] = m]
        /\ l.pc \in Rereading /\ l.req \in Request
    BY <1>2, <1>8 DEF Reread, Rereading, Requestless
  <2>2. proc'[t] = m
    BY <1>2, <2>1
  <2>3. CASE next = Idle
    BY <1>1, <2>1, <2>2, <2>3, SweepActs, IdleActs DEF Idle
  <2>4. ASSUME NEW pc \in Sending, next = At(pc, l.req, d), MaySend(d)
        PROVE  Goal
    <3>1. proc'[t].pc \in Sending /\ proc'[t].snap = d
      BY <2>2, <2>4 DEF At, Idle
    <3>2. SendAct(t) /\ RetryAct(t)
      BY <2>4, <3>1 DEF SendAct, RetryAct, Retrying, MaySend, Sending
    <3>3. QED
      BY <1>1, <2>1, <3>1, <3>2, SweepActs, TabIsNoDecision DEF TabPCs
  <2>5. CASE next = At("retry_write", l.req, d) /\ MayRetry(d)
    <3>1. proc'[t].pc = "retry_write" /\ proc'[t].req = l.req
      BY <2>2, <2>5 DEF At, Idle
    <3>2. SendAct(t) /\ RetryAct(t)
      BY <2>1, <2>5, <3>1 DEF SendAct, RetryAct, Sending, MayRetry
    <3>3. QED
      BY <1>1, <2>1, <3>1, <3>2, SweepActs, TabIsNoDecision DEF TabPCs
  <2>6. \/ next = Idle
        \/ MaySend(d) /\ \E pc \in Sending : next = At(pc, l.req, d)
        \/ next = At("retry_write", l.req, d) /\ MayRetry(d)
    BY DEF SendChecked, Sending
  <2>7. QED
    BY <2>3, <2>4, <2>5, <2>6
<1>9. CASE UploadFails(t) \/ SendConflict(t) \/ SendDiscard(t)
  <2>1. doc' = doc /\ (Return(t) \/ Goto(t, "send_discard"))
    BY <1>9 DEF UploadFails, SendConflict, SendDiscard
  <2>2. proc'[t].pc = "idle" \/ proc'[t].pc = "send_discard"
    BY <1>1, <2>1, Arrives DEF Idle
  <2>3. CASE proc'[t].pc = "idle"
    BY <1>1, <2>1, <2>3, SweepActs, IdleActs
  <2>4. CASE proc'[t].pc = "send_discard"
    BY <1>1, <1>4, <2>1, <2>4, SweepActs DEF TabPCs, Retrying, Sending
  <2>5. QED
    BY <2>2, <2>3, <2>4
<1>10. CASE Upload(t)
  <2>1. doc' = doc /\ l.pc \in Sending
    BY <1>10 DEF Upload, Sending
  <2>2. proc'[t].pc = "send_write" /\ proc'[t].snap = l.snap
    <3>1. proc \in [Thread -> Local]
      BY DEF InductiveInvariant, TypeOK
    <3>2. ASSUME NEW f, proc' = [proc EXCEPT ![t].pc = "send_write", ![t].file = f]
          PROVE  proc'[t].pc = "send_write" /\ proc'[t].snap = l.snap
      <4> DEFINE m == [l EXCEPT !.pc = "send_write", !.file = f]
      <4>1. proc' = [proc EXCEPT ![t] = m]
        BY <1>1, <3>1, <3>2
      <4>2. m.pc = "send_write" /\ m.snap = l.snap
        BY <1>2 DEF Local, Locals
      <4>3. proc'[t] = m
        BY <1>1, <3>1, <4>1
      <4>4. QED
        BY <4>2, <4>3
    <3>3. QED
      BY <1>1, <1>10, <3>2, Arrives DEF Upload
  <2>3. SendAct(t) /\ RetryAct(t)
    BY <2>1, <2>2 DEF SendAct, RetryAct, Retrying
  <2>4. QED
    BY <1>1, <2>1, <2>2, <2>3, SweepActs, TabIsNoDecision DEF TabPCs, Sending
<1>11. CASE SendWrite(t)
  <2> DEFINE e == Sent(d, l.snap, l.file)
  <2>1. /\ l.req \in Request /\ doc' = [doc EXCEPT ![l.req] = e] /\ Return(t)
        /\ l.pc = "send_write" /\ SameVersion(d, l.snap)
    BY <1>2, <1>11 DEF SendWrite, Requestless
  <2>2. SentBy(t, l.req, d, e)
    BY <2>1 DEF SentBy
  <2>3. DocAct(t)
    <3> HIDE DEF d, e, l
    <3>1. QED
      BY <1>1, <2>1, <2>2, OneActs DEF d, l
  <2>4. proc'[t].pc = "idle"
    BY <1>1, <2>1, Arrives DEF Idle
  <2>5. QED
    BY <1>1, <2>3, <2>4, IdleActs
<1>12. CASE RetryWrite(t)
  <2> DEFINE e == [[d EXCEPT !.status = "NOT_SENT"] EXCEPT !.created = clock]
  <2>1. l.req \in Request /\ Return(t) /\ l.pc = "retry_write"
    BY <1>2, <1>12 DEF RetryWrite, Requestless
  <2>2. doc' = [doc EXCEPT ![l.req] = e]
    BY <1>12, <2>1, DocFacts DEF RetryWrite, InductiveInvariant, TypeOK
  <2>3. TakenBackBy(t, l.req, d, e)
    BY <2>1 DEF TakenBackBy
  <2>4. DocAct(t)
    <3> HIDE DEF d, e, l
    <3>1. QED
      BY <1>1, <2>1, <2>2, <2>3, OneActs DEF d, l
  <2>5. proc'[t].pc = "idle"
    BY <1>1, <2>1, Arrives DEF Idle
  <2>6. QED
    BY <1>1, <2>4, <2>5, IdleActs
<1>13. QED
  BY <1>5, <1>6, <1>7, <1>8, <1>9, <1>10, <1>11, <1>12 DEF TabStep, TabContinues

\* A decision is neither a send nor a retry.
LEMMA DecisionIsNoSend ==
    ASSUME NEW p \in Thread, proc'[p].pc \in Expiring \cup Rejecting
    PROVE  /\ RetryAct(p) /\ SendAct(p)
           /\ p \in Staff /\ proc'[p].pc \in Rejecting => RoleAct(p)
           /\ p \in Worker /\ proc'[p].pc \in Expiring => RoleAct(p)
  BY DEF RetryAct, SendAct, RoleAct, Expiring, Rejecting, Retrying, Sending, TabPCs,
         StaffPCs, WorkerPCs, Clearing, Rereading

LEMMA StaffActs ==
    ASSUME InductiveInvariant, NEW s \in Staff, StaffStep(s)
    PROVE  DocAct(s) /\ DecisionAct(s) /\ RetryAct(s) /\ SendAct(s) /\ RoleAct(s)
<1> DEFINE Goal == DocAct(s) /\ DecisionAct(s) /\ RetryAct(s) /\ SendAct(s) /\ RoleAct(s)
           l == proc[s]
           d == doc[l.req]
<1>1. s \in Thread
  BY DEF Thread
<1>2. /\ l.pc \notin Requestless => l.req \in Request
      /\ \A m : proc' = [proc EXCEPT ![s] = m] => proc'[s] = m
  BY <1>1, ThreadFacts
<1>3. ASSUME NEW r \in Request, Approve(s, r) PROVE Goal
  <2> DEFINE e == [doc[r] EXCEPT !.status = "APPROVED"]
  <2>1. doc' = [doc EXCEPT ![r] = e] /\ proc'[s].pc = "idle"
    BY <1>3 DEF Approve
  <2>2. ApprovedBy(s, doc[r], e)
    BY <1>3 DEF Approve, ApprovedBy
  <2>3. QED
    BY <1>1, <2>1, <2>2, OneActs, IdleActs
<1>4. ASSUME NEW r \in Request, RejectRead(s, r) PROVE Goal
  <2> DEFINE m == At(IF HasReceipt(r, doc[r]) THEN "reject_delete" ELSE "reject_write",
                     r, doc[r])
  <2>1. doc' = doc /\ doc[r].status = "PENDING" /\ proc' = [proc EXCEPT ![s] = m]
    BY <1>4 DEF RejectRead
  <2>2. proc'[s] = m
    BY <1>2, <2>1
  <2>3. m.req = r /\ m.snap = doc[r] /\ ~m.late /\ m.pc \in Rejecting
    BY DEF At, Rejecting
  <2>4. DecisionAct(s)
    BY <2>1, <2>2, <2>3 DEF DecisionAct, Expiring, Rejecting
  <2>5. QED
    BY <1>1, <2>1, <2>2, <2>3, <2>4, SweepActs, DecisionIsNoSend
<1>5. CASE RejectDelete(s)
  <2>1. doc' = doc /\ Goto(s, "reject_write") /\ l.pc = "reject_delete"
    BY <1>5 DEF RejectDelete
  <2>2. /\ proc'[s].pc = "reject_write" /\ proc'[s].req = l.req
        /\ proc'[s].snap = l.snap /\ proc'[s].late = l.late
    BY <1>1, <2>1, Arrives
  <2>3. DecisionAct(s)
    BY <2>1, <2>2 DEF DecisionAct, Expiring, Rejecting
  <2>4. proc'[s].pc \in Rejecting
    BY <2>2 DEF Rejecting
  <2>5. QED
    BY <1>1, <2>1, <2>3, <2>4, SweepActs, DecisionIsNoSend
<1>6. CASE RejectWrite(s)
  <2> DEFINE e == Rejected(d, l.snap, ReadTime(s))
  <2>1. /\ l.req \in Request /\ Return(s) /\ l.pc = "reject_write"
        /\ doc' = IF d.status = "PENDING" THEN [doc EXCEPT ![l.req] = e] ELSE doc
    BY <1>2, <1>6 DEF RejectWrite, Requestless
  <2>2. CASE d.status = "PENDING"
    <3>1. RejectedBy(s, l.req, d, e)
      BY <2>1, <2>2 DEF RejectedBy
    <3>2. DocAct(s)
      BY <1>1, <2>1, <2>2, <3>1, OneActs
    <3>3. QED
      BY <1>1, <2>1, <3>2, Arrives, IdleActs DEF Idle
  <2>3. CASE d.status # "PENDING"
    BY <1>1, <2>1, <2>3, SweepActs, Arrives, IdleActs DEF Idle
  <2>4. QED
    BY <2>2, <2>3
<1>7. QED
  BY <1>3, <1>4, <1>5, <1>6 DEF StaffStep, StaffContinues

LEMMA WorkerActs ==
    ASSUME InductiveInvariant, NEW w \in Worker, WorkerStep(w)
    PROVE  DocAct(w) /\ DecisionAct(w) /\ RetryAct(w) /\ SendAct(w) /\ RoleAct(w)
<1> DEFINE Goal == DocAct(w) /\ DecisionAct(w) /\ RetryAct(w) /\ SendAct(w) /\ RoleAct(w)
           l == proc[w]
           d == doc[l.req]
<1>1. w \in Thread
  BY DEF Thread
<1>2. /\ l.pc \notin Requestless => l.req \in Request
      /\ \A m : proc' = [proc EXCEPT ![w] = m] => proc'[w] = m
  BY <1>1, ThreadFacts
<1>3. CASE Sweep(w)
  BY <1>1, <1>3, SweepActs, IdleActs DEF Sweep
<1>4. ASSUME NEW r \in Request, ExpireRead(w, r) PROVE Goal
  <2> DEFINE m == At(IF HasReceipt(r, doc[r]) THEN "expire_delete" ELSE "expire_write",
                     r, doc[r])
  <2>1. doc' = doc /\ Unanswered(doc[r]) /\ proc' = [proc EXCEPT ![w] = m]
    BY <1>4 DEF ExpireRead
  <2>2. proc'[w] = m
    BY <1>2, <2>1
  <2>3. m.req = r /\ m.snap = doc[r] /\ ~m.late /\ m.pc \in Expiring
    BY DEF At, Expiring
  <2>4. DecisionAct(w)
    BY <2>1, <2>2, <2>3 DEF DecisionAct, Unanswered
  <2>5. QED
    BY <1>1, <2>1, <2>2, <2>3, <2>4, SweepActs, DecisionIsNoSend
<1>5. CASE ExpireDelete(w)
  <2>1. doc' = doc /\ Goto(w, "expire_write") /\ l.pc = "expire_delete"
    BY <1>5 DEF ExpireDelete
  <2>2. /\ proc'[w].pc = "expire_write" /\ proc'[w].req = l.req
        /\ proc'[w].snap = l.snap /\ proc'[w].late = l.late
    BY <1>1, <2>1, Arrives
  <2>3. DecisionAct(w)
    BY <2>1, <2>2 DEF DecisionAct, Expiring, Rejecting
  <2>4. proc'[w].pc \in Expiring
    BY <2>2 DEF Expiring
  <2>5. QED
    BY <1>1, <2>1, <2>3, <2>4, SweepActs, DecisionIsNoSend
<1>6. CASE ExpireWrite(w)
  <2> DEFINE e == Expired(d, l.snap)
  <2>1. /\ l.req \in Request /\ Return(w) /\ l.pc = "expire_write"
        /\ doc' = IF d.status = "PENDING" THEN [doc EXCEPT ![l.req] = e] ELSE doc
    BY <1>2, <1>6 DEF ExpireWrite, Requestless
  <2>2. CASE d.status = "PENDING"
    <3>1. ExpiredBy(w, l.req, d, e)
      BY <2>1, <2>2 DEF ExpiredBy
    <3>2. DocAct(w)
      BY <1>1, <2>1, <2>2, <3>1, OneActs
    <3>3. QED
      BY <1>1, <2>1, <3>2, Arrives, IdleActs DEF Idle
  <2>3. CASE d.status # "PENDING"
    BY <1>1, <2>1, <2>3, SweepActs, Arrives, IdleActs DEF Idle
  <2>4. QED
    BY <2>2, <2>3
<1>7. ASSUME proc'[w].pc \in {"idle", "clean_drop", "clean_destroy"}, doc' = doc
      PROVE  Goal
  <2>1. DecisionAct(w) /\ RetryAct(w) /\ SendAct(w) /\ RoleAct(w)
    BY <1>7 DEF DecisionAct, RetryAct, SendAct, RoleAct, Expiring, Rejecting, Retrying,
                Sending, TabPCs, StaffPCs, WorkerPCs, Clearing, Rereading
  <2>2. QED
    BY <1>1, <1>7, <2>1, SweepActs
<1>8. ASSUME NEW f \in File, CleanCheck(w, f) PROVE Goal
  <2> DEFINE m == [Idle EXCEPT !.pc = IF StillUsed(f) THEN "clean_drop" ELSE "clean_destroy",
                               !.file = f]
  <2>1. doc' = doc /\ proc' = [proc EXCEPT ![w] = m]
    BY <1>8 DEF CleanCheck
  <2>2. m.pc \in {"clean_drop", "clean_destroy"}
    BY DEF Idle
  <2>3. proc'[w] = m
    BY <1>2, <2>1
  <2>4. QED
    BY <1>7, <2>1, <2>2, <2>3
<1>9. CASE CleanDestroy(w) \/ CleanDrop(w)
  <2>1. doc' = doc /\ (Return(w) \/ Goto(w, "clean_drop"))
    BY <1>9 DEF CleanDestroy, CleanDrop
  <2>2. proc'[w].pc \in {"idle", "clean_drop"}
    BY <1>1, <2>1, Arrives DEF Idle
  <2>3. QED
    BY <1>7, <2>1, <2>2
<1>10. QED
  BY <1>3, <1>4, <1>5, <1>6, <1>8, <1>9 DEF WorkerStep, WorkerContinues

\* Every step is a tick or that of a thread.
LEMMA StepActs ==
    ASSUME InductiveInvariant, Next
    PROVE  Tick \/ \E p \in Thread : Acts(p)
<1>1. ASSUME NEW p \in Thread, Moves(p),
             DocAct(p), DecisionAct(p), RetryAct(p), SendAct(p), RoleAct(p)
      PROVE  Acts(p)
  BY <1>1 DEF Moves, Acts
<1>2. TypeOK'
  BY StepMoves
<1>3. ASSUME NEW p \in Thread, Crash(p) PROVE Acts(p)
  <2>1. Moves(p)
    BY <1>3, CrashMoves
  <2>2. doc' = doc /\ proc'[p].pc = "idle"
    BY <1>3, Arrives DEF Crash, Idle
  <2>3. QED
    BY <1>1, <2>1, <2>2, SweepActs, IdleActs
<1>4. ASSUME NEW t \in Tab, TabStep(t) PROVE Acts(t)
  BY <1>1, <1>2, <1>4, TabMoves, TabActs DEF Thread
<1>5. ASSUME NEW s \in Staff, StaffStep(s) PROVE Acts(s)
  BY <1>1, <1>2, <1>5, StaffMoves, StaffActs DEF Thread
<1>6. ASSUME NEW w \in Worker, WorkerStep(w) PROVE Acts(w)
  BY <1>1, <1>2, <1>6, WorkerMoves, WorkerActs DEF Thread
<1>7. QED
  BY <1>3, <1>4, <1>5, <1>6 DEF Next, Thread

-----------------------------------------------------------------------------
(***************************************************************************)
(* Only a rejection uses an attempt, however many threads run.             *)
(*                                                                         *)
(* The write that could break this is that of an expiry: it stores the     *)
(* count of a snapshot, under a filter that asks for PENDING alone.  It is *)
(* right because a request expires only two days after it was sent, and    *)
(* no thread lives for a day: whoever decides on the request while it      *)
(* expires has read the same sending of it.                                *)
(***************************************************************************)

\* A request still waiting since before it was read is as it was read.
StillAsRead(p) ==
    LET l == proc[p]
        d == doc[l.req]
    IN
    l.pc \in Expiring \cup Rejecting =>
        \/ d.status # "PENDING"
        \/ d.created >= ReadTime(p)
        \/ d.attempts = l.snap.attempts /\ d.model = l.snap.model

\* An expiry writes no more than the count it finds, and no pause ends
\* before it does.
ExpiryAddsNothing(p) ==
    LET l == proc[p]
        d == doc[l.req]
    IN
    l.pc \in Expiring =>
        /\ ExpiredAttempts(l.snap) <= d.attempts
        /\ d.cooldown = 0 \/ d.cooldown >= clock + (IF l.late THEN 1 ELSE 2)

\* Threads that decide on a request while it expires write the same count,
\* or that of a rejection more.
DecidersAgree(p, q) ==
    LET l == proc[p]
        m == proc[q]
    IN
    l.pc \in Expiring /\ m.req = l.req =>
        /\ m.pc \in Expiring => ExpiredAttempts(l.snap) = ExpiredAttempts(m.snap)
        /\ m.pc \in Rejecting => ExpiredAttempts(l.snap) <= RejectedAttempts(m.snap)

AttemptsSafe ==
    /\ \A p \in Thread : StillAsRead(p) /\ ExpiryAddsNothing(p)
    /\ \A p, q \in Thread : DecidersAgree(p, q)

\* What a step of thread p does to the count of a document d, which becomes e.
CountReset(d, e) == Elapsed(d) /\ e.attempts = 0 /\ e.cooldown = 0 /\ e.status = "NOT_SENT"

CountKept(d, e) ==
    /\ e.attempts = d.attempts /\ e.cooldown = d.cooldown
    /\ e.status = "PENDING" => e.created = clock

CountRejected(p, d, e) ==
    /\ proc[p].pc = "reject_write"
    /\ d.status = "PENDING" /\ e.status = "REJECTED"
    /\ e.attempts = RejectedAttempts(proc[p].snap)
    /\ e.cooldown = d.cooldown \/ e.cooldown >= clock + 2

CountExpired(p, d, e) ==
    /\ proc[p].pc = "expire_write"
    /\ d.status = "PENDING" /\ e.status = "NOT_SENT"
    /\ e.attempts = ExpiredAttempts(proc[p].snap)
    /\ e.cooldown = d.cooldown

CountStep(p) ==
    \A r \in Request :
        LET d == doc[r]
            e == doc'[r]
        IN
        \/ Kept(d, e) \/ CountReset(d, e) \/ CountKept(d, e)
        \/ r = proc[p].req /\ (CountRejected(p, d, e) \/ CountExpired(p, d, e))

-----------------------------------------------------------------------------
\* What the writes of decisions can be.
LEMMA DecisionValues ==
    ASSUME NEW d \in Doc
    PROVE  /\ ExpiredAttempts(d) \in 0..2 /\ RejectedAttempts(d) \in 0..2
           /\ ExpiredAttempts(d) <= d.attempts
           /\ d.attempts <= RejectedAttempts(d)
  BY DEF Doc, ExpiredAttempts, RejectedAttempts

\* Two documents of the same count and model expire alike.
LEMMA SameCountExpiresAlike ==
    ASSUME NEW d, NEW e, d.attempts = e.attempts, d.model = e.model
    PROVE  /\ ExpiredAttempts(d) = ExpiredAttempts(e)
           /\ RejectedAttempts(d) = RejectedAttempts(e)
  BY DEF ExpiredAttempts, RejectedAttempts

\* What is known of a thread that decides.
LEMMA DeciderFacts ==
    ASSUME InductiveInvariant, NEW p \in Thread
    PROVE  /\ clock \in Nat /\ ReadTime(p) \in Int
           /\ ReadTime(p) >= clock - 1 /\ ReadTime(p) <= clock
           /\ proc[p].late \in BOOLEAN /\ proc[p].snap \in Doc
           /\ proc[p].pc \in Expiring \cup Rejecting =>
                /\ proc[p].req \in Request
                /\ doc[proc[p].req] \in Doc
<1>1. clock \in Nat /\ proc[p] \in Local
  BY DEF InductiveInvariant, TypeOK
<1>2. proc[p].late \in BOOLEAN /\ proc[p].snap \in Doc
  BY <1>1 DEF Local, Locals
<1>3. proc[p].pc \in Expiring \cup Rejecting => proc[p].req \in Request
  BY <1>1 DEF Local, Requestless, Expiring, Rejecting
<1>4. QED
  BY <1>1, <1>2, <1>3 DEF ReadTime, InductiveInvariant, TypeOK

\* The count in the steps of a thread.
LEMMA ActsCount ==
    ASSUME InductiveInvariant, NEW p \in Thread, Acts(p)
    PROVE  CountStep(p)
<1> SUFFICES ASSUME NEW r \in Request
             PROVE  \/ Kept(doc[r], doc'[r]) \/ CountReset(doc[r], doc'[r])
                    \/ CountKept(doc[r], doc'[r])
                    \/ /\ r = proc[p].req
                       /\ \/ CountRejected(p, doc[r], doc'[r])
                          \/ CountExpired(p, doc[r], doc'[r])
  BY DEF CountStep
<1> DEFINE d == doc[r]
           e == doc'[r]
           l == proc[p]
<1>1. d \in Doc /\ ReadTime(p) + Cooldown >= clock + 2
  BY DocFacts, DeciderFacts, TimeAssumption
<1>2. \/ Kept(d, e) \/ PauseOver(d, e)
      \/ SentBy(p, r, d, e) \/ TakenBackBy(p, r, d, e)
      \/ ApprovedBy(p, d, e) \/ RejectedBy(p, r, d, e) \/ ExpiredBy(p, r, d, e)
  BY DEF Acts, DocAct
<1> HIDE DEF d, e
<1>3. CASE PauseOver(d, e)
  BY <1>1, <1>3 DEF PauseOver, Reset, Doc, CountReset, d, e
<1>4. CASE SentBy(p, r, d, e)
  BY <1>1, <1>4 DEF SentBy, Sent, SameVersion, Doc, CountKept, d, e
<1>5. CASE TakenBackBy(p, r, d, e)
  BY <1>1, <1>5 DEF TakenBackBy, Doc, CountKept, d, e
<1>6. CASE ApprovedBy(p, d, e)
  BY <1>1, <1>6 DEF ApprovedBy, Doc, CountKept, d, e
<1>7. CASE RejectedBy(p, r, d, e)
  <2> DEFINE n == RejectedAttempts(l.snap)
             t == ReadTime(p) + Cooldown
  <2>1. /\ e.status = "REJECTED" /\ e.attempts = n
        /\ e.cooldown = d.cooldown \/ e.cooldown = t
    BY <1>1, <1>7 DEF RejectedBy, Rejected, Doc
  <2>2. l.pc = "reject_write" /\ d.status = "PENDING" /\ l.req = r
    BY <1>7 DEF RejectedBy
  <2> HIDE DEF n, t
  <2>3. CountRejected(p, d, e)
    BY <1>1, <2>1, <2>2 DEF CountRejected, n, t
  <2>4. QED
    BY <2>2, <2>3 DEF d, e
<1>8. CASE ExpiredBy(p, r, d, e)
  BY <1>1, <1>8 DEF ExpiredBy, Expired, Doc, CountExpired, d, e
<1>9. QED
  BY <1>2, <1>3, <1>4, <1>5, <1>6, <1>7, <1>8 DEF d, e

\* A request about to expire was sent before any living thread read it: the
\* decisions under way are on this sending of it.
LEMMA ExpiryMeetsOneSending ==
    ASSUME InductiveInvariant, AttemptsSafe, NEW q \in Thread,
           proc[q].pc \in Expiring \cup Rejecting, Unanswered(doc[proc[q].req])
    PROVE  /\ ExpiredAttempts(proc[q].snap) = ExpiredAttempts(doc[proc[q].req])
           /\ RejectedAttempts(proc[q].snap) = RejectedAttempts(doc[proc[q].req])
<1> DEFINE d == doc[proc[q].req]
<1>1. d \in Doc /\ clock \in Nat /\ ReadTime(q) \in Int /\ ReadTime(q) >= clock - 1
  BY DeciderFacts
<1>2. d.status = "PENDING" /\ d.created \in Nat /\ d.created < ReadTime(q)
  BY <1>1, TimeAssumption DEF Unanswered, Doc
<1>3. StillAsRead(q)
  BY DEF AttemptsSafe
<1>4. d.attempts = proc[q].snap.attempts /\ d.model = proc[q].snap.model
  BY <1>1, <1>2, <1>3 DEF StillAsRead
<1>5. QED
  BY <1>4, SameCountExpiresAlike

-----------------------------------------------------------------------------
\* The thread that moves keeps its own part of the invariant.
LEMMA DeciderMoves ==
    ASSUME InductiveInvariant, AttemptsSafe, NEW p \in Thread, Acts(p)
    PROVE  StillAsRead(p)' /\ ExpiryAddsNothing(p)'
<1> DEFINE l == proc[p]
           m == proc'[p]
<1> SUFFICES ASSUME m.pc \in Expiring \cup Rejecting
             PROVE  StillAsRead(p)' /\ ExpiryAddsNothing(p)'
  BY DEF StillAsRead, ExpiryAddsNothing
<1>1. doc' = doc /\ clock' = clock /\ clock \in Nat
  BY DeciderFacts DEF Acts, DecisionAct
<1>2. CASE /\ m.req = l.req /\ m.snap = l.snap /\ m.late = l.late
           /\ m.pc \in Expiring <=> l.pc \in Expiring
           /\ m.pc \in Rejecting <=> l.pc \in Rejecting
  <2>1. StillAsRead(p) /\ ExpiryAddsNothing(p)
    BY DEF AttemptsSafe
  <2>2. ReadTime(p)' = ReadTime(p)
    BY <1>1, <1>2 DEF ReadTime
  <2>3. ExpiredAttempts(m.snap) = ExpiredAttempts(l.snap)
    BY <1>2
  <2>4. QED
    BY <1>1, <1>2, <2>1, <2>2, <2>3 DEF StillAsRead, ExpiryAddsNothing
<1>3. CASE /\ m.req \in Request /\ m.snap = doc[m.req] /\ ~m.late
           /\ doc[m.req].status = "PENDING"
  <2>1. doc[m.req] \in Doc /\ doc[m.req].cooldown = 0
    BY <1>3, DocFacts
  <2>2. ExpiredAttempts(m.snap) <= doc[m.req].attempts
    BY <1>3, <2>1, DecisionValues
  <2>3. QED
    BY <1>1, <1>3, <2>1, <2>2 DEF StillAsRead, ExpiryAddsNothing
<1>4. QED
  BY <1>2, <1>3 DEF Acts, DecisionAct

\* A thread that stays keeps its own part: what happens to its request is a
\* new sending, or leaves the count alone, or is a decision that agrees.
LEMMA DeciderStays ==
    ASSUME InductiveInvariant, TypeOK', AttemptsSafe, NEW p \in Thread, Acts(p),
           NEW q \in Thread, proc'[q] = proc[q]
    PROVE  StillAsRead(q)' /\ ExpiryAddsNothing(q)'
<1> DEFINE l == proc[q]
           d == doc[l.req]
           e == doc'[l.req]
<1> SUFFICES ASSUME l.pc \in Expiring \cup Rejecting
             PROVE  StillAsRead(q)' /\ ExpiryAddsNothing(q)'
  BY DEF StillAsRead, ExpiryAddsNothing
<1>1. /\ clock' = clock /\ clock \in Nat /\ ReadTime(q) \in Int /\ ReadTime(q) <= clock
      /\ l.req \in Request /\ d \in Doc /\ l.late \in BOOLEAN /\ l.snap \in Doc
  BY DeciderFacts DEF Acts
<1>2. e \in Doc /\ ReadTime(q)' = ReadTime(q)
  BY <1>1 DEF TypeOK, ReadTime
<1>3. StillAsRead(q) /\ ExpiryAddsNothing(q) /\ DecidersAgree(q, p)
  BY DEF AttemptsSafe
<1>4. \/ Kept(d, e) \/ CountReset(d, e) \/ CountKept(d, e)
      \/ l.req = proc[p].req /\ (CountRejected(p, d, e) \/ CountExpired(p, d, e))
  BY <1>1, ActsCount DEF CountStep
<1>5. d.status # "PENDING" \/ d.cooldown = 0
  BY <1>1, DocFacts
<1>6. StillAsRead(q)'
  <2>1. \/ e.status # "PENDING"
        \/ e.created >= ReadTime(q)
        \/ e.attempts = l.snap.attempts /\ e.model = l.snap.model
    BY <1>1, <1>2, <1>3, <1>4
       DEF StillAsRead, Kept, CountReset, CountKept, CountRejected, CountExpired, Doc
  <2>2. QED
    BY <1>2, <2>1 DEF StillAsRead
<1>7. ExpiryAddsNothing(q)'
  <2>1. SUFFICES ASSUME l.pc \in Expiring
                 PROVE  /\ ExpiredAttempts(l.snap) <= e.attempts
                        /\ e.cooldown = 0 \/ e.cooldown >= clock + (IF l.late THEN 1 ELSE 2)
    BY <1>1 DEF ExpiryAddsNothing
  <2> DEFINE n == ExpiredAttempts(l.snap)
             lim == clock + (IF l.late THEN 1 ELSE 2)
  <2>2. n \in 0..2 /\ lim \in Nat /\ lim <= clock + 2 /\ lim > clock
    BY <1>1, DecisionValues
  <2>3. n <= d.attempts /\ (d.cooldown = 0 \/ d.cooldown >= lim)
    BY <1>3, <2>1 DEF ExpiryAddsNothing
  <2>4. /\ d.attempts \in 0..2 /\ e.attempts \in 0..2
        /\ d.cooldown \in Nat /\ e.cooldown \in Nat
    BY <1>1, <1>2 DEF Doc
  <2>5. ~Elapsed(d)
    BY <1>1, <2>2, <2>3, <2>4 DEF Elapsed
  <2>6. ASSUME l.req = proc[p].req, CountRejected(p, d, e)
        PROVE  n <= e.attempts
    BY <1>3, <2>1, <2>6 DEF DecidersAgree, CountRejected, Rejecting
  <2>7. ASSUME l.req = proc[p].req, CountExpired(p, d, e)
        PROVE  n <= e.attempts
    <3>1. n = ExpiredAttempts(proc[p].snap)
      BY <1>3, <2>1, <2>7 DEF DecidersAgree, CountExpired, Expiring
    <3>2. QED
      BY <2>2, <2>7, <3>1 DEF CountExpired
  <2> HIDE DEF n, lim
  <2>8. n <= e.attempts
    BY <1>4, <2>3, <2>5, <2>6, <2>7 DEF Kept, CountReset, CountKept
  <2>9. e.cooldown = 0 \/ e.cooldown >= lim
    BY <1>1, <1>4, <2>2, <2>3, <2>4
       DEF Kept, CountReset, CountKept, CountRejected, CountExpired
  <2>10. QED
    BY <2>8, <2>9 DEF n, lim
<1>8. QED
  BY <1>6, <1>7

\* What a thread relies on of the snapshots of others.
LEMMA DecidersStayAgreed ==
    ASSUME InductiveInvariant, AttemptsSafe, NEW p \in Thread, Acts(p),
           NEW a \in Thread, NEW b \in Thread
    PROVE  DecidersAgree(a, b)'
<1> DEFINE l == proc'[a]
           m == proc'[b]
<1> SUFFICES ASSUME l.pc \in Expiring, m.req = l.req, m.pc \in Expiring \cup Rejecting
             PROVE  /\ m.pc \in Expiring => ExpiredAttempts(l.snap) = ExpiredAttempts(m.snap)
                    /\ m.pc \in Rejecting
                         => ExpiredAttempts(l.snap) <= RejectedAttempts(m.snap)
  BY DEF DecidersAgree
<1> DEFINE Same(q) == /\ proc'[q].req = proc[q].req /\ proc'[q].snap = proc[q].snap
                      /\ proc'[q].pc \in Expiring <=> proc[q].pc \in Expiring
                      /\ proc'[q].pc \in Rejecting <=> proc[q].pc \in Rejecting
           Fresh(q) == /\ proc'[q].req \in Request /\ proc'[q].snap = doc[proc'[q].req]
                       /\ doc[proc'[q].req].status = "PENDING"
                       /\ proc'[q].pc \in Expiring => Unanswered(doc[proc'[q].req])
<1>1. \A q \in Thread : proc'[q].pc \in Expiring \cup Rejecting =>
                          Same(q) \/ (q = p /\ Fresh(q))
  BY DEF Acts, DecisionAct
<1>2. Same(a) \/ (a = p /\ Fresh(a))
  BY <1>1
<1>3. Same(b) \/ (b = p /\ Fresh(b))
  BY <1>1
<1>4. DecidersAgree(a, b) /\ ExpiryAddsNothing(a)
  BY DEF AttemptsSafe
<1> HIDE DEF Same, Fresh
<1>5. CASE Same(a) /\ Same(b)
  BY <1>4, <1>5 DEF DecidersAgree, Same
<1>6. CASE Fresh(a) /\ Fresh(b)
  <2>1. l.snap = m.snap /\ l.snap \in Doc
    BY <1>6, DocFacts DEF Fresh
  <2>2. ExpiredAttempts(l.snap) <= RejectedAttempts(l.snap)
    <3>1. l.snap.attempts \in 0..2
      BY <2>1 DEF Doc
    <3>2. QED
      BY <2>1, <3>1, DecisionValues
  <2>3. QED
    BY <2>1, <2>2
<1>7. CASE Fresh(a) /\ Same(b)
  <2> DEFINE d == doc[l.req]
  <2>1. d \in Doc /\ l.snap = d /\ Unanswered(d)
    BY <1>7, DocFacts DEF Fresh
  <2>2. proc[b].req = l.req /\ proc[b].snap = m.snap
        /\ proc[b].pc \in Expiring \cup Rejecting
    BY <1>7 DEF Same
  <2>3. /\ ExpiredAttempts(m.snap) = ExpiredAttempts(d)
        /\ RejectedAttempts(m.snap) = RejectedAttempts(d)
    BY <2>1, <2>2, ExpiryMeetsOneSending
  <2>4. ExpiredAttempts(d) <= RejectedAttempts(d)
    <3>1. d.attempts \in 0..2
      BY <2>1 DEF Doc
    <3>2. QED
      BY <2>1, <3>1, DecisionValues
  <2>5. QED
    BY <2>1, <2>3, <2>4
<1>8. CASE Same(a) /\ Fresh(b)
  <2> DEFINE d == doc[m.req]
  <2>1. d \in Doc /\ m.snap = d /\ d.attempts \in 0..2
    BY <1>8, DocFacts DEF Fresh
  <2>2. proc[a].req = m.req /\ proc[a].snap = l.snap /\ proc[a].pc \in Expiring
    BY <1>8 DEF Same
  <2>3. CASE m.pc \in Expiring
    <3>1. Unanswered(d)
      BY <1>8, <2>3 DEF Fresh
    <3>2. ExpiredAttempts(l.snap) = ExpiredAttempts(d)
      BY <2>2, <3>1, ExpiryMeetsOneSending
    <3>3. m.pc \notin Rejecting
      BY <2>3 DEF Expiring, Rejecting
    <3>4. QED
      BY <2>1, <3>2, <3>3
  <2>4. CASE m.pc \in Rejecting
    <3>1. ExpiredAttempts(l.snap) <= d.attempts
      BY <1>4, <2>2 DEF ExpiryAddsNothing
    <3>2. ExpiredAttempts(l.snap) \in 0..2
      BY <2>2, DeciderFacts, DecisionValues
    <3>3. ExpiredAttempts(l.snap) <= RejectedAttempts(m.snap)
      BY <2>1, <3>1, <3>2, DecisionValues
    <3>4. m.pc \notin Expiring
      BY <2>4 DEF Expiring, Rejecting
    <3>5. QED
      BY <3>3, <3>4
  <2>5. QED
    BY <2>3, <2>4
<1>9. QED
  BY <1>2, <1>3, <1>5, <1>6, <1>7, <1>8

LEMMA ActsKeepAttempts ==
    ASSUME InductiveInvariant, TypeOK', AttemptsSafe, NEW p \in Thread, Acts(p)
    PROVE  AttemptsSafe'
<1>1. ASSUME NEW q \in Thread PROVE StillAsRead(q)' /\ ExpiryAddsNothing(q)'
  <2>1. q = p \/ proc'[q] = proc[q]
    BY DEF Acts
  <2>2. QED
    BY <2>1, DeciderMoves, DeciderStays
<1>2. QED
  BY <1>1, DecidersStayAgreed DEF AttemptsSafe

\* A tick moves the clock away from every reading, by one and only once.
LEMMA TickKeepsAttempts ==
    ASSUME InductiveInvariant, AttemptsSafe, Tick
    PROVE  AttemptsSafe'
<1>1. doc' = doc /\ clock' = clock + 1 /\ clock \in Nat
  BY DEF Tick, InductiveInvariant, TypeOK
<1>2. ASSUME NEW p \in Thread
      PROVE  /\ proc'[p].pc = proc[p].pc /\ proc'[p].req = proc[p].req
             /\ proc'[p].snap = proc[p].snap
             /\ ~proc[p].late
             /\ proc'[p].pc \in Expiring \cup Rejecting =>
                    proc'[p].late /\ ReadTime(p)' = ReadTime(p)
  <2>1. proc[p] \in Local /\ ~proc[p].late
    BY DEF Tick, InductiveInvariant, TypeOK
  <2>2. proc'[p] = [proc[p] EXCEPT !.late = (proc[p].pc # "idle")]
    BY DEF Tick
  <2>3. /\ proc'[p].pc = proc[p].pc /\ proc'[p].req = proc[p].req
        /\ proc'[p].snap = proc[p].snap
        /\ proc'[p].late <=> proc[p].pc # "idle"
    BY <2>1, <2>2 DEF Local, Locals
  <2>4. QED
    BY <1>1, <2>1, <2>3 DEF ReadTime, Expiring, Rejecting
<1>3. ASSUME NEW p \in Thread PROVE StillAsRead(p)' /\ ExpiryAddsNothing(p)'
  <2>1. StillAsRead(p) /\ ExpiryAddsNothing(p)
    BY DEF AttemptsSafe
  <2>2. StillAsRead(p)'
    BY <1>1, <1>2, <2>1 DEF StillAsRead
  <2>3. ExpiryAddsNothing(p)'
    <3>1. SUFFICES ASSUME proc[p].pc \in Expiring
                   PROVE  /\ ExpiredAttempts(proc[p].snap) <= doc[proc[p].req].attempts
                          /\ \/ doc[proc[p].req].cooldown = 0
                             \/ doc[proc[p].req].cooldown >= clock + 1 + 1
      BY <1>1, <1>2 DEF ExpiryAddsNothing
    <3>2. doc[proc[p].req].cooldown \in Nat
      BY <3>1, DeciderFacts DEF Doc
    <3>3. QED
      BY <1>1, <1>2, <2>1, <3>1, <3>2 DEF ExpiryAddsNothing
  <2>4. QED
    BY <2>2, <2>3
<1>4. ASSUME NEW p \in Thread, NEW q \in Thread PROVE DecidersAgree(p, q)'
  <2>1. DecidersAgree(p, q)
    BY DEF AttemptsSafe
  <2>2. QED
    BY <1>2, <2>1 DEF DecidersAgree
<1>5. QED
  BY <1>3, <1>4 DEF AttemptsSafe

LEMMA AttemptsSafeAlways == Spec => []AttemptsSafe
<1>1. Init => AttemptsSafe
  BY DEF Init, AttemptsSafe, StillAsRead, ExpiryAddsNothing, DecidersAgree, Idle,
         Expiring, Rejecting
<1>2. InductiveInvariant /\ InductiveInvariant' /\ AttemptsSafe /\ [Next]_vars
        => AttemptsSafe'
  <2>1. ASSUME InductiveInvariant, InductiveInvariant', AttemptsSafe, Next
        PROVE  AttemptsSafe'
    <3>1. TypeOK'
      BY <2>1 DEF InductiveInvariant
    <3>2. QED
      BY <2>1, <3>1, StepActs, TickKeepsAttempts, ActsKeepAttempts
  <2>2. ASSUME AttemptsSafe, UNCHANGED vars PROVE AttemptsSafe'
    BY <2>2 DEF vars, AttemptsSafe, StillAsRead, ExpiryAddsNothing, DecidersAgree, ReadTime
  <2>3. QED
    BY <2>1, <2>2
<1>3. QED
  BY <1>1, <1>2, Inductive, PTL DEF Spec

\* attempts_used grows by a rejection only, whatever threads race: no send,
\* no retry and no expiry uses an attempt, although an expiry and a send
\* write the count of a snapshot (_expire_stale_pending, _versioned_filter).
THEOREM AttemptsUsedByRejection == Spec => OnlyRejectionUsesAttempt
<1>1. ASSUME InductiveInvariant, AttemptsSafe, Next, NEW r \in Request,
             doc'[r].attempts > doc[r].attempts
      PROVE  doc[r].status = "PENDING" /\ doc'[r].status = "REJECTED"
  <2> DEFINE d == doc[r]
             e == doc'[r]
  <2>1. d.attempts \in 0..2
    BY <1>1, DocFacts
  <2>2. PICK p \in Thread : Acts(p)
    BY <1>1, <2>1, StepActs DEF Tick
  <2>3. ~CountExpired(p, d, e) \/ r # proc[p].req
    <3>1. SUFFICES ASSUME CountExpired(p, d, e), r = proc[p].req PROVE FALSE
      OBVIOUS
    <3>2. ExpiredAttempts(proc[p].snap) <= d.attempts
      BY <1>1, <3>1 DEF AttemptsSafe, ExpiryAddsNothing, CountExpired, Expiring
    <3>3. ExpiredAttempts(proc[p].snap) \in 0..2
      BY <1>1, DeciderFacts, DecisionValues
    <3>4. QED
      BY <1>1, <2>1, <3>1, <3>2, <3>3 DEF CountExpired
  <2>4. QED
    BY <1>1, <2>1, <2>2, <2>3, ActsCount
       DEF CountStep, Kept, CountReset, CountKept, CountRejected
<1>2. InductiveInvariant /\ AttemptsSafe /\ [Next]_vars
        => [\A r \in Request : doc'[r].attempts > doc[r].attempts =>
              doc[r].status = "PENDING" /\ doc'[r].status = "REJECTED"]_vars
  BY <1>1
<1>3. QED
  BY <1>2, Inductive, AttemptsSafeAlways, PTL DEF Spec, OnlyRejectionUsesAttempt

-----------------------------------------------------------------------------
(***************************************************************************)
(* What becomes of a request that has been sent.                           *)
(*                                                                         *)
(* retry_request writes NOT_SENT under the id alone: it takes back what    *)
(* another call of the student has sent meanwhile, unless the student      *)
(* makes one call at a time or nothing was ever rejected.                  *)
(***************************************************************************)

OneCall      == \A t, u \in Tab : t = u
NoRejections == Staff = {} /\ \A d \in OldDocs : d.status # "REJECTED"
RetriesAlone == OneCall \/ NoRejections

Deciding == Expiring \cup Rejecting
OpenStatuses == {"PENDING", "APPROVED"}

\* Each kind of thread stays in its own handlers.
Roles ==
    \A p \in Thread :
        /\ proc[p].pc \in TabPCs => p \in Tab
        /\ proc[p].pc \in StaffPCs => p \in Staff
        /\ proc[p].pc \in WorkerPCs => p \in Worker

\* A send under way was decided on a request neither waiting nor approved.
SendsAreNew ==
    \A p \in Thread : proc[p].pc \in Sending => proc[p].snap.status \notin OpenStatuses

\* What a retry finds waiting or approved has been sent since.
RetryOfResent ==
    \A p \in Thread : proc[p].pc \in Retrying =>
        doc[proc[p].req].model = 2 \/ doc[proc[p].req].status \notin OpenStatuses

\* A retry under way finds its request rejected, or reset meanwhile.
RetryHarmless ==
    \A p \in Thread : proc[p].pc \in Retrying =>
        doc[proc[p].req].status \in {"NOT_SENT", "REJECTED"}

NothingToRetry ==
    /\ \A r \in Request : doc[r].status # "REJECTED"
    /\ \A p \in Thread : proc[p].pc \notin Retrying

OutcomeInv ==
    /\ Roles /\ SendsAreNew /\ RetryOfResent
    /\ RetriesAlone => RetryHarmless
    /\ NoRejections => NothingToRetry

-----------------------------------------------------------------------------
\* The fields each write sets and leaves.
LEMMA WrittenFields ==
    ASSUME NEW d \in Doc, NEW s \in Doc, NEW f \in File \cup {NoFile}, NEW t \in Int
    PROVE  /\ /\ Reset(d).status = "NOT_SENT" /\ Reset(d).attempts = 0
              /\ Reset(d).model = d.model /\ Reset(d).receipt = d.receipt
              /\ Reset(d).cooldown = 0
           /\ /\ Sent(d, s, f).status = "PENDING" /\ Sent(d, s, f).attempts = s.attempts
              /\ Sent(d, s, f).model = 2 /\ Sent(d, s, f).cooldown = d.cooldown
              /\ Sent(d, s, f).receipt = IF f = NoFile THEN d.receipt ELSE f
              /\ Sent(d, s, f).created = clock
           /\ LET e == [[d EXCEPT !.status = "NOT_SENT"] EXCEPT !.created = clock] IN
              /\ e.status = "NOT_SENT" /\ e.attempts = d.attempts /\ e.model = d.model
              /\ e.cooldown = d.cooldown /\ e.receipt = d.receipt
           /\ LET e == [d EXCEPT !.status = "APPROVED"] IN
              /\ e.status = "APPROVED" /\ e.attempts = d.attempts /\ e.model = d.model
              /\ e.cooldown = d.cooldown /\ e.receipt = d.receipt
              /\ e.created = d.created
           /\ /\ Rejected(d, s, t).status = "REJECTED" /\ Rejected(d, s, t).receipt = NoFile
              /\ Rejected(d, s, t).attempts = RejectedAttempts(s)
              /\ Rejected(d, s, t).model = 2
              /\ Rejected(d, s, t).cooldown \in {d.cooldown, t + Cooldown}
           /\ /\ Expired(d, s).status = "NOT_SENT" /\ Expired(d, s).receipt = NoFile
              /\ Expired(d, s).attempts = ExpiredAttempts(s)
              /\ Expired(d, s).model = 2 /\ Expired(d, s).cooldown = d.cooldown
<1> USE DEF Doc
<1>1. /\ Reset(d).status = "NOT_SENT" /\ Reset(d).attempts = 0
      /\ Reset(d).model = d.model /\ Reset(d).receipt = d.receipt
      /\ Reset(d).cooldown = 0
  BY DEF Reset
<1>2. /\ Sent(d, s, f).status = "PENDING" /\ Sent(d, s, f).attempts = s.attempts
      /\ Sent(d, s, f).model = 2 /\ Sent(d, s, f).cooldown = d.cooldown
      /\ Sent(d, s, f).receipt = IF f = NoFile THEN d.receipt ELSE f
      /\ Sent(d, s, f).created = clock
  BY DEF Sent
<1>3. /\ Rejected(d, s, t).status = "REJECTED" /\ Rejected(d, s, t).receipt = NoFile
      /\ Rejected(d, s, t).attempts = RejectedAttempts(s)
      /\ Rejected(d, s, t).model = 2
      /\ Rejected(d, s, t).cooldown \in {d.cooldown, t + Cooldown}
  BY DEF Rejected
<1>4. /\ Expired(d, s).status = "NOT_SENT" /\ Expired(d, s).receipt = NoFile
      /\ Expired(d, s).attempts = ExpiredAttempts(s)
      /\ Expired(d, s).model = 2 /\ Expired(d, s).cooldown = d.cooldown
  BY DEF Expired
<1>5. QED
  BY <1>1, <1>2, <1>3, <1>4

\* The ways a request changes, in the fields the properties look at.
LEMMA Changes ==
    ASSUME InductiveInvariant, NEW p \in Thread, Acts(p), NEW r \in Request
    PROVE  LET d == doc[r]
               e == doc'[r]
               l == proc[p]
           IN
           \/ Kept(d, e)
           \/ /\ PauseOver(d, e) /\ d.cooldown # 0 /\ d.status \notin OpenStatuses
              /\ e.status = "NOT_SENT" /\ e.receipt = d.receipt
              /\ e.model = d.model /\ e.attempts = 0 /\ e.cooldown = 0
           \/ /\ SentBy(p, r, d, e) /\ d.status = l.snap.status
              /\ e.status = "PENDING" /\ e.model = 2 /\ e.attempts = d.attempts
              /\ e.cooldown = d.cooldown /\ e.created = clock
              /\ e.receipt = IF l.file = NoFile THEN d.receipt ELSE l.file
           \/ /\ TakenBackBy(p, r, d, e) /\ e.status = "NOT_SENT" /\ e.model = d.model
              /\ e.attempts = d.attempts /\ e.cooldown = d.cooldown
              /\ e.receipt = d.receipt
           \/ /\ ApprovedBy(p, d, e) /\ e.status = "APPROVED" /\ e.model = d.model
              /\ e.attempts = d.attempts /\ e.cooldown = d.cooldown
              /\ e.receipt = d.receipt /\ e.created = d.created
           \/ /\ RejectedBy(p, r, d, e) /\ e.status = "REJECTED" /\ e.receipt = NoFile
              /\ e.attempts = RejectedAttempts(l.snap) /\ e.model = 2
              /\ e.cooldown \in {d.cooldown, ReadTime(p) + Cooldown}
           \/ /\ ExpiredBy(p, r, d, e) /\ e.status = "NOT_SENT" /\ e.receipt = NoFile
              /\ e.attempts = ExpiredAttempts(l.snap) /\ e.model = 2
              /\ e.cooldown = d.cooldown
<1> DEFINE d == doc[r]
           e == doc'[r]
           l == proc[p]
<1>1. /\ d \in Doc /\ ReadTime(p) \in Int /\ l.snap \in Doc
      /\ l.file \in File \cup {NoFile}
      /\ d.cooldown # 0 => d.status \in {"NOT_SENT", "REJECTED"}
  BY DocFacts, DeciderFacts, ThreadFacts DEF Local, Locals
<1>2. \/ Kept(d, e) \/ PauseOver(d, e)
      \/ SentBy(p, r, d, e) \/ TakenBackBy(p, r, d, e)
      \/ ApprovedBy(p, d, e) \/ RejectedBy(p, r, d, e) \/ ExpiredBy(p, r, d, e)
  BY DEF Acts, DocAct
<1>3. /\ /\ Reset(d).status = "NOT_SENT" /\ Reset(d).receipt = d.receipt
         /\ Reset(d).model = d.model /\ Reset(d).attempts = 0 /\ Reset(d).cooldown = 0
      /\ LET x == Sent(d, l.snap, l.file) IN
         /\ x.status = "PENDING" /\ x.attempts = l.snap.attempts
         /\ x.model = 2 /\ x.cooldown = d.cooldown /\ x.created = clock
         /\ x.receipt = IF l.file = NoFile THEN d.receipt ELSE l.file
      /\ LET x == [[d EXCEPT !.status = "NOT_SENT"] EXCEPT !.created = clock] IN
         /\ x.status = "NOT_SENT" /\ x.attempts = d.attempts /\ x.model = d.model
         /\ x.cooldown = d.cooldown /\ x.receipt = d.receipt
      /\ LET x == [d EXCEPT !.status = "APPROVED"] IN
         /\ x.status = "APPROVED" /\ x.attempts = d.attempts /\ x.model = d.model
         /\ x.cooldown = d.cooldown /\ x.receipt = d.receipt /\ x.created = d.created
      /\ LET x == Rejected(d, l.snap, ReadTime(p)) IN
         /\ x.status = "REJECTED" /\ x.receipt = NoFile
         /\ x.attempts = RejectedAttempts(l.snap) /\ x.model = 2
         /\ x.cooldown \in {d.cooldown, ReadTime(p) + Cooldown}
      /\ LET x == Expired(d, l.snap) IN
         /\ x.status = "NOT_SENT" /\ x.receipt = NoFile
         /\ x.attempts = ExpiredAttempts(l.snap) /\ x.model = 2
         /\ x.cooldown = d.cooldown
  BY <1>1, WrittenFields
<1> HIDE DEF d, e, l
<1>4. CASE PauseOver(d, e)
  BY <1>1, <1>3, <1>4 DEF PauseOver, Elapsed, OpenStatuses, d, e, l
<1>5. CASE SentBy(p, r, d, e)
  BY <1>3, <1>5 DEF SentBy, SameVersion, d, e, l
<1>6. CASE TakenBackBy(p, r, d, e)
  BY <1>3, <1>6 DEF TakenBackBy, d, e, l
<1>7. CASE ApprovedBy(p, d, e)
  BY <1>3, <1>7 DEF ApprovedBy, d, e, l
<1>8. CASE RejectedBy(p, r, d, e)
  BY <1>3, <1>8 DEF RejectedBy, d, e, l
<1>9. CASE ExpiredBy(p, r, d, e)
  BY <1>3, <1>9 DEF ExpiredBy, d, e, l
<1>10. QED
  BY <1>2, <1>4, <1>5, <1>6, <1>7, <1>8, <1>9 DEF d, e, l

\* The threads whose pc says that they read a request have one.
LEMMA HasRequest ==
    ASSUME InductiveInvariant, NEW p \in Thread
    PROVE  proc[p].pc \in Retrying \cup Sending \cup Deciding \cup {"send_discard"} =>
               proc[p].req \in Request
  BY ThreadFacts DEF Requestless, Retrying, Sending, Deciding, Expiring, Rejecting

\* Each kind of write is that of one kind of thread.
LEMMA Writers ==
    ASSUME OutcomeInv, NEW p \in Thread
    PROVE  /\ proc[p].pc \in {"send_write", "retry_write"} \cup Retrying => p \in Tab
           /\ proc[p].pc \in Deciding => p \in Staff \cup Worker
           /\ proc[p].pc \in Rejecting => p \in Staff
           /\ proc[p].pc \in Expiring => p \in Worker
           /\ p \notin Tab \/ p \notin Staff \cup Worker
  BY SetsAssumption DEF OutcomeInv, Roles, TabPCs, StaffPCs, WorkerPCs, Deciding, Retrying,
         Clearing, Rereading, Sending

LEMMA RolesKept ==
    ASSUME OutcomeInv, NEW p \in Thread, Acts(p)
    PROVE  Roles' /\ SendsAreNew'
<1>1. \A q \in Thread : q = p \/ proc'[q] = proc[q]
  BY DEF Acts
<1>2. Roles'
  BY <1>1 DEF Acts, RoleAct, OutcomeInv, Roles
<1>3. SendsAreNew'
  BY <1>1 DEF Acts, SendAct, OutcomeInv, SendsAreNew, OpenStatuses
<1>4. QED
  BY <1>2, <1>3

\* Who retries in the next state: a request read just now, or as before.
LEMMA Retriers ==
    ASSUME NEW p \in Thread, Acts(p), NEW q \in Thread, proc'[q].pc \in Retrying
    PROVE  \/ q = p /\ proc'[q].req \in Request /\ doc'[proc'[q].req].status = "REJECTED"
           \/ proc[q].pc \in Retrying /\ proc'[q].req = proc[q].req
  BY DEF Acts, RetryAct

LEMMA RetryOfResentKept ==
    ASSUME InductiveInvariant, OutcomeInv, NEW p \in Thread, Acts(p)
    PROVE  RetryOfResent'
<1> SUFFICES ASSUME NEW q \in Thread, proc'[q].pc \in Retrying
             PROVE  \/ doc'[proc'[q].req].model = 2
                    \/ doc'[proc'[q].req].status \notin OpenStatuses
  BY DEF RetryOfResent
<1> DEFINE r == proc'[q].req
<1>1. CASE doc'[r].status = "REJECTED"
  BY <1>1 DEF OpenStatuses
<1>2. CASE proc[q].pc \in Retrying /\ r = proc[q].req
  <2>1. r \in Request
    BY <1>2, HasRequest
  <2>2. doc[r].model = 2 \/ doc[r].status \notin OpenStatuses
    BY <1>2 DEF OutcomeInv, RetryOfResent
  <2>3. doc'[r].model = 2 \/ doc'[r].status \notin OpenStatuses
    <3> HIDE DEF r
    <3>1. QED
      BY <2>1, <2>2, Changes DEF Kept, OpenStatuses, ApprovedBy
  <2>4. QED
    BY <2>3
<1>3. QED
  BY <1>1, <1>2, Retriers

LEMMA NothingToRetryKept ==
    ASSUME InductiveInvariant, OutcomeInv, NEW p \in Thread, Acts(p), NoRejections
    PROVE  NothingToRetry'
<1>1. NothingToRetry
  BY DEF OutcomeInv
<1>2. ASSUME NEW r \in Request PROVE doc'[r].status # "REJECTED"
  <2>1. ~RejectedBy(p, r, doc[r], doc'[r])
    BY Writers DEF RejectedBy, Rejecting, NoRejections
  <2>2. QED
    BY <1>1, <2>1, Changes DEF NothingToRetry, Kept
<1>3. \A q \in Thread : proc'[q].pc \notin Retrying
  BY <1>1, <1>2, Retriers DEF NothingToRetry
<1>4. QED
  BY <1>2, <1>3 DEF NothingToRetry

LEMMA RetryHarmlessKept ==
    ASSUME InductiveInvariant, OutcomeInv, NEW p \in Thread, Acts(p), RetriesAlone
    PROVE  RetryHarmless'
<1> SUFFICES ASSUME NEW q \in Thread, proc'[q].pc \in Retrying
             PROVE  doc'[proc'[q].req].status \in {"NOT_SENT", "REJECTED"}
  BY DEF RetryHarmless
<1> DEFINE r == proc'[q].req
<1>1. CASE proc[q].pc \in Retrying /\ r = proc[q].req
  <2>1. r \in Request
    BY <1>1, HasRequest
  <2>2. doc[r].status \in {"NOT_SENT", "REJECTED"}
    BY <1>1 DEF OutcomeInv, RetryHarmless
  <2>3. ~NoRejections
    BY <1>1 DEF OutcomeInv, NothingToRetry
  <2>4. ~SentBy(p, r, doc[r], doc'[r])
    <3>1. SUFFICES ASSUME proc[p].pc = "send_write" PROVE FALSE
      BY DEF SentBy
    <3>2. p \in Tab /\ q \in Tab
      BY <1>1, <3>1, Writers
    <3>3. p = q
      BY <2>3, <3>2 DEF RetriesAlone, OneCall
    <3>4. QED
      BY <1>1, <3>1, <3>3 DEF Retrying
  <2>5. doc'[r].status \in {"NOT_SENT", "REJECTED"}
    <3> HIDE DEF r
    <3>1. QED
      BY <2>1, <2>2, <2>4, Changes DEF Kept, ApprovedBy
  <2>6. QED
    BY <2>5
<1>2. QED
  BY <1>1, Retriers

\* A decision that goes on is that of the same thread on the same reading.
LEMMA Deciders ==
    ASSUME InductiveInvariant, NEW p \in Thread, Acts(p),
           NEW q \in Thread, proc'[q].pc \in Deciding
    PROVE  \/ /\ proc[q].pc \in Deciding
              /\ proc'[q].req = proc[q].req /\ proc'[q].snap = proc[q].snap
              /\ proc'[q].pc \in Expiring => proc[q].pc \in Expiring
              /\ q # p \/ doc' = doc
           \/ /\ q = p /\ doc' = doc /\ proc'[q].req \in Request
              /\ proc'[q].snap = doc[proc'[q].req]
              /\ doc[proc'[q].req].status = "PENDING"
              /\ proc'[q].pc \in Expiring => Unanswered(doc[proc'[q].req])
  BY DEF Acts, DecisionAct, Deciding

LEMMA ActsKeepOutcome ==
    ASSUME InductiveInvariant, OutcomeInv, NEW p \in Thread, Acts(p)
    PROVE  OutcomeInv'
  BY RolesKept, RetryOfResentKept, NothingToRetryKept, RetryHarmlessKept
     DEF OutcomeInv

\* A tick changes nothing a decision, a send or a retry has read.
LEMMA TickThreads ==
    ASSUME InductiveInvariant, Tick, NEW p \in Thread
    PROVE  /\ proc'[p].pc = proc[p].pc /\ proc'[p].req = proc[p].req
           /\ proc'[p].snap = proc[p].snap /\ proc'[p].file = proc[p].file
<1>1. proc[p] \in Local
  BY DEF InductiveInvariant, TypeOK
<1>2. proc'[p] = [proc[p] EXCEPT !.late = (proc[p].pc # "idle")]
  BY DEF Tick
<1>3. QED
  BY <1>1, <1>2 DEF Local, Locals

LEMMA TickKeepsOutcome ==
    ASSUME InductiveInvariant, OutcomeInv, Tick
    PROVE  OutcomeInv'
<1>1. doc' = doc /\ clock' = clock + 1 /\ clock \in Nat
  BY DEF Tick, InductiveInvariant, TypeOK
<1>2. Roles' /\ SendsAreNew' /\ RetryOfResent'
  BY <1>1, TickThreads DEF OutcomeInv, Roles, SendsAreNew, RetryOfResent
<1>3. /\ RetriesAlone => RetryHarmless'
      /\ NoRejections => NothingToRetry'
  BY <1>1, TickThreads DEF OutcomeInv, RetryHarmless, NothingToRetry
<1>4. QED
  BY <1>2, <1>3 DEF OutcomeInv

LEMMA OutcomeAlways == Spec => []OutcomeInv
<1>1. Init => OutcomeInv
  <2> SUFFICES ASSUME Init PROVE OutcomeInv
    OBVIOUS
  <2>1. \A p \in Thread : proc[p].pc = "idle"
    BY DEF Init, Idle
  <2>2. NoRejections => NothingToRetry
    <3>1. \A r \in Request : doc[r] = NoDoc \/ doc[r] \in OldDocs
      BY DEF Init
    <3>2. QED
      BY <2>1, <3>1 DEF NoRejections, NothingToRetry, NoDoc, Retrying
  <2>3. Roles /\ SendsAreNew /\ RetryOfResent /\ RetryHarmless
    BY <2>1 DEF Roles, SendsAreNew, RetryOfResent, RetryHarmless, TabPCs, StaffPCs,
                WorkerPCs, Clearing, Rereading, Retrying, Sending, Expiring, Rejecting
  <2>4. QED
    BY <2>2, <2>3 DEF OutcomeInv
<1>2. InductiveInvariant /\ OutcomeInv /\ [Next]_vars => OutcomeInv'
  <2>1. ASSUME InductiveInvariant, OutcomeInv, Next PROVE OutcomeInv'
    BY <2>1, StepActs, TickKeepsOutcome, ActsKeepOutcome
  <2>2. ASSUME OutcomeInv, UNCHANGED vars PROVE OutcomeInv'
    BY <2>2 DEF vars, OutcomeInv, Roles, SendsAreNew, RetryOfResent, RetryHarmless,
                NothingToRetry
  <2>3. QED
    BY <2>1, <2>2
<1>3. QED
  BY <1>1, <1>2, Inductive, PTL DEF Spec

-----------------------------------------------------------------------------
\* No handler takes an approval back when the student makes one call at a
\* time, whatever the offices and the maintenance do meanwhile
\* (retry_request is the only handler that could).
THEOREM ApprovalsStand == RetriesAlone => (Spec => ApprovedIsFinal)
<1> SUFFICES ASSUME RetriesAlone PROVE Spec => ApprovedIsFinal
  OBVIOUS
<1>1. ASSUME InductiveInvariant, OutcomeInv, Next, NEW r \in Request,
             doc[r].status = "APPROVED"
      PROVE  doc'[r].status = "APPROVED"
  <2> DEFINE d == doc[r]
             e == doc'[r]
  <2>1. CASE Tick
    BY <1>1, <2>1 DEF Tick
  <2>2. ASSUME NEW p \in Thread, Acts(p) PROVE e.status = "APPROVED"
    <3>1. ~(SentBy(p, r, d, e) /\ d.status = proc[p].snap.status)
      BY <1>1 DEF SentBy, Sending, OpenStatuses, OutcomeInv, SendsAreNew
    <3>2. ~TakenBackBy(p, r, d, e)
      BY <1>1 DEF TakenBackBy, Retrying, OutcomeInv, RetryHarmless
    <3>3. \/ Kept(d, e) \/ d.status \notin OpenStatuses
          \/ ApprovedBy(p, d, e) \/ RejectedBy(p, r, d, e) \/ ExpiredBy(p, r, d, e)
      BY <1>1, <2>2, <3>1, <3>2, Changes
    <3>4. QED
      BY <1>1, <3>3 DEF Kept, OpenStatuses, ApprovedBy, RejectedBy, ExpiredBy
  <2>3. QED
    BY <1>1, <2>1, <2>2, StepActs
<1>2. InductiveInvariant /\ OutcomeInv /\ [Next]_vars
        => [\A r \in Request : doc[r].status = "APPROVED" =>
              doc'[r].status = "APPROVED"]_vars
  BY <1>1
<1>3. QED
  BY <1>2, Inductive, OutcomeAlways, PTL DEF Spec, ApprovedIsFinal

-----------------------------------------------------------------------------
(***************************************************************************)
(* Nothing decided on an earlier reading takes back what has stood for the *)
(* life of a call: what a retry or an expiry finds changed since it read   *)
(* the request has been sent since, no earlier than that reading.          *)
(***************************************************************************)

\* A retry finds its request open only if it has been sent meanwhile.
RetryRecent(p) ==
    LET d == doc[proc[p].req] IN
    proc[p].pc \in Retrying /\ d.status \in OpenStatuses => d.created >= ReadTime(p)

\* An expiry was begun two days after the sending it has read; a request that
\* waits on has not been sent again, or has been sent meanwhile.
ExpiryDue(p) ==
    LET d == doc[proc[p].req]
        s == proc[p].snap
    IN
    proc[p].pc \in Expiring =>
        /\ s.created + PendingTTL <= ReadTime(p)
        /\ d.status = "PENDING" => d.created = s.created \/ d.created >= ReadTime(p)

Recent == \A p \in Thread : RetryRecent(p) /\ ExpiryDue(p)

\* A request is open because it was, since the same sending, or is sent now.
LEMMA OpenSince ==
    ASSUME InductiveInvariant, OutcomeInv, NEW p \in Thread, Acts(p), NEW r \in Request,
           doc'[r].status \in OpenStatuses
    PROVE  \/ doc'[r].created = clock
           \/ /\ doc[r].status \in OpenStatuses /\ doc'[r].created = doc[r].created
              /\ doc'[r].status = "PENDING" => doc[r].status = "PENDING"
  BY Changes DEF Kept, ApprovedBy, OpenStatuses

LEMMA ActsKeepRecent ==
    ASSUME InductiveInvariant, OutcomeInv, Recent, NEW p \in Thread, Acts(p)
    PROVE  Recent'
<1> SUFFICES ASSUME NEW q \in Thread PROVE RetryRecent(q)' /\ ExpiryDue(q)'
  BY DEF Recent
<1> DEFINE l == proc[q]
           m == proc'[q]
           r == m.req
<1>1. /\ RetryRecent(q) /\ ExpiryDue(q)
      /\ clock' = clock /\ (q = p \/ m = l)
  BY DEF Recent, Acts
<1>2. /\ clock \in Nat /\ ReadTime(q) \in Int /\ ReadTime(q) <= clock
      /\ ReadTime(q)' = IF m.late THEN clock - 1 ELSE clock
  BY <1>1, DeciderFacts DEF ReadTime
<1>3. RetryRecent(q)'
  <2> SUFFICES ASSUME m.pc \in Retrying, doc'[r].status \in OpenStatuses
               PROVE  doc'[r].created >= ReadTime(q)'
    BY DEF RetryRecent
  <2>1. l.pc \in Retrying /\ r = l.req /\ m.late = l.late
    BY <1>1 DEF Acts, RetryAct, OpenStatuses
  <2>2. r \in Request /\ ReadTime(q)' = ReadTime(q)
    BY <1>2, <2>1, HasRequest DEF ReadTime
  <2>3. doc[r].status \in OpenStatuses => doc[r].created >= ReadTime(q)
    BY <1>1, <2>1 DEF RetryRecent
  <2>4. doc[r].created \in Nat
    BY <2>2, DocFacts DEF Doc
  <2>5. QED
    BY <1>2, <2>2, <2>3, <2>4, OpenSince
<1>4. ExpiryDue(q)'
  <2> DEFINE s == m.snap
  <2> SUFFICES ASSUME m.pc \in Expiring
               PROVE  /\ s.created + PendingTTL <= ReadTime(q)'
                      /\ doc'[r].status = "PENDING" =>
                           doc'[r].created = s.created \/ doc'[r].created >= ReadTime(q)'
    BY DEF ExpiryDue
  <2>1. CASE /\ l.pc \in Expiring /\ r = l.req /\ s = l.snap /\ m.late = l.late
    <3>1. r \in Request /\ ReadTime(q)' = ReadTime(q)
      BY <1>2, <2>1, HasRequest DEF ReadTime, Deciding
    <3>2. /\ s.created + PendingTTL <= ReadTime(q)
          /\ doc[r].status = "PENDING" =>
               doc[r].created = s.created \/ doc[r].created >= ReadTime(q)
      BY <1>1, <2>1 DEF ExpiryDue
    <3>3. doc'[r].status = "PENDING" =>
            doc'[r].created = s.created \/ doc'[r].created >= ReadTime(q)
      BY <1>2, <3>1, <3>2, OpenSince DEF OpenStatuses
    <3>4. QED
      BY <3>1, <3>2, <3>3
  <2>2. CASE /\ doc' = doc /\ s = doc[r] /\ ~m.late /\ Unanswered(doc[r])
    BY <1>2, <2>2 DEF Unanswered
  <2>3. QED
    BY <1>1, <2>1, <2>2 DEF Acts, DecisionAct
<1>5. QED
  BY <1>3, <1>4

\* A tick makes a thread late, and leaves the time of its reading as it was.
LEMMA TickReads ==
    ASSUME InductiveInvariant, Tick, NEW p \in Thread, proc[p].pc # "idle"
    PROVE  ReadTime(p)' = ReadTime(p) /\ proc'[p].late = TRUE /\ ~proc[p].late
<1>1. proc[p] \in Local /\ clock \in Nat
  BY DEF InductiveInvariant, TypeOK
<1>2. proc'[p] = [proc[p] EXCEPT !.late = TRUE] /\ ~proc[p].late /\ clock' = clock + 1
  BY DEF Tick
<1>3. proc'[p].late = TRUE
  BY <1>1, <1>2 DEF Local, Locals
<1>4. QED
  BY <1>1, <1>2, <1>3 DEF ReadTime

LEMMA TickKeepsRecent ==
    ASSUME InductiveInvariant, Recent, Tick
    PROVE  Recent'
<1> SUFFICES ASSUME NEW p \in Thread PROVE RetryRecent(p)' /\ ExpiryDue(p)'
  BY DEF Recent
<1>1. /\ doc' = doc /\ proc'[p].pc = proc[p].pc /\ proc'[p].req = proc[p].req
      /\ proc'[p].snap = proc[p].snap /\ RetryRecent(p) /\ ExpiryDue(p)
  BY TickThreads DEF Tick, Recent
<1>2. proc[p].pc \in Retrying \cup Expiring => ReadTime(p)' = ReadTime(p)
  BY TickReads DEF Retrying, Expiring
<1>3. QED
  BY <1>1, <1>2 DEF RetryRecent, ExpiryDue

LEMMA RecentAlways == Spec => []Recent
<1>1. Init => Recent
  BY DEF Init, Idle, Recent, RetryRecent, ExpiryDue, Retrying, Expiring
<1>2. InductiveInvariant /\ OutcomeInv /\ Recent /\ [Next]_vars => Recent'
  <2>1. ASSUME InductiveInvariant, OutcomeInv, Recent, Next PROVE Recent'
    BY <2>1, StepActs, TickKeepsRecent, ActsKeepRecent
  <2>2. ASSUME Recent, UNCHANGED vars PROVE Recent'
    BY <2>2 DEF vars, Recent, RetryRecent, ExpiryDue, ReadTime
  <2>3. QED
    BY <2>1, <2>2
<1>3. QED
  BY <1>1, <1>2, Inductive, OutcomeAlways, PTL DEF Spec

\* An approval of a request that has stood for the life of a call is never
\* taken back, and a waiting request only after two days without an answer,
\* however many calls and passes race on it (retry_request's update by _id,
\* _expire_stale_pending's by PENDING).
THEOREM SettledRequestsStand == Spec => SettledStands
<1>1. ASSUME InductiveInvariant, OutcomeInv, Recent, Next, NEW r \in Request,
             doc[r].status \in OpenStatuses, doc'[r].status = "NOT_SENT"
      PROVE  \/ clock <= doc[r].created + 1
             \/ doc[r].status = "PENDING" /\ doc[r].created + PendingTTL <= clock
  <2> DEFINE d == doc[r]
             e == doc'[r]
  <2>1. d.created \in Nat /\ clock \in Nat
    BY <1>1, DocFacts DEF Doc, InductiveInvariant, TypeOK
  <2>2. PICK p \in Thread : Acts(p)
    BY <1>1, StepActs DEF Tick, OpenStatuses
  <2>3. ReadTime(p) \in Int /\ ReadTime(p) >= clock - 1 /\ ReadTime(p) <= clock
    BY <1>1, DeciderFacts
  <2>4. CASE TakenBackBy(p, r, d, e)
    <3>1. RetryRecent(p) /\ proc[p].pc \in Retrying /\ proc[p].req = r
      BY <1>1, <2>4 DEF Recent, TakenBackBy, Retrying
    <3>2. d.created >= ReadTime(p)
      BY <1>1, <3>1 DEF RetryRecent
    <3>3. QED
      BY <2>1, <2>3, <3>2
  <2>5. CASE ExpiredBy(p, r, d, e)
    <3>1. /\ ExpiryDue(p) /\ proc[p].pc \in Expiring /\ proc[p].req = r
          /\ d.status = "PENDING"
      BY <1>1, <2>5 DEF Recent, ExpiredBy, Expiring
    <3>2. /\ proc[p].snap.created + PendingTTL <= ReadTime(p)
          /\ d.created = proc[p].snap.created \/ d.created >= ReadTime(p)
      BY <3>1 DEF ExpiryDue
    <3>3. PendingTTL \in Nat
      BY TimeAssumption
    <3>4. QED
      BY <2>1, <2>3, <3>1, <3>2, <3>3
  <2>6. QED
    BY <1>1, <2>2, <2>4, <2>5, Changes DEF Kept, OpenStatuses
<1>2. InductiveInvariant /\ OutcomeInv /\ Recent /\ [Next]_vars
        => [\A r \in Request :
              doc[r].status \in {"PENDING", "APPROVED"} /\ doc'[r].status = "NOT_SENT" =>
                \/ clock <= doc[r].created + 1
                \/ doc[r].status = "PENDING" /\ doc[r].created + PendingTTL <= clock]_vars
  BY <1>1 DEF OpenStatuses
<1>3. QED
  BY <1>2, Inductive, OutcomeAlways, RecentAlways, PTL DEF Spec, SettledStands

-----------------------------------------------------------------------------
(***************************************************************************)
(* The pauses are earned.  The count of a document exceeds the number of   *)
(* its rejections by the one sending an old document has counted, at most; *)
(* what a decision is about to write exceeds it by the rejection it is.    *)
(* No pause ends during the life of a decision, so no number falls under   *)
(* the count it has read.                                                  *)
(***************************************************************************)

\* The sending an old document counts before it is answered.
CountedSending(d) == IF d.model = 1 /\ d.status \in OpenStatuses THEN 1 ELSE 0

CountEarned == \A r \in Request : doc[r].attempts <= rejections[r] + CountedSending(doc[r])

DecisionEarned(p) ==
    LET l == proc[p] IN
    /\ l.pc \in Rejecting => RejectedAttempts(l.snap) <= rejections[l.req] + 1
    /\ l.pc \in Expiring => ExpiredAttempts(l.snap) <= rejections[l.req]

\* The pause a decision meets begins after it, and outlives it.
DecisionOutlived(p) ==
    LET c == doc[proc[p].req].cooldown IN
    proc[p].pc \in Deciding => c = 0 \/ c >= clock + (IF proc[p].late THEN 1 ELSE 2)

Earned ==
    /\ rejections \in [Request -> 0..2]
    /\ CountEarned
    /\ \A p \in Thread : DecisionEarned(p) /\ DecisionOutlived(p)

\* What a decision makes of the document it reads.
LEMMA ReadingEarned ==
    ASSUME NEW d \in Doc, NEW n \in 0..2, d.status = "PENDING",
           d.attempts <= n + CountedSending(d)
    PROVE  RejectedAttempts(d) <= n + 1 /\ ExpiredAttempts(d) <= n
  BY DEF Doc, CountedSending, OpenStatuses, RejectedAttempts, ExpiredAttempts

\* The rejections counted in a step are those of the document that changes.
LEMMA ActsKeepCount ==
    ASSUME InductiveInvariant, OutcomeInv, Earned, NEW p \in Thread, Acts(p),
           NEW r \in Request
    PROVE  LET n == Count(rejections[r], doc[r], doc'[r]) IN
           /\ n \in 0..2
           /\ doc'[r].attempts <= n + CountedSending(doc'[r])
           /\ n >= rejections[r] \/ (doc[r].cooldown # 0 /\ doc[r].cooldown <= clock)
           /\ \/ doc'[r].cooldown \in {0, doc[r].cooldown}
              \/ doc'[r].cooldown \in Int /\ doc'[r].cooldown >= clock + 2
<1> DEFINE d == doc[r]
           e == doc'[r]
           l == proc[p]
           k == rejections[r]
           n == Count(k, d, e)
           Goal == /\ n \in 0..2
                   /\ e.attempts <= n + CountedSending(e)
                   /\ n >= k \/ (d.cooldown # 0 /\ d.cooldown <= clock)
                   /\ \/ e.cooldown \in {0, d.cooldown}
                      \/ e.cooldown \in Int /\ e.cooldown >= clock + 2
<1>1. /\ d \in Doc /\ k \in 0..2 /\ d.attempts <= k + CountedSending(d)
      /\ d.cooldown # 0 => d.status \notin OpenStatuses
  BY DocFacts DEF Earned, CountEarned, OpenStatuses
<1>2. /\ d.attempts \in 0..2 /\ d.cooldown \in Nat /\ l.snap \in Doc
      /\ RejectedAttempts(l.snap) \in 0..2 /\ ExpiredAttempts(l.snap) \in 0..2
      /\ clock \in Nat /\ ReadTime(p) + Cooldown >= clock + 2
      /\ ReadTime(p) + Cooldown \in Int
  BY <1>1, DeciderFacts, DecisionValues, TimeAssumption DEF Doc
<1>3. \/ Kept(d, e)
      \/ /\ Elapsed(d) /\ d.status \notin OpenStatuses /\ e.status = "NOT_SENT"
         /\ e.attempts = 0 /\ e.cooldown = 0
      \/ /\ d.status \notin OpenStatuses /\ e.status = "PENDING" /\ e.model = 2
         /\ e.attempts = d.attempts /\ e.cooldown = d.cooldown
      \/ /\ d.model = 2 \/ d.status \notin OpenStatuses
         /\ e.status = "NOT_SENT" /\ e.model = d.model
         /\ e.attempts = d.attempts /\ e.cooldown = d.cooldown
      \/ /\ d.status = "PENDING" /\ e.status = "APPROVED" /\ e.model = d.model
         /\ e.attempts = d.attempts /\ e.cooldown = d.cooldown
      \/ /\ d.status = "PENDING" /\ e.status = "REJECTED" /\ e.model = 2
         /\ e.attempts = RejectedAttempts(l.snap) /\ RejectedAttempts(l.snap) <= k + 1
         /\ e.cooldown \in {d.cooldown, ReadTime(p) + Cooldown}
      \/ /\ d.status = "PENDING" /\ e.status = "NOT_SENT" /\ e.model = 2
         /\ e.attempts = ExpiredAttempts(l.snap) /\ ExpiredAttempts(l.snap) <= k
         /\ e.cooldown = d.cooldown
  <2>1. SentBy(p, r, d, e) => l.snap.status \notin OpenStatuses
    BY DEF SentBy, OutcomeInv, SendsAreNew, Sending
  <2>2. TakenBackBy(p, r, d, e) => d.model = 2 \/ d.status \notin OpenStatuses
    BY DEF TakenBackBy, OutcomeInv, RetryOfResent, Retrying
  <2>3. RejectedBy(p, r, d, e) => d.status = "PENDING" /\ RejectedAttempts(l.snap) <= k + 1
    BY DEF RejectedBy, Earned, DecisionEarned, Rejecting
  <2>4. ExpiredBy(p, r, d, e) => d.status = "PENDING" /\ ExpiredAttempts(l.snap) <= k
    BY DEF ExpiredBy, Earned, DecisionEarned, Expiring
  <2>5. ApprovedBy(p, d, e) => d.status = "PENDING"
    BY DEF ApprovedBy
  <2>6. PauseOver(d, e) => Elapsed(d)
    BY DEF PauseOver
  <2>7. \/ Kept(d, e)
        \/ /\ PauseOver(d, e) /\ d.status \notin OpenStatuses /\ e.status = "NOT_SENT"
           /\ e.attempts = 0 /\ e.cooldown = 0
        \/ /\ SentBy(p, r, d, e) /\ d.status = l.snap.status
           /\ e.status = "PENDING" /\ e.model = 2 /\ e.attempts = d.attempts
           /\ e.cooldown = d.cooldown
        \/ /\ TakenBackBy(p, r, d, e) /\ e.status = "NOT_SENT" /\ e.model = d.model
           /\ e.attempts = d.attempts /\ e.cooldown = d.cooldown
        \/ /\ ApprovedBy(p, d, e) /\ e.status = "APPROVED" /\ e.model = d.model
           /\ e.attempts = d.attempts /\ e.cooldown = d.cooldown
        \/ /\ RejectedBy(p, r, d, e) /\ e.status = "REJECTED" /\ e.model = 2
           /\ e.attempts = RejectedAttempts(l.snap)
           /\ e.cooldown \in {d.cooldown, ReadTime(p) + Cooldown}
        \/ /\ ExpiredBy(p, r, d, e) /\ e.status = "NOT_SENT" /\ e.model = 2
           /\ e.attempts = ExpiredAttempts(l.snap) /\ e.cooldown = d.cooldown
    BY Changes
  <2> HIDE DEF d, e, l, k
  <2>8. QED
    BY <2>1, <2>2, <2>3, <2>4, <2>5, <2>6, <2>7
<1> HIDE DEF d, e, l, k
<1>4. ASSUME Kept(d, e) PROVE Goal
  BY <1>1, <1>2, <1>4 DEF Kept, Count, PauseIsOver, OfficeRejects
<1>5. ASSUME Elapsed(d), e.attempts = 0, e.cooldown = 0 PROVE Goal
  BY <1>2, <1>5 DEF Elapsed, Count, PauseIsOver, CountedSending
<1>6. ASSUME d.status \notin OpenStatuses \/ d.model = 2 \/ e.status = "APPROVED",
             e.attempts = d.attempts, e.cooldown = d.cooldown, e.status # "REJECTED",
             e.model = d.model \/ (d.status \notin OpenStatuses /\ e.model = 2)
      PROVE  Goal
  BY <1>1, <1>2, <1>6 DEF Count, PauseIsOver, OfficeRejects, CountedSending, OpenStatuses
<1>7. ASSUME d.status = "PENDING", e.status = "REJECTED",
             e.attempts = RejectedAttempts(l.snap), RejectedAttempts(l.snap) <= k + 1,
             e.cooldown \in {d.cooldown, ReadTime(p) + Cooldown}
      PROVE  Goal
  <2>1. d.cooldown = 0
    BY <1>1, <1>7 DEF OpenStatuses
  <2>2. n = IF k < 2 THEN k + 1 ELSE k
    BY <1>7, <2>1 DEF Count, PauseIsOver, OfficeRejects
  <2>3. CountedSending(e) = 0
    BY <1>7 DEF CountedSending, OpenStatuses
  <2>4. QED
    BY <1>1, <1>2, <1>7, <2>1, <2>2, <2>3
<1>8. ASSUME d.status = "PENDING", e.status = "NOT_SENT", e.model = 2,
             e.attempts = ExpiredAttempts(l.snap), ExpiredAttempts(l.snap) <= k,
             e.cooldown = d.cooldown
      PROVE  Goal
  BY <1>1, <1>2, <1>8 DEF Count, PauseIsOver, OfficeRejects, CountedSending
<1>9. Goal
  BY <1>1, <1>3, <1>4, <1>5, <1>6, <1>7, <1>8
<1>10. QED
  BY <1>9 DEF d, e, k

LEMMA ActsKeepEarned ==
    ASSUME InductiveInvariant, OutcomeInv, Earned, NEW p \in Thread, Acts(p),
           rejections' = [r \in Request |-> Count(rejections[r], doc[r], doc'[r])]
    PROVE  Earned'
<1>1. \A r \in Request :
        /\ rejections'[r] \in 0..2
        /\ doc'[r].attempts <= rejections'[r] + CountedSending(doc'[r])
        /\ rejections'[r] >= rejections[r] \/ (doc[r].cooldown # 0 /\ doc[r].cooldown <= clock)
        /\ \/ doc'[r].cooldown \in {0, doc[r].cooldown}
           \/ doc'[r].cooldown \in Int /\ doc'[r].cooldown >= clock + 2
  BY ActsKeepCount
<1>2. rejections' \in [Request -> 0..2] /\ CountEarned'
  BY <1>1 DEF CountEarned, CountedSending
<1>3. ASSUME NEW q \in Thread PROVE DecisionEarned(q)' /\ DecisionOutlived(q)'
  <2> DEFINE l == proc[q]
             m == proc'[q]
             r == m.req
  <2>1. CASE m.pc \notin Deciding
    BY <2>1 DEF DecisionEarned, DecisionOutlived, Deciding
  <2>2. CASE m.pc \in Deciding
    <3>1. clock' = clock /\ clock \in Nat /\ (q = p \/ m = l) /\ rejections \in [Request -> 0..2]
      BY DEF Acts, Earned, InductiveInvariant, TypeOK
    <3>2. CASE /\ l.pc \in Deciding /\ r = l.req /\ m.snap = l.snap /\ m.late = l.late
               /\ m.pc \in Expiring <=> l.pc \in Expiring
               /\ m.pc \in Rejecting <=> l.pc \in Rejecting
      <4>1. r \in Request /\ DecisionEarned(q) /\ DecisionOutlived(q)
        BY <3>2, HasRequest DEF Earned
      <4>2. doc[r].cooldown = 0 \/ doc[r].cooldown >= clock + (IF l.late THEN 1 ELSE 2)
        BY <3>2, <4>1 DEF DecisionOutlived
      <4>3. doc[r].cooldown \in Nat /\ l.snap \in Doc
        BY <4>1, DocFacts, DeciderFacts DEF Doc
      <4>4. rejections'[r] >= rejections[r] /\ rejections'[r] \in 0..2 /\ rejections[r] \in 0..2
        BY <1>1, <3>1, <4>1, <4>2, <4>3
      <4>5. RejectedAttempts(l.snap) \in 0..2 /\ ExpiredAttempts(l.snap) \in 0..2
        BY <4>3, DecisionValues
      <4>6. DecisionEarned(q)'
        BY <3>2, <4>1, <4>4, <4>5 DEF DecisionEarned
      <4>7. DecisionOutlived(q)'
        <5>1. \/ doc'[r].cooldown = 0
              \/ doc'[r].cooldown >= clock + (IF l.late THEN 1 ELSE 2)
          BY <1>1, <3>1, <4>1, <4>2, <4>3
        <5>2. QED
          BY <3>1, <3>2, <5>1 DEF DecisionOutlived
      <4>8. QED
        BY <4>6, <4>7
    <3>3. CASE doc' = doc /\ r \in Request /\ m.snap = doc[r] /\ doc[r].status = "PENDING"
      <4>1. doc[r] \in Doc /\ doc[r].cooldown = 0
        BY <3>3, DocFacts
      <4>2. RejectedAttempts(m.snap) <= rejections'[r] + 1 /\ ExpiredAttempts(m.snap) <= rejections'[r]
        BY <1>1, <3>3, <4>1, ReadingEarned
      <4>3. QED
        BY <3>3, <4>1, <4>2 DEF DecisionEarned, DecisionOutlived
    <3>4. QED
      BY <2>2, <3>1, <3>2, <3>3 DEF Acts, DecisionAct, Deciding
  <2>3. QED
    BY <2>1, <2>2
<1>4. QED
  BY <1>2, <1>3 DEF Earned

\* Nothing is counted in a step that leaves the documents alone.
LEMMA QuietCount ==
    ASSUME InductiveInvariant, Earned, doc' = doc,
           \/ rejections' = [r \in Request |-> Count(rejections[r], doc[r], doc'[r])]
           \/ rejections' = rejections
    PROVE  rejections' = rejections
<1>1. \A r \in Request : Count(rejections[r], doc[r], doc[r]) = rejections[r]
  BY DEF Count, PauseIsOver, OfficeRejects
<1>2. rejections = [r \in Request |-> rejections[r]]
  BY DEF Earned
<1>3. QED
  BY <1>1, <1>2

LEMMA TickKeepsEarned ==
    ASSUME InductiveInvariant, Earned, Tick,
           rejections' = [r \in Request |-> Count(rejections[r], doc[r], doc'[r])]
    PROVE  Earned'
<1>1. doc' = doc /\ rejections' = rejections /\ clock' = clock + 1 /\ clock \in Nat
  BY QuietCount DEF Tick, InductiveInvariant, TypeOK
<1>2. rejections' \in [Request -> 0..2] /\ CountEarned'
  BY <1>1 DEF Earned, CountEarned, CountedSending
<1>3. ASSUME NEW p \in Thread PROVE DecisionEarned(p)' /\ DecisionOutlived(p)'
  <2>1. /\ proc'[p].pc = proc[p].pc /\ proc'[p].req = proc[p].req
        /\ proc'[p].snap = proc[p].snap /\ DecisionEarned(p) /\ DecisionOutlived(p)
    BY TickThreads DEF Earned
  <2>2. proc[p].pc \in Deciding => proc'[p].late = TRUE /\ proc[p].late = FALSE
    <3>1. proc[p].late \in BOOLEAN
      BY DeciderFacts
    <3>2. QED
      BY <3>1, TickReads DEF Deciding, Expiring, Rejecting
  <2>3. DecisionEarned(p)'
    BY <1>1, <2>1 DEF DecisionEarned
  <2>4. DecisionOutlived(p)'
    BY <1>1, <2>1, <2>2 DEF DecisionOutlived
  <2>5. QED
    BY <2>3, <2>4
<1>4. QED
  BY <1>2, <1>3 DEF Earned

LEMMA CountedIsSpec == CountedSpec => Spec
<1>1. CountedInit => Init
  BY DEF CountedInit
<1>2. [CountedNext]_countedVars => [Next]_vars
  BY DEF CountedNext, countedVars
<1>3. QED
  BY <1>1, <1>2, PTL DEF CountedSpec, Spec

LEMMA EarnedAlways == CountedSpec => []Earned
<1>1. CountedInit => Earned
  <2> SUFFICES ASSUME CountedInit PROVE Earned
    OBVIOUS
  <2>1. ASSUME NEW r \in Request
        PROVE  /\ RejectedBefore(doc[r]) \in 0..2
               /\ doc[r].attempts <= RejectedBefore(doc[r]) + CountedSending(doc[r])
    <3>1. doc[r] = NoDoc \/ OldDoc(doc[r])
      BY OldDocsAssumption DEF CountedInit, Init
    <3>2. CASE doc[r] = NoDoc
      BY <3>2 DEF NoDoc, RejectedBefore, CountedSending
    <3>3. CASE OldDoc(doc[r])
      BY <3>3 DEF OldDoc, Doc, RejectedBefore, CountedSending, OpenStatuses
    <3>4. QED
      BY <3>1, <3>2, <3>3
  <2>2. rejections \in [Request -> 0..2] /\ CountEarned
    BY <2>1 DEF CountedInit, CountEarned
  <2>3. \A p \in Thread : DecisionEarned(p) /\ DecisionOutlived(p)
    BY DEF CountedInit, Init, Idle, DecisionEarned, DecisionOutlived, Deciding, Expiring,
           Rejecting
  <2>4. QED
    BY <2>2, <2>3 DEF Earned
<1>2. InductiveInvariant /\ OutcomeInv /\ Earned /\ [CountedNext]_countedVars => Earned'
  <2>1. ASSUME InductiveInvariant, OutcomeInv, Earned, CountedNext PROVE Earned'
    <3>1. Next /\ rejections' = [r \in Request |-> Count(rejections[r], doc[r], doc'[r])]
      BY <2>1 DEF CountedNext
    <3>2. QED
      BY <2>1, <3>1, StepActs, TickKeepsEarned, ActsKeepEarned
  <2>2. ASSUME Earned, UNCHANGED countedVars PROVE Earned'
    BY <2>2 DEF countedVars, vars, Earned, CountEarned, DecisionEarned, DecisionOutlived,
                CountedSending
  <2>3. QED
    BY <2>1, <2>2
<1>3. QED
  BY <1>1, <1>2, CountedIsSpec, Inductive, OutcomeAlways, PTL DEF CountedSpec

\* No student is paused who has not been rejected twice since the last pause,
\* whatever stale counts the rejections, expiries and sends under way write
\* over one another, on old documents and new (reject_request,
\* _expire_stale_pending, _versioned_filter).
THEOREM PausesAreEarned == CountedSpec => []PauseEarned
<1>1. InductiveInvariant /\ Earned => PauseEarned
  <2>1. ASSUME InductiveInvariant, Earned, NEW r \in Request, doc[r].cooldown # 0
        PROVE  rejections[r] = 2
    <3>1. /\ doc[r].attempts = 2 /\ doc[r].status \notin OpenStatuses
          /\ rejections[r] \in 0..2
          /\ doc[r].attempts <= rejections[r] + CountedSending(doc[r])
      BY <2>1 DEF InductiveInvariant, PauseClosesRequest, Earned, CountEarned, OpenStatuses
    <3>2. QED
      BY <3>1 DEF CountedSending
  <2>2. QED
    BY <2>1 DEF PauseEarned
<1>2. QED
  BY <1>1, CountedIsSpec, Inductive, EarnedAlways, PTL

-----------------------------------------------------------------------------
(***************************************************************************)
(* The receipts: what one step of a thread does to the file store, to the  *)
(* clean-up queue and to the file in its hands.                            *)
(***************************************************************************)

Deleting == {"reject_delete", "expire_delete"}
Holding  == {"send_write", "send_discard", "clean_destroy", "clean_drop"}

\* What a step of p may give up: the file of a lost send, or the receipt of
\* a request it decides on.
Given(p) ==
    IF proc[p].pc = "send_discard" THEN {proc[p].file}
    ELSE IF proc[p].pc \in Deleting THEN {proc[p].snap.receipt} ELSE {}

StoreAct(p) ==
    /\ uploaded \subseteq uploaded'
    /\ files' \subseteq files \cup (uploaded' \ uploaded)
    /\ \A f \in uploaded' \ uploaded :
         proc'[p].file = f /\ proc[p].pc = "send_upload"
    /\ \A f \in files \ files' :
         f \in Given(p) \/ (proc[p].pc = "clean_destroy" /\ f = proc[p].file)
    /\ cleanup' \subseteq cleanup \cup Given(p)
    /\ \A f \in cleanup \ cleanup' : proc[p].pc = "clean_drop" /\ f = proc[p].file

\* Where the file in the hands of p comes from.
HoldAct(p) ==
    LET l == proc[p]
        m == proc'[p]
    IN
    m.file # NoFile =>
        \/ /\ l.pc = "send_upload" /\ m.pc = "send_write"
           /\ m.file \in uploaded' \ uploaded /\ cleanup' = cleanup /\ doc' = doc
        \/ /\ l.pc = "send_write" /\ m.pc = "send_discard"
           /\ m.file = l.file /\ cleanup' = cleanup /\ doc' = doc
        \/ /\ m.pc = IF StillUsed(m.file) THEN "clean_drop" ELSE "clean_destroy"
           /\ m.file \in cleanup /\ cleanup' = cleanup /\ doc' = doc
        \/ l.pc = "clean_destroy" /\ m.pc = "clean_drop" /\ m.file = l.file
        \/ l.pc \notin Holding /\ m.file = l.file

FileActs(p) == StoreAct(p) /\ HoldAct(p)

-----------------------------------------------------------------------------
\* A step that has nothing to do with files.
LEMMA QuietFiles ==
    ASSUME NEW p \in Thread, UNCHANGED <<files, uploaded, cleanup>>,
           proc'[p].file = NoFile \/ (proc[p].pc \notin Holding /\ proc'[p].file = proc[p].file)
    PROVE  FileActs(p)
  BY DEF StoreAct, HoldAct, FileActs

\* The receipt a decision has read goes, or is queued, or neither.
LEMMA DeleteFiles ==
    ASSUME InductiveInvariant, NEW p \in Thread, NEW b, Goto(p, b),
           proc[p].pc \in Deleting, DeleteOrQueue(proc[p].snap.receipt), uploaded' = uploaded
    PROVE  FileActs(p)
<1> DEFINE f == proc[p].snap.receipt
<1>1. proc'[p].file = proc[p].file
  BY Arrives
<1>2. /\ files' \subseteq files /\ files \ files' \subseteq {f}
      /\ cleanup \subseteq cleanup' /\ cleanup' \subseteq cleanup \cup {f}
  BY DEF DeleteOrQueue
<1>3. Given(p) = {f}
  BY DEF Given, Deleting
<1> HIDE DEF f
<1>4. StoreAct(p)
  <2>1. uploaded' \ uploaded = {} /\ cleanup \ cleanup' = {}
    BY <1>2
  <2>2. \A g \in files \ files' : g \in Given(p)
    BY <1>2, <1>3
  <2>3. /\ uploaded \subseteq uploaded'
        /\ files' \subseteq files \cup (uploaded' \ uploaded)
        /\ cleanup' \subseteq cleanup \cup Given(p)
    BY <1>2, <1>3
  <2>4. QED
    BY <2>1, <2>2, <2>3 DEF StoreAct
<1>5. HoldAct(p)
  BY <1>1 DEF HoldAct, Holding, Deleting
<1>6. QED
  BY <1>4, <1>5 DEF FileActs

\* A thread that returns with the store as it was.
LEMMA ReturnFiles ==
    ASSUME InductiveInvariant, NEW p \in Thread, UNCHANGED <<files, uploaded, cleanup>>,
           Return(p)
    PROVE  FileActs(p)
<1>1. proc'[p].file = NoFile
  BY Arrives DEF Idle
<1>2. QED
  BY <1>1, QuietFiles

LEMMA TabFiles ==
    ASSUME InductiveInvariant, NEW t \in Tab, TabStep(t)
    PROVE  FileActs(t)
<1> DEFINE l == proc[t]
           m == proc'[t]
           d == doc[l.req]
<1>1. t \in Thread
  BY DEF Thread
<1>2. /\ l \in Local /\ l.snap \in Doc /\ l.file \in File \cup {NoFile}
      /\ l.pc \notin Requestless => l.req \in Request
      /\ \A x : proc' = [proc EXCEPT ![t] = x] => m = x
  BY <1>1, ThreadFacts DEF Local, Locals
<1>3. ASSUME NEW r \in Request, NEW e,
             \/ m = SendChecked(r, e)
             \/ \E pc \in {"send_clear", "retry_clear", "retry_write"} : m = At(pc, r, e)
             \/ m = Idle
      PROVE  m.file = NoFile
  BY <1>3 DEF SendChecked, At, Idle
<1>4. ASSUME NEW r \in Request, SendRead(t, r) \/ RetryRead(t, r) PROVE FileActs(t)
  <2>1. l.pc = "idle" /\ UNCHANGED <<files, uploaded, cleanup>>
    BY <1>4 DEF SendRead, RetryRead
  <2>2. \/ m = SendChecked(r, doc'[r])
        \/ \E pc \in {"send_clear", "retry_clear", "retry_write"} : m = At(pc, r, doc'[r])
        \/ m = Idle
    <3>1. CASE SendRead(t, r)
      <4> DEFINE x == IF Elapsed(doc'[r]) THEN At("send_clear", r, doc'[r])
                                          ELSE SendChecked(r, doc'[r])
      <4>1. proc' = [proc EXCEPT ![t] = x]
        BY <3>1 DEF SendRead
      <4>2. m = x
        BY <1>2, <4>1
      <4>3. QED
        BY <4>2
    <3>2. CASE RetryRead(t, r)
      <4> DEFINE x == IF doc'[r].status # "REJECTED" THEN Idle
                      ELSE IF Elapsed(doc'[r]) THEN At("retry_clear", r, doc'[r])
                      ELSE IF MayRetry(doc'[r]) THEN At("retry_write", r, doc'[r])
                      ELSE Idle
      <4>1. proc' = [proc EXCEPT ![t] = x]
        BY <3>2 DEF RetryRead
      <4>2. m = x
        BY <1>2, <4>1
      <4>3. QED
        BY <4>2
    <3>3. QED
      BY <1>4, <3>1, <3>2
  <2>3. QED
    BY <1>1, <1>3, <2>1, <2>2, QuietFiles
<1>5. CASE ClearElapsed(t)
  <2>1. /\ UNCHANGED <<files, uploaded, cleanup>> /\ l.pc \notin Holding
        /\ \E pc \in {"send_reread", "retry_reread"} : Goto(t, pc)
    BY <1>5 DEF ClearElapsed, Holding
  <2>2. m.file = l.file
    BY <1>1, <2>1, Arrives
  <2>3. QED
    BY <1>1, <2>1, <2>2, QuietFiles
<1>6. CASE UploadFails(t) \/ RetryWrite(t) \/ SendWrite(t)
  BY <1>1, <1>6, ReturnFiles DEF UploadFails, RetryWrite, SendWrite
<1>7. CASE Reread(t)
  <2> DEFINE next == IF l.pc = "send_reread" THEN SendChecked(l.req, d)
                     ELSE IF MayRetry(d) THEN At("retry_write", l.req, d) ELSE Idle
             x == IF next = Idle THEN Idle ELSE [next EXCEPT !.late = l.late]
  <2>1. /\ proc' = [proc EXCEPT ![t] = x] /\ UNCHANGED <<files, uploaded, cleanup>>
    BY <1>7 DEF Reread
  <2>2. m = x
    BY <1>2, <2>1
  <2>3. \/ next = Idle
        \/ \E pc \in {"send_upload", "send_write", "retry_write"} :
             next = At(pc, l.req, d)
    BY DEF SendChecked
  <2>4. m.file = NoFile
    BY <2>2, <2>3 DEF At, Idle
  <2>5. QED
    BY <1>1, <2>1, <2>4, QuietFiles
<1>8. CASE Upload(t)
  <2>1. l.pc = "send_upload" /\ doc' = doc /\ cleanup' = cleanup
    BY <1>8 DEF Upload
  <2>2. CASE Goto(t, "send_write") /\ UNCHANGED <<files, uploaded>>
    <3>1. m.file = l.file /\ l.pc \notin Holding
      BY <1>1, <2>1, <2>2, Arrives DEF Holding
    <3>2. QED
      BY <1>1, <2>1, <2>2, <3>1, QuietFiles
  <2>3. ASSUME NEW f \in File \ uploaded, files' = files \cup {f}, uploaded' = uploaded \cup {f},
               proc' = [proc EXCEPT ![t].pc = "send_write", ![t].file = f]
        PROVE  FileActs(t)
    <3>1. proc \in [Thread -> Local]
      BY DEF InductiveInvariant, TypeOK
    <3> DEFINE x == [l EXCEPT !.pc = "send_write", !.file = f]
    <3>2. proc' = [proc EXCEPT ![t] = x]
      BY <1>1, <2>3, <3>1
    <3>3. x.pc = "send_write" /\ x.file = f /\ x.req = l.req
      BY <1>2 DEF Local, Locals
    <3>4. m = x
      BY <1>1, <3>1, <3>2
    <3>5. m.pc = "send_write" /\ m.file = f /\ m.req = l.req
      BY <3>3, <3>4
    <3>6. StoreAct(t)
      BY <2>1, <2>3, <3>5 DEF StoreAct
    <3>7. HoldAct(t)
      BY <2>1, <2>3, <3>5 DEF HoldAct
    <3>8. QED
      BY <3>6, <3>7 DEF FileActs
  <2>4. QED
    BY <1>8, <2>2, <2>3 DEF Upload
<1>9. CASE SendConflict(t)
  <2>1. /\ l.pc = "send_write" /\ doc' = doc /\ UNCHANGED <<files, uploaded, cleanup>>
        /\ IF l.file = NoFile THEN Return(t) ELSE Goto(t, "send_discard")
    BY <1>9 DEF SendConflict
  <2>2. IF l.file = NoFile THEN m.pc = "idle" /\ m.file = NoFile
        ELSE m.pc = "send_discard" /\ m.file = l.file
    BY <1>1, <2>1, Arrives DEF Idle
  <2>3. StoreAct(t) /\ HoldAct(t)
    BY <2>1, <2>2 DEF StoreAct, HoldAct
  <2>4. QED
    BY <2>3 DEF FileActs
<1>10. CASE SendDiscard(t)
  <2>1. /\ l.pc = "send_discard" /\ DeleteOrQueue(l.file) /\ uploaded' = uploaded
        /\ m.pc = "idle" /\ m.file = NoFile
    BY <1>1, <1>10, Arrives DEF SendDiscard, Idle
  <2>2. /\ files' \subseteq files /\ files \ files' \subseteq {l.file}
        /\ cleanup \subseteq cleanup' /\ cleanup' \subseteq cleanup \cup {l.file}
    BY <2>1 DEF DeleteOrQueue
  <2>3. Given(t) = {l.file}
    BY <2>1 DEF Given
  <2>4. StoreAct(t)
    BY <2>1, <2>2, <2>3 DEF StoreAct
  <2>5. HoldAct(t)
    BY <2>1 DEF HoldAct
  <2>6. QED
    BY <2>4, <2>5 DEF FileActs
<1>11. QED
  BY <1>4, <1>5, <1>6, <1>7, <1>8, <1>9, <1>10 DEF TabStep, TabContinues

\* A decision that begins holds no file.
LEMMA ReadFiles ==
    ASSUME NEW p \in Thread, UNCHANGED <<files, uploaded, cleanup>>,
           NEW pc, NEW r, proc'[p] = At(pc, r, doc[r])
    PROVE  FileActs(p)
<1>1. proc'[p].file = NoFile
  BY DEF At
<1>2. QED
  BY <1>1, QuietFiles

LEMMA StaffFiles ==
    ASSUME InductiveInvariant, NEW s \in Staff, StaffStep(s)
    PROVE  FileActs(s)
<1>1. s \in Thread
  BY DEF Thread
<1>2. \A x : proc' = [proc EXCEPT ![s] = x] => proc'[s] = x
  BY <1>1, ThreadFacts
<1>3. ASSUME NEW r \in Request, Approve(s, r) PROVE FileActs(s)
  <2>1. proc' = proc /\ proc[s].pc \notin Holding /\ UNCHANGED <<files, uploaded, cleanup>>
    BY <1>3 DEF Approve, Holding
  <2>2. QED
    BY <1>1, <2>1, QuietFiles
<1>4. ASSUME NEW r \in Request, RejectRead(s, r) PROVE FileActs(s)
  <2> DEFINE pc == IF HasReceipt(r, doc[r]) THEN "reject_delete" ELSE "reject_write"
             x  == At(pc, r, doc[r])
  <2>1. proc' = [proc EXCEPT ![s] = x] /\ UNCHANGED <<files, uploaded, cleanup>>
    BY <1>4 DEF RejectRead
  <2>2. proc'[s] = x
    BY <1>2, <2>1
  <2> HIDE DEF pc
  <2>3. QED
    BY <1>1, <2>1, <2>2, ReadFiles
<1>5. CASE RejectDelete(s)
  <2>1. /\ proc[s].pc \in Deleting /\ Goto(s, "reject_write")
        /\ DeleteOrQueue(proc[s].snap.receipt) /\ uploaded' = uploaded
    BY <1>5 DEF RejectDelete, Deleting
  <2>2. QED
    BY <1>1, <2>1, DeleteFiles
<1>6. CASE RejectWrite(s)
  BY <1>1, <1>6, ReturnFiles DEF RejectWrite
<1>7. QED
  BY <1>3, <1>4, <1>5, <1>6 DEF StaffStep, StaffContinues

LEMMA WorkerFiles ==
    ASSUME InductiveInvariant, NEW w \in Worker, WorkerStep(w)
    PROVE  FileActs(w)
<1> DEFINE l == proc[w]
           m == proc'[w]
<1>1. w \in Thread
  BY DEF Thread
<1>2. \A x : proc' = [proc EXCEPT ![w] = x] => m = x
  BY <1>1, ThreadFacts
<1>3. CASE Sweep(w)
  <2>1. proc' = proc /\ l.pc \notin Holding /\ UNCHANGED <<files, uploaded, cleanup>>
    BY <1>3 DEF Sweep, Holding
  <2>2. QED
    BY <1>1, <2>1, QuietFiles
<1>4. ASSUME NEW r \in Request, ExpireRead(w, r) PROVE FileActs(w)
  <2> DEFINE pc == IF HasReceipt(r, doc[r]) THEN "expire_delete" ELSE "expire_write"
             x  == At(pc, r, doc[r])
  <2>1. proc' = [proc EXCEPT ![w] = x] /\ UNCHANGED <<files, uploaded, cleanup>>
    BY <1>4 DEF ExpireRead
  <2>2. m = x
    BY <1>2, <2>1
  <2> HIDE DEF pc
  <2>3. QED
    BY <1>1, <2>1, <2>2, ReadFiles
<1>5. CASE ExpireDelete(w)
  <2>1. /\ l.pc \in Deleting /\ Goto(w, "expire_write")
        /\ DeleteOrQueue(l.snap.receipt) /\ uploaded' = uploaded
    BY <1>5 DEF ExpireDelete, Deleting
  <2>2. QED
    BY <1>1, <2>1, DeleteFiles
<1>6. CASE ExpireWrite(w)
  BY <1>1, <1>6, ReturnFiles DEF ExpireWrite
<1>7. ASSUME NEW f \in File, CleanCheck(w, f) PROVE FileActs(w)
  <2> DEFINE x == [Idle EXCEPT !.pc = IF StillUsed(f) THEN "clean_drop" ELSE "clean_destroy",
                               !.file = f]
  <2>1. /\ proc' = [proc EXCEPT ![w] = x] /\ f \in cleanup
        /\ UNCHANGED <<files, uploaded, cleanup>> /\ doc' = doc
    BY <1>7 DEF CleanCheck
  <2>2. m = x
    BY <1>2, <2>1
  <2>3. m.pc = (IF StillUsed(f) THEN "clean_drop" ELSE "clean_destroy") /\ m.file = f
    BY <2>2 DEF Idle
  <2>4. StoreAct(w) /\ HoldAct(w)
    BY <2>1, <2>3 DEF StoreAct, HoldAct
  <2>5. QED
    BY <2>4 DEF FileActs
<1>8. CASE CleanDestroy(w)
  <2>1. /\ l.pc = "clean_destroy" /\ uploaded' = uploaded /\ cleanup' = cleanup
        /\ files' \in {files, files \ {l.file}}
        /\ \/ m.pc = "idle" /\ m.file = NoFile
           \/ m.pc = "clean_drop" /\ m.file = l.file
    BY <1>1, <1>8, Arrives DEF CleanDestroy, Idle
  <2>2. StoreAct(w) /\ HoldAct(w)
    BY <2>1 DEF StoreAct, HoldAct
  <2>3. QED
    BY <2>2 DEF FileActs
<1>9. CASE CleanDrop(w)
  <2>1. /\ l.pc = "clean_drop" /\ uploaded' = uploaded /\ files' = files
        /\ cleanup' = cleanup \ {l.file} /\ m.file = NoFile
    BY <1>1, <1>9, Arrives DEF CleanDrop, Idle
  <2>2. StoreAct(w) /\ HoldAct(w)
    BY <2>1 DEF StoreAct, HoldAct
  <2>3. QED
    BY <2>2 DEF FileActs
<1>10. QED
  BY <1>3, <1>4, <1>5, <1>6, <1>7, <1>8, <1>9 DEF WorkerStep, WorkerContinues

LEMMA StepActsFiles ==
    ASSUME InductiveInvariant, Next
    PROVE  Tick \/ \E p \in Thread : Acts(p) /\ FileActs(p)
<1>1. ASSUME NEW p \in Thread, Moves(p),
             DocAct(p), DecisionAct(p), RetryAct(p), SendAct(p), RoleAct(p)
      PROVE  Acts(p)
  BY <1>1 DEF Moves, Acts
<1>2. TypeOK'
  BY StepMoves
<1>3. ASSUME NEW p \in Thread, Crash(p) PROVE Acts(p) /\ FileActs(p)
  <2>1. Moves(p)
    BY <1>3, CrashMoves
  <2>2. doc' = doc /\ proc'[p].pc = "idle"
    BY <1>3, Arrives DEF Crash, Idle
  <2>3. QED
    BY <1>1, <1>3, <2>1, <2>2, SweepActs, IdleActs, ReturnFiles DEF Crash
<1>4. ASSUME NEW t \in Tab, TabStep(t) PROVE Acts(t) /\ FileActs(t)
  BY <1>1, <1>2, <1>4, TabMoves, TabActs, TabFiles DEF Thread
<1>5. ASSUME NEW s \in Staff, StaffStep(s) PROVE Acts(s) /\ FileActs(s)
  BY <1>1, <1>2, <1>5, StaffMoves, StaffActs, StaffFiles DEF Thread
<1>6. ASSUME NEW w \in Worker, WorkerStep(w) PROVE Acts(w) /\ FileActs(w)
  BY <1>1, <1>2, <1>6, WorkerMoves, WorkerActs, WorkerFiles DEF Thread
<1>7. QED
  BY <1>3, <1>4, <1>5, <1>6 DEF Next, Thread

-----------------------------------------------------------------------------
(***************************************************************************)
(* Whose every receipt is, whatever threads race.  A file reaches a        *)
(* request by the one send that stored it, and the store never hands out a *)
(* public id twice: until then nobody else has it, and afterwards no other *)
(* request does.                                                           *)
(***************************************************************************)

\* What requests, decisions and the queue point to has been stored.
ReceiptsStored ==
    /\ \A r \in Request : doc[r].receipt \in uploaded \cup {NoFile}
    /\ cleanup \subseteq uploaded \cup {NoFile}

\* No two requests share a receipt.
ReceiptsApart ==
    \A r, q \in Request :
        doc[r].receipt # NoFile /\ doc[q].receipt = doc[r].receipt => q = r

\* Only these points of the code hold a file.
Holders ==
    \A p \in Thread :
        proc[p].file # NoFile => proc[p].pc \in Holding /\ proc[p].file \in uploaded

\* A file just stored is known to its send alone.
SentFiles ==
    \A p \in Thread :
        LET f == proc[p].file IN
        f # NoFile /\ proc[p].pc \in {"send_write", "send_discard"} =>
            /\ ~StillUsed(f) /\ f \notin cleanup
            /\ \A q \in Thread :
                 /\ proc[q].file = f => q = p
                 /\ proc[q].pc \in Deciding => proc[q].snap.receipt # f

\* The clean-up destroys what no request points to.
CleanedFiles ==
    \A p \in Thread :
        proc[p].pc = "clean_destroy" /\ proc[p].file # NoFile => ~StillUsed(proc[p].file)

\* No other request has the receipt a decision has read.
DecidedFiles ==
    \A p \in Thread :
        LET f == proc[p].snap.receipt IN
        proc[p].pc \in Deciding =>
            /\ f \in uploaded \cup {NoFile}
            /\ \A r \in Request : f # NoFile /\ doc[r].receipt = f => r = proc[p].req

ReceiptsSafe ==
    /\ ReceiptsStored /\ ReceiptsApart /\ Holders /\ SentFiles
    /\ CleanedFiles /\ DecidedFiles

-----------------------------------------------------------------------------
\* What the two parts of a step say together.
FileStep(p) ==
    InductiveInvariant /\ OutcomeInv /\ ReceiptsSafe /\ Acts(p) /\ FileActs(p)

LEMMA FileTypes ==
    ASSUME InductiveInvariant
    PROVE  NoFile \notin uploaded /\ files \subseteq uploaded
  BY SetsAssumption DEF InductiveInvariant, TypeOK

\* A receipt comes with a send, and goes with a decision.
LEMMA ReceiptMoves ==
    ASSUME NEW p \in Thread, FileStep(p), NEW r \in Request
    PROVE  \/ doc'[r].receipt = doc[r].receipt
           \/ doc'[r].receipt = NoFile
           \/ /\ proc[p].pc = "send_write" /\ proc[p].req = r /\ proc[p].file # NoFile
              /\ doc'[r].receipt = proc[p].file
  BY Changes DEF FileStep, Kept, SentBy

\* Once a request points to a file, it did before or its send is written.
LEMMA UseMoves ==
    ASSUME NEW p \in Thread, FileStep(p), NEW f, f # NoFile, NEW r \in Request,
           doc'[r].receipt = f
    PROVE  \/ doc[r].receipt = f
           \/ proc[p].pc = "send_write" /\ proc[p].file = f /\ proc[p].req = r
  BY ReceiptMoves

\* A file no send has in its hands comes into use with none.
LEMMA UnusedStays ==
    ASSUME NEW p \in Thread, FileStep(p), NEW f, f # NoFile, ~StillUsed(f),
           proc[p].pc # "send_write" \/ proc[p].file # f
    PROVE  \A r \in Request : doc'[r].receipt # f
  BY UseMoves DEF StillUsed

\* What a step gives up was stored before.
LEMMA WhatIsGiven ==
    ASSUME NEW p \in Thread, FileStep(p), NEW f \in Given(p)
    PROVE  /\ f \in uploaded \cup {NoFile}
           /\ \/ proc[p].pc = "send_discard" /\ proc[p].file = f
              \/ proc[p].pc \in Deciding /\ proc[p].snap.receipt = f
<1>1. ReceiptsSafe
  BY DEF FileStep
<1>2. CASE proc[p].pc = "send_discard"
  BY <1>1, <1>2 DEF Given, ReceiptsSafe, Holders
<1>3. CASE proc[p].pc \in Deleting
  <2>1. f = proc[p].snap.receipt /\ proc[p].pc \in Deciding
    BY <1>3 DEF Given, Deleting, Deciding, Rejecting, Expiring
  <2>2. QED
    BY <1>1, <2>1 DEF ReceiptsSafe, DecidedFiles
<1>4. QED
  BY <1>2, <1>3 DEF Given

-----------------------------------------------------------------------------
LEMMA StoredKept ==
    ASSUME NEW p \in Thread, FileStep(p)
    PROVE  ReceiptsStored' /\ ReceiptsApart'
<1>1. /\ ReceiptsStored /\ ReceiptsApart /\ Holders /\ SentFiles
      /\ uploaded \subseteq uploaded' /\ cleanup' \subseteq cleanup \cup Given(p)
  BY DEF FileStep, ReceiptsSafe, FileActs, StoreAct
<1>2. ASSUME NEW r \in Request PROVE doc'[r].receipt \in uploaded' \cup {NoFile}
  BY <1>1, ReceiptMoves DEF ReceiptsStored, Holders
<1>3. cleanup' \subseteq uploaded' \cup {NoFile}
  BY <1>1, WhatIsGiven DEF ReceiptsStored
<1>4. ASSUME NEW r \in Request, NEW q \in Request, doc'[r].receipt # NoFile,
             doc'[q].receipt = doc'[r].receipt
      PROVE  q = r
  <2>1. PICK f : f = doc'[r].receipt
    OBVIOUS
  <2>2. /\ \/ doc[r].receipt = f
           \/ proc[p].pc = "send_write" /\ proc[p].file = f /\ proc[p].req = r
        /\ \/ doc[q].receipt = f
           \/ proc[p].pc = "send_write" /\ proc[p].file = f /\ proc[p].req = q
    BY <1>4, <2>1, UseMoves
  <2>3. proc[p].pc = "send_write" /\ proc[p].file = f => ~StillUsed(f)
    BY <1>1, <1>4, <2>1 DEF SentFiles
  <2>4. QED
    BY <1>1, <1>4, <2>1, <2>2, <2>3 DEF ReceiptsApart, StillUsed
<1>5. QED
  BY <1>2, <1>3, <1>4 DEF ReceiptsStored, ReceiptsApart

LEMMA HoldersKept ==
    ASSUME NEW p \in Thread, FileStep(p)
    PROVE  Holders'
<1>1. /\ Holders /\ ReceiptsStored /\ HoldAct(p) /\ uploaded \subseteq uploaded'
      /\ \A q \in Thread \ {p} : proc'[q] = proc[q]
  BY DEF FileStep, ReceiptsSafe, FileActs, StoreAct, Acts
<1>2. ASSUME NEW q \in Thread \ {p}, proc'[q].file # NoFile
      PROVE  proc'[q].pc \in Holding /\ proc'[q].file \in uploaded'
  BY <1>1, <1>2 DEF Holders
<1>3. proc'[p].file # NoFile => proc'[p].pc \in Holding /\ proc'[p].file \in uploaded'
  BY <1>1 DEF HoldAct, Holders, Holding, ReceiptsStored
<1>4. QED
  BY <1>2, <1>3 DEF Holders

\* Who decides in the next state has read a receipt that was in use, or had
\* read it before.
LEMMA WhatIsRead ==
    ASSUME NEW p \in Thread, FileStep(p), NEW q \in Thread, proc'[q].pc \in Deciding
    PROVE  \/ /\ proc[q].pc \in Deciding
              /\ proc'[q].req = proc[q].req /\ proc'[q].snap = proc[q].snap
           \/ /\ doc' = doc /\ proc'[q].req \in Request
              /\ proc'[q].snap = doc[proc'[q].req]
  BY Deciders DEF FileStep

\* What a send has in its hands after a step, it had before or has just stored.
LEMMA SentFilesKept ==
    ASSUME NEW p \in Thread, FileStep(p)
    PROVE  SentFiles'
<1>1. /\ InductiveInvariant /\ ReceiptsSafe /\ HoldAct(p) /\ StoreAct(p)
      /\ \A q \in Thread \ {p} : proc'[q] = proc[q]
  BY DEF FileStep, FileActs, Acts
<1>2. SUFFICES ASSUME NEW q \in Thread, NEW f, f = proc'[q].file, f # NoFile,
                      proc'[q].pc \in {"send_write", "send_discard"}
               PROVE  /\ \A r \in Request : doc'[r].receipt # f
                      /\ f \notin cleanup'
                      /\ \A t \in Thread :
                           /\ proc'[t].file = f => t = q
                           /\ proc'[t].pc \in Deciding => proc'[t].snap.receipt # f
  BY DEF SentFiles, StillUsed
<1>3. ASSUME /\ ~StillUsed(f) /\ f \notin cleanup
             /\ \A t \in Thread :
                  /\ proc[t].file = f => t = q
                  /\ proc[t].pc \in Deciding => proc[t].snap.receipt # f,
             proc[p].pc # "send_write" \/ proc[p].file # f \/ doc' = doc,
             f \notin Given(p),
             proc'[p].file = f => p = q
      PROVE  /\ \A r \in Request : doc'[r].receipt # f
             /\ f \notin cleanup'
             /\ \A t \in Thread :
                  /\ proc'[t].file = f => t = q
                  /\ proc'[t].pc \in Deciding => proc'[t].snap.receipt # f
  <2>1. \A r \in Request : doc'[r].receipt # f
    BY <1>2, <1>3, UnusedStays DEF StillUsed
  <2>2. f \notin cleanup'
    BY <1>1, <1>3 DEF StoreAct
  <2>3. ASSUME NEW t \in Thread, proc'[t].file = f PROVE t = q
    BY <1>1, <1>3, <2>3
  <2>4. ASSUME NEW t \in Thread, proc'[t].pc \in Deciding PROVE proc'[t].snap.receipt # f
    BY <1>3, <2>4, WhatIsRead DEF StillUsed
  <2>5. QED
    BY <2>1, <2>2, <2>3, <2>4
<1>4. CASE q # p
  <2>1. proc'[q] = proc[q]
    BY <1>1, <1>4
  <2>2. /\ ~StillUsed(f) /\ f \notin cleanup /\ f \in uploaded
        /\ \A t \in Thread :
             /\ proc[t].file = f => t = q
             /\ proc[t].pc \in Deciding => proc[t].snap.receipt # f
    BY <1>1, <1>2, <2>1 DEF ReceiptsSafe, SentFiles, Holders
  <2>3. proc[p].file # f
    BY <1>4, <2>2
  <2>4. f \notin Given(p)
    BY <2>2, <2>3, WhatIsGiven
  <2>5. proc'[p].file # f
    BY <1>1, <1>2, <2>2, <2>3 DEF HoldAct
  <2>6. QED
    BY <1>3, <2>2, <2>3, <2>4, <2>5
<1>5. CASE q = p
  <2> DEFINE l == proc[p]
             m == proc'[p]
  <2>1. CASE /\ l.pc = "send_upload" /\ f \in uploaded' \ uploaded
             /\ cleanup' = cleanup /\ doc' = doc
    <3>1. ~StillUsed(f) /\ f \notin cleanup
      BY <1>1, <1>2, <2>1 DEF ReceiptsSafe, ReceiptsStored, StillUsed
    <3>2. ASSUME NEW t \in Thread
          PROVE  /\ proc[t].file # f
                 /\ proc[t].pc \in Deciding => proc[t].snap.receipt # f
      BY <1>1, <1>2, <2>1 DEF ReceiptsSafe, Holders, DecidedFiles
    <3>3. Given(p) = {}
      BY <2>1 DEF Given, Deleting
    <3>4. QED
      BY <1>3, <1>5, <2>1, <3>1, <3>2, <3>3
  <2>2. CASE l.pc = "send_write" /\ f = l.file /\ doc' = doc
    <3>1. /\ ~StillUsed(f) /\ f \notin cleanup
          /\ \A t \in Thread :
               /\ proc[t].file = f => t = q
               /\ proc[t].pc \in Deciding => proc[t].snap.receipt # f
      BY <1>1, <1>2, <1>5, <2>2 DEF ReceiptsSafe, SentFiles
    <3>2. Given(p) = {}
      BY <2>2 DEF Given, Deleting
    <3>3. QED
      BY <1>3, <1>5, <2>2, <3>1, <3>2
  <2>3. m.file = l.file => l.pc \in Holding
    BY <1>1, <1>2, <1>5 DEF ReceiptsSafe, Holders
  <2>4. QED
    BY <1>1, <1>2, <1>5, <2>1, <2>2, <2>3 DEF HoldAct
<1>6. QED
  BY <1>4, <1>5

LEMMA CleanedFilesKept ==
    ASSUME NEW p \in Thread, FileStep(p)
    PROVE  CleanedFiles'
<1>1. /\ InductiveInvariant /\ ReceiptsSafe /\ HoldAct(p)
      /\ \A q \in Thread \ {p} : proc'[q] = proc[q]
  BY DEF FileStep, FileActs, Acts
<1>2. SUFFICES ASSUME NEW q \in Thread, NEW f, f = proc'[q].file, f # NoFile,
                      proc'[q].pc = "clean_destroy"
               PROVE  \A r \in Request : doc'[r].receipt # f
  BY DEF CleanedFiles, StillUsed
<1>3. CASE q # p
  <2>1. proc'[q] = proc[q] /\ ~StillUsed(f)
    BY <1>1, <1>2, <1>3 DEF ReceiptsSafe, CleanedFiles
  <2>2. ~(proc[p].pc = "send_write" /\ proc[p].file = f)
    BY <1>1, <1>2, <1>3, <2>1 DEF ReceiptsSafe, SentFiles
  <2>3. QED
    BY <1>2, <2>1, <2>2, UnusedStays
<1>4. CASE q = p
  <2>1. proc'[p].file = proc[p].file => proc[p].pc \in Holding
    BY <1>1, <1>2, <1>4 DEF ReceiptsSafe, Holders
  <2>2. ~StillUsed(f) /\ doc' = doc
    BY <1>1, <1>2, <1>4, <2>1 DEF HoldAct
  <2>3. QED
    BY <2>2 DEF StillUsed
<1>5. QED
  BY <1>3, <1>4

LEMMA DecidedFilesKept ==
    ASSUME NEW p \in Thread, FileStep(p)
    PROVE  DecidedFiles'
<1>1. /\ InductiveInvariant /\ ReceiptsSafe /\ uploaded \subseteq uploaded'
  BY DEF FileStep, FileActs, StoreAct
<1>2. SUFFICES ASSUME NEW q \in Thread, NEW f, f = proc'[q].snap.receipt,
                      proc'[q].pc \in Deciding
               PROVE  /\ f \in uploaded' \cup {NoFile}
                      /\ \A r \in Request : f # NoFile /\ doc'[r].receipt = f
                           => r = proc'[q].req
  BY DEF DecidedFiles
<1>3. CASE /\ proc[q].pc \in Deciding
           /\ proc'[q].req = proc[q].req /\ proc'[q].snap = proc[q].snap
  <2>1. /\ f \in uploaded \cup {NoFile}
        /\ \A r \in Request : f # NoFile /\ doc[r].receipt = f => r = proc[q].req
    BY <1>1, <1>2, <1>3 DEF ReceiptsSafe, DecidedFiles
  <2>2. ASSUME NEW r \in Request, f # NoFile, doc'[r].receipt = f PROVE r = proc[q].req
    <3>1. ~(proc[p].pc = "send_write" /\ proc[p].file = f)
      BY <1>1, <1>2, <1>3, <2>2 DEF ReceiptsSafe, SentFiles
    <3>2. doc[r].receipt = f
      BY <2>2, <3>1, UseMoves
    <3>3. QED
      BY <2>1, <2>2, <3>2
  <2>3. QED
    BY <1>1, <1>3, <2>1, <2>2
<1>4. CASE doc' = doc /\ proc'[q].req \in Request /\ proc'[q].snap = doc[proc'[q].req]
  BY <1>1, <1>2, <1>4 DEF ReceiptsSafe, ReceiptsStored, ReceiptsApart
<1>5. QED
  BY <1>2, <1>3, <1>4, WhatIsRead

LEMMA ReceiptsSafeAlways == Spec => []ReceiptsSafe
<1>1. Init => ReceiptsSafe
  <2> SUFFICES ASSUME Init PROVE ReceiptsSafe
    OBVIOUS
  <2>1. \A p \in Thread : proc[p].pc = "idle" /\ proc[p].file = NoFile
    BY DEF Init, Idle
  <2>2. \A r \in Request : doc[r].receipt = NoFile
    BY OldDocsAssumption DEF Init, NoDoc, OldDoc
  <2>3. cleanup = {}
    BY DEF Init
  <2>4. QED
    BY <2>1, <2>2, <2>3 DEF ReceiptsSafe, ReceiptsStored, ReceiptsApart, Holders, SentFiles,
                            CleanedFiles, DecidedFiles, Deciding, Expiring, Rejecting
<1>2. InductiveInvariant /\ OutcomeInv /\ ReceiptsSafe /\ [Next]_vars => ReceiptsSafe'
  <2> SUFFICES ASSUME InductiveInvariant, OutcomeInv, ReceiptsSafe, [Next]_vars
               PROVE  ReceiptsSafe'
    OBVIOUS
  <2>1. ASSUME UNCHANGED <<doc, files, uploaded, cleanup>>,
               \A p \in Thread : /\ proc'[p].pc = proc[p].pc /\ proc'[p].req = proc[p].req
                                 /\ proc'[p].snap = proc[p].snap
                                 /\ proc'[p].file = proc[p].file
        PROVE  ReceiptsSafe'
    BY <2>1 DEF ReceiptsSafe, ReceiptsStored, ReceiptsApart, Holders, SentFiles,
                CleanedFiles, DecidedFiles, StillUsed
  <2>2. CASE Tick
    BY <2>1, <2>2, TickThreads DEF Tick
  <2>3. CASE UNCHANGED vars
    BY <2>1, <2>3 DEF vars
  <2>4. ASSUME NEW p \in Thread, Acts(p), FileActs(p) PROVE ReceiptsSafe'
    BY <2>4, StoredKept, HoldersKept, SentFilesKept, CleanedFilesKept, DecidedFilesKept
       DEF FileStep, ReceiptsSafe
  <2>5. QED
    BY <2>2, <2>3, <2>4, StepActsFiles
<1>3. QED
  BY <1>1, <1>2, Inductive, OutcomeAlways, PTL DEF Spec

\* No file a request points to is deleted but by a rejection or an expiry that
\* has read it in that very request: not by the clean-up queue, whatever it
\* holds, nor by a send that lost its race, nor by a decision on another
\* request (process_queue, send_hostel_request, delete_or_queue).
THEOREM UsedReceiptsKept == Spec => UsedReceiptKept
<1>1. ASSUME InductiveInvariant, OutcomeInv, ReceiptsSafe, Next,
             NEW f \in files \ files', NEW r \in Request, doc[r].receipt = f
      PROVE  \E p \in Staff \cup Worker :
                /\ proc[p].pc \in {"reject_delete", "expire_delete"}
                /\ proc[p].req = r /\ proc[p].snap.receipt = f
  <2>1. PICK p \in Thread : Acts(p) /\ FileActs(p)
    BY <1>1, StepActsFiles DEF Tick
  <2>2. f # NoFile /\ StillUsed(f)
    BY <1>1, FileTypes DEF StillUsed
  <2>3. f \in Given(p) \/ (proc[p].pc = "clean_destroy" /\ f = proc[p].file)
    BY <1>1, <2>1 DEF FileActs, StoreAct
  <2>4. ~(proc[p].pc \in {"clean_destroy", "send_discard"} /\ f = proc[p].file)
    BY <1>1, <2>2 DEF ReceiptsSafe, CleanedFiles, SentFiles
  <2>5. proc[p].pc \in Deleting /\ f = proc[p].snap.receipt
    BY <2>3, <2>4 DEF Given
  <2>6. proc[p].pc \in Deciding
    BY <2>5 DEF Deleting, Deciding, Rejecting, Expiring
  <2>7. r = proc[p].req /\ p \in Staff \cup Worker
    BY <1>1, <2>2, <2>5, <2>6, Writers DEF ReceiptsSafe, DecidedFiles
  <2>8. QED
    BY <2>5, <2>7 DEF Deleting
<1>2. InductiveInvariant /\ OutcomeInv /\ ReceiptsSafe /\ [Next]_vars
        => [\A f \in files \ files' : \A r \in Request : doc[r].receipt = f =>
              \E p \in Staff \cup Worker :
                /\ proc[p].pc \in {"reject_delete", "expire_delete"}
                /\ proc[p].req = r /\ proc[p].snap.receipt = f]_vars
  BY <1>1
<1>3. QED
  BY <1>2, Inductive, OutcomeAlways, ReceiptsSafeAlways, PTL DEF Spec, UsedReceiptKept
=============================================================================
