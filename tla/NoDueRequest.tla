--------------------------- MODULE NoDueRequest ---------------------------
(***************************************************************************)
(* The life of a no-due request.                                           *)
(*                                                                         *)
(* One MongoDB document per student and office, written by three kinds of  *)
(* threads that share nothing but the database:                            *)
(*                                                                         *)
(*   Tab    a student's call: send_no_due_request, send_hostel_request,    *)
(*          retry_request                                                  *)
(*   Staff  an office's call: bulk_approve, reject_request                 *)
(*   Worker a pass of the maintenance cycle: cooldown sweep, expiry of     *)
(*          unanswered requests, receipt clean-up                          *)
(*                                                                         *)
(* Every action is one call to the database or to the file store together  *)
(* with the local computation that follows it, so that threads interleave  *)
(* where the program lets them.  A call of an office on several requests   *)
(* is one thread per request: the handlers pass nothing from one request   *)
(* of a call to the next.                                                  *)
(*                                                                         *)
(* A unit of the clock is longer than the life of any thread, so a thread  *)
(* sees at most one tick (late).  A call refused by the access gate, by a  *)
(* role check or by malformed input takes no step.                         *)
(***************************************************************************)
EXTENDS Integers, FiniteSets

CONSTANTS
    Request,     \* the documents: one per student and office
    Hostel,      \* those of the hostel office, which carry a receipt
    NoRequest,
    File,        \* public ids the file store can hand out
    NoFile,
    Tab, Staff, Worker,
    Killable,    \* threads whose process may be killed in the middle of a call
    OldDocs,     \* documents saved before the rejection-based attempts model
    Cooldown,    \* 24 hours, in clock units
    PendingTTL,  \* 2 days, in clock units
    MaxClock     \* bound on the clock

Thread == Tab \cup Staff \cup Worker

Statuses == {"ABSENT", "NOT_SENT", "PENDING", "APPROVED", "REJECTED"}

\* cooldown = 0: the document has no cooldown_expiry.
Doc == [status : Statuses, attempts : {0, 1, 2}, model : {1, 2},
        cooldown : Nat, created : Nat, receipt : File \cup {NoFile}]

NoDoc == [status |-> "ABSENT", attempts |-> 0, model |-> 2,
          cooldown |-> 0, created |-> 0, receipt |-> NoFile]

\* A document of the old model counted its sends, and knew no cooldown.
OldDoc(d) ==
    /\ d \in Doc
    /\ d.model = 1 /\ d.cooldown = 0 /\ d.receipt = NoFile
    /\ d.status \in {"PENDING", "APPROVED", "REJECTED"}
    /\ d.status = "REJECTED" => d.attempts < 2

ASSUME SetsAssumption ==
    /\ Hostel \subseteq Request
    /\ NoRequest \notin Request
    /\ NoFile \notin File
    /\ Tab \cap Staff = {} /\ Tab \cap Worker = {} /\ Staff \cap Worker = {}
    /\ Killable \subseteq Thread

ASSUME OldDocsAssumption == \A d \in OldDocs : OldDoc(d)

\* A thread lives less than one unit: 24 hours are well over two of them.
ASSUME TimeAssumption ==
    /\ Cooldown \in Nat /\ Cooldown > 2
    /\ PendingTTL \in Nat /\ PendingTTL > 1
    /\ MaxClock \in Nat

VARIABLES
    clock,
    doc,        \* doc[r]: the document of request r
    files,      \* the files that exist in the file store
    uploaded,   \* every public id handed out so far
    cleanup,    \* the receipt_cleanup queue
    proc        \* proc[p]: the local variables of thread p

vars == <<clock, doc, files, uploaded, cleanup, proc>>

-----------------------------------------------------------------------------
(***************************************************************************)
(* Local variables of a thread.                                            *)
(***************************************************************************)

PCs == {"idle", "send_clear", "send_reread", "send_upload", "send_write",
        "send_discard", "retry_clear", "retry_reread", "retry_write",
        "reject_delete", "reject_write", "expire_delete", "expire_write",
        "clean_destroy", "clean_drop"}

Locals == [pc : PCs, req : Request \cup {NoRequest}, snap : Doc,
           file : File \cup {NoFile}, late : BOOLEAN]

\* An idle thread, and one that works on a queue entry, has no request.
Requestless == {"idle", "clean_destroy", "clean_drop"}

Local == {l \in Locals : l.pc \notin Requestless => l.req \in Request}

Idle == [pc |-> "idle", req |-> NoRequest, snap |-> NoDoc,
         file |-> NoFile, late |-> FALSE]

\* Thread state at pc on request r, having read document d at this moment.
At(pc, r, d) == [pc |-> pc, req |-> r, snap |-> d, file |-> NoFile, late |-> FALSE]

\* The time at which a thread read its snapshot.
ReadTime(p) == IF proc[p].late THEN clock - 1 ELSE clock

Goto(p, pc) == proc' = [proc EXCEPT ![p].pc = pc]
Return(p)   == proc' = [proc EXCEPT ![p] = Idle]

-----------------------------------------------------------------------------
(***************************************************************************)
(* What the handlers compute from a document.                              *)
(***************************************************************************)

Paused(d)  == d.cooldown # 0 /\ clock < d.cooldown
Elapsed(d) == d.cooldown # 0 /\ d.cooldown <= clock

\* Mutant: the reset forgets to unset cooldown_expiry.
ResetKeepsExpiry(d) == [d EXCEPT !.status = "NOT_SENT", !.attempts = 0]

\* The reset an elapsed cooldown brings.
Reset(d) == [d EXCEPT !.status = "NOT_SENT", !.attempts = 0, !.cooldown = 0]

\* Mutant: the sweep does not look at the time.
SweptEarly == [r \in Request |-> IF doc[r].cooldown # 0 THEN Reset(doc[r]) ELSE doc[r]]

\* fast_cooldown_reset: every elapsed cooldown is reset.
Swept == [r \in Request |-> IF Elapsed(doc[r]) THEN Reset(doc[r]) ELSE doc[r]]

\* send: not pending, not approved, not paused, not out of attempts.
MaySend(d) ==
    /\ d.status \notin {"PENDING", "APPROVED"}
    /\ ~(Paused(d) /\ d.attempts >= 2)
    /\ ~(d.attempts >= 2 /\ d.status = "REJECTED")

\* retry: a rejected request with an attempt left.
MayRetry(d) == d.status = "REJECTED" /\ d.attempts < 2

\* Mutant: the update of a send is aimed at the id alone.
SameVersionIgnored(d, snap) == TRUE

\* The update of a send is aimed at the document that was checked.
SameVersion(d, snap) == d.status = snap.status /\ d.attempts = snap.attempts

\* Mutant: a send uses an attempt, as in the old model.
SentCounting(d, snap, f) ==
    [d EXCEPT !.status = "PENDING", !.attempts = IF snap.attempts = 0 THEN 1 ELSE 2,
              !.model = 2, !.created = clock, !.receipt = IF f = NoFile THEN @ ELSE f]

Sent(d, snap, f) ==
    [d EXCEPT !.status = "PENDING", !.attempts = snap.attempts, !.model = 2,
              !.created = clock, !.receipt = IF f = NoFile THEN @ ELSE f]

\* Mutant: no limit on the count of an old document.
RejectedAttemptsUncapped(snap) == snap.attempts + 1

\* Mutant: an old document's count is taken for one of rejections.
RejectedAttemptsNew(snap) == IF snap.attempts = 0 THEN 1 ELSE 2

\* Attempts after a rejection: an old document already counted its send.
RejectedAttempts(snap) ==
    IF snap.model = 2
    THEN IF snap.attempts = 0 THEN 1 ELSE 2
    ELSE IF snap.attempts = 2 THEN 2 ELSE 1

Rejected(d, snap, t) ==
    [d EXCEPT !.status = "REJECTED", !.receipt = NoFile, !.model = 2,
              !.attempts = RejectedAttempts(snap),
              !.cooldown = IF RejectedAttempts(snap) = 2 THEN t + Cooldown ELSE @]

\* Mutant: an old document is not given its send back.
ExpiredAttemptsKept(snap) == snap.attempts

\* Attempts after an expiry: an old document is given its send back.
ExpiredAttempts(snap) ==
    IF snap.model = 2 \/ snap.attempts = 0 THEN snap.attempts ELSE snap.attempts - 1

Expired(d, snap) ==
    [d EXCEPT !.status = "NOT_SENT", !.receipt = NoFile, !.model = 2,
              !.attempts = ExpiredAttempts(snap)]

\* Mutant: the expiry overlooks old documents.
UnansweredNew(d) ==
    d.status = "PENDING" /\ d.model = 2 /\ d.created + PendingTTL <= clock

Unanswered(d) == d.status = "PENDING" /\ d.created + PendingTTL <= clock

\* delete_or_queue: the file goes; or one of destroy's two calls to the store
\* fails, whatever the other one did, and the file is queued; or the queue
\* cannot be written either, which queue() logs and swallows.
DeleteOrQueue(f) ==
    /\ files' \in {files, files \ {f}}
    /\ cleanup' \in {cleanup, cleanup \cup {f}}

-----------------------------------------------------------------------------
Init ==
    /\ clock = 0
    /\ doc \in [Request -> {NoDoc} \cup OldDocs]
    /\ files = {} /\ uploaded = {} /\ cleanup = {}
    /\ proc = [p \in Thread |-> Idle]

\* Time passes.  No thread lives through two ticks.
Tick ==
    /\ clock < MaxClock
    /\ \A p \in Thread : ~proc[p].late
    /\ clock' = clock + 1
    /\ proc' = [p \in Thread |-> [proc[p] EXCEPT !.late = (proc[p].pc # "idle")]]
    /\ UNCHANGED <<doc, files, uploaded, cleanup>>

\* The process of a thread is killed: its local variables are gone.
Crash(p) ==
    /\ p \in Killable
    /\ proc[p].pc # "idle"
    /\ Return(p)
    /\ UNCHANGED <<clock, doc, files, uploaded, cleanup>>

-----------------------------------------------------------------------------
(***************************************************************************)
(* The student's calls.                                                    *)
(***************************************************************************)

\* Where a send goes once it has document d and no elapsed cooldown to clear.
SendChecked(r, d) ==
    IF MaySend(d)
    THEN At(IF r \in Hostel THEN "send_upload" ELSE "send_write", r, d)
    ELSE Idle

\* The throttled sweep, then find_one.
SendRead(t, r) ==
    /\ proc[t].pc = "idle"
    /\ doc' \in {doc, Swept}
    /\ proc' = [proc EXCEPT ![t] =
            IF Elapsed(doc'[r]) THEN At("send_clear", r, doc'[r])
                                ELSE SendChecked(r, doc'[r])]
    /\ UNCHANGED <<clock, files, uploaded, cleanup>>

\* The throttled sweep, then find_one on the rejected document.
RetryRead(t, r) ==
    /\ proc[t].pc = "idle"
    /\ doc' \in {doc, Swept}
    /\ proc' = [proc EXCEPT ![t] =
            IF doc'[r].status # "REJECTED" THEN Idle
            ELSE IF Elapsed(doc'[r]) THEN At("retry_clear", r, doc'[r])
            ELSE IF MayRetry(doc'[r]) THEN At("retry_write", r, doc'[r])
            ELSE Idle]
    /\ UNCHANGED <<clock, files, uploaded, cleanup>>

\* Mutant: the update does not ask for the cooldown that was read.
ClearElapsedBlindly(t) ==
    LET p == proc[t] IN
    /\ p.pc \in {"send_clear", "retry_clear"}
    /\ doc' = [doc EXCEPT ![p.req] = Reset(@)]
    /\ Goto(t, IF p.pc = "send_clear" THEN "send_reread" ELSE "retry_reread")
    /\ UNCHANGED <<clock, files, uploaded, cleanup>>

\* _clear_elapsed_cooldown, its update: only if the cooldown is the one read.
ClearElapsed(t) ==
    LET p == proc[t] IN
    /\ p.pc \in {"send_clear", "retry_clear"}
    /\ doc' = IF doc[p.req].cooldown = p.snap.cooldown
              THEN [doc EXCEPT ![p.req] = Reset(@)] ELSE doc
    /\ Goto(t, IF p.pc = "send_clear" THEN "send_reread" ELSE "retry_reread")
    /\ UNCHANGED <<clock, files, uploaded, cleanup>>

\* _clear_elapsed_cooldown, its find_one, and the checks that follow it.
Reread(t) ==
    LET p == proc[t]
        d == doc[p.req]
        next == IF p.pc = "send_reread" THEN SendChecked(p.req, d)
                ELSE IF MayRetry(d) THEN At("retry_write", p.req, d) ELSE Idle
    IN
    /\ p.pc \in {"send_reread", "retry_reread"}
    /\ proc' = [proc EXCEPT ![t] =
            IF next = Idle THEN Idle ELSE [next EXCEPT !.late = p.late]]
    /\ UNCHANGED <<clock, doc, files, uploaded, cleanup>>

\* The upload fails: an error to the student.
UploadFails(t) ==
    /\ proc[t].pc = "send_upload"
    /\ Return(t)
    /\ UNCHANGED <<clock, doc, files, uploaded, cleanup>>

\* The receipt is stored under a fresh public id, or the student has none
\* to send (7.5 % scheme, or no file in the form).
Upload(t) ==
    /\ proc[t].pc = "send_upload"
    /\ \/ /\ Goto(t, "send_write")
          /\ UNCHANGED <<files, uploaded>>
       \/ \E f \in File \ uploaded :
            /\ files' = files \cup {f}
            /\ uploaded' = uploaded \cup {f}
            /\ proc' = [proc EXCEPT ![t].pc = "send_write", ![t].file = f]
    /\ UNCHANGED <<clock, doc, cleanup>>

\* update_one with the versioned filter, or insert_one under the unique
\* index: for an absent document both land only if it is still absent.
SendWrite(t) ==
    LET p == proc[t] IN
    /\ p.pc = "send_write"
    /\ SameVersion(doc[p.req], p.snap)
    /\ doc' = [doc EXCEPT ![p.req] = Sent(@, p.snap, p.file)]
    /\ Return(t)
    /\ UNCHANGED <<clock, files, uploaded, cleanup>>

\* A concurrent call changed the document: nothing is written, and the
\* receipt just uploaded is given up.
SendConflict(t) ==
    LET p == proc[t] IN
    /\ p.pc = "send_write"
    /\ ~SameVersion(doc[p.req], p.snap)
    /\ IF p.file = NoFile THEN Return(t) ELSE Goto(t, "send_discard")
    /\ UNCHANGED <<clock, doc, files, uploaded, cleanup>>

SendDiscard(t) ==
    /\ proc[t].pc = "send_discard"
    /\ DeleteOrQueue(proc[t].file)
    /\ Return(t)
    /\ UNCHANGED <<clock, doc, uploaded>>

\* update_one on the id alone: whatever the document has become, it is
\* NOT_SENT again.
RetryWrite(t) ==
    /\ proc[t].pc = "retry_write"
    /\ doc' = [doc EXCEPT ![proc[t].req].status = "NOT_SENT",
                          ![proc[t].req].created = clock]
    /\ Return(t)
    /\ UNCHANGED <<clock, files, uploaded, cleanup>>

-----------------------------------------------------------------------------
(***************************************************************************)
(* The office's calls.                                                     *)
(***************************************************************************)

\* bulk_approve: the update is filtered on PENDING; the read before it
\* serves the notifications only.
Approve(s, r) ==
    /\ proc[s].pc = "idle"
    /\ doc[r].status = "PENDING"
    /\ doc' = [doc EXCEPT ![r].status = "APPROVED"]
    /\ UNCHANGED <<clock, files, uploaded, cleanup, proc>>

HasReceipt(r, d) == r \in Hostel /\ d.receipt # NoFile

RejectRead(s, r) ==
    /\ proc[s].pc = "idle"
    /\ doc[r].status = "PENDING"
    /\ proc' = [proc EXCEPT ![s] =
            At(IF HasReceipt(r, doc[r]) THEN "reject_delete" ELSE "reject_write",
               r, doc[r])]
    /\ UNCHANGED <<clock, doc, files, uploaded, cleanup>>

\* The receipt goes before the request is updated.
RejectDelete(s) ==
    /\ proc[s].pc = "reject_delete"
    /\ DeleteOrQueue(proc[s].snap.receipt)
    /\ Goto(s, "reject_write")
    /\ UNCHANGED <<clock, doc, uploaded>>

\* update_one filtered on PENDING, with the attempts of the snapshot and the
\* cooldown counted from the time of the read.
RejectWrite(s) ==
    LET p == proc[s] IN
    /\ p.pc = "reject_write"
    /\ doc' = IF doc[p.req].status = "PENDING"
              THEN [doc EXCEPT ![p.req] = Rejected(@, p.snap, ReadTime(s))]
              ELSE doc
    /\ Return(s)
    /\ UNCHANGED <<clock, files, uploaded, cleanup>>

-----------------------------------------------------------------------------
(***************************************************************************)
(* The maintenance cycle.                                                  *)
(***************************************************************************)

\* fast_cooldown_reset(force=True)
Sweep(w) ==
    /\ proc[w].pc = "idle"
    /\ doc' = Swept
    /\ UNCHANGED <<clock, files, uploaded, cleanup, proc>>

ExpireRead(w, r) ==
    /\ proc[w].pc = "idle"
    /\ Unanswered(doc[r])
    /\ proc' = [proc EXCEPT ![w] =
            At(IF HasReceipt(r, doc[r]) THEN "expire_delete" ELSE "expire_write",
               r, doc[r])]
    /\ UNCHANGED <<clock, doc, files, uploaded, cleanup>>

ExpireDelete(w) ==
    /\ proc[w].pc = "expire_delete"
    /\ DeleteOrQueue(proc[w].snap.receipt)
    /\ Goto(w, "expire_write")
    /\ UNCHANGED <<clock, doc, uploaded>>

\* Mutant: the update does not ask for PENDING again.
ExpireWriteBlindly(w) ==
    LET p == proc[w] IN
    /\ p.pc = "expire_write"
    /\ doc' = [doc EXCEPT ![p.req] = Expired(@, p.snap)]
    /\ Return(w)
    /\ UNCHANGED <<clock, files, uploaded, cleanup>>

\* update_one filtered on PENDING, with the attempts of the snapshot.
ExpireWrite(w) ==
    LET p == proc[w] IN
    /\ p.pc = "expire_write"
    /\ doc' = IF doc[p.req].status = "PENDING"
              THEN [doc EXCEPT ![p.req] = Expired(@, p.snap)] ELSE doc
    /\ Return(w)
    /\ UNCHANGED <<clock, files, uploaded, cleanup>>

StillUsed(f) == \E r \in Request : doc[r].receipt = f

\* Mutant: an entry is destroyed without looking for such a request.
CleanCheckBlindly(w, f) ==
    /\ proc[w].pc = "idle"
    /\ f \in cleanup
    /\ proc' = [proc EXCEPT ![w] = [Idle EXCEPT !.pc = "clean_destroy", !.file = f]]
    /\ UNCHANGED <<clock, doc, files, uploaded, cleanup>>

\* process_queue takes an entry and looks for a request that points to it.
CleanCheck(w, f) ==
    /\ proc[w].pc = "idle"
    /\ f \in cleanup
    /\ proc' = [proc EXCEPT ![w] =
            [Idle EXCEPT !.pc = IF StillUsed(f) THEN "clean_drop" ELSE "clean_destroy",
                         !.file = f]]
    /\ UNCHANGED <<clock, doc, files, uploaded, cleanup>>

\* destroy: gone, and the entry may go; or one of its two calls fails and the
\* entry waits for its next try.
CleanDestroy(w) ==
    /\ proc[w].pc = "clean_destroy"
    /\ \/ /\ files' = files \ {proc[w].file}
          /\ Goto(w, "clean_drop")
       \/ /\ files' \in {files, files \ {proc[w].file}}
          /\ Return(w)
    /\ UNCHANGED <<clock, doc, uploaded, cleanup>>

CleanDrop(w) ==
    /\ proc[w].pc = "clean_drop"
    /\ cleanup' = cleanup \ {proc[w].file}
    /\ Return(w)
    /\ UNCHANGED <<clock, doc, files, uploaded>>

-----------------------------------------------------------------------------
\* The rest of a call that has begun.
TabContinues(t) ==
    \/ ClearElapsed(t) \/ Reread(t) \/ Upload(t) \/ UploadFails(t)
    \/ SendWrite(t) \/ SendConflict(t) \/ SendDiscard(t) \/ RetryWrite(t)

StaffContinues(s) == RejectDelete(s) \/ RejectWrite(s)

WorkerContinues(w) ==
    ExpireDelete(w) \/ ExpireWrite(w) \/ CleanDestroy(w) \/ CleanDrop(w)

TabStep(t) ==
    \/ \E r \in Request : SendRead(t, r) \/ RetryRead(t, r)
    \/ TabContinues(t)

StaffStep(s) ==
    \/ \E r \in Request : Approve(s, r) \/ RejectRead(s, r)
    \/ StaffContinues(s)

WorkerStep(w) ==
    \/ Sweep(w)
    \/ \E r \in Request : ExpireRead(w, r)
    \/ \E f \in File : CleanCheck(w, f)
    \/ WorkerContinues(w)

Next ==
    \/ Tick
    \/ \E p \in Thread : Crash(p)
    \/ \E t \in Tab : TabStep(t)
    \/ \E s \in Staff : StaffStep(s)
    \/ \E w \in Worker : WorkerStep(w)

Spec == Init /\ [][Next]_vars

\* A call that has begun goes on; the scheduler runs every stage of the
\* maintenance cycle again and again, and does not die for ever at the same
\* step.  Nobody has to send, answer or retry.
Fairness ==
    /\ WF_vars(Tick)
    /\ \A t \in Tab : WF_vars(TabContinues(t))
    /\ \A s \in Staff : WF_vars(StaffContinues(s))
    /\ \A w \in Worker :
        /\ WF_vars(WorkerContinues(w))
        /\ SF_vars(ExpireDelete(w)) /\ SF_vars(ExpireWrite(w))
        /\ SF_vars(Sweep(w))
        /\ \A r \in Request : SF_vars(ExpireRead(w, r))

FairSpec == Spec /\ Fairness

-----------------------------------------------------------------------------
(***************************************************************************)
(* What holds however many threads run.                                    *)
(***************************************************************************)

TypeOK ==
    /\ clock \in 0..MaxClock
    /\ doc \in [Request -> Doc]
    /\ uploaded \subseteq File
    /\ files \subseteq uploaded
    /\ cleanup \subseteq File \cup {NoFile}
    /\ proc \in [Thread -> Local]

\* A document with a cooldown is that of a student rejected twice, and is
\* neither waiting for the office nor approved by it: no interleaving of
\* sends, retries, decisions and expiries opens a paused request
\* (send_no_due_request's "Cooldown active", reject_request's 24 hours).
PauseClosesRequest ==
    \A r \in Request : doc[r].cooldown # 0 =>
        doc[r].attempts = 2 /\ doc[r].status \in {"NOT_SENT", "REJECTED"}

\* The pause is served to its end: until its expiry has passed nothing
\* shortens it or gives the attempts back, neither a sweep, nor a clear
\* decided on an earlier snapshot, nor a write that comes late.
PauseServed ==
    [][\A r \in Request : Paused(doc[r]) =>
        doc'[r].cooldown = doc[r].cooldown /\ doc'[r].attempts = 2]_vars

\* attempts_used grows by a rejection only: sending, retrying and expiring
\* never use an attempt, even when they write the count of a stale snapshot.
OnlyRejectionUsesAttempt ==
    [][\A r \in Request : doc'[r].attempts > doc[r].attempts =>
        doc[r].status = "PENDING" /\ doc'[r].status = "REJECTED"]_vars

\* What has stood for the life of a call stands.  A call decided on an earlier
\* reading may still take back a request sent meanwhile, or the approval of
\* one (retry_request writes under the id alone, an expiry under PENDING); but
\* an approval of a request sent before that is never taken back, and a
\* waiting one only when the office has left it for PendingTTL.
SettledStands ==
    [][\A r \in Request :
        doc[r].status \in {"PENDING", "APPROVED"} /\ doc'[r].status = "NOT_SENT" =>
            \/ clock <= doc[r].created + 1
            \/ doc[r].status = "PENDING" /\ doc[r].created + PendingTTL <= clock]_vars

\* A receipt some request points to is deleted only by a rejection or an
\* expiry that has read it in that very request: neither the clean-up queue,
\* filled by decisions that never ended, nor a send that lost its race takes a
\* file that is in use (process_queue's safety check, send_hostel_request).
UsedReceiptKept ==
    [][\A f \in files \ files' : \A r \in Request : doc[r].receipt = f =>
        \E p \in Staff \cup Worker :
            /\ proc[p].pc \in {"reject_delete", "expire_delete"}
            /\ proc[p].req = r /\ proc[p].snap.receipt = f]_vars

\* A request the office never answers does not wait for ever.  (Requests
\* whose two days end within the bound on the clock.)
UnansweredEnds ==
    \A r \in Request :
        (doc[r].status = "PENDING" /\ doc[r].created + PendingTTL <= MaxClock)
            ~> (doc[r].status # "PENDING")

\* A paused student gets the attempts back.
PauseEnds ==
    \A r \in Request :
        (doc[r].cooldown # 0 /\ doc[r].cooldown <= MaxClock) ~> (doc[r].cooldown = 0)

-----------------------------------------------------------------------------
(***************************************************************************)
(* What the documentation promises and the program does not keep.          *)
(***************************************************************************)

\* An approval is final: no other handler takes an approved request back.
ApprovedIsFinal ==
    [][\A r \in Request : doc[r].status = "APPROVED" =>
        doc'[r].status = "APPROVED"]_vars

\* A file is never deleted while a request points to it, but for the one that
\* is about to be rejected or has expired: an approved one has its receipt.
ApprovedKeepsReceipt ==
    \A r \in Request : doc[r].status = "APPROVED" =>
        doc[r].receipt \in files \cup {NoFile}

-----------------------------------------------------------------------------
(***************************************************************************)
(* The inductive invariant behind the first group.                         *)
(***************************************************************************)

Clearing  == {"send_clear", "retry_clear"}
Rereading == {"send_reread", "retry_reread"}
Retrying  == {"retry_clear", "retry_reread", "retry_write"}

\* Out of attempts without a pause: only an old document nobody has written.
Untouched(d) == d.attempts = 2 /\ d.cooldown = 0

SpentIsOld ==
    \A r \in Request : Untouched(doc[r]) =>
        doc[r].model = 1 /\ doc[r].status \in {"PENDING", "APPROVED"}

\* What a thread may rely on at each point of its code.
SnapshotHolds(l) ==
    /\ l.late => l.pc # "idle"
    /\ l.pc \in {"send_upload", "send_write"} => l.snap.attempts < 2
    /\ l.pc \in Clearing => Elapsed(l.snap)
    /\ l.pc \in Retrying => ~Untouched(doc[l.req])
    /\ l.pc \in {"expire_delete", "expire_write"} /\ l.snap.model = 2
          => l.snap.attempts < 2

\* A pause that begins while a thread clears an earlier one outlives it.
NewPauseOutlives(l) ==
    l.pc \in Clearing \cup Rereading =>
        LET c == doc[l.req].cooldown IN
        \/ c = 0
        \/ l.pc \in Clearing /\ c = l.snap.cooldown
        \/ c >= clock + (IF l.late THEN 1 ELSE 2)

InductiveInvariant ==
    /\ TypeOK /\ PauseClosesRequest /\ SpentIsOld
    /\ \A p \in Thread : SnapshotHolds(proc[p]) /\ NewPauseOutlives(proc[p])

-----------------------------------------------------------------------------
\* The pause as the documentation tells it: every behaviour of the threads is
\* one of PauseContract, a request being open while PENDING or APPROVED.
Contract == INSTANCE PauseContract WITH
    open  <- [r \in Request |-> doc[r].status \in {"PENDING", "APPROVED"}],
    until <- [r \in Request |-> doc[r].cooldown]

ImplementsContract == Contract!Spec
=============================================================================
