--------------------------- MODULE NoDueHistory ---------------------------
(***************************************************************************)
(* NoDueRequest with a history: how often each request has been rejected   *)
(* since its last pause.  attempts_used is meant to be that number         *)
(* (ATTEMPTS_MODEL); the history says what it really is.                   *)
(***************************************************************************)
EXTENDS NoDueRequest

VARIABLE rejections   \* rejections[r]: 0, 1, or 2 for two and more

countedVars == <<vars, rejections>>

\* A document of the old model counted its sends: each was answered by a
\* rejection but the last one, unless that one is rejected too.
RejectedBefore(d) ==
    IF d.status = "REJECTED" \/ d.attempts = 0 THEN d.attempts ELSE d.attempts - 1

OfficeRejects(d, e) == d.status = "PENDING" /\ e.status = "REJECTED"
PauseIsOver(d, e)   == d.cooldown # 0 /\ e.cooldown = 0

Count(n, d, e) ==
    IF PauseIsOver(d, e) THEN 0
    ELSE IF OfficeRejects(d, e) /\ n < 2 THEN n + 1 ELSE n

CountedInit == Init /\ rejections = [r \in Request |-> RejectedBefore(doc[r])]

CountedNext ==
    /\ Next
    /\ rejections' = [r \in Request |-> Count(rejections[r], doc[r], doc'[r])]

CountedSpec == CountedInit /\ [][CountedNext]_countedVars

FairCountedSpec == CountedSpec /\ Fairness

-----------------------------------------------------------------------------
\* A student is paused only after the office has really rejected the request
\* twice since the last pause, and never for having sent it: whatever stale
\* counts rejections, expiries and sends write over one another, and whichever
\* rule for the documents of the old model they follow (reject_request,
\* _expire_stale_pending).
PauseEarned ==
    \A r \in Request : doc[r].cooldown # 0 => rejections[r] = 2
=============================================================================
