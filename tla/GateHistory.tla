---------------------------- MODULE GateHistory ----------------------------
(***************************************************************************)
(* Gate with a history: the codes mailed and stored in the hour that       *)
(* counts them.  password_resets has a number of its own for that, sends,  *)
(* which each request reads before its mail and writes back after it.      *)
(***************************************************************************)
EXTENDS Gate, FiniteSets

VARIABLE codes

countedVars == <<vars, codes>>

\* Nobody is served more codes than this by a limit of MaxSends.
Limit == Cardinality(Browser) * MaxSends

CountedInit == Init /\ codes = 0

\* A code is stored when a request ends in "store"; the hour ends when sends
\* begins anew.
Stored == \E b \in Browser : At(b, "store") /\ ~At(b, "store")'
HourOver == reset.sends > 0 /\ reset'.sends = 0

CountedNext ==
    /\ Next
    /\ codes' = IF HourOver THEN 0
                ELSE IF Stored /\ codes <= Limit THEN codes + 1 ELSE codes

FairCountedSpec ==
    /\ CountedInit /\ [][CountedNext]_countedVars
    /\ WF_countedVars(Maintenance /\ UNCHANGED cast /\ UNCHANGED codes)

-----------------------------------------------------------------------------
\* Requests for a code that run side by side all pass the limit and count as
\* one, so a student may be mailed more codes in an hour than MAX_SENDS_PER_HOUR,
\* but not without end: as many times as many as there are browsers.  A request
\* that comes late with an old count takes the count back by nothing that the
\* minute between two codes does not make good (request_code).
CodesLimited == codes <= Limit
=============================================================================
