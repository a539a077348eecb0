---------------------------- MODULE GateProofs ----------------------------
(***************************************************************************)
(* The gate for any number of browsers, passwords, failures, tries and     *)
(* codes.  Types holds the shapes; three invariants carry the properties:  *)
(* Opened, what a sign-in or a session knows about the account it was      *)
(* opened for; Counted, that the count of wrong passwords is behind what   *)
(* was counted; Limited, that a number read from password_resets is still  *)
(* one that may be written back.                                           *)
(***************************************************************************)
EXTENDS Gate, TLAPS

\* TypeOK without the limits.
Types ==
    /\ account \in Account
    /\ session \in [Browser -> Session]
    /\ request \in [Browser -> Request]
    /\ attempts \in Attempts
    /\ reset \in Reset
    /\ window \in {"shut", "open", "past"}
    /\ upkeep \in {"idle", "close"}
    /\ cast \in Casts
    /\ wrong \in Nat

-----------------------------------------------------------------------------
\* What a step writes into request.
LEMMA IdleType == Idle \in Request
  BY DEF Idle, Request, PCs, Guess

LEMMA GotoType ==
  ASSUME request \in [Browser -> Request], NEW b \in Browser, NEW pc, Goto(b, pc), pc \in PCs
  PROVE  request' \in [Browser -> Request]
<1>1. [request[b] EXCEPT !.pc = pc] \in Request BY DEF Request
<1>2. QED BY <1>1 DEF Goto

LEMMA EndType ==
  ASSUME request \in [Browser -> Request], NEW b \in Browser, End(b)
  PROVE  request' \in [Browser -> Request]
  BY IdleType DEF End

LEMMA PCType ==
  /\ "idle" \in PCs /\ "read" \in PCs /\ "clear" \in PCs /\ "open" \in PCs
  /\ "wrong" \in PCs /\ "fresh" \in PCs /\ "count" \in PCs /\ "lock" \in PCs
  /\ "setup" \in PCs /\ "ask" \in PCs /\ "mail" \in PCs /\ "store" \in PCs
  /\ "cancel" \in PCs /\ "miss" \in PCs /\ "save" \in PCs /\ "consume" \in PCs
  /\ "unlock" \in PCs /\ "access" \in PCs /\ "close" \in PCs
  BY DEF PCs

\* Every step keeps the shapes.
LEMMA TypesNext ==
  ASSUME Types, [Next]_vars
  PROVE  Types'
<1> USE GateAssumption DEF Types, Account, Session, NoSession, Attempts, NoAttempts, Reset, NoReset, At
<1>1. ASSUME NEW b \in Browser, StartSignIn(b), UNCHANGED cast PROVE Types'
  BY <1>1, GotoType, EndType, PCType DEF StartSignIn
<1>2. ASSUME NEW b \in Browser, ReadAccount(b), UNCHANGED cast PROVE Types'
  <2>1. PICK p \in Guess : ReadAccount(b)!(p) BY <1>2 DEF ReadAccount
  <2>2. account.version \in Nat /\ NoPassword \in Guess BY DEF Guess
  <2>3. \E r \in Request : request' = [request EXCEPT ![b] = r]
    BY <2>1, <2>2 DEF ReadAccount, Idle, Request, PCs
  <2>4. request' \in [Browser -> Request] BY <2>3
  <2>5. QED BY <1>2, <2>4 DEF ReadAccount
<1>3. ASSUME NEW b \in Browser, ClearFailures(b), UNCHANGED cast PROVE Types'
  BY <1>3, GotoType, EndType, PCType DEF ClearFailures, Clear
<1>4. ASSUME NEW b \in Browser, OpenSession(b), UNCHANGED cast PROVE Types'
  <2>1. request[b] \in Request /\ session[b] \in Session OBVIOUS
  <2>2. \E s \in Session : session' = [session EXCEPT ![b] = s]
    BY <1>4, <2>1 DEF OpenSession, Request, Guess
  <2>3. request' \in [Browser -> Request] BY <1>4, EndType DEF OpenSession
  <2>4. session' \in [Browser -> Session] BY <2>2
  <2>5. QED BY <1>4, <2>3, <2>4 DEF OpenSession
<1>5. ASSUME NEW b \in Browser, ReadFailures(b), UNCHANGED cast PROVE Types'
  BY <1>5, GotoType, EndType, PCType DEF ReadFailures
<1>6. ASSUME NEW b \in Browser, BeginCount(b), UNCHANGED cast PROVE Types'
  BY <1>6, GotoType, EndType, PCType DEF BeginCount, OneMore
<1>7. ASSUME NEW b \in Browser, AddFailure(b), UNCHANGED cast PROVE Types'
  BY <1>7, GotoType, EndType, PCType DEF AddFailure, OneMore
<1>8. ASSUME NEW b \in Browser, LockAccount(b), UNCHANGED cast PROVE Types'
  BY <1>8, GotoType, EndType, PCType DEF LockAccount
<1>9. ASSUME NEW b \in Browser, ReadProfile(b), UNCHANGED cast PROVE Types'
  <2>1. CASE account.exists /\ ~Complete
    <3>1. \E r \in Request : request' = [request EXCEPT ![b] = r]
      <4>1. [Idle EXCEPT !.pc = "setup", !.version = account.version] \in Request
        <5>1. account.version \in Nat /\ Idle \in Request BY IdleType
        <5>2. QED BY <5>1, PCType DEF Request
      <4>2. QED BY <1>9, <2>1, <4>1 DEF ReadProfile
    <3>2. request' \in [Browser -> Request] BY <3>1
    <3>3. QED BY <1>9, <2>1, <3>2 DEF ReadProfile
  <2>2. CASE ~(account.exists /\ ~Complete)
    <3>1. session[b] \in Session OBVIOUS
    <3>2. \E s \in Session : session' = [session EXCEPT ![b] = s]
      BY <1>9, <2>2, <3>1 DEF ReadProfile
    <3>3. session' \in [Browser -> Session] BY <3>2
    <3>4. QED BY <1>9, <2>2, <3>3 DEF ReadProfile
  <2>3. QED BY <2>1, <2>2
<1>10. ASSUME NEW b \in Browser, SaveProfile(b), UNCHANGED cast PROVE Types'
  <2>1. PICK p \in Password : SaveProfile(b)!(p) BY <1>10 DEF SaveProfile
  <2>2. CASE account.exists /\ ~Complete
    <3>1. request[b] \in Request OBVIOUS
    <3>2. [request[b] EXCEPT !.pc = "open", !.proof = p] \in Request
      BY <3>1 DEF Request, PCs, Guess
    <3>3. request' = [request EXCEPT ![b] = [request[b] EXCEPT !.pc = "open", !.proof = p]]
      BY <2>1, <2>2
    <3>4. request' \in [Browser -> Request] BY <3>2, <3>3
    <3>5. account' \in Account BY <2>1, <2>2
    <3>6. QED BY <2>1, <2>2, <1>10, <3>4, <3>5
  <2>3. CASE ~(account.exists /\ ~Complete)
    <3>1. session' \in [Browser -> Session] BY <2>1, <2>3
    <3>2. request' \in [Browser -> Request] BY <2>1, <2>3, EndType
    <3>3. QED BY <2>1, <2>3, <1>10, <3>1, <3>2
  <2>4. QED BY <2>2, <2>3
<1>11. ASSUME NEW b \in Browser, Forgot(b), UNCHANGED cast PROVE Types'
  BY <1>11, GotoType, EndType, PCType DEF Forgot
<1>12. ASSUME NEW b \in Browser, RequestCode(b), UNCHANGED cast PROVE Types'
  <2>1. session' \in [Browser -> Session]
    <3>0. session[b] \in Session OBVIOUS
    <3>1. [session[b] EXCEPT !.resetting = @ \/ reset.wait] \in Session BY <3>0
    <3>2. QED BY <1>12, <3>1 DEF RequestCode
  <2>2. request' \in [Browser -> Request]
    <3>1. CASE reset.wait \/ reset.sends >= MaxSends BY <1>12, <3>1, EndType DEF RequestCode
    <3>2. CASE ~(reset.wait \/ reset.sends >= MaxSends)
      <4>0. request[b] \in Request OBVIOUS
      <4>1. [request[b] EXCEPT !.pc = "mail", !.n = reset.sends] \in Request BY <4>0 DEF Request, PCs
      <4>2. request' = [request EXCEPT ![b] = [request[b] EXCEPT !.pc = "mail", !.n = reset.sends]]
        BY <1>12, <3>2 DEF RequestCode
      <4>3. QED BY <4>1, <4>2
    <3>3. QED BY <3>1, <3>2
  <2>3. QED BY <1>12, <2>1, <2>2 DEF RequestCode
<1>13. ASSUME NEW b \in Browser, Mail(b), UNCHANGED cast PROVE Types'
  BY <1>13, GotoType, EndType, PCType DEF Mail
<1>14. ASSUME NEW b \in Browser, StoreCode(b), UNCHANGED cast PROVE Types'
  <2>1. session' \in [Browser -> Session]
    <3>0. session[b] \in Session OBVIOUS
    <3>1. [session[b] EXCEPT !.resetting = TRUE] \in Session BY <3>0
    <3>2. QED BY <1>14, <3>1 DEF StoreCode
  <2>2. reset' \in Reset
    <3>1. request[b].n \in Nat BY DEF Request
    <3>2. QED BY <1>14, <3>1 DEF StoreCode
  <2>3. request' \in [Browser -> Request] BY <1>14, EndType DEF StoreCode
  <2>4. QED BY <1>14, <2>1, <2>2, <2>3 DEF StoreCode
<1>15. ASSUME NEW b \in Browser, ForgetReset(b), UNCHANGED cast PROVE Types'
  <2>1. session' \in [Browser -> Session]
    <3>0. session[b] \in Session OBVIOUS
    <3>1. [session[b] EXCEPT !.resetting = FALSE] \in Session BY <3>0
    <3>2. QED BY <1>15, <3>1 DEF ForgetReset
  <2>2. QED BY <1>15, <2>1 DEF ForgetReset
<1>16. ASSUME NEW b \in Browser, CheckCode(b), UNCHANGED cast PROVE Types'
  <2>0. PICK right \in BOOLEAN : CheckCode(b)!(right) BY <1>16 DEF CheckCode
  <2>1. \E r \in Request : request' = [request EXCEPT ![b] = r]
    <3>1. reset.tries + 1 \in Nat OBVIOUS
    <3>2. CASE reset.expired BY <2>0, <3>2 DEF Idle, Request, PCs, Guess
    <3>3. CASE ~reset.expired /\ right BY <2>0, <3>3 DEF Idle, Request, PCs, Guess
    <3>4. CASE ~reset.expired /\ ~right BY <2>0, <3>1, <3>4 DEF Idle, Request, PCs, Guess
    <3>5. QED BY <3>2, <3>3, <3>4
  <2>2. request' \in [Browser -> Request] BY <2>1
  <2>3. QED BY <1>16, <2>2 DEF CheckCode
<1>17. ASSUME NEW b \in Browser, CancelCode(b), UNCHANGED cast PROVE Types'
  BY <1>17, GotoType, EndType, PCType DEF CancelCode
<1>18. ASSUME NEW b \in Browser, CountMiss(b), UNCHANGED cast PROVE Types'
  <2>1. request[b].n \in Nat BY DEF Request
  <2>2. reset' \in Reset BY <1>18, <2>1 DEF CountMiss
  <2>3. request' \in [Browser -> Request] BY <1>18, EndType DEF CountMiss
  <2>4. QED BY <1>18, <2>2, <2>3 DEF CountMiss
<1>19. ASSUME NEW b \in Browser, SavePassword(b), UNCHANGED cast PROVE Types'
  <2>0. PICK p \in Password : SavePassword(b)!(p) BY <1>19 DEF SavePassword
  <2>1. account' \in Account
    <3>1. CASE account.exists
      <4>1. account' = [account EXCEPT !.password = p, !.version = account.version + 1]
        BY <2>0, <3>1
      <4>2. account.version + 1 \in Nat /\ p \in Password \cup {NoPassword} OBVIOUS
      <4>3. QED BY <4>1, <4>2
    <3>2. CASE ~account.exists BY <2>0, <3>2
    <3>3. QED BY <3>1, <3>2
  <2>2. request' \in [Browser -> Request] BY <1>19, GotoType, PCType DEF SavePassword
  <2>3. QED BY <1>19, <2>1, <2>2 DEF SavePassword
<1>20. ASSUME NEW b \in Browser, Consume(b), UNCHANGED cast PROVE Types'
  BY <1>20, GotoType, EndType, PCType DEF Consume
<1>21. ASSUME NEW b \in Browser, Unlock(b), UNCHANGED cast PROVE Types'
  <2>1. session' \in [Browser -> Session]
    <3>0. session[b] \in Session OBVIOUS
    <3>1. [session[b] EXCEPT !.resetting = FALSE] \in Session BY <3>0
    <3>2. QED BY <1>21, <3>1 DEF Unlock
  <2>2. request' \in [Browser -> Request] BY <1>21, EndType DEF Unlock
  <2>3. QED BY <1>21, <2>1, <2>2 DEF Unlock, Clear
<1>22. ASSUME NEW b \in Browser, Serve(b), UNCHANGED cast PROVE Types'
  BY <1>22, GotoType, EndType, PCType DEF Serve
<1>23. ASSUME NEW b \in Browser, Flush(b), UNCHANGED cast PROVE Types'
  BY <1>23, GotoType, EndType, PCType DEF Flush
<1>24. ASSUME NEW b \in Browser, SignOut(b), UNCHANGED cast PROVE Types'
  BY <1>24, GotoType, EndType, PCType DEF SignOut
<1>25. ASSUME NEW b \in Browser, AskAccess(b), UNCHANGED cast PROVE Types'
  BY <1>25, GotoType, EndType, PCType DEF AskAccess
<1>26. ASSUME NEW b \in Browser, CloseAccess(b), UNCHANGED cast PROVE Types'
  BY <1>26, GotoType, EndType, PCType DEF CloseAccess
<1>27. CASE ToggleAccess /\ UNCHANGED cast
  BY <1>27 DEF ToggleAccess
<1>28. CASE Leave /\ UNCHANGED cast
  BY <1>28 DEF Leave
<1>29. CASE MaintenanceReads /\ UNCHANGED cast
  BY <1>29 DEF MaintenanceReads
<1>30. CASE MaintenanceCloses /\ UNCHANGED cast
  BY <1>30 DEF MaintenanceCloses
<1>31. CASE WindowEnds /\ UNCHANGED cast
  BY <1>31 DEF WindowEnds
<1>32. CASE CountEnds /\ UNCHANGED cast
  BY <1>32 DEF CountEnds
<1>33. CASE CodeEnds /\ UNCHANGED cast
  BY <1>33 DEF CodeEnds
<1>34. CASE MinuteEnds /\ UNCHANGED cast
  BY <1>34 DEF MinuteEnds
<1>35. CASE HourEnds /\ UNCHANGED cast
  <2>1. CASE reset' = [reset EXCEPT !.sends = 0] BY <1>35, <2>1 DEF HourEnds
  <2>2. CASE reset' = NoReset BY <1>35, <2>2 DEF HourEnds
  <2>3. QED BY <1>35, <2>1, <2>2 DEF HourEnds
<1>36. CASE UNCHANGED vars
  BY <1>36 DEF vars
<1>37. QED
  BY <1>1, <1>2, <1>3, <1>4, <1>5, <1>6, <1>7, <1>8, <1>9, <1>10, <1>11, <1>12, <1>13, <1>14, <1>15, <1>16, <1>17, <1>18,
     <1>19, <1>20, <1>21, <1>22, <1>23, <1>24, <1>25, <1>26, <1>27, <1>28, <1>29, <1>30, <1>31, <1>32, <1>33, <1>34, <1>35, <1>36
     DEF Next, SignIn, Failure, Setup, ResetPassword, Page, Maintenance, Time

-----------------------------------------------------------------------------
\* A version that is still the account's was read together with its password.
Known(proof, version) ==
    /\ Complete
    /\ version \in Nat /\ version <= account.version
    /\ version = account.version => proof = account.password

\* Sessions and the sign-ins on their way to one.
Opened ==
    \A b \in Browser :
        /\ session[b].role = "student" => Known(session[b].proof, session[b].version)
        /\ request[b].pc \in {"clear", "open"} /\ ~request[b].first =>
               Known(request[b].proof, request[b].version)
        /\ request[b].pc = "setup" => request[b].version <= account.version /\ ~request[b].first

\* While a count is open it is not ahead of the wrong passwords; whoever is about
\* to lock has seen enough of them.
Counted ==
    /\ attempts.on /\ ~attempts.over /\ wrong < MaxFailures => attempts.count <= wrong
    /\ LockEarned
    /\ \A b \in Browser : request[b].pc = "count" => ~attempts.over
    /\ \A b \in Browser : request[b].pc = "lock" => wrong >= MaxFailures

\* Numbers read from the document stay below their limits until they are used.
Limited ==
    /\ reset.sends <= MaxSends /\ reset.tries <= MaxAttempts
    /\ reset.code => reset.tries < MaxAttempts
    /\ \A b \in Browser :
        /\ request[b].pc \in {"mail", "store"} => request[b].n < MaxSends
        /\ request[b].pc = "miss" => request[b].n <= MaxAttempts

\* A password set by a reset leaves every version read before it behind.
LEMMA OpenedNext ==
  ASSUME Types, Opened, [Next]_vars
  PROVE  Opened'
<1> USE GateAssumption DEF Types, Account, Session, NoSession, Request, Idle, PCs, Guess, At, Complete, Opened, Known
<1>1. ASSUME NEW b \in Browser, StartSignIn(b), UNCHANGED cast PROVE Opened'
  BY <1>1 DEF StartSignIn, Goto
<1>2. ASSUME NEW b \in Browser, ReadAccount(b), UNCHANGED cast PROVE Opened'
  BY <1>2 DEF ReadAccount, Goto, End
<1>3. ASSUME NEW b \in Browser, ClearFailures(b), UNCHANGED cast PROVE Opened'
  BY <1>3 DEF ClearFailures, Clear, Goto
<1>4. ASSUME NEW b \in Browser, OpenSession(b), UNCHANGED cast PROVE Opened'
  BY <1>4 DEF OpenSession, Goto, End
<1>5. ASSUME NEW b \in Browser, ReadFailures(b), UNCHANGED cast PROVE Opened'
  BY <1>5 DEF ReadFailures, Goto
<1>6. ASSUME NEW b \in Browser, BeginCount(b), UNCHANGED cast PROVE Opened'
  BY <1>6 DEF BeginCount, OneMore, End
<1>7. ASSUME NEW b \in Browser, AddFailure(b), UNCHANGED cast PROVE Opened'
  BY <1>7 DEF AddFailure, OneMore, Goto
<1>8. ASSUME NEW b \in Browser, LockAccount(b), UNCHANGED cast PROVE Opened'
  BY <1>8 DEF LockAccount, Goto, End
<1>9. ASSUME NEW b \in Browser, ReadProfile(b), UNCHANGED cast PROVE Opened'
  <2>1. CASE account.exists /\ ~Complete
    <3>1. request' = [request EXCEPT ![b] = [Idle EXCEPT !.pc = "setup", !.version = account.version]]
      BY <1>9, <2>1 DEF ReadProfile
    <3>2. UNCHANGED <<account, session, attempts, reset, wrong>> BY <1>9, <2>1 DEF ReadProfile
    <3>3. QED BY <2>1, <3>1, <3>2
  <2>2. CASE ~(account.exists /\ ~Complete)
    <3>1. CASE account.exists BY <1>9, <2>2, <3>1 DEF ReadProfile
    <3>2. CASE ~account.exists BY <1>9, <2>2, <3>2 DEF ReadProfile
    <3>3. QED BY <3>1, <3>2
  <2>3. QED BY <2>1, <2>2
<1>10. ASSUME NEW b \in Browser, SaveProfile(b), UNCHANGED cast PROVE Opened'
  <2>1. PICK p \in Password : SaveProfile(b)!(p) BY <1>10 DEF SaveProfile
  <2>2. CASE account.exists /\ ~Complete
    <3>1. account' = [account EXCEPT !.password = p] /\ UNCHANGED session BY <2>1, <2>2
    <3>2. request' = [request EXCEPT ![b] = [request[b] EXCEPT !.pc = "open", !.proof = p]]
      BY <2>1, <2>2
    <3>3. UNCHANGED <<attempts, reset, wrong>> BY <2>1
    <3>4. request[b].pc = "setup" BY <2>1
    <3>5. QED BY <2>2, <3>1, <3>2, <3>3, <3>4
  <2>3. CASE ~(account.exists /\ ~Complete)
    <3>1. session' = [session EXCEPT ![b].role = "none"] /\ UNCHANGED account BY <2>1, <2>3
    <3>2. request' = [request EXCEPT ![b] = Idle] BY <2>1, <2>3 DEF End
    <3>3. UNCHANGED <<attempts, reset, wrong>> BY <2>1
    <3>4. QED BY <3>1, <3>2, <3>3
  <2>4. QED BY <2>2, <2>3
<1>11. ASSUME NEW b \in Browser, Forgot(b), UNCHANGED cast PROVE Opened'
  BY <1>11 DEF Forgot, Goto
<1>12. ASSUME NEW b \in Browser, RequestCode(b), UNCHANGED cast PROVE Opened'
  <2>1. CASE reset.wait \/ reset.sends >= MaxSends
    <3>1. request' = [request EXCEPT ![b] = Idle] BY <1>12, <2>1 DEF RequestCode, End
    <3>2. QED BY <1>12, <3>1 DEF RequestCode
  <2>2. CASE ~(reset.wait \/ reset.sends >= MaxSends)
    <3>1. request' = [request EXCEPT ![b] = [request[b] EXCEPT !.pc = "mail", !.n = reset.sends]]
      BY <1>12, <2>2 DEF RequestCode
    <3>2. QED BY <1>12, <2>2, <3>1 DEF RequestCode
  <2>3. QED BY <2>1, <2>2
<1>13. ASSUME NEW b \in Browser, Mail(b), UNCHANGED cast PROVE Opened'
  <2>1. CASE Goto(b, "store") BY <1>13, <2>1 DEF Mail, Goto
  <2>2. CASE End(b) BY <1>13, <2>2 DEF Mail, End
  <2>3. QED BY <1>13, <2>1, <2>2 DEF Mail
<1>14. ASSUME NEW b \in Browser, StoreCode(b), UNCHANGED cast PROVE Opened'
  BY <1>14 DEF StoreCode, Goto, End
<1>15. ASSUME NEW b \in Browser, ForgetReset(b), UNCHANGED cast PROVE Opened'
  BY <1>15 DEF ForgetReset, Goto, End
<1>16. ASSUME NEW b \in Browser, CheckCode(b), UNCHANGED cast PROVE Opened'
  BY <1>16 DEF CheckCode, Goto, End
<1>17. ASSUME NEW b \in Browser, CancelCode(b), UNCHANGED cast PROVE Opened'
  BY <1>17 DEF CancelCode, Goto, End
<1>18. ASSUME NEW b \in Browser, CountMiss(b), UNCHANGED cast PROVE Opened'
  BY <1>18 DEF CountMiss, Goto, End
<1>19. ASSUME NEW b \in Browser, SavePassword(b), UNCHANGED cast PROVE Opened'
  BY <1>19 DEF SavePassword, Goto, End
<1>20. ASSUME NEW b \in Browser, Consume(b), UNCHANGED cast PROVE Opened'
  BY <1>20 DEF Consume, Goto, End
<1>21. ASSUME NEW b \in Browser, Unlock(b), UNCHANGED cast PROVE Opened'
  BY <1>21 DEF Unlock, Clear, End
<1>22. ASSUME NEW b \in Browser, Serve(b), UNCHANGED cast PROVE Opened'
  BY <1>22 DEF Serve, Goto, End
<1>23. ASSUME NEW b \in Browser, Flush(b), UNCHANGED cast PROVE Opened'
  BY <1>23 DEF Flush, Goto, End
<1>24. ASSUME NEW b \in Browser, SignOut(b), UNCHANGED cast PROVE Opened'
  BY <1>24 DEF SignOut, Goto, End
<1>25. ASSUME NEW b \in Browser, AskAccess(b), UNCHANGED cast PROVE Opened'
  BY <1>25 DEF AskAccess, Goto, End
<1>26. ASSUME NEW b \in Browser, CloseAccess(b), UNCHANGED cast PROVE Opened'
  BY <1>26 DEF CloseAccess, Goto, End
<1>27. CASE ToggleAccess /\ UNCHANGED cast
  BY <1>27 DEF ToggleAccess
<1>28. CASE Leave /\ UNCHANGED cast
  BY <1>28 DEF Leave
<1>29. CASE MaintenanceReads /\ UNCHANGED cast
  BY <1>29 DEF MaintenanceReads
<1>30. CASE MaintenanceCloses /\ UNCHANGED cast
  BY <1>30 DEF MaintenanceCloses
<1>31. CASE WindowEnds /\ UNCHANGED cast
  BY <1>31 DEF WindowEnds
<1>32. CASE CountEnds /\ UNCHANGED cast
  BY <1>32 DEF CountEnds
<1>33. CASE CodeEnds /\ UNCHANGED cast
  BY <1>33 DEF CodeEnds
<1>34. CASE MinuteEnds /\ UNCHANGED cast
  BY <1>34 DEF MinuteEnds
<1>35. CASE HourEnds /\ UNCHANGED cast
  BY <1>35 DEF HourEnds
<1>36. CASE UNCHANGED vars
  BY <1>36 DEF vars
<1>37. QED
  BY <1>1, <1>2, <1>3, <1>4, <1>5, <1>6, <1>7, <1>8, <1>9, <1>10, <1>11, <1>12, <1>13, <1>14, <1>15, <1>16, <1>17, <1>18,
     <1>19, <1>20, <1>21, <1>22, <1>23, <1>24, <1>25, <1>26, <1>27, <1>28, <1>29, <1>30, <1>31, <1>32, <1>33, <1>34, <1>35, <1>36
     DEF Next, SignIn, Failure, Setup, ResetPassword, Page, Maintenance, Time

\* A count ends only while nobody is counting.
LEMMA CountedNext ==
  ASSUME Types, Counted, [Next]_vars
  PROVE  Counted'
<1> USE GateAssumption DEF Types, Attempts, NoAttempts, Request, Idle, PCs, At, NobodyAt, NobodyCounts, Counted, LockEarned
<1>1. ASSUME NEW b \in Browser, StartSignIn(b), UNCHANGED cast PROVE Counted'
  BY <1>1 DEF StartSignIn, Goto
<1>2. ASSUME NEW b \in Browser, ReadAccount(b), UNCHANGED cast PROVE Counted'
  BY <1>2 DEF ReadAccount, Goto, End
<1>3. ASSUME NEW b \in Browser, ClearFailures(b), UNCHANGED cast PROVE Counted'
  BY <1>3 DEF ClearFailures, Clear, Goto
<1>4. ASSUME NEW b \in Browser, OpenSession(b), UNCHANGED cast PROVE Counted'
  BY <1>4 DEF OpenSession, Goto, End
<1>5. ASSUME NEW b \in Browser, ReadFailures(b), UNCHANGED cast PROVE Counted'
  BY <1>5 DEF ReadFailures, Goto
<1>6. ASSUME NEW b \in Browser, BeginCount(b), UNCHANGED cast PROVE Counted'
  BY <1>6 DEF BeginCount, OneMore, End
<1>7. ASSUME NEW b \in Browser, AddFailure(b), UNCHANGED cast PROVE Counted'
  BY <1>7 DEF AddFailure, OneMore, Goto
<1>8. ASSUME NEW b \in Browser, LockAccount(b), UNCHANGED cast PROVE Counted'
  BY <1>8 DEF LockAccount, Goto, End
<1>9. ASSUME NEW b \in Browser, ReadProfile(b), UNCHANGED cast PROVE Counted'
  <2>1. CASE account.exists /\ ~Complete
    <3>1. request' = [request EXCEPT ![b] = [Idle EXCEPT !.pc = "setup", !.version = account.version]]
      BY <1>9, <2>1 DEF ReadProfile
    <3>2. UNCHANGED <<account, session, attempts, reset, wrong>> BY <1>9, <2>1 DEF ReadProfile
    <3>3. QED BY <2>1, <3>1, <3>2
  <2>2. CASE ~(account.exists /\ ~Complete)
    <3>1. CASE account.exists BY <1>9, <2>2, <3>1 DEF ReadProfile
    <3>2. CASE ~account.exists BY <1>9, <2>2, <3>2 DEF ReadProfile
    <3>3. QED BY <3>1, <3>2
  <2>3. QED BY <2>1, <2>2
<1>10. ASSUME NEW b \in Browser, SaveProfile(b), UNCHANGED cast PROVE Counted'
  <2>1. PICK p \in Password : SaveProfile(b)!(p) BY <1>10 DEF SaveProfile
  <2>2. CASE account.exists /\ ~Complete
    <3>1. account' = [account EXCEPT !.password = p] /\ UNCHANGED session BY <2>1, <2>2
    <3>2. request' = [request EXCEPT ![b] = [request[b] EXCEPT !.pc = "open", !.proof = p]]
      BY <2>1, <2>2
    <3>3. UNCHANGED <<attempts, reset, wrong>> BY <2>1
    <3>4. request[b].pc = "setup" BY <2>1
    <3>5. QED BY <2>2, <3>1, <3>2, <3>3, <3>4
  <2>3. CASE ~(account.exists /\ ~Complete)
    <3>1. session' = [session EXCEPT ![b].role = "none"] /\ UNCHANGED account BY <2>1, <2>3
    <3>2. request' = [request EXCEPT ![b] = Idle] BY <2>1, <2>3 DEF End
    <3>3. UNCHANGED <<attempts, reset, wrong>> BY <2>1
    <3>4. QED BY <3>1, <3>2, <3>3
  <2>4. QED BY <2>2, <2>3
<1>11. ASSUME NEW b \in Browser, Forgot(b), UNCHANGED cast PROVE Counted'
  BY <1>11 DEF Forgot, Goto
<1>12. ASSUME NEW b \in Browser, RequestCode(b), UNCHANGED cast PROVE Counted'
  <2>1. CASE reset.wait \/ reset.sends >= MaxSends
    <3>1. request' = [request EXCEPT ![b] = Idle] BY <1>12, <2>1 DEF RequestCode, End
    <3>2. QED BY <1>12, <3>1 DEF RequestCode
  <2>2. CASE ~(reset.wait \/ reset.sends >= MaxSends)
    <3>1. request' = [request EXCEPT ![b] = [request[b] EXCEPT !.pc = "mail", !.n = reset.sends]]
      BY <1>12, <2>2 DEF RequestCode
    <3>2. QED BY <1>12, <2>2, <3>1 DEF RequestCode
  <2>3. QED BY <2>1, <2>2
<1>13. ASSUME NEW b \in Browser, Mail(b), UNCHANGED cast PROVE Counted'
  <2>1. CASE Goto(b, "store") BY <1>13, <2>1 DEF Mail, Goto
  <2>2. CASE End(b) BY <1>13, <2>2 DEF Mail, End
  <2>3. QED BY <1>13, <2>1, <2>2 DEF Mail
<1>14. ASSUME NEW b \in Browser, StoreCode(b), UNCHANGED cast PROVE Counted'
  BY <1>14 DEF StoreCode, Goto, End
<1>15. ASSUME NEW b \in Browser, ForgetReset(b), UNCHANGED cast PROVE Counted'
  BY <1>15 DEF ForgetReset, Goto, End
<1>16. ASSUME NEW b \in Browser, CheckCode(b), UNCHANGED cast PROVE Counted'
  BY <1>16 DEF CheckCode, Goto, End
<1>17. ASSUME NEW b \in Browser, CancelCode(b), UNCHANGED cast PROVE Counted'
  BY <1>17 DEF CancelCode, Goto, End
<1>18. ASSUME NEW b \in Browser, CountMiss(b), UNCHANGED cast PROVE Counted'
  BY <1>18 DEF CountMiss, Goto, End
<1>19. ASSUME NEW b \in Browser, SavePassword(b), UNCHANGED cast PROVE Counted'
  BY <1>19 DEF SavePassword, Goto, End
<1>20. ASSUME NEW b \in Browser, Consume(b), UNCHANGED cast PROVE Counted'
  BY <1>20 DEF Consume, Goto, End
<1>21. ASSUME NEW b \in Browser, Unlock(b), UNCHANGED cast PROVE Counted'
  BY <1>21 DEF Unlock, Clear, End
<1>22. ASSUME NEW b \in Browser, Serve(b), UNCHANGED cast PROVE Counted'
  BY <1>22 DEF Serve, Goto, End
<1>23. ASSUME NEW b \in Browser, Flush(b), UNCHANGED cast PROVE Counted'
  BY <1>23 DEF Flush, Goto, End
<1>24. ASSUME NEW b \in Browser, SignOut(b), UNCHANGED cast PROVE Counted'
  BY <1>24 DEF SignOut, Goto, End
<1>25. ASSUME NEW b \in Browser, AskAccess(b), UNCHANGED cast PROVE Counted'
  BY <1>25 DEF AskAccess, Goto, End
<1>26. ASSUME NEW b \in Browser, CloseAccess(b), UNCHANGED cast PROVE Counted'
  BY <1>26 DEF CloseAccess, Goto, End
<1>27. CASE ToggleAccess /\ UNCHANGED cast
  BY <1>27 DEF ToggleAccess
<1>28. CASE Leave /\ UNCHANGED cast
  BY <1>28 DEF Leave
<1>29. CASE MaintenanceReads /\ UNCHANGED cast
  BY <1>29 DEF MaintenanceReads
<1>30. CASE MaintenanceCloses /\ UNCHANGED cast
  BY <1>30 DEF MaintenanceCloses
<1>31. CASE WindowEnds /\ UNCHANGED cast
  BY <1>31 DEF WindowEnds
<1>32. CASE CountEnds /\ UNCHANGED cast
  BY <1>32 DEF CountEnds
<1>33. CASE CodeEnds /\ UNCHANGED cast
  BY <1>33 DEF CodeEnds
<1>34. CASE MinuteEnds /\ UNCHANGED cast
  BY <1>34 DEF MinuteEnds
<1>35. CASE HourEnds /\ UNCHANGED cast
  BY <1>35 DEF HourEnds
<1>36. CASE UNCHANGED vars
  BY <1>36 DEF vars
<1>37. QED
  BY <1>1, <1>2, <1>3, <1>4, <1>5, <1>6, <1>7, <1>8, <1>9, <1>10, <1>11, <1>12, <1>13, <1>14, <1>15, <1>16, <1>17, <1>18,
     <1>19, <1>20, <1>21, <1>22, <1>23, <1>24, <1>25, <1>26, <1>27, <1>28, <1>29, <1>30, <1>31, <1>32, <1>33, <1>34, <1>35, <1>36
     DEF Next, SignIn, Failure, Setup, ResetPassword, Page, Maintenance, Time

\* Two requests that read the same number write the same number.
LEMMA LimitedNext ==
  ASSUME Types, Limited, [Next]_vars
  PROVE  Limited'
<1> USE GateAssumption DEF Types, Reset, NoReset, Request, Idle, PCs, At, NobodyAt, Limited
<1>1. ASSUME NEW b \in Browser, StartSignIn(b), UNCHANGED cast PROVE Limited'
  BY <1>1 DEF StartSignIn, Goto
<1>2. ASSUME NEW b \in Browser, ReadAccount(b), UNCHANGED cast PROVE Limited'
  BY <1>2 DEF ReadAccount, Goto, End
<1>3. ASSUME NEW b \in Browser, ClearFailures(b), UNCHANGED cast PROVE Limited'
  BY <1>3 DEF ClearFailures, Clear, Goto
<1>4. ASSUME NEW b \in Browser, OpenSession(b), UNCHANGED cast PROVE Limited'
  BY <1>4 DEF OpenSession, Goto, End
<1>5. ASSUME NEW b \in Browser, ReadFailures(b), UNCHANGED cast PROVE Limited'
  BY <1>5 DEF ReadFailures, Goto
<1>6. ASSUME NEW b \in Browser, BeginCount(b), UNCHANGED cast PROVE Limited'
  BY <1>6 DEF BeginCount, OneMore, End
<1>7. ASSUME NEW b \in Browser, AddFailure(b), UNCHANGED cast PROVE Limited'
  BY <1>7 DEF AddFailure, OneMore, Goto
<1>8. ASSUME NEW b \in Browser, LockAccount(b), UNCHANGED cast PROVE Limited'
  BY <1>8 DEF LockAccount, Goto, End
<1>9. ASSUME NEW b \in Browser, ReadProfile(b), UNCHANGED cast PROVE Limited'
  <2>1. CASE account.exists /\ ~Complete
    <3>1. request' = [request EXCEPT ![b] = [Idle EXCEPT !.pc = "setup", !.version = account.version]]
      BY <1>9, <2>1 DEF ReadProfile
    <3>2. UNCHANGED <<account, session, attempts, reset, wrong>> BY <1>9, <2>1 DEF ReadProfile
    <3>3. QED BY <2>1, <3>1, <3>2
  <2>2. CASE ~(account.exists /\ ~Complete)
    <3>1. CASE account.exists BY <1>9, <2>2, <3>1 DEF ReadProfile
    <3>2. CASE ~account.exists BY <1>9, <2>2, <3>2 DEF ReadProfile
    <3>3. QED BY <3>1, <3>2
  <2>3. QED BY <2>1, <2>2
<1>10. ASSUME NEW b \in Browser, SaveProfile(b), UNCHANGED cast PROVE Limited'
  <2>1. PICK p \in Password : SaveProfile(b)!(p) BY <1>10 DEF SaveProfile
  <2>2. CASE account.exists /\ ~Complete
    <3>1. account' = [account EXCEPT !.password = p] /\ UNCHANGED session BY <2>1, <2>2
    <3>2. request' = [request EXCEPT ![b] = [request[b] EXCEPT !.pc = "open", !.proof = p]]
      BY <2>1, <2>2
    <3>3. UNCHANGED <<attempts, reset, wrong>> BY <2>1
    <3>4. request[b].pc = "setup" BY <2>1
    <3>5. QED BY <2>2, <3>1, <3>2, <3>3, <3>4
  <2>3. CASE ~(account.exists /\ ~Complete)
    <3>1. session' = [session EXCEPT ![b].role = "none"] /\ UNCHANGED account BY <2>1, <2>3
    <3>2. request' = [request EXCEPT ![b] = Idle] BY <2>1, <2>3 DEF End
    <3>3. UNCHANGED <<attempts, reset, wrong>> BY <2>1
    <3>4. QED BY <3>1, <3>2, <3>3
  <2>4. QED BY <2>2, <2>3
<1>11. ASSUME NEW b \in Browser, Forgot(b), UNCHANGED cast PROVE Limited'
  BY <1>11 DEF Forgot, Goto
<1>12. ASSUME NEW b \in Browser, RequestCode(b), UNCHANGED cast PROVE Limited'
  <2>1. CASE reset.wait \/ reset.sends >= MaxSends
    <3>1. request' = [request EXCEPT ![b] = Idle] BY <1>12, <2>1 DEF RequestCode, End
    <3>2. QED BY <1>12, <3>1 DEF RequestCode
  <2>2. CASE ~(reset.wait \/ reset.sends >= MaxSends)
    <3>1. request' = [request EXCEPT ![b] = [request[b] EXCEPT !.pc = "mail", !.n = reset.sends]]
      BY <1>12, <2>2 DEF RequestCode
    <3>2. QED BY <1>12, <2>2, <3>1 DEF RequestCode
  <2>3. QED BY <2>1, <2>2
<1>13. ASSUME NEW b \in Browser, Mail(b), UNCHANGED cast PROVE Limited'
  <2>1. CASE Goto(b, "store") BY <1>13, <2>1 DEF Mail, Goto
  <2>2. CASE End(b) BY <1>13, <2>2 DEF Mail, End
  <2>3. QED BY <1>13, <2>1, <2>2 DEF Mail
<1>14. ASSUME NEW b \in Browser, StoreCode(b), UNCHANGED cast PROVE Limited'
  BY <1>14 DEF StoreCode, Goto, End
<1>15. ASSUME NEW b \in Browser, ForgetReset(b), UNCHANGED cast PROVE Limited'
  BY <1>15 DEF ForgetReset, Goto, End
<1>16. ASSUME NEW b \in Browser, CheckCode(b), UNCHANGED cast PROVE Limited'
  BY <1>16 DEF CheckCode, Goto, End
<1>17. ASSUME NEW b \in Browser, CancelCode(b), UNCHANGED cast PROVE Limited'
  BY <1>17 DEF CancelCode, Goto, End
<1>18. ASSUME NEW b \in Browser, CountMiss(b), UNCHANGED cast PROVE Limited'
  <2>1. reset' = [reset EXCEPT !.tries = request[b].n, !.code = @ /\ request[b].n < MaxAttempts]
    BY <1>18 DEF CountMiss
  <2>2. request' = [request EXCEPT ![b] = Idle] BY <1>18 DEF CountMiss, End
  <2>3. request[b].pc = "miss" BY <1>18 DEF CountMiss
  <2>4. request[b].n \in Nat /\ request[b].n =< MaxAttempts BY <2>3
  <2>5. reset'.sends = reset.sends /\ reset'.tries = request[b].n
        /\ (reset'.code => request[b].n < MaxAttempts)
    BY <2>1
  <2>6. reset'.sends =< MaxSends /\ reset'.tries =< MaxAttempts
        /\ (reset'.code => reset'.tries < MaxAttempts)
    BY <2>4, <2>5
  <2>7. ASSUME NEW d \in Browser PROVE
           /\ request'[d].pc \in {"mail", "store"} => request'[d].n < MaxSends
           /\ request'[d].pc = "miss" => request'[d].n =< MaxAttempts
    <3>1. CASE d = b BY <2>2, <3>1
    <3>2. CASE d # b
      <4>1. request'[d] = request[d] BY <2>2, <3>2
      <4>2. QED BY <4>1
    <3>3. QED BY <3>1, <3>2
  <2>8. QED BY <2>6, <2>7
<1>19. ASSUME NEW b \in Browser, SavePassword(b), UNCHANGED cast PROVE Limited'
  BY <1>19 DEF SavePassword, Goto, End
<1>20. ASSUME NEW b \in Browser, Consume(b), UNCHANGED cast PROVE Limited'
  BY <1>20 DEF Consume, Goto, End
<1>21. ASSUME NEW b \in Browser, Unlock(b), UNCHANGED cast PROVE Limited'
  BY <1>21 DEF Unlock, Clear, End
<1>22. ASSUME NEW b \in Browser, Serve(b), UNCHANGED cast PROVE Limited'
  BY <1>22 DEF Serve, Goto, End
<1>23. ASSUME NEW b \in Browser, Flush(b), UNCHANGED cast PROVE Limited'
  BY <1>23 DEF Flush, Goto, End
<1>24. ASSUME NEW b \in Browser, SignOut(b), UNCHANGED cast PROVE Limited'
  BY <1>24 DEF SignOut, Goto, End
<1>25. ASSUME NEW b \in Browser, AskAccess(b), UNCHANGED cast PROVE Limited'
  BY <1>25 DEF AskAccess, Goto, End
<1>26. ASSUME NEW b \in Browser, CloseAccess(b), UNCHANGED cast PROVE Limited'
  BY <1>26 DEF CloseAccess, Goto, End
<1>27. CASE ToggleAccess /\ UNCHANGED cast
  BY <1>27 DEF ToggleAccess
<1>28. CASE Leave /\ UNCHANGED cast
  BY <1>28 DEF Leave
<1>29. CASE MaintenanceReads /\ UNCHANGED cast
  BY <1>29 DEF MaintenanceReads
<1>30. CASE MaintenanceCloses /\ UNCHANGED cast
  BY <1>30 DEF MaintenanceCloses
<1>31. CASE WindowEnds /\ UNCHANGED cast
  BY <1>31 DEF WindowEnds
<1>32. CASE CountEnds /\ UNCHANGED cast
  BY <1>32 DEF CountEnds
<1>33. CASE CodeEnds /\ UNCHANGED cast
  BY <1>33 DEF CodeEnds
<1>34. CASE MinuteEnds /\ UNCHANGED cast
  BY <1>34 DEF MinuteEnds
<1>35. CASE HourEnds /\ UNCHANGED cast
  BY <1>35 DEF HourEnds
<1>36. CASE UNCHANGED vars
  BY <1>36 DEF vars
<1>37. QED
  BY <1>1, <1>2, <1>3, <1>4, <1>5, <1>6, <1>7, <1>8, <1>9, <1>10, <1>11, <1>12, <1>13, <1>14, <1>15, <1>16, <1>17, <1>18,
     <1>19, <1>20, <1>21, <1>22, <1>23, <1>24, <1>25, <1>26, <1>27, <1>28, <1>29, <1>30, <1>31, <1>32, <1>33, <1>34, <1>35, <1>36
     DEF Next, SignIn, Failure, Setup, ResetPassword, Page, Maintenance, Time

-----------------------------------------------------------------------------
Inductive == Types /\ Opened /\ Counted /\ Limited

\* Nobody is signed in, nothing is counted.
LEMMA InductiveInit == Init => Inductive
<1> SUFFICES ASSUME Init PROVE Inductive
  OBVIOUS
<1> USE GateAssumption DEF Init
<1>1. Types
  <2>1. Idle \in Request BY IdleType
  <2>2. request \in [Browser -> Request] BY <2>1
  <2>3. NoSession \in Session BY DEF NoSession, Session
  <2>4. session \in [Browser -> Session] BY <2>3
  <2>5. account \in Account
    <3>1. PICK p \in Password \cup {NoPassword} :
              account = [password |-> p, version |-> 0, exists |-> TRUE]
      OBVIOUS
    <3>2. QED BY <3>1 DEF Account
  <2>6. QED BY <2>2, <2>4, <2>5 DEF Types, Attempts, NoAttempts, Reset, NoReset
<1>2. Opened BY DEF Opened, NoSession, Idle
<1>3. Counted BY DEF Counted, LockEarned, NoAttempts, Idle
<1>4. Limited BY DEF Limited, NoReset, Idle
<1>5. QED BY <1>1, <1>2, <1>3, <1>4 DEF Inductive

LEMMA InductiveNext == Inductive /\ [Next]_vars => Inductive'
  BY TypesNext, OpenedNext, CountedNext, LimitedNext DEF Inductive

\* Both invariants of the runs follow.
LEMMA InductiveImplies == Inductive => TypeOK /\ LockEarned
  BY DEF Inductive, Types, TypeOK, Counted, Limited

LEMMA InductiveAlways == Spec => []Inductive
  BY InductiveInit, InductiveNext, PTL DEF Spec

\* A page is served only to a session whose version is the account's, and such a
\* session was opened with the account's password.
LEMMA ServesPresentPassword ==
  ASSUME Inductive, NEW b \in Browser, Serve(b)
  PROVE  session[b].proof = account.password
  BY DEF Inductive, Types, Session, Opened, Known, Serve, Current

\* Only the profile page and a reset write a password.
LEMMA PasswordChanges ==
  ASSUME Inductive, [Next]_vars
  PROVE  \/ account'.password = account.password
         \/ account.password = NoPassword
         \/ account'.version = account.version + 1
<1> DEFINE Kept == account'.password = account.password
<1> USE DEF Inductive, Types, Account
<1>1. ASSUME NEW b \in Browser, SignIn(b) \/ Failure(b) \/ Page(b) PROVE Kept
  BY <1>1 DEF SignIn, StartSignIn, ReadAccount, ClearFailures, OpenSession,
              Failure, ReadFailures, BeginCount, AddFailure, LockAccount,
              Page, Serve, Flush, SignOut, AskAccess, CloseAccess
<1>2. ASSUME NEW b \in Browser, Setup(b) PROVE Kept \/ account.password = NoPassword
  BY <1>2 DEF Setup, ReadProfile, SaveProfile, Complete
<1>3. ASSUME NEW b \in Browser, SavePassword(b)
      PROVE  Kept \/ account'.version = account.version + 1
  <2>1. CASE account.exists BY <1>3, <2>1 DEF SavePassword
  <2>2. CASE ~account.exists BY <1>3, <2>2 DEF SavePassword
  <2>3. QED BY <2>1, <2>2
<1>4. ASSUME NEW b \in Browser, ResetPassword(b), ~SavePassword(b) PROVE Kept
  BY <1>4 DEF ResetPassword, Forgot, RequestCode, Mail, StoreCode, ForgetReset, CheckCode,
              CancelCode, CountMiss, Consume, Unlock
<1>5. CASE Leave BY <1>5 DEF Leave
<1>6. CASE ToggleAccess \/ Maintenance \/ Time
  BY <1>6 DEF ToggleAccess, Maintenance, MaintenanceReads, MaintenanceCloses,
              Time, WindowEnds, CountEnds, CodeEnds, MinuteEnds, HourEnds
<1>7. CASE UNCHANGED vars BY <1>7 DEF vars
<1>8. QED BY <1>1, <1>2, <1>3, <1>4, <1>5, <1>6, <1>7 DEF Next

\* The limits on codes and tries hold whatever requests overlap: request_code
\* and check_code write back one more than what they read.
THEOREM TypeCorrect == Spec => []TypeOK
  BY InductiveAlways, InductiveImplies, PTL

\* record_failure locks nobody out before MaxFailures wrong passwords were
\* counted, in any number of browsers.
THEOREM LocksAreEarned == Spec => []LockEarned
  BY InductiveAlways, InductiveImplies, PTL

\* institution_login_required serves nobody who signed in with a password that
\* has been reset since.
THEOREM ResetsSignOut == Spec => OldPasswordOut
<1>1. Inductive /\ [Next]_vars =>
          [\A b \in Browser : Serve(b) => session[b].proof = account.password]_vars
  BY ServesPresentPassword
<1>2. QED BY <1>1, InductiveAlways, PTL DEF Spec, OldPasswordOut

\* student_profile_setup sets one password, however many tabs send the form.
THEOREM SetsUpOnce == Spec => SetupOnce
<1>1. Inductive /\ [Next]_vars =>
          [\/ account'.password = account.password
           \/ account.password = NoPassword
           \/ account'.version = account.version + 1]_vars
  BY PasswordChanges
<1>2. QED BY <1>1, InductiveAlways, PTL DEF Spec, SetupOnce
=============================================================================
