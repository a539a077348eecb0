-------------------------------- MODULE Gate --------------------------------
(***************************************************************************)
(* What stands between a student and a no-due request: the sign-in with    *)
(* its lockout, the first password, the password reset by mailed code, the *)
(* session that every page checks again, and the window in which the       *)
(* faculty has opened the portal for requests.                             *)
(*                                                                         *)
(* One student's account, seen from several browsers.  A browser has one   *)
(* request under way at a time; an action is one call to the database with *)
(* the local computation after it, and whatever was read is used in later  *)
(* steps as it was.  Time is not counted: a lock, a code, a count of wrong *)
(* passwords and a window end when they end, and no request is under way   *)
(* as long as that takes.                                                  *)
(***************************************************************************)
EXTENDS Integers

CONSTANTS
    Browser,
    Password, NoPassword,
    MaxFailures,   \* MAX_FAILURES of login_guard
    MaxAttempts,   \* MAX_VERIFY_ATTEMPTS of password_reset
    MaxSends,      \* MAX_SENDS_PER_HOUR
    MaxResets,     \* bound: no code is asked for after so many resets
    Casts          \* what happens in a behaviour, sets of activities

ASSUME GateAssumption ==
    /\ NoPassword \notin Password
    /\ MaxFailures \in Nat \ {0} /\ MaxAttempts \in Nat \ {0}
    /\ MaxSends \in Nat \ {0}
    /\ MaxResets \in Nat
    /\ \A cast \in Casts : cast \subseteq {"guess", "setup", "reset", "leave", "faculty"}

VARIABLES
    account,   \* the student's document
    session,   \* each browser's session
    request,   \* the local variables of each browser's request
    attempts,  \* the account's document in login_attempts
    reset,     \* the account's document in password_resets
    window,    \* no_due_access_enabled and auto_disable_at
    upkeep,    \* where the maintenance cycle is with the window
    cast,      \* the activities of this behaviour
    wrong      \* history: wrong passwords counted, to MaxFailures

vars == <<account, session, request, attempts, reset, window, upkeep, cast, wrong>>

-----------------------------------------------------------------------------
\* password and version of the document; whether it is on the roster.
Account == [password : Password \cup {NoPassword}, version : Nat, exists : BOOLEAN]

\* proof: history, the password the session was opened with; resetting:
\* pw_reset_sid.
Session == [role : {"none", "pending", "student"}, version : Nat,
            proof : Password \cup {NoPassword}, resetting : BOOLEAN]

NoSession == [role |-> "none", version |-> 0, proof |-> NoPassword, resetting |-> FALSE]

PCs == {"idle", "read", "clear", "open", "wrong", "fresh", "count", "lock",
        "setup", "ask", "mail", "store", "cancel", "miss", "save", "consume",
        "unlock", "access", "close"}

\* Guess: a password typed, "the register number" included.
Guess == Password \cup {NoPassword}

Request == [pc : PCs, proof : Guess, version : Nat, first : BOOLEAN, n : Nat]

Idle == [pc |-> "idle", proof |-> NoPassword, version |-> 0, first |-> FALSE, n |-> 0]

Attempts == [on : BOOLEAN, count : Nat, locked : BOOLEAN, over : BOOLEAN]
NoAttempts == [on |-> FALSE, count |-> 0, locked |-> FALSE, over |-> FALSE]

\* code: there is one; wait: sent less than a minute ago.
Reset == [code : BOOLEAN, expired : BOOLEAN, tries : Nat, sends : Nat, wait : BOOLEAN]
NoReset == [code |-> FALSE, expired |-> FALSE, tries |-> 0, sends |-> 0, wait |-> FALSE]

Complete == account.password # NoPassword

-----------------------------------------------------------------------------
Init ==
    /\ cast \in Casts
    /\ account \in [password : Password \cup {NoPassword}, version : {0}, exists : {TRUE}]
    /\ account.password = NoPassword => "setup" \in cast
    /\ session = [b \in Browser |-> NoSession]
    /\ request = [b \in Browser |-> Idle]
    /\ attempts = NoAttempts
    /\ reset = NoReset
    /\ window = "shut"
    /\ upkeep = "idle"
    /\ wrong = 0

At(b, pc) == request[b].pc = pc
Goto(b, pc) == request' = [request EXCEPT ![b].pc = pc]
End(b) == request' = [request EXCEPT ![b] = Idle]
NobodyAt(pcs) == \A b \in Browser : request[b].pc \notin pcs
NobodyCounts == NobodyAt({"wrong", "fresh", "count", "lock"})

\* clear
Clear ==
    /\ attempts' = NoAttempts
    /\ wrong' = IF NobodyCounts THEN 0 ELSE wrong

-----------------------------------------------------------------------------
(***************************************************************************)
(* student_login.                                                          *)
(***************************************************************************)

\* locked_seconds
StartSignIn(b) ==
    /\ At(b, "idle") /\ session[b].role # "student"
    /\ ~attempts.locked
    /\ Goto(b, "read")
    /\ UNCHANGED <<account, session, attempts, reset, window, upkeep, wrong>>

\* One find_one returns the hash and the version.  Before there is a password
\* the register number stands for it.
ReadAccount(b) ==
    \E p \in Guess :
        /\ At(b, "read") /\ (p = account.password \/ "guess" \in cast)
        /\ LET right == account.exists /\ p = account.password IN
           request' = [request EXCEPT ![b] =
                IF right
                THEN [Idle EXCEPT !.pc = "clear", !.proof = p, !.version = account.version,
                                  !.first = ~Complete]
                ELSE [Idle EXCEPT !.pc = IF account.exists THEN "wrong" ELSE "idle"]]
        /\ UNCHANGED <<account, session, attempts, reset, window, upkeep, wrong>>

ClearFailures(b) ==
    /\ At(b, "clear")
    /\ Clear
    /\ Goto(b, "open")
    /\ UNCHANGED <<account, session, reset, window, upkeep>>

\* Mutant: the version is read again when the session opens.
OpenWithNewVersion(b) ==
    LET me == request[b] IN
    /\ At(b, "open")
    /\ session' = [session EXCEPT ![b] =
            IF me.first THEN [NoSession EXCEPT !.role = "pending", !.resetting = session[b].resetting]
            ELSE [NoSession EXCEPT !.role = "student", !.version = account.version,
                                   !.proof = me.proof]]
    /\ End(b)
    /\ UNCHANGED <<account, attempts, reset, window, upkeep, wrong>>

\* _start_pending_session, _start_student_session
OpenSession(b) ==
    LET me == request[b] IN
    /\ At(b, "open")
    /\ session' = [session EXCEPT ![b] =
            IF me.first THEN [NoSession EXCEPT !.role = "pending", !.resetting = session[b].resetting]
            ELSE [NoSession EXCEPT !.role = "student", !.version = me.version,
                                   !.proof = me.proof]]
    /\ End(b)
    /\ UNCHANGED <<account, attempts, reset, window, upkeep, wrong>>

-----------------------------------------------------------------------------
(***************************************************************************)
(* record_failure.                                                         *)
(***************************************************************************)

OneMore == wrong' = IF wrong < MaxFailures THEN wrong + 1 ELSE wrong

\* Mutant: the count goes on after a lock has ended.
ReadFailuresAfterLock(b) ==
    /\ At(b, "wrong")
    /\ Goto(b, IF attempts.locked THEN "idle"
                ELSE IF ~attempts.on THEN "fresh"
                ELSE "count")
    /\ UNCHANGED <<account, session, attempts, reset, window, upkeep, wrong>>

\* A count begins anew when there is none, when the last is older than WINDOW,
\* and when a lock has ended.
ReadFailures(b) ==
    /\ At(b, "wrong")
    /\ Goto(b, IF attempts.locked THEN "idle"
                ELSE IF ~attempts.on \/ attempts.over THEN "fresh"
                ELSE "count")
    /\ UNCHANGED <<account, session, attempts, reset, window, upkeep, wrong>>

BeginCount(b) ==
    /\ At(b, "fresh")
    /\ attempts' = [on |-> TRUE, count |-> 1, locked |-> FALSE, over |-> FALSE]
    /\ OneMore
    /\ End(b)
    /\ UNCHANGED <<account, session, reset, window, upkeep>>

\* $inc without upsert: nothing when the count has been cleared.
AddFailure(b) ==
    LET n == attempts.count + 1 IN
    /\ At(b, "count")
    /\ attempts' = IF attempts.on THEN [attempts EXCEPT !.count = n] ELSE attempts
    /\ OneMore
    /\ Goto(b, IF attempts.on /\ n >= MaxFailures THEN "lock" ELSE "idle")
    /\ UNCHANGED <<account, session, reset, window, upkeep>>

LockAccount(b) ==
    /\ At(b, "lock")
    /\ attempts' = IF attempts.on THEN [attempts EXCEPT !.locked = TRUE] ELSE attempts
    /\ End(b)
    /\ UNCHANGED <<account, session, reset, window, upkeep, wrong>>

-----------------------------------------------------------------------------
(***************************************************************************)
(* student_profile_setup: the first password.                              *)
(***************************************************************************)
ReadProfile(b) ==
    /\ At(b, "idle") /\ session[b].role = "pending"
    /\ IF account.exists /\ ~Complete
       THEN /\ request' = [request EXCEPT ![b] = [Idle EXCEPT !.pc = "setup",
                                                             !.version = account.version]]
            /\ UNCHANGED session
       ELSE /\ session' = [session EXCEPT ![b] =
                    IF account.exists THEN [@ EXCEPT !.role = "none"] ELSE NoSession]
            /\ UNCHANGED request
    /\ UNCHANGED <<account, attempts, reset, window, upkeep, wrong>>

\* Mutant: the update has no profile_completed in its filter.
SaveProfileAgain(b) ==
    \E p \in Password :
        /\ At(b, "setup") /\ account.exists
        /\ account' = [account EXCEPT !.password = p]
        /\ request' = [request EXCEPT ![b] = [@ EXCEPT !.pc = "open", !.proof = p]]
        /\ UNCHANGED <<session, attempts, reset, window, upkeep, wrong>>

\* One shot: the filter wants a profile that is not complete.
SaveProfile(b) ==
    \E p \in Password :
        /\ At(b, "setup")
        /\ IF account.exists /\ ~Complete
           THEN /\ account' = [account EXCEPT !.password = p]
                /\ request' = [request EXCEPT ![b] = [@ EXCEPT !.pc = "open", !.proof = p]]
                /\ UNCHANGED session
           ELSE /\ session' = [session EXCEPT ![b].role = "none"]
                /\ End(b)
                /\ UNCHANGED account
        /\ UNCHANGED <<attempts, reset, window, upkeep, wrong>>

-----------------------------------------------------------------------------
(***************************************************************************)
(* student_forgot_password and student_reset_password.                     *)
(***************************************************************************)

\* The first page wants a finished profile, the second one a code asked for.
Forgot(b) ==
    /\ At(b, "idle") /\ account.exists /\ "reset" \in cast
    /\ account.version < MaxResets
    /\ \/ session[b].role # "student" /\ Complete
       \/ session[b].resetting
    /\ Goto(b, "ask")
    /\ UNCHANGED <<account, session, attempts, reset, window, upkeep, wrong>>

\* Mutant: the limit is looked at one code too late.
RequestCodeOnceMore(b) ==
    /\ At(b, "ask")
    /\ IF reset.wait \/ reset.sends > MaxSends
       THEN End(b)
       ELSE request' = [request EXCEPT ![b] = [@ EXCEPT !.pc = "mail", !.n = reset.sends]]
    /\ session' = [session EXCEPT ![b].resetting = @ \/ reset.wait]
    /\ UNCHANGED <<account, attempts, reset, window, upkeep, wrong>>

\* request_code: one code a minute, MaxSends an hour.
RequestCode(b) ==
    /\ At(b, "ask")
    /\ IF reset.wait \/ reset.sends >= MaxSends
       THEN End(b)
       ELSE request' = [request EXCEPT ![b] = [@ EXCEPT !.pc = "mail", !.n = reset.sends]]
    /\ session' = [session EXCEPT ![b].resetting = @ \/ reset.wait]
    /\ UNCHANGED <<account, attempts, reset, window, upkeep, wrong>>

\* send_email, which may fail.
Mail(b) ==
    /\ At(b, "mail")
    /\ Goto(b, "store") \/ End(b)
    /\ UNCHANGED <<account, session, attempts, reset, window, upkeep, wrong>>

\* Mutant: the time of the code is not stored with it.
StoreCodeUntimed(b) ==
    /\ At(b, "store")
    /\ reset' = [code |-> TRUE, expired |-> FALSE, tries |-> 0,
                 sends |-> request[b].n + 1, wait |-> FALSE]
    /\ session' = [session EXCEPT ![b].resetting = TRUE]
    /\ End(b)
    /\ UNCHANGED <<account, attempts, window, upkeep, wrong>>

StoreCode(b) ==
    /\ At(b, "store")
    /\ reset' = [code |-> TRUE, expired |-> FALSE, tries |-> 0,
                 sends |-> request[b].n + 1, wait |-> TRUE]
    /\ session' = [session EXCEPT ![b].resetting = TRUE]
    /\ End(b)
    /\ UNCHANGED <<account, attempts, window, upkeep, wrong>>

\* The page finds no student any more.
ForgetReset(b) ==
    /\ At(b, "idle") /\ session[b].resetting /\ ~account.exists
    /\ session' = [session EXCEPT ![b].resetting = FALSE]
    /\ UNCHANGED <<account, request, attempts, reset, window, upkeep, wrong>>

\* check_code, of the code there is or of another one.
CheckCode(b) ==
    \E right \in BOOLEAN :
        /\ At(b, "idle") /\ session[b].resetting /\ account.exists
        /\ reset.code
        /\ request' = [request EXCEPT ![b] =
                IF reset.expired THEN [Idle EXCEPT !.pc = "cancel"]
                ELSE IF right THEN [Idle EXCEPT !.pc = "save"]
                ELSE [Idle EXCEPT !.pc = "miss", !.n = reset.tries + 1]]
        /\ UNCHANGED <<account, session, attempts, reset, window, upkeep, wrong>>

CancelCode(b) ==
    /\ At(b, "cancel")
    /\ reset' = [reset EXCEPT !.code = FALSE]
    /\ End(b)
    /\ UNCHANGED <<account, session, attempts, window, upkeep, wrong>>

\* The tries counted when the code was read are written back.
CountMiss(b) ==
    LET n == request[b].n IN
    /\ At(b, "miss")
    /\ reset' = [reset EXCEPT !.tries = n, !.code = @ /\ n < MaxAttempts]
    /\ End(b)
    /\ UNCHANGED <<account, session, attempts, window, upkeep, wrong>>

\* Mutant: a reset keeps the version.
SavePasswordOnly(b) ==
    \E p \in Password :
        /\ At(b, "save")
        /\ account' = [account EXCEPT !.password = p]
        /\ Goto(b, "consume")
        /\ UNCHANGED <<session, attempts, reset, window, upkeep, wrong>>

\* Password and version change in one update, or not at all.
SavePassword(b) ==
    \E p \in Password :
        /\ At(b, "save")
        /\ account' = IF account.exists
                      THEN [account EXCEPT !.password = p, !.version = @ + 1] ELSE account
        /\ Goto(b, "consume")
        /\ UNCHANGED <<session, attempts, reset, window, upkeep, wrong>>

\* consume: whatever code is there by now.
Consume(b) ==
    /\ At(b, "consume")
    /\ reset' = [reset EXCEPT !.code = FALSE]
    /\ Goto(b, "unlock")
    /\ UNCHANGED <<account, session, attempts, window, upkeep, wrong>>

\* A reset lifts a lock as well.
Unlock(b) ==
    /\ At(b, "unlock")
    /\ Clear
    /\ session' = [session EXCEPT ![b].resetting = FALSE]
    /\ End(b)
    /\ UNCHANGED <<account, reset, window, upkeep>>

-----------------------------------------------------------------------------
(***************************************************************************)
(* Pages.                                                                  *)
(***************************************************************************)
Current(b) == account.exists /\ Complete /\ session[b].version = account.version

\* institution_login_required lets the request on to the page, ...
Serve(b) ==
    /\ At(b, "idle") /\ session[b].role = "student" /\ Current(b)
    /\ Goto(b, "access")
    /\ UNCHANGED <<account, session, attempts, reset, window, upkeep, wrong>>

\* ... or ends the session.
Flush(b) ==
    /\ At(b, "idle") /\ session[b].role = "student" /\ ~Current(b)
    /\ session' = [session EXCEPT ![b] = NoSession]
    /\ UNCHANGED <<account, request, attempts, reset, window, upkeep, wrong>>

SignOut(b) ==
    /\ At(b, "idle") /\ session[b] # NoSession
    /\ session' = [session EXCEPT ![b] = NoSession]
    /\ UNCHANGED <<account, request, attempts, reset, window, upkeep, wrong>>

\* check_no_due_access_status: a window past its end is shut.
AskAccess(b) ==
    /\ At(b, "access")
    /\ Goto(b, IF window = "past" THEN "close" ELSE "idle")
    /\ UNCHANGED <<account, session, attempts, reset, window, upkeep, wrong>>

\* By now the window may be another one.
CloseAccess(b) ==
    /\ At(b, "close")
    /\ window' = "shut"
    /\ End(b)
    /\ UNCHANGED <<account, session, attempts, reset, upkeep, wrong>>

-----------------------------------------------------------------------------
(***************************************************************************)
(* The faculty, the maintenance cycle, the passing of time.                *)
(***************************************************************************)

\* toggle_no_due_access, with an end in the future.
ToggleAccess ==
    /\ "faculty" \in cast
    /\ window' \in {"open", "shut"}
    /\ UNCHANGED <<account, session, request, attempts, reset, upkeep, wrong>>

\* _check_auto_disable_access: read, then write.
MaintenanceReads ==
    /\ upkeep = "idle" /\ window = "past"
    /\ upkeep' = "close"
    /\ UNCHANGED <<account, session, request, attempts, reset, window, wrong>>

\* Mutant: the cycle notices the end and writes nothing.
MaintenanceLooks ==
    /\ upkeep = "close"
    /\ upkeep' = "idle"
    /\ UNCHANGED <<account, session, request, attempts, reset, window, wrong>>

MaintenanceCloses ==
    /\ upkeep = "close"
    /\ window' = "shut"
    /\ upkeep' = "idle"
    /\ UNCHANGED <<account, session, request, attempts, reset, wrong>>

WindowEnds ==
    /\ window = "open"
    /\ window' = "past"
    /\ UNCHANGED <<account, session, request, attempts, reset, upkeep, wrong>>

\* delete_students and restore_archived: the document goes and comes as it was.
Leave ==
    /\ "leave" \in cast
    /\ account' = [account EXCEPT !.exists = ~@]
    /\ UNCHANGED <<session, request, attempts, reset, window, upkeep, wrong>>

\* A quarter of an hour: longer than any request.
CountEnds ==
    /\ attempts.on /\ ~attempts.over
    /\ NobodyCounts
    /\ attempts' = [attempts EXCEPT !.locked = FALSE, !.over = TRUE]
    /\ wrong' = 0
    /\ UNCHANGED <<account, session, request, reset, window, upkeep>>

CodeEnds ==
    /\ reset.code /\ ~reset.expired
    /\ reset' = [reset EXCEPT !.expired = TRUE]
    /\ UNCHANGED <<account, session, request, attempts, window, upkeep, wrong>>

\* RESEND_GAP: longer than a mail takes, which is given up after 15 seconds.
MinuteEnds ==
    /\ reset.wait
    /\ NobodyAt({"mail", "store"})
    /\ reset' = [reset EXCEPT !.wait = FALSE]
    /\ UNCHANGED <<account, session, request, attempts, window, upkeep, wrong>>

\* The hour in which codes are counted; an hour after the last one the document
\* is purged.
HourEnds ==
    /\ reset.sends > 0 /\ ~reset.wait
    /\ NobodyAt({"mail", "store", "cancel", "miss", "save", "consume"})
    /\ reset' \in {[reset EXCEPT !.sends = 0], NoReset}
    /\ UNCHANGED <<account, session, request, attempts, window, upkeep, wrong>>

SignIn(b) == StartSignIn(b) \/ ReadAccount(b) \/ ClearFailures(b) \/ OpenSession(b)
Failure(b) == ReadFailures(b) \/ BeginCount(b) \/ AddFailure(b) \/ LockAccount(b)
Setup(b) == ReadProfile(b) \/ SaveProfile(b)
ResetPassword(b) ==
    \/ Forgot(b) \/ RequestCode(b) \/ Mail(b) \/ StoreCode(b)
    \/ ForgetReset(b) \/ CheckCode(b) \/ CancelCode(b) \/ CountMiss(b)
    \/ SavePassword(b) \/ Consume(b) \/ Unlock(b)
Page(b) == Serve(b) \/ Flush(b) \/ SignOut(b) \/ AskAccess(b) \/ CloseAccess(b)

Maintenance == MaintenanceReads \/ MaintenanceCloses
Time == WindowEnds \/ CountEnds \/ CodeEnds \/ MinuteEnds \/ HourEnds

Next ==
    /\ \/ \E b \in Browser : SignIn(b) \/ Failure(b) \/ Setup(b) \/ ResetPassword(b) \/ Page(b)
       \/ ToggleAccess \/ Leave \/ Maintenance \/ Time
    /\ UNCHANGED cast

Spec == Init /\ [][Next]_vars

\* The maintenance cycle runs every minute, whether or not anybody signs in.
FairSpec == Spec /\ WF_vars(Maintenance /\ UNCHANGED cast)

-----------------------------------------------------------------------------
\* Types.  The numbers stored stay within MaxSends and MaxAttempts; how many codes
\* were mailed is another matter, since requests that overlap count as one
\* (GateHistory).
TypeOK ==
    /\ account \in Account
    /\ session \in [Browser -> Session]
    /\ request \in [Browser -> Request]
    /\ attempts \in Attempts
    /\ reset \in Reset
    /\ reset.sends <= MaxSends /\ reset.tries <= MaxAttempts
    /\ window \in {"shut", "open", "past"}
    /\ upkeep \in {"idle", "close"}
    /\ cast \in Casts
    /\ wrong \in Nat

\* A lock has been earned: there were MaxFailures wrong passwords since a count
\* or a lock last ran out, or was cleared while nobody was counting, however the
\* requests that count overlap (record_failure begins a fresh count when a lock
\* has ended, so nobody is locked out again by one more mistake).
LockEarned == attempts.locked => wrong >= MaxFailures

\* Once a password has been reset, no session opened with the old one gets a
\* page, whatever was under way when it changed: a sign-in that read the old
\* hash opens its session with the version it read with it.
OldPasswordOut ==
    [][\A b \in Browser : Serve(b) => session[b].proof = account.password]_vars

\* The register number opens an account once.  Two tabs on the profile page set
\* one password between them, and a password there is is replaced only by a
\* reset, which changes the version with it.
SetupOnce ==
    [][\/ account'.password = account.password
       \/ account.password = NoPassword
       \/ account'.version = account.version + 1]_vars

\* The portal does not stay open past the date the faculty gave it, even when
\* no student opens a page (_check_auto_disable_access).
AccessEnds == window = "past" ~> window # "past"
=============================================================================
