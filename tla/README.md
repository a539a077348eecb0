# No-Due Clearance Portal: a TLA+ verification of its protocols

The portal (Django, MongoDB, gunicorn with threads, Cloudinary for receipts)
clears students of their dues: a student sends a request to each office
(Library, College, Department, and Hostel with a receipt), the office approves
or rejects it, and after each semester the faculty promotes everybody. All its
state is in MongoDB, shared by request threads of several worker processes and
by one maintenance thread per process. There are hardly any transactions: nearly
every rule rests on the filter of a single `update_one`, or on a read followed by
a write. These specifications are about what happens between the two.

Paths below are relative to `authentication/` unless they begin elsewhere.

## 1. The system

| Component | State (collection) | Operations | Model |
|---|---|---|---|
| No-due requests (`views.py`) | `no_due_requests` | send, hostel send, retry, bulk approve, reject | `NoDueRequest` |
| Hostel receipts (`receipts.py`) | file store, `receipt_cleanup` | upload, delete or queue, work through the queue | `NoDueRequest` |
| Maintenance cycle, scheduler (`maintenance.py`, `scheduler.py`) | `portal_settings.maintenance_lock` | cooldown sweep, access auto-disable, promotion recovery, expiry, receipts | `Worker` in `NoDueRequest` and `Promotion`, `Maintenance` in `Gate` |
| Semester promotion (`promotion.py`) | `promotion_runs`, `promotion_run_items`, lock in `portal_settings` | promote, undo, recover, fix a class | `Promotion`; `fix_cohort` in `Roster` |
| Completion log (`utils.py`) | `promotion_logs` | record the last approval, history of a promotion | one step of `Promotion` |
| Roster and its rule (`views.py`, `promotion.py`) | `students` | add, bulk add, import, edit, profile, with check, write, verification, compensation | `Roster` |
| Archive (`promotion.py`) | `archived_students` | archive, delete, restore, remove Semester 8 | `Roster` |
| Departments (`departments.py`) | `departments` | add, rename, switch, delete, register the codes of the roster | `Departments` |
| Accounts (`accounts.py`) | `institution_accounts` | default logins, passwords, renaming and deletion with the department | department logins in `Departments` |
| Student sign-in, sessions (`views.py`, `decorators.py`) | `students.password`, `password_version`, session | sign in, first password, check on each page, sign out | `Gate` |
| Login lockout (`login_guard.py`) | `login_attempts` | count, lock, clear | `Gate` |
| Reset codes (`password_reset.py`) | `password_resets` | send, verify, cancel, consume | `Gate` |
| Access window (`views.py`, `maintenance.py`) | `portal_settings.global_config` | open until, close, expire on read and by the cycle | `Gate` |
| Session store, SSO, live updates, pages and reports, start-up | | | not modelled (section 7) |

How they interact: no component calls another while it holds anything; they meet
in the database. A promotion resets the requests of the students it moves, and
undoing it deletes and re-inserts them; approving the last request writes the
history the promotion also writes; expiry, rejection and promotion feed one
receipt queue; the maintenance cycle finishes what killed processes left.

What is hard about it: several threads act on one document from snapshots taken
earlier (two tabs, two staff browsers, the expiry); a file in another service has
to follow a document; a process may be killed between any two database calls
(gunicorn's timeout and restarts); leases without an owner; a long
multi-document change, the promotion, which on a standalone server is not atomic
and which nothing keeps students and offices away from.

What makes each component correct:

* requests: an approval is final; attempts count rejections; the second rejection
  starts a pause that is earned, served to its end and does end; an unanswered request
  comes back to the student; what has stood for a while is not taken back by a late write;
* receipts: no file is lost sight of, none is deleted that a request uses;
* promotion: one at a time; a batch moves together or not at all; undone means
  undone; a crashed run is recovered; no request is lost; a class stays whole;
* roster: concurrent writers do not split a class, a promotion is alone, nobody is
  lost between roster and archive, a restoration is whole or not at all;
* departments: a student's department is a department, a login follows its code;
* sign-in: locks are earned, a reset ends the old password's sessions, the first
  password is set once, the limits on codes hold;
* access: the window closes after its date;
* completion log: one row per student and semester.

Not all of this is so. Section 3 says what the program keeps, and what it does not.

`PROJECT.json` lists the places in the code where each of these can go wrong
("hazards") and the properties that would notice.

## 2. Modules

| Module | What it is |
|---|---|
| `NoDueRequest` | requests and receipts, detailed: every database or file store call is one action |
| `NoDueHistory` | `NoDueRequest` with the number of rejections since the last pause, as history (EXTENDS `NoDueRequest`) |
| `PauseContract` | what the attempt limit promises, abstractly; `NoDueRequest` implements it |
| `NoDueRequestProofs` | TLAPS: types, inductive invariant, pause, refinement |
| `NoDueOutcomes` | TLAPS: attempts, pauses, decisions and receipts (EXTENDS `NoDueRequestProofs`, `NoDueHistory`) |
| `Promotion` | promotion, undo, recovery, with crashes and errors |
| `PromotionContract` | what a promotion promises to readers of the roster; `Promotion` implements it |
| `PromotionProofs` | TLAPS: one promotion, undo or recovery at a time |
| `PromotionMoves` | TLAPS: types, nobody moves but by the journal (EXTENDS `PromotionProofs`) |
| `PromotionUndo` | TLAPS: undo, the contract, one semester per class (EXTENDS `PromotionMoves`) |
| `Roster` | every writer of a student's class, and the archive; two calls to the database are never one action |
| `RosterProofs` | TLAPS: types, a promotion is the only writer, nobody is lost, restorations and classes are whole |
| `Departments` | `Roster` with the departments, their logins, the pages and the processes that start (EXTENDS `Roster`) |
| `DepartmentsProofs` | TLAPS: types and unique codes (EXTENDS `RosterProofs`) |
| `Gate` | sign-in, lockout, first password, reset codes, sessions and the access window |
| `GateHistory` | `Gate` with the number of codes mailed in the hour that counts them, as history (EXTENDS `Gate`) |
| `GateProofs` | TLAPS: types, locks, sessions, first password |
| `MCNoDueRequest`, `MCNoDueHistory`, `MCPromotion`, `MCRoster`, `MCDepartments`, `MCGate` | old documents, rosters, archives and pairs of calls for TLC |

Each definition's source lines are in `PROJECT.json` under "map". The operators
marked "Mutant" in the detailed modules are plausible bugs (a dropped filter,
a forgotten reset, the wrong rule); no behaviour uses them. Putting one in the place of the
definition below it makes TLC find a violation of the property it is paired with
in `PROJECT.json`, which shows that the property says something.

### NoDueRequest

| Model | Code |
|---|---|
| `doc[r]` | the document of a student and an office: `status`, `attempts_used`, `attempts_model`, `cooldown_expiry`, `created_at`, `cloudinary_public_id` |
| `files`, `uploaded`, `cleanup` | the file store, the public ids it handed out, `receipt_cleanup` |
| `proc[p]` | the local variables of a handler: where it is, the document it read, the file it uploaded |
| `SendRead`, `ClearElapsed`, `Reread`, `Upload`, `UploadFails`, `SendWrite`, `SendConflict`, `SendDiscard` | `send_no_due_request`, `send_hostel_request` |
| `RetryRead`, `RetryWrite` (and the clear in common) | `retry_request` |
| `Approve`; `RejectRead`, `RejectDelete`, `RejectWrite` | `bulk_approve`; `reject_request` |
| `Sweep`; `ExpireRead`, `ExpireDelete`, `ExpireWrite`; `CleanCheck`, `CleanDestroy`, `CleanDrop` | `fast_cooldown_reset`; `_expire_stale_pending`; `process_queue` |
| `Crash` | a worker process killed or restarted |

`SameVersion` is the filter of `_versioned_filter`; `RetryWrite` and `RejectWrite`
carry exactly the (weaker) filters of their `update_one` calls. `RejectedAttempts` and
`ExpiredAttempts` are the two conversions of documents saved before
`attempts_model` 2; the models start from such documents as well as from none.
`DeleteOrQueue` is `destroy` with its two calls (image, raw), either of which can fail, and
`queue`, whose failure is logged and swallowed (`receipts.py:68`): the file may be neither deleted nor
queued, and the handler goes on as if it were.

Abstractions:

* A call on several requests (bulk approve, the list of a rejection, the cursor of
  the expiry) is one thread per request: the handlers carry nothing from one
  request to the next. `update_many` of the sweep is one step for all documents.
* The throttled sweep at the start of a student's call and the read that follows
  are one step. A handler reads the clock once per database read.
* A unit of the clock is longer than any thread lives, so a thread sees at most
  one tick: with `Cooldown` = 3 a unit is 8 hours, while a request lives for
  at most minutes (the 60 s timeout of `gunicorn.conf.py`, the socket timeouts of
  `mongo.py`). `late` remembers that the tick has happened since the read.
* A database call that fails ends the call as a crash does, except where the code catches it
  (`queue`, above). Access gate, role
  checks, malformed input and unknown ids refuse a call without a step.
* The retry times of the receipt queue, entries queued by a promotion, archived
  students, Day Scholars and the 7.5 % scheme (a hostel send without a file, which
  `Upload` includes) are abstracted; notifications and the audit log are left out.

### Promotion

| Model | Code |
|---|---|
| `lock` | `promotion_in_progress` and `promotion_lock_until`: free, held, or past its expiry. It has no owner, as in the code |
| `sem`, `due`, `log` | the semester, the request and the history rows of each student |
| `run[r]`, `item[r][s]` | `promotion_runs` (status), `promotion_run_items` (the journal) |
| `txn` | `transactions_supported()`: a replica set, or a standalone server. Chosen initially, so every run checks both |
| `StartPromotion`, `Begin`, `Refuse`, `Journal`, `StartApply` | `run_promotion` up to the journal |
| `Extend`, `WriteHistory`, `ResetDues`, `Move` / `ApplyAtOnce` | `_apply`, call by call / in a transaction |
| `Complete`, `Verify` | the status, the integrity check that undoes the run |
| `StartUndo`, `UndoCheck` | `rollback_last_run` |
| `StartRecovery`, `Recover` | `recover_interrupted_runs`, from the maintenance cycle and from `run_promotion` |
| `RestoreStudent`, `DeleteDues`, `InsertDues`, `RestoreHistory`, `Restored` / `RestoreAtOnce`, `Mark` | `_restore`, `_undo_run` |
| `ApplyFails`, `RunFails`, `RestoreFails`, `Interrupt` | the nested exception handlers |
| `Send`, `Approve` | a student and the offices going on meanwhile |

Abstractions:

* A student's requests are taken as one, whose status is that of the whole set
  (a rejected one counts as pending here: both block an undo). `after` holds what
  comparing `created_at`/`updated_at` with `finished_at` would tell.
* One history row per student and semester; the last approval and its entry in the
  log are one step; the find-then-insert race between the two writers is not modelled.
* `Begin` joins the check, the insertion of the run and the query of its students;
  `Journal` joins reading and writing a student's entry. Roster writers, which
  could act in between, are in `Roster`. Recovery's look for an unfinished
  run and its taking of the lock are one step.
* A stale page and a refusal by the rules look alike: `Refuse`.
* `Slow = FALSE`: a live call stays inside its lease of ten minutes, which
  `_apply` extends for each semester. Only a killed holder lets it run out.
* Faults are per stage (`Faults`), and killable threads are named (`Killable`).

### Roster

| Model | Code |
|---|---|
| `place[s]`, `due` | the department and semester of each document of `students`; the students with requests and history |
| `archive[c]` | the documents of `archived_students` |
| `locked` | `promotion_in_progress` |
| `call[p]` | the local variables of a page's call: kind, where it is, students, class asked for, class read, what it inserted |
| `StartAdding`, `LookForDuplicates`, `CheckClass`, `Insert`, `Verify`, `Unadd` | `add_student`, `bulk_add_students`, `import_students_excel` (each in the order of its own calls) |
| `StartEditing`, `Save`, `Unsave` and the check and verification above | `edit_student`, `update_student_profile` |
| `StartDeleting`, `CopyToArchive`, `Remove`, `ClearDues` | `delete_students`, `archive_students`, `remove_sem8_students` |
| `StartRestoring`, `LookForStudent`, `ReinsertDues`, `DropCopy` | `restore_archived` |
| `Lock`, `Grace`, `PlanPromotion`, `RefusePromotion`, `Move`, `Settle`, `Release` | `run_promotion` without its journal and faults |
| `PlanFix`, `Repair`; `PlanRemoval` | `fix_cohort`; `remove_sem8_students` |
| `Kill` | a worker process killed in a call without the lock |

`Semesters`, `MayJoin` and `Holds` are `cohort_semesters`, `check_cohort_semester` and
`verify_cohort_after_write`. `life` and `found` are history: who has been entered for
good, and which classes were mixed when they were found.

Abstractions:

* The two reads of a check (lock, class) are one step. Name, phone and other fields
  have no rule; of the two unique numbers only the register number is there.
* `Grace` takes it that a write which passed its check before the lock has ended after
  `WRITE_GRACE_SECONDS`; that is what the code's comment relies on.
* All rows of a spreadsheet are for one class. The deletion that takes a bulk add back
  spares a student who has completed his profile meanwhile; here it does not.
* A promotion moves one semester of one department; its faults and undo are in `Promotion`.

### Departments

| Model | Code |
|---|---|
| `code[i]`, `active` | the documents of `departments` by `_id`, and their status |
| `login[c]` | `DEPARTMENT:<code>` in `institution_accounts`: none, the default one, one with a password of its own |
| `desk[k]` and its actions | `add_department`, `update_department` with `rename_department_account`, `toggle_department_status`, `delete_department` with `delete_department_account`, `update_account`, each call by call |
| `CountDepartments`, `Seed`, `ReadRoster`, `ReadCodes`, `Register` | `ensure_default_departments`, which `departments_processor` runs for every page |
| `FindDefault`, `CreateDefault` | `ensure_default_accounts`, once in each process |
| `FormAccepted` | `_validate_cohort`: add, bulk add and edit ask for an active department; import, profile and restoration do not |

The roster's steps are those of `Roster`, so that a student may be entered, moved or
restored between the count of a department's students and its deletion. Renaming a
department leaves its students under the old code (the code does no more);
a page then registers the old code again, without its login.

### Gate

| Model | Code |
|---|---|
| `account` | password, version and presence of one student's document |
| `session[b]`, `request[b]` | each browser's session (student, or pending a first password); the local variables of its request |
| `attempts`, `reset` | the account's documents in `login_attempts`, `password_resets` |
| `window`, `upkeep` | access shut, open, open past its date; the maintenance cycle between its read and its update |
| `StartSignIn`, `ReadAccount`, `ClearFailures`, `OpenSession`; `ReadFailures`, `BeginCount`, `AddFailure`, `LockAccount` | `student_login` with `locked_seconds`, `record_failure`, `clear` |
| `ReadProfile`, `SaveProfile` | `student_profile_setup` |
| `Forgot`, `RequestCode`, `Mail`, `StoreCode`, `ForgetReset`; `CheckCode`, `CancelCode`, `CountMiss`, `SavePassword`, `Consume`, `Unlock` | the two pages of the reset with `request_code`, `check_code`, `consume` |
| `Serve`, `Flush`, `SignOut` | `institution_login_required` on a student's page, `logout_view` |
| `AskAccess`, `CloseAccess`; `ToggleAccess`; `MaintenanceReads`, `MaintenanceCloses` | the three places that write the window |
| `Leave` | the student's document is archived or restored |

Time is not counted: a lock, the hour of codes, the minute between two codes, a code and a
window end at some step, those that are long against a request only while no request is in
the middle of using them. A mail, which is given up after 15 seconds (`password_reset.py:111`), ends within the minute
between two codes. A code is right or wrong; which digits it has does not matter.

## 3. What the runs check

| Run | Instance | Shows |
|---|---|---|
| `race` | 1 request; 2 tabs, 2 staff calls, a worker; one of each killable; clock to 6 | types, the inductive invariant, `PauseClosesRequest`, `PauseEarned`, `PauseServed`, `OnlyRejectionUsesAttempt`, that the threads implement `PauseContract`, and that an unanswered request and a pause end |
| `receipts` | a hostel request; 2 tabs, a staff call, a worker, the last two killable; 2 files, a store and a queue that fail; clock to 4, expiry after 3 | `SettledStands`, `UsedReceiptKept` |
| `promotion` | 3 students in 2 departments, 2 runs; a promoter and one of two workers killable, calls fail while applying; nobody sends | `OneAtATime`, `ClassesWhole`, `UndoneIsUndone`, `PromotionContract`, and that a crashed run is `Recovered` |
| `promotion_any` | 2 classmates, one of whom sends and is approved; promoter killable, restoring may fail | `OnlyJournalledMoves`, whatever piles up |
| `roster` | 4 forms for 3 register numbers, 2 departments, semesters 1, 2 and 8, 2 copies, one of them of a Semester 8; any two calls but the pairs below, the first killable; edit forms also saved with the class unchanged | `ClassesWhole`, `NobodyLost`, `RestoredWhole`, `PromotionAlone` |
| `departments` | 2 codes, 2 students, a call on the roster, 2 calls on the departments, a page rendered again and again, a process that starts first | `LoginsInSync`, `RenameKeepsLogin`, `StudentsRegistered`, unique codes |
| `gate` | 2 browsers, 2 passwords, limits of 2, 1 reset, three stories (lockout, sessions, window) | types, `LockEarned`, `CodesLimited`, `OldPasswordOut`, `SetupOnce`, `AccessEnds` |
| `approval_undone` | 2 tabs, a staff call | *violated*: a held-up retry turns an approved request into NOT_SENT |
| `receipt_lost` | a hostel request; a tab, 2 staff calls, a worker | *violated*: a rejection deletes the receipt, the other call approves, the approved request has no file |
| `request_lost` | a student sends during an undo | *violated*: the undo deletes a request sent after its check |
| `roster_mixed` | `edit_student` beside the student's own `update_student_profile` | *violated*: the profile verifies the class of the department it read, not of the one it wrote to |
| `login_lost` | renaming there and back, a process starting in between | *violated*: the default login made again in between keeps the department's own login from coming back |

The five violations are divergences between what the code's comments, tests or guides say
and what it does; "findings" in `PROJECT.json` quotes both sides. Each needs two actors
at one particular place.

Properties worth a word:

* `PauseClosesRequest` relates three fields that no single handler writes together
  under a sufficient filter. It holds only because of what every thread may
  rely on at each point (section 5).
* `PauseEarned` counts on its own (`rejections`) what `attempts_used` counts by writing back stale numbers:
  a decision that comes late, a send that keeps the count it checked and the two conversions of old documents never add up to
  a pause without two rejections. The other way about they can (below).
* `SettledStands` is what remains of "approvals are final": a handler may overwrite what it
  has not seen, but only what has been sent since it looked. A request or an approval older than the life of a call is safe.
* `UsedReceiptKept` is the safety of `receipts.py:17-18` as far as it goes: the queue, which killed decisions
  and failing stores fill with files of requests that live on, and the send that lost a race never take a file
  somebody uses. What the sentence promises beyond that is violated (`receipt_lost`).
* `UndoneIsUndone` is stated over the journal: at the step that marks a run as
  undone, each of its students has the semester, the request and the history row that were
  journalled. It is checked with nobody sending. With requests in flight it does
  not hold: an approval between a student's journal entry and the reset of the
  requests is in neither, and recovery deletes what was sent after a crash.
* `OnlyJournalledMoves` is there for the stacked case: `recover_interrupted_runs`
  swallows its errors, so `run_promotion` goes on to a new run although the comment
  in it says it never stacks one on a crashed run. The property says what remains true.
* `PromotionContract` sees the roster through the journal: a student of an
  unfinished run is where the run found them. The run's students then move at the
  one step that completes it. The undo of a completed run is a second kind of step,
  since on a standalone server it is visible student by student.

* `ClassesWhole` of `Roster` speaks of the moments when no call is under way, and leaves
  out classes that were mixed before anybody wrote (`found`), which only a promotion's
  refusal and `fix_cohort` are for. It is not the check restated: every call
  checks a state that others have left by the time it writes.
* `NobodyLost` and `RestoredWhole` are the two halves of the archive: a student who was
  entered is on the roster or in the archive at every step, and a copy goes only when
  student and requests are back, unless another call has taken the student off the roster as well (`Retaken`): a
  removal of Semester 8 may delete the student between the two insertions of a restoration.
* `PromotionAlone` relates the lock, the grace period and the two looks at the lock of every
  other writer. It names the one writer that does not look: a form saved with the class
  unchanged, for the one student it shows.
* `LockEarned` counts on its own (`wrong`) what `login_attempts` counts with
  read-then-write: a fresh count begun twice, a clear between count and lock.
* `CodesLimited` counts the codes that are mailed. `sends` stays below its limit by construction; what matters is
  that a request which writes an old count back does not let the student begin again. The minute
  between two codes sees to that: only requests that began side by side hold an old count, and all of them the same one.
* `OldPasswordOut` holds because hash and version are read together and the session keeps
  the version that was read; a session opened with the version of the moment
  (its mutant) outlives the reset.

### What does not hold

Five promises of the repository are broken by a run of their own (above). There are more that the program does
not keep, found with the same modules; they have no run, and what they concern is either out of a
passing run's instance by name (`MCRoster!Separate`, `Apart`, the sets of threads), where it can be brought
back, or named as an exception by the property.

Against what the repository says:

* `views.py:1413`, "attempts_used = number of times an office has REJECTED the request". Rejections can be
  undercounted: one call reads the request, another rejects it, the student retries and sends, and the first call writes its
  count over the second's (`views.py:1273`, filtered on PENDING only). `race` includes this; no property
  says that it cannot happen, `PauseEarned` and `OnlyRejectionUsesAttempt` say that it errs in the student's favour only.
* `receipts.py:13`, "Anything that can't be deleted right now goes into the queue". A file may be left that is neither deleted,
  nor queued, nor pointed to: `queue` swallows its error (68) and the caller clears the pointer
  all the same (`views.py:1290`, `maintenance.py:179`); a late rejection clears the pointer to a newer
  receipt than the one it has deleted; `process_queue` drops an entry that a request still uses, and that request's
  own deletion is killed; a process is killed between upload and update. All of these are in `NoDueRequest`.
* `receipts.py:5`, "Not answered for 2 days (expired)": an expiry that comes late, with an answer and a new send since it
  looked, takes back a request that is minutes old (`maintenance.py:179`). `SettledStands` allows just that.
* `promotion.py:27-28`, "Roster writes are refused while it is held". `edit_student` (`views.py:2133`) and the profile
  (`views.py:872`) ask for the lock only when the class changes, but write it in any case: saved during a promotion,
  an unchanged form puts the student back into the old semester, and since taking the edit back writes the same class again, it
  can leave a mixed class, which `promotion.py:9-10` excludes. `PromotionAlone` and `ClassesWhole` name these forms as exceptions; `roster` includes them.
* `promotion.py:6-10`, the rule for all concurrent writes. Besides `roster_mixed`: an edit or a profile beside `fix_cohort`
  writes a class that the other has verified; an import that meets a register number taken in the meantime
  keeps the rows before it and skips the verification (`views.py:3068`), so imports run beside calls that take no new number;
  with three writers, an edit that must be taken back writes its old class when a third call has settled there (`views.py:2180`).
* `promotion.py:45`, "Deleted / Semester 8 students are archived and can be restored", and 734, "same ids, no-dues and history". A
  deletion from a page that is out of date, beside a restoration of the same student, deletes without a new copy what has
  just come back, and the restoration drops the old copy: the student is lost (`NobodyLost`; the pair is not in the run).
  Beside a removal of Semester 8 the student or his requests may be gone when the copy is dropped (in the run, `Retaken`).
* `password_reset.py:16-17`, five wrong codes, five codes an hour. Requests side by side count as one: each of them may mail a code
  (`CodesLimited` is the bound there is), and wrong codes have not even the minute between them. `gate` includes this.
* `promotion.py:42-43` speaks of `rollback_last_run`; the recovery of a killed run deletes the requests sent since, too. `RequestKept`
  is only about the former.
* `accounts.py:124`, "never overwrites": a process that starts may overwrite a password saved between its look
  and its update (129).

About which the repository says nothing:

* `Promotion`: an undo of a completed run, killed half-way on a standalone server, leaves half a class
  back and the run completed (`ClassesWhole`), so the undoer is not killable in the run.
* `Departments`: two renamings at a time, or one beside a deletion or a password change, leave a login behind (`Apart`).
* `Gate`: a page or the maintenance cycle that found the window past its date
  switches off one that the faculty has opened again in the meantime.

### Bounds

One or two requests suffice because documents are independent; what matters is the
number of threads on one of them. Two tabs and two staff calls allow every race of
two calls of a kind with a third of another kind in between. Clock 6 is two full
cooldowns of 3, so a pause that begins while an earlier one is being cleared is
reached; in `receipts` expiry comes after 3, so that a request which has stood for the life of a call (one tick) and one
whose days are over are told apart before clock 4. Two files are
a receipt and its rival, two runs are a crashed run and the next one (or a run, its
undo and a second run). The rosters hold one class of two beside another department, and two years
of one department of which the lower is about to enter the upper's year, beside a
Semester 8, so that the rules of `check_promotion` on Semester 8 and on joining another
batch each refuse something (`MayPromoteUnsimulated`, without the latter, splits a class).

`roster`: a class is mixed by two writers, and one who must be there to meet; two calls on
four documents, two of which share a register number, with semesters of the same year (1, 2)
and Semester 8, reach every branch. The copies hold a student of Semester 8, one whose class has moved on, a copy
beside one of the same student, and one who shares his class with somebody on the roster.
`departments`: two codes are what a renaming needs; five documents let each code be
inserted again after a deletion. `gate`: limits of 2 have a last and a last but one; a third
browser would only repeat what two do, since each action looks at one (`CodesLimited` counts them). `MaxResets` = 1
allows a reset in the middle of everything else. The proofs (section 5) have none of these bounds.

Every bound (`MaxClock`, `MaxRuns`, `MaxResets`, `File`, `Copy`, `DeptId`) is a constant;
since the clock stops at its bound and runs, calls and documents are used up, all
configurations set `CHECK_DEADLOCK FALSE`, and at an
earlier point the system may stop anyway: nobody has to send or to answer.

## 4. Fairness

`NoDueRequest!FairSpec`: a call that has begun goes on unless killed (weak fairness
of the continuation), and time passes. `scheduler._loop` runs the cycle for ever,
catching every exception, in each process, and gunicorn replaces killed processes: each
stage is attempted again and again. A pass may be killed at any step, even each time at the same step in
principle; strong fairness of the stages says that it is not killed there for
ever. Nothing is assumed of students and offices.

`Promotion!FairSpec`: a call goes on; the lease of a dead holder runs out (it is a
time in the database); the worker starts a recovery again and again, and is not for
ever beaten to the lock (strong fairness of `StartRecovery`). A cycle comes every
minute, while promotions are a faculty member's clicks. In `promotion` one of the two workers
is not killed, and restoring does not fail: a call that always fails never recovers anything.

`Departments!FairPortalSpec`: somebody opens a page now and then, and each is rendered to
its end (every page, the login page included, runs `departments_processor`).
Nothing is assumed of calls. `Gate!FairSpec`: the maintenance cycle, as above; no student need come.

## 5. What is proved

Proved by TLAPS for all values of the constants that satisfy the named assumptions
(`SetsAssumption`, `OldDocsAssumption`, `TimeAssumption`, `RosterAssumption`,
`FiniteAssumption`, `DepartmentsAssumption`, `GateAssumption`), which TLC also evaluates.

**NoDueRequestProofs.** `TypeCorrect`, `Inductive`, `PauseCloses`, `PauseLasts`,
`Refines`, for any number of requests, tabs, staff calls, workers and files, killed anywhere.
`PauseClosesRequest` is not inductive: whether a write keeps it depends on what the
writing thread read before. The invariant adds

* `SpentIsOld`: a document without attempts and without a pause is one of the old
  model that nobody has written since. Otherwise a late rejection could reach the
  limit without starting a pause;
* `SnapshotHolds`: at each point of its code, what a thread read is enough for what it
  is about to write. A send writes fewer than two attempts; a clear read an elapsed
  cooldown; an expiry of a document of the new model read fewer than two attempts;
* `NewPauseOutlives`: while a thread is between reading an elapsed cooldown and
  looking again, a pause on the same document is the one it read or a new one that ends later than
  the thread's life. This is why 24 hours against a call of a minute matters
  (`TimeAssumption`), and why `_clear_elapsed_cooldown` filters on the expiry it read.

Each action has a step of its own in the proof that the invariant is preserved.
`PauseLasts` and `Refines` then follow action by action: a step of a thread is a
`Turn`, a `Pause`, an `End` of a set of pauses, a `Pass`, or a stutter of
`PauseContract`.

**NoDueOutcomes.** What the promises of the documentation need. Its first part says what one step
of a thread does (`Acts`: the seven ways a document changes, and what the thread goes on with);
the invariants are then proved about that, without looking at the handlers again.

* `AttemptsUsedByRejection`: `OnlyRejectionUsesAttempt` for any number of threads, without further
  hypotheses. A send writes back the count it checked, an expiry one computed from its snapshot; neither may
  be more than the present one. The invariant: the count a decision read is still there unless another
  decision has been written (`StillAsRead`), in which case what an expiry writes is no more than the
  count (`ExpiryAddsNothing`), and decisions under way on one old document agree (`DecidersAgree`).
* `ApprovalsStand` needs `RetriesAlone`: one call of the student at a time, or nothing that was ever rejected.
  It is exactly what `approval_undone` lacks: `retry_request` writes without a filter, and only another tab
  can have sent the request again meanwhile (`RetryHarmless`).
* `SettledRequestsStand`: `SettledStands` for any number of threads, without further hypotheses. The invariant `Recent`: what a
  retry or an expiry finds changed since it looked has been sent since, no earlier than its look.
* `PausesAreEarned`: `PauseEarned`, likewise, of `NoDueHistory`. A count may be behind the rejections, and exceed
  them only by the one sending an old document counts (`CountEarned`); what a decision is about to write exceeds them by the rejection it
  is (`DecisionEarned`), and no pause ends while it is under way (`DecisionOutlived`), so that
  the rejections do not fall below what it has read.
* `UsedReceiptsKept`: `UsedReceiptKept`, likewise, for any number of requests and files too, with a store and a queue that
  may fail. The invariant `ReceiptsSafe` says whose every file is: a file is known to the send that stored it
  alone until a document has it (`SentFiles`), and never to two requests (`ReceiptsApart`, `DecidedFiles`).
  `process_queue` looks and destroys in two calls; in between nobody can bring the file back into use, since a send
  writes only the file it has stored itself (`CleanedFiles`).

**PromotionProofs.** `Exclusive`: with any number of promoters, undoers and
workers, killed anywhere, `OneAtATime` holds as long as no live call outlasts its
lease (`~Slow`). The invariant is `Exclusion`: whoever is at work is covered by the
lock, and is alone. Both halves are needed: `release_lock` frees the lock without asking whose it
is, which is right only because the releasing thread is alone; and it is alone
because everybody at work is covered. Without `~Slow` the lemma about `LeaseEnds`
fails, and so does the property: only `_apply` extends the lease, neither the
journal nor a restore does.

**PromotionMoves.** `PromotionTypeCorrect`, also with `Slow`. Types need to know what the
loops rely on (`Fits`): a student who is moved or restored has a journal entry of the
thread's run, whose semester is at most 7; only an entry bounds the semester that is
written. `JournalledMoves`: `OnlyJournalledMoves` for any number of runs, threads and
students, as long as no live call outlasts its lease. The invariant is `Exclusion` with
`Tracked`: a run that has not begun has journalled nobody (`Unwritten`), and
while a run journals, its students are where it saw them; while it applies, or undoes itself
after a failure, each is in one of the two semesters of the entry (`Within`), since that
undo, unlike the others, does not look where the student is before it writes
(`MayRestore`). All this speaks of a student's
semester between two steps of one thread, which is only true because nobody else is at
work: without `Exclusion` a second run could move a student the first has journalled.

**PromotionUndo.** What holds when nobody sends or answers a request of these students meanwhile,
restoring does not fail and no live call outlasts its lease (`Calm`; promotions may fail, and any thread
be killed, anywhere), for any number of students, departments, runs and threads. Each condition is there because the
property fails without it: an approval between journalling and the reset is in neither the journal nor the
history; a restore that fails marks its run as failed and lets `run_promotion` stack a new run on it.

* `UndoRestores`: `UndoneIsUndone`. A run that is undone twice (its first undo was killed) has some of its students
  back already, and perhaps other runs below it, so the journal of one run does not say
  enough. The invariant speaks of where a student would be if every run from some run on were undone (`UndoneTo`), and
  of what his history row would be (`RowOf`): each run, once those above it are undone, finds its
  students where it may restore them (`Stacked`). Undoing goes from the last run down, a run
  that is unfinished is the last (`InOrder`, `LastAt`), and a thread knows which students of
  its run are back (`BackAt`). No step adds to the semesters or rows that undoing would lead to, except
  that a journal entry adds the student as he is now.
* `PromotionRefines`: `ImplementsContract`. A reader of the journal sees the students of an unfinished run where
  it found them. So the roster changes when a run is marked complete (`Promote`) and with each student whom the undo
  of a completed run takes back (`TakeBack`); every other step stutters, among them those of a promotion
  that fails or is recovered. `PlanKept` says that what a run has journalled and still has to journal
  is a whole semester, or all seven, and that the bulk updates have moved exactly the semesters whose
  turn is over. A promotion lists its students before it writes the first entry; that nobody
  else moves them in between is `Exclusion`.
* `PromotionKeepsClassesWhole`: `ClassesWhole`, if no undoer is killed half-way (its run is then
  still marked completed, and half a class is back until somebody undoes it again) and every
  roster to start from has one semester per class. The invariant `Even` says it of the roster whenever nothing
  is unfinished, of what the run under way has planned, and of the roster that undoing down
  to any run would leave: a run is verified only after it is complete, and undone if the
  classes are mixed, so the rosters below it must be whole as well.

TLC checked `Undoing`, `PlanKept` and `Even` with two and with three students before they were proved; the
hypotheses are those of the run `promotion`.

**RosterProofs.** `RosterTypeCorrect`: types, with what a call's place in its code says of its
kind (`Sensible`), which the types of the promoted and repaired classes need.
`PromotesAlone`: `PromotionAlone` for any number of calls, students and departments, killed
anywhere, without further hypotheses; forms saved with the class unchanged are the exception the property names. The invariant is `LockKept`: the lock has one
holder (`OneHolder`), and while a promotion plans or moves nobody else is `Stray`, that
is, on the way to a write without another look at the lock (`OthersAway`). A call becomes
stray only by a check that found no lock, or by beginning without one; the
promotion starts to plan only when nobody is (`Grace`). An import that looks for
duplicates is not stray, since its check is still to come.

`RestoresWhole`: `RestoredWhole`, without hypotheses. The invariant `Backs`: whom a restoration has inserted is there, nobody
else has inserted him, and his requests are there before the copy goes, or a deletion has him too.

`NobodyIsLost`, for any number of calls killed anywhere, if nobody restores
while another deletes or removes Semester 8 (`Separated`; otherwise it can fail, section 3). The invariant is
`Books`, which says of each student who answers for him:

* a student not yet entered belongs to the one call that was given his form (`Unasked`, `OwnForms`), which
  alone may take him off the roster again when the verification fails;
* who restores has the copy it read, and it is still there until the student is back for good
  (`CopiesHeld`). While he is on trial he is that call's alone (`OwnReturns`): this is what the unique
  index gives, since nobody else can insert him while he is present. The copy of a killed
  restoration stays, which is why it may be restored again;
* a deletion removes only whom it has copied (`Covered`); a restoration that drops a copy has
  brought the requests back (`DuesBack`).

`ClassesStayWhole`: `ClassesWhole` for any number of calls that add, import, restore, delete, repair and
promote. It also needs `NoEdits`, since with three writers an edit taken back writes the class
it has read at its start; `ImportsApart`, since an import that meets a taken number does not verify;
and `RepairsApart`, since a repair of a class may reach, in another department, a student two
restorations bring back from two copies. `ClassesWhole` speaks of quiet states; the
invariant `Whole` speaks of every state: the students who are not on trial, nor left by a killed call,
have one semester in each class, but for the classes found mixed at the start (`Even`), whatever those on
trial have (`TriedHere` says in which class they are). A verification looks at everybody, so
the last of those on trial in a class sees all the others. A promotion about to write has the whole
semester, and finds nobody else in the class it moves to (`Planned`); that this is still so when it writes is
`LockKept`, and it was the reason to prove that first. A repair has everyone it must reach (`RepairAll`).

**DepartmentsProofs.** On top of `Sound`. `PortalTypeCorrect`: types and unique codes for any number of clerks,
pages, processes and roster calls; the invariant `Orderly` adds what a call has read (`Fits`).
What becomes of logins is model-checked only: it holds under conditions (`Apart`, no process that starts between the calls) that no
deployment guarantees, as `login_lost` shows.

**GateProofs.** For any number of browsers, passwords and limits: `TypeCorrect` (types, and
the limits of the numbers stored), `LocksAreEarned`, `ResetsSignOut`, `SetsUpOnce`. Four invariants:
`Types`; `Limited`, what was read from `password_resets` is still below the limit when it is
written back; `Counted`, an open count is never ahead of the wrong passwords, and who is
about to lock has seen enough; `Opened`, password and version that a sign-in read, and
that a session holds, are those of one moment, so that a version equal to the present one
means the present password.

## 6. Only model-checked

Liveness (`UnansweredEnds`, `PauseEnds`, `Recovered`, `StudentsRegistered`, `AccessEnds`), which
is out of the prover's reach. The hypotheses of the theorems on the roster exclude pairs of calls that the run `roster`
includes: an edit beside other calls, an import of two forms with one number, a removal of Semester 8 or a repair
beside a restoration. TLC checks these for two calls; with more calls, or other copies, they can
break the properties.

The logins of departments (`LoginsInSync`, `RenameKeepsLogin`), with calls on logins made one at a time after the processes have started;
and `CodesLimited`, whose bound is the number of browsers.

## 7. Not modelled

* The two writers of the completion log (`utils.py:92`): find, then insert, under an index that is
  not unique. The log is one step of `Promotion`.
* The lease of the maintenance cycle (50 s, not extended, released without looking at its
  owner): `NoDueRequest` has one worker or several, without the lock. The runs have one, the proofs any number.
* Receipts that a promotion queues and an undo takes out of the queue again.
* The journal and undo of `fix_cohort`; it is taken as in `Roster`, without faults.
* The offices' logins and the promotion password (nothing renames them); the institution's
  sign-in, which uses the lockout as the student's does.
* Session storage (Django's contract; `Gate` takes a session as kept or flushed) and SSO (the
  nonce is one atomic insert).
* Live updates: best effort, nothing in the database depends on them.
* Pages, reports and spreadsheets: input and output. Start-up, indexes, middleware and
  configuration: what the models need of them, the unique indexes and the time
  limits, is named where it is used.

## 8. What could come next

1. `CompletionLog`: approvals in parallel and a promotion; one row per student and semester.
2. The lease of the maintenance cycle with two slow passes.
3. Receipts queued by promotions, against undo (`Promotion` with `receipts.py`).
4. Proofs: `UndoRestores` with requests in flight, for the student's semester alone; the
   properties of the roster with the pairs of calls that the theorems exclude.
