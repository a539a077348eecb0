---------------------------- MODULE Departments ----------------------------
(***************************************************************************)
(* The departments, their logins, and the roster that refers to both.      *)
(*                                                                         *)
(* A student's document, a department's login and the login form know a    *)
(* department by its code; the Departments tab knows it by its _id and may *)
(* change the code.  Nothing ties the three together but the order of      *)
(* calls: a department is counted before it is deleted, its login follows  *)
(* when the code has changed, and every page rendered registers the codes  *)
(* it finds in the roster and nowhere else.                                *)
(*                                                                         *)
(* The roster's calls are those of the module Roster: a form is accepted   *)
(* when its department is active.  A Clerk is one call of the Departments  *)
(* or the Password Management tab, a Visitor a page being rendered again   *)
(* and again, a Starter a process whose login form opens for the first     *)
(* time.                                                                   *)
(***************************************************************************)
EXTENDS Roster

CONSTANTS
    DeptId,        \* documents of the departments collection, by _id
    NoCode, Gone,  \* a document not yet inserted, and a deleted one
    StartRegisters,
    Defaults,      \* codes of DEFAULT_DEPARTMENTS, which have a default login
    Clerk,
    DeskOf,        \* which calls each clerk may make
    Apart,         \* pairs of calls that the faculty does not make at once
    Visitor, Starter,
    Restarts       \* processes also start when calls have been made

LoginStates == {"none", "default", "own"}
DeskKinds   == {"add", "edit", "toggle", "delete", "password"}

ASSUME DepartmentsAssumption ==
    /\ NoCode \notin Dept /\ Gone \notin Dept /\ NoCode # Gone
    /\ StartRegisters \subseteq [DeptId -> Dept \cup {NoCode}]
    /\ \A r \in StartRegisters, i, j \in DeptId : r[i] = r[j] /\ r[i] # NoCode => i = j
    /\ Defaults \subseteq Dept
    /\ DeskOf \in [Clerk -> SUBSET DeskKinds]
    /\ Apart \subseteq SUBSET DeskKinds
    /\ Restarts \in BOOLEAN

VARIABLES
    code,      \* the code of each department
    active,    \* the departments that are switched on
    login,     \* "DEPARTMENT:<code>" of institution_accounts
    desk,      \* local variables of each clerk's call
    visit,     \* local variables of each page
    start      \* local variables of each process's first login form

deptVars == <<code, active, login, desk, visit, start>>
portalVars == <<place, due, archive, locked, call, cast, life, found,
                code, active, login, desk, visit, start>>

-----------------------------------------------------------------------------
Registered  == {code[i] : i \in DeptId} \cap Dept
ActiveCodes == {code[i] : i \in active} \cap Dept
Enrolled(c) == {s \in Present : place[s].dept = c}

DeskPCs == {"idle", "check", "insert", "write", "find", "carry", "drop", "count",
            "remove", "store", "done"}

\* doc: the document; old: its code when read; to: the code asked for; on: the
\* status to write; had: the login of the old code.
Desk == [pc : DeskPCs, kind : DeskKinds, doc : DeptId \cup {NoCode},
         old : Dept \cup {NoCode}, to : Dept \cup {NoCode}, on : BOOLEAN,
         had : LoginStates]

NoDesk == [pc |-> "idle", kind |-> "add", doc |-> NoCode, old |-> NoCode,
           to |-> NoCode, on |-> TRUE, had |-> "none"]

DeskGoto(k, pc) == desk' = [desk EXCEPT ![k].pc = pc]

Started(p) == start[p].todo = {} /\ start[p].next = NoCode

\* The calls k may still make.
Asked(k) == {kind \in DeskOf[k] :
    /\ desk[k].pc = "idle"
    /\ Restarts \/ \A p \in Starter : Started(p)
    /\ \A l \in Clerk : desk[l].pc \notin {"idle", "done"} => {kind, desk[l].kind} \notin Apart}

\* A new document for each code of C, active or not.
Insertable(C) == \E f \in [C -> DeptId] :
    /\ \A c, d \in C : f[c] = f[d] => c = d
    /\ \A c \in C : code[f[c]] = NoCode

Inserted(C, on) ==
    LET f == CHOOSE f \in [C -> DeptId] :
                /\ \A c, d \in C : f[c] = f[d] => c = d
                /\ \A c \in C : code[f[c]] = NoCode
        ids == {f[c] : c \in C}
    IN
    /\ Insertable(C)
    /\ code' = [i \in DeptId |-> IF i \in ids THEN CHOOSE c \in C : f[c] = i ELSE code[i]]
    /\ active' = IF on THEN active \cup ids ELSE active

-----------------------------------------------------------------------------
PortalInit ==
    /\ RosterInit
    /\ code \in StartRegisters
    /\ active = {i \in DeptId : code[i] \in Dept}
    /\ \A s \in Present : place[s].dept \in Registered
    /\ login \in {[c \in Dept |-> "none"],
                  [c \in Dept |-> IF c \in Registered \cap Defaults THEN "default" ELSE "none"]}
    /\ desk = [k \in Clerk |-> NoDesk]
    /\ visit = [v \in Visitor |-> [pc |-> "idle", codes |-> {}]]
    /\ start = [p \in Starter |-> [todo |-> Defaults, next |-> NoCode]]

\* _validate_cohort and edit_student: the class asked for is in an active
\* department.  An import, a profile and a restoration do not ask.
FormAccepted ==
    \A p \in Editor :
        /\ call[p].pc = "idle" /\ call'[p].pc # "idle"
        /\ call'[p].kind \in {"add", "bulk", "edit"}
        => call'[p].to.dept \in ActiveCodes

RosterStepHere == RosterNext /\ FormAccepted /\ UNCHANGED deptVars

-----------------------------------------------------------------------------
(***************************************************************************)
(* The Departments tab.                                                    *)
(***************************************************************************)

\* Mutant: two departments may have one code.
CodeTakenNever(c, except) == FALSE

\* validate_department_inputs: is the code another department's?
CodeTaken(c, except) == \E i \in DeptId \ except : code[i] = c

StartDepartment(k) ==
    \E kind \in Asked(k) \cap {"add"}, c \in Dept, on \in BOOLEAN :
        /\ desk' = [desk EXCEPT ![k] = [NoDesk EXCEPT !.kind = kind, !.to = c, !.on = on,
                            !.pc = IF CodeTaken(c, {}) THEN "done" ELSE "insert"]]
        /\ UNCHANGED <<rosterVars, code, active, login, visit, start>>

\* insert_one: the code is unique.
InsertDepartment(k) ==
    /\ desk[k].pc = "insert"
    /\ IF CodeTaken(desk[k].to, {}) THEN UNCHANGED <<code, active>>
       ELSE Inserted({desk[k].to}, desk[k].on)
    /\ DeskGoto(k, "done")
    /\ UNCHANGED <<rosterVars, login, visit, start>>

\* edit, toggle and delete read the department first.
Read(k, i, kind, pc, c, on) ==
    /\ code[i] \in Dept
    /\ desk' = [desk EXCEPT ![k] = [NoDesk EXCEPT !.kind = kind, !.doc = i, !.old = code[i],
                    !.to = c, !.on = on, !.had = login[code[i]], !.pc = pc]]
    /\ UNCHANGED <<rosterVars, code, active, login, visit, start>>

\* update_department; the form sends the status as it is shown.
StartRename(k) ==
    \E kind \in Asked(k) \cap {"edit"}, i \in DeptId, c \in Dept :
        Read(k, i, kind, "check", c, i \in active)

CheckRename(k) ==
    /\ desk[k].pc = "check"
    /\ DeskGoto(k, IF code[desk[k].doc] = Gone \/ CodeTaken(desk[k].to, {desk[k].doc})
                   THEN "done" ELSE "write")
    /\ UNCHANGED <<rosterVars, code, active, login, visit, start>>

\* The students keep the old code.
Rename(k) ==
    LET me == desk[k] IN
    /\ me.pc = "write" /\ me.kind = "edit"
    /\ IF code[me.doc] = Gone \/ CodeTaken(me.to, {me.doc})
       THEN DeskGoto(k, "done") /\ UNCHANGED <<code, active>>
       ELSE /\ code' = [code EXCEPT ![me.doc] = me.to]
            /\ active' = IF me.on THEN active \cup {me.doc} ELSE active \ {me.doc}
            /\ DeskGoto(k, IF me.to = me.old THEN "done" ELSE "find")
    /\ UNCHANGED <<rosterVars, login, visit, start>>

\* rename_department_account: nothing to carry, or a login of that name exists.
FindLogins(k) ==
    /\ desk[k].pc = "find"
    /\ desk' = [desk EXCEPT ![k].had = login[desk[k].old],
            ![k].pc = IF login[desk[k].old] = "none" \/ login[desk[k].to] # "none"
                      THEN "done" ELSE "carry"]
    /\ UNCHANGED <<rosterVars, code, active, login, visit, start>>

\* Mutant: the copy is not made.
CarryNothing(k) ==
    /\ desk[k].pc = "carry"
    /\ DeskGoto(k, "drop")
    /\ UNCHANGED <<rosterVars, code, active, login, visit, start>>

\* insert_one: the _id is unique.
CarryLogin(k) ==
    LET me == desk[k] IN
    /\ me.pc = "carry"
    /\ login' = [login EXCEPT ![me.to] = IF @ = "none" THEN me.had ELSE @]
    /\ DeskGoto(k, IF login[me.to] = "none" THEN "drop" ELSE "done")
    /\ UNCHANGED <<rosterVars, code, active, visit, start>>

\* Mutant: the login of a code that is gone stays.
DropNothing(k) ==
    /\ desk[k].pc = "drop"
    /\ DeskGoto(k, "done")
    /\ UNCHANGED <<rosterVars, code, active, login, visit, start>>

\* delete_one, after a rename and after a deletion.
DropLogin(k) ==
    /\ desk[k].pc = "drop"
    /\ login' = [login EXCEPT ![desk[k].old] = "none"]
    /\ DeskGoto(k, "done")
    /\ UNCHANGED <<rosterVars, code, active, visit, start>>

\* toggle_department_status: the status asked for, or the opposite of the one read.
StartToggle(k) ==
    \E kind \in Asked(k) \cap {"toggle"}, i \in DeptId, on \in BOOLEAN :
        Read(k, i, kind, "write", NoCode, on)

Toggle(k) ==
    LET me == desk[k] IN
    /\ me.pc = "write" /\ me.kind = "toggle"
    /\ active' = CASE code[me.doc] = Gone -> active
                   [] code[me.doc] # Gone /\ me.on -> active \cup {me.doc}
                   [] OTHER -> active \ {me.doc}
    /\ DeskGoto(k, "done")
    /\ UNCHANGED <<rosterVars, code, login, visit, start>>

\* delete_department: read, count, delete.
StartRemoval(k) ==
    \E kind \in Asked(k) \cap {"delete"}, i \in DeptId : Read(k, i, kind, "count", NoCode, TRUE)

CountStudents(k) ==
    /\ desk[k].pc = "count"
    /\ DeskGoto(k, IF Enrolled(desk[k].old) # {} THEN "done" ELSE "remove")
    /\ UNCHANGED <<rosterVars, code, active, login, visit, start>>

RemoveDepartment(k) ==
    LET me == desk[k] IN
    /\ me.pc = "remove"
    /\ code' = [code EXCEPT ![me.doc] = Gone]
    /\ active' = active \ {me.doc}
    /\ DeskGoto(k, "drop")
    /\ UNCHANGED <<rosterVars, login, visit, start>>

\* update_account: the department exists; the login is stored, new or not.
StartPassword(k) ==
    \E kind \in Asked(k) \cap {"password"}, c \in Registered :
        /\ desk' = [desk EXCEPT ![k] = [NoDesk EXCEPT !.kind = kind, !.to = c, !.pc = "store"]]
        /\ UNCHANGED <<rosterVars, code, active, login, visit, start>>

StorePassword(k) ==
    /\ desk[k].pc = "store"
    /\ login' = [login EXCEPT ![desk[k].to] = "own"]
    /\ DeskGoto(k, "done")
    /\ UNCHANGED <<rosterVars, code, active, visit, start>>

-----------------------------------------------------------------------------
(***************************************************************************)
(* ensure_default_departments, on every page.                              *)
(***************************************************************************)
VisitGoto(v, pc, C) == visit' = [visit EXCEPT ![v] = [pc |-> pc, codes |-> C]]

CountDepartments(v) ==
    /\ visit[v].pc = "idle"
    /\ VisitGoto(v, IF Registered = {} THEN "seed" ELSE "roster", {})
    /\ UNCHANGED <<rosterVars, code, active, login, desk, start>>

\* insert_many: those whose code is free.
Seed(v) ==
    /\ visit[v].pc = "seed"
    /\ Inserted(Defaults \ Registered, TRUE)
    /\ VisitGoto(v, "roster", {})
    /\ UNCHANGED <<rosterVars, login, desk, start>>

\* distinct("branch") of the students, then distinct("code").
ReadRoster(v) ==
    /\ visit[v].pc = "roster"
    /\ VisitGoto(v, "codes", {c \in Dept : Enrolled(c) # {}})
    /\ UNCHANGED <<rosterVars, code, active, login, desk, start>>

ReadCodes(v) ==
    LET C == visit[v].codes \ Registered IN
    /\ visit[v].pc = "codes"
    /\ VisitGoto(v, IF C = {} THEN "idle" ELSE "upsert", C)
    /\ UNCHANGED <<rosterVars, code, active, login, desk, start>>

\* Mutant: codes are registered only while there is no department at all.
RegisterNothing(v) ==
    /\ visit[v].pc = "upsert"
    /\ VisitGoto(v, "idle", {})
    /\ UNCHANGED <<rosterVars, code, active, login, desk, start>>

\* update_one with upsert: a code registered in the meantime is left alone.
Register(v) ==
    \E c \in visit[v].codes :
        LET rest == visit[v].codes \ {c} IN
        /\ visit[v].pc = "upsert"
        /\ Inserted({c} \ Registered, TRUE)
        /\ VisitGoto(v, IF rest = {} THEN "idle" ELSE "upsert", rest)
        /\ UNCHANGED <<rosterVars, login, desk, start>>

-----------------------------------------------------------------------------
(***************************************************************************)
(* ensure_default_accounts, once per process.                              *)
(***************************************************************************)
FindDefault(p) ==
    \E c \in start[p].todo :
        /\ start[p].next = NoCode
        /\ start' = [start EXCEPT ![p] = [todo |-> @.todo \ {c},
                        next |-> IF login[c] = "none" THEN c ELSE NoCode]]
        /\ UNCHANGED <<rosterVars, code, active, login, desk, visit>>

\* set_account stores the login, new or not.
CreateDefault(p) ==
    /\ start[p].next # NoCode
    /\ login' = [login EXCEPT ![start[p].next] = "default"]
    /\ start' = [start EXCEPT ![p].next = NoCode]
    /\ UNCHANGED <<rosterVars, code, active, desk, visit>>

-----------------------------------------------------------------------------
AtDesk(k) ==
    \/ StartDepartment(k) \/ InsertDepartment(k)
    \/ StartRename(k) \/ CheckRename(k) \/ Rename(k)
    \/ FindLogins(k) \/ CarryLogin(k) \/ DropLogin(k)
    \/ StartToggle(k) \/ Toggle(k)
    \/ StartRemoval(k) \/ CountStudents(k) \/ RemoveDepartment(k)
    \/ StartPassword(k) \/ StorePassword(k)

OnPage(v) == CountDepartments(v) \/ Seed(v) \/ ReadRoster(v) \/ ReadCodes(v) \/ Register(v)

AtStart(p) == FindDefault(p) \/ CreateDefault(p)

PortalNext ==
    \/ RosterStepHere
    \/ \E k \in Clerk : AtDesk(k)
    \/ \E v \in Visitor : OnPage(v)
    \/ \E p \in Starter : AtStart(p)

PortalSpec == PortalInit /\ [][PortalNext]_portalVars

\* Pages are rendered whoever visits; no call need ever come.
FairPortalSpec == PortalSpec /\ \A v \in Visitor : WF_portalVars(OnPage(v))

-----------------------------------------------------------------------------
PortalTypeOK ==
    /\ RosterTypeOK
    /\ code \in [DeptId -> Dept \cup {NoCode, Gone}]
    /\ \A i, j \in DeptId : code[i] = code[j] /\ code[i] \in Dept => i = j
    /\ active \subseteq {i \in DeptId : code[i] \in Dept}
    /\ login \in [Dept -> LoginStates]
    /\ desk \in [Clerk -> Desk]
    /\ visit \in [Visitor -> [pc : {"idle", "seed", "roster", "codes", "upsert"},
                              codes : SUBSET Dept]]
    /\ start \in [Starter -> [todo : SUBSET Defaults, next : Defaults \cup {NoCode}]]

\* A department deleted under a student, or renamed above him, is registered
\* again ("ensures any legacy branch codes already attached to students exist",
\* departments.py), or the student is gone.
StudentsRegistered == \A c \in Dept : Enrolled(c) # {} ~> Enrolled(c) = {} \/ c \in Registered

\* When no call is under way every department's login belongs to a department
\* (tests.py: rename and delete keep accounts in sync).
LoginsInSync ==
    (\A k \in Clerk : desk[k].pc \in {"idle", "done"})
        => \A c \in Dept : login[c] # "none" => c \in Registered

\* "Keep a department's login when its code is edited" (accounts.py): when the
\* renaming is over, the login under the new code is the one the old code had.
RenameKeepsLogin ==
    [][\A k \in Clerk : LET me == desk[k] IN
        me.kind = "edit" /\ me.pc \in {"find", "carry", "drop"} /\ desk'[k].pc = "done"
        /\ desk'[k].had # "none" => login'[me.to] = desk'[k].had /\ login'[me.old] = "none"]_portalVars
=============================================================================
