-------------------------- MODULE DepartmentsProofs --------------------------
(***************************************************************************)
(* Departments and logins for any number of clerks, pages and processes.   *)
(*                                                                         *)
(* Orderly is what types need: a call that has read a department has its   *)
(* _id and code, and a document once inserted never becomes free again.    *)
(***************************************************************************)
EXTENDS Departments, RosterProofs

\* A call that has read a department and not finished with it.
HasDoc(l) == l.pc \in {"check", "write", "find", "carry", "drop", "count", "remove"}

\* What the kind of a call and its place in the code say about each other.
Fits(l) ==
    /\ HasDoc(l) => l.doc \in DeptId /\ l.old \in Dept
    /\ l.pc \in {"check", "find", "carry"} => l.kind = "edit"
    /\ l.pc \in {"count", "remove"} => l.kind = "delete"
    /\ l.pc = "drop" => l.kind \in {"edit", "delete"}
    /\ l.pc = "write" => l.kind \in {"edit", "toggle"}
    /\ l.pc = "insert" => l.kind = "add"
    /\ l.pc = "store" => l.kind = "password"
    /\ l.pc \in {"insert", "store"} => l.to \in Dept
    /\ l.kind = "edit" /\ HasDoc(l) => l.to \in Dept

CodesOK ==
    /\ code \in [DeptId -> Dept \cup {NoCode, Gone}]
    /\ \A i, j \in DeptId : code[i] = code[j] /\ code[i] \in Dept => i = j
    /\ active \subseteq {i \in DeptId : code[i] \in Dept}

DesksOK ==
    /\ desk \in [Clerk -> Desk]
    /\ \A k \in Clerk : Fits(desk[k]) /\ (HasDoc(desk[k]) => code[desk[k].doc] # NoCode)

PagesOK ==
    /\ login \in [Dept -> LoginStates]
    /\ visit \in [Visitor -> [pc : {"idle", "seed", "roster", "codes", "upsert"},
                              codes : SUBSET Dept]]
    /\ start \in [Starter -> [todo : SUBSET Defaults, next : Defaults \cup {NoCode}]]

Orderly == Sound /\ CodesOK /\ DesksOK /\ PagesOK

LEMMA OrderlyTyped == Orderly => PortalTypeOK
  BY DEF Orderly, CodesOK, DesksOK, PagesOK, PortalTypeOK, Sound

-----------------------------------------------------------------------------
(***************************************************************************)
(* Types, action by action.                                                *)
(***************************************************************************)

\* The roster is as it was.
LEMMA RosterStays == ASSUME Sound, UNCHANGED rosterVars PROVE Sound'
  BY DEF Sound, RosterTypeOK, rosterVars, Sensible

\* Free documents are given codes that no department has.
LEMMA InsertedCodes ==
  ASSUME CodesOK, NEW C \in SUBSET Dept, C \cap Registered = {}, NEW on \in BOOLEAN,
         Inserted(C, on)
  PROVE  /\ CodesOK' /\ Registered' = Registered \cup C
         /\ \A i \in DeptId : code[i] # NoCode => code'[i] = code[i]
  <1> DEFINE Free(f) == /\ \A c, d \in C : f[c] = f[d] => c = d
                        /\ \A c \in C : code[f[c]] = NoCode
             f   == CHOOSE f \in [C -> DeptId] : Free(f)
             ids == {f[c] : c \in C}
             of(i) == CHOOSE c \in C : f[c] = i
  <1>1. /\ code' = [i \in DeptId |-> IF i \in ids THEN of(i) ELSE code[i]]
        /\ active' = IF on THEN active \cup ids ELSE active
    BY Zenon DEF Inserted
  <1>2. \E g \in [C -> DeptId] : Free(g)
    BY DEF Inserted, Insertable
  <1>3. f \in [C -> DeptId] /\ Free(f)
    <2> HIDE DEF Free
    <2> QED
      BY <1>2
  <1> HIDE DEF f
  <1>4. \A c \in C : f[c] \in DeptId /\ code[f[c]] = NoCode
    BY <1>3
  <1>5. \A i \in ids : of(i) \in C /\ f[of(i)] = i
    OBVIOUS
  <1>6. \A c \in C : f[c] \in ids /\ of(f[c]) = c
    BY <1>3, <1>5
  <1>7. NoCode \notin Dept
    BY DepartmentsAssumption
  <1> HIDE DEF of
  <1>8. code' \in [DeptId -> Dept \cup {NoCode, Gone}]
    BY <1>1, <1>5 DEF CodesOK
  <1>9. \A i \in DeptId : /\ i \in ids => code'[i] = of(i) /\ code'[i] \in C /\ code[i] = NoCode
                          /\ i \notin ids => code'[i] = code[i]
    BY <1>1, <1>4, <1>5
  <1>10. \A i \in DeptId : code[i] \in Dept => code[i] \in Registered
    BY DEF Registered
  <1>11. ASSUME NEW i \in DeptId, NEW j \in DeptId, code'[i] = code'[j], code'[i] \in Dept
         PROVE  i = j
    <2>1. CASE i \in ids /\ j \in ids
      BY <1>5, <1>9, <1>11, <2>1
    <2>2. CASE i \notin ids /\ j \notin ids
      BY <1>9, <1>11, <2>2 DEF CodesOK
    <2>3. CASE ~(i \in ids <=> j \in ids)
      BY <1>9, <1>10, <1>11, <2>3
    <2> QED
      BY <2>1, <2>2, <2>3
  <1>12. active' \subseteq {i \in DeptId : code'[i] \in Dept}
    <2>1. active \subseteq DeptId /\ ids \subseteq DeptId /\ active' \subseteq active \cup ids
      BY <1>1, <1>4 DEF CodesOK
    <2> QED
      BY <1>7, <1>9, <2>1 DEF CodesOK
  <1>13. Registered' = Registered \cup C
    <2>1. ASSUME NEW c \in Dept, c \in Registered' PROVE c \in Registered \cup C
      <3>1. PICK i \in DeptId : code'[i] = c
        BY <2>1 DEF Registered
      <3> QED
        BY <1>9, <1>10, <2>1, <3>1
    <2>2. ASSUME NEW c \in Registered PROVE c \in Registered'
      <3>1. PICK i \in DeptId : code[i] = c
        BY <2>2 DEF Registered
      <3>2. c \in Dept
        BY <2>2 DEF Registered
      <3>3. code'[i] = c
        BY <1>7, <1>9, <3>1, <3>2
      <3> QED
        BY <3>2, <3>3 DEF Registered
    <2>3. ASSUME NEW c \in C PROVE c \in Registered'
      <3>1. f[c] \in DeptId /\ code'[f[c]] = c
        BY <1>4, <1>6, <1>9
      <3> QED
        BY <3>1 DEF Registered
    <2>4. Registered' \subseteq Dept
      BY DEF Registered
    <2> QED
      BY <2>1, <2>2, <2>3, <2>4
  <1> QED
    BY <1>8, <1>9, <1>11, <1>12, <1>13 DEF CodesOK

\* A clerk goes on, and no document becomes free.
LEMMA DeskTurn ==
  ASSUME DesksOK, NEW k \in Clerk, NEW rec \in Desk, Fits(rec),
         HasDoc(rec) => code'[rec.doc] # NoCode,
         desk' = [desk EXCEPT ![k] = rec],
         \A i \in DeptId : code[i] # NoCode => code'[i] # NoCode
  PROVE  DesksOK' /\ desk'[k] = rec /\ \A l \in Clerk \ {k} : desk'[l] = desk[l]
  <1>1. /\ desk' \in [Clerk -> Desk] /\ desk'[k] = rec
        /\ \A l \in Clerk \ {k} : desk'[l] = desk[l]
    BY DEF DesksOK
  <1>2. \A l \in Clerk : Fits(desk'[l]) /\ (HasDoc(desk'[l]) => code'[desk'[l].doc] # NoCode)
    BY <1>1 DEF DesksOK, Fits
  <1> QED
    BY <1>1, <1>2 DEF DesksOK, Fits, HasDoc

\* A clerk changes his place in the code only.
LEMMA DeskFields ==
  ASSUME NEW l \in Desk, NEW pc \in DeskPCs
  PROVE  LET rec == [l EXCEPT !.pc = pc]
         IN  /\ rec \in Desk /\ rec.pc = pc /\ rec.kind = l.kind /\ rec.doc = l.doc
             /\ rec.old = l.old /\ rec.to = l.to /\ rec.on = l.on /\ rec.had = l.had
  BY DEF Desk

LEMMA DeskGoes ==
  ASSUME DesksOK, NEW k \in Clerk, NEW pc \in DeskPCs, DeskGoto(k, pc),
         \/ pc = "done"
         \/ pc = "write" /\ desk[k].pc = "check"
         \/ pc = "find" /\ desk[k].pc = "write" /\ desk[k].kind = "edit"
         \/ pc = "drop" /\ desk[k].pc \in {"carry", "remove"}
         \/ pc = "remove" /\ desk[k].pc = "count",
         \A i \in DeptId : code[i] # NoCode => code'[i] # NoCode
  PROVE  /\ DesksOK' /\ \A l \in Clerk \ {k} : desk'[l] = desk[l]
         /\ desk'[k].pc = pc /\ desk'[k].kind = desk[k].kind /\ desk'[k].doc = desk[k].doc
         /\ desk'[k].old = desk[k].old /\ desk'[k].to = desk[k].to /\ desk'[k].had = desk[k].had
  <1> DEFINE rec == [desk[k] EXCEPT !.pc = pc]
  <1>1. desk[k] \in Desk /\ Fits(desk[k]) /\ (HasDoc(desk[k]) => code[desk[k].doc] # NoCode)
    BY DEF DesksOK
  <1>2. /\ rec \in Desk /\ rec.pc = pc /\ rec.kind = desk[k].kind /\ rec.doc = desk[k].doc
        /\ rec.old = desk[k].old /\ rec.to = desk[k].to /\ rec.had = desk[k].had
    BY <1>1, DeskFields
  <1>3. desk' = [desk EXCEPT ![k] = rec]
    BY Zenon DEF DeskGoto
  <1> HIDE DEF rec
  <1>4. HasDoc(rec) => HasDoc(desk[k])
    BY <1>2 DEF HasDoc
  <1>5. Fits(rec)
    BY <1>1, <1>2, <1>4 DEF Fits
  <1>6. HasDoc(rec) => code'[rec.doc] # NoCode
    BY <1>1, <1>2, <1>4 DEF Fits
  <1> QED
    BY <1>2, <1>3, <1>5, <1>6, DeskTurn

LEMMA NoDeskFits == NoDesk \in Desk /\ Fits(NoDesk)
  BY DepartmentsAssumption DEF NoDesk, Desk, Fits, HasDoc, DeskPCs, DeskKinds, LoginStates

LEMMA AskedKinds ==
  ASSUME NEW k \in Clerk
  PROVE  Asked(k) \subseteq DeskKinds /\ (Asked(k) # {} => desk[k].pc = "idle")
  BY DepartmentsAssumption DEF Asked

\* What a clerk's call begins with.
LEMMA ReadTurn ==
  ASSUME Orderly, NEW k \in Clerk, NEW i \in DeptId, NEW kind \in DeskKinds, NEW pc \in DeskPCs,
         NEW c \in Dept \cup {NoCode}, NEW on \in BOOLEAN, Read(k, i, kind, pc, c, on)
  PROVE  \E rec \in Desk :
            /\ desk' = [desk EXCEPT ![k] = rec]
            /\ rec.kind = kind /\ rec.doc = i /\ rec.old = code[i] /\ rec.to = c /\ rec.pc = pc
            /\ code[i] \in Dept
            /\ UNCHANGED <<rosterVars, code, active, login, visit, start>>
  <1> DEFINE rec == [NoDesk EXCEPT !.kind = kind, !.doc = i, !.old = code[i],
                    !.to = c, !.on = on, !.had = login[code[i]], !.pc = pc]
  <1>1. code[i] \in Dept /\ login[code[i]] \in LoginStates
    BY DEF Read, Orderly, PagesOK
  <1>2. desk' = [desk EXCEPT ![k] = rec]
    BY Zenon DEF Read
  <1>3. rec \in Desk
    BY <1>1, NoDeskFits DEF NoDesk, Desk
  <1>4. rec.kind = kind /\ rec.doc = i /\ rec.old = code[i] /\ rec.to = c /\ rec.pc = pc
    BY DEF NoDesk
  <1>5. UNCHANGED <<rosterVars, code, active, login, visit, start>>
    BY DEF Read
  <1> HIDE DEF rec
  <1> QED
    BY <1>1, <1>2, <1>3, <1>4, <1>5

\* A call that has begun.
LEMMA BegunDesk ==
  ASSUME Orderly, NEW k \in Clerk,
         \/ StartDepartment(k) \/ StartRename(k) \/ StartToggle(k) \/ StartRemoval(k)
         \/ StartPassword(k)
  PROVE  \E rec \in Desk, kind \in Asked(k) :
            /\ desk' = [desk EXCEPT ![k] = rec] /\ rec.kind = kind
            /\ UNCHANGED <<rosterVars, code, active, login, visit, start>>
            /\ Fits(rec)
            /\ HasDoc(rec) => code[rec.doc] \in Dept /\ rec.old = code[rec.doc]
            /\ rec.pc \in {"done", "insert", "check", "write", "count", "store"}
            /\ rec.pc = "store" => rec.to \in Registered
  <1>0. Asked(k) \subseteq DeskKinds /\ \A pc \in {"done", "insert", "check", "write", "count", "store"} :
              pc \in DeskPCs
    BY AskedKinds DEF DeskPCs
  <1>1. CASE StartDepartment(k)
    <2>1. PICK kind \in Asked(k) \cap {"add"}, c \in Dept, on \in BOOLEAN :
              StartDepartment(k)!(kind, c, on)
      BY <1>1 DEF StartDepartment
    <2> DEFINE pc  == IF CodeTaken(c, {}) THEN "done" ELSE "insert"
               rec == [NoDesk EXCEPT !.kind = kind, !.to = c, !.on = on, !.pc = pc]
    <2>2. desk' = [desk EXCEPT ![k] = rec]
      BY <2>1, Zenon
    <2>3. pc \in {"done", "insert"}
      OBVIOUS
    <2> HIDE DEF pc
    <2>4. rec \in Desk /\ rec.kind = kind /\ rec.pc = pc /\ rec.to = c
      BY <1>0, <2>3, NoDeskFits DEF NoDesk, Desk
    <2> HIDE DEF rec
    <2>5. Fits(rec) /\ ~HasDoc(rec)
      BY <2>3, <2>4 DEF Fits, HasDoc
    <2>6. UNCHANGED <<rosterVars, code, active, login, visit, start>>
      BY <2>1
    <2> QED
      BY <2>2, <2>3, <2>4, <2>5, <2>6
  <1>2. CASE StartRename(k)
    <2>0. PICK kind \in Asked(k) \cap {"edit"}, i \in DeptId, c \in Dept :
              Read(k, i, kind, "check", c, i \in active)
      BY <1>2 DEF StartRename
    <2>1. \E on \in BOOLEAN : Read(k, i, kind, "check", c, on)
      <3>1. (i \in active) \in BOOLEAN
        OBVIOUS
      <3> QED
        BY <2>0, <3>1, Zenon
    <2>2. PICK rec \in Desk :
            /\ desk' = [desk EXCEPT ![k] = rec]
            /\ rec.kind = kind /\ rec.doc = i /\ rec.old = code[i] /\ rec.to = c /\ rec.pc = "check"
            /\ code[i] \in Dept
            /\ UNCHANGED <<rosterVars, code, active, login, visit, start>>
      BY <1>0, <2>1, ReadTurn
    <2>3. Fits(rec)
      BY <2>2 DEF Fits
    <2> QED
      BY <2>2, <2>3
  <1>3. CASE StartToggle(k)
    <2>1. PICK kind \in Asked(k) \cap {"toggle"}, i \in DeptId, on \in BOOLEAN :
              Read(k, i, kind, "write", NoCode, on)
      BY <1>3 DEF StartToggle
    <2>2. PICK rec \in Desk :
            /\ desk' = [desk EXCEPT ![k] = rec]
            /\ rec.kind = kind /\ rec.doc = i /\ rec.old = code[i] /\ rec.pc = "write"
            /\ code[i] \in Dept
            /\ UNCHANGED <<rosterVars, code, active, login, visit, start>>
      BY <1>0, <2>1, ReadTurn
    <2>3. Fits(rec)
      BY <2>2 DEF Fits
    <2> QED
      BY <2>2, <2>3
  <1>4. CASE StartRemoval(k)
    <2>1. PICK kind \in Asked(k) \cap {"delete"}, i \in DeptId :
              \E on \in BOOLEAN : Read(k, i, kind, "count", NoCode, on)
      BY <1>4, Zenon DEF StartRemoval
    <2>2. PICK rec \in Desk :
            /\ desk' = [desk EXCEPT ![k] = rec]
            /\ rec.kind = kind /\ rec.doc = i /\ rec.old = code[i] /\ rec.pc = "count"
            /\ code[i] \in Dept
            /\ UNCHANGED <<rosterVars, code, active, login, visit, start>>
      BY <1>0, <2>1, ReadTurn
    <2>3. Fits(rec)
      BY <2>2 DEF Fits
    <2> QED
      BY <2>2, <2>3
  <1>5. CASE StartPassword(k)
    <2>1. PICK kind \in Asked(k) \cap {"password"}, c \in Registered :
              StartPassword(k)!(kind, c)
      BY <1>5 DEF StartPassword
    <2> DEFINE rec == [NoDesk EXCEPT !.kind = kind, !.to = c, !.pc = "store"]
    <2>2. desk' = [desk EXCEPT ![k] = rec]
      BY <2>1, Zenon
    <2>3. c \in Dept
      BY DEF Registered
    <2>4. rec \in Desk /\ rec.kind = kind /\ rec.pc = "store" /\ rec.to = c
      BY <1>0, <2>3, NoDeskFits DEF NoDesk, Desk
    <2> HIDE DEF rec
    <2>5. Fits(rec) /\ ~HasDoc(rec)
      BY <2>3, <2>4 DEF Fits, HasDoc
    <2>6. UNCHANGED <<rosterVars, code, active, login, visit, start>>
      BY <2>1
    <2> QED
      BY <2>2, <2>4, <2>5, <2>6
  <1> QED
    BY <1>1, <1>2, <1>3, <1>4, <1>5

LEMMA BeginningsOrderly ==
  ASSUME Orderly, NEW k \in Clerk,
         \/ StartDepartment(k) \/ StartRename(k) \/ StartToggle(k) \/ StartRemoval(k)
         \/ StartPassword(k)
  PROVE  Orderly'
  <1>1. PICK rec \in Desk :
            /\ desk' = [desk EXCEPT ![k] = rec] /\ Fits(rec)
            /\ UNCHANGED <<rosterVars, code, active, login, visit, start>>
            /\ HasDoc(rec) => code[rec.doc] \in Dept
    BY BegunDesk
  <1>2. HasDoc(rec) => code'[rec.doc] # NoCode
    BY <1>1, DepartmentsAssumption
  <1>3. DesksOK'
    BY <1>1, <1>2, DeskTurn DEF Orderly
  <1>4. Sound' /\ CodesOK' /\ PagesOK'
    BY <1>1, RosterStays DEF Orderly, CodesOK, PagesOK
  <1> QED
    BY <1>3, <1>4 DEF Orderly

\* The department asked for is added unless it is there.
LEMMA InsertDepartmentOrderly ==
  ASSUME Orderly, NEW k \in Clerk, InsertDepartment(k)
  PROVE  /\ Orderly'
         /\ Registered \subseteq Registered'
         /\ \A i \in DeptId : code[i] # NoCode => code'[i] = code[i]
  <1>1. desk[k].to \in Dept /\ desk[k].on \in BOOLEAN
    BY DEF InsertDepartment, Orderly, DesksOK, Fits, Desk
  <1>2. /\ CodesOK' /\ Registered \subseteq Registered'
        /\ \A i \in DeptId : code[i] # NoCode => code'[i] = code[i]
    <2>1. CASE CodeTaken(desk[k].to, {})
      BY <2>1 DEF InsertDepartment, Orderly, CodesOK, Registered
    <2>2. CASE ~CodeTaken(desk[k].to, {})
      <3>1. desk[k].to \notin Registered
        BY <2>2 DEF CodeTaken, Registered
      <3>2. Inserted({desk[k].to}, desk[k].on)
        BY <2>2 DEF InsertDepartment
      <3> QED
        BY <1>1, <3>1, <3>2, InsertedCodes DEF Orderly
    <2> QED
      BY <2>1, <2>2
  <1>3. DesksOK'
    BY <1>2, DeskGoes DEF InsertDepartment, Orderly, DeskPCs
  <1>4. Sound' /\ PagesOK'
    BY RosterStays DEF InsertDepartment, Orderly, PagesOK
  <1> QED
    BY <1>2, <1>3, <1>4 DEF Orderly

\* A clerk's step that leaves the departments alone.
LEMMA DeskOnly ==
  ASSUME Orderly, UNCHANGED <<rosterVars, code, active, visit, start>>,
         login' \in [Dept -> LoginStates], DesksOK'
  PROVE  Orderly'
  BY RosterStays DEF Orderly, CodesOK, PagesOK

LEMMA DeskStepsOrderly ==
  ASSUME Orderly, NEW k \in Clerk,
         CheckRename(k) \/ DropLogin(k) \/ CountStudents(k) \/ StorePassword(k) \/ CarryLogin(k)
  PROVE  Orderly'
  <1>1. desk[k] \in Desk /\ Fits(desk[k]) /\ login \in [Dept -> LoginStates] /\ DesksOK
    BY DEF Orderly, DesksOK, PagesOK
  <1>2. UNCHANGED <<rosterVars, code, active, visit, start>>
    BY DEF CheckRename, DropLogin, CountStudents, StorePassword, CarryLogin
  <1>3. login' \in [Dept -> LoginStates]
    BY <1>1 DEF CheckRename, DropLogin, CountStudents, StorePassword, CarryLogin,
       Fits, Desk, LoginStates, HasDoc
  <1>4. PICK pc \in DeskPCs : DeskGoto(k, pc) /\
            (\/ pc = "done"
             \/ pc = "write" /\ desk[k].pc = "check"
             \/ pc = "drop" /\ desk[k].pc = "carry"
             \/ pc = "remove" /\ desk[k].pc = "count")
    BY DEF CheckRename, DropLogin, CountStudents, StorePassword, CarryLogin, DeskPCs
  <1>5. DesksOK'
    BY <1>1, <1>2, <1>4, DeskGoes
  <1> QED
    BY <1>2, <1>3, <1>5, DeskOnly

LEMMA FindLoginsTurn ==
  ASSUME Orderly, NEW k \in Clerk, FindLogins(k)
  PROVE  \E rec \in Desk :
            /\ desk' = [desk EXCEPT ![k] = rec] /\ Fits(rec)
            /\ rec.kind = "edit" /\ rec.doc = desk[k].doc /\ rec.old = desk[k].old
            /\ rec.to = desk[k].to /\ rec.had = login[desk[k].old]
            /\ rec.pc = IF login[desk[k].old] = "none" \/ login[desk[k].to] # "none"
                        THEN "done" ELSE "carry"
  <1> DEFINE pc  == IF login[desk[k].old] = "none" \/ login[desk[k].to] # "none"
                    THEN "done" ELSE "carry"
             rec == [desk[k] EXCEPT !.had = login[desk[k].old], !.pc = pc]
  <1>1. desk[k] \in Desk /\ Fits(desk[k]) /\ login \in [Dept -> LoginStates] /\ desk[k].pc = "find"
    BY DEF FindLogins, Orderly, DesksOK, PagesOK
  <1>2. desk[k].old \in Dept /\ desk[k].kind = "edit" /\ desk[k].doc \in DeptId /\ desk[k].to \in Dept
    BY <1>1 DEF Fits, HasDoc
  <1>3. desk' = [desk EXCEPT ![k] = rec]
    BY Zenon DEF FindLogins
  <1>4. pc \in DeskPCs /\ pc \in {"done", "carry"}
    BY DEF DeskPCs
  <1> HIDE DEF pc
  <1>5. /\ rec \in Desk /\ rec.pc = pc /\ rec.kind = "edit" /\ rec.doc = desk[k].doc
        /\ rec.old = desk[k].old /\ rec.to = desk[k].to /\ rec.had = login[desk[k].old]
    BY <1>1, <1>2, <1>4 DEF Desk
  <1> HIDE DEF rec
  <1>6. Fits(rec)
    BY <1>2, <1>4, <1>5 DEF Fits
  <1> QED
    BY <1>3, <1>5, <1>6 DEF pc

LEMMA FindLoginsOrderly ==
  ASSUME Orderly, NEW k \in Clerk, FindLogins(k)
  PROVE  Orderly'
  <1>1. PICK rec \in Desk : desk' = [desk EXCEPT ![k] = rec] /\ Fits(rec) /\ rec.doc = desk[k].doc
    BY FindLoginsTurn
  <1>2. UNCHANGED <<rosterVars, code, active, login, visit, start>> /\ HasDoc(desk[k])
    BY DEF FindLogins, HasDoc
  <1>3. DesksOK'
    BY <1>1, <1>2, DeskTurn DEF Orderly, DesksOK
  <1> QED
    BY <1>2, <1>3, DeskOnly DEF Orderly, PagesOK

\* The code of a document changes to one that no other document has.
LEMMA RenameOrderly ==
  ASSUME Orderly, NEW k \in Clerk, Rename(k)
  PROVE  Orderly'
  <1> DEFINE me == desk[k]
  <1>1. /\ me.pc = "write" /\ me.kind = "edit" /\ me.doc \in DeptId /\ me.to \in Dept
        /\ me.on \in BOOLEAN /\ code[me.doc] # NoCode /\ DesksOK /\ CodesOK
    BY DEF Rename, Orderly, DesksOK, Fits, HasDoc, Desk
  <1>2. NoCode \notin Dept /\ Gone \notin Dept
    BY DepartmentsAssumption
  <1>3. CASE code[me.doc] = Gone \/ CodeTaken(me.to, {me.doc})
    <2>1. DesksOK'
      BY <1>1, <1>3, DeskGoes DEF Rename, DeskPCs
    <2> QED
      BY <1>3, <2>1, DeskOnly DEF Rename, Orderly, PagesOK
  <1>4. CASE ~(code[me.doc] = Gone \/ CodeTaken(me.to, {me.doc}))
    <2>1. \A i \in DeptId : code'[i] = IF i = me.doc THEN me.to ELSE code[i]
      BY <1>1, <1>4 DEF Rename, CodesOK
    <2>2. \A i \in DeptId \ {me.doc} : code[i] # me.to
      BY <1>4 DEF CodeTaken
    <2>3. CodesOK'
      <3>1. code' \in [DeptId -> Dept \cup {NoCode, Gone}]
        BY <1>1, <1>4 DEF Rename, CodesOK
      <3>2. \A i, j \in DeptId : code'[i] = code'[j] /\ code'[i] \in Dept => i = j
        BY <1>1, <2>1, <2>2 DEF CodesOK
      <3>3. active' \subseteq active \cup {me.doc}
        BY <1>4 DEF Rename
      <3>4. active' \subseteq {i \in DeptId : code'[i] \in Dept}
        BY <1>1, <2>1, <3>3 DEF CodesOK
      <3> QED
        BY <3>1, <3>2, <3>4 DEF CodesOK
    <2>4. \A i \in DeptId : code[i] # NoCode => code'[i] # NoCode
      BY <1>1, <1>2, <2>1
    <2>5. DesksOK'
      BY <1>1, <1>4, <2>4, DeskGoes DEF Rename, DeskPCs
    <2>6. Sound' /\ PagesOK'
      BY RosterStays DEF Rename, Orderly, PagesOK
    <2> QED
      BY <2>3, <2>5, <2>6 DEF Orderly
  <1> QED
    BY <1>3, <1>4

LEMMA ToggleOrderly ==
  ASSUME Orderly, NEW k \in Clerk, Toggle(k)
  PROVE  Orderly'
  <1> DEFINE me == desk[k]
  <1>1. me.doc \in DeptId /\ code[me.doc] # NoCode /\ DesksOK /\ CodesOK
    BY DEF Toggle, Orderly, DesksOK, Fits, HasDoc
  <1>2. UNCHANGED <<rosterVars, code, login, visit, start>>
    BY DEF Toggle
  <1>3. active' \subseteq active \cup {me.doc} /\ (code[me.doc] = Gone => active' = active)
    BY DEF Toggle
  <1>4. CodesOK'
    <2>1. active' \subseteq {i \in DeptId : code[i] \in Dept}
      BY <1>1, <1>3 DEF CodesOK
    <2> QED
      BY <1>1, <1>2, <2>1 DEF CodesOK
  <1>5. DesksOK'
    BY <1>1, <1>2, DeskGoes DEF Toggle, DeskPCs
  <1>6. Sound' /\ PagesOK'
    BY <1>2, RosterStays DEF Orderly, PagesOK
  <1> QED
    BY <1>4, <1>5, <1>6 DEF Orderly

LEMMA RemoveDepartmentOrderly ==
  ASSUME Orderly, NEW k \in Clerk, RemoveDepartment(k)
  PROVE  Orderly'
  <1> DEFINE me == desk[k]
  <1>1. me.doc \in DeptId /\ me.pc = "remove" /\ DesksOK /\ CodesOK
    BY DEF RemoveDepartment, Orderly, DesksOK, Fits, HasDoc
  <1>2. NoCode \notin Dept /\ Gone \notin Dept /\ NoCode # Gone
    BY DepartmentsAssumption
  <1>3. \A i \in DeptId : code'[i] = IF i = me.doc THEN Gone ELSE code[i]
    BY <1>1 DEF RemoveDepartment, CodesOK
  <1>4. CodesOK'
    <2>1. code' \in [DeptId -> Dept \cup {NoCode, Gone}]
      BY <1>1 DEF RemoveDepartment, CodesOK
    <2>2. active' = active \ {me.doc}
      BY DEF RemoveDepartment
    <2> QED
      BY <1>1, <1>2, <1>3, <2>1, <2>2 DEF CodesOK
  <1>5. DesksOK'
    BY <1>1, <1>2, <1>3, DeskGoes DEF RemoveDepartment, DeskPCs
  <1>6. Sound' /\ PagesOK'
    BY RosterStays DEF RemoveDepartment, Orderly, PagesOK
  <1> QED
    BY <1>4, <1>5, <1>6 DEF Orderly

\* Pages add departments that are not there, and touch nothing else.
LEMMA PageOrderly ==
  ASSUME Orderly, NEW v \in Visitor, OnPage(v)
  PROVE  /\ Orderly' /\ UNCHANGED <<login, desk, start>>
         /\ Registered \subseteq Registered'
         /\ \A i \in DeptId : code[i] # NoCode => code'[i] = code[i]
  <1>1. CASE CountDepartments(v) \/ ReadRoster(v) \/ ReadCodes(v)
    <2>1. UNCHANGED <<rosterVars, code, active, login, desk, start>>
      BY <1>1 DEF CountDepartments, ReadRoster, ReadCodes
    <2>2. PICK pc \in {"idle", "seed", "roster", "codes", "upsert"}, C \in SUBSET Dept :
              VisitGoto(v, pc, C)
      <3>1. visit[v].codes \subseteq Dept
        BY DEF Orderly, PagesOK
      <3>2. CASE CountDepartments(v)
        <4>1. \E pc \in {"idle", "seed", "roster", "codes", "upsert"} : VisitGoto(v, pc, {})
          BY <3>2 DEF CountDepartments
        <4> QED
          BY <4>1
      <3>3. CASE ReadRoster(v)
        <4>1. {c \in Dept : Enrolled(c) # {}} \in SUBSET Dept
          OBVIOUS
        <4> QED
          BY <3>3, <4>1 DEF ReadRoster
      <3>4. CASE ReadCodes(v)
        <4> DEFINE C == visit[v].codes \ Registered
        <4>1. C \in SUBSET Dept
          BY <3>1
        <4>2. \E pc \in {"idle", "upsert"} : VisitGoto(v, pc, C)
          BY <3>4 DEF ReadCodes
        <4> QED
          BY <4>1, <4>2
      <3> QED
        BY <1>1, <3>2, <3>3, <3>4
    <2>3. PagesOK'
      BY <2>1, <2>2 DEF Orderly, PagesOK, VisitGoto
    <2>4. Sound' /\ CodesOK' /\ DesksOK' /\ Registered' = Registered
      BY <2>1, RosterStays DEF Orderly, CodesOK, DesksOK, Registered
    <2> QED
      BY <2>1, <2>3, <2>4 DEF Orderly
  <1>2. CASE Seed(v) \/ Register(v)
    <2>1. UNCHANGED <<rosterVars, login, desk, start>>
      BY <1>2 DEF Seed, Register
    <2>2. PICK C \in SUBSET Dept : C \cap Registered = {} /\ Inserted(C, TRUE)
      <3>1. CASE Seed(v)
        <4>1. Defaults \ Registered \in SUBSET Dept
          BY DepartmentsAssumption
        <4> QED
          BY <3>1, <4>1, Zenon DEF Seed
      <3>2. CASE Register(v)
        <4>1. PICK c \in visit[v].codes : Inserted({c} \ Registered, TRUE)
          BY <3>2, Zenon DEF Register
        <4>2. {c} \ Registered \in SUBSET Dept
          BY DEF Orderly, PagesOK
        <4> QED
          BY <4>1, <4>2, Zenon
      <3> QED
        BY <1>2, <3>1, <3>2
    <2>3. \E on \in BOOLEAN : Inserted(C, on)
      BY <2>2, Zenon
    <2>4. /\ CodesOK' /\ Registered \subseteq Registered'
          /\ \A i \in DeptId : code[i] # NoCode => code'[i] = code[i]
      <3>1. PICK on \in BOOLEAN : Inserted(C, on)
        BY <2>3
      <3>2. CodesOK
        BY DEF Orderly
      <3> QED
        BY <2>2, <3>1, <3>2, InsertedCodes
    <2>5. PICK pc \in {"idle", "seed", "roster", "codes", "upsert"}, rest \in SUBSET Dept :
              VisitGoto(v, pc, rest)
      <3>1. CASE Seed(v)
        BY <3>1 DEF Seed
      <3>2. CASE Register(v)
        <4>1. PICK c \in visit[v].codes : LET rest == visit[v].codes \ {c}
                  IN VisitGoto(v, IF rest = {} THEN "idle" ELSE "upsert", rest)
          BY <3>2, Zenon DEF Register
        <4> DEFINE rest == visit[v].codes \ {c}
        <4>2. rest \in SUBSET Dept
          BY DEF Orderly, PagesOK
        <4>3. \E pc \in {"idle", "upsert"} : VisitGoto(v, pc, rest)
          BY <4>1
        <4> QED
          BY <4>2, <4>3
      <3> QED
        BY <1>2, <3>1, <3>2
    <2>6. PagesOK'
      BY <2>1, <2>5 DEF Orderly, PagesOK, VisitGoto
    <2>7. DesksOK'
      BY <2>1, <2>4 DEF Orderly, DesksOK, Fits, HasDoc
    <2>8. Sound'
      BY <2>1, RosterStays DEF Orderly
    <2> QED
      BY <2>1, <2>4, <2>6, <2>7, <2>8 DEF Orderly
  <1> QED
    BY <1>1, <1>2 DEF OnPage

\* A process looks for a default login and stores it.
LEMMA StartOrderly ==
  ASSUME Orderly, NEW p \in Starter, AtStart(p)
  PROVE  Orderly' /\ UNCHANGED <<code, active, desk, visit>>
  <1>1. UNCHANGED <<rosterVars, code, active, desk, visit>>
    BY DEF AtStart, FindDefault, CreateDefault
  <1>2. PagesOK'
    <2>1. CASE FindDefault(p)
      <3>1. PICK c \in start[p].todo : FindDefault(p)!(c)
        BY <2>1 DEF FindDefault
      <3> DEFINE next == IF login[c] = "none" THEN c ELSE NoCode
      <3>2. c \in Defaults /\ start[p].todo \ {c} \in SUBSET Defaults
        BY DEF Orderly, PagesOK
      <3>3. next \in Defaults \cup {NoCode}
        BY <3>2
      <3>4. start' = [start EXCEPT ![p] = [todo |-> start[p].todo \ {c}, next |-> next]]
        BY <3>1
      <3> HIDE DEF next
      <3>5. start' \in [Starter -> [todo : SUBSET Defaults, next : Defaults \cup {NoCode}]]
        BY <3>2, <3>3, <3>4 DEF Orderly, PagesOK
      <3>6. login' = login
        BY <3>1
      <3> QED
        BY <1>1, <3>5, <3>6 DEF Orderly, PagesOK
    <2>2. CASE CreateDefault(p)
      <3>1. start' = [start EXCEPT ![p] = [start[p] EXCEPT !.next = NoCode]]
        BY <2>2, Zenon DEF CreateDefault
      <3>2. [start[p] EXCEPT !.next = NoCode] \in [todo : SUBSET Defaults, next : Defaults \cup {NoCode}]
        BY DEF Orderly, PagesOK
      <3>3. login' \in [Dept -> LoginStates]
        BY <2>2 DEF CreateDefault, Orderly, PagesOK, LoginStates
      <3> QED
        BY <1>1, <3>1, <3>2, <3>3 DEF Orderly, PagesOK
    <2> QED
      BY <2>1, <2>2 DEF AtStart
  <1>3. Sound' /\ CodesOK' /\ DesksOK'
    BY <1>1, RosterStays DEF Orderly, CodesOK, DesksOK
  <1> QED
    BY <1>1, <1>2, <1>3 DEF Orderly

LEMMA OrderlyInit == PortalInit => Orderly
  <1> SUFFICES ASSUME PortalInit PROVE Orderly
    OBVIOUS
  <1>1. Sound
    BY SoundInit DEF PortalInit
  <1>2. CodesOK
    <2>1. code \in [DeptId -> Dept \cup {NoCode}] /\ active = {i \in DeptId : code[i] \in Dept}
      BY DepartmentsAssumption DEF PortalInit
    <2>2. \A i, j \in DeptId : code[i] = code[j] /\ code[i] \in Dept => i = j
      BY DepartmentsAssumption DEF PortalInit
    <2> QED
      BY <2>1, <2>2 DEF CodesOK
  <1>3. DesksOK
    BY NoDeskFits DEF DesksOK, PortalInit, NoDesk, HasDoc
  <1>4. PagesOK
    BY DEF PagesOK, PortalInit, LoginStates
  <1> QED
    BY <1>1, <1>2, <1>3, <1>4 DEF Orderly

LEMMA OrderlyStep ==
  ASSUME Orderly, [PortalNext]_portalVars
  PROVE  Orderly'
  <1>1. CASE RosterStepHere
    <2>1. Sound' /\ UNCHANGED deptVars
      BY <1>1, SoundStep DEF RosterStepHere, Orderly
    <2> QED
      BY <2>1 DEF Orderly, CodesOK, DesksOK, PagesOK, deptVars
  <1>2. ASSUME NEW k \in Clerk, AtDesk(k) PROVE Orderly'
    BY <1>2, BeginningsOrderly, InsertDepartmentOrderly, DeskStepsOrderly, FindLoginsOrderly,
       RenameOrderly, ToggleOrderly, RemoveDepartmentOrderly DEF AtDesk
  <1>3. ASSUME NEW v \in Visitor, OnPage(v) PROVE Orderly'
    BY <1>3, PageOrderly
  <1>4. ASSUME NEW p \in Starter, AtStart(p) PROVE Orderly'
    BY <1>4, StartOrderly
  <1>5. CASE UNCHANGED portalVars
    <2>1. Sound'
      BY <1>5, RosterStays DEF portalVars, rosterVars, Orderly
    <2> QED
      BY <1>5, <2>1 DEF portalVars, Orderly, CodesOK, DesksOK, PagesOK
  <1> QED
    BY <1>1, <1>2, <1>3, <1>4, <1>5 DEF PortalNext

\* Codes stay unique and the roster and the logins keep their types, whatever
\* the clerks, the pages and the processes that start do at once.
THEOREM PortalTypeCorrect == PortalSpec => []PortalTypeOK
  <1>1. Orderly /\ [PortalNext]_portalVars => Orderly'
    BY OrderlyStep
  <1> QED
    BY <1>1, OrderlyInit, OrderlyTyped, PTL DEF PortalSpec
=============================================================================
