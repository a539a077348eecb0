---------------------------- MODULE RosterProofs ----------------------------
(***************************************************************************)
(* The roster for any number of editors, students, departments and copies. *)
(*                                                                         *)
(* Sound ties a call's place in its code to its kind and to the class it   *)
(* was asked for, which types need.  PromotionAlone then rests on LockKept:*)
(* the lock has one holder, and once the grace period is over nobody else  *)
(* is on the way to a write, whatever calls begin afterwards.              *)
(*                                                                         *)
(* NobodyLost rests on Books: who may still take back a student, and which *)
(* copy he has until then.  RestoredWhole rests on Backs: what a call has  *)
(* inserted is there, or a removal has it.  ClassesWhole rests on Whole    *)
(* beside LockKept and Books: the students nobody has on trial have one    *)
(* semester in each class, whatever those on trial have.                   *)
(***************************************************************************)
EXTENDS Roster, FiniteSetTheorems, TLAPS

\* What the kind of a call and its place in the code say about each other.
Sensible(l) ==
    /\ l.kind \in Editing => l.to \in Place /\ l.was \in Place
    /\ l.pc \in {"move", "settle"} => l.kind = "promote" /\ l.to \in Place /\ l.was \in Place
    /\ l.pc = "repair" => l.kind = "fix" /\ l.to \in Place
    /\ l.pc = "grace" => l.kind = "promote"
    /\ l.pc \in {"plan", "release"} => l.kind \in Locking
    /\ l.pc \in {"copy", "remove", "clear"} => l.kind \in {"delete", "sem8"}
    /\ l.pc \in {"save", "unsave"} => l.kind \in Editing
    /\ l.pc \in {"look", "check", "insert", "save", "verify", "unadd", "unsave",
                 "dues", "drop"} => l.kind \notin Locking

Sound == RosterTypeOK /\ \A p \in Editor : Sensible(call[p])

-----------------------------------------------------------------------------
(***************************************************************************)
(* The local variables of one call.                                        *)
(***************************************************************************)

\* A call goes on with a sensible record.
LEMMA TurnSound ==
  ASSUME Sound, NEW p \in Editor, NEW rec \in Local, Sensible(rec),
         call' = [call EXCEPT ![p] = rec]
  PROVE  call' \in [Editor -> Local] /\ \A q \in Editor : Sensible(call[q])'
  <1>1. call \in [Editor -> Local]
    BY DEF Sound, RosterTypeOK
  <1>2. call' \in [Editor -> Local] /\ call'[p] = rec /\ \A q \in Editor \ {p} : call'[q] = call[q]
    BY <1>1
  <1>3. \A q \in Editor : Sensible(call'[q])
    BY <1>2 DEF Sound
  <1> QED
    BY <1>2, <1>3 DEF Sensible

\* A call changes its place in the code only.
LEMMA PcFields ==
  ASSUME NEW rec \in Local, NEW pc \in PCs
  PROVE  LET new == [rec EXCEPT !.pc = pc]
         IN  /\ new \in Local /\ new.kind = rec.kind /\ new.pc = pc
             /\ new.to = rec.to /\ new.was = rec.was
  BY DEF Local

LEMMA GotoSound ==
  ASSUME Sound, NEW p \in Editor, NEW pc \in PCs, Goto(p, pc),
         Sensible([call[p] EXCEPT !.pc = pc])
  PROVE  call' \in [Editor -> Local] /\ \A q \in Editor : Sensible(call[q])'
  <1>1. call' = [call EXCEPT ![p] = [call[p] EXCEPT !.pc = pc]]
    BY Zenon DEF Goto
  <1>2. [call[p] EXCEPT !.pc = pc] \in Local
    BY PcFields DEF Sound, RosterTypeOK
  <1> QED
    BY <1>1, <1>2, TurnSound

\* Places where no more than the kind counts.
LEMMA PlainGoto ==
  ASSUME Sound, NEW p \in Editor, NEW pc \in PCs, Goto(p, pc),
         \/ pc \in {"done", "killed"}
         \/ pc \in {"look", "check", "insert", "verify", "unadd", "dues", "drop"}
            /\ call[p].kind \notin Locking
         \/ pc \in {"save", "unsave"} /\ call[p].kind \in Editing
         \/ pc \in {"plan", "release"} /\ call[p].kind \in Locking
         \/ pc \in {"remove", "clear"} /\ call[p].kind \in {"delete", "sem8"}
         \/ pc = "settle" /\ call[p].pc = "move"
  PROVE  call' \in [Editor -> Local] /\ \A q \in Editor : Sensible(call[q])'
  <1> DEFINE rec == [call[p] EXCEPT !.pc = pc]
  <1>1. call[p] \in Local /\ Sensible(call[p])
    BY DEF Sound, RosterTypeOK
  <1>2. rec.kind = call[p].kind /\ rec.pc = pc /\ rec.to = call[p].to /\ rec.was = call[p].was
    BY <1>1, PcFields
  <1>3. Sensible(rec)
    <2> HIDE DEF rec
    <2> QED
      BY <1>1, <1>2 DEF Sensible, Editing, Locking
  <1> QED
    BY <1>3, GotoSound

LEMMA Blank ==
  ASSUME NEW kind \in Kinds, NEW rec \in Local
  PROVE  /\ [rec EXCEPT !.kind = kind] \in Local
         /\ [rec EXCEPT !.kind = kind].kind = kind /\ [rec EXCEPT !.kind = kind].pc = rec.pc
         /\ [rec EXCEPT !.kind = kind].to = rec.to /\ [rec EXCEPT !.kind = kind].was = rec.was
  BY DEF Local

LEMMA NoCallSound == RosterAssumption => NoCall \in Local /\ Sensible(NoCall)
  BY DEF NoCall, Local, PCs, Kinds, Adding, Editing, Locking, Sensible

LEMMA BeginSound ==
  ASSUME Sound, NEW p \in Editor, NEW kind \in Kinds, NEW rec \in Local,
         Begin(p, kind, rec), Sensible([rec EXCEPT !.kind = kind])
  PROVE  call' \in [Editor -> Local] /\ \A q \in Editor : Sensible(call[q])'
  BY Blank, TurnSound DEF Begin

LEMMA OpenKinds ==
  ASSUME Sound, NEW p \in Editor
  PROVE  Open(p) \subseteq Kinds /\ (Open(p) # {} => call[p].pc = "idle")
  BY RosterAssumption DEF Sound, RosterTypeOK, Open

-----------------------------------------------------------------------------
(***************************************************************************)
(* Types, action by action.                                                *)
(***************************************************************************)
LEMMA StartAddingSound ==
  ASSUME Sound, NEW p \in Editor, StartAdding(p)
  PROVE  Sound'
  <1>1. PICK kind \in Open(p) \cap Adding, S \in SUBSET Student, to \in Place :
            StartAdding(p)!(kind, S, to)
    BY DEF StartAdding
  <1> DEFINE rec == [NoCall EXCEPT !.who = S, !.to = to,
                             !.pc = IF kind = "import" THEN "look" ELSE "check"]
  <1>2. rec \in Local /\ rec.pc \in {"look", "check"}
    BY NoCallSound, RosterAssumption DEF NoCall, Local, PCs
  <1>3. Begin(p, kind, rec) /\ kind \in Kinds
    BY <1>1, OpenKinds
  <1>4. Sensible([rec EXCEPT !.kind = kind])
    <2> HIDE DEF rec
    <2> QED
      BY <1>1, <1>2, <1>3, Blank DEF Sensible, Adding, Editing, Locking
  <1>5. call' \in [Editor -> Local] /\ \A q \in Editor : Sensible(call[q])'
    BY <1>2, <1>3, <1>4, BeginSound
  <1> QED
    BY <1>1, <1>5 DEF Sound, RosterTypeOK

LEMMA LookForDuplicatesTurn ==
  ASSUME Sound, NEW p \in Editor, LookForDuplicates(p)
  PROVE  \E rec \in Local : /\ call' = [call EXCEPT ![p] = rec]
                            /\ rec.pc \in {"done", "check", "insert"}
                            /\ rec.pc = "insert" => call[p].kind # "import"
                            /\ rec.kind = call[p].kind /\ rec.to = call[p].to /\ rec.was = call[p].was
  <1> DEFINE S   == {s \in call[p].who : ~RegTaken(s)}
             pc  == IF S = {} THEN "done"
                    ELSE IF call[p].kind = "import" THEN "check" ELSE "insert"
             rec == [call[p] EXCEPT !.who = S, !.pc = pc]
  <1>1. call[p] \in Local
    BY DEF Sound, RosterTypeOK
  <1>2. S \in SUBSET Student
    BY <1>1 DEF Local
  <1>3. pc \in PCs /\ pc \in {"done", "check", "insert"} /\ (pc = "insert" => call[p].kind # "import")
    BY DEF PCs
  <1>4. call' = [call EXCEPT ![p] = rec]
    BY Zenon DEF LookForDuplicates
  <1> HIDE DEF S, pc
  <1>5. rec \in Local /\ rec.pc = pc /\ rec.kind = call[p].kind /\ rec.to = call[p].to /\ rec.was = call[p].was
    BY <1>1, <1>2, <1>3 DEF Local
  <1> HIDE DEF rec
  <1> QED
    BY <1>3, <1>4, <1>5

LEMMA LookForDuplicatesSound ==
  ASSUME Sound, NEW p \in Editor, LookForDuplicates(p)
  PROVE  Sound'
  <1>1. call[p] \in Local /\ Sensible(call[p]) /\ call[p].pc = "look"
    BY DEF Sound, RosterTypeOK, LookForDuplicates
  <1>2. PICK rec \in Local : /\ call' = [call EXCEPT ![p] = rec]
                             /\ rec.pc \in {"done", "check", "insert"}
                             /\ rec.kind = call[p].kind /\ rec.to = call[p].to /\ rec.was = call[p].was
    BY LookForDuplicatesTurn
  <1>3. Sensible(rec)
    BY <1>1, <1>2 DEF Sensible
  <1>4. call' \in [Editor -> Local] /\ \A q \in Editor : Sensible(call[q])'
    BY <1>2, <1>3, TurnSound
  <1> QED
    BY <1>4 DEF Sound, RosterTypeOK, LookForDuplicates

LEMMA CheckClassSound ==
  ASSUME Sound, NEW p \in Editor, CheckClass(p)
  PROVE  Sound'
  <1>1. call[p].kind \notin Locking
    BY DEF Sound, Sensible, CheckClass
  <1>2. PICK pc \in PCs : /\ Goto(p, pc) /\ pc \in {"done", "look", "save", "insert"}
                          /\ pc = "save" => call[p].kind \in Editing
    BY DEF CheckClass, PCs, Adding, Editing
  <1>3. call' \in [Editor -> Local] /\ \A q \in Editor : Sensible(call[q])'
    BY <1>1, <1>2, PlainGoto
  <1> QED
    BY <1>3 DEF Sound, RosterTypeOK, CheckClass

LEMMA InsertTurn ==
  ASSUME Sound, NEW p \in Editor, Insert(p)
  PROVE  \E rec \in Local : /\ call' = [call EXCEPT ![p] = rec]
                            /\ rec.pc \in {"done", "verify"}
                            /\ rec.kind = call[p].kind /\ rec.to = call[p].to /\ rec.was = call[p].was
  <1> DEFINE S   == {s \in call[p].who : ~RegTaken(s)}
             cut == S = {} \/ (call[p].kind = "import" /\ S # call[p].who)
             pc  == IF cut THEN "done" ELSE "verify"
             rec == [call[p] EXCEPT !.new = S, !.pc = pc]
  <1>1. call[p] \in Local
    BY DEF Sound, RosterTypeOK
  <1>2. S \in SUBSET Student
    BY <1>1 DEF Local
  <1>3. pc \in PCs /\ pc \in {"done", "verify"}
    BY DEF PCs
  <1>4. call' = [call EXCEPT ![p] = rec]
    BY Zenon DEF Insert
  <1> HIDE DEF S, pc
  <1>5. rec \in Local /\ rec.pc = pc /\ rec.kind = call[p].kind /\ rec.to = call[p].to /\ rec.was = call[p].was
    BY <1>1, <1>2, <1>3 DEF Local
  <1> HIDE DEF rec
  <1> QED
    BY <1>3, <1>4, <1>5

LEMMA InsertSound ==
  ASSUME Sound, NEW p \in Editor, Insert(p)
  PROVE  Sound'
  <1>1. call[p] \in Local /\ Sensible(call[p]) /\ call[p].pc = "insert"
    BY DEF Sound, RosterTypeOK, Insert
  <1>2. PICK rec \in Local : /\ call' = [call EXCEPT ![p] = rec]
                             /\ rec.pc \in {"done", "verify"}
                             /\ rec.kind = call[p].kind /\ rec.to = call[p].to /\ rec.was = call[p].was
    BY InsertTurn
  <1>3. Sensible(rec)
    BY <1>1, <1>2 DEF Sensible
  <1>4. call' \in [Editor -> Local] /\ \A q \in Editor : Sensible(call[q])'
    BY <1>2, <1>3, TurnSound
  <1>5. place' \in [Student -> Place \cup {NoPlace}]
    <2>1. call[p].to \in Place \cup {NoPlace}
      BY <1>1 DEF Local
    <2> QED
      BY <2>1 DEF Sound, RosterTypeOK, Insert
  <1>6. life' \in [Student -> {"new", "asked", "student"}]
    BY DEF Sound, RosterTypeOK, Insert
  <1> QED
    BY <1>4, <1>5, <1>6 DEF Sound, RosterTypeOK, Insert

LEMMA UnaddSound ==
  ASSUME Sound, NEW p \in Editor, Unadd(p)
  PROVE  Sound'
  <1>1. call' \in [Editor -> Local] /\ \A q \in Editor : Sensible(call[q])'
    BY PlainGoto DEF Unadd, PCs
  <1>2. place' \in [Student -> Place \cup {NoPlace}]
    BY DEF Sound, RosterTypeOK, Unadd
  <1> QED
    BY <1>1, <1>2 DEF Sound, RosterTypeOK, Unadd

LEMMA VerifySound ==
  ASSUME Sound, NEW p \in Editor, Verify(p)
  PROVE  Sound'
  <1>1. call[p].kind \notin Locking
    BY DEF Sound, Sensible, Verify
  <1>2. PICK pc \in PCs : /\ Goto(p, pc) /\ pc \in {"dues", "done", "unsave", "unadd"}
                          /\ pc = "unsave" => call[p].kind \in Editing
    BY DEF Verify, PCs
  <1>3. call' \in [Editor -> Local] /\ \A q \in Editor : Sensible(call[q])'
    BY <1>1, <1>2, PlainGoto
  <1>4. life' \in [Student -> {"new", "asked", "student"}]
    BY DEF Sound, RosterTypeOK, Verify
  <1> QED
    BY <1>3, <1>4 DEF Sound, RosterTypeOK, Verify

LEMMA StartEditingSound ==
  ASSUME Sound, NEW p \in Editor, StartEditing(p)
  PROVE  Sound'
  <1>1. PICK kind \in Open(p) \cap Editing, s \in Student, to \in Place :
            StartEditing(p)!(kind, s, to)
    BY DEF StartEditing
  <1> DEFINE pc == IF to = place[s] THEN "save" ELSE "check"
             rec == [NoCall EXCEPT !.who = {s}, !.to = to, !.was = place[s], !.pc = pc]
  <1>2. place[s] \in Place
    BY <1>1 DEF Sound, RosterTypeOK
  <1>3. pc \in PCs /\ pc \in {"save", "check"}
    BY DEF PCs
  <1>4. Begin(p, kind, rec) /\ kind \in Kinds
    BY <1>1, OpenKinds
  <1> HIDE DEF pc
  <1>5. rec \in Local /\ rec.pc = pc /\ rec.to = to /\ rec.was = place[s]
    BY <1>2, <1>3, NoCallSound, RosterAssumption DEF NoCall, Local
  <1>6. Sensible([rec EXCEPT !.kind = kind])
    <2> HIDE DEF rec
    <2> QED
      BY <1>1, <1>2, <1>3, <1>4, <1>5, Blank DEF Sensible, Adding, Editing, Locking
  <1>7. call' \in [Editor -> Local] /\ \A q \in Editor : Sensible(call[q])'
    BY <1>4, <1>5, <1>6, BeginSound
  <1> QED
    BY <1>1, <1>7 DEF Sound, RosterTypeOK

LEMMA RewrittenType ==
  ASSUME Sound, NEW p \in Editor, NEW pl \in Place
  PROVE  Rewritten(p, pl) \in [Student -> Place \cup {NoPlace}]
  BY DEF Sound, RosterTypeOK, Rewritten, Present, Place

LEMMA SaveSound ==
  ASSUME Sound, NEW p \in Editor, Save(p)
  PROVE  Sound'
  <1>1. call[p].kind \notin Locking /\ call[p].to \in Place
    BY DEF Sound, Sensible, Save
  <1>2. PICK pc \in PCs : Goto(p, pc) /\ pc \in {"done", "verify"}
    BY DEF Save, PCs
  <1>3. call' \in [Editor -> Local] /\ \A q \in Editor : Sensible(call[q])'
    BY <1>1, <1>2, PlainGoto
  <1>4. place' \in [Student -> Place \cup {NoPlace}]
    BY <1>1, RewrittenType DEF Save
  <1> QED
    BY <1>3, <1>4 DEF Sound, RosterTypeOK, Save

LEMMA UnsaveSound ==
  ASSUME Sound, NEW p \in Editor, Unsave(p)
  PROVE  Sound'
  <1>1. call[p].was \in Place
    BY DEF Sound, Sensible, Unsave
  <1>2. call' \in [Editor -> Local] /\ \A q \in Editor : Sensible(call[q])'
    BY PlainGoto DEF Unsave, PCs
  <1>3. place' \in [Student -> Place \cup {NoPlace}]
    BY <1>1, RewrittenType DEF Unsave
  <1> QED
    BY <1>2, <1>3 DEF Sound, RosterTypeOK, Unsave

LEMMA StartDeletingSound ==
  ASSUME Sound, NEW p \in Editor, StartDeleting(p)
  PROVE  Sound'
  <1>1. PICK kind \in Open(p) \cap {"delete"}, s \in Student : StartDeleting(p)!(kind, s)
    BY DEF StartDeleting
  <1> DEFINE rec == [NoCall EXCEPT !.who = {s}, !.pc = "copy"]
  <1>2. rec \in Local /\ rec.pc = "copy"
    <2>1. NoCall \in Local /\ {s} \in SUBSET Student /\ "copy" \in PCs
      BY NoCallSound, RosterAssumption DEF PCs
    <2> QED
      BY <2>1 DEF Local
  <1>3. Begin(p, kind, rec) /\ kind \in Kinds /\ kind = "delete"
    BY <1>1, OpenKinds
  <1>4. Sensible([rec EXCEPT !.kind = kind])
    <2> HIDE DEF rec
    <2> QED
      BY <1>2, <1>3, Blank DEF Sensible, Editing, Locking
  <1>5. call' \in [Editor -> Local] /\ \A q \in Editor : Sensible(call[q])'
    BY <1>2, <1>3, <1>4, BeginSound
  <1> QED
    BY <1>1, <1>5 DEF Sound, RosterTypeOK

LEMMA CopyToArchiveSound ==
  ASSUME Sound, NEW p \in Editor, CopyToArchive(p)
  PROVE  Sound'
  <1>1. call[p].kind \in {"delete", "sem8"}
    BY DEF Sound, Sensible, CopyToArchive
  <1>2. call' \in [Editor -> Local] /\ \A q \in Editor : Sensible(call[q])'
    BY <1>1, PlainGoto DEF CopyToArchive, PCs
  <1>3. archive' \in [Copy -> Archived \cup {NoCopy}]
    <2> DEFINE S    == call[p].who \cap Present
               free == {c \in Copy : archive[c] = NoCopy /\ \A q \in Editor : call[q].copy # c}
               at   == CHOOSE f \in [S -> free] : \A s, t \in S : f[s] = f[t] => s = t
               of(c) == CHOOSE s \in S : at[s] = c
    <2>1. archive' = [c \in Copy |->
                IF \E s \in S : at[s] = c
                THEN [who |-> of(c), place |-> place[of(c)], due |-> of(c) \in due]
                ELSE archive[c]]
      BY Zenon DEF CopyToArchive
    <2>2. \A s \in S : s \in Student /\ place[s] \in Place
      BY DEF Sound, RosterTypeOK, Present
    <2>3. \A c \in Copy : (\E s \in S : at[s] = c) => of(c) \in S
      BY Zenon
    <2> HIDE DEF at, of, S
    <2>4. \A c \in Copy : archive[c] \in Archived \cup {NoCopy}
      BY DEF Sound, RosterTypeOK
    <2>5. \A c \in Copy : (\E s \in S : at[s] = c)
             => [who |-> of(c), place |-> place[of(c)], due |-> of(c) \in due] \in Archived
      BY <2>2, <2>3 DEF Archived
    <2> QED
      BY <2>1, <2>4, <2>5
  <1> QED
    BY <1>2, <1>3 DEF Sound, RosterTypeOK, CopyToArchive

LEMMA RemoveSound ==
  ASSUME Sound, NEW p \in Editor, Remove(p)
  PROVE  Sound'
  <1>1. call[p].kind \in {"delete", "sem8"}
    BY DEF Sound, Sensible, Remove
  <1>2. call' \in [Editor -> Local] /\ \A q \in Editor : Sensible(call[q])'
    BY <1>1, PlainGoto DEF Remove, PCs
  <1>3. place' \in [Student -> Place \cup {NoPlace}]
    BY DEF Sound, RosterTypeOK, Remove
  <1> QED
    BY <1>2, <1>3 DEF Sound, RosterTypeOK, Remove

LEMMA ClearDuesSound ==
  ASSUME Sound, NEW p \in Editor, ClearDues(p)
  PROVE  Sound'
  <1>1. call[p].kind = "sem8" => call[p].kind \in Locking
    BY DEF Locking
  <1>2. call' \in [Editor -> Local] /\ \A q \in Editor : Sensible(call[q])'
    BY <1>1, PlainGoto DEF ClearDues, PCs
  <1> QED
    BY <1>2 DEF Sound, RosterTypeOK, ClearDues

LEMMA StartRestoringSound ==
  ASSUME Sound, NEW p \in Editor, StartRestoring(p)
  PROVE  Sound'
  <1>1. PICK kind \in Open(p) \cap {"restore"}, c \in Copy : StartRestoring(p)!(kind, c)
    BY DEF StartRestoring
  <1> DEFINE rec == [NoCall EXCEPT !.copy = c, !.who = {archive[c].who},
                                !.to = archive[c].place, !.dues = archive[c].due,
                                !.pc = "look"]
  <1>2. archive[c] \in Archived
    BY <1>1 DEF Sound, RosterTypeOK
  <1>3. rec \in Local /\ rec.pc = "look"
    <2>1. NoCall \in Local /\ "look" \in PCs
      BY NoCallSound, RosterAssumption DEF PCs
    <2>2. {archive[c].who} \in SUBSET Student /\ archive[c].place \in Place /\ archive[c].due \in BOOLEAN
      BY <1>2 DEF Archived
    <2> QED
      BY <2>1, <2>2 DEF Local
  <1>4. Begin(p, kind, rec) /\ kind \in Kinds /\ kind = "restore"
    BY <1>1, OpenKinds
  <1>5. Sensible([rec EXCEPT !.kind = kind])
    <2> HIDE DEF rec
    <2> QED
      BY <1>3, <1>4, Blank DEF Sensible, Editing, Locking
  <1>6. call' \in [Editor -> Local] /\ \A q \in Editor : Sensible(call[q])'
    BY <1>3, <1>4, <1>5, BeginSound
  <1> QED
    BY <1>1, <1>6 DEF Sound, RosterTypeOK

LEMMA LookForStudentSound ==
  ASSUME Sound, NEW p \in Editor, LookForStudent(p)
  PROVE  Sound'
  <1>1. call[p].kind \notin Locking
    BY DEF LookForStudent, Locking
  <1>2. PICK pc \in PCs : Goto(p, pc) /\ pc \in {"done", "check"}
    BY DEF LookForStudent, PCs
  <1>3. call' \in [Editor -> Local] /\ \A q \in Editor : Sensible(call[q])'
    BY <1>1, <1>2, PlainGoto
  <1> QED
    BY <1>3 DEF Sound, RosterTypeOK, LookForStudent

LEMMA ReinsertDuesSound ==
  ASSUME Sound, NEW p \in Editor, ReinsertDues(p)
  PROVE  Sound'
  <1>1. call[p].kind \notin Locking /\ call[p].who \subseteq Student
    BY DEF Sound, RosterTypeOK, Local, Sensible, ReinsertDues
  <1>2. call' \in [Editor -> Local] /\ \A q \in Editor : Sensible(call[q])'
    BY <1>1, PlainGoto DEF ReinsertDues, PCs
  <1> QED
    BY <1>1, <1>2 DEF Sound, RosterTypeOK, ReinsertDues

LEMMA DropCopySound ==
  ASSUME Sound, NEW p \in Editor, DropCopy(p)
  PROVE  Sound'
  <1>1. call' \in [Editor -> Local] /\ \A q \in Editor : Sensible(call[q])'
    BY PlainGoto DEF DropCopy, PCs
  <1> QED
    BY <1>1 DEF Sound, RosterTypeOK, DropCopy

LEMMA LockSound ==
  ASSUME Sound, NEW p \in Editor, Lock(p)
  PROVE  Sound'
  <1>1. PICK kind \in Open(p) \cap Locking : Lock(p)!(kind)
    BY DEF Lock
  <1> DEFINE pc == IF kind = "promote" THEN "grace" ELSE "plan"
             rec == [NoCall EXCEPT !.pc = pc]
  <1>2. pc \in PCs /\ (kind # "promote" => pc = "plan") /\ pc \in {"grace", "plan"}
    BY DEF PCs
  <1>3. Begin(p, kind, rec) /\ kind \in Kinds
    BY <1>1, OpenKinds
  <1> HIDE DEF pc
  <1>4. rec \in Local /\ rec.pc = pc
    BY <1>2, NoCallSound, PcFields, RosterAssumption
  <1>5. Sensible([rec EXCEPT !.kind = kind])
    <2> HIDE DEF rec
    <2> QED
      BY <1>1, <1>2, <1>3, <1>4, Blank DEF Sensible, Editing, Locking
  <1>6. call' \in [Editor -> Local] /\ \A q \in Editor : Sensible(call[q])'
    BY <1>3, <1>4, <1>5, BeginSound
  <1> QED
    BY <1>1, <1>6 DEF Sound, RosterTypeOK

LEMMA ReleaseSound ==
  ASSUME Sound, NEW p \in Editor, Release(p)
  PROVE  Sound'
  <1>1. call' \in [Editor -> Local] /\ \A q \in Editor : Sensible(call[q])'
    BY PlainGoto DEF Release, PCs
  <1> QED
    BY <1>1 DEF Sound, RosterTypeOK, Release

LEMMA GraceSound ==
  ASSUME Sound, NEW p \in Editor, Grace(p)
  PROVE  Sound'
  <1>1. call[p].kind \in Locking
    BY DEF Sound, Sensible, Grace, Locking
  <1>2. call' \in [Editor -> Local] /\ \A q \in Editor : Sensible(call[q])'
    BY <1>1, PlainGoto DEF Grace, PCs
  <1> QED
    BY <1>2 DEF Sound, RosterTypeOK, Grace

LEMMA PlanRemovalTurn ==
  ASSUME Sound, NEW p \in Editor, PlanRemoval(p)
  PROVE  \E rec \in Local : /\ call' = [call EXCEPT ![p] = rec]
                            /\ rec.pc \in {"release", "copy"}
                            /\ rec.kind = "sem8"
  <1> DEFINE S   == {s \in Present : place[s].sem = 8}
             pc  == IF S = {} THEN "release" ELSE "copy"
             rec == [call[p] EXCEPT !.who = S, !.pc = pc]
  <1>1. call[p] \in Local /\ call[p].kind = "sem8"
    BY DEF Sound, RosterTypeOK, PlanRemoval
  <1>2. S \in SUBSET Student
    BY DEF Present
  <1>3. pc \in PCs /\ pc \in {"release", "copy"}
    BY DEF PCs
  <1>4. call' = [call EXCEPT ![p] = rec]
    BY Zenon DEF PlanRemoval
  <1> HIDE DEF S, pc
  <1>5. rec \in Local /\ rec.pc = pc /\ rec.kind = "sem8"
    BY <1>1, <1>2, <1>3 DEF Local
  <1> HIDE DEF rec
  <1> QED
    BY <1>3, <1>4, <1>5

LEMMA PlanRemovalSound ==
  ASSUME Sound, NEW p \in Editor, PlanRemoval(p)
  PROVE  Sound'
  <1>1. PICK rec \in Local : /\ call' = [call EXCEPT ![p] = rec]
                             /\ rec.pc \in {"release", "copy"}
                             /\ rec.kind = "sem8"
    BY PlanRemovalTurn
  <1>2. Sensible(rec)
    BY <1>1 DEF Sensible, Editing, Locking
  <1>3. call' \in [Editor -> Local] /\ \A q \in Editor : Sensible(call[q])'
    BY <1>1, <1>2, TurnSound
  <1> QED
    BY <1>3 DEF Sound, RosterTypeOK, PlanRemoval

LEMMA PlanFixTurn ==
  ASSUME Sound, NEW p \in Editor, PlanFix(p)
  PROVE  \E rec \in Local : /\ call' = [call EXCEPT ![p] = rec]
                            /\ rec.pc \in {"release", "repair"}
                            /\ rec.kind = "fix" /\ rec.to \in Place
  <1>1. PICK to \in Place : PlanFix(p)!2!(to)
    BY DEF PlanFix
  <1> DEFINE S   == {s \in InClass(to.dept, Year(to.sem)) : place[s].sem # to.sem}
             pc  == IF S = {} THEN "release" ELSE "repair"
             rec == [call[p] EXCEPT !.who = S, !.to = to, !.pc = pc]
  <1>2. call[p] \in Local /\ call[p].kind = "fix"
    BY DEF Sound, RosterTypeOK, PlanFix
  <1>3. S \in SUBSET Student
    BY DEF InClass, Present
  <1>4. pc \in PCs /\ pc \in {"release", "repair"}
    BY DEF PCs
  <1>5. call' = [call EXCEPT ![p] = rec]
    BY <1>1, Zenon
  <1> HIDE DEF S, pc
  <1>6. rec \in Local /\ rec.pc = pc /\ rec.kind = "fix" /\ rec.to \in Place
    BY <1>2, <1>3, <1>4 DEF Local
  <1> HIDE DEF rec
  <1> QED
    BY <1>4, <1>5, <1>6

LEMMA PlanFixSound ==
  ASSUME Sound, NEW p \in Editor, PlanFix(p)
  PROVE  Sound'
  <1>1. PICK rec \in Local : /\ call' = [call EXCEPT ![p] = rec]
                             /\ rec.pc \in {"release", "repair"}
                             /\ rec.kind = "fix" /\ rec.to \in Place
    BY PlanFixTurn
  <1>2. Sensible(rec)
    BY <1>1 DEF Sensible, Editing, Locking
  <1>3. call' \in [Editor -> Local] /\ \A q \in Editor : Sensible(call[q])'
    BY <1>1, <1>2, TurnSound
  <1> QED
    BY <1>3 DEF Sound, RosterTypeOK, PlanFix

LEMMA RepairSound ==
  ASSUME Sound, NEW p \in Editor, Repair(p)
  PROVE  Sound'
  <1>1. call[p].to \in Place /\ call[p].kind \in Locking
    BY DEF Sound, Sensible, Repair, Locking
  <1>2. call' \in [Editor -> Local] /\ \A q \in Editor : Sensible(call[q])'
    BY <1>1, PlainGoto DEF Repair, PCs
  <1>3. place' \in [Student -> Place \cup {NoPlace}]
    BY <1>1 DEF Sound, RosterTypeOK, Repair, Present, Place
  <1> QED
    BY <1>2, <1>3 DEF Sound, RosterTypeOK, Repair

LEMMA PlanPromotionTurn ==
  ASSUME Sound, NEW p \in Editor, PlanPromotion(p)
  PROVE  \E rec \in Local : /\ call' = [call EXCEPT ![p] = rec]
                            /\ rec.pc \in {"move"}
                            /\ rec.kind = "promote" /\ rec.to \in Place /\ rec.was \in Place
  <1>1. PICK from \in Place : PlanPromotion(p)!2!(from)
    BY DEF PlanPromotion
  <1> DEFINE S    == {s \in Present : place[s] = from}
             next == [from EXCEPT !.sem = @ + 1]
             rec  == [call[p] EXCEPT !.who = S, !.was = from, !.to = next,
                                     !.mixed = MixedClasses, !.pc = "move"]
  <1>2. call' = [call EXCEPT ![p] = rec]
    BY <1>1, Zenon
  <1>3. /\ S \in SUBSET Student /\ next \in Place /\ "move" \in PCs
        /\ MixedClasses \in SUBSET (Dept \X (1..4))
    BY <1>1 DEF MayPromote, Present, MixedClasses, PCs
  <1>4. call[p] \in Local /\ call[p].kind = "promote"
    BY DEF Sound, RosterTypeOK, PlanPromotion
  <1> HIDE DEF S, next
  <1>5. /\ rec \in Local /\ rec.pc = "move" /\ rec.kind = "promote"
        /\ rec.to = next /\ rec.was = from
    BY <1>3, <1>4 DEF Local
  <1> HIDE DEF rec
  <1> QED
    BY <1>2, <1>3, <1>5

LEMMA PlanPromotionSound ==
  ASSUME Sound, NEW p \in Editor, PlanPromotion(p)
  PROVE  Sound'
  <1>1. PICK rec \in Local : /\ call' = [call EXCEPT ![p] = rec]
                             /\ rec.pc \in {"move"}
                             /\ rec.kind = "promote" /\ rec.to \in Place /\ rec.was \in Place
    BY PlanPromotionTurn
  <1>2. Sensible(rec)
    BY <1>1 DEF Sensible, Editing, Locking
  <1>3. call' \in [Editor -> Local] /\ \A q \in Editor : Sensible(call[q])'
    BY <1>1, <1>2, TurnSound
  <1> QED
    BY <1>3 DEF Sound, RosterTypeOK, PlanPromotion

LEMMA RefusePromotionSound ==
  ASSUME Sound, NEW p \in Editor, RefusePromotion(p)
  PROVE  Sound'
  <1>1. call[p].kind \in Locking
    BY DEF RefusePromotion, Locking
  <1>2. call' \in [Editor -> Local] /\ \A q \in Editor : Sensible(call[q])'
    BY <1>1, PlainGoto DEF RefusePromotion, PCs
  <1> QED
    BY <1>2 DEF Sound, RosterTypeOK, RefusePromotion

LEMMA MoveSound ==
  ASSUME Sound, NEW p \in Editor, Move(p)
  PROVE  Sound'
  <1>1. call[p].to \in Place
    BY DEF Sound, Sensible, Move
  <1>2. call' \in [Editor -> Local] /\ \A q \in Editor : Sensible(call[q])'
    BY PlainGoto DEF Move, PCs
  <1>3. place' \in [Student -> Place \cup {NoPlace}]
    BY <1>1 DEF Sound, RosterTypeOK, Move, Present, Place
  <1> QED
    BY <1>2, <1>3 DEF Sound, RosterTypeOK, Move

LEMMA SettleSound ==
  ASSUME Sound, NEW p \in Editor, Settle(p)
  PROVE  Sound'
  <1>1. call[p].was \in Place /\ call[p].kind \in Locking
    BY DEF Sound, Sensible, Settle, Locking
  <1>2. call' \in [Editor -> Local] /\ \A q \in Editor : Sensible(call[q])'
    BY <1>1, PlainGoto DEF Settle, PCs
  <1>3. place' \in [Student -> Place \cup {NoPlace}]
    BY <1>1 DEF Sound, RosterTypeOK, Settle, Present, Place
  <1> QED
    BY <1>2, <1>3 DEF Sound, RosterTypeOK, Settle

LEMMA KillSound ==
  ASSUME Sound, NEW p \in Editor, Kill(p)
  PROVE  Sound'
  <1>1. call' \in [Editor -> Local] /\ \A q \in Editor : Sensible(call[q])'
    BY PlainGoto DEF Kill, PCs
  <1> QED
    BY <1>1 DEF Sound, RosterTypeOK, Kill

LEMMA SoundInit == RosterInit => Sound
  <1> SUFFICES ASSUME RosterInit PROVE Sound
    OBVIOUS
  <1>1. call \in [Editor -> Local] /\ \A p \in Editor : Sensible(call[p])
    BY NoCallSound, RosterAssumption DEF RosterInit
  <1>2. place \in [Student -> Place \cup {NoPlace}] /\ archive \in [Copy -> Archived \cup {NoCopy}]
    BY RosterAssumption DEF RosterInit
  <1>3. due \subseteq Student
    BY DEF RosterInit, Present
  <1>4. found \subseteq Dept \X (1..4)
    BY DEF RosterInit, MixedClasses
  <1>5. life \in [Student -> {"new", "asked", "student"}] /\ locked \in BOOLEAN /\ cast \in Casts
    BY DEF RosterInit
  <1> QED
    BY <1>1, <1>2, <1>3, <1>4, <1>5 DEF Sound, RosterTypeOK

LEMMA SoundStep ==
  ASSUME Sound, [RosterNext]_rosterVars
  PROVE  Sound'
  <1>1. ASSUME NEW p \in Editor, Add(p) PROVE Sound'
    BY <1>1, StartAddingSound, LookForDuplicatesSound, CheckClassSound, InsertSound,
       VerifySound, UnaddSound DEF Add
  <1>2. ASSUME NEW p \in Editor, Edit(p) PROVE Sound'
    BY <1>2, StartEditingSound, SaveSound, UnsaveSound DEF Edit
  <1>3. ASSUME NEW p \in Editor, Delete(p) PROVE Sound'
    BY <1>3, StartDeletingSound, CopyToArchiveSound, RemoveSound, ClearDuesSound DEF Delete
  <1>4. ASSUME NEW p \in Editor, Restore(p) PROVE Sound'
    BY <1>4, StartRestoringSound, LookForStudentSound, ReinsertDuesSound, DropCopySound
       DEF Restore
  <1>5. ASSUME NEW p \in Editor, Promote(p) PROVE Sound'
    BY <1>5, LockSound, GraceSound, PlanRemovalSound, PlanFixSound, RepairSound,
       PlanPromotionSound, RefusePromotionSound, MoveSound, SettleSound, ReleaseSound
       DEF Promote
  <1>6. ASSUME NEW p \in Editor, Kill(p) PROVE Sound'
    BY <1>6, KillSound
  <1>7. CASE UNCHANGED rosterVars
    BY <1>7 DEF rosterVars, Sound, RosterTypeOK, Sensible
  <1> QED
    BY <1>1, <1>2, <1>3, <1>4, <1>5, <1>6, <1>7 DEF RosterNext, RosterStep

\* Whatever calls meet, every variable keeps its type.
THEOREM RosterTypeCorrect == RosterSpec => []RosterTypeOK
  <1>1. Sound => RosterTypeOK
    BY DEF Sound
  <1> QED
    BY <1>1, SoundInit, SoundStep, PTL DEF RosterSpec

-----------------------------------------------------------------------------
(***************************************************************************)
(* A promotion and the other writers.                                      *)
(***************************************************************************)

\* A call that holds the lock; one that promotes and has waited; a form saved with
\* the class unchanged; any other that writes, or will write without a look at
\* the lock.
Holder(l) == l.kind \in Locking /\ l.pc \notin {"idle", "done"}
Moving(l) == l.kind = "promote" /\ l.pc \in {"plan", "move", "settle"}
Resaving(l) == SameClass(l) /\ l.pc \in {"save", "verify", "unsave"}
Stray(l)  == l.pc \in InFlight /\ ~(l.pc = "look" /\ l.kind = "import") /\ ~Resaving(l)

OneHolder == \A p \in Editor : Holder(call[p]) => locked /\ \A q \in Editor : Holder(call[q]) => q = p
OthersAway == \A p \in Editor : Moving(call[p]) => \A q \in Editor \ {p} : ~Stray(call[q])

LockKept == Sound /\ OneHolder /\ OthersAway

\* A step of one call disturbs nobody when it takes no lock, goes astray only
\* while there is none, and moves only when nobody is astray.
LEMMA StepApart ==
  ASSUME LockKept, NEW p \in Editor, NEW rec, call' = [call EXCEPT ![p] = rec],
         locked' = locked,
         Holder(rec) => Holder(call[p]),
         Stray(rec) => Stray(call[p]) \/ ~locked \/ Holder(call[p]),
         Moving(rec) => Moving(call[p]) \/ \A q \in Editor \ {p} : ~Stray(call[q])
  PROVE  OneHolder' /\ OthersAway'
  <1>1. call'[p] = rec /\ \A q \in Editor \ {p} : call'[q] = call[q]
    BY DEF LockKept, Sound, RosterTypeOK
  <1>2. \A q \in Editor : Holder(call'[q]) => Holder(call[q])
    BY <1>1
  <1>3. \A q \in Editor : Holder(call'[q]) => locked' /\ \A r \in Editor : Holder(call'[r]) => r = q
    BY <1>2 DEF LockKept, OneHolder
  <1>4. ASSUME NEW q \in Editor, Moving(call'[q]), NEW r \in Editor \ {q}
        PROVE  ~Stray(call'[r])
    <2>1. CASE q = p
      BY <1>1, <1>4, <2>1 DEF LockKept, OthersAway
    <2>2. CASE q # p /\ r # p
      BY <1>1, <1>4, <2>2 DEF LockKept, OthersAway
    <2>3. CASE q # p /\ r = p
      <3>1. Moving(call[q])
        BY <1>1, <1>4, <2>3
      <3>2. Holder(call[q])
        BY <3>1 DEF Moving, Holder, Locking
      <3>3. locked /\ ~Holder(call[p]) /\ ~Stray(call[p])
        BY <3>1, <3>2, <2>3 DEF LockKept, OneHolder, OthersAway
      <3> QED
        BY <1>1, <2>3, <3>3
    <2> QED
      BY <2>1, <2>2, <2>3
  <1>5. OneHolder'
    BY <1>3 DEF OneHolder, Holder
  <1>6. OthersAway'
    BY <1>4 DEF OthersAway, Moving, Stray
  <1> QED
    BY <1>5, <1>6

\* A call goes on, to a place where nothing is planned or moved.
LEMMA PlainApart ==
  ASSUME LockKept, NEW p \in Editor, NEW pc \in PCs \ {"plan", "move", "settle"},
         Goto(p, pc), locked' = locked, call[p].pc \notin {"idle", "done"},
         \/ pc \notin InFlight
         \/ Stray(call[p]) \/ ~locked \/ Holder(call[p])
         \/ SameClass(call[p]) /\ pc \in {"save", "verify", "unsave"}
  PROVE  OneHolder' /\ OthersAway'
  <1> DEFINE rec == [call[p] EXCEPT !.pc = pc]
  <1>1. call' = [call EXCEPT ![p] = rec]
    BY Zenon DEF Goto
  <1>2. /\ rec.kind = call[p].kind /\ rec.pc = pc
        /\ rec.to = call[p].to /\ rec.was = call[p].was
    BY PcFields DEF LockKept, Sound, RosterTypeOK
  <1> HIDE DEF rec
  <1>3. Holder(rec) => Holder(call[p])
    BY <1>2 DEF Holder
  <1>4. Stray(rec) => Stray(call[p]) \/ ~locked \/ Holder(call[p])
    BY <1>2 DEF Stray, Resaving, SameClass
  <1>5. ~Moving(rec)
    BY <1>2 DEF Moving
  <1> QED
    BY <1>1, <1>3, <1>4, <1>5, StepApart

\* A call that begins without the lock, and not astray while somebody has it.
LEMMA BeginApart ==
  ASSUME LockKept, NEW p \in Editor, NEW kind \in Kinds \ Locking, NEW rec \in Local,
         Begin(p, kind, rec), locked' = locked,
         \/ rec.pc = "check" \/ (rec.pc = "look" /\ kind = "import") \/ ~locked
         \/ rec.pc = "save" /\ kind \in Editing /\ rec.to = rec.was
  PROVE  OneHolder' /\ OthersAway'
  <1> DEFINE new == [rec EXCEPT !.kind = kind]
  <1>1. /\ new.kind = kind /\ new.pc = rec.pc
        /\ new.to = rec.to /\ new.was = rec.was
    BY Blank
  <1>2. call' = [call EXCEPT ![p] = new]
    BY DEF Begin
  <1> HIDE DEF new
  <1>3. ~Holder(new) /\ ~Moving(new)
    BY <1>1 DEF Holder, Moving, Locking
  <1>4. Stray(new) => ~locked
    BY <1>1 DEF Stray, InFlight, Resaving, SameClass
  <1> QED
    BY <1>2, <1>3, <1>4, StepApart

LEMMA BeginsApart ==
  ASSUME LockKept, NEW p \in Editor,
         StartAdding(p) \/ StartEditing(p) \/ StartDeleting(p) \/ StartRestoring(p)
  PROVE  OneHolder' /\ OthersAway'
  <1> USE OpenKinds DEF LockKept
  <1>0. Sound
    OBVIOUS
  <1>1. CASE StartAdding(p)
    <2>1. PICK kind \in Open(p) \cap Adding, S \in SUBSET Student, to \in Place :
              StartAdding(p)!(kind, S, to)
      BY <1>1 DEF StartAdding
    <2> DEFINE pc  == IF kind = "import" THEN "look" ELSE "check"
               rec == [NoCall EXCEPT !.who = S, !.to = to, !.pc = pc]
    <2>2. pc \in PCs /\ (pc = "check" \/ (pc = "look" /\ kind = "import"))
      BY DEF PCs
    <2>3. Begin(p, kind, rec) /\ kind \in Kinds \ Locking /\ locked' = locked
      BY <2>1, <1>0, OpenKinds DEF Adding, Locking
    <2> HIDE DEF pc
    <2>4. rec \in Local /\ rec.pc = pc
      BY <2>2, NoCallSound, RosterAssumption DEF NoCall, Local
    <2> HIDE DEF rec
    <2> QED
      BY <2>2, <2>3, <2>4, BeginApart
  <1>2. CASE StartEditing(p)
    <2>1. PICK kind \in Open(p) \cap Editing, s \in Student, to \in Place :
              StartEditing(p)!(kind, s, to)
      BY <1>2 DEF StartEditing
    <2> DEFINE pc  == IF to = place[s] THEN "save" ELSE "check"
               rec == [NoCall EXCEPT !.who = {s}, !.to = to, !.was = place[s], !.pc = pc]
    <2>2. pc \in PCs /\ (pc = "check" \/ (pc = "save" /\ to = place[s]))
      BY DEF PCs
    <2>3. Begin(p, kind, rec) /\ kind \in Kinds \ Locking /\ locked' = locked
      BY <2>1, <1>0, OpenKinds DEF Editing, Locking
    <2>4. place[s] \in Place
      BY <2>1 DEF Sound, RosterTypeOK
    <2> HIDE DEF pc
    <2>5. rec \in Local /\ rec.pc = pc /\ rec.to = to /\ rec.was = place[s]
      BY <2>2, <2>4, NoCallSound, RosterAssumption DEF NoCall, Local
    <2>6. kind \in Editing
      BY <2>1
    <2> HIDE DEF rec
    <2> QED
      BY <2>2, <2>3, <2>5, <2>6, BeginApart
  <1>3. CASE StartDeleting(p)
    <2>1. PICK kind \in Open(p) \cap {"delete"}, s \in Student : StartDeleting(p)!(kind, s)
      BY <1>3 DEF StartDeleting
    <2> DEFINE rec == [NoCall EXCEPT !.who = {s}, !.pc = "copy"]
    <2>2. Begin(p, kind, rec) /\ kind \in Kinds \ Locking /\ ~locked /\ locked' = locked
      BY <2>1, <1>0, OpenKinds DEF Locking
    <2>3. NoCall \in Local /\ {s} \in SUBSET Student /\ "copy" \in PCs
      BY NoCallSound, RosterAssumption DEF PCs
    <2>4. rec \in Local
      BY <2>3 DEF Local
    <2> HIDE DEF rec
    <2> QED
      BY <2>2, <2>4, BeginApart
  <1>4. CASE StartRestoring(p)
    <2>1. PICK kind \in Open(p) \cap {"restore"}, c \in Copy : StartRestoring(p)!(kind, c)
      BY <1>4 DEF StartRestoring
    <2> DEFINE rec == [NoCall EXCEPT !.copy = c, !.who = {archive[c].who},
                                     !.to = archive[c].place, !.dues = archive[c].due,
                                     !.pc = "look"]
    <2>2. Begin(p, kind, rec) /\ kind \in Kinds \ Locking /\ ~locked /\ locked' = locked
      BY <2>1, <1>0, OpenKinds DEF Locking
    <2>3. archive[c] \in Archived
      BY <2>1 DEF Sound, RosterTypeOK
    <2>4. /\ NoCall \in Local /\ "look" \in PCs
          /\ {archive[c].who} \in SUBSET Student /\ archive[c].place \in Place
          /\ archive[c].due \in BOOLEAN
      BY <2>3, NoCallSound, RosterAssumption DEF PCs, Archived
    <2>5. rec \in Local
      BY <2>4 DEF Local
    <2> HIDE DEF rec
    <2> QED
      BY <2>2, <2>5, BeginApart
  <1> QED
    BY <1>1, <1>2, <1>3, <1>4

\* The steps of calls without the lock.  The check lets nobody pass while the
\* lock is held.
LEMMA WritersApart ==
  ASSUME LockKept, NEW p \in Editor
  PROVE  /\ LookForDuplicates(p) => OneHolder' /\ OthersAway'
         /\ Insert(p) => OneHolder' /\ OthersAway'
         /\ CheckClass(p) => OneHolder' /\ OthersAway'
         /\ Verify(p) \/ Unadd(p) \/ Save(p) \/ Unsave(p) => OneHolder' /\ OthersAway'
         /\ LookForStudent(p) \/ ReinsertDues(p) \/ DropCopy(p) => OneHolder' /\ OthersAway'
         /\ CopyToArchive(p) \/ Remove(p) \/ ClearDues(p) => OneHolder' /\ OthersAway'
         /\ Kill(p) => OneHolder' /\ OthersAway'
  <1>0. Sound
    BY DEF LockKept
  <1>1. ASSUME LookForDuplicates(p) PROVE OneHolder' /\ OthersAway'
    <2>1. PICK rec \in Local : /\ call' = [call EXCEPT ![p] = rec]
                               /\ rec.pc \in {"done", "check", "insert"}
                               /\ rec.pc = "insert" => call[p].kind # "import"
                               /\ rec.kind = call[p].kind
      BY <1>0, <1>1, LookForDuplicatesTurn
    <2>2. call[p].pc = "look" /\ locked' = locked
      BY <1>1 DEF LookForDuplicates
    <2>3. (Holder(rec) => Holder(call[p])) /\ ~Moving(rec) /\ (Stray(rec) => Stray(call[p]))
      BY <2>1, <2>2 DEF Holder, Moving, Stray, InFlight, Resaving
    <2> QED
      BY <2>1, <2>2, <2>3, StepApart
  <1>2. ASSUME Insert(p) PROVE OneHolder' /\ OthersAway'
    <2>1. PICK rec \in Local : /\ call' = [call EXCEPT ![p] = rec]
                               /\ rec.pc \in {"done", "verify"}
                               /\ rec.kind = call[p].kind
      BY <1>0, <1>2, InsertTurn
    <2>2. call[p].pc = "insert" /\ locked' = locked
      BY <1>2 DEF Insert
    <2>3. (Holder(rec) => Holder(call[p])) /\ ~Moving(rec) /\ Stray(call[p])
      BY <2>1, <2>2 DEF Holder, Moving, Stray, InFlight, Resaving
    <2> QED
      BY <2>1, <2>2, <2>3, StepApart
  <1>3. ASSUME CheckClass(p) PROVE OneHolder' /\ OthersAway'
    <2>1. PICK pc \in PCs : /\ Goto(p, pc) /\ pc \in {"done", "look", "save", "insert"}
                            /\ locked => pc = "done"
      BY <1>3 DEF CheckClass, MayJoin, PCs
    <2>2. call[p].pc = "check" /\ locked' = locked
      BY <1>3 DEF CheckClass
    <2>3. (pc \notin InFlight \/ ~locked) /\ pc \notin {"plan", "move", "settle"}
      BY <2>1, <1>0 DEF InFlight, Sound, RosterTypeOK
    <2>4. call[p].pc \notin {"idle", "done"}
      BY <2>2
    <2> QED
      BY <2>1, <2>2, <2>3, <2>4, PlainApart
  <1>4. ASSUME Verify(p) \/ Unadd(p) \/ Save(p) \/ Unsave(p) PROVE OneHolder' /\ OthersAway'
    <2>1. PICK pc \in PCs : /\ Goto(p, pc) /\ pc \in {"dues", "done", "unsave", "unadd", "verify"}
                            /\ SameClass(call[p]) => pc \in {"done", "unsave", "verify"}
                                                     \/ call[p].pc = "unadd"
      BY <1>4 DEF Verify, Unadd, Save, Unsave, PCs, SameClass, Editing
    <2>2. call[p].pc \in {"verify", "unadd", "save", "unsave"} /\ locked' = locked
      BY <1>4 DEF Verify, Unadd, Save, Unsave
    <2>3. pc \notin {"plan", "move", "settle"} /\ call[p].pc \notin {"idle", "done"}
      BY <2>1, <2>2
    <2>4. Stray(call[p]) \/ Resaving(call[p])
      BY <2>2 DEF Stray, InFlight
    <2>5. CASE Stray(call[p])
      BY <2>1, <2>2, <2>3, <2>5, PlainApart
    <2>6. CASE Resaving(call[p])
      <3>1. SameClass(call[p]) /\ pc \in {"done", "unsave", "verify"}
        BY <2>1, <2>6 DEF Resaving
      <3>2. "done" \notin InFlight
        BY DEF InFlight
      <3> QED
        BY <2>1, <2>2, <2>3, <3>1, <3>2, PlainApart
    <2> QED
      BY <2>4, <2>5, <2>6
  <1>5. ASSUME ReinsertDues(p) \/ DropCopy(p) PROVE OneHolder' /\ OthersAway'
    <2>1. PICK pc \in PCs : Goto(p, pc) /\ pc \in {"done", "drop"}
      BY <1>5 DEF ReinsertDues, DropCopy, PCs
    <2>2. call[p].pc \in {"dues", "drop"} /\ locked' = locked
      BY <1>5 DEF ReinsertDues, DropCopy
    <2>3. pc \notin {"plan", "move", "settle"} /\ call[p].pc \notin {"idle", "done"}
      BY <2>1, <2>2
    <2>4. Stray(call[p])
      BY <2>2 DEF Stray, InFlight, Resaving
    <2> QED
      BY <2>1, <2>2, <2>3, <2>4, PlainApart
  <1>8. ASSUME LookForStudent(p) PROVE OneHolder' /\ OthersAway'
    <2>1. PICK pc \in PCs : Goto(p, pc) /\ pc \in {"done", "check"}
      BY <1>8 DEF LookForStudent, PCs
    <2>2. call[p].pc = "look" /\ locked' = locked
      BY <1>8 DEF LookForStudent
    <2>3. pc \notin {"plan", "move", "settle"} /\ pc \notin InFlight
          /\ call[p].pc \notin {"idle", "done"}
      BY <2>1, <2>2 DEF InFlight
    <2> QED
      BY <2>1, <2>2, <2>3, PlainApart
  <1>6. ASSUME CopyToArchive(p) \/ Remove(p) \/ ClearDues(p) PROVE OneHolder' /\ OthersAway'
    <2>1. PICK pc \in PCs : Goto(p, pc) /\ pc \in {"remove", "clear", "done", "release"}
      BY <1>6 DEF CopyToArchive, Remove, ClearDues, PCs
    <2>2. call[p].pc \in {"copy", "remove", "clear"} /\ locked' = locked
      BY <1>6 DEF CopyToArchive, Remove, ClearDues
    <2>3. pc \notin {"plan", "move", "settle"} /\ call[p].pc \notin {"idle", "done"}
      BY <2>1, <2>2
    <2>4. Stray(call[p])
      BY <2>2 DEF Stray, InFlight, Resaving
    <2> QED
      BY <2>1, <2>2, <2>3, <2>4, PlainApart
  <1>7. ASSUME Kill(p) PROVE OneHolder' /\ OthersAway'
    <2>1. "killed" \in PCs \ {"plan", "move", "settle"} /\ "killed" \notin InFlight
      BY DEF PCs, InFlight
    <2>2. Goto(p, "killed") /\ locked' = locked /\ call[p].pc \notin {"idle", "done"}
      BY <1>7 DEF Kill
    <2> QED
      BY <2>1, <2>2, PlainApart
  <1> QED
    BY <1>1, <1>2, <1>3, <1>4, <1>5, <1>6, <1>7, <1>8

\* The steps of calls with the lock.  Planning waits for the others (Grace).
LEMMA HoldersApart ==
  ASSUME LockKept, NEW p \in Editor, Promote(p)
  PROVE  OneHolder' /\ OthersAway'
  <1>0. Sound
    BY DEF LockKept
  <1>1. CASE Lock(p)
    <2>1. PICK kind \in Open(p) \cap Locking : Lock(p)!(kind)
      BY <1>1 DEF Lock
    <2>2. ~locked /\ locked' = TRUE
      BY <2>1
    <2> DEFINE pc  == IF kind = "promote" THEN "grace" ELSE "plan"
               rec == [[NoCall EXCEPT !.pc = pc] EXCEPT !.kind = kind]
    <2>3. call' = [call EXCEPT ![p] = rec]
      BY <2>1 DEF Begin
    <2>4. call'[p] = rec /\ \A q \in Editor \ {p} : call'[q] = call[q]
      BY <2>3, <1>0 DEF Sound, RosterTypeOK
    <2>5. rec.kind = kind /\ rec.pc = pc
      BY DEF NoCall
    <2>6. ~Moving(rec)
      <3> HIDE DEF rec
      <3> QED
        BY <2>5 DEF Moving
    <2> HIDE DEF rec, pc
    <2>7. \A q \in Editor \ {p} : ~Holder(call'[q])
      BY <2>2, <2>4 DEF LockKept, OneHolder
    <2>8. OneHolder'
      BY <2>2, <2>7 DEF OneHolder, Holder
    <2>9. \A q \in Editor : ~Moving(call'[q])
      BY <2>4, <2>6, <2>7 DEF Moving, Holder, Locking
    <2> QED
      BY <2>8, <2>9 DEF OthersAway, Moving
  <1>2. CASE Release(p)
    <2>1. Holder(call[p]) /\ Goto(p, "done")
      BY <1>2, <1>0 DEF Release, Sound, Sensible, Holder
    <2>2. \A q \in Editor \ {p} : call'[q] = call[q] /\ ~Holder(call[q])
      BY <2>1 DEF Goto, LockKept, Sound, RosterTypeOK, OneHolder
    <2>3. call'[p].pc = "done"
      BY <2>1 DEF Goto, LockKept, Sound, RosterTypeOK, Local
    <2>4. \A q \in Editor : ~Holder(call'[q]) /\ ~Moving(call'[q])
      BY <2>2, <2>3 DEF Holder, Moving, Locking
    <2> QED
      BY <2>4 DEF OneHolder, OthersAway, Holder, Moving
  <1>3. CASE Grace(p)
    <2> DEFINE rec == [call[p] EXCEPT !.pc = "plan"]
    <2>1. call' = [call EXCEPT ![p] = rec] /\ locked' = locked
      BY <1>3, Zenon DEF Grace, Goto
    <2>2. rec.kind = call[p].kind /\ rec.pc = "plan"
      BY <1>0, PcFields DEF Sound, RosterTypeOK, PCs
    <2> HIDE DEF rec
    <2>3. Holder(call[p]) /\ ~Stray(rec)
      BY <1>0, <1>3, <2>2 DEF Grace, Sound, Sensible, Holder, Locking, Stray, InFlight
    <2>4. \A q \in Editor \ {p} : ~Stray(call[q])
      BY <1>3 DEF Grace, Stray
    <2> QED
      BY <2>1, <2>3, <2>4, StepApart
  <1>4. CASE PlanPromotion(p)
    <2>1. PICK rec \in Local : call' = [call EXCEPT ![p] = rec] /\ rec.pc = "move"
                               /\ rec.kind = "promote"
      BY <1>0, <1>4, PlanPromotionTurn
    <2>2. locked' = locked /\ Holder(call[p]) /\ Moving(call[p]) /\ ~Stray(rec)
      BY <1>4, <2>1 DEF PlanPromotion, Holder, Moving, Locking, Stray, InFlight
    <2> QED
      BY <2>1, <2>2, StepApart
  <1>5. CASE PlanRemoval(p)
    <2>1. PICK rec \in Local : call' = [call EXCEPT ![p] = rec] /\ rec.kind = "sem8"
      BY <1>0, <1>5, PlanRemovalTurn
    <2>2. locked' = locked /\ Holder(call[p]) /\ ~Moving(rec)
      BY <1>5, <2>1 DEF PlanRemoval, Holder, Moving, Locking
    <2> QED
      BY <2>1, <2>2, StepApart
  <1>6. CASE PlanFix(p)
    <2>1. PICK rec \in Local : call' = [call EXCEPT ![p] = rec] /\ rec.kind = "fix"
      BY <1>0, <1>6, PlanFixTurn
    <2>2. locked' = locked /\ Holder(call[p]) /\ ~Moving(rec)
      BY <1>6, <2>1 DEF PlanFix, Holder, Moving, Locking
    <2> QED
      BY <2>1, <2>2, StepApart
  <1>7. CASE Move(p)
    <2> DEFINE rec == [call[p] EXCEPT !.pc = "settle"]
    <2>1. call' = [call EXCEPT ![p] = rec] /\ locked' = locked
      BY <1>7, Zenon DEF Move, Goto
    <2>2. rec.kind = call[p].kind /\ rec.pc = "settle"
      BY <1>0, PcFields DEF Sound, RosterTypeOK, PCs
    <2> HIDE DEF rec
    <2>3. Holder(call[p]) /\ Moving(call[p]) /\ ~Stray(rec)
      BY <1>0, <1>7, <2>2 DEF Move, Sound, Sensible, Holder, Moving, Locking, Stray, InFlight
    <2> QED
      BY <2>1, <2>3, StepApart
  <1>8. CASE Repair(p) \/ RefusePromotion(p) \/ Settle(p)
    <2>1. Goto(p, "release") /\ locked' = locked /\ call[p].pc \notin {"idle", "done"}
      BY <1>8 DEF Repair, RefusePromotion, Settle
    <2>2. "release" \in PCs \ {"plan", "move", "settle"} /\ "release" \notin InFlight
      BY DEF PCs, InFlight
    <2> QED
      BY <2>1, <2>2, PlainApart
  <1> QED
    BY <1>1, <1>2, <1>3, <1>4, <1>5, <1>6, <1>7, <1>8 DEF Promote

LEMMA ApartInit == RosterInit => LockKept
  <1> SUFFICES ASSUME RosterInit PROVE LockKept
    OBVIOUS
  <1>1. \A p \in Editor : call[p].kind = "add" /\ call[p].pc = "idle"
    BY DEF RosterInit, NoCall
  <1> QED
    BY <1>1, SoundInit DEF LockKept, OneHolder, OthersAway, Holder, Moving

LEMMA ApartStep ==
  ASSUME LockKept, [RosterNext]_rosterVars
  PROVE  LockKept'
  <1>1. Sound'
    BY SoundStep DEF LockKept
  <1>2. ASSUME NEW p \in Editor, RosterStep(p) PROVE OneHolder' /\ OthersAway'
    BY <1>2, BeginsApart, WritersApart, HoldersApart
       DEF RosterStep, Add, Edit, Delete, Restore
  <1>3. ASSUME UNCHANGED rosterVars PROVE OneHolder' /\ OthersAway'
    BY <1>3 DEF rosterVars, LockKept, OneHolder, OthersAway, Holder, Moving, Stray,
           Resaving, SameClass
  <1> QED
    BY <1>1, <1>2, <1>3 DEF RosterNext, LockKept

\* What a step on the roster says of the call that makes it.
LEMMA WhoWrites ==
  ASSUME Sound, NEW q \in Editor, RosterStep(q), place' # place
  PROVE  /\ Stray(call[q]) \/ Holder(call[q]) \/ (Resaving(call[q]) /\ (Save(q) \/ Unsave(q)))
         /\ call'[q].pc # call[q].pc
         /\ \A p \in Editor \ {q} : call'[p] = call[p]
  <1>1. Insert(q) \/ Unadd(q) \/ Save(q) \/ Unsave(q) \/ Remove(q) \/ Repair(q)
        \/ Move(q) \/ Settle(q)
    BY DEF RosterStep, Add, Edit, Delete, Restore, Promote, StartAdding, LookForDuplicates,
           CheckClass, Verify, StartEditing, StartDeleting, CopyToArchive, ClearDues,
           StartRestoring, LookForStudent, ReinsertDues, DropCopy, Lock, Grace, PlanRemoval,
           PlanFix, PlanPromotion, RefusePromotion, Release, Kill
  <1>2. CASE Insert(q)
    <2>1. PICK rec \in Local : call' = [call EXCEPT ![q] = rec] /\ rec.pc \in {"done", "verify"}
      BY <1>2, InsertTurn
    <2>2. call[q].pc = "insert"
      BY <1>2 DEF Insert
    <2>3. Stray(call[q])
      BY <2>2 DEF Stray, InFlight, Resaving
    <2>4. call'[q] = rec /\ \A p \in Editor \ {q} : call'[p] = call[p]
      BY <2>1 DEF Sound, RosterTypeOK
    <2> QED
      BY <2>1, <2>2, <2>3, <2>4
  <1>3. ASSUME NEW pc \in PCs, Goto(q, pc), pc # call[q].pc
        PROVE  call'[q].pc # call[q].pc /\ \A p \in Editor \ {q} : call'[p] = call[p]
    BY <1>3 DEF Goto, Sound, RosterTypeOK, Local
  <1>4. CASE Unadd(q) \/ Save(q) \/ Unsave(q) \/ Remove(q)
    <2>1. PICK pc \in PCs : Goto(q, pc) /\ pc \in {"done", "verify", "clear"}
      BY <1>4 DEF Unadd, Save, Unsave, Remove, PCs
    <2>2. call[q].pc \in {"unadd", "save", "unsave", "remove"}
      BY <1>4 DEF Unadd, Save, Unsave, Remove
    <2>3. Stray(call[q]) \/ (Resaving(call[q]) /\ (Save(q) \/ Unsave(q)))
      BY <1>4, <2>2 DEF Stray, InFlight, Resaving, Unadd, Remove
    <2> QED
      BY <2>1, <2>2, <2>3, <1>3
  <1>5. CASE Repair(q) \/ Move(q) \/ Settle(q)
    <2>1. PICK pc \in PCs : Goto(q, pc) /\ pc # call[q].pc
      BY <1>5 DEF Repair, Move, Settle, PCs
    <2>2. call[q].pc \in {"repair", "move", "settle"}
      BY <1>5 DEF Repair, Move, Settle
    <2>3. Holder(call[q])
      BY <2>2 DEF Sound, Sensible, Holder, Locking
    <2> QED
      BY <2>1, <2>3, <1>3
  <1> QED
    BY <1>1, <1>2, <1>4, <1>5

LEMMA AloneStep ==
  ASSUME LockKept, [RosterNext]_rosterVars, NEW p \in Editor,
         call[p].pc \in {"move", "settle"}, call'[p].pc = call[p].pc,
         NEW s \in Student, place'[s] # place[s]
  PROVE  \E q \in Editor : /\ SameClass(call[q]) /\ s \in call[q].who
                           /\ call[q].pc \in {"save", "unsave"}
  <1>0. place' # place
    OBVIOUS
  <1>1. PICK q \in Editor : RosterStep(q)
    BY <1>0 DEF RosterNext, rosterVars
  <1>2. /\ Stray(call[q]) \/ Holder(call[q]) \/ (Resaving(call[q]) /\ (Save(q) \/ Unsave(q)))
        /\ call'[q].pc # call[q].pc
    BY <1>0, <1>1, WhoWrites DEF LockKept
  <1>3. q # p
    BY <1>2
  <1>4. Moving(call[p]) /\ Holder(call[p])
    BY DEF LockKept, Sound, Sensible, Moving, Holder, Locking
  <1>5. Resaving(call[q]) /\ (Save(q) \/ Unsave(q))
    BY <1>2, <1>3, <1>4 DEF LockKept, OneHolder, OthersAway
  <1>6. s \in call[q].who
    BY <1>5 DEF Save, Unsave, Rewritten, LockKept, Sound, RosterTypeOK
  <1>7. call[q].pc \in {"save", "unsave"}
    BY <1>5 DEF Save, Unsave
  <1> QED
    BY <1>5, <1>6, <1>7 DEF Resaving

\* While a promotion moves its students nobody else writes the roster, but forms
\* saved with the class unchanged (they do not ask for the lock), each for the
\* one student it shows.
THEOREM PromotesAlone == RosterSpec => PromotionAlone
  <1>1. LockKept /\ [RosterNext]_rosterVars
        => [\A p \in Editor : call[p].pc \in {"move", "settle"} /\ call'[p].pc = call[p].pc
              => \A s \in Student : place'[s] # place[s] =>
                    \E q \in Editor : /\ SameClass(call[q]) /\ s \in call[q].who
                                      /\ call[q].pc \in {"save", "unsave"}]_rosterVars
    BY AloneStep
  <1>2. LockKept /\ [RosterNext]_rosterVars => LockKept'
    BY ApartStep
  <1> QED
    BY <1>1, <1>2, ApartInit, PTL DEF RosterSpec, PromotionAlone

-----------------------------------------------------------------------------
(***************************************************************************)
(* Students, their copies and the calls that have them on trial.           *)
(***************************************************************************)

\* Nobody restores while another deletes or removes Semester 8.
Separated ==
    \A f \in Casts, p, q \in Editor :
        p # q /\ "restore" \in f[p] => f[q] \cap {"delete", "sem8"} = {}

\* A call that adds and has not inserted; that may still take back what it
\* inserted; that restores; that restores and has brought the student back for
\* good; that has a student of its own; that deletes.
Asking(l)    == l.kind \in Adding /\ l.pc \in {"look", "check", "insert"}
Trying(l)    == l.pc \in {"verify", "unadd"}
Restoring(l) == /\ l.kind = "restore"
                /\ l.pc \in {"look", "check", "insert", "verify", "unadd", "dues", "drop"}
Returned(l)  == l.kind = "restore" /\ l.pc \in {"dues", "drop"}
Owning(l)    == Trying(l) \/ Returned(l)
Removing(l)  == l.kind \in {"delete", "sem8"} /\ l.pc # "idle"

\* s is on the roster and no call will take him back.
Secure(s) == place[s] # NoPlace /\ \A p \in Editor : Trying(call[p]) => s \notin call[p].new

\* Each call is one that its editor may make, and its fields fit.
CastKept == \A p \in Editor : call[p].pc # "idle" => call[p].kind \in cast[p]
Shape(l) ==
    /\ l.new \subseteq l.who
    /\ l.pc = "idle" => l.who = {}
    /\ l.new # {} => l.kind \in Adding \cup {"restore"}
    /\ l.kind = "restore" /\ Owning(l) => l.new = l.who
    /\ Restoring(l) => l.copy \in Copy
    /\ l.pc \in {"dues", "drop"} => l.kind = "restore"
    /\ l.pc \in {"look", "insert"} => l.kind \in Adding \cup {"restore"}
    /\ l.pc = "check" => l.kind \in Adding \cup Editing \cup {"restore"}
    /\ l.pc \in {"look", "check", "insert"} => l.to \in Place
    /\ l.pc \in {"look", "check", "insert"} => l.new = {}
    /\ l.kind \in {"delete", "restore"} => \A s, t \in l.who : s = t
Shapes == \A p \in Editor : Shape(call[p])

\* A student nobody has asked for is nowhere.
Unasked ==
    \A s \in Student : life[s] = "new" =>
        /\ place[s] = NoPlace /\ s \notin ArchivedStudents
        /\ \A p \in Editor : s \notin call[p].who

\* A new student is his call's alone.
OwnForms ==
    \A p \in Editor : call[p].kind \in Adding => \A s \in call[p].who :
        /\ \A q \in Editor \ {p} : call[q].kind \in Adding \cup {"restore"} => s \notin call[q].who
        /\ s \in ArchivedStudents => \E q \in Editor : Removing(call[q])
        /\ Asking(call[p]) =>
            /\ life[s] = "asked" /\ place[s] = NoPlace /\ s \notin ArchivedStudents
            /\ \A q \in Editor \ {p} : s \notin call[q].who

\* A student who is being restored is his call's alone, once he is back.
OwnReturns ==
    \A p \in Editor : call[p].kind = "restore" /\ Owning(call[p]) => \A s \in call[p].new :
        /\ place[s] # NoPlace
        /\ \A q \in Editor \ {p} : Owning(call[q]) => s \notin call[q].new

\* The copy is there until he is back for good.
CopiesHeld ==
    \A p \in Editor : Restoring(call[p]) =>
        \/ /\ archive[call[p].copy] # NoCopy
           /\ call[p].who = {archive[call[p].copy].who}
           /\ call[p].dues = archive[call[p].copy].due
        \/ call[p].pc \in {"look", "check", "insert"} /\ \A s \in call[p].who : Secure(s)

\* A copy that held requests goes when they are back.
DuesBack ==
    \A p \in Editor : call[p].pc = "drop" /\ call[p].dues => call[p].who \subseteq due

\* Who is on trial is somewhere, and not yet entered for good.
Known(s) == place[s] # NoPlace \/ s \in ArchivedStudents
Tried ==
    \A p \in Editor : call[p].kind \in Adding /\ Trying(call[p]) => \A s \in call[p].new :
        Known(s) /\ life[s] = "asked"

\* Who is about to be deleted has a copy.
Covered ==
    \A p \in Editor : call[p].pc = "remove" => \A s \in call[p].who :
        place[s] # NoPlace => s \in ArchivedStudents

Books == CastKept /\ Shapes /\ Unasked /\ OwnForms /\ OwnReturns /\ CopiesHeld /\ DuesBack
         /\ Tried /\ Covered /\ NobodyLost

-----------------------------------------------------------------------------
\* A call begins: it has nothing of its own yet, and asks for students who are
\* known, or whom nobody has asked for.
LEMMA BeginBooks ==
  ASSUME Sound, Books, Separated, NEW p \in Editor, NEW rec, call' = [call EXCEPT ![p] = rec],
         UNCHANGED <<place, archive, due, cast>>,
         call[p].pc = "idle", rec.pc # "idle", rec.kind \in cast[p], Shape(rec), rec.new = {},
         ~Owning(rec), rec.pc # "remove", rec.who \subseteq Student,
         \A s \in Student : life'[s] = IF rec.kind \in Adding /\ s \in rec.who THEN "asked"
                                       ELSE life[s],
         \A s \in rec.who :
            IF rec.kind \in Adding THEN life[s] = "new"
            ELSE place[s] # NoPlace \/ life[s] = "student" \/ s \in ArchivedStudents,
         rec.kind = "restore" => /\ archive[rec.copy] # NoCopy /\ rec.copy \in Copy
                                 /\ rec.who = {archive[rec.copy].who}
                                 /\ rec.dues = archive[rec.copy].due
  PROVE  Books'
  <1>0. call'[p] = rec /\ \A q \in Editor \ {p} : call'[q] = call[q]
    BY DEF Sound, RosterTypeOK
  <1>1. ArchivedStudents' = ArchivedStudents
    BY DEF ArchivedStudents
  <1>2. call[p].who = {} /\ call[p].new = {}
    BY DEF Books, Shapes, Shape
  <1>3. \A s \in rec.who : rec.kind \notin Adding => life[s] # "new"
    BY DEF Books, Unasked
  <1>4. CastKept'
    BY <1>0 DEF Books, CastKept
  <1>5. Shapes'
    BY <1>0 DEF Books, Shapes, Shape, Owning, Returned, Trying, Restoring
  <1>6. Unasked'
    BY <1>0, <1>1, <1>3 DEF Books, Unasked
  <1>7. OwnForms'
    <2>1. ASSUME NEW q \in Editor \ {p}, call[q].kind \in Adding, NEW s \in call[q].who,
                 rec.kind \in Adding \cup {"restore"}
          PROVE  s \notin rec.who
      <3>1. s \in Student
        BY DEF Sound, RosterTypeOK, Local
      <3>2. CASE rec.kind \in Adding
        BY <3>1, <3>2, <2>1 DEF Books, Unasked
      <3>3. CASE rec.kind = "restore"
        <4> SUFFICES ASSUME s \in rec.who PROVE FALSE
          OBVIOUS
        <4>1. s \in ArchivedStudents
          BY <3>3, <3>1 DEF ArchivedStudents
        <4>2. PICK r \in Editor : Removing(call[r])
          BY <4>1, <2>1 DEF Books, OwnForms
        <4>3. r # p /\ call[r].kind \in cast[r] /\ call[r].kind \in {"delete", "sem8"}
          BY <4>2 DEF Removing, Books, CastKept
        <4>4. cast \in Casts
          BY DEF Sound, RosterTypeOK
        <4> QED
          BY <4>3, <4>4, <3>3 DEF Separated
      <3> QED
        BY <2>1, <3>2, <3>3
    <2>2. ASSUME NEW q \in Editor \ {p}, call[q].kind \in Adding, Asking(call[q]),
                 NEW s \in call[q].who
          PROVE  s \notin rec.who
      <3>1. s \in Student /\ life[s] = "asked" /\ place[s] = NoPlace /\ s \notin ArchivedStudents
        BY <2>2 DEF Sound, RosterTypeOK, Local, Books, OwnForms
      <3> QED
        BY <3>1, <2>2
    <2>3. ASSUME NEW s \in call[p].who PROVE FALSE
      BY <1>2
    <2>4. \A q \in Editor : Removing(call[q]) => Removing(call'[q])
      BY <1>0 DEF Removing
    <2>5. ASSUME NEW q \in Editor, call'[q].kind \in Adding, NEW s \in call'[q].who
          PROVE  /\ \A r \in Editor \ {q} : call'[r].kind \in Adding \cup {"restore"}
                        => s \notin call'[r].who
                 /\ s \in ArchivedStudents => \E r \in Editor : Removing(call'[r])
                 /\ Asking(call'[q]) =>
                     /\ life'[s] = "asked" /\ place[s] = NoPlace /\ s \notin ArchivedStudents
                     /\ \A r \in Editor \ {q} : s \notin call'[r].who
      <3>1. CASE q = p
        BY <3>1, <2>5, <1>0 DEF Books, Unasked
      <3>2. CASE q # p
        <4>1. s \in Student /\ call'[q] = call[q] /\ s \in call[q].who
          BY <3>2, <2>5, <1>0 DEF Sound, RosterTypeOK, Local
        <4>2. life[s] = "asked" => life'[s] = "asked"
          BY <4>1
        <4> QED
          BY <3>2, <2>5, <1>0, <2>1, <2>2, <2>4, <4>1, <4>2 DEF Books, OwnForms
      <3> QED
        BY <3>1, <3>2
    <2> QED
      BY <2>5, <1>1 DEF OwnForms
  <1>8. OwnReturns'
    BY <1>0, <1>2 DEF Books, OwnReturns
  <1>9. CopiesHeld'
    <2>1. ASSUME NEW s, Secure(s) PROVE Secure(s)'
      BY <2>1, <1>0 DEF Secure
    <2> QED
      BY <1>0, <2>1 DEF Books, CopiesHeld, Restoring
  <1>10. DuesBack'
    BY <1>0 DEF Books, DuesBack, Shape, Owning, Returned
  <1>11. Tried'
    <2>1. ASSUME NEW q \in Editor \ {p}, call[q].kind \in Adding, Trying(call[q]),
                 NEW s \in call[q].new
          PROVE  life'[s] = "asked" /\ Known(s)'
      <3>1. s \in Student /\ life[s] = "asked" /\ Known(s)
        BY <2>1 DEF Sound, RosterTypeOK, Local, Books, Tried
      <3> QED
        BY <3>1, <1>1 DEF Known
    <2>2. ~Trying(rec)
      BY DEF Owning
    <2> QED
      BY <2>1, <2>2, <1>0 DEF Tried
  <1>12. Covered'
    BY <1>0, <1>1 DEF Books, Covered
  <1>13. NobodyLost'
    BY <1>1 DEF Books, NobodyLost
  <1> QED
    BY <1>4, <1>5, <1>6, <1>7, <1>8, <1>9, <1>10, <1>11, <1>12, <1>13 DEF Books

\* A call goes on, with what it had: it takes nothing on and gives nothing up.
LEMMA PlainBooks ==
  ASSUME Sound, Books, NEW p \in Editor, NEW rec, call' = [call EXCEPT ![p] = rec],
         UNCHANGED <<archive, life, cast>>,
         \A s \in Student : place'[s] = NoPlace <=> place[s] = NoPlace,
         due \subseteq due' \/ \A q \in Editor \ {p} : call[q].pc # "drop",
         call[p].pc # "idle", rec.pc # "idle", rec.kind = call[p].kind,
         rec.who = call[p].who, rec.new = call[p].new, rec.copy = call[p].copy,
         rec.dues = call[p].dues, Shape(rec),
         Asking(rec) => Asking(call[p]),
         Owning(rec) => Owning(call[p]) \/ call[p].new = {},
         Trying(rec) => Trying(call[p]) \/ call[p].new = {},
         Restoring(rec) => /\ Restoring(call[p])
                           /\ rec.pc \in {"look", "check", "insert"}
                              <=> call[p].pc \in {"look", "check", "insert"},
         rec.pc # "remove",
         rec.pc = "drop" /\ rec.dues => rec.who \subseteq due'
  PROVE  Books'
  <1>0. call'[p] = rec /\ \A q \in Editor \ {p} : call'[q] = call[q]
    BY DEF Sound, RosterTypeOK
  <1>1. ArchivedStudents' = ArchivedStudents
    BY DEF ArchivedStudents
  <1>2. \A q \in Editor : /\ call[q].who \subseteq Student /\ call[q].new \subseteq Student
                          /\ call'[q].who = call[q].who /\ call'[q].new = call[q].new
                          /\ call'[q].kind = call[q].kind
    BY <1>0 DEF Sound, RosterTypeOK, Local
  <1>3. ASSUME NEW q \in Editor
        PROVE  /\ Asking(call'[q]) => Asking(call[q])
               /\ Trying(call'[q]) => Trying(call[q]) \/ call[q].new = {}
               /\ Owning(call'[q]) => Owning(call[q]) \/ call[q].new = {}
               /\ Removing(call[q]) <=> Removing(call'[q])
               /\ Restoring(call'[q]) => /\ Restoring(call[q]) /\ call'[q].copy = call[q].copy
                                         /\ call'[q].dues = call[q].dues
                                         /\ call'[q].pc \in {"look", "check", "insert"}
                                            <=> call[q].pc \in {"look", "check", "insert"}
    BY <1>0 DEF Removing
  <1>4. CastKept'
    BY <1>0 DEF Books, CastKept
  <1>5. Shapes'
    BY <1>0 DEF Books, Shapes, Shape, Owning, Returned, Trying, Restoring
  <1>6. Unasked'
    BY <1>1, <1>2 DEF Books, Unasked
  <1>7. OwnForms'
    BY <1>1, <1>2, <1>3 DEF Books, OwnForms
  <1>8. OwnReturns'
    BY <1>2, <1>3 DEF Books, OwnReturns
  <1>9. CopiesHeld'
    <2>1. ASSUME NEW s \in Student, Secure(s) PROVE Secure(s)'
      BY <2>1, <1>2, <1>3 DEF Secure
    <2> QED
      BY <1>2, <1>3, <2>1 DEF Books, CopiesHeld
  <1>10. DuesBack'
    <2>1. ASSUME NEW q \in Editor \ {p}, call[q].pc = "drop", call[q].dues
          PROVE  call[q].who \subseteq due'
      BY <2>1 DEF Books, DuesBack, Shapes, Shape
    <2> QED
      BY <1>0, <2>1 DEF DuesBack
  <1>11. Tried'
    BY <1>1, <1>2, <1>3 DEF Books, Tried, Known
  <1>12. Covered'
    BY <1>0, <1>1, <1>2 DEF Books, Covered
  <1>13. NobodyLost'
    BY <1>1 DEF Books, NobodyLost
  <1> QED
    BY <1>4, <1>5, <1>6, <1>7, <1>8, <1>9, <1>10, <1>11, <1>12, <1>13 DEF Books

\* Whose call it is: beside a restoration nobody deletes, removes or repairs.
LEMMA Alone ==
  ASSUME Sound, CastKept, Separated, NEW p \in Editor, NEW q \in Editor, p # q,
         call[p].pc # "idle", call[p].kind = "restore", call[q].pc # "idle"
  PROVE  call[q].kind \notin {"delete", "sem8"}
  BY DEF Sound, RosterTypeOK, CastKept, Separated

\* Two calls have no new student in common.
LEMMA OwnNew ==
  ASSUME Sound, Books, NEW p \in Editor, NEW q \in Editor, p # q,
         call[p].kind \in Adding, NEW s \in call[p].who
  PROVE  s \notin call[q].new
  BY DEF Books, OwnForms, Shapes, Shape

\* A call inserts the students S and becomes rec.
Inserts(p, S, rec) ==
    /\ call' = [call EXCEPT ![p] = rec]
    /\ rec.pc \in {"done", "verify"} /\ rec.kind = call[p].kind /\ rec.who = call[p].who
    /\ rec.new = S /\ rec.copy = call[p].copy /\ rec.dues = call[p].dues
    /\ rec.to = call[p].to
    /\ S = {s \in call[p].who : ~RegTaken(s)}
    /\ S = {} => rec.pc = "done"
    /\ rec.pc = "done" => S = {} \/ (call[p].kind = "import" /\ S # call[p].who)
    /\ \A s \in S : s \in Student /\ place[s] = NoPlace
    /\ \A s \in Student : /\ s \in S => place'[s] = call[p].to /\ place'[s] # NoPlace
                          /\ s \notin S => place'[s] = place[s] /\ life'[s] = life[s]
                          /\ s \in S /\ rec.pc = "done" => life'[s] = "student"
                          /\ rec.pc = "verify" => life'[s] = life[s]

LEMMA InsertFields ==
  ASSUME Sound, Books, NEW p \in Editor, Insert(p)
  PROVE  \E S \in SUBSET call[p].who, rec \in Local : Inserts(p, S, rec)
  <1> DEFINE S   == {s \in call[p].who : ~RegTaken(s)}
             cut == S = {} \/ (call[p].kind = "import" /\ S # call[p].who)
             pc  == IF cut THEN "done" ELSE "verify"
             rec == [call[p] EXCEPT !.new = S, !.pc = pc]
  <1>1. call[p] \in Local /\ call[p].to \in Place
    BY DEF Sound, RosterTypeOK, Books, Shapes, Shape, Insert
  <1>2. S \in SUBSET Student /\ S \in SUBSET call[p].who
    BY <1>1 DEF Local
  <1>3. \A s \in S : place[s] = NoPlace
    BY <1>2 DEF RegTaken, Present
  <1>4. place' = [s \in Student |-> IF s \in S THEN call[p].to ELSE place[s]]
    BY Zenon DEF Insert
  <1>5. life' = [s \in Student |-> IF s \in S /\ cut THEN "student" ELSE life[s]]
    BY Zenon DEF Insert
  <1>6. call' = [call EXCEPT ![p] = rec]
    BY Zenon DEF Insert
  <1>7. pc \in PCs /\ pc \in {"done", "verify"} /\ (pc = "done" <=> cut)
    BY DEF PCs
  <1>8. call[p].to # NoPlace
    BY <1>1, RosterAssumption
  <1>9. S = {s \in call[p].who : ~RegTaken(s)}
    OBVIOUS
  <1>10. (S = {} => cut) /\ (cut => S = {} \/ (call[p].kind = "import" /\ S # call[p].who))
    OBVIOUS
  <1> HIDE DEF S, cut, pc
  <1>11. /\ rec \in Local /\ rec.pc = pc /\ rec.kind = call[p].kind /\ rec.who = call[p].who
         /\ rec.new = S /\ rec.copy = call[p].copy /\ rec.dues = call[p].dues
         /\ rec.to = call[p].to
    BY <1>1, <1>2, <1>7 DEF Local
  <1> HIDE DEF rec
  <1>12. /\ S = {} => rec.pc = "done"
         /\ rec.pc = "done" => S = {} \/ (call[p].kind = "import" /\ S # call[p].who)
    BY <1>7, <1>10, <1>11
  <1>13. \A s \in Student : /\ s \in S => place'[s] = call[p].to /\ place'[s] # NoPlace
                            /\ s \notin S => place'[s] = place[s] /\ life'[s] = life[s]
                            /\ s \in S /\ rec.pc = "done" => life'[s] = "student"
                            /\ rec.pc = "verify" => life'[s] = life[s]
    BY <1>4, <1>5, <1>7, <1>8, <1>11
  <1>14. Inserts(p, S, rec)
    BY <1>2, <1>3, <1>6, <1>7, <1>9, <1>11, <1>12, <1>13 DEF Inserts
  <1> QED
    BY <1>2, <1>11, <1>14

LEMMA InsertBooks ==
  ASSUME Sound, Books, Separated, NEW p \in Editor, Insert(p)
  PROVE  Books'
  <1>a. PICK S \in SUBSET call[p].who, rec \in Local : Inserts(p, S, rec)
    BY InsertFields
  <1> USE DEF Inserts
  <1>b. UNCHANGED <<archive, due, cast>> /\ call[p].pc = "insert"
    BY DEF Insert
  <1>0. call'[p] = rec /\ \A q \in Editor \ {p} : call'[q] = call[q]
    BY <1>a DEF Sound, RosterTypeOK
  <1>1. ArchivedStudents' = ArchivedStudents
    BY <1>b DEF ArchivedStudents
  <1>2. \A q \in Editor : call[q].who \subseteq Student /\ call[q].new \subseteq Student
    BY DEF Sound, RosterTypeOK, Local
  <1>3. Shape(call[p]) /\ call[p].kind \in Adding \cup {"restore"}
    BY <1>b DEF Books, Shapes, Shape
  <1>4. ~Asking(rec)
    BY <1>a DEF Asking
  <1>5. ASSUME NEW q \in Editor \ {p}, NEW s \in call[q].new, Owning(call[q])
        PROVE  s \notin S
    <2>1. call[q].kind \in Adding \cup {"restore"} /\ s \in call[q].who
      BY <1>5 DEF Books, Shapes, Shape
    <2>2. CASE call[q].kind \in Adding
      BY <1>3, <1>a, <2>1, <2>2 DEF Books, OwnForms
    <2>3. CASE call[q].kind = "restore"
      BY <1>a, <1>5, <2>3 DEF Books, OwnReturns
    <2> QED
      BY <2>1, <2>2, <2>3
  <1>6. \A q \in Editor : call'[q].who = call[q].who /\ call'[q].kind = call[q].kind
    BY <1>0, <1>a
  <1>7. \A q \in Editor : Removing(call[q]) => Removing(call'[q])
    BY <1>0, <1>a DEF Removing
  <1>8. CastKept'
    BY <1>0, <1>a, <1>b DEF Books, CastKept
  <1>9. Shapes'
    <2>1. rec.kind = "restore" /\ Owning(rec) => rec.new = rec.who
      <3>1. rec.kind = "restore" => \A s, t \in call[p].who : s = t
        BY <1>3, <1>a DEF Shape
      <3>2. Owning(rec) => S # {}
        BY <1>a DEF Owning, Trying, Returned
      <3> QED
        BY <1>a, <3>1, <3>2
    <2>2. Restoring(rec) => rec.copy \in Copy
      BY <1>3, <1>a, <1>b DEF Shape, Restoring
    <2>3. Shape(rec)
      <3>1. S \subseteq call[p].who /\ (rec.kind \in {"delete", "restore"} => \A s, t \in rec.who : s = t)
        BY <1>3, <1>a DEF Shape
      <3> QED
        BY <2>1, <2>2, <3>1, <1>3, <1>a DEF Shape
    <2> QED
      BY <1>0, <2>3 DEF Books, Shapes, Shape, Owning, Returned, Trying, Restoring
  <1>10. Unasked'
    BY <1>1, <1>2, <1>6, <1>a DEF Books, Unasked
  <1>11. OwnForms'
    <2>1. ASSUME NEW q \in Editor, call[q].kind \in Adding, Asking(call'[q]), NEW s \in call[q].who
          PROVE  life'[s] = "asked" /\ place'[s] = NoPlace /\ Asking(call[q])
      <3>1. q # p /\ Asking(call[q])
        BY <1>0, <1>4, <2>1
      <3>2. s \notin S /\ s \in Student
        BY <1>2, <1>a, <2>1, <3>1 DEF Books, OwnForms
      <3> QED
        BY <1>a, <2>1, <3>1, <3>2 DEF Books, OwnForms
    <2> QED
      BY <2>1, <1>1, <1>6, <1>7 DEF Books, OwnForms
  <1>12. OwnReturns'
    <2>1. ASSUME NEW q \in Editor, call'[q].kind = "restore", Owning(call'[q]),
                 NEW s \in call'[q].new
          PROVE  /\ place'[s] # NoPlace
                 /\ \A r \in Editor \ {q} : Owning(call'[r]) => s \notin call'[r].new
      <3>1. CASE q = p
        <4>1. s \in S
          BY <1>0, <1>a, <2>1, <3>1
        <4> QED
          BY <1>0, <1>5, <1>a, <3>1, <4>1
      <3>2. CASE q # p
        <4>1. call'[q] = call[q] /\ s \notin S /\ s \in Student
          BY <1>0, <1>2, <1>5, <2>1, <3>2
        <4>2. \A r \in Editor \ {q, p} : Owning(call'[r]) => s \notin call'[r].new
          BY <1>0, <2>1, <4>1 DEF Books, OwnReturns
        <4>3. s \notin call'[p].new
          BY <1>0, <1>a, <4>1
        <4> QED
          BY <1>a, <2>1, <4>1, <4>2, <4>3 DEF Books, OwnReturns
      <3> QED
        BY <3>1, <3>2
    <2> QED
      BY <2>1 DEF OwnReturns
  <1>13. CopiesHeld'
    <2>1. ASSUME NEW s \in Student, Secure(s) PROVE Secure(s)'
      <3>1. s \notin S /\ place'[s] # NoPlace
        BY <1>a, <2>1 DEF Secure
      <3> QED
        BY <1>0, <1>a, <2>1, <3>1 DEF Secure
    <2>2. ASSUME NEW q \in Editor \ {p}, Restoring(call[q])
          PROVE  CopiesHeld!(q)'
      BY <1>0, <1>2, <1>b, <2>1, <2>2 DEF Books, CopiesHeld
    <2>3. ASSUME Restoring(rec) PROVE CopiesHeld!(p)'
      <3>1. Restoring(call[p]) /\ rec.pc = "verify" /\ S # {}
        BY <1>a, <1>b, <2>3 DEF Restoring
      <3>2. ~\A s \in call[p].who : Secure(s)
        BY <1>a, <3>1 DEF Secure
      <3> QED
        BY <1>0, <1>a, <1>b, <3>1, <3>2 DEF Books, CopiesHeld
    <2> QED
      BY <1>0, <2>2, <2>3 DEF CopiesHeld
  <1>14. DuesBack'
    BY <1>0, <1>a, <1>b DEF Books, DuesBack
  <1>15. Tried'
    <2>1. ASSUME NEW q \in Editor \ {p}, call[q].kind \in Adding, Trying(call[q]),
                 NEW s \in call[q].new
          PROVE  Known(s)' /\ life'[s] = "asked"
      <3>1. s \in Student /\ s \notin S
        BY <1>2, <1>5, <2>1 DEF Owning
      <3> QED
        BY <1>1, <1>a, <2>1, <3>1 DEF Books, Tried, Known
    <2>2. ASSUME call[p].kind \in Adding, Trying(rec), NEW s \in S
          PROVE  Known(s)' /\ life'[s] = "asked"
      <3>1. Asking(call[p]) /\ rec.pc = "verify" /\ s \in Student
        BY <1>a, <1>b, <2>2 DEF Asking, Trying
      <3> QED
        BY <1>a, <2>2, <3>1 DEF Books, OwnForms, Known
    <2> QED
      BY <1>0, <1>a, <2>1, <2>2 DEF Tried
  <1>16. Covered'
    <2>1. ASSUME NEW q \in Editor, call'[q].pc = "remove", NEW s \in call'[q].who,
                 place'[s] # NoPlace
          PROVE  s \in ArchivedStudents
      <3>1. q # p /\ call[q].pc = "remove" /\ s \in call[q].who /\ s \in Student
        BY <1>0, <1>2, <1>a, <2>1
      <3>2. call[q].kind \in {"delete", "sem8"}
        BY <3>1 DEF Sound, Sensible
      <3>3. s \notin S
        <4>1. CASE call[p].kind \in Adding
          <5>1. Asking(call[p])
            BY <1>b, <4>1 DEF Asking
          <5> QED
            BY <1>a, <3>1, <4>1, <5>1 DEF Books, OwnForms
        <4>2. CASE call[p].kind = "restore"
          BY <1>b, <3>1, <3>2, <4>2, Alone DEF Books
        <4> QED
          BY <1>3, <4>1, <4>2
      <3> QED
        BY <1>a, <2>1, <3>1, <3>3 DEF Books, Covered
    <2> QED
      BY <1>1, <2>1 DEF Covered
  <1>17. NobodyLost'
    BY <1>1, <1>a DEF Books, NobodyLost
  <1> QED
    BY <1>8, <1>9, <1>10, <1>11, <1>12, <1>13, <1>14, <1>15, <1>16, <1>17 DEF Books

\* A step that leaves the archive alone, and nobody else's call.
LEMMA Others ==
  ASSUME Sound, NEW p \in Editor, NEW rec, call' = [call EXCEPT ![p] = rec]
  PROVE  /\ call'[p] = rec /\ \A q \in Editor \ {p} : call'[q] = call[q]
         /\ \A q \in Editor : call[q].who \subseteq Student /\ call[q].new \subseteq Student
         /\ call[p] \in Local
  BY DEF Sound, RosterTypeOK, Local

\* A call goes on where its kind allows.
LEMMA GoesOn ==
  ASSUME Sound, Books, NEW p \in Editor, NEW pc \in PCs, Goto(p, pc), call[p].pc # "idle",
         \/ pc \in {"done", "killed", "settle", "release", "clear", "plan", "verify", "unadd",
                    "unsave", "save"}
         \/ pc \in {"look", "insert"} /\ call[p].pc = "check"
            /\ call[p].kind \in Adding \cup {"restore"}
         \/ pc = "check" /\ call[p].pc = "look"
         \/ pc = "dues" /\ Owning(call[p]) /\ call[p].kind = "restore"
         \/ pc = "drop" /\ call[p].pc = "dues"
         \/ pc = "remove",
         Owning([call[p] EXCEPT !.pc = pc]) => Owning(call[p]) \/ call[p].kind \notin {"restore"}
  PROVE  LET rec == [call[p] EXCEPT !.pc = pc]
         IN  /\ call' = [call EXCEPT ![p] = rec] /\ Shape(rec) /\ rec.pc = pc
             /\ rec.kind = call[p].kind /\ rec.who = call[p].who /\ rec.new = call[p].new
             /\ rec.copy = call[p].copy /\ rec.dues = call[p].dues /\ rec.to = call[p].to
  <1> DEFINE rec == [call[p] EXCEPT !.pc = pc]
  <1>1. call[p] \in Local /\ Shape(call[p])
    BY DEF Sound, RosterTypeOK, Books, Shapes
  <1>2. call' = [call EXCEPT ![p] = rec]
    BY Zenon DEF Goto
  <1>3. /\ rec.pc = pc /\ rec.kind = call[p].kind /\ rec.who = call[p].who
        /\ rec.new = call[p].new /\ rec.copy = call[p].copy /\ rec.dues = call[p].dues
        /\ rec.to = call[p].to
    BY <1>1 DEF Local
  <1> HIDE DEF rec
  <1>4. rec.kind = "restore" /\ Owning(rec) => rec.new = rec.who
    BY <1>1, <1>3 DEF Shape, rec
  <1>5. Restoring(rec) => rec.copy \in Copy
    <2>1. Owning(rec) /\ rec.kind = "restore" => Restoring(call[p])
      BY <1>3 DEF rec, Owning, Trying, Returned, Restoring
    <2>2. Restoring(rec) => Restoring(call[p])
      BY <1>3, <2>1 DEF Owning, Trying, Returned, Restoring
    <2> QED
      BY <1>1, <1>3, <2>2 DEF Shape
  <1>6. Shape(rec)
    BY <1>1, <1>3, <1>4, <1>5 DEF Shape, Owning, Trying, Returned
  <1> QED
    BY <1>2, <1>3, <1>6 DEF rec

\* A call goes on, and the roster holds whom it held.
LEMMA GotoBooks ==
  ASSUME Sound, Books, NEW p \in Editor, NEW pc \in PCs, Goto(p, pc), call[p].pc # "idle",
         UNCHANGED <<archive, life, cast>>,
         \A s \in Student : place'[s] = NoPlace <=> place[s] = NoPlace,
         due \subseteq due' \/ \A q \in Editor \ {p} : call[q].pc # "drop",
         \/ pc \in {"done", "killed", "settle", "release", "clear", "plan", "unsave", "save"}
         \/ pc = "verify" /\ call[p].kind \in Editing
         \/ pc = "unadd" /\ call[p].pc = "verify"
         \/ pc \in {"look", "insert"} /\ call[p].pc = "check"
            /\ call[p].kind \in Adding \cup {"restore"}
         \/ pc = "check" /\ call[p].pc = "look"
         \/ pc = "drop" /\ call[p].pc = "dues" /\ (call[p].dues => call[p].who \subseteq due')
  PROVE  Books'
  <1> DEFINE rec == [call[p] EXCEPT !.pc = pc]
  <1>1. call[p] \in Local /\ Shape(call[p])
    BY DEF Sound, RosterTypeOK, Books, Shapes
  <1>2. rec.pc = pc /\ rec.kind = call[p].kind
    BY <1>1 DEF Local
  <1>3. Owning(rec) => Owning(call[p]) \/ call[p].kind \in Editing
    BY <1>1, <1>2 DEF Owning, Trying, Returned, Shape
  <1>4. /\ call' = [call EXCEPT ![p] = rec] /\ Shape(rec)
        /\ rec.who = call[p].who /\ rec.new = call[p].new
        /\ rec.copy = call[p].copy /\ rec.dues = call[p].dues
    BY <1>2, <1>3, GoesOn DEF Editing, Owning, Trying, Returned, Shape, Books, Shapes
  <1>5. call[p].kind \in Editing => call[p].new = {}
    BY <1>1 DEF Shape, Editing, Adding
  <1> HIDE DEF rec
  <1>6. Asking(rec) => Asking(call[p])
    BY <1>2 DEF Asking
  <1>7. Trying(rec) => Trying(call[p]) \/ call[p].new = {}
    BY <1>2, <1>5 DEF Trying
  <1>8. Restoring(rec) => /\ Restoring(call[p])
                          /\ rec.pc \in {"look", "check", "insert"}
                             <=> call[p].pc \in {"look", "check", "insert"}
    BY <1>2 DEF Restoring, Editing
  <1>9. rec.pc # "remove" /\ (rec.pc = "drop" /\ rec.dues => rec.who \subseteq due')
    BY <1>2, <1>4
  <1>10. rec.pc # "idle"
    BY <1>2
  <1> QED
    BY <1>2, <1>3, <1>4, <1>5, <1>6, <1>7, <1>8, <1>9, <1>10, PlainBooks

\* Nobody comes to the roster or leaves it by an edit, a repair or a promotion.
LEMMA RewrittenThere ==
  ASSUME Sound, NEW p \in Editor, NEW pl \in Place, place' = Rewritten(p, pl)
  PROVE  \A s \in Student : place'[s] = NoPlace <=> place[s] = NoPlace
  BY RosterAssumption DEF Sound, RosterTypeOK, Rewritten, Present, Place

LEMMA SemesterThere ==
  ASSUME Sound, NEW k \in Sem, NEW T \in SUBSET Present,
         place' = [s \in Student |-> IF s \in T THEN [place[s] EXCEPT !.sem = k] ELSE place[s]]
  PROVE  \A s \in Student : place'[s] = NoPlace <=> place[s] = NoPlace
  <1>1. \A s \in T : s \in Student /\ place[s] \in Place /\ [place[s] EXCEPT !.sem = k] \in Place
    BY DEF Sound, RosterTypeOK, Present, Place
  <1> QED
    BY <1>1, RosterAssumption

LEMMA MovesThere ==
  ASSUME Sound, NEW p \in Editor, Repair(p) \/ Move(p) \/ Settle(p)
  PROVE  \A s \in Student : place'[s] = NoPlace <=> place[s] = NoPlace
  <1>1. /\ Repair(p) \/ Move(p) => call[p].to.sem \in Sem
        /\ Settle(p) => call[p].was.sem \in Sem
    BY DEF Repair, Move, Settle, Sound, Sensible, Place
  <1>2. ASSUME Repair(p)
        PROVE  \A s \in Student : place'[s] = NoPlace <=> place[s] = NoPlace
    <2>1. place' = [s \in Student |-> IF s \in call[p].who \cap Present
                               THEN [place[s] EXCEPT !.sem = call[p].to.sem] ELSE place[s]]
      BY <1>2, Zenon DEF Repair
    <2> QED
      BY <1>1, <1>2, <2>1, SemesterThere
  <1>3. ASSUME Move(p)
        PROVE  \A s \in Student : place'[s] = NoPlace <=> place[s] = NoPlace
    <2> DEFINE T == {s \in call[p].who \cap Present : place[s].sem = call[p].was.sem}
    <2>1. place' = [s \in Student |-> IF s \in T
                               THEN [place[s] EXCEPT !.sem = call[p].to.sem] ELSE place[s]]
      BY <1>3 DEF Move
    <2> QED
      BY <1>1, <1>3, <2>1, SemesterThere
  <1>4. ASSUME Settle(p)
        PROVE  \A s \in Student : place'[s] = NoPlace <=> place[s] = NoPlace
    <2> DEFINE T == {s \in call[p].who \cap Present :
                       /\ ~(MixedClasses \subseteq call[p].mixed)
                       /\ place[s].sem \in {call[p].was.sem, call[p].to.sem}}
    <2>1. place' = [s \in Student |-> IF s \in T
                               THEN [place[s] EXCEPT !.sem = call[p].was.sem] ELSE place[s]]
      BY <1>4 DEF Settle
    <2> QED
      BY <1>1, <1>4, <2>1, SemesterThere
  <1> QED
    BY <1>2, <1>3, <1>4

LEMMA PlainStepsBooks ==
  ASSUME Sound, Books, NEW p \in Editor,
         \/ LookForStudent(p) \/ CheckClass(p) \/ Save(p) \/ Unsave(p) \/ Release(p) \/ Grace(p)
         \/ RefusePromotion(p) \/ Repair(p) \/ Move(p) \/ Settle(p) \/ Kill(p)
         \/ ReinsertDues(p)
  PROVE  Books'
  <1>1. CASE LookForStudent(p)
    <2>1. PICK pc \in PCs : Goto(p, pc) /\ pc \in {"done", "check"}
      BY <1>1 DEF LookForStudent, PCs
    <2> QED
      BY <1>1, <2>1, GotoBooks DEF LookForStudent
  <1>2. CASE CheckClass(p)
    <2>1. PICK pc \in PCs : /\ Goto(p, pc) /\ pc \in {"done", "look", "save", "insert"}
                            /\ pc \in {"look", "insert"} => call[p].kind \notin Editing
      BY <1>2 DEF CheckClass, PCs, Adding, Editing
    <2>2. call[p].kind \in Adding \cup Editing \cup {"restore"}
      BY <1>2 DEF CheckClass, Books, Shapes, Shape
    <2> QED
      BY <1>2, <2>1, <2>2, GotoBooks DEF CheckClass
  <1>3. CASE Save(p) \/ Unsave(p)
    <2>1. PICK pc \in PCs : Goto(p, pc) /\ (pc = "done" \/ pc = "verify")
      BY <1>3 DEF Save, Unsave, PCs
    <2>2. /\ call[p].kind \in Editing /\ call[p].to \in Place /\ call[p].was \in Place
          /\ call[p].pc # "idle" /\ UNCHANGED <<archive, life, cast, due>>
      BY <1>3 DEF Save, Unsave, Sound, Sensible
    <2>3. \A s \in Student : place'[s] = NoPlace <=> place[s] = NoPlace
      BY <1>3, <2>2, RewrittenThere DEF Save, Unsave
    <2> QED
      BY <2>1, <2>2, <2>3, GotoBooks
  <1>4. CASE Release(p) \/ Grace(p) \/ RefusePromotion(p)
    <2>1. PICK pc \in PCs : Goto(p, pc) /\ pc \in {"done", "plan", "release"}
      BY <1>4 DEF Release, Grace, RefusePromotion, PCs
    <2>2. call[p].pc # "idle" /\ UNCHANGED <<place, archive, life, cast, due>>
      BY <1>4 DEF Release, Grace, RefusePromotion
    <2> QED
      BY <2>1, <2>2, GotoBooks
  <1>5. CASE Repair(p) \/ Move(p) \/ Settle(p)
    <2>1. PICK pc \in PCs : Goto(p, pc) /\ pc \in {"settle", "release"}
      BY <1>5 DEF Repair, Move, Settle, PCs
    <2>2. call[p].pc # "idle" /\ UNCHANGED <<archive, life, cast, due>>
      BY <1>5 DEF Repair, Move, Settle
    <2>3. \A s \in Student : place'[s] = NoPlace <=> place[s] = NoPlace
      BY <1>5, MovesThere
    <2> QED
      BY <2>1, <2>2, <2>3, GotoBooks
  <1>6. CASE Kill(p)
    <2>1. "killed" \in PCs
      BY DEF PCs
    <2> QED
      BY <1>6, <2>1, GotoBooks DEF Kill
  <1>7. CASE ReinsertDues(p)
    <2>1. "drop" \in PCs
      BY DEF PCs
    <2>2. due \subseteq due' /\ (call[p].dues => call[p].who \subseteq due')
      BY <1>7 DEF ReinsertDues
    <2> QED
      BY <1>7, <2>1, <2>2, GotoBooks DEF ReinsertDues
  <1> QED
    BY <1>1, <1>2, <1>3, <1>4, <1>5, <1>6, <1>7

\* The calls that begin: each is of a kind it may be, and about students that
\* are known, or new.
LEMMA BeginningsBooks ==
  ASSUME Sound, Books, Separated, NEW p \in Editor,
         StartAdding(p) \/ StartEditing(p) \/ StartDeleting(p) \/ StartRestoring(p) \/ Lock(p)
  PROVE  Books'
  <1>a. Open(p) \subseteq Kinds /\ (Open(p) # {} => call[p].pc = "idle" /\ Open(p) = cast[p])
    BY OpenKinds DEF Open
  <1>b. call[p] \in Local /\ NoCall \in Local
    BY NoCallSound, RosterAssumption DEF Sound, RosterTypeOK
  <1>1. CASE StartAdding(p)
    <2>1. PICK kind \in Open(p) \cap Adding, S \in SUBSET Student, to \in Place :
              StartAdding(p)!(kind, S, to)
      BY <1>1 DEF StartAdding
    <2> DEFINE pc  == IF kind = "import" THEN "look" ELSE "check"
               rec == [NoCall EXCEPT !.kind = kind, !.who = S, !.to = to, !.pc = pc]
    <2>2. pc \in {"look", "check"} /\ call' = [call EXCEPT ![p] = rec]
      BY <2>1 DEF Begin, NoCall
    <2> HIDE DEF pc
    <2>3. rec.kind = kind /\ rec.who = S /\ rec.to = to /\ rec.pc = pc /\ rec.new = {}
      BY DEF NoCall
    <2> HIDE DEF rec
    <2>4. rec.kind \in Adding /\ rec.kind \notin {"delete", "restore"} \cup Editing
      BY <2>1, <2>3 DEF Adding, Editing
    <2>5. Shape(rec) /\ ~Owning(rec)
      BY <2>2, <2>3, <2>4 DEF Shape, Owning, Trying, Returned, Restoring
    <2>6. rec.kind \in cast[p] /\ call[p].pc = "idle"
      BY <2>1, <2>3, <1>a
    <2>7. \A s \in Student : life'[s] = IF rec.kind \in Adding /\ s \in rec.who THEN "asked"
                                        ELSE life[s]
      BY <2>1, <2>3, <2>4
    <2>8. \A s \in rec.who : life[s] = "new"
      BY <2>1, <2>3
    <2>9. UNCHANGED <<place, archive, due, cast>> /\ rec.who \subseteq Student
          /\ rec.pc \notin {"idle", "remove"}
      BY <2>1, <2>2, <2>3
    <2> QED
      BY <2>2, <2>3, <2>4, <2>5, <2>6, <2>7, <2>8, <2>9, BeginBooks
  <1>2. CASE StartEditing(p)
    <2>1. PICK kind \in Open(p) \cap Editing, s \in Student, to \in Place :
              StartEditing(p)!(kind, s, to)
      BY <1>2 DEF StartEditing
    <2> DEFINE pc  == IF to = place[s] THEN "save" ELSE "check"
               rec == [NoCall EXCEPT !.kind = kind, !.who = {s}, !.to = to, !.was = place[s], !.pc = pc]
    <2>2. pc \in {"save", "check"} /\ call' = [call EXCEPT ![p] = rec]
      BY <2>1 DEF Begin, NoCall
    <2> HIDE DEF pc
    <2>3. rec.kind = kind /\ rec.who = {s} /\ rec.to = to /\ rec.pc = pc /\ rec.new = {}
      BY DEF NoCall
    <2> HIDE DEF rec
    <2>4. rec.kind \in Editing /\ rec.kind \notin {"delete", "restore"} \cup Adding
      BY <2>1, <2>3 DEF Adding, Editing
    <2>5. Shape(rec) /\ ~Owning(rec)
      BY <2>2, <2>3, <2>4 DEF Shape, Owning, Trying, Returned, Restoring
    <2>6. rec.kind \in cast[p] /\ call[p].pc = "idle"
      BY <2>1, <2>3, <1>a
    <2>7. \A t \in rec.who : place[t] # NoPlace
      BY <2>1, <2>3
    <2>8. UNCHANGED <<place, archive, due, cast, life>> /\ rec.who \subseteq Student
          /\ rec.pc \notin {"idle", "remove"}
      BY <2>1, <2>2, <2>3
    <2> QED
      BY <2>2, <2>3, <2>4, <2>5, <2>6, <2>7, <2>8, BeginBooks
  <1>3. CASE StartDeleting(p)
    <2>1. PICK kind \in Open(p) \cap {"delete"}, s \in Student : StartDeleting(p)!(kind, s)
      BY <1>3 DEF StartDeleting
    <2> DEFINE rec == [NoCall EXCEPT !.kind = kind, !.who = {s}, !.pc = "copy"]
    <2>2. call' = [call EXCEPT ![p] = rec]
      BY <2>1 DEF Begin, NoCall
    <2>3. rec.kind = kind /\ rec.who = {s} /\ rec.pc = "copy" /\ rec.new = {}
      BY DEF NoCall
    <2> HIDE DEF rec
    <2>4. rec.kind = "delete" /\ "delete" \notin Adding
      BY <2>1, <2>3 DEF Adding
    <2>5. Shape(rec) /\ ~Owning(rec)
      BY <2>3, <2>4 DEF Shape, Owning, Trying, Returned, Restoring
    <2>6. rec.kind \in cast[p] /\ call[p].pc = "idle"
      BY <2>1, <2>3, <1>a
    <2>7. \A t \in rec.who : place[t] # NoPlace \/ life[t] = "student"
      BY <2>1, <2>3
    <2>8. UNCHANGED <<place, archive, due, cast, life>> /\ rec.who \subseteq Student
          /\ rec.pc \notin {"idle", "remove"}
      BY <2>1, <2>2, <2>3
    <2> QED
      BY <2>2, <2>3, <2>4, <2>5, <2>6, <2>7, <2>8, BeginBooks
  <1>4. CASE StartRestoring(p)
    <2>1. PICK kind \in Open(p) \cap {"restore"}, c \in Copy : StartRestoring(p)!(kind, c)
      BY <1>4 DEF StartRestoring
    <2> DEFINE rec == [NoCall EXCEPT !.kind = kind, !.copy = c, !.who = {archive[c].who},
                          !.to = archive[c].place, !.dues = archive[c].due, !.pc = "look"]
    <2>2. call' = [call EXCEPT ![p] = rec]
      BY <2>1 DEF Begin, NoCall
    <2>3. /\ rec.kind = kind /\ rec.who = {archive[c].who} /\ rec.pc = "look" /\ rec.new = {}
          /\ rec.copy = c /\ rec.dues = archive[c].due /\ rec.to = archive[c].place
      BY DEF NoCall
    <2> HIDE DEF rec
    <2>4. rec.kind = "restore" /\ "restore" \notin Adding
      BY <2>1, <2>3 DEF Adding
    <2>5. archive[c] # NoCopy /\ archive[c].who \in Student /\ archive[c].place \in Place
      BY <2>1 DEF Sound, RosterTypeOK, Archived
    <2>6. Shape(rec) /\ ~Owning(rec)
      BY <2>3, <2>4, <2>5 DEF Shape, Owning, Trying, Returned, Restoring
    <2>7. rec.kind \in cast[p] /\ call[p].pc = "idle"
      BY <2>1, <2>3, <1>a
    <2>8. \A t \in rec.who : t \in ArchivedStudents
      BY <2>3, <2>5 DEF ArchivedStudents
    <2>9. UNCHANGED <<place, archive, due, cast, life>> /\ rec.who \subseteq Student
          /\ rec.pc \notin {"idle", "remove"} /\ rec.copy \in Copy
      BY <2>1, <2>2, <2>3, <2>5
    <2> QED
      BY <2>2, <2>3, <2>4, <2>5, <2>6, <2>7, <2>8, <2>9, BeginBooks
  <1>5. CASE Lock(p)
    <2>1. PICK kind \in Open(p) \cap Locking : Lock(p)!(kind)
      BY <1>5 DEF Lock
    <2> DEFINE pc  == IF kind = "promote" THEN "grace" ELSE "plan"
               rec == [NoCall EXCEPT !.kind = kind, !.pc = pc]
    <2>2. pc \in {"grace", "plan"} /\ call' = [call EXCEPT ![p] = rec]
      BY <2>1 DEF Begin, NoCall
    <2> HIDE DEF pc
    <2>3. rec.kind = kind /\ rec.who = {} /\ rec.pc = pc /\ rec.new = {}
      BY DEF NoCall
    <2> HIDE DEF rec
    <2>4. rec.kind \in Locking /\ rec.kind \notin {"delete", "restore"} \cup Adding
      BY <2>1, <2>3 DEF Adding, Locking
    <2>5. Shape(rec) /\ ~Owning(rec)
      BY <2>2, <2>3, <2>4 DEF Shape, Owning, Trying, Returned, Restoring
    <2>6. rec.kind \in cast[p] /\ call[p].pc = "idle"
      BY <2>1, <2>3, <1>a
    <2>7. UNCHANGED <<place, archive, due, cast, life>> /\ rec.pc \notin {"idle", "remove"}
      BY <2>1, <2>2, <2>3
    <2> QED
      BY <2>2, <2>3, <2>4, <2>5, <2>6, <2>7, BeginBooks
  <1> QED
    BY <1>1, <1>2, <1>3, <1>4, <1>5

\* The rows whose register numbers are free stay.
LEMMA LookForDuplicatesBooks ==
  ASSUME Sound, Books, NEW p \in Editor, LookForDuplicates(p)
  PROVE  Books'
  <1> DEFINE S   == {s \in call[p].who : ~RegTaken(s)}
             pc  == IF S = {} THEN "done"
                    ELSE IF call[p].kind = "import" THEN "check" ELSE "insert"
             rec == [call[p] EXCEPT !.who = S, !.pc = pc]
  <1>1. call[p] \in Local /\ Shape(call[p]) /\ call[p].pc = "look" /\ call[p].kind \in Adding
    BY DEF Sound, RosterTypeOK, Books, Shapes, LookForDuplicates
  <1>2. S \subseteq call[p].who
    OBVIOUS
  <1>3. pc \in {"done", "check", "insert"}
    OBVIOUS
  <1>4. call' = [call EXCEPT ![p] = rec]
    BY Zenon DEF LookForDuplicates
  <1> HIDE DEF S, pc
  <1>5. /\ rec.who = S /\ rec.pc = pc /\ rec.kind = call[p].kind /\ rec.new = call[p].new
        /\ rec.copy = call[p].copy /\ rec.dues = call[p].dues /\ rec.to = call[p].to
    BY <1>1 DEF Local
  <1> HIDE DEF rec
  <1>6. UNCHANGED <<place, due, archive, cast, life>>
    BY DEF LookForDuplicates
  <1>0. call'[p] = rec /\ \A q \in Editor \ {p} : call'[q] = call[q]
    BY <1>4, Others
  <1>7. rec.new = {} /\ ~Owning(rec) /\ rec.kind \in Adding /\ Asking(call[p])
        /\ rec.kind \notin {"restore", "delete", "sem8"}
    BY <1>1, <1>3, <1>5 DEF Shape, Owning, Trying, Returned, Asking, Adding
  <1>8. ArchivedStudents' = ArchivedStudents
    BY <1>6 DEF ArchivedStudents
  <1>9. \A q \in Editor : call'[q].who \subseteq call[q].who /\ call'[q].kind = call[q].kind
                          /\ call'[q].new = call[q].new
    BY <1>0, <1>2, <1>5
  <1>10. \A q \in Editor : /\ Removing(call[q]) => Removing(call'[q])
                           /\ Asking(call'[q]) => Asking(call[q])
                           /\ Trying(call'[q]) => Trying(call[q])
                           /\ Owning(call'[q]) => Owning(call[q])
    BY <1>0, <1>5, <1>7 DEF Removing, Owning
  <1>11. CastKept'
    BY <1>0, <1>1, <1>5, <1>6 DEF Books, CastKept
  <1>12. Shapes'
    <2>1. Shape(rec)
      BY <1>1, <1>3, <1>5, <1>7 DEF Shape, Restoring
    <2> QED
      BY <1>0, <2>1 DEF Books, Shapes
  <1>13. Unasked'
    BY <1>6, <1>8, <1>9 DEF Books, Unasked
  <1>14. OwnForms'
    BY <1>6, <1>8, <1>9, <1>10 DEF Books, OwnForms
  <1>15. OwnReturns'
    BY <1>6, <1>9, <1>10 DEF Books, OwnReturns
  <1>16. CopiesHeld'
    <2>1. ASSUME NEW s, Secure(s) PROVE Secure(s)'
      BY <2>1, <1>6, <1>9, <1>10 DEF Secure
    <2>2. ~Restoring(rec)
      BY <1>7 DEF Restoring
    <2> QED
      BY <1>0, <1>6, <2>1, <2>2 DEF Books, CopiesHeld
  <1>17. DuesBack'
    BY <1>0, <1>3, <1>5, <1>6 DEF Books, DuesBack
  <1>18. Tried'
    BY <1>6, <1>8, <1>9, <1>10 DEF Books, Tried, Known
  <1>19. Covered'
    BY <1>0, <1>3, <1>5, <1>6, <1>8 DEF Books, Covered
  <1>20. NobodyLost'
    BY <1>6, <1>8 DEF Books, NobodyLost
  <1> QED
    BY <1>11, <1>12, <1>13, <1>14, <1>15, <1>16, <1>17, <1>18, <1>19, <1>20 DEF Books

\* Who is in a semester, or in a class, is on the roster.
LEMMA PlanBooks ==
  ASSUME Sound, Books, NEW p \in Editor, NEW rec, call' = [call EXCEPT ![p] = rec],
         UNCHANGED <<place, archive, due, cast, life>>,
         call[p].kind \in Locking, call[p].pc # "idle",
         rec.kind = call[p].kind, rec.new = call[p].new, rec.who \subseteq Present,
         rec.pc \in {"release", "copy", "repair", "move"}
  PROVE  Books'
  <1>0. call'[p] = rec /\ \A q \in Editor \ {p} : call'[q] = call[q]
    BY Others
  <1>1. ArchivedStudents' = ArchivedStudents
    BY DEF ArchivedStudents
  <1>2. /\ rec.new = {} /\ ~Owning(rec) /\ rec.kind \notin Adding \cup {"restore", "delete"}
        /\ ~Restoring(rec)
    BY DEF Books, Shapes, Shape, Owning, Trying, Returned, Restoring, Adding, Locking
  <1>3. \A q \in Editor : call'[q].kind = call[q].kind /\ call'[q].new = call[q].new
    BY <1>0
  <1>4. \A q \in Editor : /\ Removing(call[q]) => Removing(call'[q])
                          /\ Asking(call'[q]) => Asking(call[q])
                          /\ Trying(call'[q]) => Trying(call[q])
                          /\ Owning(call'[q]) => Owning(call[q])
    BY <1>0, <1>2 DEF Removing, Owning, Asking
  <1>5. \A s \in rec.who : s \in Student /\ place[s] # NoPlace
    BY DEF Present
  <1>6. CastKept'
    BY <1>0 DEF Books, CastKept
  <1>7. Shapes'
    <2>1. Shape(rec)
      BY <1>2 DEF Shape
    <2> QED
      BY <1>0, <2>1 DEF Books, Shapes
  <1>8. Unasked'
    BY <1>0, <1>1, <1>5 DEF Books, Unasked
  <1>9. OwnForms'
    <2>1. \A q \in Editor \ {p} : call'[q].kind \in Adding /\ Asking(call'[q])
            => \A s \in call'[q].who : s \notin rec.who
      BY <1>0, <1>5 DEF Books, OwnForms
    <2>2. \A q \in Editor : call'[q].kind \in Adding
            => q # p /\ call'[q].who = call[q].who
      BY <1>0, <1>2
    <2>3. \A q \in Editor : call'[q].kind \in Adding \cup {"restore"}
            => call'[q].who = call[q].who
      BY <1>0, <1>2
    <2> QED
      BY <1>0, <1>1, <1>3, <1>4, <2>1, <2>2, <2>3 DEF Books, OwnForms
  <1>10. OwnReturns'
    BY <1>3, <1>4 DEF Books, OwnReturns
  <1>11. CopiesHeld'
    <2>1. ASSUME NEW s, Secure(s) PROVE Secure(s)'
      BY <2>1, <1>3, <1>4 DEF Secure
    <2> QED
      BY <1>0, <1>2, <2>1 DEF Books, CopiesHeld
  <1>12. DuesBack'
    BY <1>0 DEF Books, DuesBack
  <1>13. Tried'
    BY <1>1, <1>3, <1>4 DEF Books, Tried, Known
  <1>14. Covered'
    BY <1>0, <1>1 DEF Books, Covered
  <1>15. NobodyLost'
    BY <1>1 DEF Books, NobodyLost
  <1> QED
    BY <1>6, <1>7, <1>8, <1>9, <1>10, <1>11, <1>12, <1>13, <1>14, <1>15 DEF Books

LEMMA PlansBooks ==
  ASSUME Sound, Books, NEW p \in Editor, PlanRemoval(p) \/ PlanFix(p) \/ PlanPromotion(p)
  PROVE  Books'
  <1>a. call[p] \in Local /\ call[p].pc = "plan" /\ call[p].kind \in Locking
        /\ UNCHANGED <<place, archive, due, cast, life>>
    BY DEF Sound, RosterTypeOK, PlanRemoval, PlanFix, PlanPromotion, Locking
  <1>1. CASE PlanRemoval(p)
    <2> DEFINE S   == {s \in Present : place[s].sem = 8}
               pc  == IF S = {} THEN "release" ELSE "copy"
               rec == [call[p] EXCEPT !.who = S, !.pc = pc]
    <2>1. call' = [call EXCEPT ![p] = rec] /\ S \subseteq Present /\ pc \in {"release", "copy"}
      BY <1>1, Zenon DEF PlanRemoval
    <2> HIDE DEF S, pc
    <2>2. rec.kind = call[p].kind /\ rec.new = call[p].new /\ rec.who = S /\ rec.pc = pc
      BY <1>a DEF Local
    <2> HIDE DEF rec
    <2> QED
      BY <1>a, <2>1, <2>2, PlanBooks
  <1>2. CASE PlanFix(p)
    <2>1. PICK to \in Place : PlanFix(p)!2!(to)
      BY <1>2 DEF PlanFix
    <2> DEFINE S   == {s \in InClass(to.dept, Year(to.sem)) : place[s].sem # to.sem}
               pc  == IF S = {} THEN "release" ELSE "repair"
               rec == [call[p] EXCEPT !.who = S, !.to = to, !.pc = pc]
    <2>2. call' = [call EXCEPT ![p] = rec] /\ pc \in {"release", "repair"}
      BY <2>1, Zenon
    <2>3. S \subseteq Present
      BY DEF InClass
    <2> HIDE DEF S, pc
    <2>4. rec.kind = call[p].kind /\ rec.new = call[p].new /\ rec.who = S /\ rec.pc = pc
      BY <1>a DEF Local
    <2> HIDE DEF rec
    <2> QED
      BY <1>a, <2>2, <2>3, <2>4, PlanBooks
  <1>3. CASE PlanPromotion(p)
    <2>1. PICK from \in Place : PlanPromotion(p)!2!(from)
      BY <1>3 DEF PlanPromotion
    <2> DEFINE S    == {s \in Present : place[s] = from}
               next == [from EXCEPT !.sem = @ + 1]
               rec  == [call[p] EXCEPT !.who = S, !.was = from, !.to = next,
                                       !.mixed = MixedClasses, !.pc = "move"]
    <2>2. call' = [call EXCEPT ![p] = rec] /\ S \subseteq Present
      BY <2>1, Zenon
    <2> HIDE DEF S, next
    <2>3. rec.kind = call[p].kind /\ rec.new = call[p].new /\ rec.who = S /\ rec.pc = "move"
      BY <1>a DEF Local
    <2> HIDE DEF rec
    <2> QED
      BY <1>a, <2>2, <2>3, PlanBooks
  <1> QED
    BY <1>1, <1>2, <1>3

\* What was inserted and does not fit is taken back.
LEMMA UnaddBooks ==
  ASSUME Sound, Books, NEW p \in Editor, Unadd(p)
  PROVE  Books'
  <1> DEFINE rec == [call[p] EXCEPT !.pc = "done"]
  <1>1. call[p].pc = "unadd" /\ Goto(p, "done") /\ "done" \in PCs
        /\ UNCHANGED <<archive, due, cast, life>>
    BY DEF Unadd, PCs
  <1>2. /\ call' = [call EXCEPT ![p] = rec] /\ Shape(rec) /\ rec.pc = "done"
        /\ rec.kind = call[p].kind /\ rec.who = call[p].who /\ rec.new = call[p].new
    <2>1. call[p] \in Local
      BY DEF Sound, RosterTypeOK
    <2>2. ~Owning(rec)
      BY <2>1 DEF Local, Owning, Trying, Returned
    <2> QED
      BY <1>1, <2>2, GoesOn
  <1> HIDE DEF rec
  <1>3. \A s \in Student : place'[s] = IF s \in call[p].new THEN NoPlace ELSE place[s]
    BY DEF Unadd
  <1>4. call'[p] = rec /\ \A q \in Editor \ {p} : call'[q] = call[q]
    BY <1>2, Others
  <1>5. \A q \in Editor : call[q].who \subseteq Student /\ call[q].new \subseteq Student
    BY <1>2, Others
  <1>6. ArchivedStudents' = ArchivedStudents
    BY <1>1 DEF ArchivedStudents
  <1>7. ~Asking(rec) /\ ~Owning(rec) /\ ~Restoring(rec)
    BY <1>2 DEF Asking, Owning, Trying, Returned, Restoring
  <1>8. \A q \in Editor : /\ call'[q].kind = call[q].kind /\ call'[q].who = call[q].who
                          /\ call'[q].new = call[q].new
                          /\ Removing(call[q]) => Removing(call'[q])
                          /\ Asking(call'[q]) => q # p /\ Asking(call[q])
                          /\ Trying(call'[q]) => q # p /\ Trying(call[q])
                          /\ Owning(call'[q]) => q # p /\ Owning(call[q])
    BY <1>2, <1>4, <1>7 DEF Removing, Owning
  <1>9. ASSUME NEW q \in Editor \ {p}, Owning(call[q]), NEW s \in call[q].new
        PROVE  s \notin call[p].new
    <2>1. Owning(call[p])
      BY <1>1 DEF Owning, Trying
    <2>2. CASE call[q].kind \in Adding
      BY <1>9, <2>2, OwnNew DEF Books, Shapes, Shape
    <2>3. CASE call[q].kind = "restore"
      BY <1>9, <2>1, <2>3 DEF Books, OwnReturns
    <2> QED
      BY <1>9, <2>2, <2>3 DEF Books, Shapes, Shape
  <1>10. CastKept'
    BY <1>1, <1>2, <1>4 DEF Books, CastKept
  <1>11. Shapes'
    BY <1>2, <1>4 DEF Books, Shapes
  <1>12. Unasked'
    BY <1>1, <1>3, <1>6, <1>8 DEF Books, Unasked
  <1>13. OwnForms'
    <2>1. \A s \in Student : place[s] = NoPlace => place'[s] = NoPlace
      BY <1>3
    <2> QED
      BY <1>1, <1>5, <1>6, <1>8, <2>1 DEF Books, OwnForms
  <1>14. OwnReturns'
    <2>1. ASSUME NEW q \in Editor \ {p}, Owning(call[q]), NEW s \in call[q].new
          PROVE  place'[s] = place[s]
      BY <1>3, <1>5, <1>9, <2>1
    <2> QED
      BY <1>8, <2>1 DEF Books, OwnReturns
  <1>15. CopiesHeld'
    <2>1. ASSUME NEW s \in Student, Secure(s) PROVE Secure(s)'
      <3>1. s \notin call[p].new
        BY <1>1, <2>1 DEF Secure, Trying
      <3> QED
        BY <1>3, <1>8, <2>1, <3>1 DEF Secure
    <2> QED
      BY <1>1, <1>4, <1>5, <1>7, <2>1 DEF Books, CopiesHeld
  <1>16. DuesBack'
    BY <1>1, <1>2, <1>4 DEF Books, DuesBack
  <1>17. Tried'
    <2>1. ASSUME NEW q \in Editor \ {p}, Trying(call[q]), NEW s \in call[q].new
          PROVE  place'[s] = place[s]
      BY <1>3, <1>5, <1>9, <2>1 DEF Owning
    <2> QED
      BY <1>1, <1>6, <1>8, <2>1 DEF Books, Tried, Known
  <1>18. Covered'
    <2>1. \A s \in Student : place'[s] # NoPlace => place[s] # NoPlace
      BY <1>3
    <2> QED
      BY <1>2, <1>4, <1>5, <1>6, <2>1 DEF Books, Covered
  <1>19. NobodyLost'
    <2>1. ASSUME NEW s \in call[p].new, life[s] = "student" PROVE s \in ArchivedStudents
      <3>1. CASE call[p].kind \in Adding
        BY <1>1, <2>1, <3>1 DEF Books, Tried, Trying
      <3>2. CASE call[p].kind = "restore"
        <4>1. Restoring(call[p]) /\ call[p].copy \in Copy /\ s \in call[p].who
          BY <1>1, <3>2 DEF Restoring, Books, Shapes, Shape
        <4>2. archive[call[p].copy] # NoCopy /\ call[p].who = {archive[call[p].copy].who}
          BY <1>1, <4>1 DEF Books, CopiesHeld
        <4> QED
          BY <1>5, <4>1, <4>2 DEF ArchivedStudents
      <3> QED
        BY <2>1, <3>1, <3>2 DEF Books, Shapes, Shape
    <2> QED
      BY <1>1, <1>3, <1>6, <2>1 DEF Books, NobodyLost
  <1> QED
    BY <1>10, <1>11, <1>12, <1>13, <1>14, <1>15, <1>16, <1>17, <1>18, <1>19 DEF Books

\* What was inserted and fits stays.
LEMMA VerifyBooks ==
  ASSUME Sound, Books, NEW p \in Editor, Verify(p)
  PROVE  Books'
  <1> DEFINE ok == Holds(call[p].to)
  <1>1. CASE ~ok
    <2>1. PICK pc \in PCs : /\ Goto(p, pc)
                            /\ pc = "unsave" \/ (pc = "unadd" /\ call[p].pc = "verify")
      BY <1>1 DEF Verify, PCs
    <2>2. life' = life
      BY <1>1 DEF Verify, Sound, RosterTypeOK
    <2> QED
      BY <2>1, <2>2, GotoBooks DEF Verify
  <1>2. CASE ok
    <2>1. PICK pc \in PCs : /\ Goto(p, pc)
                            /\ pc = "done" \/ (pc = "dues" /\ call[p].kind = "restore")
      BY <1>2 DEF Verify, PCs
    <2> DEFINE rec == [call[p] EXCEPT !.pc = pc]
    <2>2. call[p].pc = "verify" /\ UNCHANGED <<place, archive, due, cast>>
      BY DEF Verify
    <2>3. /\ call' = [call EXCEPT ![p] = rec] /\ Shape(rec) /\ rec.pc = pc
          /\ rec.kind = call[p].kind /\ rec.who = call[p].who /\ rec.new = call[p].new
          /\ rec.copy = call[p].copy /\ rec.dues = call[p].dues
      BY <2>1, <2>2, GoesOn DEF Owning, Trying
    <2> HIDE DEF rec
    <2>4. \A s \in Student : life'[s] = IF s \in call[p].new THEN "student" ELSE life[s]
      BY <1>2 DEF Verify
    <2>5. call'[p] = rec /\ \A q \in Editor \ {p} : call'[q] = call[q]
      BY <2>3, Others
    <2>6. \A q \in Editor : call[q].who \subseteq Student /\ call[q].new \subseteq Student
      BY <2>3, Others
    <2>7. ArchivedStudents' = ArchivedStudents
      BY <2>2 DEF ArchivedStudents
    <2>8. ~Asking(rec) /\ ~Trying(rec) /\ Owning(call[p])
          /\ (Restoring(rec) => Restoring(call[p]))
      BY <2>1, <2>2, <2>3 DEF Asking, Owning, Trying, Restoring
    <2>9. \A q \in Editor : /\ call'[q].kind = call[q].kind /\ call'[q].who = call[q].who
                            /\ call'[q].new = call[q].new
                            /\ Removing(call[q]) => Removing(call'[q])
                            /\ Asking(call'[q]) => q # p /\ Asking(call[q])
                            /\ Trying(call'[q]) => q # p /\ Trying(call[q])
                            /\ Owning(call'[q]) => Owning(call[q])
      BY <2>1, <2>3, <2>5, <2>8 DEF Removing, Owning
    <2>10. CastKept'
      BY <2>2, <2>3, <2>5 DEF Books, CastKept
    <2>11. Shapes'
      BY <2>3, <2>5 DEF Books, Shapes
    <2>12. Unasked'
      <3>1. call[p].new \subseteq call[p].who
        BY DEF Books, Shapes, Shape
      <3> QED
        BY <2>2, <2>4, <2>7, <2>9, <3>1 DEF Books, Unasked
    <2>13. OwnForms'
      <3>1. ASSUME NEW q \in Editor \ {p}, call[q].kind \in Adding, NEW s \in call[q].who
            PROVE  life'[s] = life[s]
        BY <2>4, <2>6, <3>1, OwnNew
      <3> QED
        BY <2>2, <2>6, <2>7, <2>9, <3>1 DEF Books, OwnForms
    <2>14. OwnReturns'
      BY <2>2, <2>9 DEF Books, OwnReturns
    <2>15. CopiesHeld'
      <3>1. ASSUME NEW s, Secure(s) PROVE Secure(s)'
        BY <2>2, <2>9, <3>1 DEF Secure
      <3> QED
        BY <2>2, <2>3, <2>5, <2>8, <3>1 DEF Books, CopiesHeld
    <2>16. DuesBack'
      BY <2>1, <2>2, <2>3, <2>5 DEF Books, DuesBack
    <2>17. Tried'
      <3>1. ASSUME NEW q \in Editor \ {p}, call[q].kind \in Adding, NEW s \in call[q].new
            PROVE  life'[s] = life[s]
        BY <2>4, <2>6, <3>1, OwnNew DEF Books, Shapes, Shape
      <3> QED
        BY <2>2, <2>7, <2>9, <3>1 DEF Books, Tried, Known
    <2>18. Covered'
      BY <2>1, <2>2, <2>3, <2>5, <2>7 DEF Books, Covered
    <2>19. NobodyLost'
      <3>1. ASSUME NEW s \in call[p].new PROVE Known(s)
        <4>1. CASE call[p].kind \in Adding
          BY <2>2, <3>1, <4>1 DEF Books, Tried, Trying
        <4>2. CASE call[p].kind = "restore"
          BY <2>8, <3>1, <4>2 DEF Books, OwnReturns, Known
        <4> QED
          BY <3>1, <4>1, <4>2 DEF Books, Shapes, Shape
      <3> QED
        BY <2>2, <2>4, <2>7, <3>1 DEF Books, NobodyLost, Known
    <2> QED
      BY <2>10, <2>11, <2>12, <2>13, <2>14, <2>15, <2>16, <2>17, <2>18, <2>19 DEF Books
  <1> QED
    BY <1>1, <1>2

\* No more students than copies: each has a copy of his own.
LEMMA CopyEach ==
  ASSUME NEW S, NEW F, IsFiniteSet(S), IsFiniteSet(F), Cardinality(S) <= Cardinality(F)
  PROVE  \E f \in [S -> F] : \A s, t \in S : f[s] = f[t] => s = t
  <1> DEFINE m == Cardinality(S)
             n == Cardinality(F)
  <1>1. m \in Nat /\ n \in Nat /\ m <= n
    BY FS_CardinalityType
  <1>2. PICK b : b \in Bijection(1..m, S)
    BY FS_CardinalityType DEF ExistsBijection
  <1>3. PICK c : c \in Bijection(1..n, F)
    BY FS_CardinalityType DEF ExistsBijection
  <1> HIDE DEF m, n
  <1> DEFINE of(s) == CHOOSE i \in 1..m : b[i] = s
             f     == [s \in S |-> c[of(s)]]
  <1>4. \A s \in S : of(s) \in 1..m /\ b[of(s)] = s
    <2> SUFFICES ASSUME NEW s \in S PROVE of(s) \in 1..m /\ b[of(s)] = s
      OBVIOUS
    <2>1. \E i \in 1..m : b[i] = s
      BY <1>2 DEF Bijection, Surjection
    <2> QED
      BY <2>1
  <1> HIDE DEF of
  <1>5. \A s \in S : of(s) \in 1..n
    BY <1>1, <1>4
  <1>6. c \in [1..n -> F] /\ \A i, j \in 1..n : c[i] = c[j] => i = j
    BY <1>3 DEF Bijection, Injection, IsInjective
  <1>7. f \in [S -> F]
    BY <1>5, <1>6
  <1>8. \A s, t \in S : f[s] = f[t] => s = t
    BY <1>4, <1>5, <1>6
  <1> QED
    BY <1>7, <1>8

\* What the archive holds stays, and so does an _id that a call knows; the
\* students who exist are copied.
LEMMA CopyEffect ==
  ASSUME Sound, NEW p \in Editor, CopyToArchive(p)
  PROVE  /\ \A c \in Copy : archive[c] # NoCopy => archive'[c] = archive[c]
         /\ \A q \in Editor : call[q].copy \in Copy
                             => archive'[call[q].copy] = archive[call[q].copy]
         /\ ArchivedStudents' = ArchivedStudents \cup (call[p].who \cap Present)
  <1> DEFINE S    == call[p].who \cap Present
             free == {c \in Copy : archive[c] = NoCopy /\ \A q \in Editor : call[q].copy # c}
             at   == CHOOSE f \in [S -> free] : \A s, t \in S : f[s] = f[t] => s = t
             of(c) == CHOOSE s \in S : at[s] = c
  <1>1. archive' = [c \in Copy |->
                IF \E s \in S : at[s] = c
                THEN [who |-> of(c), place |-> place[of(c)], due |-> of(c) \in due]
                ELSE archive[c]]
    BY Zenon DEF CopyToArchive
  <1>2. IsFiniteSet(S) /\ IsFiniteSet(free) /\ Cardinality(S) <= Cardinality(free)
    <2>1. S \subseteq Student /\ free \subseteq Copy
      BY DEF Present
    <2>2. Cardinality(S) <= Cardinality(free)
      BY Zenon DEF CopyToArchive
    <2> QED
      BY <2>1, <2>2, FiniteAssumption, FS_Subset
  <1>3. at \in [S -> free] /\ \A s, t \in S : at[s] = at[t] => s = t
    <2> HIDE DEF S, free
    <2> QED
      BY <1>2, CopyEach
  <1>4. \A s \in S : at[s] \in free
    BY <1>3
  <1>5. \A s \in S : of(at[s]) = s
    BY <1>3
  <1>6. ASSUME NEW c \in Copy, NEW s \in S, at[s] = c
        PROVE  archive[c] = NoCopy /\ of(c) \in S /\ \A q \in Editor : call[q].copy # c
    <2>1. c \in free
      BY <1>4, <1>6
    <2>2. of(c) = s
      BY <1>5, <1>6
    <2> QED
      BY <2>1, <2>2
  <1> HIDE DEF at, of
  <1>7. \A c \in Copy : archive[c] # NoCopy => archive'[c] = archive[c]
    BY <1>1, <1>6
  <1>13. \A q \in Editor : call[q].copy \in Copy
                           => archive'[call[q].copy] = archive[call[q].copy]
    BY <1>1, <1>6
  <1>8. \A s \in S : s \in Student /\ place[s] \in Place
    BY DEF Sound, RosterTypeOK, Present
  <1>9. \A s \in S : archive'[at[s]].who = s /\ archive'[at[s]] # NoCopy /\ at[s] \in Copy
    <2> SUFFICES ASSUME NEW s \in S
                 PROVE  archive'[at[s]].who = s /\ archive'[at[s]] # NoCopy /\ at[s] \in Copy
      OBVIOUS
    <2>1. at[s] \in Copy /\ archive'[at[s]] = [who |-> s, place |-> place[s], due |-> s \in due]
      BY <1>1, <1>4, <1>5
    <2>2. [who |-> s, place |-> place[s], due |-> s \in due] \in Archived
      BY <1>8 DEF Archived
    <2> QED
      BY <2>1, <2>2, RosterAssumption
  <1>10. ArchivedStudents \cup S \subseteq ArchivedStudents'
    BY <1>7, <1>8, <1>9 DEF ArchivedStudents
  <1>11. ASSUME NEW s \in Student, NEW c \in Copy, archive'[c] # NoCopy, archive'[c].who = s,
                s \notin ArchivedStudents
         PROVE  s \in S
    <2>1. archive[c] = NoCopy
      BY <1>7, <1>11 DEF ArchivedStudents
    <2>2. \E t \in S : at[t] = c
      BY <1>1, <1>11, <2>1
    <2> QED
      BY <1>1, <1>6, <1>11, <2>2
  <1>12. ArchivedStudents' \subseteq ArchivedStudents \cup S
    BY <1>11 DEF ArchivedStudents
  <1> QED
    BY <1>7, <1>10, <1>12, <1>13

LEMMA RemovalBooks ==
  ASSUME Sound, Books, Separated, NEW p \in Editor,
         CopyToArchive(p) \/ Remove(p) \/ ClearDues(p)
  PROVE  Books'
  <1>a. call[p].pc # "idle" /\ call[p].kind \in {"delete", "sem8"}
    BY DEF Sound, Sensible, CopyToArchive, Remove, ClearDues
  <1>b. \A q \in Editor : call[q].pc # "idle" => call[q].kind # "restore"
    BY <1>a, Alone DEF Books
  <1>c. "remove" \in PCs /\ "clear" \in PCs /\ call[p] \in Local
    BY DEF PCs, Sound, RosterTypeOK
  <1>1. CASE ClearDues(p)
    <2>1. PICK pc \in PCs : Goto(p, pc) /\ pc \in {"done", "release"}
      BY <1>1 DEF ClearDues, PCs
    <2>2. \A q \in Editor \ {p} : call[q].pc # "drop"
      BY <1>b DEF Books, Shapes, Shape
    <2>3. UNCHANGED <<place, archive, cast, life>> /\ call[p].pc # "idle"
      BY <1>1 DEF ClearDues
    <2> QED
      BY <2>1, <2>2, <2>3, GotoBooks
  <1>2. CASE Remove(p)
    <2> DEFINE rec == [call[p] EXCEPT !.pc = "clear"]
    <2>1. /\ call' = [call EXCEPT ![p] = rec] /\ Shape(rec) /\ rec.pc = "clear"
          /\ rec.kind = call[p].kind /\ rec.who = call[p].who /\ rec.new = call[p].new
      <3>1. ~Owning(rec)
        BY <1>c DEF Local, Owning, Trying, Returned
      <3> QED
        BY <1>2, <1>a, <1>c, <3>1, GoesOn DEF Remove
    <2> HIDE DEF rec
    <2>2. UNCHANGED <<archive, due, cast, life>> /\ call[p].pc = "remove"
      BY <1>2 DEF Remove
    <2>3. \A s \in Student : place'[s] = IF s \in call[p].who THEN NoPlace ELSE place[s]
      BY <1>2 DEF Remove
    <2>4. call'[p] = rec /\ \A q \in Editor \ {p} : call'[q] = call[q]
      BY <2>1, Others
    <2>5. \A q \in Editor : call[q].who \subseteq Student /\ call[q].new \subseteq Student
      BY <2>1, Others
    <2>6. ArchivedStudents' = ArchivedStudents
      BY <2>2 DEF ArchivedStudents
    <2>7. \A q \in Editor : /\ call'[q].kind = call[q].kind /\ call'[q].who = call[q].who
                            /\ call'[q].new = call[q].new
                            /\ Removing(call[q]) => Removing(call'[q])
                            /\ Asking(call'[q]) => Asking(call[q])
                            /\ Trying(call'[q]) => Trying(call[q])
                            /\ Owning(call'[q]) => Owning(call[q])
      BY <2>1, <2>4 DEF Removing, Owning, Asking, Trying, Returned
    <2>8. \A s \in Student : Known(s) => Known(s)'
      BY <2>2, <2>3, <2>6 DEF Books, Covered, Known
    <2>9. \A s \in Student : place[s] = NoPlace => place'[s] = NoPlace
      BY <2>3
    <2>10. CastKept'
      BY <2>1, <2>2, <2>4, <1>a DEF Books, CastKept
    <2>11. Shapes'
      BY <2>1, <2>4 DEF Books, Shapes
    <2>12. Unasked'
      BY <2>2, <2>6, <2>7, <2>9 DEF Books, Unasked
    <2>13. OwnForms'
      BY <2>2, <2>5, <2>6, <2>7, <2>9 DEF Books, OwnForms
    <2>14. OwnReturns'
      BY <1>b, <2>7 DEF Books, OwnReturns, Owning, Trying, Returned
    <2>15. CopiesHeld'
      BY <1>a, <1>b, <2>1, <2>4 DEF CopiesHeld, Restoring
    <2>16. DuesBack'
      BY <2>1, <2>2, <2>4 DEF Books, DuesBack
    <2>17. Tried'
      BY <2>2, <2>5, <2>7, <2>8 DEF Books, Tried
    <2>18. Covered'
      BY <2>1, <2>4, <2>5, <2>6, <2>9 DEF Books, Covered
    <2>19. NobodyLost'
      BY <2>2, <2>8 DEF Books, NobodyLost, Known
    <2> QED
      BY <2>10, <2>11, <2>12, <2>13, <2>14, <2>15, <2>16, <2>17, <2>18, <2>19 DEF Books
  <1>3. CASE CopyToArchive(p)
    <2> DEFINE rec == [call[p] EXCEPT !.pc = "remove"]
               S   == call[p].who \cap Present
    <2>1. /\ call' = [call EXCEPT ![p] = rec] /\ Shape(rec) /\ rec.pc = "remove"
          /\ rec.kind = call[p].kind /\ rec.who = call[p].who /\ rec.new = call[p].new
      <3>1. ~Owning(rec)
        BY <1>c DEF Local, Owning, Trying, Returned
      <3> QED
        BY <1>3, <1>a, <1>c, <3>1, GoesOn DEF CopyToArchive
    <2> HIDE DEF rec
    <2>2. UNCHANGED <<place, due, cast, life>> /\ call[p].pc = "copy"
      BY <1>3 DEF CopyToArchive
    <2>3. ArchivedStudents' = ArchivedStudents \cup S
      BY <1>3, CopyEffect
    <2>4. call'[p] = rec /\ \A q \in Editor \ {p} : call'[q] = call[q]
      BY <2>1, Others
    <2>5. \A q \in Editor : call[q].who \subseteq Student /\ call[q].new \subseteq Student
      BY <2>1, Others
    <2>6. \A s \in S : s \in Student /\ place[s] # NoPlace /\ s \in call[p].who
      BY DEF Present
    <2>7. \A q \in Editor : /\ call'[q].kind = call[q].kind /\ call'[q].who = call[q].who
                            /\ call'[q].new = call[q].new
                            /\ Removing(call[q]) => Removing(call'[q])
                            /\ Asking(call'[q]) => Asking(call[q])
                            /\ Trying(call'[q]) => Trying(call[q])
                            /\ Owning(call'[q]) => Owning(call[q])
      BY <2>1, <2>4 DEF Removing, Owning, Asking, Trying, Returned
    <2>8. Removing(call'[p])
      BY <1>a, <2>1, <2>4 DEF Removing
    <2>9. \A s \in Student : Known(s) => Known(s)'
      BY <2>2, <2>3 DEF Known
    <2>10. CastKept'
      BY <2>1, <2>2, <2>4, <1>a DEF Books, CastKept
    <2>11. Shapes'
      BY <2>1, <2>4 DEF Books, Shapes
    <2>12. Unasked'
      BY <2>2, <2>3, <2>6, <2>7 DEF Books, Unasked
    <2>13. OwnForms'
      BY <2>2, <2>3, <2>5, <2>6, <2>7, <2>8 DEF Books, OwnForms
    <2>14. OwnReturns'
      BY <1>b, <2>7 DEF Books, OwnReturns, Owning, Trying, Returned
    <2>15. CopiesHeld'
      BY <1>a, <1>b, <2>1, <2>4 DEF CopiesHeld, Restoring
    <2>16. DuesBack'
      BY <2>1, <2>2, <2>4 DEF Books, DuesBack
    <2>17. Tried'
      BY <2>2, <2>5, <2>7, <2>9 DEF Books, Tried
    <2>18. Covered'
      <3>1. \A s \in call[p].who : place[s] # NoPlace => s \in S
        BY <2>5 DEF Present
      <3> QED
        BY <2>1, <2>2, <2>3, <2>4, <3>1 DEF Books, Covered
    <2>19. NobodyLost'
      BY <2>2, <2>9 DEF Books, NobodyLost, Known
    <2> QED
      BY <2>10, <2>11, <2>12, <2>13, <2>14, <2>15, <2>16, <2>17, <2>18, <2>19 DEF Books
  <1> QED
    BY <1>1, <1>2, <1>3

\* A copy goes when the student is back.
LEMMA DropCopyBooks ==
  ASSUME Sound, Books, Separated, NEW p \in Editor, DropCopy(p)
  PROVE  Books'
  <1> DEFINE rec == [call[p] EXCEPT !.pc = "done"]
             c0  == call[p].copy
  <1>a. call[p].pc = "drop" /\ call[p].kind = "restore" /\ Owning(call[p]) /\ Restoring(call[p])
    BY DEF DropCopy, Books, Shapes, Shape, Owning, Returned, Restoring
  <1>b. "done" \in PCs /\ call[p] \in Local
    BY DEF PCs, Sound, RosterTypeOK
  <1>1. /\ call' = [call EXCEPT ![p] = rec] /\ Shape(rec) /\ rec.pc = "done"
        /\ rec.kind = call[p].kind /\ rec.who = call[p].who /\ rec.new = call[p].new
    <2>1. ~Owning(rec)
      BY <1>b DEF Local, Owning, Trying, Returned
    <2> QED
      BY <1>a, <1>b, <2>1, GoesOn DEF DropCopy
  <1> HIDE DEF rec
  <1>2. UNCHANGED <<place, due, cast, life>>
    BY DEF DropCopy
  <1>3. call'[p] = rec /\ \A q \in Editor \ {p} : call'[q] = call[q]
    BY <1>1, Others
  <1>4. \A q \in Editor : call[q].who \subseteq Student /\ call[q].new \subseteq Student
    BY <1>1, Others
  <1>5. /\ c0 \in Copy /\ archive[c0] # NoCopy /\ call[p].who = {archive[c0].who}
        /\ call[p].new = call[p].who
    BY <1>a DEF Books, CopiesHeld, Shapes, Shape
  <1>6. \A c \in Copy : archive'[c] = IF c = c0 THEN NoCopy ELSE archive[c]
    BY DEF DropCopy, Sound, RosterTypeOK
  <1>7. \A s \in call[p].who : place[s] # NoPlace
    BY <1>a, <1>5 DEF Books, OwnReturns
  <1>8. ArchivedStudents' \subseteq ArchivedStudents
    BY <1>6 DEF ArchivedStudents
  <1>9. \A s \in Student : Known(s) => Known(s)'
    <2> SUFFICES ASSUME NEW s \in Student, Known(s), place[s] = NoPlace PROVE s \in ArchivedStudents'
      BY <1>2 DEF Known
    <2>1. PICK c \in Copy : archive[c] # NoCopy /\ archive[c].who = s
      BY DEF Known, ArchivedStudents
    <2>2. c # c0
      BY <1>5, <1>7, <2>1
    <2> QED
      BY <1>6, <2>1, <2>2 DEF ArchivedStudents
  <1>10. \A q \in Editor : /\ call'[q].kind = call[q].kind /\ call'[q].who = call[q].who
                           /\ call'[q].new = call[q].new
                           /\ Removing(call[q]) => Removing(call'[q])
                           /\ Asking(call'[q]) => q # p /\ Asking(call[q])
                           /\ Trying(call'[q]) => q # p /\ Trying(call[q])
                           /\ Owning(call'[q]) => q # p /\ Owning(call[q])
    BY <1>1, <1>3 DEF Removing, Owning, Asking, Trying, Returned
  <1>11. CastKept'
    BY <1>1, <1>2, <1>3, <1>a DEF Books, CastKept
  <1>12. Shapes'
    BY <1>1, <1>3 DEF Books, Shapes
  <1>13. Unasked'
    BY <1>2, <1>8, <1>10 DEF Books, Unasked
  <1>14. OwnForms'
    BY <1>2, <1>8, <1>10 DEF Books, OwnForms
  <1>15. OwnReturns'
    BY <1>2, <1>10 DEF Books, OwnReturns
  <1>16. CopiesHeld'
    <2>1. ASSUME NEW s, Secure(s) PROVE Secure(s)'
      BY <1>2, <1>10, <2>1 DEF Secure
    <2>2. ASSUME NEW q \in Editor \ {p}, Restoring(call[q]), call[q].copy = c0
          PROVE  call[q].pc \in {"look", "check", "insert"} /\ \A s \in call[q].who : Secure(s)'
      <3>1. CASE call[q].who = {archive[c0].who}
        <4>1. call[q].who = call[p].new
          BY <1>5, <3>1
        <4>2. ~Owning(call[q])
          <5> SUFFICES ASSUME Owning(call[q]) PROVE FALSE
            OBVIOUS
          <5>1. call[q].new = call[q].who
            BY <2>2 DEF Books, Shapes, Shape, Restoring
          <5>2. \A s \in call[p].new : s \notin call[q].new
            BY <1>a, <2>2 DEF Books, OwnReturns
          <5> QED
            BY <1>5, <4>1, <5>1, <5>2
        <4>3. call[q].pc \in {"look", "check", "insert"}
          BY <2>2, <4>2 DEF Restoring, Owning, Trying, Returned
        <4>4. ASSUME NEW s \in call[q].who PROVE Secure(s)'
          <5>1. place'[s] # NoPlace
            BY <1>2, <1>5, <1>7, <4>1
          <5>2. ASSUME NEW r \in Editor, Trying(call'[r]) PROVE s \notin call'[r].new
            BY <1>a, <1>10, <4>1, <5>2 DEF Books, OwnReturns, Owning
          <5> QED
            BY <5>1, <5>2 DEF Secure
        <4> QED
          BY <4>3, <4>4
      <3>2. CASE call[q].who # {archive[c0].who}
        BY <2>1, <2>2, <3>2 DEF Books, CopiesHeld
      <3> QED
        BY <3>1, <3>2
    <2>3. ASSUME NEW q \in Editor \ {p}, Restoring(call[q]), call[q].copy # c0
          PROVE  CopiesHeld!(q)'
      <3>1. call[q].copy \in Copy
        BY <2>3 DEF Books, Shapes, Shape
      <3> QED
        BY <1>3, <1>6, <2>1, <2>3, <3>1 DEF Books, CopiesHeld
    <2>4. ~Restoring(rec)
      BY <1>1 DEF Restoring
    <2> QED
      BY <1>3, <2>2, <2>3, <2>4 DEF CopiesHeld
  <1>17. DuesBack'
    BY <1>1, <1>2, <1>3 DEF Books, DuesBack
  <1>18. Tried'
    BY <1>2, <1>4, <1>9, <1>10 DEF Books, Tried
  <1>19. Covered'
    <2>1. \A q \in Editor : call'[q].pc # "remove"
      BY <1>1, <1>3, <1>a, Alone DEF Books, Sound, Sensible
    <2> QED
      BY <2>1 DEF Covered
  <1>20. NobodyLost'
    BY <1>2, <1>9 DEF Books, NobodyLost, Known
  <1> QED
    BY <1>11, <1>12, <1>13, <1>14, <1>15, <1>16, <1>17, <1>18, <1>19, <1>20 DEF Books

LEMMA BooksInit == RosterInit => Books
  <1> SUFFICES ASSUME RosterInit PROVE Books
    OBVIOUS
  <1>1. \A p \in Editor : call[p] = NoCall
    BY DEF RosterInit
  <1>2. NoCall.pc = "idle" /\ NoCall.who = {} /\ NoCall.new = {} /\ NoCall.kind = "add"
    BY DEF NoCall
  <1>3. \A s \in Student : /\ life[s] = "new" => s \notin Present \cup ArchivedStudents
                           /\ life[s] = "student" => s \in Present \cup ArchivedStudents
    BY DEF RosterInit
  <1>4. Shapes
    BY <1>1, <1>2 DEF Shapes, Shape, Owning, Trying, Returned, Restoring
  <1>5. Unasked /\ NobodyLost
    BY <1>1, <1>2, <1>3 DEF Unasked, NobodyLost, Present
  <1>6. OwnForms
    BY <1>1, <1>2 DEF OwnForms
  <1>7. OwnReturns /\ CopiesHeld /\ Tried
    BY <1>1, <1>2 DEF OwnReturns, CopiesHeld, Tried, Restoring, Trying
  <1>8. CastKept /\ DuesBack /\ Covered
    BY <1>1, <1>2 DEF CastKept, DuesBack, Covered
  <1> QED
    BY <1>4, <1>5, <1>6, <1>7, <1>8 DEF Books

LEMMA BooksStep ==
  ASSUME Separated, Sound, Books, [RosterNext]_rosterVars
  PROVE  Books'
  <1>1. ASSUME NEW p \in Editor, RosterStep(p) PROVE Books'
    BY <1>1, BeginningsBooks, LookForDuplicatesBooks, PlainStepsBooks, InsertBooks, UnaddBooks,
       VerifyBooks, RemovalBooks, DropCopyBooks, PlansBooks
       DEF RosterStep, Add, Edit, Delete, Restore, Promote
  <1>2. CASE UNCHANGED rosterVars
    <2>1. ArchivedStudents' = ArchivedStudents
      BY <1>2 DEF rosterVars, ArchivedStudents
    <2>2. /\ call' = call /\ place' = place /\ archive' = archive /\ life' = life
          /\ due' = due /\ cast' = cast
      BY <1>2 DEF rosterVars
    <2>3. \A s : Secure(s)' <=> Secure(s)
      BY <2>2 DEF Secure
    <2>4. CopiesHeld'
      BY <2>2, <2>3 DEF Books, CopiesHeld
    <2> QED
      BY <2>1, <2>2, <2>4 DEF Books, CastKept, Shapes, Unasked, OwnForms, OwnReturns,
         DuesBack, Tried, Covered, NobodyLost, Known
  <1> QED
    BY <1>1, <1>2 DEF RosterNext

\* A student who was entered is on the roster or in the archive, whatever is
\* killed, as long as nobody restores while another deletes.
THEOREM NobodyIsLost == Separated => (RosterSpec => []NobodyLost)
  <1> SUFFICES ASSUME Separated PROVE RosterSpec => []NobodyLost
    OBVIOUS
  <1>1. Sound /\ Books /\ [RosterNext]_rosterVars => Sound' /\ Books'
    BY SoundStep, BooksStep
  <1>2. Books => NobodyLost
    BY DEF Books
  <1> QED
    BY <1>1, <1>2, SoundInit, BooksInit, PTL DEF RosterSpec

-----------------------------------------------------------------------------
(***************************************************************************)
(* What a restoration has brought back, whatever other calls do: it is     *)
(* there, or a deletion or the removal of Semester 8 has the student too.  *)
(***************************************************************************)
Taking(l) == l.kind \in {"delete", "sem8"}
             /\ l.pc \in {"remove", "clear", "release", "done", "killed"}

BackShape(l) ==
    /\ l.pc \in {"look", "check", "save", "insert", "grace", "plan"} => l.new = {}
    /\ l.pc \in {"look", "check", "insert"} => l.to \in Place
    /\ l.pc \in {"dues", "drop"} => l.kind = "restore"
    /\ l.kind = "restore" =>
        /\ l.copy \in Copy
        /\ \A s, t \in l.who : s = t
        /\ Owning(l) => l.new = l.who
BackShapes == \A p \in Editor : BackShape(call[p])

\* A copy that is still there is the one the call has read.
CopyKnown ==
    \A p \in Editor : call[p].kind = "restore" /\ archive[call[p].copy] # NoCopy =>
        call[p].who = {archive[call[p].copy].who} /\ call[p].dues = archive[call[p].copy].due

\* Whom a call has inserted is there; nobody else has inserted him; his requests
\* are there before his copy goes.
InsertedThere ==
    \A p \in Editor : Owning(call[p]) => \A s \in call[p].new : place[s] # NoPlace \/ Retaken(s)
InsertedOnce ==
    \A p, q \in Editor : p # q /\ Owning(call[p]) /\ Owning(call[q]) =>
        \A s \in call[p].new \cap call[q].new : Retaken(s)
DuesThere ==
    \A p \in Editor : call[p].pc = "drop" /\ call[p].dues =>
        \A s \in call[p].who : s \in due \/ Retaken(s)

Backs == BackShapes /\ CopyKnown /\ InsertedThere /\ InsertedOnce /\ DuesThere

\* A call goes from one record to another, and what it does to the roster, the
\* archive and the requests of the others is a removal's doing.
LEMMA BacksKept ==
  ASSUME Sound, Backs, NEW p \in Editor, NEW rec, call' = [call EXCEPT ![p] = rec],
         BackShape(rec), rec.who \subseteq Student, rec.new \subseteq Student,
         rec.kind = "restore" /\ archive'[rec.copy] # NoCopy
            => rec.who = {archive'[rec.copy].who} /\ rec.dues = archive'[rec.copy].due,
         Taking(call[p]) => Taking(rec) /\ rec.who = call[p].who,
         \A q \in Editor : call[q].copy \in Copy
            => archive'[call[q].copy] \in {archive[call[q].copy], NoCopy},
         \A q \in Editor \ {p} : Owning(call[q]) => \A s \in call[q].new :
            place[s] # NoPlace => place'[s] # NoPlace \/ Retaken(s)',
         \A s \in due : s \in due' \/ Retaken(s)',
         Owning(rec) => \A s \in rec.new : place'[s] # NoPlace \/ Retaken(s)',
         Owning(rec) => \A q \in Editor \ {p} : Owning(call[q]) =>
            \A s \in rec.new \cap call[q].new : Retaken(s)',
         rec.pc = "drop" /\ rec.dues => \A s \in rec.who : s \in due' \/ Retaken(s)'
  PROVE  Backs'
  <1>1. call'[p] = rec /\ \A q \in Editor \ {p} : call'[q] = call[q]
    BY DEF Sound, RosterTypeOK
  <1>2. ASSUME NEW s, Retaken(s) PROVE Retaken(s)'
    <2>1. PICK q \in Editor : Taking(call[q]) /\ s \in call[q].who
      BY <1>2 DEF Retaken, Taking
    <2>2. Taking(call'[q]) /\ s \in call'[q].who
      BY <1>1, <2>1
    <2> QED
      BY <2>2 DEF Retaken, Taking
  <1>3. BackShapes'
    <2>1. \A q \in Editor : BackShape(call'[q])
      BY <1>1 DEF Backs, BackShapes
    <2> QED
      BY <2>1 DEF BackShapes, BackShape, Owning, Trying, Returned
  <1>4. CopyKnown'
    <2>1. ASSUME NEW q \in Editor \ {p}, call[q].kind = "restore",
                 archive'[call[q].copy] # NoCopy
          PROVE  /\ call[q].who = {archive'[call[q].copy].who}
                 /\ call[q].dues = archive'[call[q].copy].due
      <3>1. call[q].copy \in Copy
        BY <2>1 DEF Backs, BackShapes, BackShape
      <3>2. archive'[call[q].copy] = archive[call[q].copy]
        BY <2>1, <3>1
      <3> QED
        BY <2>1, <3>2 DEF Backs, CopyKnown
    <2> QED
      BY <1>1, <2>1 DEF CopyKnown
  <1>5. InsertedThere'
    <2>1. ASSUME NEW q \in Editor \ {p}, Owning(call[q]), NEW s \in call[q].new
          PROVE  place'[s] # NoPlace \/ Retaken(s)'
      BY <1>2, <2>1 DEF Backs, InsertedThere
    <2>2. ASSUME NEW q \in Editor, Owning(call'[q]), NEW s \in call'[q].new
          PROVE  place'[s] # NoPlace \/ Retaken(s)'
      BY <1>1, <2>1, <2>2
    <2> QED
      BY <2>2 DEF InsertedThere, Owning, Trying, Returned
  <1>6. InsertedOnce'
    <2>1. ASSUME NEW q \in Editor \ {p}, NEW r \in Editor \ {p}, q # r, Owning(call[q]),
                 Owning(call[r]), NEW s \in call[q].new \cap call[r].new
          PROVE  Retaken(s)'
      BY <1>2, <2>1 DEF Backs, InsertedOnce
    <2>2. ASSUME NEW q \in Editor, NEW r \in Editor, q # r, Owning(call'[q]),
                 Owning(call'[r]), NEW s \in call'[q].new \cap call'[r].new
          PROVE  Retaken(s)'
      BY <1>1, <2>1, <2>2
    <2> QED
      BY <2>2 DEF InsertedOnce, Owning, Trying, Returned
  <1>7. DuesThere'
    <2>1. ASSUME NEW q \in Editor \ {p}, call[q].pc = "drop", call[q].dues, NEW s \in call[q].who
          PROVE  s \in due' \/ Retaken(s)'
      BY <1>2, <2>1 DEF Backs, DuesThere
    <2> QED
      BY <1>1, <2>1 DEF DuesThere
  <1> QED
    BY <1>3, <1>4, <1>5, <1>6, <1>7 DEF Backs

\* A call goes on, and keeps what it has.
LEMMA GotoBacks ==
  ASSUME Sound, Backs, NEW p \in Editor, NEW pc \in PCs, Goto(p, pc),
         \A q \in Editor : call[q].copy \in Copy
            => archive'[call[q].copy] \in {archive[call[q].copy], NoCopy},
         \A s \in Student : place[s] # NoPlace => place'[s] # NoPlace,
         due \subseteq due',
         pc \in {"look", "check", "save", "insert", "grace", "plan"} => call[p].new = {},
         pc \in {"look", "check", "insert"} => call[p].pc \in {"look", "check"},
         pc \in {"dues", "drop"} => call[p].kind = "restore",
         Owning([call[p] EXCEPT !.pc = pc]) => Owning(call[p]) \/ call[p].pc = "save",
         Taking(call[p]) => Taking([call[p] EXCEPT !.pc = pc]),
         pc = "drop" /\ call[p].dues => call[p].who \subseteq due',
         call[p].pc = "save" => call[p].kind # "restore"
  PROVE  Backs'
  <1> DEFINE rec == [call[p] EXCEPT !.pc = pc]
  <1>1. call[p] \in Local
    BY DEF Sound, RosterTypeOK
  <1>2. call' = [call EXCEPT ![p] = rec]
    BY Zenon DEF Goto
  <1>3. /\ rec.pc = pc /\ rec.kind = call[p].kind /\ rec.who = call[p].who
        /\ rec.new = call[p].new /\ rec.copy = call[p].copy /\ rec.dues = call[p].dues
        /\ rec.to = call[p].to
    BY <1>1 DEF Local
  <1> HIDE DEF rec
  <1>4. BackShape(call[p])
    BY DEF Backs, BackShapes
  <1>5. call[p].pc = "save" => rec.new = {}
    BY <1>3, <1>4 DEF BackShape
  <1>6. rec.kind = "restore" /\ Owning(rec) => rec.new = rec.who
    BY <1>3, <1>4 DEF BackShape, rec
  <1>7. BackShape(rec)
    BY <1>3, <1>4, <1>6 DEF BackShape
  <1>8. rec.kind = "restore" /\ archive'[rec.copy] # NoCopy
            => rec.who = {archive'[rec.copy].who} /\ rec.dues = archive'[rec.copy].due
    <2> SUFFICES ASSUME call[p].kind = "restore", archive'[call[p].copy] # NoCopy
                 PROVE  /\ call[p].who = {archive'[call[p].copy].who}
                        /\ call[p].dues = archive'[call[p].copy].due
      BY <1>3
    <2>1. archive'[call[p].copy] = archive[call[p].copy]
      BY <1>4 DEF BackShape
    <2> QED
      BY <2>1 DEF Backs, CopyKnown
  <1>9. ASSUME NEW s, Retaken(s) PROVE Retaken(s)'
    <2>1. PICK q \in Editor : Taking(call[q]) /\ s \in call[q].who
      BY <1>9 DEF Retaken, Taking
    <2>2. call'[q] = IF q = p THEN rec ELSE call[q]
      BY <1>2 DEF Sound, RosterTypeOK
    <2>3. Taking(call'[q]) /\ s \in call'[q].who
      BY <1>3, <2>1, <2>2 DEF rec
    <2> QED
      BY <2>3 DEF Retaken, Taking
  <1>10. /\ call[p].new \subseteq Student /\ call[p].who \subseteq Student
         /\ \A q \in Editor : call[q].new \subseteq Student
    BY DEF Sound, RosterTypeOK, Local
  <1>11. Owning(rec) => \A s \in rec.new : place'[s] # NoPlace \/ Retaken(s)'
    BY <1>3, <1>5, <1>9, <1>10 DEF rec, Backs, InsertedThere
  <1>12. Owning(rec) => \A q \in Editor \ {p} : Owning(call[q]) =>
             \A s \in rec.new \cap call[q].new : Retaken(s)'
    BY <1>3, <1>5, <1>9 DEF rec, Backs, InsertedOnce
  <1>13. Taking(call[p]) => Taking(rec)
    BY DEF rec
  <1> QED
    BY <1>2, <1>3, <1>7, <1>8, <1>10, <1>11, <1>12, <1>13, BacksKept

\* Calls that begin, or choose their students, have inserted nobody.
LEMMA FreshBacks ==
  ASSUME Sound, Backs, NEW p \in Editor, NEW rec, call' = [call EXCEPT ![p] = rec],
         UNCHANGED <<place, archive, due>>, rec.who \subseteq Student, rec.new = {},
         rec.pc \notin {"dues", "drop"}, ~Owning(rec), ~Taking(call[p]),
         rec.pc \in {"look", "check", "insert"} => rec.to \in Place,
         rec.kind = "restore" => /\ rec.copy \in Copy
                                 /\ \A s, t \in rec.who : s = t
                                 /\ archive[rec.copy] # NoCopy
                                      => /\ rec.who = {archive[rec.copy].who}
                                         /\ rec.dues = archive[rec.copy].due
  PROVE  Backs'
  <1>1. BackShape(rec)
    BY DEF BackShape
  <1> QED
    BY <1>1, BacksKept

LEMMA BeginningsBacks ==
  ASSUME Sound, Backs, NEW p \in Editor,
         StartAdding(p) \/ StartEditing(p) \/ StartDeleting(p) \/ StartRestoring(p) \/ Lock(p)
  PROVE  Backs'
  <1>1. ASSUME NEW kind \in Kinds, NEW rec0, Begin(p, kind, rec0), Open(p) # {},
               UNCHANGED <<place, archive, due>>,
               [rec0 EXCEPT !.kind = kind].who \subseteq Student,
               [rec0 EXCEPT !.kind = kind].new = {},
               [rec0 EXCEPT !.kind = kind].kind = kind,
               [rec0 EXCEPT !.kind = kind].pc \in {"look", "check", "save", "copy", "grace", "plan"},
               [rec0 EXCEPT !.kind = kind].pc \in {"look", "check"}
                  => [rec0 EXCEPT !.kind = kind].to \in Place,
               kind # "restore"
        PROVE  Backs'
    <2> DEFINE rec == [rec0 EXCEPT !.kind = kind]
    <2>1. call' = [call EXCEPT ![p] = rec]
      BY <1>1 DEF Begin
    <2>2. call[p].pc = "idle"
      BY <1>1, OpenKinds
    <2>3. rec.who \subseteq Student /\ rec.new = {} /\ rec.kind = kind
          /\ rec.pc \in {"look", "check", "save", "copy", "grace", "plan"}
          /\ (rec.pc \in {"look", "check"} => rec.to \in Place)
      BY <1>1
    <2> HIDE DEF rec
    <2>4. ~Owning(rec) /\ ~Taking(call[p])
      BY <2>2, <2>3 DEF Owning, Trying, Returned, Taking
    <2> QED
      BY <1>1, <2>1, <2>3, <2>4, FreshBacks
  <1>2. CASE StartAdding(p)
    <2>1. PICK kind \in Open(p) \cap Adding, S \in SUBSET Student, to \in Place :
              StartAdding(p)!(kind, S, to)
      BY <1>2 DEF StartAdding
    <2> DEFINE pc  == IF kind = "import" THEN "look" ELSE "check"
               rec == [NoCall EXCEPT !.who = S, !.to = to, !.pc = pc]
    <2>2. pc \in {"look", "check"}
      OBVIOUS
    <2>3. Begin(p, kind, rec) /\ kind \in Kinds /\ kind # "restore" /\ Open(p) # {}
      BY <2>1, OpenKinds DEF Adding
    <2> HIDE DEF pc
    <2>4. LET r == [rec EXCEPT !.kind = kind]
          IN  r.who = S /\ r.new = {} /\ r.kind = kind /\ r.pc = pc /\ r.to = to
      BY DEF NoCall
    <2> HIDE DEF rec
    <2> QED
      BY <1>1, <2>1, <2>2, <2>3, <2>4
  <1>3. CASE StartEditing(p)
    <2>1. PICK kind \in Open(p) \cap Editing, s \in Student, to \in Place :
              StartEditing(p)!(kind, s, to)
      BY <1>3 DEF StartEditing
    <2> DEFINE pc  == IF to = place[s] THEN "save" ELSE "check"
               rec == [NoCall EXCEPT !.who = {s}, !.to = to, !.was = place[s], !.pc = pc]
    <2>2. pc \in {"save", "check"}
      OBVIOUS
    <2>3. Begin(p, kind, rec) /\ kind \in Kinds /\ kind # "restore" /\ Open(p) # {}
      BY <2>1, OpenKinds DEF Editing
    <2> HIDE DEF pc
    <2>4. LET r == [rec EXCEPT !.kind = kind]
          IN  r.who = {s} /\ r.new = {} /\ r.kind = kind /\ r.pc = pc /\ r.to = to
      BY DEF NoCall
    <2> HIDE DEF rec
    <2> QED
      BY <1>1, <2>1, <2>2, <2>3, <2>4
  <1>4. CASE StartDeleting(p)
    <2>1. PICK kind \in Open(p) \cap {"delete"}, s \in Student : StartDeleting(p)!(kind, s)
      BY <1>4 DEF StartDeleting
    <2> DEFINE rec == [NoCall EXCEPT !.who = {s}, !.pc = "copy"]
    <2>3. Begin(p, kind, rec) /\ kind \in Kinds /\ kind # "restore" /\ Open(p) # {}
      BY <2>1, OpenKinds
    <2>4. LET r == [rec EXCEPT !.kind = kind]
          IN  r.who = {s} /\ r.new = {} /\ r.kind = kind /\ r.pc = "copy"
      BY DEF NoCall
    <2> HIDE DEF rec
    <2> QED
      BY <1>1, <2>1, <2>3, <2>4
  <1>5. CASE Lock(p)
    <2>1. PICK kind \in Open(p) \cap Locking : Lock(p)!(kind)
      BY <1>5 DEF Lock
    <2> DEFINE pc  == IF kind = "promote" THEN "grace" ELSE "plan"
               rec == [NoCall EXCEPT !.pc = pc]
    <2>2. pc \in {"grace", "plan"}
      OBVIOUS
    <2>3. Begin(p, kind, rec) /\ kind \in Kinds /\ kind # "restore" /\ Open(p) # {}
      BY <2>1, OpenKinds DEF Locking
    <2> HIDE DEF pc
    <2>4. LET r == [rec EXCEPT !.kind = kind]
          IN  r.who = {} /\ r.new = {} /\ r.kind = kind /\ r.pc = pc
      BY DEF NoCall
    <2> HIDE DEF rec
    <2> QED
      BY <1>1, <2>1, <2>2, <2>3, <2>4
  <1>6. CASE StartRestoring(p)
    <2>1. PICK kind \in Open(p) \cap {"restore"}, c \in Copy : StartRestoring(p)!(kind, c)
      BY <1>6 DEF StartRestoring
    <2> DEFINE rec == [[NoCall EXCEPT !.copy = c, !.who = {archive[c].who},
                                      !.to = archive[c].place, !.dues = archive[c].due,
                                      !.pc = "look"] EXCEPT !.kind = "restore"]
    <2>2. call' = [call EXCEPT ![p] = rec] /\ call[p].pc = "idle"
      BY <2>1, OpenKinds DEF Begin
    <2>3. /\ rec.copy = c /\ rec.who = {archive[c].who} /\ rec.dues = archive[c].due
          /\ rec.pc = "look" /\ rec.new = {} /\ rec.kind = "restore"
          /\ rec.to = archive[c].place
      BY DEF NoCall
    <2>4. archive[c].who \in Student /\ archive[c].place \in Place
      BY <2>1 DEF Sound, RosterTypeOK, Archived
    <2> HIDE DEF rec
    <2>5. ~Owning(rec) /\ ~Taking(call[p])
      BY <2>2, <2>3 DEF Owning, Trying, Returned, Taking
    <2> QED
      BY <2>1, <2>2, <2>3, <2>4, <2>5, FreshBacks
  <1> QED
    BY <1>2, <1>3, <1>4, <1>5, <1>6

\* New calls look for register numbers that exist; holders of the lock plan.
LEMMA ChoosingBacks ==
  ASSUME Sound, Backs, NEW p \in Editor,
         LookForDuplicates(p) \/ PlanRemoval(p) \/ PlanFix(p) \/ PlanPromotion(p)
  PROVE  Backs'
  <1>a. call[p] \in Local /\ UNCHANGED <<place, archive, due>>
        /\ call[p].pc \in {"look", "plan"} /\ call[p].kind \in Adding \cup Locking
    BY DEF Sound, RosterTypeOK, LookForDuplicates, PlanRemoval, PlanFix, PlanPromotion, Locking
  <1>b. call[p].kind # "restore" /\ ~Taking(call[p])
    BY <1>a DEF Taking, Adding, Locking
  <1>1. ASSUME NEW rec, call' = [call EXCEPT ![p] = rec], rec.who \subseteq Student,
               rec.kind = call[p].kind, rec.new = call[p].new,
               rec.pc \in {"done", "check", "insert", "release", "copy", "repair", "move"},
               rec.pc \in {"check", "insert"} => call[p].pc = "look" /\ rec.to = call[p].to
        PROVE  Backs'
    <2>1. rec.new = {}
      BY <1>1, <1>a DEF Backs, BackShapes, BackShape
    <2>2. ~Owning(rec) /\ rec.kind # "restore"
      BY <1>1, <1>b DEF Owning, Trying, Returned
    <2>3. rec.pc \in {"check", "insert"} => rec.to \in Place
      BY <1>1 DEF Backs, BackShapes, BackShape
    <2> QED
      BY <1>1, <1>a, <1>b, <2>1, <2>2, <2>3, FreshBacks
  <1>2. CASE LookForDuplicates(p)
    <2> DEFINE S   == {s \in call[p].who : ~RegTaken(s)}
               pc  == IF S = {} THEN "done"
                      ELSE IF call[p].kind = "import" THEN "check" ELSE "insert"
               rec == [call[p] EXCEPT !.who = S, !.pc = pc]
    <2>1. call' = [call EXCEPT ![p] = rec]
      BY <1>2, Zenon DEF LookForDuplicates
    <2>2. S \subseteq Student /\ pc \in {"done", "check", "insert"}
      BY <1>a DEF Local
    <2> HIDE DEF S, pc
    <2>3. rec.who = S /\ rec.kind = call[p].kind /\ rec.new = call[p].new /\ rec.pc = pc
          /\ rec.to = call[p].to
      BY <1>a DEF Local
    <2> HIDE DEF rec
    <2>4. call[p].pc = "look"
      BY <1>2 DEF LookForDuplicates
    <2> QED
      BY <1>1, <2>1, <2>2, <2>3, <2>4
  <1>3. CASE PlanRemoval(p)
    <2> DEFINE S   == {s \in Present : place[s].sem = 8}
               pc  == IF S = {} THEN "release" ELSE "copy"
               rec == [call[p] EXCEPT !.who = S, !.pc = pc]
    <2>1. call' = [call EXCEPT ![p] = rec]
      BY <1>3, Zenon DEF PlanRemoval
    <2>2. S \subseteq Student /\ pc \in {"release", "copy"}
      BY DEF Present
    <2> HIDE DEF S, pc
    <2>3. rec.who = S /\ rec.kind = call[p].kind /\ rec.new = call[p].new /\ rec.pc = pc
      BY <1>a DEF Local
    <2> HIDE DEF rec
    <2> QED
      BY <1>1, <2>1, <2>2, <2>3
  <1>4. CASE PlanFix(p)
    <2>0. PICK to \in Place : PlanFix(p)!2!(to)
      BY <1>4 DEF PlanFix
    <2> DEFINE S   == {s \in InClass(to.dept, Year(to.sem)) : place[s].sem # to.sem}
               pc  == IF S = {} THEN "release" ELSE "repair"
               rec == [call[p] EXCEPT !.who = S, !.to = to, !.pc = pc]
    <2>1. call' = [call EXCEPT ![p] = rec]
      BY <2>0, Zenon
    <2>2. S \subseteq Student /\ pc \in {"release", "repair"}
      BY DEF InClass, Present
    <2> HIDE DEF S, pc
    <2>3. rec.who = S /\ rec.kind = call[p].kind /\ rec.new = call[p].new /\ rec.pc = pc
      BY <1>a DEF Local
    <2> HIDE DEF rec
    <2> QED
      BY <1>1, <2>1, <2>2, <2>3
  <1>5. CASE PlanPromotion(p)
    <2>0. PICK from \in Place : PlanPromotion(p)!2!(from)
      BY <1>5 DEF PlanPromotion
    <2> DEFINE S    == {s \in Present : place[s] = from}
               next == [from EXCEPT !.sem = @ + 1]
               rec  == [call[p] EXCEPT !.who = S, !.was = from, !.to = next,
                                       !.mixed = MixedClasses, !.pc = "move"]
    <2>1. call' = [call EXCEPT ![p] = rec]
      BY <2>0, Zenon
    <2>2. S \subseteq Student
      BY DEF Present
    <2> HIDE DEF S, next
    <2>3. rec.who = S /\ rec.kind = call[p].kind /\ rec.new = call[p].new /\ rec.pc = "move"
      BY <1>a DEF Local
    <2> HIDE DEF rec
    <2> QED
      BY <1>1, <2>1, <2>2, <2>3
  <1> QED
    BY <1>2, <1>3, <1>4, <1>5

\* A student who is not there is inserted; who inserted him before has lost him
\* to a removal.
LEMMA InsertBacks ==
  ASSUME Sound, Backs, NEW p \in Editor, Insert(p)
  PROVE  Backs'
  <1> DEFINE S   == {s \in call[p].who : ~RegTaken(s)}
             cut == S = {} \/ (call[p].kind = "import" /\ S # call[p].who)
             pc  == IF cut THEN "done" ELSE "verify"
             rec == [call[p] EXCEPT !.new = S, !.pc = pc]
  <1>1. call[p] \in Local /\ BackShape(call[p]) /\ call[p].pc = "insert"
        /\ UNCHANGED <<archive, due>>
    BY DEF Sound, RosterTypeOK, Backs, BackShapes, Insert
  <1>2. call' = [call EXCEPT ![p] = rec]
    BY Zenon DEF Insert
  <1>3. place' = [s \in Student |-> IF s \in S THEN call[p].to ELSE place[s]]
    BY Zenon DEF Insert
  <1>4. S \subseteq call[p].who /\ call[p].who \subseteq Student /\ pc \in {"done", "verify"}
    BY <1>1 DEF Local
  <1>5. \A s \in S : place[s] = NoPlace
    BY <1>4 DEF RegTaken, Present
  <1>6. pc = "verify" => S # {}
    OBVIOUS
  <1>7. pc = "verify" => call[p].to # NoPlace
    BY <1>1, RosterAssumption DEF BackShape
  <1> HIDE DEF S, cut, pc
  <1>8. /\ rec.who = call[p].who /\ rec.kind = call[p].kind /\ rec.new = S /\ rec.pc = pc
        /\ rec.copy = call[p].copy /\ rec.dues = call[p].dues
    BY <1>1 DEF Local
  <1> HIDE DEF rec
  <1>9. BackShape(rec)
    <2>1. rec.kind = "restore" /\ pc = "verify" => S = call[p].who
      BY <1>1, <1>4, <1>6, <1>8 DEF BackShape
    <2> QED
      BY <1>1, <1>4, <1>8, <2>1 DEF BackShape, Owning, Trying, Returned
  <1>10. rec.kind = "restore" /\ archive'[rec.copy] # NoCopy
            => rec.who = {archive'[rec.copy].who} /\ rec.dues = archive'[rec.copy].due
    BY <1>1, <1>8 DEF Backs, CopyKnown
  <1>11. ~Taking(call[p])
    BY <1>1 DEF Taking
  <1>12. Owning(rec) => pc = "verify"
    BY <1>4, <1>8 DEF Owning, Trying, Returned
  <1>13. ASSUME NEW s, Retaken(s) PROVE Retaken(s)'
    <2>1. PICK q \in Editor : Taking(call[q]) /\ s \in call[q].who
      BY <1>13 DEF Retaken, Taking
    <2>2. call'[q] = call[q]
      BY <1>2, <1>11, <2>1 DEF Sound, RosterTypeOK
    <2> QED
      BY <2>1, <2>2 DEF Retaken, Taking
  <1>14. \A q \in Editor : call[q].new \subseteq Student
    BY DEF Sound, RosterTypeOK, Local
  <1>15. \A q \in Editor \ {p} : Owning(call[q]) => \A s \in call[q].new :
            place[s] # NoPlace => place'[s] # NoPlace \/ Retaken(s)'
    BY <1>3, <1>5, <1>14
  <1>16. Owning(rec) => \A s \in rec.new : place'[s] # NoPlace \/ Retaken(s)'
    BY <1>3, <1>4, <1>7, <1>8, <1>12
  <1>17. Owning(rec) => \A q \in Editor \ {p} : Owning(call[q]) =>
             \A s \in rec.new \cap call[q].new : Retaken(s)'
    BY <1>5, <1>8, <1>13 DEF Backs, InsertedThere
  <1>18. rec.pc # "drop" /\ rec.who \subseteq Student /\ rec.new \subseteq Student
    BY <1>4, <1>8
  <1> QED
    BY <1>1, <1>2, <1>9, <1>10, <1>11, <1>15, <1>16, <1>17, <1>18, BacksKept

\* What was inserted and does not fit is taken back: his own call's concern.
LEMMA UnaddBacks ==
  ASSUME Sound, Backs, NEW p \in Editor, Unadd(p)
  PROVE  Backs'
  <1> DEFINE rec == [call[p] EXCEPT !.pc = "done"]
  <1>1. call[p] \in Local /\ BackShape(call[p]) /\ call[p].pc = "unadd"
        /\ UNCHANGED <<archive, due>>
    BY DEF Sound, RosterTypeOK, Backs, BackShapes, Unadd
  <1>2. call' = [call EXCEPT ![p] = rec]
    BY Zenon DEF Unadd, Goto
  <1>3. /\ rec.who = call[p].who /\ rec.kind = call[p].kind /\ rec.new = call[p].new
        /\ rec.pc = "done" /\ rec.copy = call[p].copy /\ rec.dues = call[p].dues
    BY <1>1 DEF Local
  <1> HIDE DEF rec
  <1>4. \A s \in Student : place'[s] = IF s \in call[p].new THEN NoPlace ELSE place[s]
    BY DEF Unadd
  <1>5. ~Owning(rec) /\ ~Taking(call[p]) /\ Owning(call[p])
    BY <1>1, <1>3 DEF Owning, Trying, Returned, Taking
  <1>6. BackShape(rec)
    BY <1>1, <1>3, <1>5 DEF BackShape
  <1>7. rec.kind = "restore" /\ archive'[rec.copy] # NoCopy
            => rec.who = {archive'[rec.copy].who} /\ rec.dues = archive'[rec.copy].due
    BY <1>1, <1>3 DEF Backs, CopyKnown
  <1>8. ASSUME NEW s, Retaken(s) PROVE Retaken(s)'
    <2>1. PICK q \in Editor : Taking(call[q]) /\ s \in call[q].who
      BY <1>8 DEF Retaken, Taking
    <2>2. call'[q] = call[q]
      BY <1>2, <1>5, <2>1 DEF Sound, RosterTypeOK
    <2> QED
      BY <2>1, <2>2 DEF Retaken, Taking
  <1>9. \A q \in Editor : call[q].new \subseteq Student /\ call[q].who \subseteq Student
    BY DEF Sound, RosterTypeOK, Local
  <1>10. \A q \in Editor \ {p} : Owning(call[q]) => \A s \in call[q].new :
            place[s] # NoPlace => place'[s] # NoPlace \/ Retaken(s)'
    BY <1>4, <1>5, <1>8, <1>9 DEF Backs, InsertedOnce
  <1> QED
    BY <1>1, <1>2, <1>3, <1>5, <1>6, <1>7, <1>9, <1>10, BacksKept

\* Who is removed, or loses his requests, is a removal's.
LEMMA RemovalBacks ==
  ASSUME Sound, Backs, NEW p \in Editor, CopyToArchive(p) \/ Remove(p) \/ ClearDues(p)
  PROVE  Backs'
  <1>1. PICK pc \in {"remove", "clear", "release", "done"} : Goto(p, pc)
    BY DEF CopyToArchive, Remove, ClearDues
  <1> DEFINE rec == [call[p] EXCEPT !.pc = pc]
  <1>2. call[p] \in Local /\ BackShape(call[p])
    BY DEF Sound, RosterTypeOK, Backs, BackShapes
  <1>3. call[p].kind \in {"delete", "sem8"}
    BY DEF Sound, Sensible, CopyToArchive, Remove, ClearDues
  <1>4. call' = [call EXCEPT ![p] = rec]
    BY <1>1, Zenon DEF Goto
  <1>5. /\ rec.who = call[p].who /\ rec.kind = call[p].kind /\ rec.new = call[p].new
        /\ rec.pc = pc /\ rec.copy = call[p].copy /\ rec.dues = call[p].dues
    BY <1>2 DEF Local
  <1> HIDE DEF rec
  <1>6. ~Owning(rec) /\ Taking(rec) /\ rec.pc # "drop"
    BY <1>1, <1>3, <1>5 DEF Owning, Trying, Returned, Taking
  <1>7. BackShape(rec)
    BY <1>1, <1>3, <1>5 DEF BackShape
  <1>8. \A s \in call[p].who : Retaken(s)'
    <2>1. call'[p] = rec
      BY <1>4 DEF Sound, RosterTypeOK
    <2> QED
      BY <1>5, <1>6, <2>1 DEF Retaken, Taking
  <1>9. \A q \in Editor : call[q].new \subseteq Student /\ call[q].who \subseteq Student
    BY DEF Sound, RosterTypeOK, Local
  <1>10. \A s \in Student : place[s] # NoPlace => place'[s] # NoPlace \/ Retaken(s)'
    BY <1>8 DEF CopyToArchive, Remove, ClearDues
  <1>11. \A s \in due : s \in due' \/ Retaken(s)'
    BY <1>8 DEF CopyToArchive, Remove, ClearDues
  <1>12. \A q \in Editor : call[q].copy \in Copy => archive'[call[q].copy] = archive[call[q].copy]
    BY CopyEffect DEF Remove, ClearDues
  <1> QED
    BY <1>3, <1>4, <1>5, <1>6, <1>7, <1>9, <1>10, <1>11, <1>12, BacksKept

\* The steps of the other calls.
LEMMA PlainStepsBacks ==
  ASSUME Sound, Backs, NEW p \in Editor,
         \/ LookForStudent(p) \/ CheckClass(p) \/ Save(p) \/ Unsave(p) \/ Release(p) \/ Grace(p)
         \/ RefusePromotion(p) \/ Repair(p) \/ Move(p) \/ Settle(p) \/ Kill(p)
         \/ Verify(p) \/ ReinsertDues(p) \/ DropCopy(p)
  PROVE  Backs'
  <1>a. call[p] \in Local /\ BackShape(call[p]) /\ Sensible(call[p])
    BY DEF Sound, RosterTypeOK, Backs, BackShapes
  <1>b. ASSUME NEW pc \in PCs
        PROVE  LET rec == [call[p] EXCEPT !.pc = pc] IN rec.pc = pc /\ rec.kind = call[p].kind
    BY <1>a DEF Local
  <1>c. call[p].kind \in Editing => call[p].kind # "restore"
    BY DEF Editing
  <1>1. CASE LookForStudent(p)
    <2>1. PICK pc \in PCs : Goto(p, pc) /\ pc \in {"done", "check"}
      BY <1>1 DEF LookForStudent, PCs
    <2>2. /\ call[p].pc = "look" /\ UNCHANGED <<place, archive, due>>
          /\ ~Owning([call[p] EXCEPT !.pc = pc]) /\ ~Taking(call[p])
      BY <1>1, <1>b, <2>1 DEF LookForStudent, Owning, Trying, Returned, Taking
    <2> QED
      BY <1>a, <2>1, <2>2, GotoBacks DEF BackShape
  <1>2. CASE CheckClass(p)
    <2>1. PICK pc \in PCs : Goto(p, pc) /\ pc \in {"done", "look", "save", "insert"}
      BY <1>2 DEF CheckClass, PCs
    <2>2. /\ call[p].pc = "check" /\ UNCHANGED <<place, archive, due>>
          /\ ~Owning([call[p] EXCEPT !.pc = pc]) /\ ~Taking(call[p])
      BY <1>2, <1>b, <2>1 DEF CheckClass, Owning, Trying, Returned, Taking
    <2> QED
      BY <1>a, <2>1, <2>2, GotoBacks DEF BackShape
  <1>3. CASE Save(p) \/ Unsave(p)
    <2>1. PICK pc \in PCs : Goto(p, pc) /\ (pc = "done" \/ (pc = "verify" /\ call[p].pc = "save"))
      BY <1>3 DEF Save, Unsave, PCs
    <2>2. /\ call[p].kind \in Editing /\ call[p].to \in Place /\ call[p].was \in Place
          /\ call[p].pc \in {"save", "unsave"} /\ UNCHANGED <<archive, due>>
      BY <1>3, <1>a DEF Save, Unsave, Sensible
    <2>3. \A s \in Student : place'[s] = NoPlace <=> place[s] = NoPlace
      BY <1>3, <2>2, RewrittenThere DEF Save, Unsave
    <2>4. /\ Owning([call[p] EXCEPT !.pc = pc]) => call[p].pc = "save"
          /\ ~Taking(call[p])
      BY <1>b, <2>1, <2>2 DEF Owning, Trying, Returned, Taking
    <2> QED
      BY <1>c, <2>1, <2>2, <2>3, <2>4, GotoBacks
  <1>4. CASE Release(p) \/ Grace(p) \/ RefusePromotion(p)
    <2>1. PICK pc \in PCs : /\ Goto(p, pc) /\ pc \in {"done", "plan", "release"}
                            /\ pc = "plan" => call[p].pc = "grace"
                            /\ pc = "release" => call[p].pc = "plan"
      BY <1>4 DEF Release, Grace, RefusePromotion, PCs
    <2>2. call[p].pc \in {"release", "grace", "plan"} /\ UNCHANGED <<place, archive, due>>
      BY <1>4 DEF Release, Grace, RefusePromotion
    <2>3. /\ ~Owning([call[p] EXCEPT !.pc = pc])
          /\ Taking(call[p]) => Taking([call[p] EXCEPT !.pc = pc])
      BY <1>b, <2>1, <2>2 DEF Owning, Trying, Returned, Taking
    <2> QED
      BY <1>a, <2>1, <2>2, <2>3, GotoBacks DEF BackShape
  <1>5. CASE Repair(p) \/ Move(p) \/ Settle(p)
    <2>1. PICK pc \in PCs : Goto(p, pc) /\ pc \in {"settle", "release"}
      BY <1>5 DEF Repair, Move, Settle, PCs
    <2>2. call[p].pc \in {"repair", "move", "settle"} /\ UNCHANGED <<archive, due>>
      BY <1>5 DEF Repair, Move, Settle
    <2>3. \A s \in Student : place'[s] = NoPlace <=> place[s] = NoPlace
      BY <1>5, MovesThere
    <2>4. ~Owning([call[p] EXCEPT !.pc = pc]) /\ ~Taking(call[p])
      BY <1>b, <2>1, <2>2 DEF Owning, Trying, Returned, Taking
    <2> QED
      BY <2>1, <2>2, <2>3, <2>4, GotoBacks
  <1>6. CASE Kill(p)
    <2>1. "killed" \in PCs
      BY DEF PCs
    <2>2. /\ Goto(p, "killed") /\ UNCHANGED <<place, archive, due>>
          /\ ~Owning([call[p] EXCEPT !.pc = "killed"])
          /\ Taking(call[p]) => Taking([call[p] EXCEPT !.pc = "killed"])
      BY <1>6, <1>b, <2>1 DEF Kill, Owning, Trying, Returned, Taking
    <2>3. call[p].pc = "save" => call[p].kind # "restore"
      BY <1>a, <1>c DEF Sensible
    <2> QED
      BY <2>1, <2>2, <2>3, GotoBacks
  <1>7. CASE Verify(p)
    <2>1. PICK pc \in PCs : /\ Goto(p, pc) /\ pc \in {"dues", "done", "unsave", "unadd"}
                            /\ pc = "dues" => call[p].kind = "restore"
      BY <1>7 DEF Verify, PCs
    <2>2. /\ call[p].pc = "verify" /\ UNCHANGED <<place, archive, due>>
          /\ Owning(call[p]) /\ ~Taking(call[p])
      BY <1>7 DEF Verify, Owning, Trying, Taking
    <2> QED
      BY <2>1, <2>2, GotoBacks
  <1>8. CASE ReinsertDues(p)
    <2>1. "drop" \in PCs
      BY DEF PCs
    <2>2. due \subseteq due' /\ (call[p].dues => call[p].who \subseteq due')
      BY <1>8 DEF ReinsertDues
    <2>3. /\ call[p].pc = "dues" /\ Goto(p, "drop") /\ UNCHANGED <<place, archive>>
          /\ call[p].kind = "restore"
      BY <1>8, <1>a DEF ReinsertDues, BackShape
    <2>4. Owning(call[p]) /\ ~Taking(call[p])
      BY <2>3 DEF Owning, Returned, Taking
    <2> QED
      BY <2>1, <2>2, <2>3, <2>4, GotoBacks
  <1>9. CASE DropCopy(p)
    <2>1. "done" \in PCs
      BY DEF PCs
    <2>2. call[p].pc = "drop" /\ Goto(p, "done") /\ UNCHANGED <<place, due>>
      BY <1>9 DEF DropCopy
    <2>3. \A c \in Copy : archive'[c] \in {archive[c], NoCopy}
      BY <1>9 DEF DropCopy, Sound, RosterTypeOK
    <2>4. ~Owning([call[p] EXCEPT !.pc = "done"]) /\ ~Taking(call[p])
      BY <1>b, <2>1, <2>2 DEF Owning, Trying, Returned, Taking
    <2> QED
      BY <2>1, <2>2, <2>3, <2>4, GotoBacks
  <1> QED
    BY <1>1, <1>2, <1>3, <1>4, <1>5, <1>6, <1>7, <1>8, <1>9

LEMMA BacksInit == RosterInit => Backs
  <1> SUFFICES ASSUME RosterInit PROVE Backs
    OBVIOUS
  <1>1. \A p \in Editor : call[p] = NoCall
    BY DEF RosterInit
  <1>2. NoCall.pc = "idle" /\ NoCall.kind = "add"
    BY DEF NoCall
  <1> QED
    BY <1>1, <1>2 DEF Backs, BackShapes, BackShape, CopyKnown, InsertedThere, InsertedOnce,
       DuesThere, Owning, Trying, Returned

LEMMA BacksStep ==
  ASSUME Sound, Backs, [RosterNext]_rosterVars
  PROVE  Backs'
  <1>1. ASSUME NEW p \in Editor, RosterStep(p) PROVE Backs'
    BY <1>1, BeginningsBacks, ChoosingBacks, InsertBacks, UnaddBacks, RemovalBacks,
       PlainStepsBacks DEF RosterStep, Add, Edit, Delete, Restore, Promote
  <1>2. CASE UNCHANGED rosterVars
    BY <1>2 DEF rosterVars, Backs, BackShapes, BackShape, CopyKnown, InsertedThere,
       InsertedOnce, DuesThere, Owning, Trying, Returned, Retaken
  <1> QED
    BY <1>1, <1>2 DEF RosterNext

\* Only a restoration that has brought everything back gives up a copy.
LEMMA RestoredStep ==
  ASSUME Sound, Backs, [RosterNext]_rosterVars,
         NEW c \in Copy, archive[c] # NoCopy, archive'[c] = NoCopy
  PROVE  \/ Retaken(archive[c].who)
         \/ /\ place[archive[c].who] # NoPlace
            /\ archive[c].due => archive[c].who \in due
  <1>0. archive' # archive
    OBVIOUS
  <1>1. PICK p \in Editor : RosterStep(p)
    BY <1>0 DEF RosterNext, rosterVars
  <1>a. ~Add(p) /\ ~Edit(p) /\ ~Promote(p) /\ ~Kill(p)
    BY <1>0 DEF Add, Edit, Promote, Kill, StartAdding, LookForDuplicates, CheckClass, Insert,
       Verify, Unadd, StartEditing, Save, Unsave, Lock, Grace, PlanRemoval, PlanFix, Repair,
       PlanPromotion, RefusePromotion, Move, Settle, Release
  <1>b. CopyToArchive(p) \/ DropCopy(p)
    BY <1>0, <1>1, <1>a DEF RosterStep, Delete, Restore, StartDeleting, Remove, ClearDues,
       StartRestoring, LookForStudent, ReinsertDues
  <1>2. DropCopy(p)
    BY <1>b, CopyEffect
  <1>3. call[p].pc = "drop" /\ call[p].kind = "restore" /\ Owning(call[p])
    BY <1>2 DEF DropCopy, Backs, BackShapes, BackShape, Owning, Returned
  <1>4. c = call[p].copy
    BY <1>2 DEF DropCopy, Sound, RosterTypeOK
  <1>5. /\ call[p].who = {archive[c].who} /\ call[p].dues = archive[c].due
        /\ call[p].new = call[p].who
    BY <1>3, <1>4 DEF Backs, CopyKnown, BackShapes, BackShape
  <1> QED
    BY <1>3, <1>5 DEF Backs, InsertedThere, DuesThere

\* A copy leaves the archive when the student and his requests are back, or
\* another call takes him off the roster as well: for any calls at once.
THEOREM RestoresWhole == RosterSpec => RestoredWhole
  <1>1. Sound /\ Backs /\ [RosterNext]_rosterVars => Sound' /\ Backs'
    BY SoundStep, BacksStep
  <1>2. Sound /\ Backs /\ [RosterNext]_rosterVars
        => [\A c \in Copy : archive[c] # NoCopy /\ archive'[c] = NoCopy =>
               \/ Retaken(archive[c].who)
               \/ /\ place[archive[c].who] # NoPlace
                  /\ archive[c].due => archive[c].who \in due]_rosterVars
    BY RestoredStep
  <1> QED
    BY <1>1, <1>2, SoundInit, BacksInit, PTL DEF RosterSpec, RestoredWhole

-----------------------------------------------------------------------------
(***************************************************************************)
(* One semester to a class.                                                *)
(***************************************************************************)

Class(pl) == <<pl.dept, Year(pl.sem)>>

\* No page changes the class of a student who exists.
NoEdits == \A f \in Casts, p \in Editor : f[p] \cap Editing = {}

\* An import meets no register number but those of the roster it read: one that
\* does leaves its rows unverified.
ImportsApart ==
    (\E f \in Casts, p \in Editor : "import" \in f[p])
    => \A s, t \in Student : RegOf[s] = RegOf[t] => s = t

\* Nobody repairs a class while another restores.
RepairsApart ==
    \A f \in Casts, p, q \in Editor : p # q /\ "restore" \in f[p] => "fix" \notin f[q]

\* s is on the roster for good, or until he is deleted.
Settled(s) ==
    /\ place[s] # NoPlace
    /\ \A p \in Editor : call[p].pc \in {"verify", "unadd", "killed"} => s \notin call[p].new

\* Who is on trial is in the class that will be verified.
TriedHere ==
    \A p \in Editor : Trying(call[p]) => \A s \in call[p].new :
        place[s] # NoPlace => Class(place[s]) = Class(call[p].to)

\* A repair has everyone of the class whose semester is the other one.
RepairAll ==
    \A p \in Editor : call[p].pc = "repair" =>
        /\ \A s \in call[p].who : place[s] # NoPlace => Class(place[s]) = Class(call[p].to)
        /\ \A s \in Student : /\ Settled(s) /\ Class(place[s]) = Class(call[p].to)
                              /\ place[s].sem # call[p].to.sem
                              => s \in call[p].who

\* The settled students of a class have one semester.
Even ==
    \A s, t \in Student :
        /\ Settled(s) /\ Settled(t)
        /\ Class(place[s]) = Class(place[t]) /\ Class(place[s]) \notin found
        => place[s].sem = place[t].sem

\* A promotion about to move has a whole semester, and finds nobody else in the
\* class it moves to; once it has moved, no class is mixed that was not.
Planned ==
    \A p \in Editor :
        /\ call[p].pc = "move" =>
            /\ call[p].who = {s \in Present : place[s] = call[p].was}
            /\ call[p].mixed = MixedClasses
            /\ call[p].to = [call[p].was EXCEPT !.sem = @ + 1]
            /\ InClass(call[p].to.dept, Year(call[p].to.sem)) \subseteq call[p].who
        /\ call[p].pc = "settle" => MixedClasses \subseteq call[p].mixed

Whole == TriedHere /\ RepairAll /\ Even /\ Planned

\* A set of semesters has more than one when two of them differ.
LEMMA Several ==
  ASSUME NEW T \in SUBSET (1..8)
  PROVE  Cardinality(T) > 1 <=> \E a, b \in T : a # b
  <1>1. IsFiniteSet(T)
    <2>1. IsFiniteSet(1..8)
      BY FS_Interval, 1 \in Int, 8 \in Int
    <2> QED
      BY <2>1, FS_Subset
  <1>2. Cardinality(T) \in Nat /\ (Cardinality(T) = 0 <=> T = {})
        /\ (Cardinality(T) = 1 <=> \E a : T = {a})
    BY <1>1, FS_CardinalityType, FS_EmptySet, FS_Singleton
  <1>3. (\E a, b \in T : a # b) <=> T # {} /\ ~\E a : T = {a}
    <2>1. ASSUME T # {}, \A a, b \in T : a = b PROVE \E a : T = {a}
      <3>1. PICK a \in T : TRUE
        BY <2>1
      <3>2. T = {a}
        BY <2>1, <3>1
      <3> QED
        BY <3>2
    <2> QED
      BY <2>1
  <1> QED
    BY <1>2, <1>3

\* The classes with two semesters when students are placed by pl.
MixedIn(pl) ==
    {c \in Dept \X (1..4) : \E s, t \in Student :
        /\ pl[s] # NoPlace /\ pl[t] # NoPlace
        /\ Class(pl[s]) = c /\ Class(pl[t]) = c /\ pl[s].sem # pl[t].sem}

LEMMA MixedMeans ==
  ASSUME NEW pl \in [Student -> Place \cup {NoPlace}]
  PROVE  {c \in Dept \X (1..4) :
             Cardinality({pl[s].sem : s \in {t \in {u \in Student : pl[u] # NoPlace} \ {} :
                             pl[t].dept = c[1] /\ Year(pl[t].sem) = c[2]}}) > 1} = MixedIn(pl)
  <1> DEFINE In(c)   == {t \in {u \in Student : pl[u] # NoPlace} \ {} :
                           pl[t].dept = c[1] /\ Year(pl[t].sem) = c[2]}
             Sems(c) == {pl[s].sem : s \in In(c)}
  <1>1. ASSUME NEW c \in Dept \X (1..4)
        PROVE  Cardinality(Sems(c)) > 1 <=>
               \E s, t \in Student : /\ pl[s] # NoPlace /\ pl[t] # NoPlace
                                     /\ Class(pl[s]) = c /\ Class(pl[t]) = c
                                     /\ pl[s].sem # pl[t].sem
    <2>1. Sems(c) \in SUBSET (1..8)
      BY RosterAssumption DEF Place
    <2>2. \A s \in Student : s \in In(c) <=> pl[s] # NoPlace /\ Class(pl[s]) = c
      BY DEF Class
    <2>3. (\E a, b \in Sems(c) : a # b) <=> \E s, t \in In(c) : pl[s].sem # pl[t].sem
      OBVIOUS
    <2>4. In(c) \subseteq Student
      OBVIOUS
    <2> HIDE DEF Sems, In
    <2> QED
      BY <2>1, <2>2, <2>3, <2>4, Several
  <1> QED
    BY <1>1 DEF MixedIn

LEMMA MixedNow ==
  ASSUME Sound PROVE MixedClasses = MixedIn(place)
  BY MixedMeans DEF Sound, RosterTypeOK, MixedClasses, Semesters, Present

LEMMA MixedNext ==
  ASSUME Sound' PROVE MixedClasses' = MixedIn(place')
  <1>1. place' \in [Student -> Place \cup {NoPlace}]
    BY DEF Sound, RosterTypeOK
  <1> QED
    BY <1>1, MixedMeans DEF MixedClasses, Semesters, Present

LEMMA ClassType ==
  ASSUME NEW pl \in Place
  PROVE  Class(pl) \in Dept \X (1..4) /\ Class(pl)[1] = pl.dept /\ Class(pl)[2] = Year(pl.sem)
  <1>1. pl.dept \in Dept /\ pl.sem \in 1..8
    BY RosterAssumption DEF Place
  <1>2. Year(pl.sem) \in 1..4
    BY <1>1 DEF Year
  <1> QED
    BY <1>1, <1>2 DEF Class

\* Beside a promotion that moves its students, or a repair, nobody writes the
\* roster who looks at the lock.
LEMMA NoOtherMoves ==
  ASSUME LockKept, NEW p \in Editor, NEW q \in Editor, p # q,
         call[p].pc \in {"move", "settle"}
  PROVE  ~Stray(call[q]) /\ ~Holder(call[q]) /\ locked
  BY DEF LockKept, Sound, Sensible, OneHolder, OthersAway, Moving, Holder, Locking

LEMMA NoOtherHolds ==
  ASSUME LockKept, NEW p \in Editor, NEW q \in Editor, p # q, Holder(call[q])
  PROVE  call[p].pc \notin {"repair", "move", "settle"} /\ locked
  BY DEF LockKept, Sound, Sensible, OneHolder, Holder, Locking

\* The roster stays, and no student settles.
LEMMA StillWhole ==
  ASSUME Sound, Books, Whole, NEW p \in Editor, NEW rec, call' = [call EXCEPT ![p] = rec],
         UNCHANGED <<place, found>>,
         rec.pc \notin {"repair", "move", "settle"},
         Trying(rec) => Trying(call[p]) /\ rec.to = call[p].to /\ rec.new = call[p].new,
         call[p].pc \in {"verify", "unadd", "killed"}
            => \/ rec.new = call[p].new /\ rec.pc \in {"verify", "unadd", "killed"}
               \/ call[p].new = {}
  PROVE  Whole'
  <1>1. call'[p] = rec /\ \A q \in Editor \ {p} : call'[q] = call[q]
    BY Others
  <1>2. ASSUME NEW s, Settled(s)' PROVE Settled(s)
    <2>1. ASSUME NEW q \in Editor, call[q].pc \in {"verify", "unadd", "killed"}
          PROVE  s \notin call[q].new
      BY <1>1, <1>2, <2>1 DEF Settled
    <2> QED
      BY <1>2, <2>1 DEF Settled
  <1>3. TriedHere'
    BY <1>1 DEF Whole, TriedHere
  <1>4. RepairAll'
    BY <1>1, <1>2 DEF Whole, RepairAll
  <1>5. Even'
    BY <1>2 DEF Whole, Even
  <1>6. Planned'
    <2>1. MixedClasses' = MixedClasses /\ Present' = Present
      BY DEF MixedClasses, Semesters, Present
    <2>2. \A d, y : InClass(d, y)' = InClass(d, y)
      BY <2>1 DEF InClass
    <2> QED
      BY <1>1, <2>1, <2>2 DEF Whole, Planned
  <1> QED
    BY <1>3, <1>4, <1>5, <1>6 DEF Whole

\* A call goes on elsewhere, and is not about to write.
LEMMA GotoWhole ==
  ASSUME Sound, Books, Whole, NEW p \in Editor, NEW pc \in PCs, Goto(p, pc),
         UNCHANGED <<place, found>>,
         pc \notin {"repair", "move", "settle", "verify"},
         pc = "unadd" => call[p].pc = "verify",
         call[p].pc \in {"verify", "unadd", "killed"}
            => pc \in {"unadd", "killed"} \/ call[p].new = {}
  PROVE  Whole'
  <1> DEFINE rec == [call[p] EXCEPT !.pc = pc]
  <1>1. call' = [call EXCEPT ![p] = rec]
    BY Zenon DEF Goto
  <1>2. rec.pc = pc /\ rec.new = call[p].new /\ rec.to = call[p].to
    BY DEF Sound, RosterTypeOK, Local
  <1> HIDE DEF rec
  <1>3. Trying(rec) => Trying(call[p])
    BY <1>2 DEF Trying
  <1> QED
    BY <1>1, <1>2, <1>3, StillWhole

\* A call begins.
LEMMA BeginWhole ==
  ASSUME Sound, Books, Whole, NEW p \in Editor, NEW kind, NEW rec, Begin(p, kind, rec),
         UNCHANGED <<place, found>>, call[p].pc = "idle",
         [rec EXCEPT !.kind = kind].pc \in {"look", "check", "copy", "grace", "plan"}
  PROVE  Whole'
  <1> DEFINE new == [rec EXCEPT !.kind = kind]
  <1>1. call' = [call EXCEPT ![p] = new]
    BY Zenon DEF Begin
  <1> HIDE DEF new
  <1>2. new.pc \in {"look", "check", "copy", "grace", "plan"}
    BY DEF new
  <1>3. ~Trying(new)
    BY <1>2 DEF Trying
  <1> QED
    BY <1>1, <1>2, <1>3, StillWhole

LEMMA PlainStepsWhole ==
  ASSUME NoEdits, Sound, Books, Whole, NEW p \in Editor,
         \/ StartAdding(p) \/ StartEditing(p) \/ StartDeleting(p) \/ StartRestoring(p) \/ Lock(p)
         \/ LookForStudent(p) \/ CheckClass(p) \/ Save(p) \/ Unsave(p) \/ Release(p) \/ Grace(p)
         \/ RefusePromotion(p) \/ Kill(p) \/ ReinsertDues(p) \/ CopyToArchive(p)
         \/ ClearDues(p) \/ DropCopy(p) \/ LookForDuplicates(p) \/ PlanRemoval(p)
  PROVE  Whole'
  <1>a. Open(p) \subseteq Kinds \ Editing /\ (Open(p) # {} => call[p].pc = "idle")
    BY OpenKinds DEF Open, NoEdits, Sound, RosterTypeOK
  <1>b. call[p].pc # "idle" => call[p].kind \notin Editing
    BY DEF NoEdits, Books, CastKept, Sound, RosterTypeOK
  <1>c. call[p] \in Local
    BY DEF Sound, RosterTypeOK
  <1>1. CASE StartAdding(p)
    <2>1. PICK kind \in Open(p) \cap Adding, S \in SUBSET Student, to \in Place :
              StartAdding(p)!(kind, S, to)
      BY <1>1 DEF StartAdding
    <2> DEFINE rec == [NoCall EXCEPT !.who = S, !.to = to,
                               !.pc = IF kind = "import" THEN "look" ELSE "check"]
    <2>2. [rec EXCEPT !.kind = kind].pc \in {"look", "check"}
      BY DEF NoCall
    <2> HIDE DEF rec
    <2>3. Begin(p, kind, rec) /\ UNCHANGED <<place, found>> /\ call[p].pc = "idle"
      BY <2>1, <1>a DEF rec
    <2> QED
      BY <2>2, <2>3, BeginWhole
  <1>2. CASE StartEditing(p)
    BY <1>2, <1>a DEF StartEditing
  <1>3. CASE StartDeleting(p)
    <2>1. PICK kind \in Open(p) \cap {"delete"}, s \in Student : StartDeleting(p)!(kind, s)
      BY <1>3 DEF StartDeleting
    <2> DEFINE rec == [NoCall EXCEPT !.who = {s}, !.pc = "copy"]
    <2>2. [rec EXCEPT !.kind = kind].pc = "copy"
      BY DEF NoCall
    <2>3. Begin(p, kind, rec) /\ UNCHANGED <<place, found>> /\ call[p].pc = "idle"
      BY <2>1, <1>a
    <2> HIDE DEF rec
    <2> QED
      BY <2>2, <2>3, BeginWhole
  <1>4. CASE StartRestoring(p)
    <2>1. PICK kind \in Open(p) \cap {"restore"}, c \in Copy : StartRestoring(p)!(kind, c)
      BY <1>4 DEF StartRestoring
    <2> DEFINE rec == [NoCall EXCEPT !.copy = c, !.who = {archive[c].who},
                                !.to = archive[c].place, !.dues = archive[c].due,
                                !.pc = "look"]
    <2>2. [rec EXCEPT !.kind = kind].pc = "look"
      BY DEF NoCall
    <2>3. Begin(p, kind, rec) /\ UNCHANGED <<place, found>> /\ call[p].pc = "idle"
      BY <2>1, <1>a
    <2> HIDE DEF rec
    <2> QED
      BY <2>2, <2>3, BeginWhole
  <1>5. CASE Lock(p)
    <2>1. PICK kind \in Open(p) \cap Locking : Lock(p)!(kind)
      BY <1>5 DEF Lock
    <2> DEFINE rec == [NoCall EXCEPT !.pc = IF kind = "promote" THEN "grace" ELSE "plan"]
    <2>2. [rec EXCEPT !.kind = kind].pc \in {"grace", "plan"}
      BY DEF NoCall
    <2>3. Begin(p, kind, rec) /\ UNCHANGED <<place, found>> /\ call[p].pc = "idle"
      BY <2>1, <1>a
    <2> HIDE DEF rec
    <2> QED
      BY <2>2, <2>3, BeginWhole
  <1>6. CASE LookForStudent(p) \/ CheckClass(p) \/ Release(p) \/ Grace(p) \/ RefusePromotion(p)
             \/ Kill(p) \/ ReinsertDues(p) \/ CopyToArchive(p) \/ ClearDues(p) \/ DropCopy(p)
    <2>1. UNCHANGED <<place, found>>
      BY <1>6 DEF LookForStudent, CheckClass, Release, Grace, RefusePromotion, Kill,
         ReinsertDues, CopyToArchive, ClearDues, DropCopy
    <2>2. CASE Kill(p)
      BY <2>1, <2>2, GotoWhole DEF Kill, PCs
    <2>3. CASE ~Kill(p)
      <3>1. call[p].pc \notin {"verify", "unadd", "killed"}
        BY <1>6, <2>3 DEF LookForStudent, CheckClass, Release, Grace, RefusePromotion,
           ReinsertDues, CopyToArchive, ClearDues, DropCopy
      <3>2. PICK pc \in PCs : Goto(p, pc) /\ pc \notin {"repair", "move", "settle", "verify", "unadd"}
        BY <1>6, <2>3 DEF LookForStudent, CheckClass, Release, Grace, RefusePromotion,
           ReinsertDues, CopyToArchive, ClearDues, DropCopy, PCs
      <3> QED
        BY <2>1, <3>1, <3>2, GotoWhole
    <2> QED
      BY <2>2, <2>3
  <1>7. CASE Save(p) \/ Unsave(p)
    BY <1>7, <1>b DEF Save, Unsave, Sound, Sensible
  <1>8. CASE LookForDuplicates(p)
    <2>1. PICK rec \in Local : call' = [call EXCEPT ![p] = rec]
                               /\ rec.pc \in {"done", "check", "insert"}
      BY <1>8, LookForDuplicatesTurn
    <2>2. UNCHANGED <<place, found>> /\ call[p].pc = "look" /\ ~Trying(rec)
      BY <1>8, <2>1 DEF LookForDuplicates, Trying
    <2> QED
      BY <2>1, <2>2, StillWhole
  <1>9. CASE PlanRemoval(p)
    <2>1. PICK rec \in Local : call' = [call EXCEPT ![p] = rec] /\ rec.pc \in {"release", "copy"}
      BY <1>9, PlanRemovalTurn
    <2>2. UNCHANGED <<place, found>> /\ call[p].pc = "plan" /\ ~Trying(rec)
      BY <1>9, <2>1 DEF PlanRemoval, Trying
    <2> QED
      BY <2>1, <2>2, StillWhole
  <1> QED
    BY <1>1, <1>2, <1>3, <1>4, <1>5, <1>6, <1>7, <1>8, <1>9

\* Students come in: they are on trial until the second look.
LEMMA InsertWhole ==
  ASSUME RepairsApart, ImportsApart, LockKept, Books, Whole, NEW p \in Editor, Insert(p)
  PROVE  Whole'
  <1>a. Sound
    BY DEF LockKept
  <1>b. PICK S \in SUBSET call[p].who, rec \in Local : Inserts(p, S, rec)
    BY <1>a, InsertFields
  <1> USE DEF Inserts
  <1>c. call'[p] = rec /\ \A q \in Editor \ {p} : call'[q] = call[q]
    <2>1. call' = [call EXCEPT ![p] = rec]
      BY <1>b
    <2> HIDE DEF Inserts
    <2> QED
      BY <1>a, <2>1, Others
  <1>d. call[p].pc = "insert" /\ UNCHANGED found /\ call[p].who \subseteq Student
    <2>1. call[p] \in Local
      BY <1>a DEF Sound, RosterTypeOK
    <2>2. call[p].who \subseteq Student
      BY <2>1 DEF Local
    <2> QED
      BY <2>2 DEF Insert
  <1>e. call[p].kind \in Adding \cup {"restore"} /\ call[p].to \in Place
    <2>1. Shape(call[p])
      BY DEF Books, Shapes
    <2> QED
      BY <1>d, <2>1 DEF Shape
  <1>1. rec.pc = "done" => S = {}
    <2>1. ASSUME call[p].kind = "import", NEW s \in call[p].who PROVE ~RegTaken(s)
      <3>1. place[s] = NoPlace
        BY <1>d, <2>1 DEF Books, OwnForms, Asking, Adding
      <3>2. call[p].kind \in cast[p] /\ cast \in Casts
        BY <1>a, <1>d DEF Books, CastKept, Sound, RosterTypeOK
      <3>3. \A t \in Student : RegOf[t] = RegOf[s] => t = s
        BY <1>d, <2>1, <3>2 DEF ImportsApart
      <3> QED
        BY <3>1, <3>3 DEF RegTaken, Present
    <2> QED
      BY <1>b, <2>1
  <1>2. ASSUME NEW q \in Editor \ {p}, Trying(call[q]), NEW s \in call[q].new
        PROVE  s \in Student /\ s \notin S
    <2>1. call[q].kind \in Adding \cup {"restore"} /\ s \in call[q].who /\ s \in Student
      BY <1>a, <1>2 DEF Books, Shapes, Shape, Sound, RosterTypeOK, Local
    <2>2. CASE call[q].kind \in Adding
      BY <1>b, <1>e, <2>1, <2>2 DEF Books, OwnForms
    <2>3. CASE call[q].kind = "restore"
      BY <1>b, <1>2, <2>1, <2>3 DEF Books, OwnReturns, Owning
    <2> QED
      BY <2>1, <2>2, <2>3
  <1>3. ASSUME NEW s \in Student, Settled(s)'
        PROVE  Settled(s) /\ s \notin S /\ place'[s] = place[s]
    <2>1. s \notin S
      BY <1>1, <1>3, <1>b, <1>c DEF Settled
    <2>2. ASSUME NEW q \in Editor, call[q].pc \in {"verify", "unadd", "killed"}
          PROVE  s \notin call[q].new
      BY <1>3, <1>c, <1>d, <2>2 DEF Settled
    <2> QED
      BY <1>3, <1>b, <2>1, <2>2 DEF Settled
  <1>4. TriedHere'
    <2>1. ASSUME NEW q \in Editor \ {p}, Trying(call'[q]), NEW s \in call'[q].new, place'[s] # NoPlace
          PROVE  Class(place'[s]) = Class(call'[q].to)
      <3>1. call'[q] = call[q] /\ place'[s] = place[s]
        BY <1>b, <1>c, <1>2, <2>1
      <3> QED
        BY <2>1, <3>1 DEF Whole, TriedHere
    <2>2. \A s \in S : Class(place'[s]) = Class(call'[p].to)
      BY <1>b, <1>c
    <2> QED
      BY <1>b, <1>c, <2>1, <2>2 DEF TriedHere
  <1>5. RepairAll'
    <2>1. ASSUME NEW q \in Editor \ {p}, call[q].pc = "repair"
          PROVE  RepairAll!(q)'
      <3>1. call'[q] = call[q] /\ call[q].kind = "fix" /\ call[q].who \subseteq Student
        BY <1>a, <1>c, <2>1 DEF Sound, RosterTypeOK, Local, Sensible
      <3>2. \A s \in call[q].who : s \notin S
        <4>1. CASE call[p].kind \in Adding
          BY <1>b, <1>d, <2>1, <4>1 DEF Books, OwnForms, Asking
        <4>2. CASE call[p].kind = "restore"
          BY <1>a, <1>d, <2>1, <3>1, <4>2 DEF Books, CastKept, RepairsApart, Sound, RosterTypeOK
        <4> QED
          BY <1>e, <4>1, <4>2
      <3>3. \A s \in call[q].who : place'[s] = place[s]
        BY <1>b, <3>1, <3>2
      <3> QED
        BY <1>3, <2>1, <3>1, <3>3 DEF Whole, RepairAll
    <2> QED
      BY <1>b, <1>c, <2>1 DEF RepairAll
  <1>6. Even'
    BY <1>3, <1>d DEF Whole, Even
  <1>7. Planned'
    <2>1. \A q \in Editor : call'[q].pc \notin {"move", "settle"}
      <3>1. Stray(call[p])
        BY <1>d DEF Stray, InFlight, Resaving
      <3> QED
        BY <1>b, <1>c, <3>1, NoOtherMoves
    <2> QED
      BY <2>1 DEF Planned
  <1> QED
    BY <1>4, <1>5, <1>6, <1>7 DEF Whole

\* Students go: those who are left and settled are where they were.
LEMMA GoneWhole ==
  ASSUME LockKept, Books, Whole, NEW p \in Editor, NEW G \in SUBSET Student,
         place' = [s \in Student |-> IF s \in G THEN NoPlace ELSE place[s]],
         NEW pc, Goto(p, pc), pc \in {"done", "clear"}, UNCHANGED found,
         call[p].pc \in {"unadd", "remove"},
         call[p].pc = "remove" \/ call[p].new \subseteq G
  PROVE  Whole'
  <1>a. Sound
    BY DEF LockKept
  <1> DEFINE rec == [call[p] EXCEPT !.pc = pc]
  <1>b. call' = [call EXCEPT ![p] = rec]
    BY Zenon DEF Goto
  <1>c. rec.pc = pc
    BY <1>a DEF Sound, RosterTypeOK, Local
  <1> HIDE DEF rec
  <1>d. call'[p] = rec /\ \A q \in Editor \ {p} : call'[q] = call[q]
    BY <1>a, <1>b, Others
  <1>e. \A s \in Student : place'[s] # NoPlace => place'[s] = place[s] /\ s \notin G
    OBVIOUS
  <1>1. ASSUME NEW s \in Student, Settled(s)' PROVE Settled(s) /\ place'[s] = place[s]
    <2>1. ASSUME NEW q \in Editor, call[q].pc \in {"verify", "unadd", "killed"}
          PROVE  s \notin call[q].new
      <3>1. CASE q = p
        BY <1>e, <1>1, <2>1, <3>1 DEF Settled
      <3>2. CASE q # p
        BY <1>d, <1>1, <2>1, <3>2 DEF Settled
      <3> QED
        BY <3>1, <3>2
    <2> QED
      BY <1>e, <1>1, <2>1 DEF Settled
  <1>2. TriedHere'
    <2>1. ASSUME NEW q \in Editor, Trying(call'[q]), NEW s \in call'[q].new, place'[s] # NoPlace
          PROVE  Class(place'[s]) = Class(call'[q].to)
      <3>1. q # p /\ call'[q] = call[q]
        BY <1>c, <1>d, <2>1 DEF Trying
      <3>2. s \in Student
        BY <1>a, <2>1, <3>1 DEF Sound, RosterTypeOK, Local
      <3> QED
        BY <1>e, <2>1, <3>1, <3>2 DEF Whole, TriedHere
    <2> QED
      BY <2>1 DEF TriedHere
  <1>3. RepairAll'
    <2>1. ASSUME NEW q \in Editor \ {p}, call[q].pc = "repair"
          PROVE  RepairAll!(q)'
      <3>1. call'[q] = call[q] /\ call[q].who \subseteq Student
        BY <1>a, <1>d, <2>1 DEF Sound, RosterTypeOK, Local
      <3> QED
        BY <1>1, <1>e, <2>1, <3>1 DEF Whole, RepairAll
    <2> QED
      BY <1>c, <1>d, <2>1 DEF RepairAll
  <1>4. Even'
    BY <1>1 DEF Whole, Even
  <1>5. Planned'
    <2>1. \A q \in Editor : call'[q].pc \notin {"move", "settle"}
      <3>1. Stray(call[p])
        BY DEF Stray, InFlight, Resaving
      <3> QED
        BY <1>c, <1>d, <3>1, NoOtherMoves
    <2> QED
      BY <2>1 DEF Planned
  <1> QED
    BY <1>2, <1>3, <1>4, <1>5 DEF Whole

LEMMA UnaddWhole ==
  ASSUME LockKept, Books, Whole, NEW p \in Editor, Unadd(p)
  PROVE  Whole'
  <1>1. call[p].new \in SUBSET Student
    BY DEF LockKept, Sound, RosterTypeOK, Local
  <1> QED
    BY <1>1, GoneWhole DEF Unadd

LEMMA RemoveWhole ==
  ASSUME LockKept, Books, Whole, NEW p \in Editor, Remove(p)
  PROVE  Whole'
  <1>1. call[p].who \in SUBSET Student
    BY DEF LockKept, Sound, RosterTypeOK, Local
  <1> QED
    BY <1>1, GoneWhole DEF Remove

\* The second look: students settle in a class that has one semester.
LEMMA VerifyWhole ==
  ASSUME NoEdits, LockKept, Books, Whole, NEW p \in Editor, Verify(p)
  PROVE  Whole'
  <1>a. Sound
    BY DEF LockKept
  <1>b. call[p].pc = "verify" /\ call[p].kind \notin Editing /\ UNCHANGED <<place, found>>
    BY <1>a DEF Verify, NoEdits, Books, CastKept, Sound, RosterTypeOK
  <1>1. CASE ~Holds(call[p].to)
    <2>1. Goto(p, "unadd") /\ "unadd" \in PCs
      BY <1>1, <1>b DEF Verify, PCs
    <2> QED
      BY <1>a, <1>b, <2>1, GotoWhole
  <1>2. CASE Holds(call[p].to)
    <2> DEFINE pc  == IF call[p].kind = "restore" THEN "dues" ELSE "done"
               rec == [call[p] EXCEPT !.pc = pc]
    <2>1. call' = [call EXCEPT ![p] = rec]
      <3>1. Goto(p, pc)
        BY <1>2 DEF Verify
      <3> QED
        BY <3>1, Zenon DEF Goto
    <2>2. rec.pc \in {"dues", "done"} /\ rec.new = call[p].new
      BY <1>a DEF Sound, RosterTypeOK, Local
    <2> HIDE DEF pc, rec
    <2>3. call'[p] = rec /\ \A q \in Editor \ {p} : call'[q] = call[q]
      BY <1>a, <2>1, Others
    <2>4. ~locked
      BY <1>2 DEF Holds
    <2>5. \A q \in Editor : call[q].pc \notin {"repair", "move", "settle"}
      <3>1. \A q \in Editor : Sensible(call[q]) /\ ~Holder(call[q])
        BY <2>4 DEF LockKept, Sound, OneHolder
      <3> QED
        BY <3>1 DEF Sensible, Holder, Locking
    <2>6. \A s, t \in Present :
             Class(place[s]) = Class(call[p].to) /\ Class(place[t]) = Class(call[p].to)
             => place[s].sem = place[t].sem
      <3> DEFINE T == Semesters(call[p].to.dept, Year(call[p].to.sem), {})
      <3>1. T \in SUBSET (1..8)
        <4>1. \A s \in Present : place[s] \in Place
          BY <1>a DEF Sound, RosterTypeOK, Present
        <4>2. \A s \in Present : place[s].sem \in 1..8
          BY <4>1, RosterAssumption DEF Place
        <4> QED
          BY <4>2 DEF Semesters
      <3>2. Cardinality(T) \in Nat
        BY <3>1, FS_Interval, 1 \in Int, 8 \in Int, FS_Subset, FS_CardinalityType
      <3>3. ~(Cardinality(T) > 1)
        BY <1>2, <3>2 DEF Holds
      <3>4. \A a, b \in T : a = b
        <4> HIDE DEF T
        <4> QED
          BY <3>1, <3>3, Several
      <3>5. \A s \in Present : Class(place[s]) = Class(call[p].to) => place[s].sem \in T
        BY DEF Class, Semesters
      <3> QED
        BY <3>4, <3>5
    <2>7. ASSUME NEW s \in Student, Settled(s)', ~Settled(s)
          PROVE  Class(place[s]) = Class(call[p].to)
      <3>1. place[s] # NoPlace /\ s \in call[p].new
        BY <1>b, <2>3, <2>7 DEF Settled
      <3> QED
        BY <1>b, <3>1 DEF Whole, TriedHere, Trying
    <2>8. \A s \in Student : Settled(s)' => s \in Present
      BY <1>b DEF Settled, Present
    <2>9. TriedHere'
      BY <1>b, <2>2, <2>3 DEF Whole, TriedHere, Trying
    <2>10. RepairAll' /\ Planned'
      BY <2>2, <2>3, <2>5 DEF RepairAll, Planned
    <2>11. Even'
      BY <1>b, <2>6, <2>7, <2>8 DEF Whole, Even
    <2> QED
      BY <2>9, <2>10, <2>11 DEF Whole
  <1> QED
    BY <1>1, <1>2

\* A repair or a promotion is planned.
LEMMA PlanWhole ==
  ASSUME Sound, Books, Whole, NEW p \in Editor, NEW rec, call' = [call EXCEPT ![p] = rec],
         UNCHANGED <<place, found>>, call[p].pc = "plan",
         rec.pc \in {"release", "repair", "move"},
         rec.pc = "repair" =>
            /\ \A s \in rec.who : place[s] # NoPlace => Class(place[s]) = Class(rec.to)
            /\ \A s \in Present : Class(place[s]) = Class(rec.to) /\ place[s].sem # rec.to.sem
                    => s \in rec.who,
         rec.pc = "move" => /\ rec.who = {s \in Present : place[s] = rec.was}
                            /\ rec.mixed = MixedClasses
                            /\ rec.to = [rec.was EXCEPT !.sem = @ + 1]
                            /\ InClass(rec.to.dept, Year(rec.to.sem)) \subseteq rec.who
  PROVE  Whole'
  <1>1. call'[p] = rec /\ \A q \in Editor \ {p} : call'[q] = call[q]
    BY Others
  <1>2. ASSUME NEW s, Settled(s)' PROVE Settled(s)
    <2>1. ASSUME NEW q \in Editor, call[q].pc \in {"verify", "unadd", "killed"}
          PROVE  s \notin call[q].new
      BY <1>1, <1>2, <2>1 DEF Settled
    <2> QED
      BY <1>2, <2>1 DEF Settled
  <1>3. TriedHere'
    BY <1>1 DEF Whole, TriedHere, Trying
  <1>4. RepairAll'
    <2>1. \A s \in Student : Settled(s)' => Settled(s) /\ s \in Present
      BY <1>2 DEF Settled, Present
    <2> QED
      BY <1>1, <2>1 DEF Whole, RepairAll
  <1>5. Even'
    BY <1>2 DEF Whole, Even
  <1>6. Planned'
    <2>1. MixedClasses' = MixedClasses /\ Present' = Present
      BY DEF MixedClasses, Semesters, Present
    <2>2. \A d, y : InClass(d, y)' = InClass(d, y)
      BY <2>1 DEF InClass
    <2> QED
      BY <1>1, <2>1, <2>2 DEF Whole, Planned
  <1> QED
    BY <1>3, <1>4, <1>5, <1>6 DEF Whole

LEMMA PlanFixWhole ==
  ASSUME Sound, Books, Whole, NEW p \in Editor, PlanFix(p)
  PROVE  Whole'
  <1>1. PICK to \in Place : PlanFix(p)!2!(to)
    BY DEF PlanFix
  <1> DEFINE S   == {s \in InClass(to.dept, Year(to.sem)) : place[s].sem # to.sem}
             pc  == IF S = {} THEN "release" ELSE "repair"
             rec == [call[p] EXCEPT !.who = S, !.to = to, !.pc = pc]
  <1>2. call' = [call EXCEPT ![p] = rec]
    BY <1>1, Zenon
  <1>3. rec.who = S /\ rec.to = to /\ rec.pc = pc
    BY DEF Sound, RosterTypeOK, Local
  <1>4. UNCHANGED <<place, found>> /\ call[p].pc = "plan" /\ pc \in {"release", "repair"}
    BY DEF PlanFix
  <1>5. /\ \A s \in S : Class(place[s]) = Class(to)
        /\ \A s \in Present : Class(place[s]) = Class(to) /\ place[s].sem # to.sem => s \in S
    BY DEF InClass, Class
  <1> HIDE DEF S, pc, rec
  <1> QED
    BY <1>2, <1>3, <1>4, <1>5, PlanWhole

LEMMA PlanPromotionWhole ==
  ASSUME Sound, Books, Whole, NEW p \in Editor, PlanPromotion(p)
  PROVE  Whole'
  <1>1. PICK from \in Place : PlanPromotion(p)!2!(from)
    BY DEF PlanPromotion
  <1> DEFINE S    == {s \in Present : place[s] = from}
             next == [from EXCEPT !.sem = @ + 1]
             rec  == [call[p] EXCEPT !.who = S, !.was = from, !.to = next,
                                     !.mixed = MixedClasses, !.pc = "move"]
  <1>2. call' = [call EXCEPT ![p] = rec]
    BY <1>1, Zenon
  <1>3. /\ rec.who = S /\ rec.was = from /\ rec.to = next
        /\ rec.mixed = MixedClasses /\ rec.pc = "move"
    BY DEF Sound, RosterTypeOK, Local
  <1>4. UNCHANGED <<place, found>> /\ call[p].pc = "plan"
    BY DEF PlanPromotion
  <1>5. InClass(next.dept, Year(next.sem)) \subseteq S
    BY <1>1 DEF MayPromote
  <1> HIDE DEF rec
  <1> QED
    BY <1>2, <1>3, <1>4, <1>5, PlanWhole

\* A class is repaired: whoever is settled in it has one semester.
LEMMA RepairWhole ==
  ASSUME LockKept, Books, Whole, NEW p \in Editor, Repair(p)
  PROVE  Whole'
  <1> DEFINE to  == call[p].to
             rec == [call[p] EXCEPT !.pc = "release"]
  <1>a. Sound
    BY DEF LockKept
  <1>b. call[p].pc = "repair" /\ to \in Place /\ Holder(call[p])
    BY DEF Repair, LockKept, Sound, Sensible, Holder, Locking
  <1>c. call' = [call EXCEPT ![p] = rec]
    BY Zenon DEF Repair, Goto
  <1>d. rec.pc = "release" /\ rec.new = call[p].new
    BY <1>a DEF Sound, RosterTypeOK, Local
  <1> HIDE DEF rec
  <1>e. call'[p] = rec /\ \A q \in Editor \ {p} : call'[q] = call[q]
    BY <1>a, <1>c, Others
  <1>f. \A s \in Student : place[s] \in Place \cup {NoPlace}
    BY <1>a DEF Sound, RosterTypeOK
  <1>1. \A s \in Student : place'[s] = IF s \in call[p].who /\ place[s] # NoPlace
                                       THEN [place[s] EXCEPT !.sem = to.sem] ELSE place[s]
    BY DEF Repair, Present
  <1>2. \A s \in Student : s \in call[p].who /\ place[s] # NoPlace
            => Class(place[s]) = Class(to) /\ place'[s] = to
    <2> SUFFICES ASSUME NEW s \in Student, s \in call[p].who, place[s] # NoPlace
                 PROVE  Class(place[s]) = Class(to) /\ place'[s] = to
      OBVIOUS
    <2>1. Class(place[s]) = Class(to)
      BY <1>b DEF Whole, RepairAll
    <2>2. place[s].dept = to.dept
      BY <2>1 DEF Class
    <2>3. [place[s] EXCEPT !.sem = to.sem] = to
      BY <1>b, <1>f, <2>2 DEF Place
    <2> QED
      BY <1>1, <2>1, <2>3
  <1>3. \A s \in Student : /\ place'[s] # NoPlace <=> place[s] # NoPlace
                           /\ place[s] # NoPlace => Class(place'[s]) = Class(place[s])
    BY <1>1, <1>2, <1>b, RosterAssumption
  <1>4. ASSUME NEW s \in Student, Settled(s)' PROVE Settled(s)
    BY <1>3, <1>4, <1>b, <1>d, <1>e DEF Settled
  <1>5. \A q \in Editor : call'[q].pc \notin {"repair", "move", "settle"}
    BY <1>b, <1>d, <1>e, NoOtherHolds
  <1>6. TriedHere'
    <2>1. ASSUME NEW q \in Editor, Trying(call'[q]), NEW s \in call'[q].new, place'[s] # NoPlace
          PROVE  Class(place'[s]) = Class(call'[q].to)
      <3>1. q # p /\ call'[q] = call[q]
        BY <1>d, <1>e, <2>1 DEF Trying
      <3>2. s \in Student
        BY <1>a, <2>1, <3>1 DEF Sound, RosterTypeOK, Local
      <3> QED
        BY <1>3, <2>1, <3>1, <3>2 DEF Whole, TriedHere
    <2> QED
      BY <2>1 DEF TriedHere
  <1>7. RepairAll' /\ Planned'
    BY <1>5 DEF RepairAll, Planned
  <1>8. Even'
    <2>1. ASSUME NEW s \in Student, Settled(s)'
          PROVE  /\ Settled(s) /\ Class(place'[s]) = Class(place[s])
                 /\ IF Class(place[s]) = Class(to) THEN place'[s].sem = to.sem
                    ELSE place'[s] = place[s]
      <3>1. Settled(s) /\ place[s] # NoPlace
        BY <1>4, <2>1 DEF Settled
      <3>2. CASE Class(place[s]) = Class(to)
        <4>1. s \in call[p].who \/ place[s].sem = to.sem
          BY <1>b, <3>1, <3>2 DEF Whole, RepairAll
        <4> QED
          BY <1>1, <1>2, <1>3, <3>1, <3>2, <4>1
      <3>3. CASE Class(place[s]) # Class(to)
        BY <1>1, <1>2, <1>3, <3>1, <3>3
      <3> QED
        BY <3>2, <3>3
    <2>2. found' = found \ {Class(to)}
      BY DEF Repair, Class
    <2> QED
      BY <2>1, <2>2 DEF Whole, Even
  <1> QED
    BY <1>6, <1>7, <1>8 DEF Whole

\* A semester moves into a class that has nobody else.
LEMMA MoveWhole ==
  ASSUME LockKept, Books, Whole, NEW p \in Editor, Move(p)
  PROVE  Whole'
  <1> DEFINE to  == call[p].to
             was == call[p].was
             who == call[p].who
             rec == [call[p] EXCEPT !.pc = "settle"]
  <1>a. Sound /\ Sound'
    BY MoveSound DEF LockKept
  <1>b. call[p].pc = "move" /\ to \in Place /\ was \in Place
    BY DEF Move, LockKept, Sound, Sensible
  <1>c. call' = [call EXCEPT ![p] = rec]
    BY Zenon DEF Move, Goto
  <1>d. rec.pc = "settle" /\ rec.new = call[p].new /\ rec.mixed = call[p].mixed
    BY <1>a DEF Sound, RosterTypeOK, Local
  <1> HIDE DEF rec
  <1>e. call'[p] = rec /\ \A q \in Editor \ {p} : call'[q] = call[q]
    BY <1>a, <1>c, Others
  <1>f. /\ who = {s \in Present : place[s] = was} /\ call[p].mixed = MixedClasses
        /\ to = [was EXCEPT !.sem = @ + 1]
        /\ InClass(to.dept, Year(to.sem)) \subseteq who
    BY <1>b DEF Whole, Planned
  <1>g. UNCHANGED found
    BY DEF Move
  <1>1. [was EXCEPT !.sem = to.sem] = to
    BY <1>b, <1>f DEF Place
  <1>2. \A s \in Student : place'[s] = IF s \in who THEN to ELSE place[s]
    BY <1>1, <1>f DEF Move, Present
  <1>3. \A s \in Student : place'[s] # NoPlace <=> place[s] # NoPlace
    BY <1>2, <1>b, <1>f, RosterAssumption DEF Present
  <1>4. ASSUME NEW s \in Student, NEW t \in Student, place'[s] # NoPlace, place'[t] # NoPlace,
               Class(place'[s]) = Class(place'[t])
        PROVE  place'[s] = place'[t] \/ (place'[s] = place[s] /\ place'[t] = place[t])
    <2>1. \A u \in Student \ who : place'[u] = place[u]
      BY <1>2
    <2>2. \A u \in Student \ who : place'[u] # NoPlace => Class(place'[u]) # Class(to)
      <3>1. \A u \in Present : Class(place[u]) = Class(to) => u \in who
        BY <1>f DEF InClass, Class
      <3> QED
        BY <1>3, <2>1, <3>1 DEF Present
    <2>3. \A u \in who : place'[u] = to
      BY <1>2, <1>f DEF Present
    <2> HIDE DEF to, who
    <2> QED
      BY <1>4, <2>1, <2>2, <2>3
  <1>5. ASSUME NEW s \in Student, Settled(s)' PROVE Settled(s)
    BY <1>3, <1>5, <1>b, <1>d, <1>e DEF Settled
  <1>6. TriedHere' /\ RepairAll'
    <2>1. \A q \in Editor : /\ Trying(call'[q]) => call'[q].new = {}
                            /\ call'[q].pc # "repair"
      <3>1. ASSUME NEW q \in Editor \ {p}
            PROVE  (Trying(call[q]) => call[q].new = {}) /\ call[q].pc # "repair"
        <4>1. ~Stray(call[q]) /\ ~Holder(call[q])
          BY <1>b, NoOtherMoves
        <4>2. Trying(call[q]) => call[q].new = {}
          <5>1. Trying(call[q]) => call[q].kind \in Editing
            BY <4>1 DEF Stray, InFlight, Trying, Resaving, SameClass
          <5> QED
            BY <5>1 DEF Books, Shapes, Shape, Editing, Adding
        <4> QED
          BY <1>a, <4>1, <4>2 DEF Holder, Sound, Sensible, Locking
      <3> QED
        BY <1>d, <1>e, <3>1 DEF Trying
    <2> QED
      BY <2>1 DEF TriedHere, RepairAll
  <1>7. Even'
    <2>1. \A s \in Student : Settled(s)' => place'[s] # NoPlace
      BY DEF Settled
    <2> QED
      BY <1>4, <1>5, <1>g, <2>1 DEF Whole, Even
  <1>8. Planned'
    <2>1. \A q \in Editor \ {p} : call'[q].pc \notin {"move", "settle"}
      <3>1. Holder(call[p])
        BY <1>a, <1>b DEF Sound, Sensible, Holder, Locking
      <3> QED
        BY <1>e, <3>1, NoOtherHolds
    <2>2. MixedClasses' \subseteq MixedClasses
      <3>1. MixedIn(place') \subseteq MixedIn(place)
        BY <1>3, <1>4 DEF MixedIn
      <3> QED
        BY <1>a, <3>1, MixedNow, MixedNext
    <2> QED
      BY <1>d, <1>e, <1>f, <2>1, <2>2 DEF Planned
  <1> QED
    BY <1>6, <1>7, <1>8 DEF Whole

\* The integrity check finds nothing: the promotion stands.
LEMMA SettleWhole ==
  ASSUME LockKept, Books, Whole, NEW p \in Editor, Settle(p)
  PROVE  Whole'
  <1>1. MixedClasses \subseteq call[p].mixed
    BY DEF Settle, Whole, Planned
  <1>2. place' = place
    BY <1>1 DEF Settle, LockKept, Sound, RosterTypeOK
  <1>3. Goto(p, "release") /\ "release" \in PCs /\ UNCHANGED found /\ call[p].pc = "settle"
    BY DEF Settle, PCs
  <1> QED
    BY <1>2, <1>3, GotoWhole DEF LockKept

LEMMA WholeInit == RosterInit => Whole
  <1> SUFFICES ASSUME RosterInit PROVE Whole
    OBVIOUS
  <1>1. \A p \in Editor : call[p].pc = "idle"
    BY DEF RosterInit, NoCall
  <1>2. Even
    <2> SUFFICES ASSUME NEW s \in Student, NEW t \in Student, Settled(s), Settled(t),
                        Class(place[s]) = Class(place[t]), place[s].sem # place[t].sem
                 PROVE  Class(place[s]) \in found
      BY DEF Even
    <2>1. found = MixedIn(place)
      BY SoundInit, MixedNow DEF RosterInit
    <2>2. place[s] \in Place /\ place[s] # NoPlace /\ place[t] # NoPlace
      BY SoundInit DEF Sound, RosterTypeOK, Settled
    <2> QED
      BY <2>1, <2>2, ClassType DEF MixedIn
  <1> QED
    BY <1>1, <1>2 DEF Whole, TriedHere, RepairAll, Planned, Trying

LEMMA WholeStep ==
  ASSUME NoEdits, ImportsApart, RepairsApart, LockKept, Books, Whole, [RosterNext]_rosterVars
  PROVE  Whole'
  <1>a. Sound
    BY DEF LockKept
  <1>1. ASSUME NEW p \in Editor, RosterStep(p) PROVE Whole'
    BY <1>a, <1>1, PlainStepsWhole, InsertWhole, UnaddWhole, RemoveWhole, VerifyWhole,
       PlanFixWhole, PlanPromotionWhole, RepairWhole, MoveWhole, SettleWhole
       DEF RosterStep, Add, Edit, Delete, Restore, Promote
  <1>2. CASE UNCHANGED rosterVars
    <2>1. call' = call /\ place' = place /\ found' = found
      BY <1>2 DEF rosterVars
    <2>2. MixedClasses' = MixedClasses /\ Present' = Present
      BY <2>1 DEF MixedClasses, Semesters, Present
    <2>3. \A d, y : InClass(d, y)' = InClass(d, y)
      BY <2>1, <2>2 DEF InClass
    <2>4. \A s : Settled(s)' <=> Settled(s)
      BY <2>1 DEF Settled
    <2> QED
      BY <2>1, <2>2, <2>3, <2>4 DEF Whole, TriedHere, RepairAll, Even, Planned
  <1> QED
    BY <1>1, <1>2 DEF RosterNext

\* When nobody is on trial, every student on the roster is settled.
LEMMA WholeMeans ==
  ASSUME Sound, Whole PROVE ClassesWhole
  <1> SUFFICES ASSUME Quiet, NEW c \in MixedClasses PROVE c \in found
    BY DEF ClassesWhole
  <1>1. PICK s, t \in Student : /\ place[s] # NoPlace /\ place[t] # NoPlace
                                /\ Class(place[s]) = c /\ Class(place[t]) = c
                                /\ place[s].sem # place[t].sem
    BY MixedNow DEF MixedIn
  <1>2. Settled(s) /\ Settled(t)
    BY <1>1 DEF Settled, Quiet
  <1> QED
    BY <1>1, <1>2 DEF Whole, Even

\* One semester to a class: any number of calls that add, restore, delete, repair
\* and promote keep it, however they interleave.
THEOREM ClassesStayWhole ==
    NoEdits /\ ImportsApart /\ Separated /\ RepairsApart => (RosterSpec => []ClassesWhole)
  <1> SUFFICES ASSUME NoEdits, ImportsApart, Separated, RepairsApart
               PROVE  RosterSpec => []ClassesWhole
    OBVIOUS
  <1>1. LockKept /\ Books /\ Whole /\ [RosterNext]_rosterVars => LockKept' /\ Books' /\ Whole'
    BY ApartStep, BooksStep, WholeStep DEF LockKept
  <1>2. LockKept /\ Whole => ClassesWhole
    BY WholeMeans DEF LockKept
  <1> QED
    BY <1>1, <1>2, ApartInit, BooksInit, WholeInit, PTL DEF RosterSpec
=============================================================================
