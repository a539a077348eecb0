---------------------------- MODULE PromotionUndo ----------------------------
(***************************************************************************)
(* What an undo brings back.  Runs may be undone only from the last one    *)
(* down, and a killed undo or recovery leaves a run that can be undone     *)
(* once more, with some of its students back already; so what matters is   *)
(* where a student would be if every run from some run on were undone      *)
(* (UndoneTo), and what the history would hold (RowOf).  Stacked says that *)
(* both are what the next run down expects to find.                        *)
(***************************************************************************)
EXTENDS PromotionMoves

\* Nobody sends or answers meanwhile, restoring does not fail, no live call
\* outlasts its lease.  Any thread may be killed anywhere.
Calm == ~Slow /\ Active = {} /\ "restore" \notin Faults

Undoable(r) == Unfinished(r) \/ run[r] = "completed"

\* Undoing r would put s back.
Holds(r, s) == Undoable(r) /\ s \in Journalled(r)

\* s is in semester k when every run from r on has been undone.
UndoneTo(r, s, k) ==
    \/ \E q \in Run : /\ q >= r /\ Holds(q, s) /\ item[q][s].from = k
                      /\ \A x \in Run : r <= x /\ x < q => ~Holds(x, s)
    \/ sem[s] = k /\ \A q \in Run : q >= r => ~Holds(q, s)

\* Undoing r would put the row of s for semester k back.
HoldsRow(r, s, k) == Holds(r, s) /\ item[r][s].from = k

\* row is the row of s for semester k when every run from r on has been undone.
RowOf(r, s, k, row) ==
    \/ \E q \in Run : /\ q >= r /\ HoldsRow(q, s, k) /\ item[q][s].row = row
                      /\ \A x \in Run : r <= x /\ x < q => ~HoldsRow(x, s, k)
    \/ log[s][k] = row /\ \A q \in Run : q >= r => ~HoldsRow(q, s, k)

\* From this row the undo of r gets back to the one that it journalled.
Clean(r, s, row) == item[r][s].row # NoRow \/ row = NoRow \/ row.by = r

\* Each run, once the later ones are undone, finds its students where it may
\* restore them.
Stacked ==
    \A r \in Run : \A s \in Student : \A k \in Sem :
        /\ Holds(r, s) /\ UndoneTo(r + 1, s, k) => k \in {item[r][s].from, item[r][s].from + 1}
        /\ \A row \in Row : HoldsRow(r, s, k) /\ RowOf(r + 1, s, k, row) => Clean(r, s, row)

\* Runs begin one after the other, and an unfinished one is the last.
InOrder ==
    /\ \A r, q \in Run : run[r] = "none" /\ q > r => run[q] = "none"
    /\ \A q, r \in Run : Unfinished(q) /\ Undoable(r) => r <= q

\* Requests of which nobody has written since any run.
Untouched ==
    /\ \A s \in Student : due[s].after = {}
    /\ \A r \in Run : \A s \in Student : item[r][s].due.after = {}

\* s is as r journalled him.
Back(r, s) ==
    sem[s] = item[r][s].from /\ due[s] = item[r][s].due /\ log[s][item[r][s].from] = item[r][s].row

\* Which students of its run a thread knows to be as they were.
BackAt(l) ==
    /\ l.pc \in {"history", "move"} => ~txn
    /\ l.pc = "journal" \/ (l.pc = "extend" /\ txn) \/ l.pc = "mark"
            => \A s \in Journalled(l.run) : Back(l.run, s)
    /\ l.pc = "restore" => \A s \in Journalled(l.run) \ l.left : Back(l.run, s)
    /\ l.pc \in OnStudent =>
            /\ l.cur \notin l.left
            /\ \A s \in Journalled(l.run) \ (l.left \cup {l.cur}) : Back(l.run, s)
            /\ sem[l.cur] = item[l.run][l.cur].from
    /\ l.pc = "insert" => due[l.cur] = NoDue
    /\ l.pc = "relog" => due[l.cur] = item[l.run][l.cur].due

\* A run under way is the last; a promotion begins when there is none.
LastAt(l) ==
    /\ l.pc = "check" => \A r \in Run : ~Unfinished(r)
    /\ l.pc \in AtRun => IsLast(l.run)

Undoing == InOrder /\ Stacked /\ Untouched /\ \A p \in Thread : LastAt(proc[p]) /\ BackAt(proc[p])

-----------------------------------------------------------------------------
\* The students a promotion moves, and where they are.
UpFrom(roster, S) == [s \in Student |-> IF s \in S THEN roster[s] + 1 ELSE roster[s]]

Movers(roster, from, d) ==
    {s \in Student : InScope(s, d) /\ roster[s] \in IF from = 0 THEN Promotable ELSE {from}}

Promoting == {"journal", "complete"} \cup Applying

\* The students of a run that promotes: those still to come are in left while
\* they are journalled.
Planned(l) == IF l.pc = "journal" THEN Journalled(l.run) \cup l.left ELSE Journalled(l.run)

\* A run that promotes moves a whole semester, or all seven, from where they were.
PlanAt(l) ==
    l.pc \in Promoting =>
        /\ \E from \in 0..7, d \in Dept \cup {AllDepts} : Planned(l) = Movers(l.seen, from, d)
        /\ Planned(l) # {}
        /\ \A s \in Journalled(l.run) : item[l.run][s].from = l.seen[s]
        /\ l.pc = "journal" => l.sems = {l.seen[s] : s \in Planned(l)}
        /\ l.pc \in Applying => sem = UpFrom(l.seen, {s \in Planned(l) : l.seen[s] \notin l.sems})
        /\ l.pc = "complete" => sem = UpFrom(l.seen, Planned(l))

PlanKept == \A p \in Thread : PlanAt(proc[p])

-----------------------------------------------------------------------------
\* One semester per department and year.
EvenRoster(roster) ==
    \A s, t \in Student :
        DeptOf[s] = DeptOf[t] /\ Year(roster[s]) = Year(roster[t]) => roster[s] = roster[t]

\* So it is when every run from r on has been undone.
EvenBefore(r) ==
    \A s, t \in Student : \A j, k \in Sem :
        DeptOf[s] = DeptOf[t] /\ UndoneTo(r, s, j) /\ UndoneTo(r, t, k) /\ Year(j) = Year(k) => j = k

\* Only an undoer works on a run that is completed, and it is not killed.
Even ==
    /\ \A r \in Run : Undoable(r) => EvenBefore(r)
    /\ (\A r \in Run : ~Unfinished(r)) /\ (\A p \in Thread : proc[p].pc \notin Restoring)
            => EvenRoster(sem)
    /\ \A p \in Thread : proc[p].pc \in Restoring /\ p \notin Undoer => Unfinished(proc[p].run)
    /\ \A p \in Thread : proc[p].pc \in Promoting => EvenRoster(UpFrom(proc[p].seen, Planned(proc[p])))

-----------------------------------------------------------------------------
(***************************************************************************)
(* What a step of each kind does to the semesters and rows that undoing    *)
(* would lead to.  None adds to them, but for the students of the last run.*)
(***************************************************************************)

\* The last run that can be undone is above all others that hold anybody.
LEMMA LastHolds ==
  ASSUME NEW r \in Run, IsLast(r)
  PROVE  /\ Undoable(r)
         /\ \A q \in Run : \A s : q > r => ~Holds(q, s)
<1>1. \A q \in Run : Undoable(q) => q <= r
  BY DEF IsLast, Undoable
<1>2. \A q \in Run : q > r => ~Undoable(q)
  BY <1>1 DEF Run
<1>3. QED BY <1>2 DEF Holds, IsLast, Undoable

\* Above the last run there is only the present.
LEMMA AtTop ==
  ASSUME NEW r \in Run, IsLast(r), NEW s \in Student
  PROVE  /\ UndoneTo(r + 1, s, sem[s])
         /\ \A k : RowOf(r + 1, s, k, log[s][k])
<1>1. \A q \in Run : q >= r + 1 => ~Holds(q, s)
  BY LastHolds DEF Run
<1>2. \A k : \A q \in Run : q >= r + 1 => ~HoldsRow(q, s, k)
  BY <1>1 DEF HoldsRow
<1>3. QED BY <1>1, <1>2 DEF UndoneTo, RowOf

\* So the last run may restore its students, and finds rows that it can put right.
LEMMA LastFinds ==
  ASSUME Sound, Stacked, NEW r \in Run, IsLast(r), NEW s \in Journalled(r)
  PROVE  /\ s \in Student /\ item[r][s] \in Item
         /\ sem[s] \in {item[r][s].from, item[r][s].from + 1}
         /\ Clean(r, s, log[s][item[r][s].from])
<1>1. s \in Student /\ item[r][s] \in Item
  BY EntryIsItem DEF Sound
<1>2. Holds(r, s)
  BY LastHolds DEF Holds
<1>3. sem[s] \in Sem /\ item[r][s].from \in Sem /\ log[s][item[r][s].from] \in Row
  BY <1>1 DEF Sound, TypeOK, Item, Promotable, Sem
<1>4. sem[s] \in {item[r][s].from, item[r][s].from + 1}
  BY <1>1, <1>2, <1>3, AtTop DEF Stacked
<1>5. Clean(r, s, log[s][item[r][s].from])
  <2>1. HoldsRow(r, s, item[r][s].from)
    BY <1>2 DEF HoldsRow
  <2>2. RowOf(r + 1, s, item[r][s].from, log[s][item[r][s].from])
    BY <1>1, AtTop
  <2>3. QED BY <1>1, <1>3, <2>1, <2>2 DEF Stacked
<1>6. QED BY <1>1, <1>4, <1>5

\* The runs hold the same students with the same entries.
SameHeld ==
    \A q \in Run : \A s \in Student :
        /\ Holds(q, s)' <=> Holds(q, s)
        /\ Holds(q, s) => item'[q][s] = item[q][s]

LEMMA SameUndone ==
  ASSUME SameHeld, UNCHANGED <<sem, log>>, NEW n, NEW s \in Student
  PROVE  /\ \A k : UndoneTo(n, s, k)' => UndoneTo(n, s, k)
         /\ \A k, row : RowOf(n, s, k, row)' => RowOf(n, s, k, row)
<1>1. ASSUME NEW k, UndoneTo(n, s, k)' PROVE UndoneTo(n, s, k)
  BY <1>1 DEF UndoneTo, SameHeld
<1>2. \A k : \A q \in Run : HoldsRow(q, s, k)' <=> HoldsRow(q, s, k)
  BY DEF HoldsRow, SameHeld
<1>3. ASSUME NEW k, NEW row, RowOf(n, s, k, row)' PROVE RowOf(n, s, k, row)
  <2>1. CASE log'[s][k] = row /\ \A q \in Run : q >= n => ~HoldsRow(q, s, k)'
    BY <1>2, <2>1 DEF RowOf
  <2>2. CASE \E q \in Run : /\ q >= n /\ HoldsRow(q, s, k)' /\ item'[q][s].row = row
                            /\ \A x \in Run : n <= x /\ x < q => ~HoldsRow(x, s, k)'
    <3>1. PICK q \in Run : /\ q >= n /\ HoldsRow(q, s, k)' /\ item'[q][s].row = row
                           /\ \A x \in Run : n <= x /\ x < q => ~HoldsRow(x, s, k)'
      BY <2>2
    <3>2. HoldsRow(q, s, k) /\ item[q][s].row = row
      BY <1>2, <3>1 DEF SameHeld, HoldsRow
    <3>3. \A x \in Run : n <= x /\ x < q => ~HoldsRow(x, s, k)
      BY <1>2, <3>1
    <3>4. QED BY <3>1, <3>2, <3>3 DEF RowOf
  <2>3. QED BY <1>3, <2>1, <2>2 DEF RowOf
<1>4. QED BY <1>1, <1>3

LEMMA SameStacked ==
  ASSUME Stacked, SameHeld, UNCHANGED <<sem, log>>
  PROVE  Stacked'
<1>1. ASSUME NEW r \in Run, NEW s \in Student, NEW k \in Sem
      PROVE  /\ Holds(r, s)' /\ UndoneTo(r + 1, s, k)'
                    => k \in {item'[r][s].from, item'[r][s].from + 1}
             /\ \A row \in Row : HoldsRow(r, s, k)' /\ RowOf(r + 1, s, k, row)'
                    => Clean(r, s, row)'
  <2>1. Holds(r, s)' => Holds(r, s) /\ item'[r][s] = item[r][s]
    BY DEF SameHeld
  <2>2. HoldsRow(r, s, k)' => HoldsRow(r, s, k) /\ item'[r][s] = item[r][s]
    BY <2>1 DEF HoldsRow
  <2>3. QED BY <2>1, <2>2, SameUndone DEF Stacked, Clean
<1>2. QED BY <1>1 DEF Stacked

\* The last run journals t, who is as it found him if it already holds him.
Journals(r, t) ==
    /\ run' = run /\ sem' = sem /\ log' = log
    /\ t \in Journalled(r) => Back(r, t)
    /\ \A q \in Run : \A s \in Student : q # r \/ s # t => item'[q][s] = item[q][s]
    /\ item'[r][t] # NoItem
    /\ item'[r][t].from = sem[t] /\ item'[r][t].row = log[t][sem[t]]

LEMMA JournalUndone ==
  ASSUME NEW r \in Run, IsLast(r), NEW t \in Student, Journals(r, t), NEW n, NEW s \in Student
  PROVE  /\ \A k : UndoneTo(n, s, k)' => UndoneTo(n, s, k)
         /\ \A k, row : RowOf(n, s, k, row)' => RowOf(n, s, k, row)
<1>1. \A q \in Run : \A x \in Student : Holds(q, x) => Holds(q, x)'
  BY DEF Holds, Journals, Journalled, Undoable, Unfinished
<1>2. \A q \in Run : \A x \in Student : q # r \/ x # t =>
            (Holds(q, x)' <=> Holds(q, x)) /\ item'[q][x] = item[q][x]
  BY DEF Holds, Journals, Journalled, Undoable, Unfinished
<1>3. Undoable(r) /\ \A q \in Run : q > r => ~Holds(q, s)
  BY LastHolds
<1>4. Holds(r, t) => item[r][t].from = sem[t] /\ item[r][t].row = log[t][sem[t]]
  BY DEF Holds, Journals, Back
<1>5. ASSUME NEW k, UndoneTo(n, s, k)' PROVE UndoneTo(n, s, k)
  <2>1. CASE sem'[s] = k /\ \A q \in Run : q >= n => ~Holds(q, s)'
    <3>1. sem[s] = k BY <2>1 DEF Journals
    <3>2. \A q \in Run : q >= n => ~Holds(q, s) BY <1>1, <2>1
    <3>3. QED BY <3>1, <3>2 DEF UndoneTo
  <2>2. CASE \E q \in Run : /\ q >= n /\ Holds(q, s)' /\ item'[q][s].from = k
                            /\ \A x \in Run : n <= x /\ x < q => ~Holds(x, s)'
    <3>1. PICK q \in Run : /\ q >= n /\ Holds(q, s)' /\ item'[q][s].from = k
                           /\ \A x \in Run : n <= x /\ x < q => ~Holds(x, s)'
      BY <2>2
    <3>2. \A x \in Run : n <= x /\ x < q => ~Holds(x, s)
      BY <1>1, <3>1
    <3>3. CASE Holds(q, s)
      <4>1. item[q][s].from = k
        BY <1>2, <1>4, <3>1, <3>3 DEF Journals
      <4>2. QED BY <3>1, <3>2, <3>3, <4>1 DEF UndoneTo
    <3>4. CASE ~Holds(q, s)
      <4>1. q = r /\ s = t BY <1>2, <3>1, <3>4
      <4>2. sem[s] = k BY <3>1, <4>1 DEF Journals
      <4>3. \A x \in Run : x >= n => ~Holds(x, s)
        <5>1. \A x \in Run : x < r \/ x = r \/ x > r BY DEF Run
        <5>2. QED BY <1>3, <3>2, <3>4, <4>1, <5>1
      <4>4. QED BY <4>2, <4>3 DEF UndoneTo
    <3>5. QED BY <3>3, <3>4
  <2>3. QED BY <1>5, <2>1, <2>2 DEF UndoneTo
<1>6. \A k : \A q \in Run : HoldsRow(q, s, k) => HoldsRow(q, s, k)'
  BY <1>1, <1>2, <1>4 DEF HoldsRow, Journals
<1>7. ASSUME NEW k, NEW row, RowOf(n, s, k, row)' PROVE RowOf(n, s, k, row)
  <2>1. CASE log'[s][k] = row /\ \A q \in Run : q >= n => ~HoldsRow(q, s, k)'
    <3>1. log[s][k] = row BY <2>1 DEF Journals
    <3>2. \A q \in Run : q >= n => ~HoldsRow(q, s, k) BY <1>6, <2>1
    <3>3. QED BY <3>1, <3>2 DEF RowOf
  <2>2. CASE \E q \in Run : /\ q >= n /\ HoldsRow(q, s, k)' /\ item'[q][s].row = row
                            /\ \A x \in Run : n <= x /\ x < q => ~HoldsRow(x, s, k)'
    <3>1. PICK q \in Run : /\ q >= n /\ HoldsRow(q, s, k)' /\ item'[q][s].row = row
                           /\ \A x \in Run : n <= x /\ x < q => ~HoldsRow(x, s, k)'
      BY <2>2
    <3>2. \A x \in Run : n <= x /\ x < q => ~HoldsRow(x, s, k)
      BY <1>6, <3>1
    <3>3. CASE HoldsRow(q, s, k)
      <4>1. item[q][s].row = row
        BY <1>2, <1>4, <3>1, <3>3 DEF Journals, HoldsRow
      <4>2. QED BY <3>1, <3>2, <3>3, <4>1 DEF RowOf
    <3>4. CASE ~HoldsRow(q, s, k)
      <4>1. q = r /\ s = t BY <1>2, <3>1, <3>4 DEF HoldsRow
      <4>2. log[s][k] = row BY <3>1, <4>1 DEF Journals, HoldsRow
      <4>3. \A x \in Run : x >= n => ~HoldsRow(x, s, k)
        <5>1. \A x \in Run : x < r \/ x = r \/ x > r BY DEF Run
        <5>2. QED BY <1>3, <3>2, <3>4, <4>1, <5>1 DEF HoldsRow
      <4>4. QED BY <4>2, <4>3 DEF RowOf
    <3>5. QED BY <3>3, <3>4
  <2>3. QED BY <1>7, <2>1, <2>2 DEF RowOf
<1>8. QED BY <1>5, <1>7

LEMMA JournalStacked ==
  ASSUME Stacked, NEW r \in Run, IsLast(r), NEW t \in Student, Journals(r, t)
  PROVE  Stacked'
<1>1. ASSUME NEW q \in Run, NEW s \in Student, NEW k \in Sem
      PROVE  /\ Holds(q, s)' /\ UndoneTo(q + 1, s, k)'
                    => k \in {item'[q][s].from, item'[q][s].from + 1}
             /\ \A row \in Row : HoldsRow(q, s, k)' /\ RowOf(q + 1, s, k, row)'
                    => Clean(q, s, row)'
  <2>1. CASE q # r \/ s # t
    <3>1. Holds(q, s)' => Holds(q, s) /\ item'[q][s] = item[q][s]
      BY <2>1 DEF Holds, Journals, Journalled, Undoable, Unfinished
    <3>2. HoldsRow(q, s, k)' => HoldsRow(q, s, k) /\ item'[q][s] = item[q][s]
      BY <3>1 DEF HoldsRow
    <3>3. QED BY <3>1, <3>2, JournalUndone DEF Stacked, Clean
  <2>2. CASE q = r /\ s = t
    <3>1. \A x \in Run : x >= r + 1 => ~Holds(x, t)'
      <4>1. \A x \in Run : x > r => ~Holds(x, t) BY LastHolds
      <4>2. ASSUME NEW x \in Run, x >= r + 1 PROVE ~Holds(x, t)'
        <5>1. x > r /\ x # r BY <4>2 DEF Run
        <5>2. QED BY <4>1, <5>1 DEF Holds, Journals, Journalled, Undoable, Unfinished
      <4>3. QED BY <4>2
    <3>2. UndoneTo(r + 1, t, k)' => k = sem[t]
      BY <3>1 DEF UndoneTo, Journals
    <3>3. ASSUME NEW row \in Row, HoldsRow(r, t, k)', RowOf(r + 1, t, k, row)'
          PROVE  Clean(r, t, row)'
      <4>1. k = sem[t] BY <3>3 DEF HoldsRow, Journals
      <4>2. row = log[t][k] BY <3>1, <3>3 DEF RowOf, HoldsRow, Journals
      <4>3. QED BY <4>1, <4>2 DEF Clean, Journals
    <3>4. QED BY <2>2, <3>2, <3>3 DEF Journals
  <2>3. QED BY <2>1, <2>2
<1>2. QED BY <1>1 DEF Stacked

\* The last run moves its students between the two semesters of their entries,
\* and writes or takes back their rows.
Works(r) ==
    /\ run' = run /\ item' = item
    /\ \A s \in Student : \/ sem'[s] = sem[s]
                          \/ /\ s \in Journalled(r)
                             /\ sem'[s] \in {item[r][s].from, item[r][s].from + 1}
    /\ \A s \in Student : \A k \in Sem :
            \/ log'[s][k] = log[s][k]
            \/ log'[s][k] = NoRow
            \/ s \in Journalled(r) /\ k = item[r][s].from /\ Clean(r, s, log'[s][k])

\* What earlier runs would lead to stays, or a row goes.
LEMMA WorkUndone ==
  ASSUME NEW r \in Run, IsLast(r), Works(r), NEW n, n <= r, NEW s \in Student, NEW k \in Sem
  PROVE  /\ UndoneTo(n, s, k)' => UndoneTo(n, s, k)
         /\ \A row : RowOf(n, s, k, row)' => RowOf(n, s, k, row) \/ row = NoRow
<1>1. \A q \in Run : /\ Holds(q, s)' <=> Holds(q, s)
                     /\ HoldsRow(q, s, k)' <=> HoldsRow(q, s, k)
                     /\ item'[q][s] = item[q][s]
  BY DEF Works, HoldsRow, Holds, Undoable, Unfinished, Journalled
<1>2. ASSUME UndoneTo(n, s, k)' PROVE UndoneTo(n, s, k)
  <2>1. CASE sem'[s] = k /\ \A q \in Run : q >= n => ~Holds(q, s)'
    <3>1. ~Holds(r, s) BY <1>1, <2>1
    <3>2. sem[s] = k BY <2>1, <3>1, LastHolds DEF Works, Holds
    <3>3. QED BY <1>1, <2>1, <3>2 DEF UndoneTo
  <2>2. CASE \E q \in Run : /\ q >= n /\ Holds(q, s)' /\ item'[q][s].from = k
                            /\ \A x \in Run : n <= x /\ x < q => ~Holds(x, s)'
    BY <1>1, <2>2 DEF UndoneTo
  <2>3. QED BY <1>2, <2>1, <2>2 DEF UndoneTo
<1>3. ASSUME NEW row, RowOf(n, s, k, row)', row # NoRow PROVE RowOf(n, s, k, row)
  <2>1. CASE log'[s][k] = row /\ \A q \in Run : q >= n => ~HoldsRow(q, s, k)'
    <3>1. ~HoldsRow(r, s, k) BY <1>1, <2>1
    <3>2. log[s][k] = row BY <1>3, <2>1, <3>1, LastHolds DEF Works, Holds, HoldsRow
    <3>3. QED BY <1>1, <2>1, <3>2 DEF RowOf
  <2>2. CASE \E q \in Run : /\ q >= n /\ HoldsRow(q, s, k)' /\ item'[q][s].row = row
                            /\ \A x \in Run : n <= x /\ x < q => ~HoldsRow(x, s, k)'
    BY <1>1, <2>2 DEF RowOf
  <2>3. QED BY <1>3, <2>1, <2>2 DEF RowOf
<1>4. QED BY <1>2, <1>3

LEMMA WorkStacked ==
  ASSUME Sound, Stacked, NEW r \in Run, IsLast(r), Works(r)
  PROVE  Stacked'
<1>1. ASSUME NEW q \in Run, NEW s \in Student, NEW k \in Sem
      PROVE  /\ Holds(q, s)' /\ UndoneTo(q + 1, s, k)'
                    => k \in {item'[q][s].from, item'[q][s].from + 1}
             /\ \A row \in Row : HoldsRow(q, s, k)' /\ RowOf(q + 1, s, k, row)'
                    => Clean(q, s, row)'
  <2>1. /\ Holds(q, s)' <=> Holds(q, s)
        /\ HoldsRow(q, s, k)' <=> HoldsRow(q, s, k)
        /\ item'[q][s] = item[q][s]
    BY DEF Works, HoldsRow, Holds, Undoable, Unfinished, Journalled
  <2>2. CASE q < r
    <3>1. q + 1 <= r BY <2>2 DEF Run
    <3>2. /\ UndoneTo(q + 1, s, k)' => UndoneTo(q + 1, s, k)
          /\ \A row : RowOf(q + 1, s, k, row)' => RowOf(q + 1, s, k, row) \/ row = NoRow
      BY <3>1, WorkUndone
    <3>3. QED BY <2>1, <3>2 DEF Stacked, Clean
  <2>3. CASE q > r
    BY <2>1, <2>3, LastHolds DEF HoldsRow
  <2>4. CASE q = r
    <3>1. \A x \in Run : x >= r + 1 => ~Holds(x, s) /\ ~Holds(x, s)'
      <4>1. ASSUME NEW x \in Run, x >= r + 1 PROVE ~Holds(x, s)
        <5>1. x > r BY <4>1 DEF Run
        <5>2. QED BY <5>1, LastHolds
      <4>2. QED BY <4>1 DEF Works, Holds, Undoable, Unfinished, Journalled
    <3>2. ASSUME Holds(r, s)', UndoneTo(r + 1, s, k)'
          PROVE  k \in {item[r][s].from, item[r][s].from + 1}
      <4>1. k = sem'[s] /\ s \in Journalled(r)
        BY <2>1, <2>4, <3>1, <3>2 DEF UndoneTo, Holds
      <4>2. sem[s] \in {item[r][s].from, item[r][s].from + 1}
        BY <4>1, LastFinds
      <4>3. QED BY <4>1, <4>2 DEF Works
    <3>3. ASSUME NEW row \in Row, HoldsRow(r, s, k)', RowOf(r + 1, s, k, row)'
          PROVE  Clean(r, s, row)
      <4>1. row = log'[s][k] /\ s \in Journalled(r) /\ k = item[r][s].from
        BY <2>1, <2>4, <3>1, <3>3 DEF RowOf, HoldsRow, Holds
      <4>2. Clean(r, s, log[s][k])
        BY <4>1, LastFinds
      <4>3. QED BY <4>1, <4>2 DEF Works, Clean
    <3>4. QED BY <2>1, <2>4, <3>2, <3>3 DEF Clean
  <2>5. q < r \/ q = r \/ q > r BY DEF Run
  <2>6. QED BY <2>2, <2>3, <2>4, <2>5
<1>2. QED BY <1>1 DEF Stacked

\* The last run can no longer be undone; its students are back.
Closes(r) ==
    /\ item' = item /\ sem' = sem /\ log' = log
    /\ run'[r] \in Verdicts /\ \A q \in Run \ {r} : run'[q] = run[q]
    /\ \A s \in Journalled(r) : Back(r, s)

LEMMA CloseUndone ==
  ASSUME NEW r \in Run, IsLast(r), Closes(r), NEW n, n <= r, NEW s \in Student
  PROVE  /\ \A k : UndoneTo(n, s, k)' => UndoneTo(n, s, k)
         /\ \A k, row : RowOf(n, s, k, row)' => RowOf(n, s, k, row)
<1>1. \A q \in Run : Holds(q, s)' <=> q # r /\ Holds(q, s)
  BY DEF Closes, Holds, Undoable, Unfinished, Journalled, Verdicts
<1>2. \A q \in Run : q # r /\ Holds(q, s) => q < r
  <2>1. ASSUME NEW q \in Run, q # r, Holds(q, s) PROVE q < r
    <3>1. ~(q > r) BY <2>1, LastHolds
    <3>2. QED BY <2>1, <3>1 DEF Run
  <2>2. QED BY <2>1
<1>3. Holds(r, s) => item[r][s].from = sem[s] /\ item[r][s].row = log[s][sem[s]]
  BY DEF Holds, Closes, Back
<1>4. ASSUME NEW k, UndoneTo(n, s, k)' PROVE UndoneTo(n, s, k)
  <2>1. CASE sem'[s] = k /\ \A q \in Run : q >= n => ~Holds(q, s)'
    <3>1. sem[s] = k /\ \A q \in Run : q >= n /\ q # r => ~Holds(q, s)
      BY <1>1, <2>1 DEF Closes
    <3>2. CASE Holds(r, s)
      <4>1. \A x \in Run : n <= x /\ x < r => ~Holds(x, s)
        <5>1. ASSUME NEW x \in Run, n <= x, x < r PROVE x >= n /\ x # r
          BY <5>1 DEF Run
        <5>2. QED BY <3>1, <5>1
      <4>2. r >= n BY DEF Run
      <4>3. QED BY <1>3, <3>1, <3>2, <4>1, <4>2 DEF UndoneTo
    <3>3. CASE ~Holds(r, s)
      BY <3>1, <3>3 DEF UndoneTo
    <3>4. QED BY <3>2, <3>3
  <2>2. CASE \E q \in Run : /\ q >= n /\ Holds(q, s)' /\ item'[q][s].from = k
                            /\ \A x \in Run : n <= x /\ x < q => ~Holds(x, s)'
    <3>1. PICK q \in Run : /\ q >= n /\ Holds(q, s)' /\ item'[q][s].from = k
                           /\ \A x \in Run : n <= x /\ x < q => ~Holds(x, s)'
      BY <2>2
    <3>2. q < r /\ Holds(q, s) /\ item[q][s].from = k
      BY <1>1, <1>2, <3>1 DEF Closes
    <3>3. \A x \in Run : n <= x /\ x < q => ~Holds(x, s)
      <4>1. ASSUME NEW x \in Run, x < q PROVE x # r BY <3>2, <4>1 DEF Run
      <4>2. QED BY <1>1, <3>1, <4>1
    <3>4. QED BY <3>1, <3>2, <3>3 DEF UndoneTo
  <2>3. QED BY <1>4, <2>1, <2>2 DEF UndoneTo
<1>5. \A k : \A q \in Run : HoldsRow(q, s, k)' <=> q # r /\ HoldsRow(q, s, k)
  BY <1>1 DEF HoldsRow, Closes
<1>6. ASSUME NEW k, NEW row, RowOf(n, s, k, row)' PROVE RowOf(n, s, k, row)
  <2>1. CASE log'[s][k] = row /\ \A q \in Run : q >= n => ~HoldsRow(q, s, k)'
    <3>1. log[s][k] = row /\ \A q \in Run : q >= n /\ q # r => ~HoldsRow(q, s, k)
      BY <1>5, <2>1 DEF Closes
    <3>2. CASE HoldsRow(r, s, k)
      <4>1. \A x \in Run : n <= x /\ x < r => ~HoldsRow(x, s, k)
        <5>1. ASSUME NEW x \in Run, n <= x, x < r PROVE x >= n /\ x # r
          BY <5>1 DEF Run
        <5>2. QED BY <3>1, <5>1
      <4>2. r >= n BY DEF Run
      <4>3. item[r][s].row = row BY <1>3, <3>1, <3>2 DEF HoldsRow
      <4>4. QED BY <3>2, <4>1, <4>2, <4>3 DEF RowOf
    <3>3. CASE ~HoldsRow(r, s, k)
      BY <3>1, <3>3 DEF RowOf
    <3>4. QED BY <3>2, <3>3
  <2>2. CASE \E q \in Run : /\ q >= n /\ HoldsRow(q, s, k)' /\ item'[q][s].row = row
                            /\ \A x \in Run : n <= x /\ x < q => ~HoldsRow(x, s, k)'
    <3>1. PICK q \in Run : /\ q >= n /\ HoldsRow(q, s, k)' /\ item'[q][s].row = row
                           /\ \A x \in Run : n <= x /\ x < q => ~HoldsRow(x, s, k)'
      BY <2>2
    <3>2. q < r /\ HoldsRow(q, s, k) /\ item[q][s].row = row
      BY <1>2, <1>5, <3>1 DEF Closes, HoldsRow
    <3>3. \A x \in Run : n <= x /\ x < q => ~HoldsRow(x, s, k)
      <4>1. ASSUME NEW x \in Run, x < q PROVE x # r BY <3>2, <4>1 DEF Run
      <4>2. QED BY <1>5, <3>1, <4>1
    <3>4. QED BY <3>1, <3>2, <3>3 DEF RowOf
  <2>3. QED BY <1>6, <2>1, <2>2 DEF RowOf
<1>7. QED BY <1>4, <1>6

LEMMA CloseStacked ==
  ASSUME Stacked, NEW r \in Run, IsLast(r), Closes(r)
  PROVE  Stacked'
<1>1. ASSUME NEW q \in Run, NEW s \in Student, NEW k \in Sem
      PROVE  /\ Holds(q, s)' /\ UndoneTo(q + 1, s, k)'
                    => k \in {item'[q][s].from, item'[q][s].from + 1}
             /\ \A row \in Row : HoldsRow(q, s, k)' /\ RowOf(q + 1, s, k, row)'
                    => Clean(q, s, row)'
  <2>1. /\ Holds(q, s)' => q # r /\ Holds(q, s)
        /\ HoldsRow(q, s, k)' => q # r /\ HoldsRow(q, s, k)
        /\ item'[q][s] = item[q][s]
    BY DEF Closes, HoldsRow, Holds, Undoable, Unfinished, Journalled, Verdicts
  <2>2. CASE q < r
    <3>1. q + 1 <= r BY <2>2 DEF Run
    <3>2. QED BY <2>1, <3>1, CloseUndone DEF Stacked, Clean
  <2>3. CASE q = r
    BY <2>1, <2>3
  <2>4. CASE q > r
    BY <2>1, <2>4, LastHolds DEF HoldsRow
  <2>5. q < r \/ q = r \/ q > r BY DEF Run
  <2>6. QED BY <2>2, <2>3, <2>4, <2>5
<1>2. QED BY <1>1 DEF Stacked

-----------------------------------------------------------------------------
(***************************************************************************)
(* The steps of the threads.                                               *)
(***************************************************************************)

\* p steps, and nobody else is at work.
Alone(p) == \A q \in Thread \ {p} : proc'[q] = proc[q] /\ proc[q].pc = "idle"

LEMMA AtWork ==
  ASSUME Exclusion, NEW p \in Thread, proc[p].pc # "idle",
         \A q \in Thread \ {p} : proc'[q] = proc[q]
  PROVE  Alone(p)
BY DEF Alone, Exclusion, OneAtATime

LEMMA AloneUndoing ==
  ASSUME NEW p \in Thread, Alone(p), LastAt(proc[p])', BackAt(proc[p])'
  PROVE  \A q \in Thread : LastAt(proc[q])' /\ BackAt(proc[q])'
<1>1. ASSUME NEW q \in Thread \ {p} PROVE LastAt(proc[q])' /\ BackAt(proc[q])'
  <2>1. proc'[q].pc = "idle" BY DEF Alone
  <2>2. QED BY <2>1 DEF LastAt, BackAt, AtRun, Applying, Restoring, OnStudent
<1>2. QED BY <1>1

\* A step that changes local variables only.
LEMMA LocalUndoing ==
  ASSUME Undoing, NEW p \in Thread, Alone(p), UNCHANGED <<sem, due, log, run, item>>,
         LastAt(proc[p])', BackAt(proc[p])'
  PROVE  Undoing'
<1>1. SameHeld BY DEF SameHeld, Holds, Undoable, Unfinished, Journalled
<1>2. Stacked' BY <1>1, SameStacked DEF Undoing
<1>3. InOrder' /\ Untouched' BY DEF Undoing, InOrder, Untouched, Undoable, Unfinished
<1>4. QED BY <1>2, <1>3, AloneUndoing DEF Undoing

\* A step that changes requests and the status of a run besides, and neither
\* ends a run nor touches a student.
LEMMA StatusUndoing ==
  ASSUME Undoing, NEW p \in Thread, Alone(p), UNCHANGED <<sem, log, item>>,
         \A s \in Student : due'[s].after = {},
         \A r \in Run : /\ Undoable(r)' <=> Undoable(r)
                        /\ Unfinished(r)' => Unfinished(r)
                        /\ run'[r] = "none" <=> run[r] = "none",
         LastAt(proc[p])', BackAt(proc[p])'
  PROVE  Undoing'
<1>1. SameHeld BY DEF SameHeld, Holds, Journalled
<1>2. Stacked' BY <1>1, SameStacked DEF Undoing
<1>3. InOrder' /\ Untouched' BY DEF Undoing, InOrder, Untouched
<1>4. QED BY <1>2, <1>3, AloneUndoing DEF Undoing

LEMMA SameLast ==
  ASSUME run' = run, NEW r
  PROVE  IsLast(r)' <=> IsLast(r)
BY DEF IsLast, Unfinished

\* Calls begin and end.
Edge(p) == StartPromotion(p) \/ StartUndo(p) \/ StartRecovery(p) \/ Release(p) \/ Crash(p) \/ Refuse(p)

LEMMA AtEdge ==
  ASSUME Sound, Exclusion, NEW p \in Thread, Edge(p)
  PROVE  /\ Alone(p) /\ UNCHANGED <<txn, sem, due, log, run, item>>
         /\ proc'[p].pc \in {"recover", "undo_check", "idle", "release"}
<1>1. proc \in [Thread -> Local] BY DEF Sound, TypeOK
<1>2. UNCHANGED <<txn, sem, due, log, run, item>>
  BY DEF Edge, StartPromotion, StartUndo, StartRecovery, Acquire, Release, Crash, Refuse
<1>3. CASE StartPromotion(p) \/ StartUndo(p) \/ StartRecovery(p)
  <2>1. /\ proc'[p].pc \in {"recover", "undo_check"} /\ lock # "held"
        /\ \A q \in Thread \ {p} : proc'[q] = proc[q]
    BY <1>1, <1>3 DEF StartPromotion, StartUndo, StartRecovery, Acquire, Local
  <2>2. QED BY <1>2, <2>1 DEF Exclusion, Covered, Alone
<1>4. CASE Release(p) \/ Crash(p) \/ Refuse(p)
  <2>1. proc[p].pc # "idle" BY <1>4 DEF Release, Crash, Refuse
  <2>2. proc'[p].pc \in {"idle", "release"} /\ \A q \in Thread \ {p} : proc'[q] = proc[q]
    <3>1. CASE Release(p) \/ Crash(p) BY <1>1, <3>1 DEF Release, Crash, Idle
    <3>2. CASE Refuse(p) BY <1>1, <3>2 DEF Refuse, Goto, Local
    <3>3. QED BY <1>4, <3>1, <3>2
  <2>3. QED BY <1>2, <2>1, <2>2, AtWork
<1>5. QED BY <1>3, <1>4 DEF Edge

LEMMA EdgeUndoing ==
  ASSUME Sound, Exclusion, Undoing, NEW p \in Thread, Edge(p)
  PROVE  Undoing'
<1>1. LastAt(proc[p])' /\ BackAt(proc[p])'
  BY AtEdge DEF LastAt, BackAt, AtRun, Applying, Restoring, OnStudent
<1>2. QED BY <1>1, AtEdge, LocalUndoing

\* A run begins, above all others.
LEMMA BeginUndoing ==
  ASSUME Sound, Exclusion, Tracked, Undoing, NEW p \in Thread, Begin(p)
  PROVE  Undoing'
<1>1. PICK from \in 0..7, d \in Dept \cup {AllDepts}, r \in Run : Begin(p)!(from, d, r)
  BY DEF Begin
<1> DEFINE S == Moving(from, d)
           l == [Idle EXCEPT !.pc = "journal", !.run = r, !.seen = sem, !.left = S,
                             !.sems = {sem[s] : s \in S}, !.mixed = MixedClasses(sem)]
<1>2. proc' = [proc EXCEPT ![p] = l] BY <1>1, Zenon
<1>3. l.pc = "journal" /\ l.run = r BY DEF Idle
<1> HIDE DEF l
<1>4. proc'[p] = l /\ \A q \in Thread \ {p} : proc'[q] = proc[q] BY <1>2 DEF Sound, TypeOK
<1>5. Alone(p) BY <1>1, <1>4, AtWork
<1>6. /\ run[r] = "none" /\ \A q \in Run : run[q] = "none" => r <= q
      /\ run'[r] = "in_progress" /\ \A q \in Run \ {r} : run'[q] = run[q]
      /\ UNCHANGED <<sem, due, log, item>>
  BY <1>1 DEF Sound, TypeOK
<1>7. \A q \in Run : ~Unfinished(q) BY <1>1 DEF Undoing, LastAt
<1>8. \A q \in Run : q > r => run[q] = "none" BY <1>6 DEF Undoing, InOrder
<1>9. \A q \in Run : Undoable(q)' <=> q = r \/ Undoable(q)
  BY <1>6 DEF Undoable, Unfinished
<1>10. \A q \in Run : Undoable(q)' => q <= r
  <2>1. ASSUME NEW q \in Run, Undoable(q)', q # r PROVE q <= r
    <3>1. run[q] # "none" BY <1>9, <2>1 DEF Undoable, Unfinished
    <3>2. ~(q > r) BY <1>8, <3>1
    <3>3. QED BY <3>2 DEF Run
  <2>2. QED BY <2>1 DEF Run
<1>11. IsLast(r)' BY <1>9, <1>10 DEF IsLast, Undoable, Unfinished
<1>12. InOrder'
  <2>1. ASSUME NEW x \in Run, NEW q \in Run, run'[x] = "none", q > x PROVE run'[q] = "none"
    <3>1. x # r /\ run[x] = "none" BY <1>6, <2>1
    <3>2. r <= x BY <1>6, <3>1
    <3>3. q > r BY <2>1, <3>2 DEF Run
    <3>4. QED BY <1>6, <1>8, <3>3 DEF Run
  <2>2. ASSUME NEW q \in Run, NEW x \in Run, Unfinished(q)', Undoable(x)' PROVE x <= q
    <3>1. q = r BY <1>6, <1>7, <2>2 DEF Unfinished
    <3>2. QED BY <1>10, <2>2, <3>1
  <2>3. QED BY <2>1, <2>2 DEF InOrder
<1>13. Journalled(r) = {} BY <1>6 DEF Tracked, Unwritten
<1>14. SameHeld
  BY <1>6, <1>9, <1>13 DEF SameHeld, Holds, Journalled
<1>15. Stacked' BY <1>6, <1>14, SameStacked DEF Undoing
<1>16. Untouched' BY <1>6 DEF Undoing, Untouched
<1>17. LastAt(proc[p])' BY <1>3, <1>4, <1>11 DEF LastAt
<1>18. BackAt(proc[p])'
  BY <1>3, <1>4, <1>6, <1>13 DEF BackAt, Journalled, Applying, Restoring, OnStudent
<1>19. QED BY <1>5, <1>12, <1>15, <1>16, <1>17, <1>18, AloneUndoing DEF Undoing

\* A student is journalled.
LEMMA Journalling ==
  ASSUME Sound, Exclusion, Tracked, Undoing, NEW p \in Thread, Journal(p)
  PROVE  /\ proc[p].run \in Run /\ IsLast(proc[p].run) /\ run[proc[p].run] = "in_progress"
         /\ \E s \in Student : Journals(proc[p].run, s) /\ item'[proc[p].run][s].due = due[s]
         /\ \A s \in Journalled(proc[p].run) : Back(proc[p].run, s)
         /\ UNCHANGED <<txn, sem, due, log, run>>
         /\ Alone(p) /\ proc'[p].pc = "journal" /\ proc'[p].run = proc[p].run
<1>1. PICK s \in proc[p].left : Journal(p)!(s) BY DEF Journal
<1> DEFINE r == proc[p].run
           k == proc[p].seen[s]
           entry == [from |-> k, due |-> due[s], row |-> log[s][k]]
<1>2. /\ proc[p] \in Local /\ Fits(proc[p]) /\ Underway(proc[p]) /\ proc[p].pc = "journal"
      /\ LastAt(proc[p]) /\ BackAt(proc[p])
  BY <1>1 DEF Sound, TypeOK, Tracked, Undoing
<1>3. /\ r \in Run /\ s \in Student /\ sem = proc[p].seen /\ sem[s] \in Promotable
      /\ run[r] = "in_progress"
  BY <1>2 DEF Fits, AtRun, Local, Underway
<1>4. item' = [item EXCEPT ![r][s] = entry] BY <1>1, Zenon
<1>5. entry.from = sem[s] /\ entry.due = due[s] /\ entry.row = log[s][sem[s]] BY <1>3
<1>6. entry # NoItem
  <2>1. entry.from # NoItem.from BY <1>3, <1>5 DEF NoItem, Promotable
  <2>2. QED BY <2>1
<1> HIDE DEF entry
<1>7. \A q \in Run : \A t \in Student : item'[q][t] = IF q = r /\ t = s THEN entry ELSE item[q][t]
  BY <1>3, <1>4 DEF Sound, TypeOK
<1>8. /\ proc'[p].pc = "journal" /\ proc'[p].run = r
      /\ \A q \in Thread \ {p} : proc'[q] = proc[q]
  BY <1>1, <1>2 DEF Sound, TypeOK, Local
<1>9. Alone(p) BY <1>2, <1>8, AtWork
<1>10. IsLast(r) /\ \A t \in Journalled(r) : Back(r, t)
  BY <1>2 DEF LastAt, BackAt, AtRun
<1>11. UNCHANGED <<txn, sem, due, log, run>> BY <1>1
<1>12. Journals(r, s) /\ item'[r][s].due = due[s]
  BY <1>3, <1>5, <1>6, <1>7, <1>10, <1>11 DEF Journals
<1>13. QED BY <1>3, <1>8, <1>9, <1>10, <1>11, <1>12

LEMMA JournalUndoing ==
  ASSUME Sound, Exclusion, Tracked, Undoing, NEW p \in Thread, Journal(p)
  PROVE  Undoing'
<1> DEFINE r == proc[p].run
<1>1. PICK s \in Student : Journals(r, s) /\ item'[r][s].due = due[s] BY Journalling
<1>2. r \in Run /\ IsLast(r) /\ UNCHANGED <<txn, sem, due, log, run>> BY Journalling
<1>3. Stacked' BY <1>1, <1>2, JournalStacked DEF Undoing
<1>4. InOrder' BY <1>2 DEF Undoing, InOrder, Undoable, Unfinished
<1>5. Untouched'
  BY <1>1, <1>2 DEF Undoing, Untouched, Journals
<1>6. LastAt(proc[p])' BY <1>2, Journalling, SameLast DEF LastAt
<1>7. \A t \in Student : item'[r][t] # NoItem =>
            /\ sem[t] = item'[r][t].from /\ due[t] = item'[r][t].due
            /\ log[t][item'[r][t].from] = item'[r][t].row
  <2>1. \A t \in Journalled(r) : Back(r, t) BY Journalling
  <2>2. ASSUME NEW t \in Student, t # s, item'[r][t] # NoItem
        PROVE  /\ sem[t] = item'[r][t].from /\ due[t] = item'[r][t].due
               /\ log[t][item'[r][t].from] = item'[r][t].row
    <3>1. item'[r][t] = item[r][t] BY <1>1, <1>2, <2>2 DEF Journals
    <3>2. Back(r, t) BY <2>1, <2>2, <3>1 DEF Journalled
    <3>3. QED BY <3>1, <3>2 DEF Back
  <2>3. QED BY <1>1, <2>2 DEF Journals
<1>8. BackAt(proc[p])'
  BY <1>2, <1>7, Journalling DEF BackAt, Back, Journalled, Applying, Restoring, OnStudent
<1>9. QED BY <1>3, <1>4, <1>5, <1>6, <1>8, Journalling, AloneUndoing DEF Undoing

\* Steps of run_promotion that change local variables only.
LEMMA PlainUndoing ==
  ASSUME Sound, Exclusion, Undoing, NEW p \in Thread,
         StartApply(p) \/ Extend(p) \/ Verify(p) \/ ApplyFails(p) \/ RunFails(p)
  PROVE  Undoing'
<1>1. /\ proc \in [Thread -> Local] /\ proc[p] \in Local /\ Fits(proc[p])
      /\ LastAt(proc[p]) /\ BackAt(proc[p])
  BY DEF Sound, TypeOK, Undoing
<1>2. /\ proc[p].pc \in {"journal", "complete", "verify"} \cup Applying
      /\ UNCHANGED <<txn, sem, due, log, run, item>>
  BY DEF StartApply, Extend, Verify, ApplyFails, RunFails, Applying
<1>3. IsLast(proc[p].run) BY <1>1, <1>2 DEF LastAt, AtRun
<1>4. ASSUME \A q \in Thread \ {p} : proc'[q] = proc[q],
             proc'[p].run = proc[p].run, proc'[p].pc # "check", BackAt(proc[p])'
      PROVE  Undoing'
  <2>1. Alone(p) BY <1>2, <1>4, AtWork DEF Applying
  <2>2. LastAt(proc[p])' BY <1>2, <1>3, <1>4, SameLast DEF LastAt
  <2>3. QED BY <1>2, <1>4, <2>1, <2>2, LocalUndoing
<1>5. CASE StartApply(p)
  <2>1. /\ proc'[p].pc = "extend" /\ proc'[p].run = proc[p].run
        /\ \A q \in Thread \ {p} : proc'[q] = proc[q]
    BY <1>1, <1>5 DEF StartApply, Goto, Local
  <2>2. \A s \in Journalled(proc[p].run) : Back(proc[p].run, s)
    BY <1>1, <1>5 DEF StartApply, BackAt
  <2>3. BackAt(proc[p])'
    BY <1>2, <2>1, <2>2 DEF BackAt, Back, Journalled, Restoring, OnStudent
  <2>4. QED BY <1>4, <2>1, <2>3
<1>6. CASE Extend(p)
  <2>1. /\ proc'[p].pc = "history" /\ proc'[p].run = proc[p].run
        /\ \A q \in Thread \ {p} : proc'[q] = proc[q]
    BY <1>1, <1>6 DEF Extend, Local
  <2>2. ~txn' BY <1>6 DEF Extend
  <2>3. BackAt(proc[p])' BY <2>1, <2>2 DEF BackAt, OnStudent
  <2>4. QED BY <1>4, <2>1, <2>3
<1>7. CASE Verify(p) /\ Goto(p, "release")
  <2>1. /\ proc'[p].pc = "release" /\ proc'[p].run = proc[p].run
        /\ \A q \in Thread \ {p} : proc'[q] = proc[q]
    BY <1>1, <1>7 DEF Goto, Local
  <2>2. BackAt(proc[p])' BY <2>1 DEF BackAt, OnStudent
  <2>3. QED BY <1>4, <2>1, <2>2
<1>8. CASE Verify(p) /\ ~Goto(p, "release")
  <2>1. /\ proc'[p].pc = "restore" /\ proc'[p].run = proc[p].run
        /\ proc'[p].left = Journalled(proc[p].run)
        /\ \A q \in Thread \ {p} : proc'[q] = proc[q]
    BY <1>1, <1>8 DEF Verify, Local
  <2>2. BackAt(proc[p])' BY <1>2, <2>1 DEF BackAt, OnStudent, Journalled
  <2>3. QED BY <1>4, <2>1, <2>2
<1>9. CASE ApplyFails(p)
  <2>1. /\ proc'[p].pc = IF txn THEN "mark" ELSE "restore"
        /\ proc'[p].run = proc[p].run
        /\ proc'[p].left = IF txn THEN {} ELSE Journalled(proc[p].run)
        /\ \A q \in Thread \ {p} : proc'[q] = proc[q]
    BY <1>1, <1>9 DEF ApplyFails, Local
  <2>2. CASE txn
    <3>1. proc[p].pc = "extend" BY <1>1, <1>9, <2>2 DEF ApplyFails, Applying, BackAt
    <3>2. \A s \in Journalled(proc[p].run) : Back(proc[p].run, s)
      BY <1>1, <2>2, <3>1 DEF BackAt
    <3>3. proc'[p].pc = "mark" BY <2>1, <2>2
    <3>4. BackAt(proc[p])'
      BY <1>2, <2>1, <3>2, <3>3 DEF BackAt, Back, Journalled, OnStudent
    <3>5. QED BY <1>4, <2>1, <3>3, <3>4
  <2>3. CASE ~txn
    <3>1. proc'[p].pc = "restore" /\ proc'[p].left = Journalled(proc[p].run)
      BY <2>1, <2>3
    <3>2. BackAt(proc[p])' BY <1>2, <2>1, <3>1 DEF BackAt, OnStudent, Journalled
    <3>3. QED BY <1>4, <2>1, <3>1, <3>2
  <2>4. QED BY <2>2, <2>3
<1>10. CASE RunFails(p)
  <2>1. /\ proc'[p].pc = "interrupt" /\ proc'[p].run = proc[p].run
        /\ \A q \in Thread \ {p} : proc'[q] = proc[q]
    BY <1>1, <1>10 DEF RunFails, Goto, Local
  <2>2. BackAt(proc[p])' BY <2>1 DEF BackAt, OnStudent
  <2>3. QED BY <1>4, <2>1, <2>2
<1>11. QED BY <1>5, <1>6, <1>7, <1>8, <1>9, <1>10

\* The row that a run writes it can take back.
LEMMA WritesRow ==
  ASSUME Sound, NEW r \in Run, NEW s \in Journalled(r),
         Clean(r, s, log[s][item[r][s].from]), NEW k \in Sem
  PROVE  \/ WithHistory(r, s)[k] = log[s][k]
         \/ k = item[r][s].from /\ Clean(r, s, WithHistory(r, s)[k])
<1>1. s \in Student /\ item[r][s] \in Item BY EntryIsItem DEF Sound
<1>2. log[s] \in [Sem -> Row] BY <1>1 DEF Sound, TypeOK
<1> DEFINE j == item[r][s].from
           new == IF log[s][j] = NoRow
                  THEN [by |-> r, to |-> j + 1, cleared |-> item[r][s].due.status = "APPROVED"]
                  ELSE [log[s][j] EXCEPT !.to = j + 1]
<1>3. WithHistory(r, s) = [log[s] EXCEPT ![j] = new] BY DEF WithHistory
<1>4. log[s][j] = NoRow => new.by = r OBVIOUS
<1>5. log[s][j] # NoRow => new.by = log[s][j].by
  <2>1. log[s][j] \in Row BY <1>1, <1>2 DEF Item, Promotable, Sem
  <2>2. QED BY <2>1 DEF Row
<1>6. Clean(r, s, new)
  <2> HIDE DEF new
  <2>1. QED BY <1>4, <1>5 DEF Clean
<1> HIDE DEF new
<1>7. QED BY <1>2, <1>3, <1>6

\* The last run writes rows, resets requests, moves students.
LEMMA ApplyUndoing ==
  ASSUME Sound, Exclusion, Tracked, Undoing, NEW p \in Thread,
         WriteHistory(p) \/ ResetDues(p) \/ Move(p) \/ ApplyAtOnce(p)
  PROVE  Undoing'
<1> DEFINE r == proc[p].run
<1>1. /\ proc \in [Thread -> Local] /\ proc[p] \in Local /\ Fits(proc[p])
      /\ LastAt(proc[p]) /\ BackAt(proc[p]) /\ proc[p].pc \in Applying
  BY DEF Sound, TypeOK, Undoing, WriteHistory, ResetDues, Move, ApplyAtOnce, Applying
<1>2. r \in Run /\ IsLast(r) BY <1>1 DEF Fits, LastAt, AtRun
<1>3. UNCHANGED <<txn, run, item>>
  BY DEF WriteHistory, ResetDues, Move, ApplyAtOnce
<1>4. \A s \in Journalled(r) : /\ s \in Student
                               /\ sem[s] \in {item[r][s].from, item[r][s].from + 1}
                               /\ Clean(r, s, log[s][item[r][s].from])
  BY <1>2, LastFinds DEF Undoing
<1>5. /\ proc'[p].run = r /\ \A q \in Thread \ {p} : proc'[q] = proc[q]
      /\ \/ proc'[p].pc \in {"history", "move", "extend"} /\ ~txn
         \/ proc'[p].pc = "complete"
  <2>1. CASE WriteHistory(p)
    BY <1>1, <2>1 DEF WriteHistory, BackAt, Local
  <2>2. CASE ResetDues(p)
    BY <1>1, <2>2 DEF ResetDues, Goto, BackAt, Local
  <2>3. CASE Move(p)
    BY <1>1, <2>3 DEF Move, BackAt, Local
  <2>4. CASE ApplyAtOnce(p)
    BY <1>1, <2>4 DEF ApplyAtOnce, Goto, Local
  <2>5. QED BY <2>1, <2>2, <2>3, <2>4
<1>6. \A s \in Student : due'[s].after = {}
  <2>1. \A s \in Student : due[s] \in Due /\ due[s].after = {}
    BY DEF Sound, TypeOK, Undoing, Untouched
  <2>2. ASSUME NEW S, due' = Reset(S) PROVE \A s \in Student : due'[s].after = {}
    BY <2>1, <2>2 DEF Reset, Fresh, Due
  <2>3. QED BY <2>1, <2>2 DEF WriteHistory, ResetDues, Move, ApplyAtOnce
<1>7. \A s \in Student : \/ sem'[s] = sem[s]
                         \/ /\ s \in Journalled(r)
                            /\ sem'[s] \in {item[r][s].from, item[r][s].from + 1}
  <2>1. CASE Move(p)
    BY <2>1 DEF Move, MovedUp, Batch
  <2>2. CASE ApplyAtOnce(p)
    BY <2>2 DEF ApplyAtOnce, MovedUp
  <2>3. CASE WriteHistory(p) \/ ResetDues(p)
    BY <2>3 DEF WriteHistory, ResetDues
  <2>4. QED BY <2>1, <2>2, <2>3
<1>8. \A s \in Student : \A k \in Sem :
            \/ log'[s][k] = log[s][k]
            \/ s \in Journalled(r) /\ k = item[r][s].from /\ Clean(r, s, log'[s][k])
  <2>1. ASSUME NEW s \in Student, NEW k \in Sem, s \in Journalled(r),
               log'[s] = WithHistory(r, s)
        PROVE  \/ log'[s][k] = log[s][k]
               \/ k = item[r][s].from /\ Clean(r, s, log'[s][k])
    BY <1>2, <1>4, <2>1, WritesRow
  <2>2. \A s \in Student : log'[s] = log[s] \/ (s \in Journalled(r) /\ log'[s] = WithHistory(r, s))
    <3>1. CASE WriteHistory(p)
      <4>1. PICK s \in proc[p].left : WriteHistory(p)!(s) BY <3>1 DEF WriteHistory
      <4>2. s \in Journalled(r) BY <1>1, <4>1 DEF Fits
      <4>3. log' = [log EXCEPT ![s] = WithHistory(r, s)] BY <4>1
      <4>4. QED BY <4>2, <4>3 DEF Sound, TypeOK
    <3>2. CASE ApplyAtOnce(p) BY <3>2 DEF ApplyAtOnce
    <3>3. CASE Move(p) \/ ResetDues(p) BY <3>3 DEF Move, ResetDues
    <3>4. QED BY <3>1, <3>2, <3>3
  <2>3. QED BY <2>1, <2>2
<1>9. Works(r) BY <1>3, <1>7, <1>8 DEF Works
<1>10. Stacked' BY <1>2, <1>9, WorkStacked DEF Undoing
<1>11. InOrder' /\ Untouched'
  BY <1>3, <1>6 DEF Undoing, InOrder, Untouched, Undoable, Unfinished
<1>12. LastAt(proc[p])' BY <1>2, <1>3, <1>5, SameLast DEF LastAt
<1>13. BackAt(proc[p])' BY <1>3, <1>5 DEF BackAt, OnStudent
<1>14. Alone(p) BY <1>1, <1>5, AtWork DEF Applying
<1>15. QED BY <1>10, <1>11, <1>12, <1>13, <1>14, AloneUndoing DEF Undoing

\* The run is completed, or interrupted.
LEMMA CompleteUndoing ==
  ASSUME Sound, Exclusion, Tracked, Undoing, NEW p \in Thread, Complete(p) \/ Interrupt(p)
  PROVE  Undoing'
<1> DEFINE r == proc[p].run
<1>1. /\ proc \in [Thread -> Local] /\ proc[p] \in Local /\ Fits(proc[p])
      /\ LastAt(proc[p]) /\ Underway(proc[p]) /\ proc[p].pc \in {"complete", "interrupt"}
  BY DEF Sound, TypeOK, Undoing, Tracked, Complete, Interrupt
<1>2. r \in Run /\ IsLast(r) BY <1>1 DEF Fits, LastAt, AtRun
<1>3. UNCHANGED <<sem, log, item>> BY DEF Complete, Interrupt
<1>4. /\ \A q \in Run \ {r} : run'[q] = run[q]
      /\ \/ run'[r] = run[r]
         \/ run[r] = "in_progress" /\ run'[r] \in {"completed", "interrupted"}
  <2>1. CASE Complete(p) BY <1>1, <1>2, <2>1 DEF Complete, Underway, Sound, TypeOK
  <2>2. CASE Interrupt(p) BY <1>2, <2>2 DEF Interrupt, Sound, TypeOK
  <2>3. QED BY <2>1, <2>2
<1>5. \A q \in Run : /\ Undoable(q)' <=> Undoable(q)
                     /\ Unfinished(q)' => Unfinished(q)
                     /\ run'[q] = "none" <=> run[q] = "none"
  BY <1>4 DEF Undoable, Unfinished
<1>6. \A s \in Student : due'[s].after = {}
  <2>1. \A s \in Student : due[s] \in Due /\ due[s].after = {}
    BY DEF Sound, TypeOK, Undoing, Untouched
  <2>2. QED BY <2>1 DEF Complete, Interrupt, Due
<1>7. /\ proc'[p].pc \in {"verify", "recover"} /\ proc'[p].run = r
      /\ \A q \in Thread \ {p} : proc'[q] = proc[q]
  BY <1>1 DEF Complete, Interrupt, Goto, Local
<1>8. \A q \in Run : IsLast(q) => IsLast(q)' BY <1>5 DEF IsLast, Undoable
<1>9. LastAt(proc[p])' BY <1>2, <1>7, <1>8 DEF LastAt
<1>10. BackAt(proc[p])' BY <1>7 DEF BackAt, OnStudent
<1>11. Alone(p) BY <1>1, <1>7, AtWork
<1>12. QED BY <1>3, <1>5, <1>6, <1>9, <1>10, <1>11, StatusUndoing

\* The run to undo or to recover is the last one.
LEMMA FindUndoing ==
  ASSUME Sound, Exclusion, Undoing, NEW p \in Thread, UndoCheck(p) \/ Recover(p)
  PROVE  Undoing'
<1>1. /\ proc \in [Thread -> Local] /\ UNCHANGED <<txn, sem, due, log, run, item>>
      /\ proc[p].pc # "idle"
  BY DEF Sound, TypeOK, UndoCheck, Recover
<1>2. ASSUME NEW r \in Run, IsLast(r), NEW verdict,
             proc' = [proc EXCEPT ![p].pc = "restore", ![p].run = r,
                                  ![p].verdict = verdict, ![p].left = Journalled(r)]
      PROVE  Undoing'
  <2>1. /\ proc'[p].pc = "restore" /\ proc'[p].run = r /\ proc'[p].left = Journalled(r)
        /\ \A q \in Thread \ {p} : proc'[q] = proc[q]
    BY <1>1, <1>2 DEF Local
  <2>2. LastAt(proc[p])' BY <1>1, <1>2, <2>1, SameLast DEF LastAt
  <2>3. BackAt(proc[p])' BY <1>1, <2>1 DEF BackAt, OnStudent, Journalled
  <2>4. QED BY <1>1, <2>1, <2>2, <2>3, AtWork, LocalUndoing
<1>3. CASE UndoCheck(p)
  <2>1. PICK r \in Run : UndoCheck(p)!(r) BY <1>3 DEF UndoCheck
  <2>2. QED BY <1>2, <2>1
<1>4. CASE Recover(p) /\ \A q \in Run : ~Unfinished(q)
  <2>1. Goto(p, proc[p].then) BY <1>4 DEF Recover
  <2>2. proc'[p].pc \in {"check", "release"} /\ \A q \in Thread \ {p} : proc'[q] = proc[q]
    BY <1>1, <2>1 DEF Goto, Local
  <2>3. LastAt(proc[p])' BY <1>1, <1>4, <2>2 DEF LastAt, AtRun, Applying, Restoring, Unfinished
  <2>4. BackAt(proc[p])' BY <2>2 DEF BackAt, OnStudent
  <2>5. QED BY <1>1, <2>2, <2>3, <2>4, AtWork, LocalUndoing
<1>5. CASE Recover(p) /\ ~(\A q \in Run : ~Unfinished(q))
  <2>1. PICK r \in Run :
          /\ Unfinished(r)
          /\ proc' = [proc EXCEPT ![p].pc = "restore", ![p].run = r,
                                  ![p].verdict = "auto_recovered", ![p].left = Journalled(r)]
    BY <1>5 DEF Recover
  <2>2. IsLast(r) BY <2>1 DEF Undoing, InOrder, IsLast, Undoable, Unfinished
  <2>3. QED BY <1>2, <2>1, <2>2
<1>6. QED BY <1>3, <1>4, <1>5

\* What a thread that restores knows: it is at the last run, whose students it
\* may restore.
Knows(l) ==
    /\ l \in Local /\ LastAt(l) /\ BackAt(l)
    /\ l.run \in Run /\ IsLast(l.run)
    /\ l.left \subseteq Journalled(l.run)
    /\ l.pc \in OnStudent => l.cur \in Journalled(l.run)
    /\ \A s \in Journalled(l.run) :
            /\ s \in Student /\ item[l.run][s] \in Item
            /\ sem[s] \in {item[l.run][s].from, item[l.run][s].from + 1}
            /\ Clean(l.run, s, log[s][item[l.run][s].from])

LEMMA AtRestoring ==
  ASSUME Sound, Undoing, NEW p \in Thread, proc[p].pc \in Restoring
  PROVE  proc \in [Thread -> Local] /\ Knows(proc[p])
<1>1. /\ proc \in [Thread -> Local] /\ proc[p] \in Local
      /\ LastAt(proc[p]) /\ BackAt(proc[p]) /\ Fits(proc[p])
  BY DEF Sound, TypeOK, Undoing
<1>2. proc[p].run \in Run /\ IsLast(proc[p].run) BY <1>1 DEF Fits, LastAt, AtRun
<1>3. /\ proc[p].left \subseteq Journalled(proc[p].run)
      /\ proc[p].pc \in OnStudent => proc[p].cur \in Journalled(proc[p].run)
  BY <1>1 DEF Fits
<1>4. \A s \in Journalled(proc[p].run) :
            /\ s \in Student /\ item[proc[p].run][s] \in Item
            /\ sem[s] \in {item[proc[p].run][s].from, item[proc[p].run][s].from + 1}
            /\ Clean(proc[p].run, s, log[s][item[proc[p].run][s].from])
  BY <1>2, LastFinds DEF Undoing
<1>5. QED BY <1>1, <1>2, <1>3, <1>4 DEF Knows

\* A student goes back: the last run may restore every student it has.
LEMMA RestoreStudentUndoing ==
  ASSUME Sound, Exclusion, Undoing, NEW p \in Thread, RestoreStudent(p)
  PROVE  Undoing'
<1> DEFINE r == proc[p].run
<1>1. proc[p].pc = "restore" /\ ~txn BY DEF RestoreStudent
<1>2. proc \in [Thread -> Local] /\ Knows(proc[p]) BY <1>1, AtRestoring DEF Restoring
<1>3. PICK s \in proc[p].left : RestoreStudent(p)!1!(s) BY DEF RestoreStudent
<1>4. s \in Journalled(r) /\ MayRestore(r, s, proc[p].verdict) BY <1>2 DEF Knows, MayRestore
<1>5. /\ sem' = [sem EXCEPT ![s] = item[r][s].from]
      /\ proc' = [proc EXCEPT ![p].pc = "delete", ![p].cur = s, ![p].left = @ \ {s}]
  BY <1>3, <1>4
<1>6. /\ proc'[p].pc = "delete" /\ proc'[p].run = r /\ proc'[p].cur = s
      /\ proc'[p].left = proc[p].left \ {s}
      /\ \A q \in Thread \ {p} : proc'[q] = proc[q]
  BY <1>2, <1>5 DEF Knows, Local
<1>7. \A t \in Student : sem'[t] = IF t = s THEN item[r][s].from ELSE sem[t]
  BY <1>5 DEF Sound, TypeOK
<1>8. UNCHANGED <<txn, due, log, run, item>> BY <1>3
<1>9. Works(r) BY <1>4, <1>7, <1>8 DEF Works
<1>10. Stacked' BY <1>2, <1>9, WorkStacked DEF Knows, Undoing
<1>11. InOrder' /\ Untouched'
  BY <1>8 DEF Undoing, InOrder, Untouched, Undoable, Unfinished
<1>12. LastAt(proc[p])' BY <1>2, <1>6, <1>8, SameLast DEF Knows, LastAt
<1>13. \A t \in Journalled(r) \ proc[p].left : Back(r, t) BY <1>1, <1>2 DEF Knows, BackAt
<1>14. BackAt(proc[p])'
  <2>1. \A t \in Journalled(r) : t \notin proc'[p].left \cup {s} =>
            /\ sem'[t] = item[r][t].from /\ due[t] = item[r][t].due
            /\ log[t][item[r][t].from] = item[r][t].row
    BY <1>2, <1>6, <1>7, <1>13 DEF Knows, Back
  <2>2. s \in Student BY <1>2, <1>4 DEF Knows
  <2>3. QED BY <1>6, <1>7, <1>8, <2>1, <2>2 DEF BackAt, Back, Journalled, OnStudent
<1>15. QED BY <1>1, <1>6, <1>10, <1>11, <1>12, <1>14, AtWork, AloneUndoing DEF Undoing

\* The student's requests go, and come back from the journal.
LEMMA RestoreDuesUndoing ==
  ASSUME Sound, Exclusion, Undoing, NEW p \in Thread, DeleteDues(p) \/ InsertDues(p)
  PROVE  Undoing'
<1> DEFINE r == proc[p].run
           s == proc[p].cur
<1>1. proc[p].pc \in {"delete", "insert"} BY DEF DeleteDues, InsertDues
<1>2. proc \in [Thread -> Local] /\ Knows(proc[p]) BY <1>1, AtRestoring DEF Restoring
<1>3. /\ s \in Journalled(r) /\ s \in Student /\ item[r][s].due \in Due
      /\ item[r][s].due.after = {} /\ \A t \in Student : due[t].after = {}
  BY <1>1, <1>2 DEF Knows, OnStudent, Item, Undoing, Untouched
<1>4. /\ s \notin proc[p].left
      /\ \A t \in Journalled(r) \ (proc[p].left \cup {s}) : Back(r, t)
      /\ sem[s] = item[r][s].from
  BY <1>1, <1>2 DEF Knows, BackAt, OnStudent
<1>5. UNCHANGED <<txn, sem, log, run, item>> BY DEF DeleteDues, InsertDues
<1>6. ASSUME NEW new, new.after = {}, NEW pc \in {"insert", "relog"},
             due' = [due EXCEPT ![s] = new], Goto(p, pc),
             new = IF pc = "insert" THEN NoDue ELSE item[r][s].due
      PROVE  Undoing'
  <2>1. /\ proc'[p].pc = pc /\ proc'[p].run = r /\ proc'[p].cur = s
        /\ proc'[p].left = proc[p].left /\ \A q \in Thread \ {p} : proc'[q] = proc[q]
    BY <1>2, <1>6 DEF Knows, Goto, Local
  <2>2. \A t \in Student : due'[t] = IF t = s THEN new ELSE due[t]
    BY <1>6 DEF Sound, TypeOK
  <2>3. LastAt(proc[p])' BY <1>2, <1>5, <1>6, <2>1, SameLast DEF Knows, LastAt
  <2>4. \A t \in Journalled(r) : t \notin proc[p].left \cup {s} =>
            /\ sem[t] = item[r][t].from /\ due'[t] = item[r][t].due
            /\ log[t][item[r][t].from] = item[r][t].row
    BY <1>2, <1>4, <2>2 DEF Knows, Back
  <2>5. BackAt(proc[p])'
    <3>1. /\ proc'[p].pc = "insert" => due'[s] = NoDue
          /\ proc'[p].pc = "relog" => due'[s] = item[r][s].due
          /\ sem'[s] = item'[r][s].from
      BY <1>3, <1>4, <1>5, <1>6, <2>1, <2>2
    <3>2. /\ proc'[p].pc \in OnStudent
          /\ proc'[p].pc \notin {"history", "move", "journal", "extend", "mark", "restore"}
      BY <1>6, <2>1 DEF OnStudent
    <3>3. proc'[p].cur \notin proc'[p].left BY <1>4, <2>1
    <3>4. \A t \in Journalled(proc[p].run)' \ (proc'[p].left \cup {proc'[p].cur}) :
            /\ sem'[t] = item'[proc'[p].run][t].from /\ due'[t] = item'[proc'[p].run][t].due
            /\ log'[t][item'[proc'[p].run][t].from] = item'[proc'[p].run][t].row
      BY <1>5, <2>1, <2>4 DEF Journalled
    <3>5. QED BY <1>5, <2>1, <3>1, <3>2, <3>3, <3>4 DEF BackAt, Back
  <2>6. \A t \in Student : due'[t].after = {} BY <1>3, <1>6, <2>2
  <2>7. \A q \in Run : /\ Undoable(q)' <=> Undoable(q)
                       /\ Unfinished(q)' => Unfinished(q)
                       /\ run'[q] = "none" <=> run[q] = "none"
    BY <1>5 DEF Undoable, Unfinished
  <2>8. Alone(p) BY <1>1, <2>1, AtWork
  <2>9. QED BY <1>5, <2>3, <2>5, <2>6, <2>7, <2>8, StatusUndoing
<1>7. CASE DeleteDues(p)
  BY <1>6, <1>7 DEF DeleteDues, NoDue
<1>8. CASE InsertDues(p)
  <2>1. item[r][s].due.status = "ABSENT" => item[r][s].due = NoDue
    BY <1>3 DEF Due, NoDue
  <2>2. due[s] = NoDue BY <1>2, <1>8 DEF Knows, InsertDues, BackAt
  <2>3. due' = [due EXCEPT ![s] = item[r][s].due]
    BY <1>8, <2>1, <2>2 DEF InsertDues
  <2>4. Goto(p, "relog") BY <1>8 DEF InsertDues
  <2>5. QED BY <1>3, <1>6, <2>3, <2>4
<1>9. QED BY <1>7, <1>8

\* The rows of s with the one that r journalled as it was.
RowRestored(r, s, rows) ==
    /\ rows[item[r][s].from] = item[r][s].row
    /\ \A k \in Sem : \/ rows[k] = log[s][k]
                      \/ rows[k] = NoRow
                      \/ k = item[r][s].from /\ Clean(r, s, rows[k])

LEMMA RowBack ==
  ASSUME NEW r \in Run, NEW s \in Journalled(r), item[r][s].from \in Sem,
         Clean(r, s, log[s][item[r][s].from])
  PROVE  RowRestored(r, s, WithoutHistory(r, s))
BY DEF RowRestored, WithoutHistory, Clean

LEMMA RestoreHistoryUndoing ==
  ASSUME Sound, Exclusion, Undoing, NEW p \in Thread, RestoreHistory(p)
  PROVE  Undoing'
<1> DEFINE r == proc[p].run
           s == proc[p].cur
<1>1. proc[p].pc = "relog" BY DEF RestoreHistory
<1>2. proc \in [Thread -> Local] /\ Knows(proc[p]) BY <1>1, AtRestoring DEF Restoring
<1>3. s \in Journalled(r) /\ s \in Student /\ item[r][s].from \in Sem
  BY <1>1, <1>2 DEF Knows, OnStudent, Item, Promotable, Sem
<1>4. /\ s \notin proc[p].left
      /\ \A t \in Journalled(r) \ (proc[p].left \cup {s}) : Back(r, t)
      /\ sem[s] = item[r][s].from /\ due[s] = item[r][s].due
  BY <1>1, <1>2 DEF Knows, BackAt, OnStudent
<1>5. UNCHANGED <<txn, sem, due, run, item>> BY DEF RestoreHistory
<1>6. \A t \in Student : log'[t] = IF t = s THEN WithoutHistory(r, s) ELSE log[t]
  BY DEF RestoreHistory, Sound, TypeOK
<1>7. /\ proc'[p].pc = "restore" /\ proc'[p].run = r
      /\ proc'[p].left = proc[p].left /\ \A q \in Thread \ {p} : proc'[q] = proc[q]
  BY <1>2 DEF Knows, RestoreHistory, Local
<1>8. RowRestored(r, s, log'[s])
  BY <1>2, <1>3, <1>6, RowBack DEF Knows
<1>9. Works(r)
  BY <1>3, <1>5, <1>6, <1>8 DEF Works, RowRestored
<1>10. Stacked' BY <1>2, <1>9, WorkStacked DEF Undoing, Knows
<1>11. InOrder' /\ Untouched'
  BY <1>5 DEF Undoing, InOrder, Untouched, Undoable, Unfinished
<1>12. LastAt(proc[p])' BY <1>2, <1>5, <1>7, SameLast DEF LastAt, Knows
<1>13. \A t \in Journalled(r) : t \notin proc[p].left =>
            /\ sem[t] = item[r][t].from /\ due[t] = item[r][t].due
            /\ log'[t][item[r][t].from] = item[r][t].row
  <2>1. log'[s][item[r][s].from] = item[r][s].row BY <1>8 DEF RowRestored
  <2>2. ASSUME NEW t \in Journalled(r), t # s, t \notin proc[p].left
        PROVE  /\ sem[t] = item[r][t].from /\ due[t] = item[r][t].due
               /\ log'[t][item[r][t].from] = item[r][t].row
    BY <1>2, <1>4, <1>6, <2>2 DEF Back, Knows
  <2>3. QED BY <1>4, <2>1, <2>2
<1>14. BackAt(proc[p])'
  BY <1>5, <1>7, <1>13 DEF BackAt, Back, Journalled, OnStudent
<1>15. QED BY <1>1, <1>7, <1>10, <1>11, <1>12, <1>14, AtWork, AloneUndoing DEF Undoing

\* Everybody goes back at once.
LEMMA RestoreAtOnceUndoing ==
  ASSUME Sound, Exclusion, Undoing, NEW p \in Thread, RestoreAtOnce(p)
  PROVE  Undoing'
<1> DEFINE r == proc[p].run
           left == proc[p].left
           S == {s \in left : MayRestore(r, s, proc[p].verdict)}
<1>1. proc[p].pc = "restore" /\ txn BY DEF RestoreAtOnce
<1>2. proc \in [Thread -> Local] /\ Knows(proc[p]) BY <1>1, AtRestoring DEF Restoring
<1>3. S = left BY <1>2 DEF Knows, MayRestore
<1>4. /\ \A s \in Student : sem'[s] = IF s \in left THEN item[r][s].from ELSE sem[s]
      /\ \A s \in Student : due'[s] = IF s \in left THEN item[r][s].due ELSE due[s]
      /\ \A s \in Student : log'[s] = IF s \in left THEN WithoutHistory(r, s) ELSE log[s]
  <2>1. /\ sem' = [s \in Student |-> IF s \in S THEN item[r][s].from ELSE sem[s]]
        /\ due' = [s \in Student |-> IF s \in S THEN item[r][s].due ELSE due[s]]
        /\ log' = [s \in Student |-> IF s \in S THEN WithoutHistory(r, s) ELSE log[s]]
    BY Zenon DEF RestoreAtOnce
  <2> HIDE DEF S
  <2>2. QED BY <1>3, <2>1
<1>5. UNCHANGED <<txn, run, item>> BY DEF RestoreAtOnce
<1>6. /\ proc'[p].pc = "mark" /\ proc'[p].run = r
      /\ \A q \in Thread \ {p} : proc'[q] = proc[q]
  BY <1>2 DEF RestoreAtOnce, Local, Knows
<1> HIDE DEF S
<1>7. left \subseteq Journalled(r) /\ r \in Run
      /\ \A s \in left : s \in Student /\ item[r][s].from \in Sem
  BY <1>2 DEF Knows, Item, Promotable, Sem
<1>8. \A s \in left : RowRestored(r, s, log'[s])
  BY <1>2, <1>4, <1>7, RowBack DEF Knows
<1>9. Works(r)
  BY <1>4, <1>5, <1>7, <1>8 DEF Works, RowRestored
<1>10. Stacked' BY <1>2, <1>9, WorkStacked DEF Undoing, Knows
<1>11. \A s \in Journalled(r) :
            /\ sem'[s] = item[r][s].from /\ due'[s] = item[r][s].due
            /\ log'[s][item[r][s].from] = item[r][s].row
  <2>1. CASE left = left
    <3>1. \A s \in Journalled(r) \ left : Back(r, s) BY <1>1, <1>2 DEF BackAt, Knows
    <3>2. QED BY <1>2, <1>4, <1>8, <3>1 DEF Back, RowRestored, Knows
  <2>2. QED BY <2>1
<1>12. InOrder' BY <1>5 DEF Undoing, InOrder, Undoable, Unfinished
<1>13. Untouched' BY <1>4, <1>5, <1>7 DEF Undoing, Untouched
<1>14. LastAt(proc[p])' BY <1>2, <1>5, <1>6, SameLast DEF LastAt, Knows
<1>15. BackAt(proc[p])'
  BY <1>5, <1>6, <1>11 DEF BackAt, Back, Journalled, OnStudent
<1>16. QED BY <1>1, <1>6, <1>10, <1>12, <1>13, <1>14, <1>15, AtWork, AloneUndoing DEF Undoing

\* Everybody is back: the run ends.
LEMMA Closing ==
  ASSUME Sound, Undoing, NEW p \in Thread, Mark(p)
  PROVE  /\ Knows(proc[p]) /\ Closes(proc[p].run)
         /\ \A q \in Run \ {proc[p].run} : run'[q] = run[q]
         /\ run'[proc[p].run] = proc[p].verdict /\ proc[p].verdict \in Verdicts
<1> DEFINE r == proc[p].run
<1>1. proc[p].pc = "mark" BY DEF Mark
<1>2. Knows(proc[p]) BY <1>1, AtRestoring DEF Restoring
<1>3. proc[p].verdict \in Verdicts BY <1>1 DEF Sound, Fits, Restoring
<1>4. /\ run' = [run EXCEPT ![r] = proc[p].verdict]
      /\ UNCHANGED <<sem, log, item>>
  BY DEF Mark
<1>5. run'[r] = proc[p].verdict /\ \A q \in Run \ {r} : run'[q] = run[q]
  BY <1>2, <1>4 DEF Knows, Sound, TypeOK
<1>6. \A s \in Journalled(r) : Back(r, s) BY <1>1, <1>2 DEF BackAt, Knows
<1>7. Closes(r) BY <1>3, <1>4, <1>5, <1>6 DEF Closes
<1>8. QED BY <1>2, <1>3, <1>5, <1>7

LEMMA EndUndoing ==
  ASSUME Sound, Exclusion, Undoing, NEW p \in Thread, Restored(p) \/ Mark(p)
  PROVE  Undoing'
<1> DEFINE r == proc[p].run
<1>1. proc[p].pc \in {"restore", "mark"} BY DEF Restored, Mark
<1>2. proc \in [Thread -> Local] /\ Knows(proc[p]) BY <1>1, AtRestoring DEF Restoring
<1>3. CASE Restored(p)
  <2>1. /\ proc'[p].pc = "mark" /\ proc'[p].run = r
        /\ \A q \in Thread \ {p} : proc'[q] = proc[q]
        /\ UNCHANGED <<txn, sem, due, log, run, item>>
    BY <1>2, <1>3 DEF Restored, Goto, Local, Knows
  <2>2. \A s \in Journalled(r) : Back(r, s) BY <1>2, <1>3 DEF Restored, BackAt, Knows
  <2>3. LastAt(proc[p])' BY <1>2, <2>1, SameLast DEF LastAt, Knows
  <2>4. BackAt(proc[p])' BY <2>1, <2>2 DEF BackAt, Back, Journalled, OnStudent
  <2>5. QED BY <1>1, <2>1, <2>3, <2>4, AtWork, LocalUndoing
<1>4. CASE Mark(p)
  <2>1. /\ proc'[p].pc \in {"recover", "release"}
        /\ \A q \in Thread \ {p} : proc'[q] = proc[q]
        /\ UNCHANGED <<txn, sem, due, log, item>>
    BY <1>2, <1>4 DEF Mark, Goto, Local
  <2>2. /\ Closes(r) /\ run'[r] # "none"
        /\ \A q \in Run \ {r} : run'[q] = run[q]
    BY <1>4, Closing DEF Verdicts
  <2>3. Stacked' BY <1>2, <2>2, CloseStacked DEF Undoing, Knows
  <2>4. Untouched' BY <2>1 DEF Undoing, Untouched
  <2>5. run[r] # "none" BY <1>2 DEF Knows, IsLast, Unfinished
  <2>6. \A q \in Run : Undoable(q)' => Undoable(q) /\ (Unfinished(q)' => Unfinished(q))
    BY <2>2 DEF Closes, Undoable, Unfinished, Verdicts
  <2>7. \A q \in Run : run'[q] = "none" <=> run[q] = "none" BY <2>2, <2>5
  <2>8. InOrder' BY <2>6, <2>7 DEF Undoing, InOrder, Undoable, Unfinished
  <2>9. LastAt(proc[p])' /\ BackAt(proc[p])'
    BY <2>1 DEF LastAt, BackAt, AtRun, Applying, Restoring, OnStudent
  <2>10. QED BY <1>1, <2>1, <2>3, <2>4, <2>8, <2>9, AtWork, AloneUndoing DEF Undoing
<1>5. QED BY <1>3, <1>4

-----------------------------------------------------------------------------
(***************************************************************************)
(* What can happen when nothing disturbs a restore.                        *)
(***************************************************************************)

Plain(p) == StartApply(p) \/ Extend(p) \/ Verify(p) \/ ApplyFails(p) \/ RunFails(p)
Apply(p) == WriteHistory(p) \/ ResetDues(p) \/ Move(p) \/ ApplyAtOnce(p)
Find(p) == (p \in Undoer /\ UndoCheck(p)) \/ Recover(p)
Restore(p) ==
    \/ RestoreStudent(p) \/ DeleteDues(p) \/ InsertDues(p) \/ RestoreHistory(p)
    \/ RestoreAtOnce(p) \/ Restored(p)

\* A restore does not fail: nobody has sent a request in its way.
LEMMA NothingFails ==
  ASSUME Calm, Sound, Undoing, NEW p \in Thread
  PROVE  ~RestoreFails(p)
<1>1. proc[p].pc = "insert" => due[proc[p].cur] = NoDue BY DEF Undoing, BackAt
<1>2. NoDue.status = "ABSENT" BY DEF NoDue
<1>3. QED BY <1>1, <1>2 DEF RestoreFails, Failing, Calm

LEMMA EveryStep ==
  ASSUME Calm, Sound, Undoing, [Next]_vars
  PROVE  \/ UNCHANGED <<txn, sem, due, log, run, item, proc>>
         \/ \E p \in Thread :
                \/ Edge(p) \/ Plain(p) \/ Apply(p) \/ Find(p) \/ Restore(p)
                \/ Begin(p) \/ Journal(p) \/ Complete(p) \/ Interrupt(p) \/ Mark(p)
<1>1. CASE LeaseEnds BY <1>1 DEF LeaseEnds
<1>2. CASE \E p \in Thread : Crash(p) BY <1>2 DEF Edge
<1>3. ASSUME NEW p \in Thread, RestoreStep(p)
      PROVE  Edge(p) \/ Find(p) \/ Restore(p) \/ Mark(p)
  BY <1>3, NothingFails DEF RestoreStep, Edge, Find, Restore
<1>4. CASE \E p \in Promoter : PromoterStep(p)
  <2>1. PICK p \in Promoter : PromoterStep(p) BY <1>4
  <2>2. p \in Thread BY DEF Thread
  <2>3. CASE RestoreStep(p) BY <1>3, <2>2, <2>3
  <2>4. CASE ~RestoreStep(p) BY <2>1, <2>2, <2>4 DEF PromoterStep, Edge, Plain, Apply
  <2>5. QED BY <2>3, <2>4
<1>5. CASE \E u \in Undoer : UndoerStep(u)
  <2>1. PICK u \in Undoer : UndoerStep(u) BY <1>5
  <2>2. u \in Thread BY DEF Thread
  <2>3. QED BY <1>3, <2>1, <2>2 DEF UndoerStep, Edge, Find
<1>6. CASE \E w \in Worker : WorkerStep(w)
  <2>1. PICK w \in Worker : WorkerStep(w) BY <1>6
  <2>2. w \in Thread BY DEF Thread
  <2>3. QED BY <1>3, <2>1, <2>2 DEF WorkerStep, Edge
<1>7. CASE \E s \in Student : Send(s) \/ Approve(s) BY <1>7 DEF Send, Approve, Calm
<1>8. CASE UNCHANGED vars BY <1>8 DEF vars
<1>9. QED BY <1>1, <1>2, <1>4, <1>5, <1>6, <1>7, <1>8 DEF Next

LEMMA UndoingInit == Init => Undoing
<1> SUFFICES ASSUME Init PROVE Undoing OBVIOUS
<1>1. \A r \in Run : run[r] = "none" BY DEF Init
<1>2. \A r \in Run : ~Undoable(r) BY <1>1 DEF Undoable, Unfinished
<1>3. InOrder BY <1>1, <1>2 DEF InOrder, Undoable
<1>4. Stacked BY <1>2 DEF Stacked, Holds, HoldsRow
<1>5. Untouched
  <2>1. \A s \in Student : due[s].after = {}
    BY SetsAssumption DEF Init, NoDue, Cleared
  <2>2. NoItem.due.after = {} BY DEF NoItem, NoDue
  <2>3. QED BY <2>1, <2>2 DEF Init, Untouched
<1>6. \A p \in Thread : proc[p].pc = "idle" BY DEF Init, Idle
<1>7. \A p \in Thread : LastAt(proc[p]) /\ BackAt(proc[p])
  BY <1>6 DEF LastAt, BackAt, AtRun, Applying, Restoring, OnStudent
<1>8. QED BY <1>3, <1>4, <1>5, <1>7 DEF Undoing

LEMMA RestUndoing ==
  ASSUME Undoing, UNCHANGED <<txn, sem, due, log, run, item, proc>>
  PROVE  Undoing'
<1>1. SameHeld BY DEF SameHeld, Holds, Undoable, Unfinished, Journalled
<1>2. Stacked' BY <1>1, SameStacked DEF Undoing
<1>3. InOrder' /\ Untouched' BY DEF Undoing, InOrder, Untouched, Undoable, Unfinished
<1>4. ASSUME NEW p \in Thread PROVE LastAt(proc[p])' /\ BackAt(proc[p])'
  <2>1. LastAt(proc[p]) /\ BackAt(proc[p]) BY DEF Undoing
  <2>2. LastAt(proc[p])' BY <2>1 DEF LastAt, IsLast, Unfinished
  <2>3. BackAt(proc[p])' BY <2>1 DEF BackAt, Back, Journalled
  <2>4. QED BY <2>2, <2>3
<1>5. QED BY <1>2, <1>3, <1>4 DEF Undoing

\* What the proofs about undoing rest on.
Order == Sound /\ Exclusion /\ Tracked /\ Undoing

LEMMA UndoingNext == Calm /\ Order /\ [Next]_vars => Undoing'
<1> SUFFICES ASSUME Calm, Order, [Next]_vars PROVE Undoing'
  OBVIOUS
<1>1. Sound /\ Exclusion /\ Tracked /\ Undoing BY DEF Order
<1>2. CASE UNCHANGED <<txn, sem, due, log, run, item, proc>> BY <1>1, <1>2, RestUndoing
<1>3. ASSUME NEW p \in Thread,
             \/ Edge(p) \/ Plain(p) \/ Apply(p) \/ Find(p) \/ Restore(p)
             \/ Begin(p) \/ Journal(p) \/ Complete(p) \/ Interrupt(p) \/ Mark(p)
      PROVE  Undoing'
  <2>1. CASE Edge(p) \/ Plain(p)
    BY <1>1, <2>1, EdgeUndoing, PlainUndoing DEF Plain
  <2>2. CASE Begin(p) \/ Journal(p) \/ Complete(p) \/ Interrupt(p)
    BY <1>1, <2>2, BeginUndoing, JournalUndoing, CompleteUndoing
  <2>3. CASE Apply(p) BY <1>1, <2>3, ApplyUndoing DEF Apply
  <2>4. CASE Find(p) BY <1>1, <2>4, FindUndoing DEF Find
  <2>5. CASE Restore(p) \/ Mark(p)
    BY <1>1, <2>5, RestoreStudentUndoing, RestoreDuesUndoing, RestoreHistoryUndoing,
       RestoreAtOnceUndoing, EndUndoing DEF Restore
  <2>6. QED BY <1>3, <2>1, <2>2, <2>3, <2>4, <2>5
<1>4. QED BY <1>1, <1>2, <1>3, EveryStep

LEMMA OrderAlways == Calm => (Spec => []Order)
<1> SUFFICES ASSUME Calm PROVE Spec => []Order
  OBVIOUS
<1>1. Init => Order BY SoundInit, ExclusionInit, TrackedInit, UndoingInit DEF Order
<1>2. Order /\ [Next]_vars => Order'
  <2>1. ASSUME Order, [Next]_vars PROVE Order'
    <3>1. Undoing' BY <2>1, UndoingNext
    <3>2. Sound' /\ Exclusion' /\ Tracked'
      BY <2>1, SoundNext, ExclusionNext, TrackedNext DEF Order, Calm
    <3>3. QED BY <3>1, <3>2 DEF Order
  <2>2. QED BY <2>1
<1>3. QED BY <1>1, <1>2, PTL DEF Spec

\* UndoneIsUndone for one step.
EndsUndone ==
    \A r \in Run :
        run'[r] # run[r] /\ run'[r] \in {"failed", "auto_undone", "rolled_back",
                                         "auto_recovered"}
        => \A s \in Journalled(r) :
                LET k == item[r][s].from IN
                sem[s] = k /\ due[s] = item[r][s].due /\ log[s][k] = item[r][s].row

LEMMA EveryEnd == Calm /\ Order /\ [Next]_vars => EndsUndone
<1> SUFFICES ASSUME Calm, Order, [Next]_vars PROVE EndsUndone
  OBVIOUS
<1>1. Sound /\ Undoing BY DEF Order
<1>2. CASE run' = run BY <1>2 DEF EndsUndone
<1>3. ASSUME NEW p \in Thread,
             \/ Edge(p) \/ Plain(p) \/ Apply(p) \/ Find(p) \/ Restore(p)
             \/ Begin(p) \/ Journal(p) \/ Complete(p) \/ Interrupt(p) \/ Mark(p)
      PROVE  EndsUndone
  <2>1. CASE Edge(p) \/ Plain(p) \/ Apply(p) \/ Find(p) \/ Restore(p) \/ Journal(p)
    <3>1. run' = run
      BY <2>1 DEF Edge, Plain, Apply, Find, Restore, StartPromotion, StartUndo, StartRecovery,
         Acquire, Release, Crash, Refuse, StartApply, Extend, Verify, ApplyFails, RunFails,
         WriteHistory, ResetDues, Move, ApplyAtOnce, UndoCheck, Recover, RestoreStudent,
         DeleteDues, InsertDues, RestoreHistory, RestoreAtOnce, Restored, Journal
    <3>2. QED BY <1>2, <3>1
  <2>2. CASE Begin(p) \/ Complete(p) \/ Interrupt(p)
    <3>1. \A r \in Run : run'[r] # run[r] => run'[r] \in {"in_progress", "completed", "interrupted"}
      BY <1>1, <2>2 DEF Begin, Complete, Interrupt, Sound, TypeOK
    <3>2. QED BY <3>1 DEF EndsUndone
  <2>3. CASE Mark(p)
    <3>1. \A r \in Run : run'[r] # run[r] => r = proc[p].run BY <1>1, <2>3, Closing
    <3>2. \A s \in Journalled(proc[p].run) : Back(proc[p].run, s)
      BY <1>1, <2>3, Closing DEF Closes
    <3>3. QED BY <3>1, <3>2 DEF EndsUndone, Back
  <2>4. QED BY <1>3, <2>1, <2>2, <2>3
<1>4. QED BY <1>1, <1>2, <1>3, EveryStep

\* A run that ends undone has given every student of its journal back the
\* semester, the request and the history row it found, wherever it, the undo or
\* the recovery was killed, and however many runs lie below it, as long as
\* nobody uses the portal for these students meanwhile.
THEOREM UndoRestores == Calm => (Spec => UndoneIsUndone)
<1> SUFFICES ASSUME Calm PROVE Spec => UndoneIsUndone
  OBVIOUS
<1>1. Spec => []Order BY OrderAlways
<1>2. Order /\ [Next]_vars => [EndsUndone]_vars BY EveryEnd
<1>3. Spec => [][EndsUndone]_vars BY <1>1, <1>2, PTL DEF Spec
<1>4. QED BY <1>3 DEF UndoneIsUndone, EndsUndone

-----------------------------------------------------------------------------
(***************************************************************************)
(* A run that promotes goes by the roster it was planned on.               *)
(***************************************************************************)

LEMMA PlanOf ==
  ASSUME NEW p \in Thread, Alone(p), PlanAt(proc[p])'
  PROVE  PlanKept'
<1>1. ASSUME NEW q \in Thread \ {p} PROVE PlanAt(proc[q])'
  <2>1. proc'[q].pc = "idle" BY DEF Alone
  <2>2. QED BY <2>1 DEF PlanAt, Promoting, Applying
<1>2. QED BY <1>1 DEF PlanKept

LEMMA NoPlan ==
  ASSUME NEW p \in Thread, Alone(p), proc'[p].pc \notin Promoting
  PROVE  PlanKept'
<1>1. PlanAt(proc[p])' BY DEF PlanAt, Promoting, Applying
<1>2. QED BY <1>1, PlanOf

LEMMA PlanInit == Init => PlanKept
  BY DEF Init, PlanKept, PlanAt, Promoting, Applying, Idle

LEMMA RestPlan ==
  ASSUME PlanKept, UNCHANGED <<sem, item, proc>>
  PROVE  PlanKept'
<1>1. ASSUME NEW p \in Thread PROVE PlanAt(proc[p])'
  <2>1. PlanAt(proc[p]) BY DEF PlanKept
  <2>2. Planned(proc[p])' = Planned(proc[p]) BY DEF Planned, Journalled
  <2>3. QED BY <2>1, <2>2 DEF PlanAt, Journalled
<1>2. QED BY <1>1 DEF PlanKept

LEMMA BeginPlan ==
  ASSUME Order, NEW p \in Thread, Begin(p)
  PROVE  PlanKept'
<1>1. PICK from \in 0..7, d \in Dept \cup {AllDepts}, r \in Run : Begin(p)!(from, d, r)
  BY DEF Begin
<1> DEFINE S == Moving(from, d)
           l == [Idle EXCEPT !.pc = "journal", !.run = r, !.seen = sem, !.left = S,
                             !.sems = {sem[s] : s \in S}, !.mixed = MixedClasses(sem)]
<1>2. proc' = [proc EXCEPT ![p] = l] BY <1>1, Zenon
<1>3. l.pc = "journal" /\ l.run = r /\ l.seen = sem /\ l.left = S /\ l.sems = {sem[s] : s \in S}
  BY DEF Idle
<1> HIDE DEF l
<1>4. proc'[p] = l /\ \A q \in Thread \ {p} : proc'[q] = proc[q]
  BY <1>2 DEF Order, Sound, TypeOK
<1>5. Alone(p) BY <1>1, <1>4, AtWork DEF Order
<1>6. item' = item /\ sem' = sem /\ S # {} /\ Journalled(r) = {}
  BY <1>1 DEF MayPromote, Order, Tracked, Unwritten
<1>7. S = Movers(sem, from, d) BY DEF Moving, Movers
<1> HIDE DEF S
<1>8. Planned(proc[p])' = S BY <1>3, <1>4, <1>6 DEF Planned, Journalled
<1>9. PlanAt(proc[p])'
  BY <1>3, <1>4, <1>6, <1>7, <1>8 DEF PlanAt, Journalled, Applying
<1>10. QED BY <1>5, <1>9, PlanOf

\* Who is journalled was to come: the plan stays.
LEMMA JournalPlanned ==
  ASSUME Order, NEW p \in Thread, Journal(p)
  PROVE  /\ Alone(p) /\ proc[p].run \in Run
         /\ proc'[p].pc = "journal" /\ proc'[p].run = proc[p].run
         /\ proc'[p].seen = proc[p].seen /\ proc'[p].sems = proc[p].sems
         /\ Planned(proc[p])' = Planned(proc[p])
         /\ \A t \in Student : \/ item'[proc[p].run][t] = item[proc[p].run][t]
                               \/ item'[proc[p].run][t].from = proc[p].seen[t]
<1>1. PICK s \in proc[p].left : Journal(p)!(s) BY DEF Journal
<1> DEFINE l == proc[p]
           r == proc[p].run
           k == proc[p].seen[s]
           entry == [from |-> k, due |-> due[s], row |-> log[s][k]]
<1>2. /\ l \in Local /\ Fits(l) /\ l.pc = "journal"
  BY <1>1 DEF Order, Sound, TypeOK
<1>3. r \in Run /\ s \in Student /\ k \in Promotable BY <1>2 DEF Fits, AtRun, Local
<1>4. item' = [item EXCEPT ![r][s] = entry] BY <1>1, Zenon
<1>5. entry.from = k /\ entry # NoItem
  <2>1. entry.from # NoItem.from BY <1>3 DEF NoItem, Promotable
  <2>2. QED BY <2>1
<1> HIDE DEF entry
<1>6. \A t \in Student : item'[r][t] = IF t = s THEN entry ELSE item[r][t]
  BY <1>3, <1>4 DEF Order, Sound, TypeOK
<1>7. /\ proc'[p].pc = "journal" /\ proc'[p].run = r /\ proc'[p].seen = l.seen
      /\ proc'[p].sems = l.sems /\ proc'[p].left = l.left \ {s}
      /\ \A q \in Thread \ {p} : proc'[q] = proc[q]
  BY <1>1, <1>2 DEF Order, Sound, TypeOK, Local
<1>8. Alone(p) BY <1>2, <1>7, AtWork DEF Order
<1>9. Planned(proc[p])' = Planned(l)
  <2>1. l.left \subseteq Student BY <1>2 DEF Local
  <2>2. Journalled(proc[p].run)' = Journalled(r) \cup {s}
    BY <1>3, <1>5, <1>6, <1>7 DEF Journalled
  <2>3. QED BY <1>1, <1>2, <1>7, <2>1, <2>2 DEF Planned
<1>10. QED BY <1>3, <1>5, <1>6, <1>7, <1>8, <1>9

LEMMA JournalPlan ==
  ASSUME Order, PlanKept, NEW p \in Thread, Journal(p)
  PROVE  PlanKept'
<1>1. PlanAt(proc[p]) /\ proc[p].pc = "journal" BY DEF PlanKept, Journal
<1>2. PlanAt(proc[p])!2 BY <1>1 DEF PlanAt, Promoting
<1>3. PlanAt(proc[p])'
  BY <1>1, <1>2, JournalPlanned DEF PlanAt, Journalled, Applying
<1>4. QED BY <1>3, JournalPlanned, PlanOf

\* A step of a run on its way, by which nobody moves.
LEMMA KeepsPlan ==
  ASSUME Order, PlanKept, NEW p \in Thread, proc[p].pc \in Applying, proc'[p].pc \in Applying,
         sem' = sem, item' = item, proc'[p].run = proc[p].run, proc'[p].seen = proc[p].seen,
         proc'[p].sems = proc[p].sems, \A q \in Thread \ {p} : proc'[q] = proc[q]
  PROVE  PlanKept'
<1>1. Alone(p) BY AtWork DEF Order, Applying
<1>2. PlanAt(proc[p]) BY DEF PlanKept
<1>3. Planned(proc[p])' = Planned(proc[p]) BY DEF Planned, Journalled, Applying
<1>4. PlanAt(proc[p])'
  BY <1>2, <1>3 DEF PlanAt, Promoting, Journalled, Applying
<1>5. QED BY <1>1, <1>4, PlanOf

LEMMA StartApplyPlan ==
  ASSUME Order, PlanKept, NEW p \in Thread, StartApply(p)
  PROVE  PlanKept'
<1> DEFINE l == proc[p]
<1>1. /\ l \in Local /\ PlanAt(l) /\ Underway(l) /\ l.pc = "journal" /\ l.left = {}
      /\ UNCHANGED <<sem, item>>
  BY DEF Order, Sound, TypeOK, PlanKept, Tracked, StartApply
<1>2. /\ proc'[p].pc = "extend" /\ proc'[p].run = l.run /\ proc'[p].seen = l.seen
      /\ proc'[p].sems = l.sems /\ \A q \in Thread \ {p} : proc'[q] = proc[q]
  BY <1>1 DEF StartApply, Goto, Order, Sound, TypeOK, Local
<1>3. Alone(p) BY <1>1, <1>2, AtWork DEF Order
<1>4. Planned(proc[p])' = Planned(l)
  BY <1>1, <1>2 DEF Planned, Journalled
<1>5. sem = l.seen /\ l.sems = {l.seen[s] : s \in Planned(l)} /\ Planned(l) \subseteq Student
  BY <1>1 DEF Underway, PlanAt, Promoting, Planned, Journalled
<1>6. sem = UpFrom(l.seen, {s \in Planned(l) : l.seen[s] \notin l.sems})
  BY <1>5 DEF UpFrom, Order, Sound, TypeOK
<1>7. PlanAt(proc[p])'
  BY <1>1, <1>2, <1>4, <1>6 DEF PlanAt, Promoting, Journalled
<1>8. QED BY <1>3, <1>7, PlanOf

LEMMA MovePlan ==
  ASSUME Order, PlanKept, NEW p \in Thread, Move(p)
  PROVE  PlanKept'
<1> DEFINE l == proc[p]
           r == proc[p].run
           k == Highest(proc[p].sems)
           rest == proc[p].sems \ {k}
           S == {s \in Batch(p) : sem[s] = k}
<1>1. l \in Local /\ PlanAt(l) /\ l.pc = "move" /\ item' = item
  BY DEF Order, Sound, TypeOK, PlanKept, Move
<1>2. /\ proc'[p].pc = IF rest = {} THEN "complete" ELSE "extend"
      /\ proc'[p].run = r /\ proc'[p].seen = l.seen
      /\ proc'[p].sems = rest /\ \A q \in Thread \ {p} : proc'[q] = proc[q]
  BY <1>1 DEF Move, Order, Sound, TypeOK, Local
<1>3. Alone(p) BY <1>1, <1>2, AtWork DEF Order
<1>4. Planned(l) = Journalled(r) /\ Planned(proc[p])' = Planned(l)
  BY <1>1, <1>2 DEF Planned, Journalled
<1>5. /\ \A s \in Journalled(r) : item[r][s].from = l.seen[s]
      /\ sem = UpFrom(l.seen, {s \in Planned(l) : l.seen[s] \notin l.sems})
  BY <1>1 DEF PlanAt, Promoting, Applying
<1>6. sem' = MovedUp(S) BY DEF Move
<1> HIDE DEF k
<1>7. \A s \in Student : s \in S <=> s \in Planned(l) /\ l.seen[s] = k /\ sem[s] = k
  BY <1>4, <1>5 DEF Batch, Journalled, k
<1> HIDE DEF S
<1>8. l.seen \in [Student -> {0} \cup Sem] BY <1>1 DEF Local
<1>9. ASSUME NEW s \in Student
      PROVE  sem'[s] = IF s \in Planned(l) /\ l.seen[s] \notin rest THEN l.seen[s] + 1 ELSE l.seen[s]
  <2>1. sem[s] = IF s \in Planned(l) /\ l.seen[s] \notin l.sems THEN l.seen[s] + 1 ELSE l.seen[s]
    BY <1>5 DEF UpFrom
  <2>2. sem'[s] = IF s \in S THEN sem[s] + 1 ELSE sem[s] BY <1>6 DEF MovedUp
  <2>3. l.seen[s] \in Int BY <1>8 DEF Sem
  <2>4. QED BY <1>7, <2>1, <2>2, <2>3
<1>10. sem' = UpFrom(l.seen, {s \in Planned(l) : l.seen[s] \notin rest})
  BY <1>6, <1>9 DEF UpFrom, MovedUp
<1>11. PlanAt(proc[p])'
  <2>1. CASE rest = {}
    <3>1. {s \in Planned(l) : l.seen[s] \notin rest} = Planned(l) BY <2>1
    <3>2. sem' = UpFrom(l.seen, Planned(l)) BY <1>10, <3>1
    <3>3. QED BY <1>1, <1>2, <1>4, <2>1, <3>2 DEF PlanAt, Promoting, Journalled, Applying
  <2>2. CASE rest # {}
    BY <1>1, <1>2, <1>4, <1>10, <2>2 DEF PlanAt, Promoting, Journalled, Applying
  <2>3. QED BY <2>1, <2>2
<1>12. QED BY <1>3, <1>11, PlanOf

LEMMA ApplyAtOncePlan ==
  ASSUME Order, PlanKept, NEW p \in Thread, ApplyAtOnce(p)
  PROVE  PlanKept'
<1> DEFINE l == proc[p]
           r == proc[p].run
           S == {s \in Journalled(r) : sem[s] = item[r][s].from}
<1>1. /\ l \in Local /\ PlanAt(l) /\ BackAt(l) /\ l.pc = "extend" /\ txn /\ item' = item
  BY DEF Order, Sound, TypeOK, PlanKept, Undoing, ApplyAtOnce
<1>2. /\ proc'[p].pc = "complete" /\ proc'[p].run = r /\ proc'[p].seen = l.seen
      /\ \A q \in Thread \ {p} : proc'[q] = proc[q]
  BY <1>1 DEF ApplyAtOnce, Goto, Order, Sound, TypeOK, Local
<1>3. Alone(p) BY <1>1, <1>2, AtWork DEF Order
<1>4. Planned(l) = Journalled(r) /\ Planned(proc[p])' = Planned(l)
  BY <1>1, <1>2 DEF Planned, Journalled
<1>5. /\ \A s \in Journalled(r) : item[r][s].from = l.seen[s]
      /\ sem = UpFrom(l.seen, {s \in Planned(l) : l.seen[s] \notin l.sems})
  BY <1>1 DEF PlanAt, Promoting, Applying
<1>6. \A s \in Journalled(r) : sem[s] = item[r][s].from BY <1>1 DEF BackAt, Back
<1>7. S = Planned(l) BY <1>4, <1>6
<1>8. sem' = MovedUp(S) BY DEF ApplyAtOnce
<1> HIDE DEF S
<1>9. \A s \in Student : sem[s] = l.seen[s]
  <2>1. ASSUME NEW s \in Student PROVE sem[s] = l.seen[s]
    <3>1. CASE s \in Planned(l) BY <1>4, <1>5, <1>6, <3>1
    <3>2. CASE s \notin Planned(l) BY <1>5, <3>2 DEF UpFrom
    <3>3. QED BY <3>1, <3>2
  <2>2. QED BY <2>1
<1>10. sem' = UpFrom(l.seen, Planned(l)) BY <1>7, <1>8, <1>9 DEF MovedUp, UpFrom
<1>11. PlanAt(proc[p])'
  BY <1>1, <1>2, <1>4, <1>10 DEF PlanAt, Promoting, Journalled, Applying
<1>12. QED BY <1>3, <1>11, PlanOf

LEMMA PlanNext == Calm /\ Order /\ PlanKept /\ [Next]_vars => PlanKept'
<1> SUFFICES ASSUME Calm, Order, PlanKept, [Next]_vars PROVE PlanKept'
  OBVIOUS
<1>1. Sound /\ Exclusion /\ Undoing /\ proc \in [Thread -> Local]
  BY DEF Order, Sound, TypeOK
<1>2. CASE UNCHANGED <<txn, sem, due, log, run, item, proc>> BY <1>2, RestPlan
<1>3. ASSUME NEW p \in Thread,
             \/ Edge(p) \/ Plain(p) \/ Apply(p) \/ Find(p) \/ Restore(p)
             \/ Begin(p) \/ Journal(p) \/ Complete(p) \/ Interrupt(p) \/ Mark(p)
      PROVE  PlanKept'
  <2>1. CASE Edge(p) BY <1>1, <2>1, AtEdge, NoPlan DEF Promoting, Applying
  <2>2. CASE StartApply(p) \/ Begin(p) \/ Journal(p) \/ Move(p) \/ ApplyAtOnce(p)
    BY <2>2, StartApplyPlan, BeginPlan, JournalPlan, MovePlan, ApplyAtOncePlan
  <2>3. CASE Extend(p) \/ WriteHistory(p) \/ ResetDues(p)
    <3>1. /\ proc[p].pc \in Applying /\ proc'[p].pc \in Applying
          /\ sem' = sem /\ item' = item
          /\ proc'[p].run = proc[p].run /\ proc'[p].seen = proc[p].seen
          /\ proc'[p].sems = proc[p].sems /\ \A q \in Thread \ {p} : proc'[q] = proc[q]
      <4>1. CASE Extend(p) BY <1>1, <4>1 DEF Extend, Applying, Local
      <4>2. CASE WriteHistory(p) BY <1>1, <4>2 DEF WriteHistory, Applying, Local
      <4>3. CASE ResetDues(p) BY <1>1, <4>3 DEF ResetDues, Goto, Applying, Local
      <4>4. QED BY <2>3, <4>1, <4>2, <4>3
    <3>2. QED BY <3>1, KeepsPlan
  <2>4. CASE Verify(p) \/ ApplyFails(p) \/ RunFails(p) \/ Complete(p) \/ Interrupt(p) \/ Mark(p)
    <3>1. /\ proc[p].pc # "idle"
          /\ proc'[p].pc \in {"release", "restore", "mark", "interrupt", "verify", "recover"}
          /\ \A q \in Thread \ {p} : proc'[q] = proc[q]
      <4>1. CASE Verify(p) BY <1>1, <4>1 DEF Verify, Goto, Local
      <4>2. CASE ApplyFails(p) \/ RunFails(p)
        BY <1>1, <4>2 DEF ApplyFails, RunFails, Goto, Local, Applying
      <4>3. CASE Complete(p) \/ Interrupt(p) \/ Mark(p)
        BY <1>1, <4>3 DEF Complete, Interrupt, Mark, Goto, Local
      <4>4. QED BY <2>4, <4>1, <4>2, <4>3
    <3>2. QED BY <1>1, <3>1, AtWork, NoPlan DEF Promoting, Applying
  <2>5. CASE Find(p) \/ Restore(p)
    <3>1. /\ proc[p].pc # "idle"
          /\ proc'[p].pc \in {"check", "release"} \cup Restoring
          /\ \A q \in Thread \ {p} : proc'[q] = proc[q]
      <4>1. CASE UndoCheck(p) BY <1>1, <4>1 DEF UndoCheck, Local, Restoring
      <4>2. CASE Recover(p)
        <5>1. proc[p].pc = "recover" BY <4>2 DEF Recover
        <5>2. CASE Goto(p, proc[p].then)
          BY <1>1, <5>1, <5>2 DEF Goto, Local
        <5>3. CASE ~Goto(p, proc[p].then)
          <6>1. PICK r \in Run : proc' = [proc EXCEPT ![p].pc = "restore", ![p].run = r,
                                                    ![p].verdict = "auto_recovered",
                                                    ![p].left = Journalled(r)]
            BY <4>2, <5>3 DEF Recover
          <6>2. QED BY <1>1, <5>1, <6>1 DEF Local, Restoring
        <5>4. QED BY <5>2, <5>3
      <4>3. CASE RestoreStudent(p)
        <5>1. PICK s \in proc[p].left : RestoreStudent(p)!1!(s) BY <4>3 DEF RestoreStudent
        <5>2. \/ proc' = [proc EXCEPT ![p].pc = "delete", ![p].cur = s, ![p].left = @ \ {s}]
              \/ proc' = [proc EXCEPT ![p].left = @ \ {s}]
          BY <5>1
        <5>3. proc[p].pc = "restore" BY <5>1
        <5>4. QED BY <1>1, <5>2, <5>3 DEF Local, Restoring
      <4>4. CASE DeleteDues(p) \/ InsertDues(p) \/ Restored(p)
        BY <1>1, <4>4 DEF DeleteDues, InsertDues, Restored, Goto, Local, Restoring
      <4>5. CASE RestoreHistory(p) \/ RestoreAtOnce(p)
        BY <1>1, <4>5 DEF RestoreHistory, RestoreAtOnce, Local, Restoring
      <4>6. QED BY <2>5, <4>1, <4>2, <4>3, <4>4, <4>5 DEF Find, Restore
    <3>2. QED BY <1>1, <3>1, AtWork, NoPlan DEF Promoting, Applying, Restoring
  <2>6. QED BY <1>3, <2>1, <2>2, <2>3, <2>4, <2>5 DEF Plain, Apply
<1>4. QED BY <1>1, <1>2, <1>3, EveryStep

LEMMA PlanAlways == Calm => (Spec => [](Order /\ PlanKept))
<1> SUFFICES ASSUME Calm PROVE Spec => [](Order /\ PlanKept)
  OBVIOUS
<1>1. Spec => []Order BY OrderAlways
<1>2. Order /\ PlanKept /\ [Next]_vars => PlanKept' BY PlanNext
<1>3. Init => PlanKept BY PlanInit
<1>4. QED BY <1>1, <1>2, <1>3, PTL DEF Spec

-----------------------------------------------------------------------------
(***************************************************************************)
(* The contract: students move up together, or nobody does.                *)
(***************************************************************************)

\* With one unfinished run at most, its students are seen where it found them.
SeenBy ==
    /\ Seen \in [Student -> Sem]
    /\ \A r \in Run : Unfinished(r) =>
            \A s \in Student : Seen[s] = IF s \in Journalled(r) THEN item[r][s].from ELSE sem[s]
    /\ (\A r \in Run : ~Unfinished(r)) => \A s \in Student : Seen[s] = sem[s]

LEMMA SeenWhere == Sound /\ InOrder => SeenBy
<1> SUFFICES ASSUME Sound, InOrder PROVE SeenBy
  OBVIOUS
<1>1. CASE \A r \in Run : ~Unfinished(r)
  <2>1. \A s \in Student : Seen[s] = sem[s] BY <1>1 DEF Seen
  <2>2. Seen \in [Student -> Sem] BY <1>1 DEF Seen, Sound, TypeOK
  <2>3. QED BY <1>1, <2>1, <2>2 DEF SeenBy
<1>2. CASE \E r \in Run : Unfinished(r)
  <2>1. PICK r \in Run : Unfinished(r) BY <1>2
  <2>2. \A q \in Run : Unfinished(q) => q = r
    BY <2>1 DEF InOrder, Undoable, Run
  <2>3. ASSUME NEW s \in Student
        PROVE  Seen[s] = IF s \in Journalled(r) THEN item[r][s].from ELSE sem[s]
    <3>1. CASE s \in Journalled(r)
      <4> DEFINE Of(q) == /\ Unfinished(q) /\ item[q][s] # NoItem
                          /\ \A x \in Run : Unfinished(x) /\ item[x][s] # NoItem => q <= x
      <4>1. Of(r) BY <2>1, <2>2, <3>1 DEF Journalled, Run
      <4>2. \A q \in Run : Of(q) => q = r BY <2>2
      <4>3. (CHOOSE q \in Run : Of(q)) = r
        <5> HIDE DEF Of
        <5>1. QED BY <4>1, <4>2
      <4>4. \E q \in Run : Unfinished(q) /\ item[q][s] # NoItem
        BY <2>1, <3>1 DEF Journalled
      <4>5. Seen[s] = item[CHOOSE q \in Run : Of(q)][s].from
        BY <4>4, Zenon DEF Seen
      <4>6. QED BY <3>1, <4>3, <4>5
    <3>2. CASE s \notin Journalled(r)
      <4>1. ~\E q \in Run : Unfinished(q) /\ item[q][s] # NoItem
        BY <2>2, <3>2 DEF Journalled
      <4>2. QED BY <3>2, <4>1 DEF Seen
    <3>3. QED BY <3>1, <3>2
  <2>4. \A s \in Student : Seen[s] \in Sem
    <3>1. \A s \in Journalled(r) : item[r][s].from \in Sem
      BY <2>1, EntryIsItem DEF Sound, Item, Promotable, Sem
    <3>2. QED BY <2>3, <3>1 DEF Sound, TypeOK
  <2>5. Seen = [s \in Student |-> Seen[s]] BY DEF Seen
  <2>6. Seen \in [Student -> Sem] BY <2>4, <2>5
  <2>7. ASSUME NEW q \in Run, Unfinished(q)
        PROVE  \A s \in Student : Seen[s] = IF s \in Journalled(q) THEN item[q][s].from ELSE sem[s]
    <3>1. q = r BY <2>2, <2>7
    <3>2. QED BY <2>3, <3>1
  <2>8. QED BY <1>2, <2>6, <2>7 DEF SeenBy
<1>3. QED BY <1>1, <1>2

\* The same after a step.
LEMMA SeenAfter == Calm /\ Order /\ [Next]_vars => SeenBy /\ SeenBy' /\ Order'
<1> SUFFICES ASSUME Calm, Order, [Next]_vars PROVE SeenBy /\ SeenBy' /\ Order'
  OBVIOUS
<1>1. Order' BY SoundNext, ExclusionNext, TrackedNext, UndoingNext DEF Order, Calm
<1>2. Sound /\ InOrder /\ Sound' /\ InOrder' BY <1>1 DEF Order, Undoing
<1>3. SeenBy BY <1>2, SeenWhere
<1>4. SeenBy' BY <1>2, SeenWhere, PTL
<1>5. QED BY <1>1, <1>3, <1>4

ContractStep == Contract!Promote \/ Contract!TakeBack \/ UNCHANGED Seen

\* Steps that change no run, no entry and no semester.
LEMMA SameSeen ==
  ASSUME UNCHANGED <<sem, run, item>>
  PROVE  UNCHANGED Seen
BY DEF Seen, Unfinished

LEMMA QuietSteps ==
  ASSUME NEW p \in Thread,
         \/ Edge(p) \/ Plain(p) \/ Find(p) \/ WriteHistory(p) \/ ResetDues(p)
         \/ DeleteDues(p) \/ InsertDues(p) \/ RestoreHistory(p) \/ Restored(p)
  PROVE  UNCHANGED Seen
<1>1. UNCHANGED <<sem, run, item>>
  BY DEF Edge, Plain, Find, StartPromotion, StartUndo, StartRecovery, Acquire, Release, Crash,
     Refuse, StartApply, Extend, Verify, ApplyFails, RunFails, WriteHistory, ResetDues,
     UndoCheck, Recover, DeleteDues, InsertDues, RestoreHistory, Restored
<1>2. QED BY <1>1, SameSeen

\* Two functions that agree.
LEMMA SeenEqual ==
  ASSUME SeenBy, SeenBy', \A s \in Student : Seen'[s] = Seen[s]
  PROVE  UNCHANGED Seen
BY DEF SeenBy

LEMMA BeginSeen ==
  ASSUME Order, SeenBy, SeenBy', NEW p \in Thread, Begin(p)
  PROVE  UNCHANGED Seen
<1>1. PICK from \in 0..7, d \in Dept \cup {AllDepts}, r \in Run : Begin(p)!(from, d, r)
  BY DEF Begin
<1>2. /\ run[r] = "none" /\ run'[r] = "in_progress" /\ UNCHANGED <<sem, item>>
  BY <1>1 DEF Order, Sound, TypeOK
<1>3. \A q \in Run : ~Unfinished(q) BY <1>1 DEF Order, Undoing, LastAt
<1>4. \A s \in Student : item'[r][s] = NoItem
  BY <1>2 DEF Order, Tracked, Unwritten, Journalled
<1>5. \A s \in Student : Seen[s] = sem[s] BY <1>3 DEF SeenBy
<1>6. \A s \in Student : Seen'[s] = sem'[s]
  BY <1>2, <1>4 DEF SeenBy, Unfinished, Journalled
<1>7. QED BY <1>2, <1>5, <1>6, SeenEqual

LEMMA JournalSeen ==
  ASSUME Order, SeenBy, SeenBy', NEW p \in Thread, Journal(p)
  PROVE  UNCHANGED Seen
<1>1. PICK s \in proc[p].left : Journal(p)!(s) BY DEF Journal
<1> DEFINE r == proc[p].run
           k == proc[p].seen[s]
           entry == [from |-> k, due |-> due[s], row |-> log[s][k]]
<1>2. /\ proc[p] \in Local /\ Fits(proc[p]) /\ Underway(proc[p]) /\ proc[p].pc = "journal"
  BY <1>1 DEF Order, Sound, TypeOK, Tracked
<1>3. /\ r \in Run /\ s \in Student /\ sem = proc[p].seen /\ run[r] = "in_progress"
      /\ \A t \in Journalled(r) : item[r][t].from = sem[t]
  BY <1>2 DEF Fits, AtRun, Local, Underway
<1>4. item' = [item EXCEPT ![r][s] = entry] BY <1>1, Zenon
<1>5. entry.from = sem[s] BY <1>3
<1> HIDE DEF entry
<1>6. \A t \in Student : item'[r][t] = IF t = s THEN entry ELSE item[r][t]
  BY <1>3, <1>4 DEF Order, Sound, TypeOK
<1>7. UNCHANGED <<sem, run>> BY <1>1
<1>8. \A t \in Student : Seen[t] = sem[t]
  BY <1>3 DEF SeenBy, Unfinished
<1>9. \A t \in Student : Seen'[t] = sem[t]
  <2>1. \A t \in Student : Seen'[t] = IF item'[r][t] # NoItem THEN item'[r][t].from ELSE sem'[t]
    BY <1>3, <1>7 DEF SeenBy, Unfinished, Journalled
  <2>2. QED BY <1>3, <1>5, <1>6, <1>7, <2>1 DEF Journalled
<1>10. QED BY <1>8, <1>9, SeenEqual

\* The run on its way moves its own students only.
LEMMA MovesSeen ==
  ASSUME SeenBy, SeenBy', NEW r \in Run, Unfinished(r), UNCHANGED <<run, item>>,
         \A s \in Student : sem'[s] = sem[s] \/ s \in Journalled(r)
  PROVE  UNCHANGED Seen
<1>1. \A s \in Student : Seen[s] = IF s \in Journalled(r) THEN item[r][s].from ELSE sem[s]
  BY DEF SeenBy
<1>2. \A s \in Student : Seen'[s] = IF s \in Journalled(r) THEN item[r][s].from ELSE sem'[s]
  BY DEF SeenBy, Unfinished, Journalled
<1>3. QED BY <1>1, <1>2, SeenEqual

\* A run that is applied or restored touches nobody but its own students.
LEMMA OnlyItsOwn ==
  ASSUME Order, NEW p \in Thread, Apply(p) \/ Restore(p)
  PROVE  /\ proc[p].run \in Run /\ IsLast(proc[p].run) /\ UNCHANGED <<run, item>>
         /\ \A s \in Student : sem'[s] = sem[s] \/ s \in Journalled(proc[p].run)
<1>1. proc[p].pc \in Applying \cup Restoring
  BY DEF Apply, Restore, WriteHistory, ResetDues, Move, ApplyAtOnce, RestoreStudent, DeleteDues,
     InsertDues, RestoreHistory, RestoreAtOnce, Restored, Applying, Restoring
<1>2. Fits(proc[p]) /\ LastAt(proc[p]) BY DEF Order, Sound, Undoing
<1>3. proc[p].run \in Run /\ IsLast(proc[p].run) BY <1>1, <1>2 DEF Fits, LastAt, AtRun
<1>4. UNCHANGED <<run, item>>
  BY DEF Apply, Restore, WriteHistory, ResetDues, Move, ApplyAtOnce, RestoreStudent, DeleteDues,
     InsertDues, RestoreHistory, RestoreAtOnce, Restored
<1>5. \A s \in Student : sem'[s] = sem[s] \/ s \in Journalled(proc[p].run)
  <2>1. CASE Move(p) BY <2>1 DEF Move, MovedUp, Batch
  <2>2. CASE ApplyAtOnce(p) BY <2>2 DEF ApplyAtOnce, MovedUp
  <2>3. CASE RestoreStudent(p)
    <3>1. PICK s \in proc[p].left : RestoreStudent(p)!1!(s) BY <2>3 DEF RestoreStudent
    <3>2. sem' = [sem EXCEPT ![s] = item[proc[p].run][s].from] \/ sem' = sem BY <3>1
    <3>3. s \in Journalled(proc[p].run) BY <1>2, <3>1 DEF Fits, Restoring
    <3>4. QED BY <3>2, <3>3 DEF Order, Sound, TypeOK
  <2>4. CASE RestoreAtOnce(p) BY <1>2, <2>4 DEF RestoreAtOnce, Fits, Restoring
  <2>5. CASE /\ ~Move(p) /\ ~ApplyAtOnce(p)
             /\ ~RestoreStudent(p) /\ ~RestoreAtOnce(p)
    <3>1. sem' = sem
      BY <2>5 DEF Apply, Restore, WriteHistory, ResetDues, DeleteDues, InsertDues,
         RestoreHistory, Restored
    <3>2. QED BY <3>1
  <2>6. QED BY <2>1, <2>2, <2>3, <2>4, <2>5
<1>6. QED BY <1>3, <1>4, <1>5

LEMMA ApplySeen ==
  ASSUME Order, SeenBy, SeenBy', NEW p \in Thread, Move(p) \/ ApplyAtOnce(p)
  PROVE  UNCHANGED Seen
<1>1. Unfinished(proc[p].run)
  BY DEF Move, ApplyAtOnce, Order, Applying, Tracked, Underway, Unfinished
<1>2. Apply(p) BY DEF Apply
<1>3. QED BY <1>1, <1>2, OnlyItsOwn, MovesSeen

\* The run is completed: its students are seen to move, all at once.
LEMMA CompleteSeen ==
  ASSUME Order, PlanKept, SeenBy, SeenBy', Order', NEW p \in Thread, Complete(p)
  PROVE  Contract!Promote
<1> DEFINE l == proc[p]
           r == proc[p].run
           J == Planned(l)
<1>1. /\ r \in Run /\ run[r] = "in_progress" /\ PlanAt(l) /\ l.pc = "complete"
      /\ UNCHANGED <<sem, item>> /\ l.seen \in [Student -> {0} \cup Sem]
  BY DEF Complete, Order, Sound, TypeOK, Fits, AtRun, Tracked, Underway, PlanKept, Local
<1>2. J = Journalled(r) /\ J \subseteq Student BY <1>1 DEF Planned, Journalled
<1>3. PICK from \in 0..7, d \in Dept \cup {AllDepts} : J = Movers(l.seen, from, d)
  BY <1>1 DEF PlanAt, Promoting
<1>4. /\ J # {} /\ \A s \in Journalled(r) : item[r][s].from = l.seen[s]
      /\ sem = UpFrom(l.seen, J)
  BY <1>1 DEF PlanAt, Promoting, Applying
<1> HIDE DEF J
<1>5. \A s \in Student : Seen[s] = l.seen[s]
  <2>1. \A s \in Student : Seen[s] = IF s \in Journalled(r) THEN item[r][s].from ELSE sem[s]
    BY <1>1 DEF SeenBy, Unfinished
  <2>2. QED BY <1>2, <1>4, <2>1 DEF UpFrom
<1>6. \A q \in Run : Unfinished(q) => q = r
  BY <1>1 DEF Order, Undoing, InOrder, Undoable, Unfinished, Run
<1>7. run' = [run EXCEPT ![r] = "completed"] BY DEF Complete
<1>8. \A q \in Run : ~(run'[q] \in {"in_progress", "interrupted"})
  BY <1>1, <1>6, <1>7 DEF Unfinished, Order, Sound, TypeOK
<1>9. \A s \in Student : Seen'[s] = IF s \in J THEN Seen[s] + 1 ELSE Seen[s]
  <2>1. \A s \in Student : Seen'[s] = sem[s] BY <1>1, <1>8 DEF SeenBy, Unfinished
  <2>2. QED BY <1>4, <1>5, <2>1 DEF UpFrom
<1>10. J = Contract!Batch(from, d)
  BY <1>3, <1>5 DEF Movers, InScope, Promotable, Contract!Batch
<1>11. Seen' = [s \in Student |-> IF s \in J THEN Seen[s] + 1 ELSE Seen[s]]
  BY <1>9 DEF SeenBy
<1>12. Seen' # Seen
  <2>1. PICK s \in J : TRUE BY <1>4
  <2>2. Seen[s] \in Sem BY <1>2, <2>1 DEF SeenBy
  <2>3. Seen'[s] # Seen[s] BY <1>2, <1>9, <2>1, <2>2 DEF Sem
  <2>4. QED BY <2>3
<1>13. QED BY <1>10, <1>11, <1>12 DEF Contract!Promote

\* Students of a completed run are taken back; those of an unfinished one were
\* never seen to move.
LEMMA RestoreSeen ==
  ASSUME Order, SeenBy, SeenBy', NEW p \in Thread, RestoreStudent(p) \/ RestoreAtOnce(p)
  PROVE  ContractStep
<1> DEFINE r == proc[p].run
           S == {s \in Student : sem'[s] # sem[s]}
<1>1. proc[p].pc = "restore" BY DEF RestoreStudent, RestoreAtOnce
<1>2. Knows(proc[p]) /\ r \in Run /\ IsLast(r) /\ proc[p].left \subseteq Journalled(r)
  BY <1>1, AtRestoring DEF Knows, Restoring, Order
<1>3. UNCHANGED <<run, item>> BY DEF RestoreStudent, RestoreAtOnce
<1>4. \A s \in Student : sem'[s] # sem[s] => s \in Journalled(r) /\ sem'[s] = item[r][s].from
  <2>1. CASE RestoreAtOnce(p) BY <1>2, <2>1 DEF RestoreAtOnce
  <2>2. CASE RestoreStudent(p)
    <3>1. PICK s \in proc[p].left : RestoreStudent(p)!1!(s) BY <2>2 DEF RestoreStudent
    <3>2. sem' = [sem EXCEPT ![s] = item[r][s].from] \/ sem' = sem BY <3>1
    <3>3. QED BY <1>2, <3>1, <3>2 DEF Order, Sound, TypeOK
  <2>3. QED BY <2>1, <2>2
<1>5. CASE Unfinished(r)
  BY <1>2, <1>3, <1>4, <1>5, MovesSeen DEF ContractStep
<1>6. CASE ~Unfinished(r)
  <2>1. \A q \in Run : ~Unfinished(q)
    BY <1>2, <1>6 DEF IsLast, Order, Undoing, InOrder, Undoable, Run
  <2>2. \A s \in Student : Seen[s] = sem[s] /\ Seen'[s] = sem'[s]
    BY <1>3, <2>1 DEF SeenBy, Unfinished
  <2>3. \A s \in Student : sem'[s] # sem[s] => sem[s] > 1 /\ sem'[s] = sem[s] - 1
    <3>1. ASSUME NEW s \in Student, sem'[s] # sem[s] PROVE sem[s] > 1 /\ sem'[s] = sem[s] - 1
      <4>1. s \in Journalled(r) /\ sem'[s] = item[r][s].from BY <1>4, <3>1
      <4>2. item[r][s].from \in Promotable /\ sem[s] \in {item[r][s].from, item[r][s].from + 1}
        BY <1>2, <4>1 DEF Knows, Item
      <4>3. QED BY <3>1, <4>1, <4>2 DEF Promotable
    <3>2. QED BY <3>1
  <2>4. S \in SUBSET {s \in Student : Seen[s] > 1} BY <2>2, <2>3
  <2>5. \A s \in Student : Seen'[s] = IF s \in S THEN Seen[s] - 1 ELSE Seen[s]
    BY <2>2, <2>3
  <2>6. Seen' = [s \in Student |-> IF s \in S THEN Seen[s] - 1 ELSE Seen[s]]
    BY <2>5 DEF SeenBy
  <2> HIDE DEF S
  <2>7. QED BY <2>4, <2>6 DEF ContractStep, Contract!TakeBack
<1>7. QED BY <1>5, <1>6

\* A run ends undone when its students are where they were seen, and an
\* interrupted run is as unfinished as before.
LEMMA MarkSeen ==
  ASSUME Order, SeenBy, SeenBy', Order', NEW p \in Thread, Mark(p) \/ Interrupt(p)
  PROVE  UNCHANGED Seen
<1> DEFINE r == proc[p].run
<1>1. CASE Mark(p)
  <2>1. /\ r \in Run /\ IsLast(r) /\ Closes(r) /\ \A q \in Run \ {r} : run'[q] = run[q]
    BY <1>1, Closing DEF Knows, Order
  <2>2. UNCHANGED <<sem, item>> /\ run'[r] \in Verdicts BY <2>1 DEF Closes
  <2>3. \A q \in Run : ~(run'[q] \in {"in_progress", "interrupted"})
    <3>1. \A q \in Run : Unfinished(q) => q = r
      BY <2>1 DEF IsLast, Order, Undoing, InOrder, Undoable, Unfinished, Run
    <3>2. QED BY <2>1, <2>2, <3>1 DEF Unfinished, Verdicts
  <2>4. \A s \in Student : Seen'[s] = sem[s] BY <2>2, <2>3 DEF SeenBy, Unfinished
  <2>5. \A s \in Journalled(r) : sem[s] = item[r][s].from BY <2>1 DEF Closes, Back
  <2>6. \A s \in Student : Seen[s] = sem[s]
    <3>1. CASE Unfinished(r) BY <2>1, <2>5, <3>1 DEF SeenBy
    <3>2. CASE ~Unfinished(r)
      <4>1. \A q \in Run : ~Unfinished(q)
        BY <2>1, <3>2 DEF IsLast, Order, Undoing, InOrder, Undoable, Run
      <4>2. QED BY <4>1 DEF SeenBy
    <3>3. QED BY <3>1, <3>2
  <2>7. QED BY <2>4, <2>6, SeenEqual
<1>2. CASE Interrupt(p)
  <2>1. UNCHANGED <<sem, item>> BY <1>2 DEF Interrupt
  <2>2. \A q \in Run : Unfinished(q)' <=> Unfinished(q)
    BY <1>2 DEF Interrupt, Unfinished, Order, Sound, TypeOK
  <2>3. CASE \E q \in Run : Unfinished(q)
    <3>1. PICK q \in Run : Unfinished(q) BY <2>3
    <3>2. \A s \in Student : Seen[s] = IF s \in Journalled(q) THEN item[q][s].from ELSE sem[s]
      BY <3>1 DEF SeenBy
    <3>3. \A s \in Student : Seen'[s] = IF s \in Journalled(q) THEN item[q][s].from ELSE sem[s]
      BY <2>1, <2>2, <3>1 DEF SeenBy, Journalled
    <3>4. QED BY <3>2, <3>3, SeenEqual
  <2>4. CASE \A q \in Run : ~Unfinished(q)
    BY <2>1, <2>2, <2>4, SeenEqual DEF SeenBy
  <2>5. QED BY <2>3, <2>4
<1>3. QED BY <1>1, <1>2

LEMMA StepImplements == Calm /\ Order /\ PlanKept /\ [Next]_vars => ContractStep
<1> SUFFICES ASSUME Calm, Order, PlanKept, [Next]_vars PROVE ContractStep
  OBVIOUS
<1>1. SeenBy /\ SeenBy' /\ Order' BY SeenAfter
<1>2. Sound /\ Undoing BY DEF Order
<1>3. CASE UNCHANGED <<txn, sem, due, log, run, item, proc>>
  BY <1>3, SameSeen DEF ContractStep
<1>4. ASSUME NEW p \in Thread,
             \/ Edge(p) \/ Plain(p) \/ Apply(p) \/ Find(p) \/ Restore(p)
             \/ Begin(p) \/ Journal(p) \/ Complete(p) \/ Interrupt(p) \/ Mark(p)
      PROVE  ContractStep
  <2>1. CASE \/ Edge(p) \/ Plain(p) \/ Find(p) \/ WriteHistory(p) \/ ResetDues(p)
             \/ DeleteDues(p) \/ InsertDues(p) \/ RestoreHistory(p) \/ Restored(p)
    BY <2>1, QuietSteps DEF ContractStep
  <2>2. CASE Begin(p) \/ Journal(p) \/ Interrupt(p) \/ Mark(p)
    BY <1>1, <2>2, BeginSeen, JournalSeen, MarkSeen DEF ContractStep
  <2>3. CASE Move(p) \/ ApplyAtOnce(p) BY <1>1, <2>3, ApplySeen DEF ContractStep
  <2>4. CASE Complete(p) BY <1>1, <2>4, CompleteSeen DEF ContractStep
  <2>5. CASE RestoreStudent(p) \/ RestoreAtOnce(p) BY <1>1, <2>5, RestoreSeen
  <2>6. QED BY <1>4, <2>1, <2>2, <2>3, <2>4, <2>5 DEF Apply, Restore
<1>5. QED BY <1>2, <1>3, <1>4, EveryStep

\* Read through the journal, the portal keeps the contract of a promotion: the
\* students of a semester, in all departments or in one, are promoted together
\* or not at all, and only the undo of a completed run takes students back,
\* through every failure, kill and recovery.
THEOREM PromotionRefines == Calm => (Spec => ImplementsContract)
<1> SUFFICES ASSUME Calm PROVE Spec => ImplementsContract
  OBVIOUS
<1>1. Init => Contract!Init
  <2>1. ASSUME Init PROVE Contract!Init
    <3>1. SeenBy BY <2>1, SoundInit, UndoingInit, SeenWhere DEF Undoing
    <3>2. \A r \in Run : ~Unfinished(r) BY <2>1 DEF Init, Unfinished
    <3>3. sem \in [Student -> Sem] /\ sem \in StartSems BY <2>1, SetsAssumption DEF Init
    <3>4. Seen = sem BY <3>1, <3>2, <3>3 DEF SeenBy
    <3>5. QED BY <3>3, <3>4 DEF Contract!Init
  <2>2. QED BY <2>1
<1>2. Spec => [](Order /\ PlanKept) BY PlanAlways
<1>3. Order /\ PlanKept /\ [Next]_vars => [Contract!Promote \/ Contract!TakeBack]_Seen
  BY StepImplements DEF ContractStep
<1>4. QED BY <1>1, <1>2, <1>3, PTL DEF Spec, ImplementsContract, Contract!Spec

-----------------------------------------------------------------------------
(***************************************************************************)
(* One semester per department and year.                                   *)
(***************************************************************************)

LEMMA YearInRange ==
  ASSUME NEW k \in Sem
  PROVE  Year(k) \in 1..4
BY DEF Sem, Year

LEMMA EvenIsWhole ==
  ASSUME NEW roster, EvenRoster(roster)
  PROVE  MixedClasses(roster) = {}
BY DEF EvenRoster, MixedClasses

\* check_promotion keeps the classes whole: who is moved joins nobody who
\* stays, and the simulated classes are not mixed.
LEMMA PromotesEven ==
  ASSUME Sound, EvenRoster(sem), NEW from \in 0..7, NEW d, MayPromote(from, d)
  PROVE  EvenRoster(UpFrom(sem, Moving(from, d)))
<1> DEFINE S == Moving(from, d)
           up == UpFrom(sem, S)
<1>1. /\ \A s \in S, t \in Student \ S : DeptOf[t] = DeptOf[s] => Year(sem[t]) # Year(sem[s] + 1)
      /\ \A s \in S : <<DeptOf[s], Year(sem[s] + 1)>> \notin MixedClasses(MovedUp(S))
  BY DEF MayPromote
<1>2. S \subseteq Student /\ \A s \in S : sem[s] + 1 \in Sem
  BY DEF Moving, Promotable, Sem
<1>3. up = MovedUp(S) BY DEF UpFrom, MovedUp
<1>4. \A s \in Student : up[s] = IF s \in S THEN sem[s] + 1 ELSE sem[s] BY DEF UpFrom
<1> HIDE DEF S, up
<1>5. ASSUME NEW s \in Student, NEW t \in Student, DeptOf[s] = DeptOf[t],
             Year(up[s]) = Year(up[t])
      PROVE  up[s] = up[t]
  <2>1. CASE s \in S /\ t \in S
    <3>1. /\ <<DeptOf[s], Year(up[s])>> \notin MixedClasses(up)
          /\ Year(up[s]) \in 1..4 /\ DeptOf[s] \in Dept
      BY <1>1, <1>2, <1>3, <1>4, <2>1, YearInRange, SetsAssumption
    <3>2. QED BY <1>5, <3>1 DEF MixedClasses
  <2>2. CASE s \in S /\ t \notin S BY <1>1, <1>4, <1>5, <2>2
  <2>3. CASE s \notin S /\ t \in S BY <1>1, <1>4, <1>5, <2>3
  <2>4. CASE s \notin S /\ t \notin S BY <1>4, <1>5, <2>4 DEF EvenRoster
  <2>5. QED BY <2>1, <2>2, <2>3, <2>4
<1>6. QED BY <1>5 DEF EvenRoster, up, S

\* p steps, and leaves things even.
LEMMA EvenOf ==
  ASSUME NEW p \in Thread, Alone(p),
         \A r \in Run : Undoable(r)' => EvenBefore(r)',
         (\A r \in Run : ~Unfinished(r)') /\ proc'[p].pc \notin Restoring => EvenRoster(sem)',
         proc'[p].pc \in Restoring /\ p \notin Undoer => Unfinished(proc[p].run)',
         proc'[p].pc \in Promoting => EvenRoster(UpFrom(proc[p].seen, Planned(proc[p])))'
  PROVE  Even'
<1>1. \A q \in Thread \ {p} : proc'[q].pc = "idle" BY DEF Alone
<1>2. ASSUME NEW q \in Thread
      PROVE  /\ proc'[q].pc \in Restoring /\ q \notin Undoer => Unfinished(proc[q].run)'
             /\ proc'[q].pc \in Promoting => EvenRoster(UpFrom(proc[q].seen, Planned(proc[q])))'
  BY <1>1 DEF Restoring, Promoting, Applying
<1>3. QED BY <1>1, <1>2 DEF Even

\* Nothing is added to what undoing a run would lead to.
LEMMA NothingAdded ==
  ASSUME \A r \in Run : Undoable(r) => EvenBefore(r),
         \A r \in Run : Undoable(r)' =>
            /\ Undoable(r)
            /\ \A s \in Student : \A k \in Sem : UndoneTo(r, s, k)' => UndoneTo(r, s, k)
  PROVE  \A r \in Run : Undoable(r)' => EvenBefore(r)'
BY DEF EvenBefore

\* The last run moves its own students only.
LEMMA OwnUndone ==
  ASSUME NEW r \in Run, IsLast(r), UNCHANGED <<run, item>>,
         \A s \in Student : sem'[s] = sem[s] \/ s \in Journalled(r)
  PROVE  \A q \in Run : Undoable(q)' =>
            /\ Undoable(q)
            /\ \A s \in Student : \A k \in Sem : UndoneTo(q, s, k)' => UndoneTo(q, s, k)
<1>1. \A q \in Run : \A s \in Student : (Holds(q, s)' <=> Holds(q, s)) /\ item'[q][s] = item[q][s]
  BY DEF Holds, Undoable, Unfinished, Journalled
<1>2. ASSUME NEW q \in Run, Undoable(q)' PROVE Undoable(q) /\ q <= r
  BY <1>2 DEF IsLast, Undoable, Unfinished
<1>3. ASSUME NEW q \in Run, Undoable(q)', NEW s \in Student, NEW k \in Sem, UndoneTo(q, s, k)'
      PROVE  UndoneTo(q, s, k)
  <2>1. r >= q BY <1>2, <1>3 DEF Run
  <2>2. CASE sem'[s] = k /\ \A x \in Run : x >= q => ~Holds(x, s)'
    <3>1. ~Holds(r, s) BY <1>1, <2>1, <2>2
    <3>2. sem[s] = k BY <2>2, <3>1, LastHolds DEF Holds
    <3>3. QED BY <1>1, <2>2, <3>2 DEF UndoneTo
  <2>3. CASE \E x \in Run : /\ x >= q /\ Holds(x, s)' /\ item'[x][s].from = k
                            /\ \A y \in Run : q <= y /\ y < x => ~Holds(y, s)'
    BY <1>1, <2>3 DEF UndoneTo
  <2>4. QED BY <1>3, <2>2, <2>3 DEF UndoneTo
<1>4. QED BY <1>2, <1>3

\* The students of a run that ends are back: what undoing it would lead to is here.
LEMMA EndEven ==
  ASSUME Order, \A r \in Run : Undoable(r) => EvenBefore(r), NEW p \in Thread, Mark(p)
  PROVE  /\ EvenRoster(sem)'
         /\ \A r \in Run : Undoable(r)' => EvenBefore(r)'
<1> DEFINE r == proc[p].run
<1>1. /\ r \in Run /\ IsLast(r) /\ Closes(r) /\ Undoable(r) /\ Sound
  BY Closing, LastHolds DEF Knows, Order
<1>2. sem' = sem BY <1>1 DEF Closes
<1>3. ASSUME NEW s \in Student PROVE UndoneTo(r, s, sem[s]) /\ sem[s] \in Sem
  <2>1. \A q \in Run : q >= r => q = r \/ ~Holds(q, s) BY <1>1, LastHolds DEF Run
  <2>2. CASE Holds(r, s)
    <3>1. item[r][s].from = sem[s] BY <1>1, <2>2 DEF Holds, Closes, Back
    <3>2. r >= r /\ ~\E x \in Run : r <= x /\ x < r BY <1>1 DEF Run
    <3>3. QED BY <1>1, <2>2, <3>1, <3>2 DEF UndoneTo, Sound, TypeOK
  <2>3. CASE ~Holds(r, s) BY <1>1, <2>1, <2>3 DEF UndoneTo, Sound, TypeOK
  <2>4. QED BY <2>2, <2>3
<1>4. EvenBefore(r) BY <1>1
<1>5. \A s, t \in Student :
            DeptOf[s] = DeptOf[t] /\ Year(sem'[s]) = Year(sem'[t]) => sem'[s] = sem'[t]
  BY <1>2, <1>3, <1>4 DEF EvenBefore
<1>6. EvenRoster(sem)' BY <1>5 DEF EvenRoster
<1>7. \A q \in Run : Undoable(q)' => Undoable(q) /\ q <= r
  <2>1. \A q \in Run \ {r} : run'[q] = run[q] BY Closing DEF Order
  <2>2. run'[r] \in Verdicts BY <1>1 DEF Closes
  <2>3. \A q \in Run : Undoable(q)' => Undoable(q)
    BY <2>1, <2>2 DEF Undoable, Unfinished, Verdicts
  <2>4. QED BY <1>1, <2>3 DEF IsLast, Undoable
<1>8. \A q \in Run : Undoable(q)' =>
            /\ Undoable(q)
            /\ \A s \in Student : \A k \in Sem : UndoneTo(q, s, k)' => UndoneTo(q, s, k)
  BY <1>1, <1>7, CloseUndone
<1>9. QED BY <1>6, <1>8, NothingAdded

LEMMA BeginEven ==
  ASSUME Order, Even, NEW p \in Thread, Begin(p)
  PROVE  Even'
<1>1. PICK from \in 0..7, d \in Dept \cup {AllDepts}, r \in Run : Begin(p)!(from, d, r)
  BY DEF Begin
<1> DEFINE S == Moving(from, d)
           l == [Idle EXCEPT !.pc = "journal", !.run = r, !.seen = sem, !.left = S,
                             !.sems = {sem[s] : s \in S}, !.mixed = MixedClasses(sem)]
<1>2. proc' = [proc EXCEPT ![p] = l] BY <1>1, Zenon
<1>3. l.pc = "journal" /\ l.run = r /\ l.seen = sem /\ l.left = S BY DEF Idle
<1> HIDE DEF l
<1>4. proc'[p] = l /\ \A q \in Thread \ {p} : proc'[q] = proc[q]
  BY <1>2 DEF Order, Sound, TypeOK
<1>5. Alone(p) BY <1>1, <1>4, AtWork DEF Order
<1>6. /\ run[r] = "none" /\ run'[r] = "in_progress" /\ \A q \in Run \ {r} : run'[q] = run[q]
      /\ UNCHANGED <<sem, log, item>> /\ Journalled(r) = {}
      /\ \A q \in Run : run[q] = "none" => r <= q
  BY <1>1 DEF Order, Sound, TypeOK, Tracked, Unwritten
<1>7. \A q \in Run : ~Unfinished(q) BY <1>1 DEF Order, Undoing, LastAt
<1>8. EvenRoster(sem)
  <2>1. \A q \in Thread : proc[q].pc \notin Restoring
    BY <1>1, <1>5 DEF Alone, Restoring
  <2>2. QED BY <1>7, <2>1 DEF Even
<1>9. EvenRoster(UpFrom(sem, S)) BY <1>1, <1>8, PromotesEven DEF Order
<1> HIDE DEF S
<1>10. Planned(proc[p])' = S
  <2>1. Journalled(proc[p].run)' = {} BY <1>3, <1>4, <1>6 DEF Journalled
  <2>2. QED BY <1>3, <1>4, <2>1 DEF Planned
<1>11. EvenRoster(UpFrom(proc[p].seen, Planned(proc[p])))'
  BY <1>3, <1>4, <1>9, <1>10 DEF EvenRoster, UpFrom
<1>12. \A q \in Run : \A s \in Student : (Holds(q, s)' <=> Holds(q, s)) /\ item'[q][s] = item[q][s]
  BY <1>6 DEF Holds, Undoable, Unfinished, Journalled
<1>13. SameHeld BY <1>12 DEF SameHeld
<1>14. \A q \in Run : \A s \in Student : \A k : UndoneTo(q, s, k)' => UndoneTo(q, s, k)
  BY <1>6, <1>13, SameUndone
<1>15. ASSUME NEW q \in Run, Undoable(q)' PROVE EvenBefore(q)'
  <2>1. CASE q = r
    <3>1. \A x \in Run : x >= r => run[x] = "none"
      BY <1>6 DEF Order, Undoing, InOrder, Run
    <3>2. \A s \in Student : \A k : UndoneTo(r, s, k) => k = sem[s]
      BY <3>1 DEF UndoneTo, Holds, Undoable, Unfinished
    <3>3. QED BY <1>8, <1>14, <2>1, <3>2 DEF EvenBefore, EvenRoster
  <2>2. CASE q # r
    <3>1. EvenBefore(q) BY <1>6, <1>15, <2>2 DEF Even, Undoable, Unfinished
    <3>2. QED BY <1>14, <3>1 DEF EvenBefore
  <2>3. QED BY <2>1, <2>2
<1>16. Unfinished(r)' BY <1>6 DEF Unfinished
<1>17. proc'[p].pc \notin Restoring BY <1>3, <1>4 DEF Restoring
<1>18. QED BY <1>5, <1>11, <1>15, <1>16, <1>17, EvenOf

\* A step that changes no semester, no entry and no run that can be undone.
LEMMA QuietEven ==
  ASSUME Order, Even, NEW p \in Thread, Alone(p), UNCHANGED <<sem, log, item>>,
         \A r \in Run : Undoable(r)' <=> Undoable(r),
         (\A r \in Run : ~Unfinished(r)') /\ proc'[p].pc \notin Restoring => EvenRoster(sem),
         proc'[p].pc \in Restoring /\ p \notin Undoer => Unfinished(proc[p].run)',
         proc'[p].pc \in Promoting => /\ proc[p].pc \in Promoting
                                      /\ proc'[p].seen = proc[p].seen
                                      /\ Planned(proc[p])' = Planned(proc[p])
  PROVE  Even'
<1>1. SameHeld BY DEF SameHeld, Holds, Journalled
<1>2. \A r \in Run : Undoable(r)' => EvenBefore(r)'
  BY <1>1, SameUndone, NothingAdded DEF Even
<1>3. proc'[p].pc \in Promoting => EvenRoster(UpFrom(proc[p].seen, Planned(proc[p])))'
  BY DEF Even, EvenRoster, UpFrom
<1>4. EvenRoster(sem) => EvenRoster(sem)' BY DEF EvenRoster
<1>5. QED BY <1>2, <1>3, <1>4, EvenOf

\* Nobody restores, and the runs are as they were.
LEMMA AsideEven ==
  ASSUME Even, NEW p \in Thread, Alone(p), proc[p].pc \notin Restoring,
         \A r \in Run : Unfinished(r)' <=> Unfinished(r)
  PROVE  (\A r \in Run : ~Unfinished(r)') => EvenRoster(sem)
<1>1. \A q \in Thread : proc[q].pc \notin Restoring BY DEF Alone, Restoring
<1>2. QED BY <1>1 DEF Even

\* Whoever is killed while restoring leaves an unfinished run.
LEMMA EdgeEven ==
  ASSUME Undoer \cap Killable = {}, Order, Even, NEW p \in Thread, Edge(p)
  PROVE  Even'
<1>1. /\ Alone(p) /\ UNCHANGED <<sem, log, run, item>>
      /\ proc'[p].pc \notin Restoring \cup Promoting
  BY AtEdge DEF Order, Restoring, Promoting, Applying
<1>2. \A r \in Run : /\ Undoable(r)' <=> Undoable(r)
                     /\ Unfinished(r)' <=> Unfinished(r)
  BY <1>1 DEF Undoable, Unfinished
<1>3. (\A r \in Run : ~Unfinished(r)') => EvenRoster(sem)
  <2>1. CASE proc[p].pc \notin Restoring BY <1>1, <1>2, <2>1, AsideEven
  <2>2. CASE proc[p].pc \in Restoring
    <3>1. Crash(p)
      BY <2>2 DEF Edge, StartPromotion, StartUndo, StartRecovery, Acquire, Release, Refuse, Restoring
    <3>2. p \notin Undoer BY <3>1 DEF Crash
    <3>3. Unfinished(proc[p].run) /\ proc[p].run \in Run
      BY <2>2, <3>2 DEF Even, Order, Sound, Fits, AtRun
    <3>4. QED BY <1>2, <3>3
  <2>3. QED BY <2>1, <2>2
<1>4. QED BY <1>1, <1>2, <1>3, QuietEven

\* The run to be restored is unfinished, or an undoer restores it.
LEMMA FindEven ==
  ASSUME Order, Even, NEW p \in Thread, Find(p)
  PROVE  Even'
<1>1. /\ proc \in [Thread -> Local] /\ proc[p].pc \in {"undo_check", "recover"}
      /\ UNCHANGED <<sem, log, run, item>>
  BY DEF Order, Sound, TypeOK, Find, UndoCheck, Recover
<1>2. /\ \A q \in Thread \ {p} : proc'[q] = proc[q]
      /\ \/ proc'[p].pc \in {"check", "release"}
         \/ proc'[p].pc = "restore" /\ (p \in Undoer \/ Unfinished(proc'[p].run))
  <2>1. CASE p \in Undoer /\ UndoCheck(p)
    <3>1. PICK r \in Run : UndoCheck(p)!(r) BY <2>1 DEF UndoCheck
    <3>2. proc' = [proc EXCEPT ![p].pc = "restore", ![p].run = r,
                                ![p].verdict = "rolled_back", ![p].left = Journalled(r)]
      BY <3>1
    <3>3. QED BY <1>1, <2>1, <3>2 DEF Local
  <2>2. CASE Recover(p) /\ Goto(p, proc[p].then)
    BY <1>1, <2>2 DEF Goto, Local
  <2>3. CASE Recover(p) /\ ~Goto(p, proc[p].then)
    <3>1. PICK r \in Run :
            /\ Unfinished(r)
            /\ proc' = [proc EXCEPT ![p].pc = "restore", ![p].run = r,
                                    ![p].verdict = "auto_recovered", ![p].left = Journalled(r)]
      BY <2>3 DEF Recover
    <3>2. QED BY <1>1, <3>1 DEF Local
  <2>4. QED BY <2>1, <2>2, <2>3 DEF Find
<1>3. Alone(p) BY <1>1, <1>2, AtWork DEF Order
<1>4. \A r \in Run : /\ Undoable(r)' <=> Undoable(r)
                     /\ Unfinished(r)' <=> Unfinished(r)
  BY <1>1 DEF Undoable, Unfinished
<1>5. (\A r \in Run : ~Unfinished(r)') => EvenRoster(sem)
  BY <1>1, <1>3, <1>4, AsideEven DEF Restoring
<1>6. proc'[p].pc \in Restoring /\ p \notin Undoer => Unfinished(proc[p].run)'
  BY <1>1, <1>2 DEF Restoring, Unfinished
<1>7. proc'[p].pc \notin Promoting BY <1>2 DEF Promoting, Applying
<1>8. QED BY <1>1, <1>3, <1>4, <1>5, <1>6, <1>7, QuietEven

\* The integrity check finds nothing to undo.
LEMMA PlainEven ==
  ASSUME Order, Even, NEW p \in Thread, Plain(p)
  PROVE  Even'
<1>1. /\ proc \in [Thread -> Local] /\ Fits(proc[p]) /\ Underway(proc[p]) /\ LastAt(proc[p])
      /\ proc[p].pc \in {"journal", "complete", "verify"} \cup Applying
      /\ UNCHANGED <<sem, log, run, item>>
  BY DEF Order, Sound, TypeOK, Tracked, Undoing, Plain, StartApply, Extend, Verify, ApplyFails,
         RunFails, Applying
<1>2. \A r \in Run : /\ Undoable(r)' <=> Undoable(r)
                     /\ Unfinished(r)' <=> Unfinished(r)
  BY <1>1 DEF Undoable, Unfinished
<1>3. ASSUME \A q \in Thread \ {p} : proc'[q] = proc[q],
             proc'[p].pc \in Restoring => Unfinished(proc[p].run)',
             proc'[p].pc \in Promoting => /\ proc'[p].seen = proc[p].seen
                                          /\ Planned(proc[p])' = Planned(proc[p])
      PROVE  Even'
  <2>1. Alone(p) BY <1>1, <1>3, AtWork DEF Order, Applying
  <2>2. (\A r \in Run : ~Unfinished(r)') => EvenRoster(sem)
    BY <1>1, <1>2, <2>1, AsideEven DEF Restoring, Applying
  <2>3. proc'[p].pc \in Promoting => proc[p].pc \in Promoting
    <3>1. proc[p].pc = "verify" => proc'[p].pc \notin Promoting
      <4>1. ASSUME proc[p].pc = "verify" PROVE proc'[p].pc \in {"release", "restore", "interrupt"}
        BY <1>1, <4>1 DEF Plain, StartApply, Extend, Verify, ApplyFails, RunFails, Goto, Applying, Local
      <4>2. QED BY <4>1 DEF Promoting, Applying
    <3>2. QED BY <1>1, <3>1 DEF Promoting, Applying
  <2>4. QED BY <1>1, <1>2, <1>3, <2>1, <2>2, <2>3, QuietEven
<1>4. CASE StartApply(p)
  <2>1. /\ proc'[p].pc = "extend" /\ proc'[p].run = proc[p].run /\ proc'[p].seen = proc[p].seen
        /\ proc[p].left = {} /\ proc[p].pc = "journal"
        /\ \A q \in Thread \ {p} : proc'[q] = proc[q]
    BY <1>1, <1>4 DEF StartApply, Goto, Local
  <2>2. Planned(proc[p])' = Planned(proc[p]) BY <1>1, <2>1 DEF Planned, Journalled
  <2>3. QED BY <1>3, <2>1, <2>2 DEF Restoring
<1>5. CASE Extend(p)
  <2>1. /\ proc'[p].pc = "history" /\ proc'[p].run = proc[p].run /\ proc'[p].seen = proc[p].seen
        /\ proc[p].pc = "extend" /\ \A q \in Thread \ {p} : proc'[q] = proc[q]
    BY <1>1, <1>5 DEF Extend, Local
  <2>2. Planned(proc[p])' = Planned(proc[p]) BY <1>1, <2>1 DEF Planned, Journalled
  <2>3. QED BY <1>3, <2>1, <2>2 DEF Restoring
<1>6. CASE Verify(p)
  <2>1. proc[p].run \in Run /\ IsLast(proc[p].run) /\ run[proc[p].run] = "completed"
    BY <1>1, <1>6 DEF Verify, Fits, LastAt, AtRun, Underway
  <2>2. \A r \in Run : ~Unfinished(r)
    BY <2>1 DEF IsLast, Order, Undoing, InOrder, Undoable, Unfinished, Run
  <2>3. \A q \in Thread : proc[q].pc \notin Restoring
    BY <1>6 DEF Verify, Order, Exclusion, OneAtATime, Restoring
  <2>4. MixedClasses(sem) = {} BY <2>2, <2>3, EvenIsWhole DEF Even
  <2>5. Goto(p, "release") BY <1>6, <2>4 DEF Verify
  <2>6. proc'[p].pc = "release" /\ \A q \in Thread \ {p} : proc'[q] = proc[q]
    BY <1>1, <2>5 DEF Goto, Local
  <2>7. QED BY <1>3, <2>6 DEF Restoring, Promoting, Applying
<1>7. CASE ApplyFails(p)
  <2>1. /\ proc'[p].pc \in {"mark", "restore"} /\ proc'[p].run = proc[p].run
        /\ \A q \in Thread \ {p} : proc'[q] = proc[q]
    BY <1>1, <1>7 DEF ApplyFails, Local
  <2>2. run[proc[p].run] = "in_progress" BY <1>1, <1>7 DEF ApplyFails, Underway
  <2>3. QED BY <1>1, <1>3, <2>1, <2>2 DEF Promoting, Applying, Unfinished
<1>8. CASE RunFails(p)
  <2>1. proc'[p].pc = "interrupt" /\ \A q \in Thread \ {p} : proc'[q] = proc[q]
    BY <1>1, <1>8 DEF RunFails, Goto, Local
  <2>2. QED BY <1>3, <2>1 DEF Restoring, Promoting, Applying
<1>9. QED BY <1>4, <1>5, <1>6, <1>7, <1>8 DEF Plain

\* Who is moved was planned.
LEMMA ApplyEven ==
  ASSUME Order, Even, NEW p \in Thread, Apply(p)
  PROVE  Even'
<1>1. /\ proc \in [Thread -> Local] /\ Underway(proc[p]) /\ proc[p].pc \in Applying
  BY DEF Order, Sound, TypeOK, Tracked, Apply, WriteHistory, ResetDues, Move, ApplyAtOnce, Applying
<1>2. /\ proc[p].run \in Run /\ IsLast(proc[p].run) /\ UNCHANGED <<run, item>>
      /\ \A s \in Student : sem'[s] = sem[s] \/ s \in Journalled(proc[p].run)
  BY OnlyItsOwn
<1>3. \A r \in Run : Undoable(r)' => EvenBefore(r)'
  BY <1>2, OwnUndone, NothingAdded DEF Even
<1>4. /\ proc'[p].pc \in {"complete"} \cup Applying
      /\ proc'[p].run = proc[p].run /\ proc'[p].seen = proc[p].seen
      /\ \A q \in Thread \ {p} : proc'[q] = proc[q]
  <2>1. CASE WriteHistory(p) BY <1>1, <2>1 DEF WriteHistory, Local
  <2>2. CASE ResetDues(p) BY <1>1, <2>2 DEF ResetDues, Goto, Local, Applying
  <2>3. CASE Move(p) BY <1>1, <2>3 DEF Move, Local, Applying
  <2>4. CASE ApplyAtOnce(p) BY <1>1, <2>4 DEF ApplyAtOnce, Goto, Local
  <2>5. QED BY <2>1, <2>2, <2>3, <2>4 DEF Apply
<1>5. Alone(p) BY <1>1, <1>4, AtWork DEF Order, Applying
<1>6. Unfinished(proc[p].run) /\ \A r \in Run : Unfinished(r)' <=> Unfinished(r)
  BY <1>1, <1>2 DEF Underway, Unfinished
<1>7. Planned(proc[p])' = Planned(proc[p])
  BY <1>1, <1>2, <1>4 DEF Planned, Journalled, Applying
<1>8. EvenRoster(UpFrom(proc[p].seen, Planned(proc[p])))'
  BY <1>1, <1>4, <1>7 DEF Even, Promoting, EvenRoster, UpFrom
<1>9. proc'[p].pc \notin Restoring BY <1>4 DEF Restoring, Applying
<1>10. QED BY <1>2, <1>3, <1>5, <1>6, <1>8, <1>9, EvenOf

LEMMA RestoreEven ==
  ASSUME Order, Even, NEW p \in Thread, Restore(p)
  PROVE  Even'
<1>1. proc \in [Thread -> Local] /\ proc[p].pc \in Restoring
  BY DEF Order, Sound, TypeOK, Restore, RestoreStudent, DeleteDues, InsertDues, RestoreHistory,
     RestoreAtOnce, Restored, Restoring
<1>2. /\ proc[p].run \in Run /\ IsLast(proc[p].run) /\ UNCHANGED <<run, item>>
      /\ \A s \in Student : sem'[s] = sem[s] \/ s \in Journalled(proc[p].run)
  BY OnlyItsOwn
<1>3. \A r \in Run : Undoable(r)' => EvenBefore(r)'
  BY <1>2, OwnUndone, NothingAdded DEF Even
<1>4. /\ proc'[p].pc \in Restoring /\ proc'[p].run = proc[p].run
      /\ \A q \in Thread \ {p} : proc'[q] = proc[q]
  <2>1. CASE RestoreStudent(p)
    <3>1. PICK s \in proc[p].left : RestoreStudent(p)!1!(s) BY <2>1 DEF RestoreStudent
    <3>2. \/ proc' = [proc EXCEPT ![p].pc = "delete", ![p].cur = s, ![p].left = @ \ {s}]
          \/ proc' = [proc EXCEPT ![p].left = @ \ {s}]
      BY <3>1
    <3>3. QED BY <1>1, <3>2 DEF Local, Restoring
  <2>2. CASE DeleteDues(p) \/ InsertDues(p) \/ Restored(p)
    BY <1>1, <2>2 DEF DeleteDues, InsertDues, Restored, Goto, Local, Restoring
  <2>3. CASE RestoreHistory(p) \/ RestoreAtOnce(p)
    BY <1>1, <2>3 DEF RestoreHistory, RestoreAtOnce, Local, Restoring
  <2>4. QED BY <2>1, <2>2, <2>3 DEF Restore
<1>5. Alone(p) BY <1>1, <1>4, AtWork DEF Order, Restoring
<1>6. p \notin Undoer => Unfinished(proc[p].run)' BY <1>1, <1>2, <1>4 DEF Even, Unfinished
<1>7. proc'[p].pc \notin Promoting BY <1>4 DEF Promoting, Applying, Restoring
<1>8. QED BY <1>3, <1>4, <1>5, <1>6, <1>7, EvenOf

LEMMA JournalEven ==
  ASSUME Order, Even, NEW p \in Thread, Journal(p)
  PROVE  Even'
<1> DEFINE r == proc[p].run
<1>1. /\ r \in Run /\ IsLast(r) /\ run[r] = "in_progress" /\ UNCHANGED <<sem, run>>
      /\ Alone(p) /\ proc'[p].pc = "journal"
  BY Journalling DEF Order
<1>2. PICK s \in Student : Journals(r, s) BY Journalling DEF Order
<1>3. \A q \in Run : Undoable(q)' =>
            /\ Undoable(q)
            /\ \A t \in Student : \A k \in Sem : UndoneTo(q, t, k)' => UndoneTo(q, t, k)
  BY <1>1, <1>2, JournalUndone DEF Undoable, Unfinished
<1>4. \A q \in Run : Undoable(q)' => EvenBefore(q)' BY <1>3, NothingAdded DEF Even
<1>5. Unfinished(r)' BY <1>1, JournalPlanned DEF Unfinished
<1>6. EvenRoster(UpFrom(proc[p].seen, Planned(proc[p])))'
  <2>1. proc[p].pc \in Promoting BY DEF Journal, Promoting
  <2>2. EvenRoster(UpFrom(proc[p].seen, Planned(proc[p]))) BY <2>1 DEF Even
  <2>3. proc'[p].seen = proc[p].seen /\ Planned(proc[p])' = Planned(proc[p])
    BY JournalPlanned
  <2>4. QED BY <2>2, <2>3 DEF EvenRoster, UpFrom
<1>7. \E q \in Run : Unfinished(q)' BY <1>1 DEF Unfinished
<1>8. QED BY <1>1, <1>4, <1>6, <1>7, EvenOf DEF Restoring

\* A completed run leaves the roster that it planned.
LEMMA CompleteEven ==
  ASSUME Order, PlanKept, Even, NEW p \in Thread, Complete(p) \/ Interrupt(p)
  PROVE  Even'
<1>1. /\ proc \in [Thread -> Local] /\ proc[p].pc \in {"complete", "interrupt"}
      /\ UNCHANGED <<sem, log, item>> /\ proc[p].run \in Run
  BY DEF Order, Sound, TypeOK, Complete, Interrupt, Fits, AtRun
<1>2. /\ proc'[p].pc \in {"verify", "recover"} /\ \A q \in Thread \ {p} : proc'[q] = proc[q]
  BY <1>1 DEF Complete, Interrupt, Goto, Local
<1>3. Alone(p) BY <1>1, <1>2, AtWork DEF Order
<1>4. CASE Complete(p)
  <2>1. run[proc[p].run] = "in_progress" /\ PlanAt(proc[p]) /\ proc[p].pc = "complete"
    BY <1>4 DEF Complete, Order, Tracked, Underway, PlanKept
  <2>2. EvenRoster(sem)
    BY <2>1 DEF PlanAt, Promoting, Applying, Even
  <2>3. \A r \in Run : Undoable(r)' <=> Undoable(r)
    BY <1>1, <1>4, <2>1 DEF Complete, Undoable, Unfinished, Order, Sound, TypeOK
  <2>4. QED BY <1>1, <1>2, <1>3, <2>2, <2>3, QuietEven DEF Restoring, Promoting, Applying
<1>5. CASE Interrupt(p)
  <2>1. \A r \in Run : /\ Undoable(r)' <=> Undoable(r)
                       /\ Unfinished(r)' <=> Unfinished(r)
    BY <1>5 DEF Interrupt, Undoable, Unfinished, Order, Sound, TypeOK
  <2>2. (\A r \in Run : ~Unfinished(r)') => EvenRoster(sem)
    BY <1>3, <1>5, <2>1, AsideEven DEF Interrupt, Restoring
  <2>3. QED BY <1>1, <1>2, <1>3, <2>1, <2>2, QuietEven DEF Restoring, Promoting, Applying
<1>6. QED BY <1>4, <1>5

LEMMA MarkEven ==
  ASSUME Order, Even, NEW p \in Thread, Mark(p)
  PROVE  Even'
<1>1. proc \in [Thread -> Local] BY DEF Order, Sound, TypeOK
<1>2. /\ proc[p].pc # "idle" /\ proc'[p].pc \in {"recover", "release"}
      /\ \A q \in Thread \ {p} : proc'[q] = proc[q]
  BY <1>1 DEF Mark, Goto, Local
<1>3. Alone(p) BY <1>2, AtWork DEF Order
<1>4. proc'[p].pc \notin Restoring \cup Promoting
  BY <1>2 DEF Restoring, Promoting, Applying
<1>5. EvenRoster(sem)' /\ \A r \in Run : Undoable(r)' => EvenBefore(r)' BY EndEven DEF Even
<1>6. QED BY <1>3, <1>4, <1>5, EvenOf

LEMMA RestEven ==
  ASSUME Even, UNCHANGED <<txn, sem, due, log, run, item, proc>>
  PROVE  Even'
<1>1. SameHeld BY DEF SameHeld, Holds, Undoable, Unfinished, Journalled
<1>2. \A r \in Run : /\ Undoable(r)' <=> Undoable(r)
                     /\ Unfinished(r)' <=> Unfinished(r)
  BY DEF Undoable, Unfinished
<1>3. \A r \in Run : Undoable(r)' => EvenBefore(r)'
  BY <1>1, <1>2, SameUndone, NothingAdded DEF Even
<1>4. ASSUME NEW p \in Thread
      PROVE  /\ proc'[p].pc \in Restoring /\ p \notin Undoer => Unfinished(proc[p].run)'
             /\ proc'[p].pc \in Promoting => EvenRoster(UpFrom(proc[p].seen, Planned(proc[p])))'
  <2>1. Planned(proc[p])' = Planned(proc[p]) BY DEF Planned, Journalled
  <2>2. QED BY <2>1 DEF Even, Unfinished, EvenRoster, UpFrom
<1>5. EvenRoster(sem) => EvenRoster(sem)' BY DEF EvenRoster
<1>6. (\A r \in Run : ~Unfinished(r)') /\ (\A p \in Thread : proc'[p].pc \notin Restoring)
            => EvenRoster(sem)'
  BY <1>2, <1>5 DEF Even
<1>7. QED BY <1>3, <1>4, <1>6 DEF Even

\* No undoer is killed in the middle of its work.
Gentle == Calm /\ Undoer \cap Killable = {}

LEMMA EvenNext == Gentle /\ Order /\ PlanKept /\ Even /\ [Next]_vars => Even'
<1> SUFFICES ASSUME Gentle, Order, PlanKept, Even, [Next]_vars PROVE Even'
  OBVIOUS
<1>1. Calm /\ Undoer \cap Killable = {} /\ Sound /\ Undoing BY DEF Gentle, Order
<1>2. CASE UNCHANGED <<txn, sem, due, log, run, item, proc>> BY <1>2, RestEven
<1>3. ASSUME NEW p \in Thread,
             \/ Edge(p) \/ Plain(p) \/ Apply(p) \/ Find(p) \/ Restore(p)
             \/ Begin(p) \/ Journal(p) \/ Complete(p) \/ Interrupt(p) \/ Mark(p)
      PROVE  Even'
  BY <1>1, <1>3, EdgeEven, PlainEven, ApplyEven, FindEven, RestoreEven, BeginEven, JournalEven,
     CompleteEven, MarkEven
<1>4. QED BY <1>1, <1>2, <1>3, EveryStep

LEMMA EvenInit == Init /\ (\A roster \in StartSems : EvenRoster(roster)) => Even
<1> SUFFICES ASSUME Init, \A roster \in StartSems : EvenRoster(roster) PROVE Even
  OBVIOUS
<1>1. \A r \in Run : ~Undoable(r) BY DEF Init, Undoable, Unfinished
<1>2. \A p \in Thread : proc[p].pc \notin Restoring \cup Promoting
  BY DEF Init, Idle, Restoring, Promoting, Applying
<1>3. EvenRoster(sem) BY DEF Init
<1>4. QED BY <1>1, <1>2, <1>3 DEF Even

\* The cohort rule survives every promotion, failure, kill, recovery and undo:
\* whenever nothing is under way, a department and year has one semester only,
\* if it had to begin with and no undo of a completed run is killed half-way.
THEOREM PromotionKeepsClassesWhole ==
  Gentle /\ (\A roster \in StartSems : EvenRoster(roster)) => (Spec => []ClassesWhole)
<1> SUFFICES ASSUME Gentle, \A roster \in StartSems : EvenRoster(roster)
             PROVE  Spec => []ClassesWhole
  OBVIOUS
<1>1. Spec => [](Order /\ PlanKept) BY PlanAlways DEF Gentle
<1>2. Init => Even BY EvenInit
<1>3. Order /\ PlanKept /\ Even /\ [Next]_vars => Even' BY EvenNext
<1>4. Even => ClassesWhole
  <2>1. ASSUME Even, Settled PROVE MixedClasses(sem) = {}
    <3>1. EvenRoster(sem) BY <2>1 DEF Even, Settled, Unfinished, Restoring
    <3>2. QED BY <3>1, EvenIsWhole
  <2>2. QED BY <2>1 DEF ClassesWhole
<1>5. QED BY <1>1, <1>2, <1>3, <1>4, PTL DEF Spec
=============================================================================
