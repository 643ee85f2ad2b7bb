--------------------------- MODULE PlanningProofs ---------------------------
(***************************************************************************)
(* Theorems about the import of spreadsheets into a project and about the  *)
(* reserve that the engineer's instructions draw on, each for any number   *)
(* of racing calls, also while they run over the same budget: an import    *)
(* may create the budget that an instruction looks for.                    *)
(***************************************************************************)
EXTENDS Planning, FiniteSetsExt, WellFoundedInduction, FiniteSetTheorems, TLAPS

RowStatuses == {"absent", "pending", "valid", "invalid", "conflict", "skipped", "committed"}

\* The stages of a commit that deal with a row.
RowStages == {"row", "create", "post", "mark", "fail"}

Stages == {"snapshot", "grade", "exclude", "close", "fresh", "count", "finish"} \cup RowStages

ImportCalls == [on : Batches, at : Stages, to : Imports!BatchStatuses \cup {"skipped"},
                todo : SUBSET Rows, snapshot : [Keys -> Nat]]

ImportTypes ==
    /\ kind \in Kinds
    /\ batch \in [Batches -> [status : Imports!BatchStatuses, snapshot : [Keys -> Nat]]]
    /\ row \in [Rows -> RowStatuses]
    /\ slot \in [Keys -> [by : Rows \cup {User, NoRow}, active : BOOLEAN, version : Nat]]
    /\ posted \subseteq Rows
    /\ calls \in [Requests -> ImportCalls \cup {NoWork}]
    /\ disturbed \subseteq Batches

\* What a call is about to do, from its code alone.
Consistent(c) ==
    /\ c.at \in RowStages \cup {"fresh", "exclude"} => c.todo \subseteq Imports!RowsOf(c.on)
    /\ c.at \in RowStages => c.todo # {}
    /\ c.at = "close" => c.to \in {"rejected", "cancelled"}
    /\ c.at = "finish" => c.to \in {"committed", "partially_valid"}

\* The row of the sheet that comes first.
First(T) == CHOOSE r \in T : \A s \in T : NumberOf[r] <= NumberOf[s]

\* A row stands behind what is live under its period.
Owns(r) == slot[KeyOf[r]].by = r

Recorded(r) == kind = "ipa_history" /\ r \in Posting => r \in posted

\* A call has created the record of a row before it posts it, and posted it
\* before it marks the row.
Earned(c) ==
    kind # "budget_baseline" =>
        /\ c.at \in {"post", "mark"} => Owns(First(c.todo))
        /\ c.at = "mark" => Recorded(First(c.todo))

RowsDone(b) ==
    /\ \A r \in Imports!RowsOf(b) : row[r] \in {"committed", "skipped"}
    /\ \E r \in Imports!RowsOf(b) : row[r] = "committed"

\* What a call that is alone on its batch may count on.
Alone(c) ==
    c.on \notin disturbed =>
        /\ c.at \notin {"exclude", "close"} => batch[c.on].status # "committed"
        /\ c.at = "finish" /\ c.to = "committed" => RowsDone(c.on)
        /\ c.at = "exclude" => \A r \in c.todo : row[r] # "committed"

Live ==
    kind # "budget_baseline" => \A r \in Rows : row[r] = "committed" => Owns(r) /\ Recorded(r)

\* Only the calls that are alone are undisturbed.
OneAtATime ==
    \A p, q \in Requests :
        /\ calls[p] # NoWork /\ calls[q] # NoWork
        /\ calls[p].on = calls[q].on /\ calls[p].on \notin disturbed
        => p = q

\* Nothing happens to a batch before it is staged.
Opened ==
    /\ \A b \in Batches : batch[b].status = "absent" =>
          \A r \in Imports!RowsOf(b) : row[r] = "absent"
    /\ \A q \in Requests : calls[q] # NoWork => batch[calls[q].on].status # "absent"

Complete == \A b \in Batches \ disturbed : batch[b].status = "committed" => RowsDone(b)

ImportInv ==
    /\ ImportTypes
    /\ \A q \in Requests : calls[q] # NoWork =>
          Consistent(calls[q]) /\ Earned(calls[q]) /\ Alone(calls[q])
    /\ Live
    /\ OneAtATime
    /\ Opened
    /\ Complete

-----------------------------------------------------------------------------
(* Operators *)

(* Numbers have a least one: the initial segments below them are finite    *)
(* sets, and strict inclusion is well founded on those.                    *)
LEMMA LeastNumber ==
    ASSUME NEW T, T \subseteq Nat, T # {}
    PROVE  \E n \in T : \A m \in T : n <= m
<1>. DEFINE R == StrictSubsetOrdering(Nat)
            U == {0 .. (n - 1) : n \in T}
<1>1. U # {} /\ U \subseteq FiniteSubsetsOf(Nat)
  <2>1. \A n \in T : IsFiniteSet(0 .. (n - 1))
    BY FS_Interval
  <2>2. \A n \in T : 0 .. (n - 1) \subseteq Nat
    OBVIOUS
  <2>3. QED
    BY <2>1, <2>2 DEF FiniteSubsetsOf
<1>2. PICK u \in U : \A w \in U : ~(<<w, u>> \in R)
  <2>. HIDE DEF U, R
  <2>1. IsWellFoundedOn(R, FiniteSubsetsOf(Nat))
    BY FS_StrictSubsetOrderingWellFounded DEF R
  <2>2. QED
    BY <1>1, <2>1, WFMin
<1>3. PICK n \in T : u = 0 .. (n - 1)
  OBVIOUS
<1>4. ASSUME NEW m \in T, m < n PROVE FALSE
  <2>1. /\ 0 .. (m - 1) \subseteq 0 .. (n - 1) /\ m \in 0 .. (n - 1) /\ m \notin 0 .. (m - 1)
        /\ 0 .. (m - 1) \in SUBSET Nat /\ 0 .. (n - 1) \in SUBSET Nat
    BY <1>4
  <2>2. <<0 .. (m - 1), u>> \in R
    BY <1>3, <2>1 DEF StrictSubsetOrdering
  <2>3. QED
    BY <1>2, <2>2
<1>5. QED
  BY <1>4

(* Some row of a sheet comes first, so a commit always has a next row.     *)
LEMMA FirstOfSome ==
    ASSUME NEW T \in SUBSET Rows, T # {}
    PROVE  First(T) \in T
<1>1. NumberOf \in [Rows -> Nat]
  BY SheetAssumption
<1>. DEFINE N == {NumberOf[r] : r \in T}
<1>2. N \subseteq Nat /\ N # {}
  BY <1>1
<1>3. PICK n \in N : \A m \in N : n <= m
  <2>. HIDE DEF N
  <2>1. QED
    BY <1>2, LeastNumber
<1>4. PICK r \in T : n = NumberOf[r]
  OBVIOUS
<1>5. \A s \in T : NumberOf[r] <= NumberOf[s]
  BY <1>3, <1>4
<1>6. QED
  BY <1>5 DEF First

(* The row that a commit deals with is one of its batch.                   *)
LEMMA CurrentRow ==
    ASSUME ImportInv, NEW q \in Requests, calls[q] # NoWork, calls[q].at \in RowStages
    PROVE  /\ Imports!Current(q) = First(calls[q].todo)
           /\ Imports!Current(q) \in calls[q].todo
           /\ Imports!Current(q) \in Rows /\ KeyOf[Imports!Current(q)] \in Keys
           /\ BatchOf[Imports!Current(q)] = calls[q].on
<1>1. Imports!Current(q) = First(calls[q].todo)
  BY DEF Imports!Current, First
<1>2. calls[q].todo \subseteq Imports!RowsOf(calls[q].on) /\ calls[q].todo # {}
  BY DEF ImportInv, Consistent
<1>3. calls[q].todo \in SUBSET Rows
  BY <1>2 DEF Imports!RowsOf
<1>4. First(calls[q].todo) \in calls[q].todo
  BY <1>2, <1>3, FirstOfSome
<1>5. QED
  BY <1>1, <1>2, <1>3, <1>4, SheetAssumption DEF Imports!RowsOf

(* What is live under the periods is typed.                                *)
LEMMA SnapshotType ==
    ASSUME ImportTypes
    PROVE  Imports!Snapshot \in [Keys -> Nat] /\ Imports!NoSnapshot \in [Keys -> Nat]
BY DEF ImportTypes, Imports!Snapshot, Imports!NoSnapshot, Imports!Visible

(* A call that goes to another stage keeps everything else.                *)
LEMMA NextStage ==
    ASSUME NEW c \in ImportCalls, NEW stage \in Stages
    PROVE  LET v == [c EXCEPT !.at = stage] IN
           /\ v \in ImportCalls /\ v.at = stage /\ v.on = c.on /\ v.to = c.to /\ v.todo = c.todo
BY DEF ImportCalls


-----------------------------------------------------------------------------
(* Steps *)

\* What no step takes away from the rows.
NothingTaken ==
    kind # "budget_baseline" =>
        /\ \A k \in Keys : slot[k].by \in Rows => slot'[k].by = slot[k].by
        /\ posted \subseteq posted'

(* A row that stands behind a record goes on to do so.                     *)
LEMMA OwnersStay ==
    ASSUME ImportTypes, NothingTaken, kind' = kind, NEW r \in Rows,
           kind # "budget_baseline"
    PROVE  /\ Owns(r) => Owns(r)'
           /\ Recorded(r) => Recorded(r)'
<1>1. KeyOf[r] \in Keys
  BY SheetAssumption
<1>2. Owns(r) => Owns(r)'
  BY <1>1 DEF NothingTaken, Owns
<1>3. Recorded(r) => Recorded(r)'
  BY DEF NothingTaken, Recorded
<1>4. QED
  BY <1>2, <1>3

(* A step of a call on its batch keeps the invariant when it takes nothing *)
(* away, marks no row that is not earned, and closes no unfinished batch.  *)
LEMMA StepKept ==
    ASSUME ImportInv, NEW q \in Requests, calls[q] # NoWork,
           NEW v \in ImportCalls \cup {NoWork}, calls' = [calls EXCEPT ![q] = v],
           v # NoWork => v.on = calls[q].on /\ Consistent(v) /\ Earned(v)' /\ Alone(v)',
           ImportTypes', kind' = kind, disturbed' = disturbed, NothingTaken,
           NEW b \in Batches, b = calls[q].on,
           \A d \in Batches \ {b} : batch'[d] = batch[d],
           batch'[b].status # "absent",
           \A r \in Rows : BatchOf[r] # b => row'[r] = row[r],
           kind # "budget_baseline" =>
               \A r \in Rows : row'[r] = "committed" =>
                   row[r] = "committed" \/ (Owns(r)' /\ Recorded(r)'),
           b \notin disturbed /\ batch'[b].status = "committed" => RowsDone(b)'
    PROVE  ImportInv'
<1>1. /\ calls \in [Requests -> ImportCalls \cup {NoWork}] /\ calls'[q] = v
      /\ \A p \in Requests \ {q} : calls'[p] = calls[p]
  BY DEF ImportInv, ImportTypes
<1>2. ASSUME NEW p \in Requests, p # q, calls[p] # NoWork
      PROVE  (Consistent(calls[p]) /\ Earned(calls[p]) /\ Alone(calls[p]))'
  <2>1. PICK c \in ImportCalls : c = calls[p] /\ c = calls'[p]
    BY <1>1, <1>2
  <2>2. Consistent(c) /\ Earned(c) /\ Alone(c)
    BY <1>2, <2>1 DEF ImportInv
  <2>3. c.todo \in SUBSET Rows /\ c.on \in Batches
    BY DEF ImportCalls
  <2>4. Earned(c)'
    <3>1. c.at \in {"post", "mark"} => First(c.todo) \in Rows
      BY <2>2, <2>3, FirstOfSome DEF Consistent, RowStages
    <3>2. kind # "budget_baseline" /\ c.at \in {"post", "mark"} => Owns(First(c.todo))'
      BY <2>2, <3>1, OwnersStay DEF Earned, ImportInv
    <3>3. kind # "budget_baseline" /\ c.at = "mark" => Recorded(First(c.todo))'
      BY <2>2, <3>1, OwnersStay DEF Earned, ImportInv
    <3>4. QED
      BY <3>2, <3>3 DEF Earned
  <2>5. Alone(c)'
    <3>1. CASE c.on \in disturbed
      BY <3>1 DEF Alone
    <3>2. CASE c.on \notin disturbed
      <4>1. c.on # b
        BY <1>2, <2>1, <3>2 DEF ImportInv, OneAtATime
      <4>2. batch'[c.on] = batch[c.on] /\ \A r \in Imports!RowsOf(c.on) : row'[r] = row[r]
        BY <2>3, <4>1 DEF Imports!RowsOf
      <4>3. RowsDone(c.on) => RowsDone(c.on)'
        BY <4>2 DEF RowsDone
      <4>4. c.at = "exclude" => \A r \in c.todo : row'[r] = row[r]
        BY <2>2, <4>2 DEF Consistent
      <4>5. QED
        BY <2>2, <4>2, <4>3, <4>4 DEF Alone
    <3>3. QED
      BY <3>1, <3>2
  <2>6. QED
    BY <2>1, <2>2, <2>4, <2>5 DEF Consistent, Earned, Alone
<1>3. \A p \in Requests : calls'[p] # NoWork =>
          (Consistent(calls[p]) /\ Earned(calls[p]) /\ Alone(calls[p]))'
  <2>1. SUFFICES ASSUME calls'[q] # NoWork
                 PROVE  (Consistent(calls[q]) /\ Earned(calls[q]) /\ Alone(calls[q]))'
    BY <1>1, <1>2
  <2>2. Consistent(v) /\ Earned(v)' /\ Alone(v)'
    BY <1>1, <2>1
  <2>3. QED
    BY <1>1, <2>2 DEF Consistent, Earned, Alone
<1>4. Live'
  BY OwnersStay DEF ImportInv, Live
<1>5. OneAtATime'
  BY <1>1 DEF ImportInv, OneAtATime
<1>6. Opened'
  <2>1. ASSUME NEW d \in Batches, batch'[d].status = "absent", NEW r \in Imports!RowsOf(d)
        PROVE  row'[r] = "absent"
    <3>1. d # b /\ batch'[d] = batch[d]
      BY <2>1
    <3>2. row'[r] = row[r]
      BY <3>1 DEF Imports!RowsOf
    <3>3. QED
      BY <2>1, <3>1, <3>2 DEF ImportInv, Opened
  <2>2. ASSUME NEW p \in Requests, calls'[p] # NoWork
        PROVE  batch'[calls'[p].on].status # "absent"
    <3>1. CASE p = q
      BY <1>1, <2>2, <3>1
    <3>2. CASE p # q
      <4>1. calls'[p] = calls[p] /\ calls[p].on \in Batches
        BY <1>1, <2>2, <3>2 DEF ImportCalls
      <4>2. QED
        BY <2>2, <4>1 DEF ImportInv, Opened
    <3>3. QED
      BY <3>1, <3>2
  <2>3. QED
    BY <2>1, <2>2 DEF Opened, Imports!RowsOf
<1>7. Complete'
  <2>1. ASSUME NEW d \in Batches \ disturbed, d # b, batch'[d].status = "committed"
        PROVE  RowsDone(d)'
    <3>1. RowsDone(d)
      BY <2>1 DEF ImportInv, Complete
    <3>2. \A r \in Imports!RowsOf(d) : row'[r] = row[r]
      BY <2>1 DEF Imports!RowsOf
    <3>3. QED
      BY <3>1, <3>2 DEF RowsDone
  <2>2. ASSUME NEW d \in Batches \ disturbed, batch'[d].status = "committed"
        PROVE  RowsDone(d)'
    BY <2>1, <2>2
  <2>3. QED
    BY <2>2 DEF Complete
<1>8. QED
  BY <1>3, <1>4, <1>5, <1>6, <1>7 DEF ImportInv

(* A call begins: from now on its batch is disturbed, or the call is alone. *)
LEMMA BeginKept ==
    ASSUME ImportInv, NEW q \in Requests, calls[q] = NoWork, NEW v \in ImportCalls,
           calls' = [calls EXCEPT ![q] = v],
           disturbed' = IF \E p \in Requests : calls[p] # NoWork /\ calls[p].on = v.on
                        THEN disturbed \cup {v.on} ELSE disturbed,
           kind' = kind, batch' = batch, row' = row, slot' = slot, posted' = posted,
           batch[v.on].status # "absent", Consistent(v), Earned(v), Alone(v)
    PROVE  ImportInv'
<1>1. /\ calls \in [Requests -> ImportCalls \cup {NoWork}] /\ calls'[q] = v
      /\ \A p \in Requests \ {q} : calls'[p] = calls[p]
      /\ calls' \in [Requests -> ImportCalls \cup {NoWork}]
      /\ v.on \in Batches
  BY DEF ImportInv, ImportTypes, ImportCalls
<1>2. disturbed \subseteq disturbed' /\ disturbed' \subseteq Batches
  BY <1>1 DEF ImportInv, ImportTypes
<1>3. \A b : RowsDone(b) => RowsDone(b)'
  BY DEF RowsDone
<1>4. ASSUME NEW c, Consistent(c), Earned(c), Alone(c)
      PROVE  Consistent(c) /\ Earned(c)' /\ Alone(c)'
  <2>1. Earned(c)'
    BY <1>4 DEF Earned, Owns, Recorded
  <2>2. Alone(c)'
    BY <1>2, <1>3, <1>4 DEF Alone
  <2>3. QED
    BY <1>4, <2>1, <2>2
<1>5. ASSUME NEW p \in Requests, calls'[p] # NoWork
      PROVE  (Consistent(calls[p]) /\ Earned(calls[p]) /\ Alone(calls[p]))'
  <2>1. PICK c : c = calls'[p]
    OBVIOUS
  <2>2. Consistent(c) /\ Earned(c) /\ Alone(c)
    BY <1>1, <1>5, <2>1 DEF ImportInv
  <2>3. Consistent(c) /\ Earned(c)' /\ Alone(c)'
    BY <1>4, <2>2
  <2>4. QED
    BY <2>1, <2>3 DEF Consistent, Earned, Alone
<1>6. ImportTypes'
  BY <1>1, <1>2 DEF ImportInv, ImportTypes
<1>7. Live'
  BY DEF ImportInv, Live, Owns, Recorded
<1>8. OneAtATime'
  <2>1. ASSUME NEW p \in Requests, p # q, calls[p] # NoWork, calls[p].on = v.on,
               v.on \notin disturbed'
        PROVE  FALSE
    BY <2>1
  <2>2. QED
    BY <1>1, <1>2, <2>1 DEF ImportInv, OneAtATime
<1>9. Opened'
  BY <1>1 DEF ImportInv, Opened
<1>10. Complete'
  BY <1>2, <1>3 DEF ImportInv, Complete
<1>11. QED
  BY <1>5, <1>6, <1>7, <1>8, <1>9, <1>10 DEF ImportInv


-----------------------------------------------------------------------------
(* The calls on a batch *)

(* What is known of a call in flight.                                      *)
LEMMA TheCall ==
    ASSUME ImportInv, NEW q \in Requests, calls[q] # NoWork
    PROVE  /\ calls[q] \in ImportCalls /\ calls[q].on \in Batches
           /\ Consistent(calls[q]) /\ Earned(calls[q]) /\ Alone(calls[q])
           /\ batch[calls[q].on].status # "absent"
           /\ ImportTypes
BY DEF ImportInv, ImportTypes, ImportCalls, Opened

(* The calls begin with what they have read.                               *)
LEMMA AsksKeepInv ==
    ASSUME ImportInv, NEW q \in Requests,
           \/ \E b \in Batches :
                 \/ Imports!AskValidate(q, b) \/ Imports!AskCommit(q, b)
                 \/ \E to \in {"rejected", "cancelled"} : Imports!AskClose(q, b, to)
           \/ \E r \in Rows : Imports!AskExclude(q, r)
    PROVE  ImportInv'
<1>1. \E v \in ImportCalls :
         /\ calls[q] = NoWork /\ calls' = [calls EXCEPT ![q] = v]
         /\ disturbed' = IF \E p \in Requests : calls[p] # NoWork /\ calls[p].on = v.on
                         THEN disturbed \cup {v.on} ELSE disturbed
         /\ kind' = kind /\ batch' = batch /\ row' = row /\ slot' = slot /\ posted' = posted
         /\ batch[v.on].status # "absent" /\ Consistent(v) /\ Earned(v) /\ Alone(v)
  <2>1. ASSUME NEW b \in Batches, Imports!AskValidate(q, b) PROVE <1>1
    <3>. DEFINE v == [on |-> b, at |-> "snapshot", to |-> "validated", todo |-> {},
                      snapshot |-> Imports!NoSnapshot]
    <3>1. v \in ImportCalls
      BY SnapshotType DEF ImportInv, ImportCalls, Stages, Imports!BatchStatuses
    <3>2. Consistent(v) /\ Earned(v) /\ Alone(v)
      BY <2>1 DEF Imports!AskValidate, Imports!Closed, Consistent, Earned, Alone, RowStages
    <3>3. QED
      BY <2>1, <3>1, <3>2 DEF Imports!AskValidate, Imports!Begin, Imports!Closed
  <2>2. ASSUME NEW b \in Batches, Imports!AskCommit(q, b) PROVE <1>1
    <3>. DEFINE todo == {r \in Imports!RowsOf(b) : row[r] = "valid"}
                v == [on |-> b, at |-> "fresh", to |-> "committed", todo |-> todo,
                      snapshot |-> batch[b].snapshot]
    <3>1. todo \subseteq Imports!RowsOf(b) /\ todo \in SUBSET Rows
      BY DEF Imports!RowsOf
    <3>2. v \in ImportCalls
      BY <3>1 DEF ImportInv, ImportTypes, ImportCalls, Stages, Imports!BatchStatuses
    <3>3. Consistent(v) /\ Earned(v) /\ Alone(v)
      BY <2>2, <3>1 DEF Imports!AskCommit, Imports!Ready, Consistent, Earned, Alone, RowStages
    <3>4. QED
      BY <2>2, <3>2, <3>3 DEF Imports!AskCommit, Imports!Begin, Imports!Ready
  <2>3. ASSUME NEW b \in Batches, NEW to \in {"rejected", "cancelled"},
               Imports!AskClose(q, b, to)
        PROVE  <1>1
    <3>. DEFINE v == [on |-> b, at |-> "close", to |-> to, todo |-> {},
                      snapshot |-> Imports!NoSnapshot]
    <3>1. v \in ImportCalls
      BY SnapshotType DEF ImportInv, ImportCalls, Stages, Imports!BatchStatuses
    <3>2. Consistent(v) /\ Earned(v) /\ Alone(v)
      BY <2>3 DEF Consistent, Earned, Alone, RowStages
    <3>3. QED
      BY <2>3, <3>1, <3>2 DEF Imports!AskClose, Imports!Begin, Imports!Closed
  <2>4. ASSUME NEW r \in Rows, Imports!AskExclude(q, r) PROVE <1>1
    <3>. DEFINE v == [on |-> BatchOf[r], at |-> "exclude", to |-> "skipped", todo |-> {r},
                      snapshot |-> Imports!NoSnapshot]
    <3>1. BatchOf[r] \in Batches
      BY SheetAssumption
    <3>2. v \in ImportCalls
      BY <3>1, SnapshotType DEF ImportInv, ImportCalls, Stages
    <3>3. Consistent(v) /\ Earned(v) /\ Alone(v)
      BY <2>4 DEF Imports!AskExclude, Imports!RowsOf, Consistent, Earned, Alone, RowStages
    <3>4. batch[BatchOf[r]].status # "absent"
      BY <2>4, <3>1 DEF Imports!AskExclude, Imports!RowsOf, ImportInv, Opened
    <3>5. QED
      BY <2>4, <3>2, <3>3, <3>4 DEF Imports!AskExclude, Imports!Begin
  <2>5. QED
    BY <2>1, <2>2, <2>3, <2>4
<1>2. QED
  BY <1>1, BeginKept

(* Validation writes what it has read, and no row is committed by it.      *)
LEMMA ValidateKeepsInv ==
    ASSUME ImportInv, NEW q \in Requests, Imports!TakeSnapshot(q) \/ Imports!Grade(q)
    PROVE  ImportInv'
<1>1. /\ calls[q] # NoWork /\ calls[q].at \in {"snapshot", "grade"}
      /\ kind' = kind /\ slot' = slot /\ posted' = posted /\ disturbed' = disturbed
  BY DEF Imports!TakeSnapshot, Imports!Grade, Imports!At
<1>2. PICK b \in Batches : b = calls[q].on
  BY <1>1, TheCall
<1>3. b \notin disturbed => batch[b].status # "committed"
  BY <1>1, <1>2, TheCall DEF Alone
<1>4. NothingTaken
  BY <1>1 DEF NothingTaken
<1>5. CASE Imports!TakeSnapshot(q)
  <2>1. PICK s \in [Keys -> Nat] : s = Imports!Snapshot
    BY SnapshotType DEF ImportInv
  <2>. DEFINE w == [calls[q] EXCEPT !.at = "grade", !.snapshot = s]
  <2>2. w \in ImportCalls /\ w.at = "grade" /\ w.on = b
    BY <1>1, <1>2, TheCall DEF ImportCalls, Stages
  <2>3. calls' = [calls EXCEPT ![q] = w]
    BY <1>5, <2>1 DEF Imports!TakeSnapshot, ImportInv, ImportTypes
  <2>. HIDE DEF w
  <2>4. PICK v \in ImportCalls : v = w
    BY <2>2
  <2>5. batch' = batch /\ row' = row
    BY <1>5 DEF Imports!TakeSnapshot
  <2>6. Consistent(v) /\ Earned(v)' /\ Alone(v)'
    BY <1>1, <1>3, <2>2, <2>4, <2>5 DEF Consistent, Earned, Alone, RowStages
  <2>7. ImportTypes'
    BY <1>1, <2>3, <2>4, <2>5 DEF ImportInv, ImportTypes
  <2>8. batch[b].status # "absent"
    BY <1>1, <1>2, TheCall
  <2>9. QED
    BY <1>1, <1>2, <1>3, <1>4, <2>2, <2>3, <2>4, <2>5, <2>6, <2>7, <2>8, StepKept
<1>6. CASE Imports!Grade(q)
  <2>1. calls' = [calls EXCEPT ![q] = NoWork]
    BY <1>6 DEF Imports!Grade, Imports!Done
  <2>2. \A r \in Rows : Imports!Verdict(r, calls[q].snapshot) \in {"valid", "invalid", "conflict"}
    BY DEF Imports!Verdict
  <2>3. /\ row' \in [Rows -> RowStatuses]
        /\ \A r \in Rows : BatchOf[r] # b => row'[r] = row[r]
        /\ \A r \in Rows : row'[r] = "committed" => row[r] = "committed"
    <3>1. row' = [r \in Rows |-> IF BatchOf[r] = b
                                 THEN Imports!Verdict(r, calls[q].snapshot) ELSE row[r]]
      BY <1>2, <1>6 DEF Imports!Grade
    <3>2. row \in [Rows -> RowStatuses]
      BY DEF ImportInv, ImportTypes
    <3>3. QED
      BY <2>2, <3>1, <3>2 DEF RowStatuses
  <2>4. PICK status \in {"validated", "partially_valid"} :
            batch' = [batch EXCEPT ![b] = [status |-> status, snapshot |-> calls[q].snapshot]]
    BY <1>2, <1>6 DEF Imports!Grade
  <2>5. calls[q].snapshot \in [Keys -> Nat]
    BY <1>1, TheCall DEF ImportCalls
  <2>6. /\ batch' \in [Batches -> [status : Imports!BatchStatuses, snapshot : [Keys -> Nat]]]
        /\ batch'[b].status \notin {"absent", "committed"}
        /\ \A d \in Batches \ {b} : batch'[d] = batch[d]
    BY <2>4, <2>5 DEF ImportInv, ImportTypes, Imports!BatchStatuses
  <2>7. ImportTypes'
    BY <1>1, <2>1, <2>3, <2>6 DEF ImportInv, ImportTypes
  <2>8. QED
    BY <1>1, <1>2, <1>4, <2>1, <2>3, <2>6, <2>7, StepKept
<1>7. QED
  BY <1>5, <1>6

(* A row that is excluded when its batch was committed meanwhile was not a *)
(* committed one, unless the batch is disturbed.                           *)
LEMMA ExcludeKeepsInv ==
    ASSUME ImportInv, NEW q \in Requests, Imports!Exclude(q)
    PROVE  ImportInv'
<1>1. /\ calls[q] # NoWork /\ calls[q].at = "exclude" /\ calls' = [calls EXCEPT ![q] = NoWork]
      /\ kind' = kind /\ batch' = batch /\ slot' = slot /\ posted' = posted
      /\ disturbed' = disturbed
  BY DEF Imports!Exclude, Imports!At, Imports!Done
<1>2. PICK b \in Batches : b = calls[q].on
  BY <1>1, TheCall
<1>3. PICK T \in SUBSET Rows : T = calls[q].todo
  BY <1>1, TheCall DEF ImportCalls
<1>4. T \subseteq Imports!RowsOf(b) /\ (b \notin disturbed => \A r \in T : row[r] # "committed")
  BY <1>1, <1>2, <1>3, TheCall DEF Consistent, Alone
<1>5. row' = [r \in Rows |-> IF r \in T THEN "skipped" ELSE row[r]]
  BY <1>3 DEF Imports!Exclude
<1>6. /\ row' \in [Rows -> RowStatuses]
      /\ \A r \in Rows : BatchOf[r] # b => row'[r] = row[r]
      /\ \A r \in Rows : row'[r] = "committed" => row[r] = "committed"
  BY <1>4, <1>5 DEF Imports!RowsOf, ImportInv, ImportTypes, RowStatuses
<1>7. b \notin disturbed /\ batch[b].status = "committed" => RowsDone(b)'
  <2>1. b \notin disturbed /\ batch[b].status = "committed" => RowsDone(b)
    BY DEF ImportInv, Complete
  <2>2. QED
    BY <1>4, <1>5, <2>1 DEF RowsDone, Imports!RowsOf
<1>8. ImportTypes'
  BY <1>1, <1>6 DEF ImportInv, ImportTypes
<1>9. NothingTaken
  BY <1>1 DEF NothingTaken
<1>10. batch[b].status # "absent"
  BY <1>1, <1>2, TheCall
<1>11. QED
  BY <1>1, <1>2, <1>6, <1>7, <1>8, <1>9, <1>10, StepKept

(* The calls that write the status of the batch: a commit that ends        *)
(* committed has counted the rows, and was alone since.                    *)
LEMMA StatusKeepsInv ==
    ASSUME ImportInv, NEW q \in Requests, Imports!Close(q) \/ Imports!Finish(q)
    PROVE  ImportInv'
<1>1. /\ calls[q] # NoWork /\ calls[q].at \in {"close", "finish"}
      /\ calls' = [calls EXCEPT ![q] = NoWork]
      /\ kind' = kind /\ row' = row /\ slot' = slot /\ posted' = posted
      /\ disturbed' = disturbed
  BY DEF Imports!Close, Imports!Finish, Imports!At, Imports!Done
<1>2. PICK b \in Batches : b = calls[q].on
  BY <1>1, TheCall
<1>3. PICK to \in {"committed", "partially_valid", "rejected", "cancelled"} : to = calls[q].to
  BY <1>1, TheCall DEF Consistent
<1>4. batch' = [batch EXCEPT ![b].status = to]
  BY <1>2, <1>3 DEF Imports!Close, Imports!Finish
<1>5. /\ batch' \in [Batches -> [status : Imports!BatchStatuses, snapshot : [Keys -> Nat]]]
      /\ batch'[b].status = to
      /\ \A d \in Batches \ {b} : batch'[d] = batch[d]
  BY <1>4 DEF ImportInv, ImportTypes, Imports!BatchStatuses
<1>6. b \notin disturbed /\ to = "committed" => RowsDone(b)
  BY <1>1, <1>2, <1>3, TheCall DEF Consistent, Alone
<1>7. RowsDone(b) => RowsDone(b)'
  BY <1>1 DEF RowsDone
<1>8. ImportTypes'
  BY <1>1, <1>5 DEF ImportInv, ImportTypes
<1>9. NothingTaken
  BY <1>1 DEF NothingTaken
<1>10. QED
  BY <1>1, <1>2, <1>5, <1>6, <1>7, <1>8, <1>9, StepKept


-----------------------------------------------------------------------------
(* The commit of a batch *)

(* A step of a commit that leaves batches and rows as they are.            *)
LEMMA CommitKept ==
    ASSUME ImportInv, NEW q \in Requests, calls[q] # NoWork,
           calls[q].at \notin {"exclude", "close"},
           NEW v \in ImportCalls \cup {NoWork}, calls' = [calls EXCEPT ![q] = v],
           v # NoWork => /\ v.on = calls[q].on /\ v.at \notin {"exclude", "close"}
                         /\ v.at = "finish" /\ v.to = "committed" => RowsDone(v.on)
                         /\ Consistent(v) /\ Earned(v)',
           kind' = kind, batch' = batch, row' = row, disturbed' = disturbed,
           slot' \in [Keys -> [by : Rows \cup {User, NoRow}, active : BOOLEAN, version : Nat]],
           posted' \subseteq Rows, NothingTaken
    PROVE  ImportInv'
<1>1. PICK b \in Batches : b = calls[q].on
  BY TheCall
<1>2. (b \notin disturbed => batch[b].status # "committed") /\ batch[b].status # "absent"
  BY <1>1, TheCall DEF Alone
<1>3. \A d : RowsDone(d) => RowsDone(d)'
  BY DEF RowsDone
<1>4. v # NoWork => Alone(v)'
  BY <1>1, <1>2, <1>3 DEF Alone
<1>5. ImportTypes'
  BY DEF ImportInv, ImportTypes
<1>6. QED
  BY <1>1, <1>2, <1>4, <1>5, StepKept

(* A step of a commit within the same row.                                 *)
LEMMA RowStepKept ==
    ASSUME ImportInv, NEW q \in Requests, calls[q] # NoWork, calls[q].at \in RowStages,
           NEW stage \in RowStages, Imports!GoTo(q, stage),
           NEW r \in Rows, r = Imports!Current(q),
           kind # "budget_baseline" =>
               /\ stage \in {"post", "mark"} => Owns(r)'
               /\ stage = "mark" => Recorded(r)',
           kind' = kind, batch' = batch, row' = row, disturbed' = disturbed,
           slot' \in [Keys -> [by : Rows \cup {User, NoRow}, active : BOOLEAN, version : Nat]],
           posted' \subseteq Rows, NothingTaken
    PROVE  ImportInv'
<1>1. calls[q] \in ImportCalls /\ Consistent(calls[q])
  BY TheCall
<1>. DEFINE w == [calls[q] EXCEPT !.at = stage]
<1>2. /\ w \in ImportCalls /\ w.at = stage /\ w.on = calls[q].on /\ w.todo = calls[q].todo
      /\ w.to = calls[q].to
  BY <1>1, NextStage DEF Stages
<1>3. calls' = [calls EXCEPT ![q] = w]
  BY DEF Imports!GoTo, ImportInv, ImportTypes
<1>. HIDE DEF w
<1>4. PICK v \in ImportCalls : v = w
  BY <1>2
<1>5. Consistent(v)
  BY <1>1, <1>2, <1>4 DEF Consistent, RowStages
<1>6. First(v.todo) = r
  BY <1>2, <1>4, CurrentRow
<1>7. Earned(v)'
  BY <1>2, <1>4, <1>6 DEF Earned
<1>8. QED
  BY <1>2, <1>3, <1>4, <1>5, <1>7, CommitKept DEF RowStages

(* The freshness guard ends the call or takes up the first row.            *)
LEMMA FreshKeepsInv ==
    ASSUME ImportInv, NEW q \in Requests, Imports!Fresh(q)
    PROVE  ImportInv'
<1>1. /\ calls[q] # NoWork /\ calls[q].at = "fresh"
      /\ kind' = kind /\ batch' = batch /\ row' = row /\ slot' = slot /\ posted' = posted
      /\ disturbed' = disturbed
  BY DEF Imports!Fresh, Imports!At
<1>2. /\ NothingTaken /\ posted' \subseteq Rows
      /\ slot' \in [Keys -> [by : Rows \cup {User, NoRow}, active : BOOLEAN, version : Nat]]
  BY <1>1 DEF NothingTaken, ImportInv, ImportTypes
<1>3. CASE calls' = [calls EXCEPT ![q] = NoWork]
  BY <1>1, <1>2, <1>3, CommitKept
<1>4. CASE /\ calls[q].todo # {}
           /\ calls' = [calls EXCEPT ![q].at = "row", ![q].snapshot = Imports!NoSnapshot]
  <2>1. calls[q] \in ImportCalls /\ Consistent(calls[q])
    BY <1>1, TheCall
  <2>2. PICK s \in [Keys -> Nat] : s = Imports!NoSnapshot
    BY SnapshotType DEF ImportInv
  <2>. DEFINE w == [calls[q] EXCEPT !.at = "row", !.snapshot = s]
  <2>3. w \in ImportCalls /\ w.at = "row" /\ w.on = calls[q].on /\ w.todo = calls[q].todo
    BY <2>1 DEF ImportCalls, Stages, RowStages
  <2>4. calls' = [calls EXCEPT ![q] = w]
    BY <1>4, <2>2 DEF ImportInv, ImportTypes
  <2>. HIDE DEF w
  <2>5. PICK v \in ImportCalls : v = w
    BY <2>3
  <2>6. Consistent(v) /\ Earned(v)'
    BY <1>1, <1>4, <2>1, <2>3, <2>5 DEF Consistent, Earned, RowStages
  <2>7. QED
    BY <1>1, <1>2, <2>3, <2>4, <2>5, <2>6, CommitKept
<1>5. QED
  BY <1>3, <1>4 DEF Imports!Fresh, Imports!Done

(* A record is created only where there is none.                           *)
LEMMA FillFree ==
    ASSUME ImportTypes, NEW r \in Rows, Imports!Fill(r), posted' = posted,
           slot[KeyOf[r]].by = NoRow \/ kind = "budget_baseline"
    PROVE  /\ slot' \in [Keys -> [by : Rows \cup {User, NoRow}, active : BOOLEAN, version : Nat]]
           /\ Owns(r)' /\ NothingTaken
<1>1. PICK k \in Keys : k = KeyOf[r]
  BY SheetAssumption
<1>2. slot[k].version \in Nat
  BY DEF ImportTypes
<1>3. PICK n \in Nat : n = IF kind = "budget_baseline" THEN 1 ELSE slot[k].version + 1
  BY <1>2
<1>4. PICK new \in [by : Rows \cup {User, NoRow}, active : BOOLEAN, version : Nat] :
          new = [by |-> r, active |-> TRUE, version |-> n]
  OBVIOUS
<1>5. slot' = [slot EXCEPT ![k] = new]
  BY <1>1, <1>3, <1>4 DEF Imports!Fill
<1>6. /\ slot' \in [Keys -> [by : Rows \cup {User, NoRow}, active : BOOLEAN, version : Nat]]
      /\ slot'[k] = new /\ \A l \in Keys \ {k} : slot'[l] = slot[l]
  BY <1>5 DEF ImportTypes
<1>7. Owns(r)'
  BY <1>1, <1>4, <1>6 DEF Owns
<1>8. NothingTaken
  BY <1>1, <1>6, CreatorsAssumption DEF NothingTaken
<1>9. QED
  BY <1>6, <1>7, <1>8

(* The queries for a row; a row is marked only when its record was created *)
(* by this call, and posted when it has to be.                             *)
LEMMA RowKeepsInv ==
    ASSUME ImportInv, NEW q \in Requests,
           \/ Imports!FindPeriod(q) \/ Imports!CreateIpa(q) \/ Imports!Post(q)
           \/ Imports!CreateForecast(q) \/ Imports!SetLine(q) \/ Imports!Throw(q)
    PROVE  ImportInv'
<1>1. /\ calls[q] # NoWork /\ calls[q].at \in {"row", "create", "post", "mark"}
      /\ calls[q].at \in RowStages
      /\ kind' = kind /\ batch' = batch /\ row' = row /\ disturbed' = disturbed
  BY DEF Imports!FindPeriod, Imports!CreateIpa, Imports!Post, Imports!CreateForecast,
     Imports!SetLine, Imports!Throw, Imports!At, RowStages
<1>2. PICK r \in Rows : r = Imports!Current(q)
  BY <1>1, CurrentRow
<1>3. ImportTypes
  BY DEF ImportInv
<1>4. CASE slot' = slot /\ posted' = posted /\ (Imports!GoTo(q, "fail") \/ Imports!GoTo(q, "create"))
  <2>1. /\ NothingTaken /\ posted' \subseteq Rows
        /\ slot' \in [Keys -> [by : Rows \cup {User, NoRow}, active : BOOLEAN, version : Nat]]
    BY <1>3, <1>4 DEF NothingTaken, ImportTypes
  <2>2. PICK stage \in {"fail", "create"} : Imports!GoTo(q, stage)
    BY <1>4
  <2>3. stage \in RowStages /\ stage \notin {"post", "mark"}
    BY <2>2 DEF RowStages
  <2>4. QED
    BY <1>1, <1>2, <2>1, <2>2, <2>3, RowStepKept
<1>5. ASSUME Imports!CreateIpa(q) PROVE ImportInv'
  <2>1. posted' = posted /\ calls[q].at = "create"
    BY <1>5 DEF Imports!CreateIpa, Imports!At
  <2>2. CASE slot[KeyOf[r]].by = NoRow
    <3>1. PICK stage \in {"post", "mark"} :
              /\ stage = IF r \in Posting THEN "post" ELSE "mark"
              /\ Imports!GoTo(q, stage) /\ Imports!Fill(r)
      BY <1>2, <1>5, <2>2 DEF Imports!CreateIpa
    <3>2. /\ slot' \in [Keys -> [by : Rows \cup {User, NoRow}, active : BOOLEAN, version : Nat]]
          /\ Owns(r)' /\ NothingTaken
      BY <1>3, <2>1, <2>2, <3>1, FillFree
    <3>3. stage = "mark" => Recorded(r)'
      BY <3>1 DEF Recorded
    <3>4. stage \in RowStages /\ posted' \subseteq Rows
      BY <1>3, <2>1, <3>1 DEF RowStages, ImportTypes
    <3>5. QED
      BY <1>1, <1>2, <3>1, <3>2, <3>3, <3>4, RowStepKept
  <2>3. CASE slot[KeyOf[r]].by # NoRow
    BY <1>2, <1>4, <1>5, <2>1, <2>3 DEF Imports!CreateIpa
  <2>4. QED
    BY <2>2, <2>3
<1>6. ASSUME Imports!Post(q) PROVE ImportInv'
  <2>1. slot' = slot /\ calls[q].at = "post"
    BY <1>6 DEF Imports!Post, Imports!At
  <2>2. CASE Imports!GoTo(q, "mark") /\ posted' = posted \cup {r}
    <3>1. kind # "budget_baseline" => Owns(r)
      BY <1>1, <1>2, <2>1, CurrentRow, TheCall DEF Earned
    <3>2. (Owns(r) => Owns(r)') /\ Recorded(r)'
      BY <2>1, <2>2 DEF Owns, Recorded
    <3>3. /\ NothingTaken /\ posted' \subseteq Rows /\ "mark" \in RowStages
          /\ slot' \in [Keys -> [by : Rows \cup {User, NoRow}, active : BOOLEAN, version : Nat]]
      BY <1>3, <2>1, <2>2 DEF NothingTaken, ImportTypes, RowStages
    <3>4. QED
      BY <1>1, <1>2, <2>2, <3>1, <3>2, <3>3, RowStepKept
  <2>3. QED
    BY <1>2, <1>4, <1>6, <2>1, <2>2 DEF Imports!Post
<1>7. ASSUME Imports!CreateForecast(q) PROVE ImportInv'
  <2>1. posted' = posted /\ kind = "ipa_forecast"
    BY <1>7 DEF Imports!CreateForecast
  <2>2. CASE slot[KeyOf[r]].by = NoRow
    <3>1. Imports!GoTo(q, "mark") /\ Imports!Fill(r)
      BY <1>2, <1>7, <2>2 DEF Imports!CreateForecast
    <3>2. /\ slot' \in [Keys -> [by : Rows \cup {User, NoRow}, active : BOOLEAN, version : Nat]]
          /\ Owns(r)' /\ NothingTaken
      BY <1>3, <2>1, <2>2, <3>1, FillFree
    <3>3. Recorded(r)' /\ "mark" \in RowStages /\ posted' \subseteq Rows
      BY <1>1, <1>3, <2>1 DEF Recorded, RowStages, ImportTypes
    <3>4. QED
      BY <1>1, <1>2, <3>1, <3>2, <3>3, RowStepKept
  <2>3. QED
    BY <1>2, <1>4, <1>7, <2>1, <2>2 DEF Imports!CreateForecast
<1>8. ASSUME Imports!SetLine(q) PROVE ImportInv'
  <2>1. /\ posted' = posted /\ kind = "budget_baseline" /\ Imports!GoTo(q, "mark")
        /\ Imports!Fill(r)
    BY <1>2, <1>8 DEF Imports!SetLine
  <2>2. /\ slot' \in [Keys -> [by : Rows \cup {User, NoRow}, active : BOOLEAN, version : Nat]]
        /\ NothingTaken
    BY <1>3, <2>1, FillFree
  <2>3. "mark" \in RowStages /\ posted' \subseteq Rows
    BY <1>3, <2>1 DEF RowStages, ImportTypes
  <2>4. QED
    BY <1>1, <1>2, <2>1, <2>2, <2>3, RowStepKept
<1>9. QED
  BY <1>4, <1>5, <1>6, <1>7, <1>8 DEF Imports!FindPeriod, Imports!Throw


(* The row is marked as it came out, and the commit takes the next one.    *)
LEMMA MarkKeepsInv ==
    ASSUME ImportInv, NEW q \in Requests, Imports!Mark(q)
    PROVE  ImportInv'
<1>1. /\ calls[q] # NoWork /\ calls[q].at \in {"mark", "fail"} /\ calls[q].at \in RowStages
      /\ kind' = kind /\ batch' = batch /\ slot' = slot /\ posted' = posted
      /\ disturbed' = disturbed
  BY DEF Imports!Mark, Imports!At, RowStages
<1>2. PICK b \in Batches : b = calls[q].on
  BY <1>1, TheCall
<1>3. PICK r \in Rows : r = Imports!Current(q) /\ BatchOf[r] = b /\ r = First(calls[q].todo)
                        /\ r \in calls[q].todo
  BY <1>1, <1>2, CurrentRow
<1>4. calls[q] \in ImportCalls /\ Consistent(calls[q])
  BY <1>1, TheCall
<1>5. PICK T \in SUBSET Rows : T = calls[q].todo \ {r}
  BY <1>4 DEF ImportCalls
<1>6. PICK stage \in {"count", "row"} : stage = IF calls[q].todo = {r} THEN "count" ELSE "row"
  OBVIOUS
<1>. DEFINE w == [calls[q] EXCEPT !.todo = T, !.at = stage]
<1>7. w \in ImportCalls /\ w.at = stage /\ w.on = b /\ w.todo = T
  BY <1>2, <1>4 DEF ImportCalls, Stages, RowStages
<1>8. calls' = [calls EXCEPT ![q] = w]
  <2>1. calls' = [calls EXCEPT ![q].todo = @ \ {r},
                               ![q].at = IF calls[q].todo = {r} THEN "count" ELSE "row"]
    BY <1>3 DEF Imports!Mark
  <2>2. QED
    BY <1>5, <1>6, <2>1 DEF ImportInv, ImportTypes
<1>. HIDE DEF w
<1>9. PICK v \in ImportCalls : v = w
  BY <1>7
<1>10. Consistent(v)
  BY <1>1, <1>2, <1>3, <1>4, <1>5, <1>6, <1>7, <1>9 DEF Consistent, RowStages
<1>11. b \notin disturbed => batch[b].status # "committed"
  BY <1>1, <1>2, TheCall DEF Alone
<1>12. Earned(v)' /\ Alone(v)'
  BY <1>1, <1>6, <1>7, <1>9, <1>11 DEF Earned, Alone
<1>13. row' = [row EXCEPT ![r] = IF calls[q].at = "mark" THEN "committed" ELSE "invalid"]
  BY <1>3 DEF Imports!Mark
<1>14. /\ row' \in [Rows -> RowStatuses]
       /\ \A s \in Rows \ {r} : row'[s] = row[s]
       /\ row'[r] = "committed" => calls[q].at = "mark"
  BY <1>13 DEF ImportInv, ImportTypes, RowStatuses
<1>15. kind # "budget_baseline" /\ calls[q].at = "mark" => Owns(r)' /\ Recorded(r)'
  <2>1. kind # "budget_baseline" /\ calls[q].at = "mark" => Owns(r) /\ Recorded(r)
    BY <1>1, <1>3, TheCall DEF Earned
  <2>2. QED
    BY <1>1, <2>1 DEF Owns, Recorded
<1>16. NothingTaken
  BY <1>1 DEF NothingTaken
<1>17. ImportTypes'
  BY <1>1, <1>7, <1>8, <1>14 DEF ImportInv, ImportTypes
<1>18. batch[b].status # "absent"
  BY <1>1, <1>2, TheCall
<1>19. \A s \in Rows : BatchOf[s] # b => row'[s] = row[s]
  BY <1>3, <1>14
<1>20. QED
  BY <1>1, <1>2, <1>7, <1>8, <1>9, <1>10, <1>11, <1>12, <1>14, <1>15, <1>16, <1>17, <1>18, <1>19,
     StepKept

(* A commit that will close its batch as committed has counted nothing     *)
(* that is left, and all rows are those of its batch.                      *)
LEMMA CountKeepsInv ==
    ASSUME ImportInv, NEW q \in Requests, Imports!Count(q)
    PROVE  ImportInv'
<1>1. /\ calls[q] # NoWork /\ calls[q].at = "count"
      /\ kind' = kind /\ batch' = batch /\ row' = row /\ slot' = slot /\ posted' = posted
      /\ disturbed' = disturbed
  BY DEF Imports!Count, Imports!At
<1>2. calls[q] \in ImportCalls
  BY <1>1, TheCall
<1>. DEFINE states == {row[r] : r \in Imports!RowsOf(calls[q].on)}
            done == "committed" \in states /\ states \subseteq {"committed", "skipped"}
<1>3. done => RowsDone(calls[q].on)
  BY DEF RowsDone
<1>4. calls' = [calls EXCEPT ![q].at = "finish",
                             ![q].to = IF done THEN "committed" ELSE "partially_valid"]
  BY DEF Imports!Count
<1>. HIDE DEF done
<1>5. PICK to \in {"committed", "partially_valid"} :
          to = IF done THEN "committed" ELSE "partially_valid"
  OBVIOUS
<1>. DEFINE w == [calls[q] EXCEPT !.at = "finish", !.to = to]
<1>6. w \in ImportCalls /\ w.at = "finish" /\ w.on = calls[q].on /\ w.to = to
  BY <1>2 DEF ImportCalls, Stages, Imports!BatchStatuses
<1>7. calls' = [calls EXCEPT ![q] = w]
  BY <1>4, <1>5 DEF ImportInv, ImportTypes
<1>. HIDE DEF w
<1>8. PICK v \in ImportCalls : v = w
  BY <1>6
<1>9. Consistent(v) /\ Earned(v)' /\ (v.to = "committed" => RowsDone(v.on))
  BY <1>3, <1>5, <1>6, <1>8 DEF Consistent, Earned, RowStages
<1>10. /\ NothingTaken /\ posted' \subseteq Rows
       /\ slot' \in [Keys -> [by : Rows \cup {User, NoRow}, active : BOOLEAN, version : Nat]]
  BY <1>1 DEF NothingTaken, ImportInv, ImportTypes
<1>11. QED
  BY <1>1, <1>6, <1>7, <1>8, <1>9, <1>10, CommitKept

(* A call that is cut off leaves everything as it is.                      *)
LEMMA CutOffKeepsInv ==
    ASSUME ImportInv, NEW q \in Requests, Imports!CutOff(q)
    PROVE  ImportInv'
<1>1. /\ calls[q] # NoWork /\ calls' = [calls EXCEPT ![q] = NoWork]
      /\ kind' = kind /\ batch' = batch /\ row' = row /\ slot' = slot /\ posted' = posted
      /\ disturbed' = disturbed
  BY DEF Imports!CutOff, Imports!Done
<1>2. PICK b \in Batches : b = calls[q].on
  BY <1>1, TheCall
<1>3. b \notin disturbed /\ batch[b].status = "committed" => RowsDone(b)'
  BY <1>1 DEF ImportInv, Complete, RowsDone
<1>4. ImportTypes' /\ NothingTaken
  BY <1>1 DEF ImportInv, ImportTypes, NothingTaken
<1>5. batch[b].status # "absent"
  BY <1>1, <1>2, TheCall
<1>6. QED
  BY <1>1, <1>2, <1>3, <1>4, <1>5, StepKept

-----------------------------------------------------------------------------
(* Uploads and the users of the live tables *)

(* No call is in flight on a batch before it is staged.                    *)
LEMMA StageKeepsInv ==
    ASSUME ImportInv, NEW b \in Batches, Imports!Stage(b)
    PROVE  ImportInv'
<1>1. /\ batch[b].status = "absent" /\ batch' = [batch EXCEPT ![b].status = "staged"]
      /\ row' = [r \in Rows |-> IF BatchOf[r] = b THEN "pending" ELSE row[r]]
      /\ kind' = kind /\ slot' = slot /\ posted' = posted /\ calls' = calls
      /\ disturbed' = disturbed
  BY DEF Imports!Stage
<1>2. /\ batch' \in [Batches -> [status : Imports!BatchStatuses, snapshot : [Keys -> Nat]]]
      /\ batch'[b].status = "staged" /\ \A d \in Batches \ {b} : batch'[d] = batch[d]
  BY <1>1 DEF ImportInv, ImportTypes, Imports!BatchStatuses
<1>3. /\ row' \in [Rows -> RowStatuses]
      /\ \A r \in Rows : BatchOf[r] # b => row'[r] = row[r]
      /\ \A r \in Rows : row'[r] = "committed" => row[r] = "committed"
      /\ \A r \in Rows : row'[r] = "absent" => row[r] = "absent"
  BY <1>1 DEF ImportInv, ImportTypes, RowStatuses
<1>4. \A d \in Batches \ {b} : RowsDone(d) => RowsDone(d)'
  <2>1. \A d \in Batches \ {b} : \A r \in Imports!RowsOf(d) : row'[r] = row[r]
    BY <1>3 DEF Imports!RowsOf
  <2>2. QED
    BY <2>1 DEF RowsDone
<1>5. ASSUME NEW q \in Requests, calls[q] # NoWork
      PROVE  (Consistent(calls[q]) /\ Earned(calls[q]) /\ Alone(calls[q]))'
  <2>1. PICK c \in ImportCalls : c = calls[q]
    BY <1>5, TheCall
  <2>2. /\ Consistent(c) /\ Earned(c) /\ Alone(c) /\ c.on \in Batches
        /\ batch[c.on].status # "absent"
    BY <1>5, <2>1, TheCall
  <2>3. c.on # b
    BY <1>1, <2>2
  <2>4. Earned(c)'
    BY <1>1, <2>2 DEF Earned, Owns, Recorded
  <2>5. c.at = "exclude" => \A r \in c.todo : row'[r] = row[r]
    BY <1>3, <2>2, <2>3 DEF Consistent, Imports!RowsOf
  <2>6. Alone(c)'
    BY <1>1, <1>2, <1>4, <2>2, <2>3, <2>5 DEF Alone
  <2>7. QED
    BY <1>1, <2>1, <2>2, <2>4, <2>6 DEF Consistent, Earned, Alone
<1>6. ImportTypes'
  BY <1>1, <1>2, <1>3 DEF ImportInv, ImportTypes
<1>7. Live'
  BY <1>1, <1>3 DEF ImportInv, Live, Owns, Recorded
<1>8. OneAtATime'
  BY <1>1 DEF ImportInv, OneAtATime
<1>9. Opened'
  <2>1. ASSUME NEW d \in Batches, batch'[d].status = "absent", NEW r \in Imports!RowsOf(d)
        PROVE  row'[r] = "absent"
    <3>1. d # b /\ batch[d].status = "absent"
      BY <1>2, <2>1
    <3>2. QED
      BY <1>3, <3>1 DEF ImportInv, Opened, Imports!RowsOf
  <2>2. ASSUME NEW q \in Requests, calls[q] # NoWork PROVE batch'[calls[q].on].status # "absent"
    BY <1>2, <2>2, TheCall
  <2>3. QED
    BY <1>1, <2>1, <2>2 DEF Opened, Imports!RowsOf
<1>10. Complete'
  BY <1>1, <1>2, <1>4 DEF ImportInv, Complete
<1>11. QED
  BY <1>1, <1>5, <1>6, <1>7, <1>8, <1>9, <1>10 DEF ImportInv

(* A step that only touches what is live, and takes no record away from    *)
(* the row it came from.                                                   *)
LEMMA LiveKept ==
    ASSUME ImportInv, kind' = kind, batch' = batch, row' = row, posted' = posted,
           calls' = calls, disturbed' = disturbed, NothingTaken,
           slot' \in [Keys -> [by : Rows \cup {User, NoRow}, active : BOOLEAN, version : Nat]]
    PROVE  ImportInv'
<1>1. ASSUME NEW q \in Requests, calls[q] # NoWork
      PROVE  (Consistent(calls[q]) /\ Earned(calls[q]) /\ Alone(calls[q]))'
  <2>1. PICK c \in ImportCalls : c = calls[q]
    BY <1>1, TheCall
  <2>2. Consistent(c) /\ Earned(c) /\ Alone(c) /\ c.todo \in SUBSET Rows
    BY <1>1, <2>1, TheCall DEF ImportCalls
  <2>3. kind # "budget_baseline" /\ c.at \in {"post", "mark"} => First(c.todo) \in Rows
    BY <2>2, FirstOfSome DEF Consistent, RowStages
  <2>4. Earned(c)'
    <3>1. kind # "budget_baseline" /\ c.at \in {"post", "mark"} => Owns(First(c.todo))'
      BY <2>2, <2>3, OwnersStay DEF Earned, ImportInv
    <3>2. kind # "budget_baseline" /\ c.at = "mark" => Recorded(First(c.todo))'
      BY <2>2, <2>3, OwnersStay DEF Earned, ImportInv
    <3>3. QED
      BY <3>1, <3>2 DEF Earned
  <2>5. Alone(c)'
    BY <2>2 DEF Alone, RowsDone
  <2>6. QED
    BY <2>1, <2>2, <2>4, <2>5 DEF Consistent, Earned, Alone
<1>2. ImportTypes'
  BY DEF ImportInv, ImportTypes
<1>3. Live'
  BY OwnersStay DEF ImportInv, Live
<1>4. OneAtATime' /\ Opened' /\ Complete'
  BY DEF ImportInv, OneAtATime, Opened, Complete, RowsDone
<1>5. QED
  BY <1>1, <1>2, <1>3, <1>4 DEF ImportInv

(* Users edit and hide what an import has created, and never replace it    *)
(* but for the lines of the budget.                                        *)
LEMMA UsersKeepInv ==
    ASSUME ImportInv, NEW k \in Keys, Imports!Write(k) \/ Imports!Delete(k)
    PROVE  ImportInv'
<1>1. /\ kind' = kind /\ batch' = batch /\ row' = row /\ posted' = posted /\ calls' = calls
      /\ disturbed' = disturbed
  BY DEF Imports!Write, Imports!Delete
<1>2. slot \in [Keys -> [by : Rows \cup {User, NoRow}, active : BOOLEAN, version : Nat]]
  BY DEF ImportInv, ImportTypes
<1>3. PICK new \in [by : Rows \cup {User, NoRow}, active : BOOLEAN, version : Nat] :
          /\ slot' = [slot EXCEPT ![k] = new]
          /\ kind # "budget_baseline" /\ slot[k].by \in Rows => new.by = slot[k].by
  <2>1. CASE Imports!Write(k)
    <3>1. PICK version \in {slot[k].version, slot[k].version + 1} :
              slot' = [slot EXCEPT ![k] = [by |-> IF @.by = NoRow \/ kind = "budget_baseline"
                                                  THEN User ELSE @.by,
                                           active |-> TRUE, version |-> version]]
      BY <2>1 DEF Imports!Write
    <3>2. version \in Nat
      BY <1>2
    <3>3. PICK by \in Rows \cup {User, NoRow} :
              /\ by = IF slot[k].by = NoRow \/ kind = "budget_baseline" THEN User ELSE slot[k].by
              /\ kind # "budget_baseline" /\ slot[k].by \in Rows => by = slot[k].by
      BY <1>2, CreatorsAssumption
    <3>. DEFINE w == [by |-> by, active |-> TRUE, version |-> version]
    <3>4. w \in [by : Rows \cup {User, NoRow}, active : BOOLEAN, version : Nat] /\ w.by = by
      BY <3>2
    <3>5. slot' = [slot EXCEPT ![k] = w]
      BY <1>2, <3>1, <3>3
    <3>. HIDE DEF w
    <3>6. QED
      BY <3>3, <3>4, <3>5
  <2>2. CASE Imports!Delete(k)
    <3>1. PICK by \in Rows \cup {User, NoRow} :
              /\ by = IF kind = "ipa_history" THEN NoRow ELSE slot[k].by
              /\ slot[k].by \in Rows => by = slot[k].by
      BY <1>2, <2>2, CreatorsAssumption DEF Imports!Delete
    <3>. DEFINE w == [slot[k] EXCEPT !.active = FALSE, !.by = by]
    <3>2. /\ w \in [by : Rows \cup {User, NoRow}, active : BOOLEAN, version : Nat]
          /\ w.by = by
      BY <1>2
    <3>3. slot' = [slot EXCEPT ![k] = w]
      BY <1>2, <2>2, <3>1 DEF Imports!Delete
    <3>. HIDE DEF w
    <3>4. QED
      BY <3>1, <3>2, <3>3
  <2>3. QED
    BY <2>1, <2>2
<1>4. slot' \in [Keys -> [by : Rows \cup {User, NoRow}, active : BOOLEAN, version : Nat]]
  BY <1>2, <1>3
<1>5. NothingTaken
  BY <1>1, <1>2, <1>3 DEF NothingTaken
<1>6. QED
  BY <1>1, <1>4, <1>5, LiveKept

-----------------------------------------------------------------------------
(* Theorems *)

(* Nothing is staged at the beginning.                                     *)
LEMMA ImportInit == Imports!Init => ImportInv
<1>. SUFFICES ASSUME Imports!Init PROVE ImportInv
  OBVIOUS
<1>. USE DEF Imports!Init
<1>1. ImportTypes
  BY DEF ImportTypes, Imports!BatchStatuses, Imports!NoSnapshot, RowStatuses
<1>2. Live
  BY DEF Live
<1>3. OneAtATime
  BY DEF OneAtATime
<1>4. Opened
  BY DEF Opened, Imports!RowsOf
<1>5. Complete
  BY DEF Complete
<1>6. QED
  BY <1>1, <1>2, <1>3, <1>4, <1>5 DEF ImportInv

(* Every step of the project keeps the invariant: the instructions of the  *)
(* engineer share nothing with an import but the budget.                   *)
LEMMA ImportNext ==
    ASSUME ImportInv, [Next]_vars
    PROVE  ImportInv'
<1>1. CASE Imports!Next
  BY <1>1, StageKeepsInv, UsersKeepInv, AsksKeepInv, ValidateKeepsInv, ExcludeKeepsInv,
     StatusKeepsInv, FreshKeepsInv, RowKeepsInv, MarkKeepsInv, CountKeepsInv, CutOffKeepsInv
     DEF Imports!Next
<1>2. CASE UNCHANGED importVars
  <2>1. /\ kind' = kind /\ batch' = batch /\ row' = row /\ posted' = posted /\ calls' = calls
        /\ disturbed' = disturbed /\ slot' = slot
    BY <1>2 DEF importVars
  <2>2. /\ NothingTaken
        /\ slot' \in [Keys -> [by : Rows \cup {User, NoRow}, active : BOOLEAN, version : Nat]]
    BY <2>1 DEF NothingTaken, ImportInv, ImportTypes
  <2>3. QED
    BY <2>1, <2>2, LiveKept
<1>3. QED
  BY <1>1, <1>2 DEF Next, vars

(* The invariant, along every behaviour of the project.                    *)
LEMMA ImportAlways == Spec => []ImportInv
<1>1. Init => ImportInv
  BY ImportInit DEF Init
<1>2. ImportInv /\ [Next]_vars => ImportInv'
  BY ImportNext
<1>3. QED
  BY <1>1, <1>2, PTL DEF Spec

(* CommittedIsLive, import/service: however many calls on a batch race or  *)
(* are cut off, and whatever users do to the live tables meanwhile, a row  *)
(* that is shown as committed created what is live under its period, and   *)
(* was posted when it had to be.                                           *)
THEOREM CommittedRowsAreLive == Spec => []CommittedIsLive
<1>1. ImportInv => CommittedIsLive
  BY DEF ImportInv, Live, Owns, Recorded, CommittedIsLive, Imports!CommittedIsLive
<1>2. QED
  BY <1>1, ImportAlways, PTL

(* CommittedIsComplete, import/service: a batch whose calls never          *)
(* overlapped, wherever they were cut off, is shown as committed only when *)
(* each row is committed or was skipped.                                   *)
THEOREM CommittedBatchesAreComplete == Spec => []CommittedIsComplete
<1>1. ImportInv => CommittedIsComplete
  BY DEF ImportInv, Complete, RowsDone, CommittedIsComplete, Imports!CommittedIsComplete
<1>2. QED
  BY <1>1, ImportAlways, PTL

-----------------------------------------------------------------------------
(* Sums over finite sets *)

\* The element that a fold over a set takes next.
Pick(S) == CHOOSE x \in S : TRUE

\* f sums the weights of every subset of S.
Sums(f, W, S) ==
    f = [s \in SUBSET S |-> IF s = {} THEN 0 ELSE W[Pick(s)] + f[s \ {Pick(s)}]]

SumOf(W, S) == LET f == CHOOSE f : Sums(f, W, S) IN f[S]

(* A family of subsets of a finite set has a smallest member: the ground   *)
(* on which all that follows is argued, in place of an induction.          *)
LEMMA Smallest ==
    ASSUME NEW U, IsFiniteSet(U), NEW B, B \subseteq SUBSET U, B # {}
    PROVE  \E T \in B : IsFiniteSet(T) /\ \A s \in B : s \subseteq T => s = T
<1>. DEFINE R == StrictSubsetOrdering(U)
<1>1. B \subseteq FiniteSubsetsOf(U)
  BY FS_Subset DEF FiniteSubsetsOf
<1>2. PICK T \in B : \A s \in B : ~(<<s, T>> \in R)
  <2>1. IsWellFoundedOn(R, FiniteSubsetsOf(U))
    BY FS_StrictSubsetOrderingWellFounded
  <2>. HIDE DEF R
  <2>2. QED
    BY <1>1, <2>1, WFMin
<1>3. IsFiniteSet(T)
  BY FS_Subset
<1>4. QED
  BY <1>2, <1>3 DEF StrictSubsetOrdering

(* What a fold takes next is there, and is gone afterwards.                *)
LEMMA PickIn ==
    ASSUME NEW S, S # {}
    PROVE  /\ Pick(S) \in S /\ S \ {Pick(S)} \subseteq S /\ S \ {Pick(S)} # S
           /\ IsFiniteSet(S) => IsFiniteSet(S \ {Pick(S)})
<1>1. Pick(S) \in S
  BY DEF Pick
<1>2. QED
  BY <1>1, FS_Subset

(* Two such functions agree where both are defined.                        *)
LEMMA SumsAgree ==
    ASSUME NEW W, NEW S, NEW T, NEW f, NEW g, Sums(f, W, S), Sums(g, W, T),
           NEW s, s \subseteq S, s \subseteq T, IsFiniteSet(s)
    PROVE  f[s] = g[s]
<1>. DEFINE B == {t \in SUBSET s : f[t] # g[t]}
<1>. SUFFICES ASSUME B # {} PROVE FALSE
  OBVIOUS
<1>1. B \subseteq SUBSET s
  OBVIOUS
<1>2. PICK t \in B : IsFiniteSet(t) /\ \A u \in B : u \subseteq t => u = t
  <2>. HIDE DEF B
  <2>1. QED
    BY <1>1, Smallest
<1>3. t \in SUBSET S /\ t \in SUBSET T
  OBVIOUS
<1>4. /\ f[t] = IF t = {} THEN 0 ELSE W[Pick(t)] + f[t \ {Pick(t)}]
      /\ g[t] = IF t = {} THEN 0 ELSE W[Pick(t)] + g[t \ {Pick(t)}]
  BY <1>3 DEF Sums
<1>5. t # {}
  BY <1>2, <1>4
<1>6. f[t \ {Pick(t)}] = g[t \ {Pick(t)}]
  BY <1>2, <1>5, PickIn
<1>7. QED
  BY <1>2, <1>4, <1>5, <1>6

(* For every finite set there is such a function.                          *)
LEMMA SumsExist ==
    ASSUME NEW W, NEW S, IsFiniteSet(S)
    PROVE  \E f : Sums(f, W, S)
<1>. DEFINE B == {t \in SUBSET S : ~ \E f : Sums(f, W, t)}
<1>. SUFFICES ASSUME B # {} PROVE FALSE
  OBVIOUS
<1>1. B \subseteq SUBSET S
  OBVIOUS
<1>2. PICK t \in B : IsFiniteSet(t) /\ \A u \in B : u \subseteq t => u = t
  <2>. HIDE DEF B
  <2>1. QED
    BY <1>1, Smallest
<1>. DEFINE h == [s \in SUBSET t |-> IF s = {} THEN 0
                                     ELSE W[Pick(s)] + SumOf(W, s \ {Pick(s)})]
<1>3. \A u \in SUBSET t : u # t => \E f : Sums(f, W, u)
  BY <1>2
<1>4. \A u \in SUBSET t : u # t => h[u] = SumOf(W, u)
  <2>1. SUFFICES ASSUME NEW u \in SUBSET t, u # t PROVE h[u] = SumOf(W, u)
    OBVIOUS
  <2>2. PICK f : Sums(f, W, u) /\ f[u] = SumOf(W, u)
    BY <1>3, <2>1 DEF SumOf
  <2>3. f[u] = IF u = {} THEN 0 ELSE W[Pick(u)] + f[u \ {Pick(u)}]
    BY <2>2 DEF Sums
  <2>4. CASE u = {}
    BY <2>2, <2>3, <2>4
  <2>5. CASE u # {}
    <3>. DEFINE w == u \ {Pick(u)}
    <3>1. w \subseteq u /\ w \in SUBSET t /\ w # t /\ IsFiniteSet(w)
      BY <1>2, <2>1, <2>5, PickIn, FS_Subset
    <3>2. PICK g : Sums(g, W, w) /\ g[w] = SumOf(W, w)
      BY <1>3, <3>1 DEF SumOf
    <3>3. f[w] = g[w]
      BY <2>2, <3>1, <3>2, SumsAgree
    <3>4. QED
      BY <2>2, <2>3, <2>5, <3>2, <3>3
  <2>6. QED
    BY <2>4, <2>5
<1>5. Sums(h, W, t)
  <2>1. ASSUME NEW s \in SUBSET t, s # {}
        PROVE  h[s \ {Pick(s)}] = SumOf(W, s \ {Pick(s)})
    <3>1. s \ {Pick(s)} \in SUBSET t /\ s \ {Pick(s)} # t
      BY <2>1, PickIn
    <3>2. QED
      BY <1>4, <3>1
  <2>2. QED
    BY <2>1 DEF Sums
<1>6. QED
  BY <1>2, <1>5

(* So a sum unfolds as its definition says.                                *)
LEMMA SumUnfolds ==
    ASSUME NEW W, NEW S, IsFiniteSet(S)
    PROVE  SumOf(W, S) = IF S = {} THEN 0 ELSE W[Pick(S)] + SumOf(W, S \ {Pick(S)})
<1>1. PICK f : Sums(f, W, S) /\ f[S] = SumOf(W, S)
  BY SumsExist DEF SumOf
<1>2. f[S] = IF S = {} THEN 0 ELSE W[Pick(S)] + f[S \ {Pick(S)}]
  BY <1>1 DEF Sums
<1>3. CASE S = {}
  BY <1>1, <1>2, <1>3
<1>4. CASE S # {}
  <2>. DEFINE s == S \ {Pick(S)}
  <2>1. s \subseteq S /\ IsFiniteSet(s)
    BY <1>4, PickIn
  <2>2. PICK g : Sums(g, W, s) /\ g[s] = SumOf(W, s)
    BY <2>1, SumsExist DEF SumOf
  <2>3. f[s] = g[s]
    BY <1>1, <2>1, <2>2, SumsAgree
  <2>4. QED
    BY <1>1, <1>2, <1>4, <2>2, <2>3
<1>5. QED
  BY <1>3, <1>4

(* A sum of integers is one.                                               *)
LEMMA SumIsInt ==
    ASSUME NEW D, NEW W \in [D -> Int], NEW S \in SUBSET D, IsFiniteSet(S)
    PROVE  SumOf(W, S) \in Int
<1>. DEFINE B == {t \in SUBSET S : SumOf(W, t) \notin Int}
<1>. SUFFICES ASSUME B # {} PROVE FALSE
  OBVIOUS
<1>1. B \subseteq SUBSET S
  OBVIOUS
<1>2. PICK t \in B : IsFiniteSet(t) /\ \A u \in B : u \subseteq t => u = t
  <2>. HIDE DEF B
  <2>1. QED
    BY <1>1, Smallest
<1>3. SumOf(W, t) = IF t = {} THEN 0 ELSE W[Pick(t)] + SumOf(W, t \ {Pick(t)})
  BY <1>2, SumUnfolds
<1>4. t # {}
  BY <1>2, <1>3
<1>5. SumOf(W, t \ {Pick(t)}) \in Int /\ W[Pick(t)] \in Int
  BY <1>2, <1>4, PickIn
<1>6. QED
  BY <1>2, <1>3, <1>4, <1>5

(* An element adds its weight, whichever is taken first.                   *)
LEMMA SumAdds ==
    ASSUME NEW D, NEW W \in [D -> Int], NEW S \in SUBSET D, IsFiniteSet(S)
    PROVE  \A x \in D \ S : SumOf(W, S \cup {x}) = SumOf(W, S) + W[x]
<1>. DEFINE Adds(t) == \A x \in D \ t : SumOf(W, t \cup {x}) = SumOf(W, t) + W[x]
            B == {t \in SUBSET S : ~Adds(t)}
<1>. SUFFICES ASSUME B # {} PROVE FALSE
  OBVIOUS
<1>1. B \subseteq SUBSET S
  OBVIOUS
<1>2. PICK t \in B : IsFiniteSet(t) /\ \A u \in B : u \subseteq t => u = t
  <2>. HIDE DEF B
  <2>1. QED
    BY <1>1, Smallest
<1>3. PICK e \in D \ t : SumOf(W, t \cup {e}) # SumOf(W, t) + W[e]
  OBVIOUS
<1>4. t \in SUBSET D /\ \A u \in SUBSET t : u # t => Adds(u)
  BY <1>2
<1>. HIDE DEF Adds, B
<1>5. PICK T : T = t \cup {e}
  OBVIOUS
<1>6. T # {} /\ T \in SUBSET D /\ IsFiniteSet(T) /\ T \ {e} = t
  BY <1>2, <1>4, <1>5, FS_AddElement
<1>7. SumOf(W, T) = W[Pick(T)] + SumOf(W, T \ {Pick(T)})
  BY <1>6, SumUnfolds
<1>8. SumOf(W, t) \in Int /\ W[e] \in Int
  BY <1>2, <1>4, SumIsInt
<1>9. ASSUME Pick(T) = e PROVE FALSE
  <2>1. SumOf(W, T) = W[e] + SumOf(W, t)
    BY <1>6, <1>7, <1>9
  <2>2. SumOf(W, T) = SumOf(W, t) + W[e]
    BY <1>8, <2>1
  <2>3. QED
    BY <1>3, <1>5, <2>2
<1>10. PICK p \in t : p = Pick(T)
  BY <1>5, <1>6, <1>9, PickIn
<1>11. PICK u \in SUBSET t : u = t \ {p}
  OBVIOUS
<1>12. /\ u # t /\ u \in SUBSET D /\ IsFiniteSet(u) /\ p \in D \ u /\ e \in D \ u
       /\ u \cup {p} = t /\ T \ {p} = u \cup {e}
  BY <1>2, <1>4, <1>5, <1>9, <1>10, <1>11, FS_Subset
<1>13. /\ SumOf(W, u \cup {e}) = SumOf(W, u) + W[e]
       /\ SumOf(W, u \cup {p}) = SumOf(W, u) + W[p]
  BY <1>4, <1>12 DEF Adds
<1>14. SumOf(W, u) \in Int /\ W[p] \in Int
  BY <1>12, SumIsInt
<1>15. SumOf(W, T) = W[p] + (SumOf(W, u) + W[e]) /\ SumOf(W, t) = SumOf(W, u) + W[p]
  BY <1>7, <1>10, <1>12, <1>13
<1>16. SumOf(W, T) = SumOf(W, t) + W[e]
  BY <1>8, <1>14, <1>15
<1>17. QED
  BY <1>3, <1>5, <1>16

(* Nothing sums up to zero.                                                *)
LEMMA SumOfNone ==
    ASSUME NEW W
    PROVE  SumOf(W, {}) = 0
BY SumUnfolds, FS_EmptySet

-----------------------------------------------------------------------------
(* The reserve of the budget *)

Statuses == {"absent", "received", "under_evaluation", "approved_reserve", "converted", "rejected",
             "expired"}

Tasks == [on : Instructions, to : Statuses, total : Int \cup {NoBudget},
          at : {"read", "move", "settle"}]

ReserveTypes ==
    /\ ei \in [Instructions -> Statuses]
    /\ exceptions \subseteq Instructions \X {"increase", "release"}
    /\ budget \in [exists : BOOLEAN, reserve : Int]
    /\ tasks \in [Transitions -> Tasks \cup {NoWork}]
    /\ strained \in BOOLEAN

\* While no transitions have overlapped there is one in flight at most.
OneTransition ==
    \A p, q \in Transitions : tasks[p] # NoWork /\ tasks[q] # NoWork => p = q

\* What a transition has read still holds; the total it will write back is
\* that of the budget, or an exception was recorded.
Holds(t) ==
    /\ t.to \in Reserves!Moves[ei[t.on]]
    /\ t.at = "move" <=> ~Reserves!TouchesBudget(ei[t.on], t.to)
    /\ t.at = "settle" =>
          IF t.total = NoBudget
          THEN <<t.on, IF t.to = "approved_reserve" THEN "increase" ELSE "release">> \in exceptions
          ELSE budget.exists /\ t.total = budget.reserve

\* A transition that found no budget, on its instruction.
Unbudgeted(e) ==
    \E q \in Transitions : /\ tasks[q] # NoWork /\ tasks[q].on = e
                           /\ tasks[q].at = "settle" /\ tasks[q].total = NoBudget

\* An exception is that of a transition that was made or is about to be.
Excused ==
    \A e \in Instructions :
        /\ <<e, "increase">> \in exceptions =>
              \/ ei[e] \notin {"absent", "received", "under_evaluation"}
              \/ Unbudgeted(e)
        /\ <<e, "release">> \in exceptions =>
              \/ ei[e] \in {"converted", "rejected", "expired"}
              \/ ei[e] = "approved_reserve" /\ Unbudgeted(e)

Approved == {e \in Instructions : ei[e] = "approved_reserve"}

Balance ==
    budget.reserve + Reserves!Total(Reserves!Excepted("increase"))
        - Reserves!Total(Reserves!Excepted("release"))

\* The reserve is that of the approved instructions, but for a transition
\* whose exception is recorded already.
Balanced ==
    /\ (\A e \in Instructions : ~Unbudgeted(e)) => Balance = Reserves!Total(Approved)
    /\ \A e \in Instructions : Unbudgeted(e) =>
          Balance = Reserves!Total(Approved) + IF e \in Approved THEN -AmountOf[e]
                                               ELSE AmountOf[e]

ReserveInv ==
    /\ ReserveTypes
    /\ ~budget.exists => budget.reserve = 0
    /\ ~strained =>
          /\ OneTransition
          /\ \A q \in Transitions : tasks[q] # NoWork => Holds(tasks[q])
          /\ Excused
          /\ Balanced


(* The moves of the table, as far as the reserve is concerned.             *)
LEMMA MovesTable ==
    ASSUME NEW from \in Statuses, NEW to \in Reserves!Moves[from]
    PROVE  /\ from \in {"received", "under_evaluation", "approved_reserve"}
           /\ to \in Statuses \ {"absent", "received"}
           /\ to = "approved_reserve" => from = "under_evaluation"
           /\ to = "under_evaluation" => from = "received"
           /\ from = "approved_reserve" <=> Reserves!TouchesBudget(from, to)
                                            /\ to # "approved_reserve"
           /\ from = "approved_reserve" => to \in {"converted", "rejected", "expired"}
<1>. USE DEF Reserves!Moves, Reserves!TouchesBudget, Statuses
<1>1. CASE from = "absent"
  BY <1>1
<1>2. CASE from = "received"
  BY <1>2
<1>3. CASE from = "under_evaluation"
  BY <1>3
<1>4. CASE from = "approved_reserve"
  BY <1>4
<1>5. CASE from \in {"converted", "rejected", "expired"}
  BY <1>5
<1>6. QED
  BY <1>1, <1>2, <1>3, <1>4, <1>5

(* A transition in flight is told from none.                               *)
LEMMA WorkIsWork ==
    NoWork \notin Tasks
<1>1. DOMAIN Reserves!Moves = Statuses
  BY DEF Reserves!Moves, Statuses
<1>2. QED
  BY <1>1, NoWorkAssumption DEF Tasks

(* The amounts of a set of instructions, when one comes or goes.           *)
LEMMA Amounts ==
    ASSUME NEW S \in SUBSET Instructions
    PROVE  /\ Reserves!Total(S) \in Int
           /\ \A e \in Instructions \ S : Reserves!Total(S \cup {e}) = Reserves!Total(S) + AmountOf[e]
           /\ \A e \in S : Reserves!Total(S \ {e}) = Reserves!Total(S) - AmountOf[e]
<1>1. ASSUME NEW T PROVE Reserves!Total(T) = SumOf(AmountOf, T)
  BY DEF Reserves!Total, Reserves!MapThenSumSet, Reserves!MapThenFoldSet, SumOf, Sums, Pick
<1>2. AmountOf \in [Instructions -> Int] /\ IsFiniteSet(S)
  BY AmountAssumption, FS_Subset
<1>3. SumOf(AmountOf, S) \in Int
  BY <1>2, SumIsInt
<1>4. \A e \in Instructions \ S : SumOf(AmountOf, S \cup {e}) = SumOf(AmountOf, S) + AmountOf[e]
  BY <1>2, SumAdds
<1>5. ASSUME NEW e \in S
      PROVE  SumOf(AmountOf, S \ {e}) = SumOf(AmountOf, S) - AmountOf[e]
  <2>1. PICK T \in SUBSET Instructions : T = S \ {e}
    OBVIOUS
  <2>2. T \cup {e} = S /\ IsFiniteSet(T) /\ e \in Instructions \ T
    BY <1>2, <2>1, FS_Subset
  <2>3. SumOf(AmountOf, T \cup {e}) = SumOf(AmountOf, T) + AmountOf[e]
    BY <1>2, <2>2, SumAdds
  <2>4. SumOf(AmountOf, T) \in Int /\ AmountOf[e] \in Int
    BY <1>2, <2>2, SumIsInt
  <2>5. SumOf(AmountOf, S) = SumOf(AmountOf, T) + AmountOf[e]
    BY <2>2, <2>3
  <2>6. SumOf(AmountOf, T) = SumOf(AmountOf, S) - AmountOf[e]
    BY <2>4, <2>5
  <2>7. QED
    BY <2>1, <2>6
<1>6. QED
  BY <1>1, <1>3, <1>4, <1>5

(* The transition in flight, while none has overlapped.                    *)
LEMMA TheTransition ==
    ASSUME ReserveInv, ~strained, NEW q \in Transitions, tasks[q] # NoWork
    PROVE  /\ tasks[q] \in Tasks /\ tasks[q].on \in Instructions
           /\ tasks[q].to \in Statuses /\ ei[tasks[q].on] \in Statuses
           /\ Holds(tasks[q])
           /\ \A p \in Transitions \ {q} : tasks[p] = NoWork
           /\ \A e \in Instructions :
                 Unbudgeted(e) <=> /\ e = tasks[q].on /\ tasks[q].at = "settle"
                                   /\ tasks[q].total = NoBudget
BY DEF ReserveInv, ReserveTypes, Tasks, OneTransition, Unbudgeted

(* The sets the balance is made of.                                        *)
LEMMA SetsTyped ==
    ASSUME ReserveTypes
    PROVE  /\ Approved \in SUBSET Instructions
           /\ \A type : Reserves!Excepted(type) \in SUBSET Instructions
           /\ Reserves!Total(Approved) \in Int
           /\ \A type : Reserves!Total(Reserves!Excepted(type)) \in Int
           /\ budget.reserve \in Int /\ Balance \in Int
           /\ \A e \in Instructions : AmountOf[e] \in Int
<1>1. Approved \in SUBSET Instructions
  BY DEF Approved
<1>2. ASSUME NEW type PROVE Reserves!Excepted(type) \in SUBSET Instructions
  BY DEF Reserves!Excepted
<1>3. ASSUME NEW type PROVE Reserves!Total(Reserves!Excepted(type)) \in Int
  BY <1>2, Amounts
<1>4. Reserves!Total(Approved) \in Int
  BY <1>1, Amounts
<1>5. budget.reserve \in Int
  BY DEF ReserveTypes
<1>6. Balance \in Int
  BY <1>3, <1>5 DEF Balance
<1>7. QED
  BY <1>1, <1>2, <1>3, <1>4, <1>5, <1>6, AmountAssumption

(* A budget that appears has no reserve, like the project before it.       *)
LEMMA BudgetAppears ==
    ASSUME ReserveInv, ei' = ei, exceptions' = exceptions, tasks' = tasks, strained' = strained,
           budget' \in [exists : BOOLEAN, reserve : Int], budget'.reserve = budget.reserve,
           budget.exists => budget'.exists
    PROVE  ReserveInv'
<1>1. ReserveTypes'
  BY DEF ReserveInv, ReserveTypes
<1>2. ~budget'.exists => budget'.reserve = 0
  BY DEF ReserveInv
<1>3. ASSUME ~strained
      PROVE  OneTransition' /\ Excused' /\ Balanced'
             /\ \A q \in Transitions : tasks[q] # NoWork => Holds(tasks[q])'
  <2>1. OneTransition'
    BY <1>3 DEF ReserveInv, OneTransition
  <2>2. \A e \in Instructions : Unbudgeted(e)' <=> Unbudgeted(e)
    BY DEF Unbudgeted
  <2>3. Excused'
    BY <1>3, <2>2 DEF ReserveInv, Excused
  <2>4. Balance' = Balance /\ Reserves!Total(Approved)' = Reserves!Total(Approved)
        /\ Approved' = Approved
    BY DEF Balance, Approved, Reserves!Excepted
  <2>5. Balanced'
    BY <1>3, <2>2, <2>4 DEF ReserveInv, Balanced
  <2>6. ASSUME NEW q \in Transitions, tasks[q] # NoWork PROVE Holds(tasks[q])'
    BY <1>3, <2>6 DEF ReserveInv, Holds
  <2>7. QED
    BY <2>1, <2>3, <2>5, <2>6
<1>4. QED
  BY <1>1, <1>2, <1>3 DEF ReserveInv

(* A received instruction has no reserve yet, and no transition before.    *)
LEMMA CreateEiKeepsInv ==
    ASSUME ReserveInv, ~strained, NEW e \in Instructions, Reserves!CreateEi(e)
    PROVE  ReserveInv'
<1>1. /\ ei[e] = "absent" /\ ei' = [ei EXCEPT ![e] = "received"]
      /\ exceptions' = exceptions /\ budget' = budget /\ tasks' = tasks /\ strained' = strained
  BY DEF Reserves!CreateEi
<1>2. /\ ei' \in [Instructions -> Statuses] /\ ei'[e] = "received"
      /\ \A f \in Instructions \ {e} : ei'[f] = ei[f]
  BY <1>1 DEF ReserveInv, ReserveTypes, Statuses
<1>3. ReserveTypes'
  BY <1>1, <1>2 DEF ReserveInv, ReserveTypes
<1>4. \A f \in Instructions : Unbudgeted(f)' <=> Unbudgeted(f)
  BY <1>1 DEF Unbudgeted
<1>5. Approved' = Approved
  BY <1>1, <1>2 DEF Approved
<1>6. Balance' = Balance /\ Reserves!Total(Approved)' = Reserves!Total(Approved)
  BY <1>1, <1>5 DEF Balance, Reserves!Excepted
<1>7. Balanced'
  BY <1>4, <1>5, <1>6 DEF ReserveInv, Balanced
<1>8. Excused'
  BY <1>1, <1>2, <1>4 DEF ReserveInv, Excused
<1>9. ASSUME NEW q \in Transitions, tasks[q] # NoWork PROVE Holds(tasks[q])'
  <2>1. Holds(tasks[q]) /\ tasks[q].on \in Instructions /\ ei[tasks[q].on] \in Statuses
    BY <1>9, TheTransition
  <2>2. tasks[q].on # e
    BY <1>1, <2>1, MovesTable DEF Holds
  <2>3. QED
    BY <1>1, <1>2, <2>1, <2>2 DEF Holds
<1>10. OneTransition'
  BY <1>1 DEF ReserveInv, OneTransition
<1>11. QED
  BY <1>1, <1>3, <1>7, <1>8, <1>9, <1>10 DEF ReserveInv

(* A transition is alone, or marks the reserve as strained.                *)
LEMMA AskKeepsInv ==
    ASSUME ReserveInv, ~strained, NEW q \in Transitions, NEW e \in Instructions,
           NEW to \in Reserves!Moves[ei[e]], Reserves!Ask(q, e, to)
    PROVE  ReserveInv'
<1>1. ei[e] \in Statuses
  BY DEF ReserveInv, ReserveTypes
<1>2. PICK stage \in {"read", "move"} :
          stage = IF Reserves!TouchesBudget(ei[e], to) THEN "read" ELSE "move"
  OBVIOUS
<1>3. PICK t \in Tasks : t = [on |-> e, to |-> to, total |-> NoBudget, at |-> stage]
  BY <1>1, MovesTable DEF Tasks
<1>4. /\ tasks[q] = NoWork /\ tasks' = [tasks EXCEPT ![q] = t]
      /\ ei' = ei /\ exceptions' = exceptions /\ budget' = budget
      /\ strained' = (strained \/ ~Reserves!Idle)
  BY <1>2, <1>3 DEF Reserves!Ask
<1>5. /\ tasks' \in [Transitions -> Tasks \cup {NoWork}] /\ tasks'[q] = t
      /\ \A p \in Transitions \ {q} : tasks'[p] = tasks[p]
  BY <1>4 DEF ReserveInv, ReserveTypes
<1>6. strained' \in BOOLEAN
  BY <1>4 DEF ReserveInv, ReserveTypes
<1>7. ReserveTypes'
  BY <1>4, <1>5, <1>6 DEF ReserveInv, ReserveTypes
<1>8. ASSUME Reserves!Idle
      PROVE  OneTransition' /\ Excused' /\ Balanced'
             /\ \A p \in Transitions : tasks'[p] # NoWork => Holds(tasks[p])'
  <2>1. \A p \in Transitions : tasks[p] = NoWork
    BY <1>8 DEF Reserves!Idle
  <2>2. OneTransition'
    BY <1>5, <2>1 DEF OneTransition
  <2>3. \A f \in Instructions : ~Unbudgeted(f) /\ ~Unbudgeted(f)'
    BY <1>3, <1>5, <2>1 DEF Unbudgeted
  <2>4. Excused'
    BY <1>4, <2>3 DEF ReserveInv, Excused
  <2>5. /\ Balance' = Balance /\ Reserves!Total(Approved)' = Reserves!Total(Approved)
    BY <1>4 DEF Balance, Approved, Reserves!Excepted
  <2>6. Balanced'
    BY <2>3, <2>5 DEF ReserveInv, Balanced
  <2>7. Holds(t)'
    BY <1>2, <1>3, <1>4 DEF Holds
  <2>8. ASSUME NEW p \in Transitions, tasks'[p] # NoWork PROVE Holds(tasks[p])'
    <3>1. tasks'[p] = t
      BY <1>5, <2>1, <2>8
    <3>2. QED
      BY <2>7, <3>1 DEF Holds
  <2>9. QED
    BY <2>2, <2>4, <2>6, <2>8
<1>9. QED
  BY <1>4, <1>7, <1>8 DEF ReserveInv


(* A transition that does not touch the budget moves no instruction in or  *)
(* out of the approved ones.                                               *)
LEMMA MoveKeepsInv ==
    ASSUME ReserveInv, ~strained, NEW q \in Transitions, Reserves!Move(q)
    PROVE  ReserveInv'
<1>1. /\ tasks[q] # NoWork /\ tasks[q].at = "move" /\ tasks' = [tasks EXCEPT ![q] = NoWork]
      /\ exceptions' = exceptions /\ budget' = budget /\ strained' = strained
  BY DEF Reserves!Move, Reserves!At, Reserves!Done
<1>2. PICK e \in Instructions, to \in Statuses : e = tasks[q].on /\ to = tasks[q].to
  BY <1>1, TheTransition
<1>3. /\ ei[e] \in Statuses /\ to \in Reserves!Moves[ei[e]] /\ ~Reserves!TouchesBudget(ei[e], to)
      /\ \A p \in Transitions \ {q} : tasks[p] = NoWork
      /\ \A f \in Instructions : ~Unbudgeted(f)
  BY <1>1, <1>2, TheTransition DEF Holds
<1>4. ei[e] \in {"received", "under_evaluation"} /\ to # "approved_reserve"
  BY <1>3, MovesTable DEF Reserves!TouchesBudget
<1>5. ei' = [ei EXCEPT ![e] = to]
  BY <1>2 DEF Reserves!Move
<1>6. /\ ei' \in [Instructions -> Statuses] /\ ei'[e] = to
      /\ \A f \in Instructions \ {e} : ei'[f] = ei[f]
  BY <1>5 DEF ReserveInv, ReserveTypes
<1>7. /\ tasks' \in [Transitions -> Tasks \cup {NoWork}]
      /\ \A p \in Transitions : tasks'[p] = NoWork
  BY <1>1, <1>3 DEF ReserveInv, ReserveTypes
<1>8. ReserveTypes'
  BY <1>1, <1>6, <1>7 DEF ReserveInv, ReserveTypes
<1>9. \A f \in Instructions : ~Unbudgeted(f)'
  BY <1>7 DEF Unbudgeted
<1>10. OneTransition' /\ \A p \in Transitions : tasks'[p] # NoWork => Holds(tasks[p])'
  BY <1>7 DEF OneTransition
<1>11. Approved' = Approved
  BY <1>4, <1>6 DEF Approved
<1>12. Balance' = Balance
  BY <1>1 DEF Balance, Reserves!Excepted
<1>13. Balanced'
  BY <1>3, <1>9, <1>11, <1>12 DEF ReserveInv, Balanced
<1>14. Excused'
  <2>1. <<e, "increase">> \notin exceptions /\ <<e, "release">> \notin exceptions
    BY <1>3, <1>4 DEF ReserveInv, Excused
  <2>2. QED
    BY <1>1, <1>3, <1>6, <2>1 DEF ReserveInv, Excused
<1>15. QED
  BY <1>1, <1>8, <1>10, <1>13, <1>14 DEF ReserveInv

(* The transaction has read the total, or recorded the exception that will *)
(* stand for it: nobody has recorded that one before.                      *)
LEMMA ReadKeepsInv ==
    ASSUME ReserveInv, ~strained, NEW q \in Transitions, Reserves!ReadBudget(q)
    PROVE  ReserveInv'
<1>1. /\ tasks[q] # NoWork /\ tasks[q].at = "read"
      /\ ei' = ei /\ budget' = budget /\ strained' = strained
  BY DEF Reserves!ReadBudget, Reserves!At
<1>2. PICK e \in Instructions, to \in Statuses : e = tasks[q].on /\ to = tasks[q].to
  BY <1>1, TheTransition
<1>3. /\ tasks[q] \in Tasks /\ ei[e] \in Statuses
      /\ to \in Reserves!Moves[ei[e]] /\ Reserves!TouchesBudget(ei[e], to)
      /\ \A p \in Transitions \ {q} : tasks[p] = NoWork
      /\ \A f \in Instructions : ~Unbudgeted(f)
  BY <1>1, <1>2, TheTransition DEF Holds
<1>4. IF to = "approved_reserve" THEN ei[e] = "under_evaluation" ELSE ei[e] = "approved_reserve"
  BY <1>3, MovesTable
<1>5. PICK type \in {"increase", "release"} :
          type = IF to = "approved_reserve" THEN "increase" ELSE "release"
  OBVIOUS
<1>6. PICK total \in Int \cup {NoBudget} :
          total = IF budget.exists THEN budget.reserve ELSE NoBudget
  BY DEF ReserveInv, ReserveTypes
<1>. DEFINE w == [tasks[q] EXCEPT !.at = "settle", !.total = total]
<1>7. w \in Tasks /\ w.at = "settle" /\ w.total = total /\ w.on = e /\ w.to = to
  BY <1>2, <1>3 DEF Tasks
<1>8. tasks' = [tasks EXCEPT ![q] = w]
  BY <1>6 DEF Reserves!ReadBudget, ReserveInv, ReserveTypes
<1>. HIDE DEF w
<1>9. PICK t \in Tasks : t = w
  BY <1>7
<1>10. /\ tasks' \in [Transitions -> Tasks \cup {NoWork}] /\ tasks'[q] = t
       /\ \A p \in Transitions \ {q} : tasks'[p] = NoWork
  BY <1>3, <1>8, <1>9 DEF ReserveInv, ReserveTypes
<1>11. exceptions' = IF budget.exists THEN exceptions ELSE exceptions \cup {<<e, type>>}
  BY <1>2, <1>5 DEF Reserves!ReadBudget
<1>12. ReserveTypes'
  BY <1>1, <1>10, <1>11 DEF ReserveInv, ReserveTypes
<1>13. OneTransition'
  BY <1>10 DEF OneTransition
<1>14. ASSUME NEW p \in Transitions, tasks'[p] # NoWork PROVE Holds(tasks[p])'
  <2>1. tasks'[p] = t
    BY <1>10, <1>14
  <2>2. Holds(t)'
    BY <1>1, <1>3, <1>5, <1>6, <1>7, <1>9, <1>11, AmountAssumption
       DEF Holds, ReserveInv, ReserveTypes
  <2>3. QED
    BY <2>1, <2>2 DEF Holds
<1>15. CASE budget.exists
  <2>1. total # NoBudget
    BY <1>6, <1>15, AmountAssumption DEF ReserveInv, ReserveTypes
  <2>2. \A f \in Instructions : ~Unbudgeted(f)'
    BY <1>7, <1>9, <1>10, <2>1 DEF Unbudgeted
  <2>3. Excused'
    BY <1>1, <1>3, <1>11, <1>15, <2>2 DEF ReserveInv, Excused
  <2>4. Balance' = Balance /\ Approved' = Approved
    BY <1>1, <1>11, <1>15 DEF Balance, Approved, Reserves!Excepted
  <2>5. Balanced'
    BY <1>3, <2>2, <2>4 DEF ReserveInv, Balanced
  <2>6. QED
    BY <1>1, <1>12, <1>13, <1>14, <2>3, <2>5 DEF ReserveInv
<1>16. CASE ~budget.exists
  <2>1. \A f \in Instructions : Unbudgeted(f)' <=> f = e
    <3>1. t # NoWork /\ t.at = "settle" /\ t.total = NoBudget /\ t.on = e
      BY <1>6, <1>7, <1>9, <1>16, WorkIsWork
    <3>2. QED
      BY <1>10, <3>1 DEF Unbudgeted
  <2>2. <<e, type>> \notin exceptions
    BY <1>3, <1>4, <1>5 DEF ReserveInv, Excused
  <2>3. exceptions' = exceptions \cup {<<e, type>>}
    BY <1>11, <1>16
  <2>4. Excused'
    BY <1>1, <1>3, <1>4, <1>5, <2>1, <2>3 DEF ReserveInv, Excused
  <2>5. Approved' = Approved
    BY <1>1 DEF Approved
  <2>6. Balance' = Balance + IF type = "increase" THEN AmountOf[e] ELSE -AmountOf[e]
    <3>1. PICK other \in {"increase", "release"} : other # type
      OBVIOUS
    <3>2. /\ Reserves!Excepted(type)' = Reserves!Excepted(type) \cup {e}
          /\ e \in Instructions \ Reserves!Excepted(type)
          /\ Reserves!Excepted(other)' = Reserves!Excepted(other)
      BY <2>2, <2>3, <3>1 DEF Reserves!Excepted
    <3>3. PICK S \in SUBSET Instructions, T \in SUBSET Instructions :
              S = Reserves!Excepted(type) /\ T = Reserves!Excepted(type)'
      BY DEF Reserves!Excepted
    <3>4. Reserves!Total(T) = Reserves!Total(S) + AmountOf[e]
      BY <3>2, <3>3, Amounts
    <3>5. Reserves!Total(Reserves!Excepted(type))' = Reserves!Total(T)
      BY <3>3
    <3>6. Reserves!Total(Reserves!Excepted(type))'
              = Reserves!Total(Reserves!Excepted(type)) + AmountOf[e]
      BY <3>3, <3>4, <3>5
    <3>7. Reserves!Total(Reserves!Excepted(other))' = Reserves!Total(Reserves!Excepted(other))
      BY <3>2
    <3>8. budget'.reserve = budget.reserve
      BY <1>1
    <3>9. QED
      BY <3>1, <3>6, <3>7, <3>8, SetsTyped DEF Balance, ReserveInv
  <2>7. Balance = Reserves!Total(Approved)
    BY <1>3 DEF ReserveInv, Balanced
  <2>8. e \in Approved <=> type = "release"
    BY <1>4, <1>5 DEF Approved
  <2>9. Balanced'
    BY <2>1, <2>5, <2>6, <2>7, <2>8 DEF Balanced
  <2>10. QED
    BY <1>1, <1>12, <1>13, <1>14, <2>4, <2>9 DEF ReserveInv
<1>17. QED
  BY <1>15, <1>16

(* The instruction and the reserve change together; without a budget the   *)
(* exception stands for the reserve.                                       *)
LEMMA SettleKeepsInv ==
    ASSUME ReserveInv, ~strained, NEW q \in Transitions, Reserves!Settle(q)
    PROVE  ReserveInv'
<1>1. /\ tasks[q] # NoWork /\ tasks[q].at = "settle" /\ tasks' = [tasks EXCEPT ![q] = NoWork]
      /\ exceptions' = exceptions /\ strained' = strained
  BY DEF Reserves!Settle, Reserves!At, Reserves!Done
<1>2. PICK e \in Instructions, to \in Statuses : e = tasks[q].on /\ to = tasks[q].to
  BY <1>1, TheTransition
<1>3. PICK total \in Int \cup {NoBudget} : total = tasks[q].total
  BY <1>1, TheTransition DEF Tasks
<1>4. /\ ei[e] \in Statuses /\ to \in Reserves!Moves[ei[e]] /\ Reserves!TouchesBudget(ei[e], to)
      /\ \A p \in Transitions \ {q} : tasks[p] = NoWork
      /\ \A f \in Instructions : Unbudgeted(f) <=> f = e /\ total = NoBudget
      /\ total # NoBudget => budget.exists /\ total = budget.reserve
  BY <1>1, <1>2, <1>3, TheTransition DEF Holds
<1>5. IF to = "approved_reserve" THEN ei[e] = "under_evaluation"
      ELSE ei[e] = "approved_reserve" /\ to \in {"converted", "rejected", "expired"}
  BY <1>4, MovesTable
<1>6. ei' = [ei EXCEPT ![e] = to]
  BY <1>2 DEF Reserves!Settle
<1>7. /\ ei' \in [Instructions -> Statuses] /\ ei'[e] = to
      /\ \A f \in Instructions \ {e} : ei'[f] = ei[f]
  BY <1>6 DEF ReserveInv, ReserveTypes
<1>8. /\ tasks' \in [Transitions -> Tasks \cup {NoWork}]
      /\ \A p \in Transitions : tasks'[p] = NoWork
  BY <1>1, <1>4 DEF ReserveInv, ReserveTypes
<1>9. AmountOf[e] \in Int /\ budget \in [exists : BOOLEAN, reserve : Int]
  BY SetsTyped DEF ReserveInv, ReserveTypes
<1>10. /\ budget' \in [exists : BOOLEAN, reserve : Int] /\ budget'.exists = budget.exists
       /\ budget'.reserve = IF total = NoBudget THEN budget.reserve
                            ELSE IF to = "approved_reserve" THEN budget.reserve + AmountOf[e]
                            ELSE budget.reserve - AmountOf[e]
  <2>1. CASE total = NoBudget
    BY <1>3, <1>9, <2>1 DEF Reserves!Settle
  <2>2. CASE total # NoBudget
    <3>1. PICK n \in Int : n = IF to = "approved_reserve" THEN budget.reserve + AmountOf[e]
                               ELSE budget.reserve - AmountOf[e]
      BY <1>9
    <3>2. budget' = [budget EXCEPT !.reserve = n]
      BY <1>2, <1>3, <1>4, <2>2, <3>1 DEF Reserves!Settle
    <3>3. QED
      BY <1>9, <2>2, <3>1, <3>2
  <2>3. QED
    BY <2>1, <2>2
<1>11. ReserveTypes'
  BY <1>1, <1>7, <1>8, <1>10 DEF ReserveInv, ReserveTypes
<1>12. ~budget'.exists => budget'.reserve = 0
  BY <1>4, <1>10 DEF ReserveInv
<1>13. \A f \in Instructions : ~Unbudgeted(f)'
  BY <1>8 DEF Unbudgeted
<1>14. OneTransition' /\ \A p \in Transitions : tasks'[p] # NoWork => Holds(tasks[p])'
  BY <1>8 DEF OneTransition
<1>15. Excused'
  <2>1. ASSUME NEW f \in Instructions, f # e
        PROVE  /\ <<f, "increase">> \in exceptions =>
                      ei'[f] \notin {"absent", "received", "under_evaluation"}
               /\ <<f, "release">> \in exceptions => ei'[f] \in {"converted", "rejected", "expired"}
    BY <1>4, <1>7, <2>1 DEF ReserveInv, Excused
  <2>2. /\ <<e, "increase">> \in exceptions =>
               ei'[e] \notin {"absent", "received", "under_evaluation"}
        /\ <<e, "release">> \in exceptions => ei'[e] \in {"converted", "rejected", "expired"}
    BY <1>5, <1>7 DEF ReserveInv, Excused
  <2>3. QED
    BY <1>1, <2>1, <2>2 DEF Excused
<1>16. Reserves!Total(Approved)' = IF to = "approved_reserve"
                                   THEN Reserves!Total(Approved) + AmountOf[e]
                                   ELSE Reserves!Total(Approved) - AmountOf[e]
  <2>1. PICK S \in SUBSET Instructions, T \in SUBSET Instructions : S = Approved /\ T = Approved'
    BY DEF Approved
  <2>2. IF to = "approved_reserve" THEN T = S \cup {e} /\ e \in Instructions \ S
        ELSE T = S \ {e} /\ e \in S
    BY <1>5, <1>7, <2>1 DEF Approved
  <2>3. Reserves!Total(T) = IF to = "approved_reserve" THEN Reserves!Total(S) + AmountOf[e]
                            ELSE Reserves!Total(S) - AmountOf[e]
    BY <2>2, Amounts
  <2>4. QED
    BY <2>1, <2>3
<1>17. Balance' = IF total = NoBudget THEN Balance
                  ELSE IF to = "approved_reserve" THEN Balance + AmountOf[e]
                  ELSE Balance - AmountOf[e]
  <2>1. \A type : Reserves!Excepted(type)' = Reserves!Excepted(type)
    BY <1>1 DEF Reserves!Excepted
  <2>2. /\ Reserves!Total(Reserves!Excepted("increase"))'
               = Reserves!Total(Reserves!Excepted("increase"))
        /\ Reserves!Total(Reserves!Excepted("release"))'
               = Reserves!Total(Reserves!Excepted("release"))
    BY <2>1
  <2>3. QED
    BY <1>9, <1>10, <2>2, SetsTyped DEF Balance, ReserveInv
<1>18. Balance = IF total # NoBudget THEN Reserves!Total(Approved)
                 ELSE IF to = "approved_reserve" THEN Reserves!Total(Approved) + AmountOf[e]
                 ELSE Reserves!Total(Approved) - AmountOf[e]
  <2>1. e \in Approved <=> to # "approved_reserve"
    BY <1>5 DEF Approved
  <2>2. CASE total # NoBudget
    BY <1>4, <2>2 DEF ReserveInv, Balanced
  <2>3. CASE total = NoBudget
    <3>1. Balance = Reserves!Total(Approved) + IF e \in Approved THEN -AmountOf[e]
                                               ELSE AmountOf[e]
      BY <1>4, <2>3 DEF ReserveInv, Balanced
    <3>2. Reserves!Total(Approved) \in Int
      BY SetsTyped DEF ReserveInv
    <3>3. QED
      BY <1>9, <2>1, <2>3, <3>1, <3>2
  <2>4. QED
    BY <2>2, <2>3
<1>19. Balanced'
  <2>1. Balance' = Reserves!Total(Approved)'
    BY <1>9, <1>16, <1>17, <1>18, SetsTyped DEF ReserveInv
  <2>2. QED
    BY <1>13, <2>1 DEF Balanced
<1>20. QED
  BY <1>1, <1>11, <1>12, <1>14, <1>15, <1>19 DEF ReserveInv

(* A transition that is cut off strains the reserve.                       *)
LEMMA TransitionCutOff ==
    ASSUME ReserveInv, NEW q \in Transitions, Reserves!CutOff(q)
    PROVE  ReserveInv'
BY DEF Reserves!CutOff, Reserves!Done, ReserveInv, ReserveTypes


(* Nothing was received yet, and nothing sums up to nothing.               *)
LEMMA ReserveInit == Reserves!Init => ReserveInv
<1>. SUFFICES ASSUME Reserves!Init PROVE ReserveInv
  OBVIOUS
<1>. USE DEF Reserves!Init
<1>1. ReserveTypes
  <2>1. ei \in [Instructions -> Statuses]
    BY DEF Statuses
  <2>2. budget \in [exists : BOOLEAN, reserve : Int]
    BY SMT
  <2>3. tasks \in [Transitions -> Tasks \cup {NoWork}]
    OBVIOUS
  <2>4. QED
    BY <2>1, <2>2, <2>3 DEF ReserveTypes
<1>2. \A e \in Instructions : ~Unbudgeted(e)
  BY DEF Unbudgeted
<1>3. OneTransition /\ Excused /\ \A q \in Transitions : tasks[q] # NoWork => Holds(tasks[q])
  BY DEF OneTransition, Excused
<1>4. Reserves!Total({}) = 0
  <2>1. Reserves!Total({}) = SumOf(AmountOf, {})
    BY DEF Reserves!Total, Reserves!MapThenSumSet, Reserves!MapThenFoldSet, SumOf, Sums, Pick
  <2>2. QED
    BY <2>1, SumOfNone
<1>5. Approved = {} /\ Reserves!Excepted("increase") = {} /\ Reserves!Excepted("release") = {}
  BY DEF Approved, Reserves!Excepted
<1>6. Balanced
  BY <1>2, <1>4, <1>5 DEF Balanced, Balance
<1>7. QED
  BY <1>1, <1>3, <1>6 DEF ReserveInv

(* Of the import, only the line of a baseline touches the budget.          *)
LEMMA ImportLeavesReserve ==
    ASSUME ReserveInv, Imports!Next
    PROVE  /\ budget' \in [exists : BOOLEAN, reserve : Int] /\ budget'.reserve = budget.reserve
           /\ budget.exists => budget'.exists
<1>1. budget \in [exists : BOOLEAN, reserve : Int]
  BY DEF ReserveInv, ReserveTypes
<1>2. CASE budget' = budget
  BY <1>1, <1>2
<1>3. CASE budget' = [budget EXCEPT !.exists = TRUE]
  BY <1>1, <1>3
<1>4. ASSUME NEW b \in Batches, Imports!Stage(b) PROVE budget' = budget
  BY <1>4 DEF Imports!Stage
<1>5. ASSUME NEW k \in Keys, Imports!Write(k) \/ Imports!Delete(k) PROVE budget' = budget
  BY <1>5 DEF Imports!Write, Imports!Delete
<1>6. ASSUME NEW q \in Requests, NEW b \in Batches,
             \/ Imports!AskValidate(q, b) \/ Imports!AskCommit(q, b)
             \/ \E to \in {"rejected", "cancelled"} : Imports!AskClose(q, b, to)
      PROVE  budget' = budget
  BY <1>6 DEF Imports!AskValidate, Imports!AskCommit, Imports!AskClose
<1>7. ASSUME NEW q \in Requests, NEW r \in Rows, Imports!AskExclude(q, r) PROVE budget' = budget
  BY <1>7 DEF Imports!AskExclude
<1>8. ASSUME NEW q \in Requests,
             \/ Imports!TakeSnapshot(q) \/ Imports!Grade(q) \/ Imports!Exclude(q)
             \/ Imports!Close(q) \/ Imports!Fresh(q) \/ Imports!FindPeriod(q)
      PROVE  budget' = budget
  BY <1>8 DEF Imports!TakeSnapshot, Imports!Grade, Imports!Exclude, Imports!Close, Imports!Fresh,
              Imports!FindPeriod
<1>9. ASSUME NEW q \in Requests,
             \/ Imports!CreateIpa(q) \/ Imports!Post(q) \/ Imports!CreateForecast(q)
             \/ Imports!Throw(q) \/ Imports!Mark(q) \/ Imports!Count(q) \/ Imports!Finish(q)
             \/ Imports!CutOff(q)
      PROVE  budget' = budget
  BY <1>9 DEF Imports!CreateIpa, Imports!Post, Imports!CreateForecast, Imports!Throw,
              Imports!Mark, Imports!Count, Imports!Finish, Imports!CutOff
<1>10. ASSUME NEW q \in Requests, Imports!SetLine(q)
       PROVE  budget' = [budget EXCEPT !.exists = TRUE]
  BY <1>10 DEF Imports!SetLine
<1>11. QED
  BY <1>2, <1>3, <1>4, <1>5, <1>6, <1>7, <1>8, <1>9, <1>10 DEF Imports!Next

(* Each step of a transition, of the import beside it, or of neither.      *)
LEMMA ReserveNext == ReserveInv /\ [Next]_vars => ReserveInv'
<1>. SUFFICES ASSUME ReserveInv, [Next]_vars PROVE ReserveInv'
  OBVIOUS
<1>1. CASE ~strained /\ Imports!Next /\ UNCHANGED reserveVars
  <2>1. ei' = ei /\ exceptions' = exceptions /\ tasks' = tasks /\ strained' = strained
    BY <1>1 DEF reserveVars
  <2>2. QED
    BY <1>1, <2>1, ImportLeavesReserve, BudgetAppears
<1>2. CASE ~strained /\ Reserves!Next
  <2>1. CASE Reserves!CreateBudget
    <3>1. /\ ei' = ei /\ exceptions' = exceptions /\ tasks' = tasks /\ strained' = strained
          /\ ~budget.exists /\ budget' = [exists |-> TRUE, reserve |-> 0]
      BY <2>1 DEF Reserves!CreateBudget, Reserves!reserveVars
    <3>2. budget' \in [exists : BOOLEAN, reserve : Int] /\ budget'.reserve = budget.reserve
      BY <3>1 DEF ReserveInv
    <3>3. QED
      BY <3>1, <3>2, BudgetAppears
  <2>2. ASSUME NEW e \in Instructions, Reserves!CreateEi(e) PROVE ReserveInv'
    BY <1>2, <2>2, CreateEiKeepsInv
  <2>3. ASSUME NEW q \in Transitions, NEW e \in Instructions,
               NEW to \in Reserves!Moves[ei[e]], Reserves!Ask(q, e, to)
        PROVE  ReserveInv'
    BY <1>2, <2>3, AskKeepsInv
  <2>4. ASSUME NEW q \in Transitions, Reserves!Move(q) PROVE ReserveInv'
    BY <1>2, <2>4, MoveKeepsInv
  <2>5. ASSUME NEW q \in Transitions, Reserves!ReadBudget(q) PROVE ReserveInv'
    BY <1>2, <2>5, ReadKeepsInv
  <2>6. ASSUME NEW q \in Transitions, Reserves!Settle(q) PROVE ReserveInv'
    BY <1>2, <2>6, SettleKeepsInv
  <2>7. ASSUME NEW q \in Transitions, Reserves!CutOff(q) PROVE ReserveInv'
    BY <2>7, TransitionCutOff
  <2>8. QED
    BY <1>2, <2>1, <2>2, <2>3, <2>4, <2>5, <2>6, <2>7 DEF Reserves!Next
<1>3. CASE UNCHANGED vars
  <2>1. ei' = ei /\ exceptions' = exceptions /\ tasks' = tasks /\ strained' = strained
        /\ budget' = budget
    BY <1>3 DEF vars, reserveVars
  <2>2. budget' \in [exists : BOOLEAN, reserve : Int]
    BY <2>1 DEF ReserveInv, ReserveTypes
  <2>3. QED
    BY <2>1, <2>2, BudgetAppears
<1>4. QED
  BY <1>1, <1>2, <1>3 DEF Next

(* The invariant of the reserve, at any time.                              *)
LEMMA ReserveAlways == Spec => []ReserveInv
<1>1. Init => ReserveInv
  BY ReserveInit DEF Init
<1>2. QED
  BY <1>1, ReserveNext, PTL DEF Spec

(* ReserveAccounted, budget/absorption and engineer-instruction/service:   *)
(* between transitions that did not overlap and were not cut off, the      *)
(* reserve of the budget is the sum of those of the approved instructions, *)
(* up to the recorded exceptions, also when an import creates the budget.  *)
THEOREM ReserveAlwaysAccounted == Spec => []ReserveAccounted
<1>1. ReserveInv => ReserveAccounted
  <2>1. SUFFICES ASSUME ReserveInv, ~strained, Reserves!Idle
                 PROVE  Balance = Reserves!Total(Approved)
    BY DEF ReserveAccounted, Reserves!ReserveAccounted, Balance, Approved
  <2>2. \A e \in Instructions : ~Unbudgeted(e)
    BY <2>1 DEF Reserves!Idle, Unbudgeted
  <2>3. QED
    BY <2>1, <2>2 DEF ReserveInv, Balanced
<1>2. QED
  BY <1>1, ReserveAlways, PTL

(* The tables of the import and of the reserve, and the calls on them, keep *)
(* their types.                                                            *)
THEOREM PlanningTypes == Spec => [](ImportTypes /\ ReserveTypes)
<1>1. ImportInv => ImportTypes
  BY DEF ImportInv
<1>2. ReserveInv => ReserveTypes
  BY DEF ReserveInv
<1>3. QED
  BY <1>1, <1>2, ImportAlways, ReserveAlways, PTL

=============================================================================
