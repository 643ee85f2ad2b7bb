------------------------------- MODULE Import -------------------------------
(***************************************************************************)
(* Batches of spreadsheet rows that are staged, validated and committed to *)
(* live tables of one project: payment applications of the past, forecasts *)
(* or the baseline of the budget. The calls on a batch are sequences of    *)
(* separate queries, one action each:                                      *)
(*                                                                         *)
(*   validate        batch read -> "snapshot" -> "grade"                   *)
(*   commit          batch and valid rows read -> "fresh"                  *)
(*                   -> for every row  "row" [-> "create" [-> "post"]]     *)
(*                                     -> "mark" or "fail"                 *)
(*                   -> "count" -> "finish"                                *)
(*   exclude a row   row read -> "exclude"                                 *)
(*   reject, cancel  batch read -> "close"                                 *)
(***************************************************************************)
EXTENDS Naturals, FiniteSets

CONSTANTS
    Kinds,          \* the import types looked at, one in each behaviour:
                    \* "ipa_history", "ipa_forecast" and "budget_baseline"
    Batches, Rows,
    BatchOf,        \* the batch of a row
    NumberOf,       \* its place in the sheet
    KeyOf,          \* its period number, or its budget category
    Keys,
    Broken,         \* rows whose period or category is missing or malformed
    Posting,        \* rows that declare an application approved or later
    Requests,       \* the calls that can be in flight at the same time
    MaxWrites,      \* bounds what users write to the live tables themselves
    Faults,         \* TRUE: a query may fail, a call may be cut off
    User, NoRow, NoWork

VARIABLES
    kind,           \* the import type of the batches
    batch,          \* the status of each batch and its reference snapshot
    row,            \* the status of each row
    slot,           \* what is live under each key
    posted,         \* the rows with an IPA_APPROVED event
    budget,         \* the budget of the project
    calls,          \* the calls in flight
    writes,         \* bounds: what users wrote
    disturbed       \* history: batches with two calls at a time

importVars == <<kind, batch, row, slot, posted, calls, writes, disturbed>>
vars == <<importVars, budget>>

BatchStatuses == {"absent", "staged", "validated", "partially_valid", "committed", "rejected",
                  "cancelled"}
Closed == {"committed", "rejected", "cancelled"}
Ready == {"validated", "partially_valid"}

RowsOf(b) == {r \in Rows : BatchOf[r] = b}

\* What a reader sees of the live tables: a soft-deleted forecast is hidden.
Visible == [k \in Keys |-> IF slot[k].active THEN slot[k].version ELSE 0]

NoSnapshot == [k \in Keys |-> 0]

\* The reference snapshot: the existing records, or the fixed categories.
Snapshot == IF kind = "budget_baseline" THEN NoSnapshot ELSE Visible

Init ==
    /\ kind \in Kinds
    /\ batch = [b \in Batches |-> [status |-> "absent", snapshot |-> NoSnapshot]]
    /\ row = [r \in Rows |-> "absent"]
    /\ slot = [k \in Keys |-> [by |-> NoRow, active |-> FALSE, version |-> 0]]
    /\ posted = {}
    /\ budget = [exists |-> FALSE, reserve |-> 0]
    /\ calls = [q \in Requests |-> NoWork]
    /\ writes = 0
    /\ disturbed = {}

At(q, stage) == calls[q] # NoWork /\ calls[q].at = stage

GoTo(q, stage) == calls' = [calls EXCEPT ![q].at = stage]

Done(q) == calls' = [calls EXCEPT ![q] = NoWork]

\* to: the status to write; todo: the rows to go through; snapshot: the one
\* the call has read.
Begin(q, b, stage, to, todo, snapshot) ==
    /\ calls[q] = NoWork
    /\ calls' = [calls EXCEPT ![q] = [on |-> b, at |-> stage, to |-> to, todo |-> todo,
                                      snapshot |-> snapshot]]
    /\ disturbed' = IF \E p \in Requests : calls[p] # NoWork /\ calls[p].on = b
                    THEN disturbed \cup {b} ELSE disturbed

-----------------------------------------------------------------------------

\* stageBatch; the same file cannot be staged again.
Stage(b) ==
    /\ batch[b].status = "absent"
    /\ batch' = [batch EXCEPT ![b].status = "staged"]
    /\ row' = [r \in Rows |-> IF BatchOf[r] = b THEN "pending" ELSE row[r]]
    /\ UNCHANGED <<kind, slot, posted, budget, calls, writes, disturbed>>

AskValidate(q, b) ==
    /\ batch[b].status \notin Closed \cup {"absent"}
    /\ Begin(q, b, "snapshot", "validated", {}, NoSnapshot)
    /\ UNCHANGED <<kind, batch, row, slot, posted, budget, writes>>

TakeSnapshot(q) ==
    /\ At(q, "snapshot")
    /\ calls' = [calls EXCEPT ![q].at = "grade", ![q].snapshot = Snapshot]
    /\ UNCHANGED <<kind, batch, row, slot, posted, budget, writes, disturbed>>

\* An application repeated in its sheet is invalid, a period that is live is
\* a conflict.
Verdict(r, snapshot) ==
    IF \/ r \in Broken
       \/ kind = "ipa_history" /\ \E s \in RowsOf(BatchOf[r]) :
             s \notin Broken /\ KeyOf[s] = KeyOf[r] /\ NumberOf[s] < NumberOf[r]
    THEN "invalid"
    ELSE IF snapshot[KeyOf[r]] # 0 THEN "conflict" ELSE "valid"

\* Every row is graded anew, whatever became of it before.
Grade(q) ==
    LET c == calls[q]
        graded == [r \in Rows |-> IF BatchOf[r] = c.on THEN Verdict(r, c.snapshot) ELSE row[r]]
        clean == \A r \in RowsOf(c.on) : graded[r] = "valid"
    IN
    /\ At(q, "grade")
    /\ row' = graded
    /\ batch' = [batch EXCEPT ![c.on] = [status |-> IF clean THEN "validated" ELSE "partially_valid",
                                         snapshot |-> c.snapshot]]
    /\ Done(q)
    /\ UNCHANGED <<kind, slot, posted, budget, writes, disturbed>>

AskExclude(q, r) ==
    /\ row[r] \notin {"committed", "absent"}
    /\ Begin(q, BatchOf[r], "exclude", "skipped", {r}, NoSnapshot)
    /\ UNCHANGED <<kind, batch, row, slot, posted, budget, writes>>

Exclude(q) ==
    /\ At(q, "exclude")
    /\ row' = [r \in Rows |-> IF r \in calls[q].todo THEN "skipped" ELSE row[r]]
    /\ Done(q)
    /\ UNCHANGED <<kind, batch, slot, posted, budget, writes, disturbed>>

\* rejectBatch and cancelBatch.
AskClose(q, b, to) ==
    /\ batch[b].status \notin Closed \cup {"absent"}
    /\ Begin(q, b, "close", to, {}, NoSnapshot)
    /\ UNCHANGED <<kind, batch, row, slot, posted, budget, writes>>

Close(q) ==
    /\ At(q, "close")
    /\ batch' = [batch EXCEPT ![calls[q].on].status = calls[q].to]
    /\ Done(q)
    /\ UNCHANGED <<kind, row, slot, posted, budget, writes, disturbed>>

-----------------------------------------------------------------------------
(* commitBatch *)

AskCommit(q, b) ==
    /\ batch[b].status \in Ready
    /\ Begin(q, b, "fresh", "committed", {r \in RowsOf(b) : row[r] = "valid"}, batch[b].snapshot)
    /\ UNCHANGED <<kind, batch, row, slot, posted, budget, writes>>

\* The freshness guard, on the snapshot the call has read with its batch.
Fresh(q) ==
    LET c == calls[q] IN
    /\ At(q, "fresh")
    /\ IF c.snapshot = Snapshot /\ c.todo # {}
       THEN calls' = [calls EXCEPT ![q].at = "row", ![q].snapshot = NoSnapshot]
       ELSE Done(q)
    /\ UNCHANGED <<kind, batch, row, slot, posted, budget, writes, disturbed>>

Current(q) == CHOOSE r \in calls[q].todo : \A s \in calls[q].todo : NumberOf[r] <= NumberOf[s]

\* The record a row creates, or the line it sets.
Fill(r) ==
    slot' = [slot EXCEPT ![KeyOf[r]] =
                [by |-> r, active |-> TRUE,
                 version |-> IF kind = "budget_baseline" THEN 1 ELSE @.version + 1]]

\* commitIpaHistoryRow looks for an application of the period.
FindPeriod(q) ==
    /\ kind = "ipa_history" /\ At(q, "row")
    /\ GoTo(q, IF slot[KeyOf[Current(q)]].by = NoRow THEN "create" ELSE "fail")
    /\ UNCHANGED <<kind, batch, row, slot, posted, budget, writes, disturbed>>

\* It creates one, which fails when there is one by now.
CreateIpa(q) ==
    LET r == Current(q) IN
    /\ At(q, "create")
    /\ IF slot[KeyOf[r]].by = NoRow
       THEN Fill(r) /\ GoTo(q, IF r \in Posting THEN "post" ELSE "mark")
       ELSE GoTo(q, "fail") /\ UNCHANGED slot
    /\ UNCHANGED <<kind, batch, row, posted, budget, writes, disturbed>>

\* Mutated form: the row is marked committed although the posting failed.
PostMarked(q) ==
    /\ At(q, "post")
    /\ GoTo(q, "mark")
    /\ \/ posted' = posted \cup {Current(q)}
       \/ Faults /\ UNCHANGED posted
    /\ UNCHANGED <<kind, batch, row, slot, budget, writes, disturbed>>

\* postingService.post; when it throws, the application stays.
Post(q) ==
    /\ At(q, "post")
    /\ \/ GoTo(q, "mark") /\ posted' = posted \cup {Current(q)}
       \/ Faults /\ GoTo(q, "fail") /\ UNCHANGED posted
    /\ UNCHANGED <<kind, batch, row, slot, budget, writes, disturbed>>

\* commitIpaForecastRow: a period that has a forecast, also a deleted one, is
\* a collision.
CreateForecast(q) ==
    LET r == Current(q) IN
    /\ kind = "ipa_forecast" /\ At(q, "row")
    /\ IF slot[KeyOf[r]].by = NoRow THEN Fill(r) /\ GoTo(q, "mark")
       ELSE GoTo(q, "fail") /\ UNCHANGED slot
    /\ UNCHANGED <<kind, batch, row, posted, budget, writes, disturbed>>

\* commitBudgetBaselineRow finds or creates the budget and sets the line.
SetLine(q) ==
    /\ kind = "budget_baseline" /\ At(q, "row")
    /\ Fill(Current(q))
    /\ budget' = [budget EXCEPT !.exists = TRUE]
    /\ GoTo(q, "mark")
    /\ UNCHANGED <<kind, batch, row, posted, writes, disturbed>>

\* A query for a row fails, the update that marks it included.
Throw(q) ==
    /\ Faults /\ (At(q, "row") \/ At(q, "create") \/ At(q, "mark"))
    /\ GoTo(q, "fail")
    /\ UNCHANGED <<kind, batch, row, slot, posted, budget, writes, disturbed>>

\* The row is updated in a query of its own, and the call takes the next one.
Mark(q) ==
    LET c == calls[q]
        r == Current(q)
    IN
    /\ At(q, "mark") \/ At(q, "fail")
    /\ row' = [row EXCEPT ![r] = IF c.at = "mark" THEN "committed" ELSE "invalid"]
    /\ calls' = [calls EXCEPT ![q].todo = @ \ {r},
                              ![q].at = IF c.todo = {r} THEN "count" ELSE "row"]
    /\ UNCHANGED <<kind, batch, slot, posted, budget, writes, disturbed>>

\* Mutated form: rows that failed to commit do not keep the batch open.
CountOpen(q) ==
    LET states == {row[r] : r \in RowsOf(calls[q].on)} IN
    /\ At(q, "count")
    /\ calls' = [calls EXCEPT ![q].at = "finish",
                              ![q].to = IF "committed" \in states /\ "valid" \notin states
                                        THEN "committed" ELSE "partially_valid"]
    /\ UNCHANGED <<kind, batch, row, slot, posted, budget, writes, disturbed>>

\* The rows are counted anew.
Count(q) ==
    LET states == {row[r] : r \in RowsOf(calls[q].on)} IN
    /\ At(q, "count")
    /\ calls' = [calls EXCEPT ![q].at = "finish",
                              ![q].to = IF /\ "committed" \in states
                                           /\ states \subseteq {"committed", "skipped"}
                                        THEN "committed" ELSE "partially_valid"]
    /\ UNCHANGED <<kind, batch, row, slot, posted, budget, writes, disturbed>>

Finish(q) ==
    /\ At(q, "finish")
    /\ batch' = [batch EXCEPT ![calls[q].on].status = calls[q].to]
    /\ Done(q)
    /\ UNCHANGED <<kind, row, slot, posted, budget, writes, disturbed>>

-----------------------------------------------------------------------------
(* What users do to the live tables meanwhile *)

\* An application or a forecast is created, edited or restored, a line is set.
Write(k) ==
    /\ writes < MaxWrites
    /\ kind = "ipa_history" => slot[k].by \in {NoRow, User}
    /\ kind = "budget_baseline" => budget.exists
    /\ \E version \in {slot[k].version, slot[k].version + 1} :
          /\ version > 0
          /\ ~slot[k].active /\ kind = "ipa_history" => version > slot[k].version
          /\ slot' = [slot EXCEPT ![k] = [by |-> IF @.by = NoRow \/ kind = "budget_baseline"
                                                 THEN User ELSE @.by,
                                          active |-> TRUE, version |-> version]]
    /\ writes' = writes + 1
    /\ UNCHANGED <<kind, batch, row, posted, budget, calls, disturbed>>

\* A draft application is deleted, a forecast only hidden.
Delete(k) ==
    /\ slot[k].active /\ kind # "budget_baseline"
    /\ kind = "ipa_history" => slot[k].by = User
    /\ slot' = [slot EXCEPT ![k].active = FALSE,
                            ![k].by = IF kind = "ipa_history" THEN NoRow ELSE @]
    /\ UNCHANGED <<kind, batch, row, posted, budget, calls, writes, disturbed>>

-----------------------------------------------------------------------------

\* The process dies or the connection is lost; nothing resumes the call.
CutOff(q) ==
    /\ Faults
    /\ calls[q] # NoWork
    /\ Done(q)
    /\ UNCHANGED <<kind, batch, row, slot, posted, budget, writes, disturbed>>

Next ==
    \/ \E b \in Batches : Stage(b)
    \/ \E k \in Keys : Write(k) \/ Delete(k)
    \/ \E q \in Requests, b \in Batches :
        \/ AskValidate(q, b) \/ AskCommit(q, b)
        \/ \E to \in {"rejected", "cancelled"} : AskClose(q, b, to)
    \/ \E q \in Requests, r \in Rows : AskExclude(q, r)
    \/ \E q \in Requests :
        \/ TakeSnapshot(q) \/ Grade(q) \/ Exclude(q) \/ Close(q)
        \/ Fresh(q) \/ FindPeriod(q) \/ CreateIpa(q) \/ Post(q) \/ CreateForecast(q) \/ SetLine(q)
        \/ Throw(q) \/ Mark(q) \/ Count(q) \/ Finish(q) \/ CutOff(q)

Spec == Init /\ [][Next]_vars

-----------------------------------------------------------------------------
(* Properties *)

(* However the calls race or are cut off, a row that is shown as committed *)
(* is the one that created what is live under its period, and an approved  *)
(* application of the past is in the ledger.                               *)
CommittedIsLive ==
    \A r \in Rows : row[r] = "committed" /\ kind # "budget_baseline" =>
        /\ slot[KeyOf[r]].by = r
        /\ kind = "ipa_history" /\ r \in Posting => r \in posted

(* A batch whose calls never overlapped, wherever they were cut off, is    *)
(* shown as committed only when none of its rows is left to be dealt with. *)
CommittedIsComplete ==
    \A b \in Batches \ disturbed : batch[b].status = "committed" =>
        /\ \A r \in RowsOf(b) : row[r] \in {"committed", "skipped"}
        /\ \E r \in RowsOf(b) : row[r] = "committed"

=============================================================================
