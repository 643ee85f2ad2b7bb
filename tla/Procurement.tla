---------------------------- MODULE Procurement ----------------------------
(***************************************************************************)
(* Purchase orders, supplier invoices, expenses and credit notes of one    *)
(* project and one budget category: their status services, the workflow    *)
(* instances that approve them, the convergence handlers that carry a      *)
(* workflow outcome over to the record, and the budget line both write.    *)
(*                                                                         *)
(* A call is a sequence of separate queries, one action each:              *)
(*                                                                         *)
(*   user     "write" -> "open"                the workflow starts         *)
(*                    -> "absorb" -> "post"    a credit note is applied    *)
(*                    -> "relieve" -> "release"   an order is cancelled    *)
(*                    -> "post"                                            *)
(*   engine   "handle" -> "write" -> "absorb" [-> "relieve" -> "release"]  *)
(*                    -> "post"                                            *)
(*                                                                         *)
(* Of the workflow engine the module keeps what ApprovalChain promises: a  *)
(* decision is one step and a decided instance stays decided.              *)
(***************************************************************************)
EXTENDS Lifecycles, Integers, FiniteSets, FiniteSetsExt

CONSTANTS
    Records,        \* ids of records
    TypeOf,         \* TypeOf[r]: the record type
    Amount,         \* Amount[r]: totalAmount
    PoOf,           \* PoOf[r]: the purchase order of an invoice, or NoRecord
    Categorised,    \* the records with a categoryId of their own or their order's
    Templates,      \* the types with an active workflow template
    Requests,       \* the calls that can be in flight at the same time
    MaxRecords,     \* bounds the records created
    MaxApprovals,   \* bounds the approvals of one record
    Faults,         \* TRUE: a call may be cut off between two queries
    NoRecord, NoWork

ASSUME RecordsAssumption == IsFiniteSet(Records)
ASSUME TypeOfAssumption == TypeOf \in [Records -> Types]
ASSUME AmountAssumption == Amount \in [Records -> Nat \ {0}]
ASSUME PoOfAssumption == PoOf \in [Records -> Records \cup {NoRecord}]
ASSUME CategorisedAssumption == Categorised \subseteq Records /\ NoRecord \notin Records
ASSUME FaultsAssumption == Faults \in BOOLEAN

VARIABLES
    status,         \* the status column of each record
    flow,           \* the status of its latest workflow instance
    committed,      \* committedAmount of the budget line
    actual,         \* actualAmount of the budget line
    budgeted,       \* the project has a budget, with a line for the category
    exceptions,     \* BudgetAbsorptionException rows: <<kind, record>>
    posted,         \* posting events: <<record, status posted>>
    work,           \* the calls in flight
    approvals,      \* history: how often the engine approved the record
    absorbed,       \* history: how often its amount was added to the line
    relieved,       \* history: the commitment released on behalf of an order
    cut             \* history: the records of which a call was cut off

vars == <<status, flow, committed, actual, budgeted, exceptions, posted, work,
          approvals, absorbed, relieved, cut>>

money == <<committed, actual, absorbed, relieved>>

FlowStatuses == {"none", "in_progress", "returned", "approved", "rejected", "cancelled"}
Running == {"in_progress", "returned"}

Cycle(r) == Lifecycle[TypeOf[r]]

Stages == {"handle", "write", "open", "absorb", "relieve", "release", "post"}

\* from: the status read; to: the status to write; seen: committedAmount read.
Work == [at : Stages, rec : Records, from : UNION {StatusesOf(t) : t \in Types},
         to : UNION {StatusesOf(t) : t \in Types}, seen : Int]

ASSUME NoWorkAssumption == NoWork \notin Work

Init ==
    /\ status = [r \in Records |-> "absent"]
    /\ flow = [r \in Records |-> "none"]
    /\ committed = 0 /\ actual = 0
    /\ budgeted \in BOOLEAN
    /\ exceptions = {} /\ posted = {}
    /\ work = [q \in Requests |-> NoWork]
    /\ approvals = [r \in Records |-> 0]
    /\ absorbed = [r \in Records |-> 0]
    /\ relieved = [r \in Records |-> 0]
    /\ cut = {}

At(q, stage) == work[q] # NoWork /\ work[q].at = stage

GoTo(q, stage) == work' = [work EXCEPT ![q].at = stage]

Done(q) == work' = [work EXCEPT ![q] = NoWork]

Idle == \A q \in Requests : work[q] = NoWork

-----------------------------------------------------------------------------
(* What users ask of the services *)

\* The record, and for a credit note its workflow in the same transaction.
Create(r) ==
    /\ status[r] = "absent"
    /\ Cardinality({x \in Records : status[x] # "absent"}) < MaxRecords
    /\ PoOf[r] # NoRecord => status[PoOf[r]] # "absent"
    /\ status' = [status EXCEPT ![r] = Cycle(r).initial]
    /\ IF Cycle(r).opens = Cycle(r).initial /\ TypeOf[r] \in Templates
       THEN flow' = [flow EXCEPT ![r] = "in_progress"]
       ELSE UNCHANGED flow
    /\ UNCHANGED <<budgeted, cut, exceptions, posted, work, approvals, money>>

Begin(q, r, stage, to) ==
    /\ work[q] = NoWork
    /\ work' = [work EXCEPT ![q] =
          [at |-> stage, rec |-> r, from |-> status[r], to |-> to, seen |-> 0]]

\* Mutated form: the workflow-managed actions are not refused.
AskManaged(q, r, to) ==
    /\ status[r] \notin Cycle(r).final
    /\ <<status[r], to>> \in Cycle(r).moves
    /\ Begin(q, r, "write", to)
    /\ UNCHANGED <<status, flow, budgeted, cut, exceptions, posted, approvals, money>>

\* The checks of a transition, on the status read before the update.
Ask(q, r, to) ==
    /\ status[r] \notin Cycle(r).final
    /\ <<status[r], to>> \in Cycle(r).moves
    /\ to \notin Cycle(r).managed
    /\ Begin(q, r, "write", to)
    /\ UNCHANGED <<status, flow, budgeted, cut, exceptions, posted, approvals, money>>

-----------------------------------------------------------------------------
(* The workflow engine *)

OutcomeStatus(r, outcome) == Cycle(r).outcome[outcome]

\* The event runs the handler of its type; some types have none for it.
Publish(q, r, outcome) ==
    LET to == OutcomeStatus(r, outcome) IN
    IF to = "ignored" THEN work[q] = NoWork /\ UNCHANGED work ELSE Begin(q, r, "handle", to)

\* Mutated form: the final approval leaves the instance running.
DecideNotClosing(q, r, outcome) ==
    /\ flow[r] \in (IF outcome = "returned" THEN {"in_progress"} ELSE Running)
    /\ outcome = "approved" => approvals[r] < MaxApprovals
    /\ flow' = IF outcome = "approved" THEN flow ELSE [flow EXCEPT ![r] = outcome]
    /\ approvals' = IF outcome = "approved" THEN [approvals EXCEPT ![r] = @ + 1]
                                            ELSE approvals
    /\ Publish(q, r, outcome)
    /\ UNCHANGED <<status, budgeted, cut, exceptions, posted, money>>

\* A final approval, a return or a rejection, and the event it publishes.
Decide(q, r, outcome) ==
    /\ flow[r] \in (IF outcome = "returned" THEN {"in_progress"} ELSE Running)
    /\ outcome = "approved" => approvals[r] < MaxApprovals
    /\ flow' = [flow EXCEPT ![r] = outcome]
    /\ approvals' = IF outcome = "approved" THEN [approvals EXCEPT ![r] = @ + 1]
                                            ELSE approvals
    /\ Publish(q, r, outcome)
    /\ UNCHANGED <<status, budgeted, cut, exceptions, posted, money>>

\* An approval of a step that is not the last one of a returned instance.
Advance(r) ==
    /\ flow[r] = "returned"
    /\ flow' = [flow EXCEPT ![r] = "in_progress"]
    /\ UNCHANGED <<status, budgeted, cut, exceptions, posted, work, approvals, money>>

\* cancelInstance; no handler listens to its event.
CancelFlow(r) ==
    /\ flow[r] \in Running
    /\ flow' = [flow EXCEPT ![r] = "cancelled"]
    /\ UNCHANGED <<status, budgeted, cut, exceptions, posted, work, approvals, money>>

-----------------------------------------------------------------------------
(* The queries of a call *)

\* Mutated form: a returned record is left to its author.
HandleNotReturned(q) ==
    LET w == work[q] IN
    /\ At(q, "handle")
    /\ IF status[w.rec] \in {w.to, "returned"} THEN Done(q)
       ELSE work' = [work EXCEPT ![q].at = "write", ![q].from = status[w.rec]]
    /\ UNCHANGED <<status, flow, budgeted, cut, exceptions, posted, approvals, money>>

\* The handler reads the record; one that has the status already is left alone.
Handle(q) ==
    LET w == work[q] IN
    /\ At(q, "handle")
    /\ IF status[w.rec] = w.to THEN Done(q)
       ELSE work' = [work EXCEPT ![q].at = "write", ![q].from = status[w.rec]]
    /\ UNCHANGED <<status, flow, budgeted, cut, exceptions, posted, approvals, money>>

\* An order that counts as committed is cancelled.
Uncommits(w) == TypeOf[w.rec] = "po" /\ w.to = "cancelled" /\ w.from \in PurchaseOrder.counted

\* A status that is posted without touching the budget.
Announces(w) == w.to \in Cycle(w.rec).posts /\ w.to # Cycle(w.rec).absorbs

\* What follows the update of the status.
AfterWrite(q) ==
    LET w == work[q] IN
    \/ w.to = Cycle(w.rec).opens /\ GoTo(q, "open")
    \/ w.to = Cycle(w.rec).absorbs /\ GoTo(q, "absorb")
    \/ Uncommits(w) /\ GoTo(q, "relieve")
    \/ Announces(w) /\ GoTo(q, "post")
    \/ /\ w.to \notin {Cycle(w.rec).opens, Cycle(w.rec).absorbs}
       /\ ~Uncommits(w) /\ ~Announces(w)
       /\ Done(q)

\* By id only, whatever the status has become since it was read.
Write(q) ==
    /\ At(q, "write")
    /\ status' = [status EXCEPT ![work[q].rec] = work[q].to]
    /\ AfterWrite(q)
    /\ UNCHANGED <<flow, budgeted, cut, exceptions, posted, approvals, money>>

\* startInstance; without a template, or with a running instance, the
\* exception is caught and the record stays as it is.
Open(q) ==
    LET r == work[q].rec IN
    /\ At(q, "open")
    /\ IF TypeOf[r] \in Templates /\ flow[r] \notin Running
       THEN flow' = [flow EXCEPT ![r] = "in_progress"]
       ELSE UNCHANGED flow
    /\ Done(q)
    /\ UNCHANGED <<status, budgeted, cut, exceptions, posted, approvals, money>>

HasLine(r) == budgeted /\ r \in Categorised

Increment(r) ==
    /\ committed' = IF TypeOf[r] = "po" THEN committed + Amount[r] ELSE committed
    /\ actual' = IF TypeOf[r] \in {"si", "expense"} THEN actual + Amount[r]
                 ELSE IF TypeOf[r] = "cn" THEN actual - Amount[r] ELSE actual
    /\ absorbed' = [absorbed EXCEPT ![r] = @ + 1]

\* Mutated form: a record without a budget line is passed over in silence.
AbsorbSilently(q) ==
    LET r == work[q].rec IN
    /\ At(q, "absorb")
    /\ IF HasLine(r) THEN Increment(r) ELSE UNCHANGED <<committed, actual, absorbed>>
    /\ GoTo(q, IF TypeOf[r] = "si" /\ HasLine(r) /\ PoOf[r] \in Categorised
               THEN "relieve" ELSE "post")
    /\ UNCHANGED <<status, flow, budgeted, cut, exceptions, posted, approvals, relieved>>

\* Mutated form: a failed absorption is thrown.
AbsorbThrows(q) ==
    LET r == work[q].rec IN
    /\ At(q, "absorb")
    /\ IF HasLine(r) THEN Increment(r) /\ GoTo(q, "post")
                     ELSE UNCHANGED <<committed, actual, absorbed>> /\ Done(q)
    /\ UNCHANGED <<status, flow, budgeted, cut, exceptions, posted, approvals, relieved>>

\* absorb...: the amount on the line, or an exception row; posting follows.
Absorb(q) ==
    LET r == work[q].rec IN
    /\ At(q, "absorb")
    /\ \/ /\ HasLine(r)
          /\ Increment(r)
          /\ GoTo(q, IF TypeOf[r] = "si" /\ PoOf[r] \in Categorised
                     THEN "relieve" ELSE "post")
          /\ UNCHANGED exceptions
       \/ /\ ~HasLine(r)
          /\ exceptions' = exceptions \cup {<<"absorb", r>>}
          /\ GoTo(q, "post")
          /\ UNCHANGED <<committed, actual, absorbed>>
    /\ UNCHANGED <<status, flow, budgeted, cut, posted, approvals, relieved>>

\* The order whose commitment an invoice or a cancellation releases.
OrderOf(r) == IF TypeOf[r] = "si" THEN PoOf[r] ELSE r

\* An invoice is posted after the release, a cancellation is not.
AfterRelease(q) == IF TypeOf[work[q].rec] = "si" THEN GoTo(q, "post") ELSE Done(q)

\* Mutated form: the release is not bounded by what is committed.
RelieveUnbounded(q) ==
    LET r == work[q].rec IN
    /\ At(q, "relieve")
    /\ IF HasLine(OrderOf(r))
       THEN /\ work' = [work EXCEPT ![q].at = "release", ![q].seen = Amount[r]]
            /\ UNCHANGED exceptions
       ELSE exceptions' = exceptions \cup {<<"reverse", r>>} /\ AfterRelease(q)
    /\ UNCHANGED <<status, flow, budgeted, cut, posted, approvals, money>>

\* The read of releaseCommitmentBounded; nothing to release ends it.
Relieve(q) ==
    LET r == work[q].rec IN
    /\ At(q, "relieve")
    /\ \/ /\ HasLine(OrderOf(r)) /\ committed > 0
          /\ work' = [work EXCEPT ![q].at = "release", ![q].seen = committed]
          /\ UNCHANGED exceptions
       \/ /\ HasLine(OrderOf(r)) /\ committed <= 0
          /\ AfterRelease(q)
          /\ UNCHANGED exceptions
       \/ /\ ~HasLine(OrderOf(r))
          /\ exceptions' = exceptions \cup {<<"reverse", r>>}
          /\ AfterRelease(q)
    /\ UNCHANGED <<status, flow, budgeted, cut, posted, approvals, money>>

Released(w) == IF w.seen < Amount[w.rec] THEN w.seen ELSE Amount[w.rec]

\* Mutated form: the difference computed from the read is written back.
ReleaseWrites(q) ==
    LET w == work[q] IN
    /\ At(q, "release")
    /\ committed' = w.seen - Released(w)
    /\ relieved' = [relieved EXCEPT ![OrderOf(w.rec)] = @ + Released(w)]
    /\ AfterRelease(q)
    /\ UNCHANGED <<status, flow, actual, budgeted, cut, exceptions, posted, approvals, absorbed>>

\* The decrement, by the amount computed from the read.
Release(q) ==
    LET w == work[q] IN
    /\ At(q, "release")
    /\ committed' = committed - Released(w)
    /\ relieved' = [relieved EXCEPT ![OrderOf(w.rec)] = @ + Released(w)]
    /\ AfterRelease(q)
    /\ UNCHANGED <<status, flow, actual, budgeted, cut, exceptions, posted, approvals, absorbed>>

\* postingService.post under the key of the record and the status.
Post(q) ==
    /\ At(q, "post")
    /\ posted' = posted \cup {<<work[q].rec, work[q].to>>}
    /\ Done(q)
    /\ UNCHANGED <<status, flow, budgeted, cut, exceptions, approvals, money>>

-----------------------------------------------------------------------------

\* createBudget: the budget of the project with a line for every category.
CreateBudget ==
    /\ ~budgeted
    /\ budgeted' = TRUE
    /\ UNCHANGED <<status, flow, cut, exceptions, posted, work, approvals, money>>

\* The process dies or the connection is lost; nothing resumes the call.
CutOff(q) ==
    /\ Faults
    /\ work[q] # NoWork
    /\ cut' = cut \cup {work[q].rec}
    /\ Done(q)
    /\ UNCHANGED <<status, flow, budgeted, exceptions, posted, approvals, money>>

Serve(q) ==
    \/ Handle(q) \/ Write(q) \/ Open(q) \/ Absorb(q)
    \/ Relieve(q) \/ Release(q) \/ Post(q)

\* Create, Advance and CancelFlow are calls of one query; with a single
\* request they too wait for the call in flight.
Free == \E q \in Requests : work[q] = NoWork

Next ==
    \/ \E r \in Records : Free /\ (Create(r) \/ Advance(r) \/ CancelFlow(r))
    \/ \E q \in Requests, r \in Records :
        \/ \E m \in Cycle(r).moves : Ask(q, r, m[2])
        \/ \E outcome \in Outcomes : Decide(q, r, outcome)
    \/ \E q \in Requests : Serve(q) \/ CutOff(q)
    \/ CreateBudget

Spec == Init /\ [][Next]_vars

\* The server goes on with the calls it has begun.
FairSpec == Spec /\ \A q \in Requests : WF_vars(Serve(q))

-----------------------------------------------------------------------------
(* Properties *)

TypeOK ==
    /\ status \in [Records -> UNION {StatusesOf(t) : t \in Types}]
    /\ \A r \in Records : status[r] \in StatusesOf(TypeOf[r])
    /\ flow \in [Records -> FlowStatuses]
    /\ committed \in Int /\ actual \in Int
    /\ budgeted \in BOOLEAN
    /\ cut \subseteq Records
    /\ exceptions \subseteq {"absorb", "reverse"} \X Records
    /\ \A p \in posted : p[1] \in Records /\ p[2] \in Cycle(p[1]).posts
    /\ work \in [Requests -> Work \cup {NoWork}]
    /\ approvals \in [Records -> Nat]
    /\ absorbed \in [Records -> Nat]
    /\ relieved \in [Records -> Int]

Counted(r) == status[r] \in Cycle(r).counted

OfTypes(types) == {r \in Records : TypeOf[r] \in types}

(* No order, invoice or expense counts, reaches the budget or is posted    *)
(* unless the workflow engine approved it: no user transition, in any      *)
(* order and however it races, gets around the approval.                   *)
OnlyApprovedCounts ==
    \A r \in Records : TypeOf[r] # "cn" =>
        \/ approvals[r] > 0
        \/ ~Counted(r) /\ absorbed[r] = 0 /\ \A p \in posted : p[1] # r

(* The budget line holds exactly what was added and released, whatever     *)
(* interleaves: no update of committedAmount or actualAmount is lost.      *)
LineMatchesTrail ==
    LET Total(S) == MapThenSumSet(LAMBDA r : absorbed[r] * Amount[r], S)
    IN  /\ committed = Total(OfTypes({"po"})) - MapThenSumSet(LAMBDA r : relieved[r], Records)
        /\ actual = Total(OfTypes({"si", "expense"})) - Total(OfTypes({"cn"}))

(* The amount of an order, invoice or expense is added to the budget line  *)
(* at most once, also when it is returned, submitted again, or approved    *)
(* after it was cancelled. (A credit note applied while its workflow runs  *)
(* is set back to verified and can be applied again.)                      *)
CountedOnce == \A r \in Records : TypeOf[r] # "cn" => absorbed[r] <= 1

(* When nothing is in flight, a record that counts is posted and is either *)
(* on the budget line or in the exception queue.                           *)
AccountedFor ==
    Idle => \A r \in Records \ cut : Counted(r) =>
        /\ <<r, Cycle(r).absorbs>> \in posted
        /\ absorbed[r] > 0 \/ <<"absorb", r>> \in exceptions

(* When nothing is in flight, a decided workflow shows in its record: an   *)
(* approved one counts, or is an order or expense cancelled afterwards; a  *)
(* rejected one is rejected.                                               *)
Converged ==
    Idle => \A r \in Records \ cut : TypeOf[r] # "cn" =>
        /\ flow[r] = "approved" => Counted(r) \/ status[r] = "cancelled"
        /\ flow[r] = "rejected" => status[r] = "rejected"

(* The commitment is never negative and, when nothing is in flight, never  *)
(* more than the orders that count, however they are cancelled, invoiced   *)
(* or committed before the budget existed.                                 *)
CommitmentBounded ==
    /\ committed >= 0
    /\ Idle => committed <=
            MapThenSumSet(LAMBDA r : Amount[r], {r \in Records : TypeOf[r] = "po" /\ Counted(r)})

(* Every approval of the engine gets posted, unless its call is cut off.   *)
ApprovalsReachLedger ==
    \A r \in Records : TypeOf[r] # "cn" =>
        (approvals[r] > 0 ~> r \in cut \/ <<r, Cycle(r).outcome["approved"]>> \in posted)

(* An order releases no more than it has committed                         *)
(* (budget/absorption.ts:76: a rollback releases only the residual).       *)
ReleasesOwnResidual ==
    \A r \in Records : TypeOf[r] = "po" => relieved[r] <= absorbed[r] * Amount[r]

\* The workflows, as the engine shows them to a record.
Engine == INSTANCE RecordApproval WITH
    undecided <- [r \in Records |-> IF flow[r] \in Running THEN flow[r] ELSE "none"],
    approved <- {r \in Records : approvals[r] > 0}

(* Whatever the services and handlers do to a workflow, and however they   *)
(* race or are cut off, is what the engine promises of it.                 *)
FollowsEngine == Engine!ApprovalSpec

\* The budget line, with the records approved for it and charged to it.
Control == INSTANCE BudgetControl WITH
    Orders <- OfTypes({"po"}),
    Spendings <- OfTypes({"si", "expense"}),
    Credits <- OfTypes({"cn"}),
    admitted <- {r \in OfTypes({"po", "si", "expense"}) : approvals[r] > 0},
    charged <- {r \in OfTypes({"po", "si", "expense"}) : absorbed[r] > 0},
    commitment <- committed,
    spent <- actual

(* With calls one at a time, wherever they are cut off, an amount comes on *)
(* the budget line once, after its approval, and what is released is there *)
(* (the absorption after convergence, and releaseCommitmentBounded).       *)
KeepsControl == Control!BudgetSpec

=============================================================================
