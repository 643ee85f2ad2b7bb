----------------------------- MODULE Commercial -----------------------------
(***************************************************************************)
(* Payment applications (ipa), the certificates drawn up for them (ipc),   *)
(* the tax invoices of a certificate (ti) and the money collected on them, *)
(* with the other records of CommercialTables, in one project.             *)
(*                                                                         *)
(* A call is a sequence of separate queries, one action each:              *)
(*                                                                         *)
(*   create     parent read -> "create"                                    *)
(*   transition record read -> "write" [-> "open"] [-> "post"]             *)
(*   delete     record read -> "remove"                                    *)
(*   collect    invoice read -> "sum" -> "collect"                         *)
(*   engine     decision -> "handle" -> "write" [-> "post"]                *)
(*                                                                         *)
(* As in Procurement, a decision of the workflow engine is one step.       *)
(***************************************************************************)
EXTENDS CommercialTables, Integers, FiniteSets

CONSTANTS
    Records,        \* ids of records
    TypeOf,         \* TypeOf[r]: the record type
    ParentOf,       \* ParentOf[r]: ipaId of a certificate, ipcId of an invoice
    Totals,         \* Totals[r]: the amounts it can have; only those of invoices matter
    Payments,       \* the amounts paid
    Templates,      \* the types with an active workflow template
    Requests,       \* the calls that can be in flight at the same time
    Alone,          \* bound: the records that are looked at alone, with calls racing;
                    \* the others are looked at together, one call at a time
    MaxTimes,       \* bounds the approvals and numbers of a record looked at alone
    Faults,         \* TRUE: a call may be cut off between two queries
    NoRecord,       \* no parent, or one outside the model that passed the gate
    NoWork

ASSUME TypeOfAssumption == TypeOf \in [Records -> Types]
ASSUME ParentAssumption == /\ ParentOf \in [Records -> Records \cup {NoRecord}]
                           /\ NoRecord \notin Records
                           /\ \A r \in Records : ParentOf[r] # NoRecord =>
                                 \/ TypeOf[r] = "ipc" /\ TypeOf[ParentOf[r]] = "ipa"
                                 \/ TypeOf[r] = "ti" /\ TypeOf[ParentOf[r]] = "ipc"
ASSUME TotalsAssumption == Totals \in [Records -> SUBSET Nat]
ASSUME PaymentsAssumption == Payments \subseteq Nat \ {0}
ASSUME AloneAssumption == Alone \subseteq Records
ASSUME CommercialFaults == Faults \in BOOLEAN

VARIABLES
    status,         \* the status column of each record
    flow,           \* the status of its latest workflow instance
    counter,        \* lastNumber of each counter
    given,          \* the numbers taken: <<code, number, record>>
    posted,         \* posting events: <<record, status posted>>
    total,          \* totalAmount of an invoice
    collected,      \* the sum of the collections of an invoice
    work,           \* the calls in flight
    approvals,      \* history: how often the engine approved the record
    disturbed       \* history: records with a call cut off or two at a time

vars == <<status, flow, counter, given, posted, total, collected, work, approvals, disturbed>>

FlowStatuses == {"none", "in_progress", "returned", "approved", "rejected", "cancelled"}
Running == {"in_progress", "returned"}

Stages == {"create", "edit", "write", "open", "post", "remove", "handle", "sum", "collect"}

Statuses == UNION {StatusesOf(t) : t \in Types}

\* to: the status to write, for a collection the status read; seen: the sum read.
Work == [at : Stages, rec : Records, to : Statuses, amount : Nat, seen : Nat]

ASSUME NoCommercialWork == NoWork \notin Work

Init ==
    /\ status = [r \in Records |-> "absent"]
    /\ flow = [r \in Records |-> "none"]
    /\ counter = [c \in Codes |-> 0]
    /\ given = {} /\ posted = {}
    /\ total = [r \in Records |-> 0]
    /\ collected = [r \in Records |-> 0]
    /\ work = [q \in Requests |-> NoWork]
    /\ approvals = [r \in Records |-> 0]
    /\ disturbed = {}

At(q, stage) == work[q] # NoWork /\ work[q].at = stage

GoTo(q, stage) == work' = [work EXCEPT ![q].at = stage]

Done(q) == work' = [work EXCEPT ![q] = NoWork]

Busy(r) == \E q \in Requests : work[q] # NoWork /\ work[q].rec = r

Exists(r) == status[r] \notin {"absent", "deleted"}

\* The bounds on what happens at a time, and in all.
Calm(r) == r \in Alone \/ \A q \in Requests : work[q] = NoWork
Times(r) == IF r \in Alone THEN MaxTimes ELSE 1

Begin(q, r, stage, to, amount) ==
    /\ work[q] = NoWork /\ Calm(r)
    /\ work' = [work EXCEPT ![q] = [at |-> stage, rec |-> r, to |-> to, amount |-> amount,
                                    seen |-> 0]]
    /\ disturbed' = IF Busy(r) THEN disturbed \cup {r} ELSE disturbed

-----------------------------------------------------------------------------
(* Creation and deletion *)

\* The statuses of the application that let its certificate be created, and
\* those of the certificate that let its invoice be created.
CertificateGate == {"approved_internal", "signed", "issued", "superseded", "closed"}
InvoiceGate == {"signed", "issued", "superseded", "closed"}

Gate(r) == IF TypeOf[r] = "ipc" THEN CertificateGate ELSE InvoiceGate

\* The records whose creation was asked for.
Begun == {r \in Records : status[r] # "absent" \/ Busy(r) \/ r \in disturbed}

\* The bound on them: what may be created next.
Room == IF Begun = {} THEN Records ELSE IF Begun \cap Alone = {} THEN Records \ Alone ELSE {}

\* Mutated form: the status of the parent is not looked at.
AskCreateUngated(q, r, amount) ==
    /\ status[r] = "absent" /\ ~Busy(r)
    /\ Begin(q, r, "create", "draft", amount)
    /\ UNCHANGED <<status, flow, counter, given, posted, total, collected, approvals>>

AskCreate(q, r, amount) ==
    /\ status[r] = "absent" /\ ~Busy(r)
    /\ ParentOf[r] # NoRecord => status[ParentOf[r]] \in Gate(r)
    /\ Begin(q, r, "create", "draft", amount)
    /\ UNCHANGED <<status, flow, counter, given, posted, total, collected, approvals>>

\* generateReferenceNumber and generateOrgScopedNumber: the counter row is
\* incremented and read in one statement of the caller's transaction.
Take(code, r) ==
    IF code = "none" THEN UNCHANGED <<counter, given>>
    ELSE /\ counter' = [counter EXCEPT ![code] = @ + 1]
         /\ given' = given \cup {<<code, counter[code] + 1, r>>}

\* The row, its number and its workflow, in one transaction.
Create(q) ==
    LET r == work[q].rec IN
    /\ At(q, "create")
    /\ status' = [status EXCEPT ![r] = "draft"]
    /\ total' = [total EXCEPT ![r] = work[q].amount]
    /\ Take(Service[TypeOf[r]].code.register, r)
    /\ flow' = IF Service[TypeOf[r]].seeds /\ TypeOf[r] \in Templates
               THEN [flow EXCEPT ![r] = "in_progress"] ELSE flow
    /\ Done(q)
    /\ UNCHANGED <<posted, collected, approvals, disturbed>>

\* A draft or returned invoice is edited.
AskEdit(q, r, amount) ==
    /\ TypeOf[r] = "ti" /\ status[r] \in {"draft", "returned"}
    /\ Begin(q, r, "edit", status[r], amount)
    /\ UNCHANGED <<status, flow, counter, given, posted, total, collected, approvals>>

Edit(q) ==
    LET r == work[q].rec IN
    /\ At(q, "edit")
    /\ total' = IF Exists(r) THEN [total EXCEPT ![r] = work[q].amount] ELSE total
    /\ Done(q)
    /\ UNCHANGED <<status, flow, counter, given, posted, collected, approvals, disturbed>>

\* Only a draft is deleted.
AskDelete(q, r) ==
    /\ status[r] = "draft"
    /\ Begin(q, r, "remove", "deleted", 0)
    /\ UNCHANGED <<status, flow, counter, given, posted, total, collected, approvals>>

\* The row goes, whatever its status has become; its instance stays. A row
\* that others refer to is kept by the database.
Remove(q) ==
    LET r == work[q].rec IN
    /\ At(q, "remove")
    /\ status' = IF collected[r] > 0 \/ \E x \in Records : ParentOf[x] = r /\ Exists(x)
                 THEN status ELSE [status EXCEPT ![r] = "deleted"]
    /\ Done(q)
    /\ UNCHANGED <<flow, counter, given, posted, total, collected, approvals, disturbed>>

-----------------------------------------------------------------------------
(* Transitions *)

\* The bound: a number is left to take.
Within(r, to) ==
    LET service == Service[TypeOf[r]] IN
    to = service.numbers => counter[service.code.issue] < Times(r)

\* Mutated form: the workflow-managed actions are not refused.
AskManaged(q, r, to) ==
    /\ status[r] \notin Table[TypeOf[r]].final
    /\ <<status[r], to>> \in Table[TypeOf[r]].moves
    /\ Within(r, to)
    /\ Begin(q, r, "write", to, 0)
    /\ UNCHANGED <<status, flow, counter, given, posted, total, collected, approvals>>

\* The checks of a transition, on the status read before the update.
Ask(q, r, to) ==
    /\ status[r] \notin Table[TypeOf[r]].final
    /\ <<status[r], to>> \in Table[TypeOf[r]].moves
    /\ to \notin Table[TypeOf[r]].managed
    /\ Within(r, to)
    /\ Begin(q, r, "write", to, 0)
    /\ UNCHANGED <<status, flow, counter, given, posted, total, collected, approvals>>

Posts(r) == Service[TypeOf[r]].posts \cup Handlers[TypeOf[r]].posts

AfterWrite(q) ==
    LET w == work[q] IN
    IF w.to = Service[TypeOf[w.rec]].opens THEN GoTo(q, "open")
    ELSE IF w.to \in Posts(w.rec) THEN GoTo(q, "post") ELSE Done(q)

\* The update, by id only, in one transaction with the reference number; a
\* row that is gone makes it throw.
Write(q) ==
    LET w == work[q]
        service == Service[TypeOf[w.rec]]
    IN
    /\ At(q, "write")
    /\ \/ /\ Exists(w.rec)
          /\ status' = [status EXCEPT ![w.rec] = w.to]
          /\ Take(IF w.to = service.numbers THEN service.code.issue ELSE "none", w.rec)
          /\ AfterWrite(q)
       \/ ~Exists(w.rec) /\ Done(q) /\ UNCHANGED <<status, counter, given>>
    /\ UNCHANGED <<flow, posted, total, collected, approvals, disturbed>>

\* startInstance; a missing template and a running instance are swallowed.
Open(q) ==
    LET r == work[q].rec IN
    /\ At(q, "open")
    /\ flow' = IF TypeOf[r] \in Templates /\ flow[r] \notin Running
               THEN [flow EXCEPT ![r] = "in_progress"] ELSE flow
    /\ Done(q)
    /\ UNCHANGED <<status, counter, given, posted, total, collected, approvals, disturbed>>

\* postingService.post under the key of the record and the status.
Post(q) ==
    /\ At(q, "post")
    /\ posted' = posted \cup {<<work[q].rec, work[q].to>>}
    /\ Done(q)
    /\ UNCHANGED <<status, flow, counter, given, total, collected, approvals, disturbed>>

-----------------------------------------------------------------------------
(* The workflow engine and the convergence handlers *)

\* Mutated form: a decided instance can be decided again.
DecideAgain(q, r, outcome) ==
    /\ flow[r] # "none"
    /\ outcome = "approved" => approvals[r] < Times(r)
    /\ flow' = [flow EXCEPT ![r] = outcome]
    /\ approvals' = IF outcome = "approved" THEN [approvals EXCEPT ![r] = @ + 1] ELSE approvals
    /\ Begin(q, r, "handle", Handlers[TypeOf[r]].outcome[outcome], 0)
    /\ UNCHANGED <<status, counter, given, posted, total, collected>>

\* A final approval, a return or a rejection, and the event it publishes.
Decide(q, r, outcome) ==
    /\ flow[r] \in (IF outcome = "returned" THEN {"in_progress"} ELSE Running)
    /\ outcome = "approved" => approvals[r] < Times(r)
    /\ flow' = [flow EXCEPT ![r] = outcome]
    /\ approvals' = IF outcome = "approved" THEN [approvals EXCEPT ![r] = @ + 1] ELSE approvals
    /\ Begin(q, r, "handle", Handlers[TypeOf[r]].outcome[outcome], 0)
    /\ UNCHANGED <<status, counter, given, posted, total, collected>>

\* Mutated form: a record that was returned is left to its author.
HandleNotReturned(q) ==
    LET w == work[q] IN
    /\ At(q, "handle")
    /\ IF ~Exists(w.rec) \/ status[w.rec] \in {w.to, "returned"} THEN Done(q)
       ELSE GoTo(q, "write")
    /\ UNCHANGED <<status, flow, counter, given, posted, total, collected, approvals, disturbed>>

\* The handler looks for the record and for the status it is about to write.
Handle(q) ==
    LET w == work[q] IN
    /\ At(q, "handle")
    /\ IF ~Exists(w.rec) \/ status[w.rec] = w.to THEN Done(q)
       ELSE GoTo(q, "write")
    /\ UNCHANGED <<status, flow, counter, given, posted, total, collected, approvals, disturbed>>

\* An approval of a step that is not the last one of a returned instance.
Advance(r) ==
    /\ flow[r] = "returned"
    /\ flow' = [flow EXCEPT ![r] = "in_progress"]
    /\ UNCHANGED <<status, counter, given, posted, total, collected, work, approvals, disturbed>>

\* cancelInstance; no handler listens to its event.
CancelFlow(r) ==
    /\ flow[r] \in Running
    /\ flow' = [flow EXCEPT ![r] = "cancelled"]
    /\ UNCHANGED <<status, counter, given, posted, total, collected, work, approvals, disturbed>>

-----------------------------------------------------------------------------
(* Collections *)

Collectable == {"issued", "submitted", "overdue", "partially_collected"}

\* recordCollection reads the invoice.
AskCollect(q, r, amount) ==
    /\ TypeOf[r] = "ti" /\ status[r] \in Collectable
    /\ Begin(q, r, "sum", status[r], amount)
    /\ UNCHANGED <<status, flow, counter, given, posted, total, collected, approvals>>

\* Mutated form: an invoice may be overpaid as long as something is outstanding.
SumOutstanding(q) ==
    LET w == work[q] IN
    /\ At(q, "sum")
    /\ IF collected[w.rec] >= total[w.rec] THEN Done(q)
       ELSE work' = [work EXCEPT ![q].at = "collect", ![q].seen = collected[w.rec]]
    /\ UNCHANGED <<status, flow, counter, given, posted, total, collected, approvals, disturbed>>

\* It adds up the collections and refuses more than the total.
Sum(q) ==
    LET w == work[q] IN
    /\ At(q, "sum")
    /\ IF collected[w.rec] + w.amount > total[w.rec] THEN Done(q)
       ELSE work' = [work EXCEPT ![q].at = "collect", ![q].seen = collected[w.rec]]
    /\ UNCHANGED <<status, flow, counter, given, posted, total, collected, approvals, disturbed>>

\* The collection and the status derived from the sum, in one transaction.
Collect(q) ==
    LET w == work[q]
        derived == IF w.seen + w.amount = total[w.rec] THEN "collected" ELSE "partially_collected"
    IN
    /\ At(q, "collect")
    /\ IF Exists(w.rec)
       THEN /\ collected' = [collected EXCEPT ![w.rec] = @ + w.amount]
            /\ status' = IF w.to = derived THEN status ELSE [status EXCEPT ![w.rec] = derived]
       ELSE UNCHANGED <<collected, status>>
    /\ Done(q)
    /\ UNCHANGED <<flow, counter, given, posted, total, approvals, disturbed>>

-----------------------------------------------------------------------------

\* The process dies or the connection is lost; nothing resumes the call. A
\* bound: of the records looked at together, this befalls only one.
CutOff(q) ==
    /\ Faults
    /\ work[q] # NoWork
    /\ work[q].rec \in Alone \/ disturbed \subseteq {work[q].rec}
    /\ disturbed' = disturbed \cup {work[q].rec}
    /\ Done(q)
    /\ UNCHANGED <<status, flow, counter, given, posted, total, collected, approvals>>

Serve(q) ==
    \/ Create(q) \/ Edit(q) \/ Remove(q) \/ Write(q) \/ Open(q) \/ Post(q) \/ Handle(q)
    \/ Sum(q) \/ Collect(q)

\* Advance and CancelFlow are calls of one query.
Free == \E q \in Requests : work[q] = NoWork

Next ==
    \/ \E r \in Records : Free /\ Calm(r) /\ (Advance(r) \/ CancelFlow(r))
    \/ \E r \in Room : \E q \in Requests, amount \in Totals[r] : AskCreate(q, r, amount)
    \/ \E r \in Records : status[r] # "absent" /\ \E q \in Requests :
        \/ \E outcome \in Outcomes : Decide(q, r, outcome)
        \/ /\ Exists(r)
           /\ \/ \E amount \in Totals[r] : AskEdit(q, r, amount)
              \/ AskDelete(q, r)
              \/ \E m \in Table[TypeOf[r]].moves : Ask(q, r, m[2])
              \/ \E amount \in Payments : AskCollect(q, r, amount)
    \/ \E q \in Requests : Serve(q) \/ CutOff(q)

Spec == Init /\ [][Next]_vars

-----------------------------------------------------------------------------
(* Properties *)

Legal == {x \in Types \X Statuses : x[2] \in StatusesOf(x[1])}

TypeOK ==
    /\ status \in [Records -> Statuses]
    /\ \A r \in Records : <<TypeOf[r], status[r]>> \in Legal
    /\ flow \in [Records -> FlowStatuses]
    /\ counter \in [Codes -> Nat]
    /\ given \subseteq Codes \X Nat \X Records
    /\ \A p \in posted : p[1] \in Records /\ p[2] \in Posts(p[1])
    /\ total \in [Records -> Nat]
    /\ collected \in [Records -> Nat]
    /\ work \in [Requests -> Work \cup {NoWork}]
    /\ approvals \in [Records -> Nat]
    /\ disturbed \subseteq Records

\* The statuses a record can have without an approval.
Pending == {"absent", "deleted", "draft", "submitted", "under_review", "returned", "rejected"}

(* However the calls race or are cut off, no record of a managed type gets *)
(* past its approval phase, takes a reference number or is posted unless   *)
(* the workflow engine approved it.                                        *)
OnlyApprovedIssued ==
    \A r \in Records : TypeOf[r] \in ManagedTypes =>
        \/ approvals[r] > 0
        \/ /\ status[r] \in Pending
           /\ \A g \in given : g[3] # r
           /\ \A p \in posted : p[1] # r

(* Money is only ever recorded on an invoice that was issued under a       *)
(* reference number, for a certificate the engine approved of an           *)
(* application the engine approved, also when the invoice is sent back,    *)
(* approved again or deleted meanwhile.                                    *)
MoneyHasCertificate ==
    \A r \in Records : collected[r] > 0 =>
        /\ \E g \in given : g[1] = "INV" /\ g[3] = r
        /\ ParentOf[r] # NoRecord =>
              /\ approvals[ParentOf[r]] > 0
              /\ ParentOf[ParentOf[r]] # NoRecord => approvals[ParentOf[ParentOf[r]]] > 0

(* As long as its calls do not overlap, no payment takes an invoice past   *)
(* its total as it is then, in whatever parts it is paid and whatever its  *)
(* status and its total are set to between the payments.                   *)
NoOvercollection ==
    [][\A r \in Records :
          collected'[r] # collected[r] /\ r \notin disturbed' => collected'[r] <= total'[r]]_vars

(* Once the calls on it have come to an end, and none was cut off or       *)
(* overlapped another, a record shows what its workflow decided: a         *)
(* rejected one is rejected, an approved one of a managed type is past its *)
(* approval phase.                                                         *)
Converged ==
    \A r \in Records \ disturbed : ~Busy(r) =>
        /\ flow[r] = "rejected" =>
              status[r] \in {Handlers[TypeOf[r]].outcome["rejected"], "deleted"}
        /\ flow[r] = "approved" /\ TypeOf[r] \in ManagedTypes => status[r] \notin Pending

(* An undisturbed record of a managed type never leaves a terminal status. *)
FinalStays ==
    [][\A r \in Records :
          TypeOf[r] \in ManagedTypes /\ r \notin disturbed' /\ status[r] \in Table[TypeOf[r]].final
              => status'[r] = status[r]]_vars

\* The workflows, as the engine shows them to a record.
Engine == INSTANCE RecordApproval WITH
    undecided <- [r \in Records |-> IF flow[r] \in Running THEN flow[r] ELSE "none"],
    approved <- {r \in Records : approvals[r] > 0}

(* Whatever the services and handlers do to a workflow, and however they   *)
(* race or are cut off, is what the engine promises of it.                 *)
FollowsEngine == Engine!ApprovalSpec

=============================================================================
