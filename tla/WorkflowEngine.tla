--------------------------- MODULE WorkflowEngine ---------------------------
(***************************************************************************)
(* workflow/instances.ts and workflow/steps.ts: workflow instances and the *)
(* five operations on them.  Every operation of the source is               *)
(*                                                                         *)
(*   read and check    queries outside any transaction, early throws        *)
(*   commit            one transaction: WorkflowAction row, instance row    *)
(*   publish           in-process events, one emit after the other          *)
(*                                                                         *)
(* and so it is here: a request is in work[r] between its check and its    *)
(* commit, with the values it read, and in outbox[r] while it publishes.   *)
(* Requests interleave between these three stages.  The update of the      *)
(* instance row names only its id: nothing is checked again at the commit. *)
(***************************************************************************)
EXTENDS WorkflowSteps, Sequences, FiniteSets

CONSTANTS
    Instances,      \* ids of workflow_instances rows, used or not yet
    RecordOf,       \* RecordOf[i]: the (recordType, recordId) of instance i
    Requests,       \* the requests that can be in flight at the same time
    NoWork,         \* what work[r] holds outside read-check .. commit
    MaxActions,     \* bound on the WorkflowAction rows of one instance
    Faults          \* TRUE: a request may be cut off between two stages

ASSUME MaxActionsAssumption == MaxActions \in Nat
ASSUME FaultsAssumption     == Faults \in BOOLEAN

VARIABLES
    inst,           \* workflow_instances: status and currentStepId
    log,            \* workflow_actions of each instance, in commit order
    work,           \* the request's checked but uncommitted operation
    outbox,         \* the events the request still has to emit
    published       \* the events of each instance handed to the bus

vars == <<inst, log, work, outbox, published>>

Ops      == {"started", "approved", "rejected", "returned", "cancelled"}
Statuses == {"none"} \cup Active \cup Terminal

\* One operation with what its check read: the row step, the step it will
\* write (its own step where the code leaves currentStepId alone), the actor.
Work == [op : Ops, inst : Instances, step : Steps, to : Steps \cup {NoStep},
         actor : Users]

ASSUME NoWorkAssumption == NoWork \notin Work

EventNames == {"started", "stepApproved", "approved", "rejected", "returned",
               "cancelled"}

\* cause: the index in log[inst] of the action the event reports
Event == [name : EventNames, inst : Instances, cause : Nat]

TypeOK ==
    /\ inst \in [Instances -> [status : Statuses, step : Steps \cup {NoStep}]]
    /\ log \in [Instances -> Seq(Work)]
    /\ work \in [Requests -> Work \cup {NoWork}]
    /\ outbox \in [Requests -> Seq(Event)]
    /\ published \in [Instances -> Seq(Event)]

Init ==
    /\ inst = [i \in Instances |-> [status |-> "none", step |-> NoStep]]
    /\ log = [i \in Instances |-> <<>>]
    /\ work = [r \in Requests |-> NoWork]
    /\ outbox = [r \in Requests |-> <<>>]
    /\ published = [i \in Instances |-> <<>>]

-----------------------------------------------------------------------------
(* Stage 1: read and check *)

Idle(r) == work[r] = NoWork /\ outbox[r] = <<>>

InFlight(i) == {q \in Requests : work[q] # NoWork /\ work[q].inst = i}

\* The bound: never more than MaxActions action rows for one instance.
Room(i) == Len(log[i]) + Cardinality(InFlight(i)) < MaxActions

Accept(r, op, i, to, u) ==
    /\ Idle(r)
    /\ Room(i)
    /\ work' = [work EXCEPT ![r] =
          [op |-> op, inst |-> i, step |-> inst[i].step, to |-> to, actor |-> u]]
    /\ UNCHANGED <<inst, log, outbox, published>>

\* Mutated form: only 'in_progress' instances count as duplicates.
CheckStartIgnoresReturned(r, i, u) ==
    /\ Idle(r)
    /\ Room(i)
    /\ inst[i].status = "none"
    /\ InFlight(i) = {}
    /\ \A j \in Instances :
          RecordOf[j] = RecordOf[i] => inst[j].status # "in_progress"
    /\ work' = [work EXCEPT ![r] =
          [op |-> "started", inst |-> i, step |-> 1, to |-> 1, actor |-> u]]
    /\ UNCHANGED <<inst, log, outbox, published>>

\* validateStartInstance: no active instance of the record.  The new row's
\* id is a fresh uuid: no row and no other request has it.
CheckStart(r, i, u) ==
    /\ Idle(r)
    /\ Room(i)
    /\ inst[i].status = "none"
    /\ InFlight(i) = {}
    /\ \A j \in Instances :
          RecordOf[j] = RecordOf[i] => inst[j].status \notin Active
    /\ work' = [work EXCEPT ![r] =
          [op |-> "started", inst |-> i, step |-> 1, to |-> 1, actor |-> u]]
    /\ UNCHANGED <<inst, log, outbox, published>>

\* Mutated form: the status guard of approveStep is missing.
CheckApproveAnyStatus(r, i, u) ==
    /\ inst[i].step \in Steps
    /\ MayDecide(u, inst[i].step)
    /\ \E next \in Steps \cup {NoStep} :
        /\ IsNextStep(inst[i].step, next)
        /\ Accept(r, "approved", i, next, u)

\* Mutated form: isValidApprover is not called.
CheckApproveAnybody(r, i, u) ==
    /\ inst[i].status \in Active
    /\ \E next \in Steps \cup {NoStep} :
        /\ IsNextStep(inst[i].step, next)
        /\ Accept(r, "approved", i, next, u)

CheckApprove(r, i, u) ==
    /\ inst[i].status \in Active
    /\ MayDecide(u, inst[i].step)
    /\ \E next \in Steps \cup {NoStep} :
        /\ IsNextStep(inst[i].step, next)
        /\ Accept(r, "approved", i, next, u)

CheckReject(r, i, u) ==
    /\ inst[i].status \in Active
    /\ MayDecide(u, inst[i].step)
    /\ Accept(r, "rejected", i, inst[i].step, u)

\* Mutated form: returnToStepId may be a later step.
CheckReturnForward(r, i, u) ==
    /\ inst[i].status = "in_progress"
    /\ MayDecide(u, inst[i].step)
    /\ \E t \in Steps :
        /\ t # inst[i].step
        /\ Accept(r, "returned", i, t, u)

\* Mutated form: a returned instance can be returned again.
CheckReturnTwice(r, i, u) ==
    /\ inst[i].status \in Active
    /\ MayDecide(u, inst[i].step)
    /\ \E t \in Steps :
        /\ t < inst[i].step
        /\ Accept(r, "returned", i, t, u)

\* returnToStepId, or the previous step: some step before the current one
CheckReturn(r, i, u) ==
    /\ inst[i].status = "in_progress"
    /\ MayDecide(u, inst[i].step)
    /\ \E t \in Steps :
        /\ t < inst[i].step
        /\ Accept(r, "returned", i, t, u)

\* no approver check: any caller may cancel
CheckCancel(r, i, u) ==
    /\ inst[i].status \in Active
    /\ Accept(r, "cancelled", i, inst[i].step, u)

-----------------------------------------------------------------------------
(* Stage 2: commit *)

\* Mutated form: every approval is announced as the final one.
EventNamesOfNoCompletionTest(w) ==
    IF w.op = "approved" THEN <<"stepApproved", "approved">> ELSE <<w.op>>

\* Mutated form: the completion of the workflow is not announced.
EventNamesOfNoCompletion(w) ==
    IF w.op = "approved" THEN <<"stepApproved">> ELSE <<w.op>>

EventNamesOf(w) ==
    CASE w.op = "approved" /\ w.to = NoStep -> <<"stepApproved", "approved">>
      [] w.op = "approved" /\ w.to # NoStep -> <<"stepApproved">>
      [] w.op # "approved"                  -> <<w.op>>

EventsOf(w, cause) ==
    [n \in 1 .. Len(EventNamesOf(w)) |->
        [name |-> EventNamesOf(w)[n], inst |-> w.inst, cause |-> cause]]

\* The transaction: the action row and the new instance row.
Commit(r, row) ==
    LET w == work[r] IN
    /\ inst' = [inst EXCEPT ![w.inst] = row]
    /\ log' = [log EXCEPT ![w.inst] = Append(@, w)]
    /\ work' = [work EXCEPT ![r] = NoWork]
    /\ outbox' = [outbox EXCEPT ![r] = EventsOf(w, Len(log[w.inst]) + 1)]
    /\ UNCHANGED published

Holds(r, op) == work[r] # NoWork /\ work[r].op = op

CommitStart(r) ==
    /\ Holds(r, "started")
    /\ Commit(r, [status |-> "in_progress", step |-> work[r].to])

CommitApprove(r) ==
    /\ Holds(r, "approved")
    /\ Commit(r, [status |-> IF work[r].to = NoStep THEN "approved"
                                                    ELSE "in_progress",
                  step |-> work[r].to])

\* currentStepId is not written
CommitReject(r) ==
    /\ Holds(r, "rejected")
    /\ Commit(r, [status |-> "rejected", step |-> inst[work[r].inst].step])

\* Mutated form: the row keeps its currentStepId.
CommitReturnKeepsStep(r) ==
    /\ Holds(r, "returned")
    /\ Commit(r, [status |-> "returned", step |-> inst[work[r].inst].step])

CommitReturn(r) ==
    /\ Holds(r, "returned")
    /\ Commit(r, [status |-> "returned", step |-> work[r].to])

\* currentStepId is not written
CommitCancel(r) ==
    /\ Holds(r, "cancelled")
    /\ Commit(r, [status |-> "cancelled", step |-> inst[work[r].inst].step])

-----------------------------------------------------------------------------
(* Stage 3: publish, or be cut off *)

Publish(r) ==
    /\ outbox[r] # <<>>
    /\ LET e == Head(outbox[r]) IN
          published' = [published EXCEPT ![e.inst] = Append(@, e)]
    /\ outbox' = [outbox EXCEPT ![r] = Tail(@)]
    /\ UNCHANGED <<inst, log, work>>

\* The transaction fails, or the process dies: nothing resumes a request.
CutOff(r) ==
    /\ Faults
    /\ ~Idle(r)
    /\ work' = [work EXCEPT ![r] = NoWork]
    /\ outbox' = [outbox EXCEPT ![r] = <<>>]
    /\ UNCHANGED <<inst, log, published>>

-----------------------------------------------------------------------------

CheckStep(r) ==
    \E i \in Instances, u \in Users :
        \/ CheckStart(r, i, u)
        \/ CheckApprove(r, i, u)
        \/ CheckReject(r, i, u)
        \/ CheckReturn(r, i, u)
        \/ CheckCancel(r, i, u)

CommitStep(r) ==
    \/ CommitStart(r)
    \/ CommitApprove(r)
    \/ CommitReject(r)
    \/ CommitReturn(r)
    \/ CommitCancel(r)

Next == \E r \in Requests : CheckStep(r) \/ CommitStep(r) \/ Publish(r) \/ CutOff(r)

Spec == Init /\ [][Next]_vars

\* Users need not send anything; the server finishes what it has begun.
FairSpec == Spec /\ \A r \in Requests : WF_vars(CommitStep(r) \/ Publish(r))

-----------------------------------------------------------------------------
(* Properties *)

ApprovedInLog(i, s) ==
    \E k \in 1 .. Len(log[i]) :
        log[i][k].op = "approved" /\ log[i][k].step = s /\ MayDecide(log[i][k].actor, s)

(* However requests interleave and wherever they are cut off, an instance  *)
(* is approved only when every mandatory step of its template has an       *)
(* 'approved' action row by a valid approver of that step (approveStep,    *)
(* returnStep and findNextStep together).                                  *)
MandatoryStepsApproved ==
    \A i \in Instances :
        inst[i].status = "approved" => \A s \in Mandatory : ApprovedInLog(i, s)

\* every mandatory step before s (all of them, when s is NoStep) is approved
PathApproved(i, s) ==
    \A k \in Mandatory : (s = NoStep \/ k < s) => ApprovedInLog(i, k)

(* The strengthening that makes MandatoryStepsApproved inductive: the      *)
(* mandatory steps before the current step are approved, and so are those  *)
(* before the step any request in flight has read, however stale it is.    *)
ApprovedPath ==
    /\ \A i \in Instances :
        /\ inst[i].status # "none" => PathApproved(i, inst[i].step)
        /\ inst[i].status \in Active => inst[i].step \in Steps
        /\ inst[i].status = "approved" => inst[i].step = NoStep
    /\ \A r \in Requests :
        work[r] # NoWork =>
            LET w == work[r] IN
            /\ PathApproved(w.inst, w.step)
            /\ w.op = "started" => w.step = 1 /\ w.to = 1
            /\ w.op # "started" => inst[w.inst].status # "none"
            /\ w.op = "approved" =>
                  MayDecide(w.actor, w.step) /\ IsNextStep(w.step, w.to)
            /\ w.op = "returned" => w.to \in Steps /\ w.to < w.step

StatusAfter(w) ==
    CASE w.op = "started"  -> "in_progress"
      [] w.op = "approved" -> IF w.to = NoStep THEN "approved" ELSE "in_progress"
      [] w.op \in {"rejected", "returned", "cancelled"} -> w.op

Moves(i) ==
    {k \in 1 .. Len(log[i]) : log[i][k].op \in {"started", "approved", "returned"}}

(* The append-only trail explains the row: the status of an instance is    *)
(* the one its last action row sets, and its current step is the target of *)
(* the last action that moves it (both are written in one transaction).    *)
TrailExplainsRow ==
    \A i \in Instances :
        IF log[i] = <<>>
        THEN inst[i] = [status |-> "none", step |-> NoStep]
        ELSE /\ inst[i].status = StatusAfter(log[i][Len(log[i])])
             /\ \E k \in Moves(i) :
                    /\ \A m \in Moves(i) : m <= k
                    /\ inst[i].step = log[i][k].to

Reports(name, w) ==
    CASE name = "approved"     -> w.op = "approved" /\ w.to = NoStep
      [] name = "stepApproved" -> w.op = "approved"
      [] OTHER                 -> w.op = name

(* Nothing is announced that did not happen, and nothing twice: each       *)
(* published event reports a committed action row of its kind ('approved'  *)
(* only the one that completes the instance), no event is published two    *)
(* times, and 'workflow.approved' comes after the 'workflow.stepApproved'  *)
(* of the same action.                                                     *)
EventsReportCommits ==
    \A i \in Instances : \A n \in 1 .. Len(published[i]) :
        LET e == published[i][n] IN
        /\ e.cause \in 1 .. Len(log[i])
        /\ Reports(e.name, log[i][e.cause])
        /\ \A m \in 1 .. n - 1 : published[i][m] # e
        /\ e.name = "approved" =>
              \E m \in 1 .. n - 1 :
                  published[i][m] = [e EXCEPT !.name = "stepApproved"]

(* With requests served one at a time, a decided instance stays as it is:  *)
(* the guards of approveStep, rejectStep, returnStep and cancelInstance    *)
(* refuse it.                                                              *)
TerminalIsFinal ==
    [][\A i \in Instances : inst[i].status \in Terminal => inst'[i] = inst[i]]_vars

(* A record has at most one undecided instance (DuplicateInstanceError).   *)
OneActiveInstance ==
    \A i, j \in Instances :
        /\ RecordOf[i] = RecordOf[j]
        /\ inst[i].status \in Active
        /\ inst[j].status \in Active
        => i = j

(* When no request is cut off, every approval is announced to the bus.     *)
ApprovalsArePublished ==
    \A i \in Instances :
        inst[i].status = "approved" ~>
            \E n \in 1 .. Len(published[i]) : published[i][n].name = "approved"

\* The refinement: the rows, and the steps with an 'approved' action row.
Chain == INSTANCE ApprovalChain WITH
    chain <- inst,
    granted <- [i \in Instances |->
        {log[i][k].step : k \in {m \in 1 .. Len(log[i]) : log[i][m].op = "approved"}}]

(* Requests served one at a time implement the abstract approval chain.    *)
ImplementsChain == Chain!ChainSpec

\* What a record sees of it: the status of its undecided instance, and whether
\* an instance of it is approved.
UndecidedOf(r) ==
    LET undecided == {i \in Instances : RecordOf[i] = r /\ inst[i].status \in Active} IN
    IF undecided = {} THEN "none" ELSE inst[CHOOSE i \in undecided : TRUE].status

PerRecord == INSTANCE RecordApproval WITH
    Records <- {RecordOf[i] : i \in Instances},
    undecided <- [r \in {RecordOf[i] : i \in Instances} |-> UndecidedOf(r)],
    approved <- {RecordOf[i] : i \in {j \in Instances : inst[j].status = "approved"}}

(* Requests served one at a time give every record one instance at a time, *)
(* which is decided once (startInstance to cancelInstance).                *)
ServesRecords == PerRecord!ApprovalSpec

=============================================================================
