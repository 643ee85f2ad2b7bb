------------------------ MODULE WorkflowEngineProofs ------------------------
(***************************************************************************)
(* Theorems about WorkflowEngine for every template, every number of       *)
(* instances and users, and every number of requests in flight; and, when  *)
(* requests are served one at a time, its refinement of ApprovalChain. The *)
(* last part is about the mails that the engine's events end in.           *)
(***************************************************************************)
EXTENDS WorkflowEngine, Notifications, SequenceTheorems, TLAPS

-----------------------------------------------------------------------------
(* Lemmas about the operators *)

(* What EventsOf builds is a sequence of events: the rows of steps.ts'     *)
(* emit calls for one committed action.                                    *)
LEMMA EventsOfType ==
    ASSUME NEW w \in Work, NEW cause \in Nat
    PROVE  EventsOf(w, cause) \in Seq(Event)
<1>1. /\ EventNamesOf(w) \in Seq(EventNames)
      /\ Len(EventNamesOf(w)) \in Nat
  <2>1. CASE w.op = "approved" /\ w.to = NoStep
    BY <2>1 DEF EventNamesOf, EventNames
  <2>2. CASE w.op = "approved" /\ w.to # NoStep
    BY <2>2 DEF EventNamesOf, EventNames
  <2>3. CASE w.op # "approved"
    <3>1. EventNamesOf(w) = <<w.op>>
      BY <2>3 DEF EventNamesOf
    <3>2. w.op \in EventNames
      BY <2>3 DEF Work, Ops, EventNames
    <3>3. QED
      BY <3>1, <3>2
  <2>4. QED
    BY <2>1, <2>2, <2>3
<1>2. \A n \in 1 .. Len(EventNamesOf(w)) : EventNamesOf(w)[n] \in EventNames
  BY <1>1, ElementOfSeq
<1>3. w.inst \in Instances
  BY DEF Work
<1>4. QED
  BY <1>1, <1>2, <1>3 DEF EventsOf, Event

(* An 'approved' action row stays in the append-only trail: what Commit    *)
(* does to the log never takes an approval away.                           *)
LEMMA ApprovalsStay ==
    ASSUME TypeOK, NEW i \in Instances, NEW s \in Steps, ApprovedInLog(i, s),
           \/ log' = log
           \/ \E j \in Instances, w \in Work :
                log' = [log EXCEPT ![j] = Append(@, w)]
    PROVE  ApprovedInLog(i, s)'
<1>1. PICK k \in 1 .. Len(log[i]) :
        /\ log[i][k].op = "approved"
        /\ log[i][k].step = s
        /\ MayDecide(log[i][k].actor, s)
  BY DEF ApprovedInLog
<1>2. CASE log' = log
  BY <1>1, <1>2 DEF ApprovedInLog, MayDecide
<1>3. ASSUME NEW j \in Instances, NEW w \in Work,
             log' = [log EXCEPT ![j] = Append(@, w)]
      PROVE  ApprovedInLog(i, s)'
  <2>1. log[i] \in Seq(Work) /\ log[j] \in Seq(Work)
    BY DEF TypeOK
  <2>2. log'[i] = log[i] \/ log'[i] = Append(log[i], w)
    BY <1>3, <2>1 DEF TypeOK
  <2>3. k \in 1 .. Len(log'[i]) /\ log'[i][k] = log[i][k]
    BY <2>1, <2>2
  <2>4. QED
    BY <1>1, <2>3 DEF ApprovedInLog, MayDecide
<1>4. QED
  BY <1>2, <1>3

(* The same for a whole path: what is approved before a step stays so.     *)
LEMMA PathsStay ==
    ASSUME TypeOK, NEW i \in Instances, NEW s \in Steps \cup {NoStep},
           PathApproved(i, s),
           \/ log' = log
           \/ \E j \in Instances, w \in Work :
                log' = [log EXCEPT ![j] = Append(@, w)]
    PROVE  PathApproved(i, s)'
<1>1. SUFFICES ASSUME NEW k \in Mandatory, s = NoStep \/ k < s
               PROVE  ApprovedInLog(i, k)'
  BY DEF PathApproved
<1>2. ApprovedInLog(i, k) /\ k \in Steps
  BY <1>1 DEF PathApproved, Mandatory
<1>3. QED
  BY <1>2, ApprovalsStay

-----------------------------------------------------------------------------
(* The inductive invariant *)

Inv == TypeOK /\ ApprovedPath

\* What ApprovedPath says of the operation a request has checked.
SoundWork(w) ==
    /\ PathApproved(w.inst, w.step)
    /\ w.op = "started" => w.step = 1 /\ w.to = 1
    /\ w.op # "started" => inst[w.inst].status # "none"
    /\ w.op = "approved" => MayDecide(w.actor, w.step) /\ IsNextStep(w.step, w.to)
    /\ w.op = "returned" => w.to \in Steps /\ w.to < w.step

\* ... and of an instance row.
SoundRow(i) ==
    /\ inst[i].status # "none" => PathApproved(i, inst[i].step)
    /\ inst[i].status \in Active => inst[i].step \in Steps
    /\ inst[i].status = "approved" => inst[i].step = NoStep

(* ApprovedPath, row by row and request by request.                        *)
LEMMA ApprovedPathParts ==
    ApprovedPath <=> /\ \A i \in Instances : SoundRow(i)
                     /\ \A r \in Requests : work[r] # NoWork => SoundWork(work[r])
BY DEF ApprovedPath, SoundRow, SoundWork

(* A check that accepts an operation keeps the invariant when the          *)
(* operation is sound: it writes no row.                                   *)
LEMMA CheckKeepsInv ==
    ASSUME Inv, NEW r \in Requests, NEW w \in Work, SoundWork(w),
           work' = [work EXCEPT ![r] = w],
           UNCHANGED <<inst, log, outbox, published>>
    PROVE  Inv'
<1>1. TypeOK'
  BY DEF Inv, TypeOK
<1>2. \A x \in Work : SoundWork(x) => SoundWork(x)'
  BY DEF SoundWork, PathApproved, ApprovedInLog, MayDecide, IsNextStep
<1>3. \A i \in Instances : SoundRow(i) => SoundRow(i)'
  BY DEF SoundRow, PathApproved, ApprovedInLog, MayDecide
<1>4. \A q \in Requests : (work[q] # NoWork => SoundWork(work[q]))'
  <2>1. TAKE q \in Requests
  <2>2. CASE q = r
    <3>1. work'[q] = w
      BY <2>2 DEF Inv, TypeOK
    <3>2. SoundWork(w)'
      BY <1>2
    <3>3. QED
      BY <3>1, <3>2 DEF SoundWork
  <2>3. CASE q # r
    <3>1. work'[q] = work[q] /\ work[q] \in Work \cup {NoWork}
      BY <2>3 DEF Inv, TypeOK
    <3>2. work[q] # NoWork => SoundWork(work[q])
      BY ApprovedPathParts DEF Inv
    <3>3. QED
      BY <1>2, <3>1, <3>2 DEF SoundWork, PathApproved, ApprovedInLog, MayDecide, IsNextStep
  <2>4. QED
    BY <2>2, <2>3
<1>5. \A i \in Instances : SoundRow(i)'
  BY <1>3, ApprovedPathParts DEF Inv
<1>6. ApprovedPath'
  BY <1>4, <1>5 DEF ApprovedPath, SoundRow, SoundWork
<1>7. QED
  BY <1>1, <1>6 DEF Inv

(* Each of the five checks accepts only a sound operation.                 *)
LEMMA CheckStepKeepsInv ==
    ASSUME Inv, NEW r \in Requests, CheckStep(r) PROVE Inv'
<1>1. PICK i \in Instances, u \in Users :
        \/ CheckStart(r, i, u)
        \/ CheckApprove(r, i, u)
        \/ CheckReject(r, i, u)
        \/ CheckReturn(r, i, u)
        \/ CheckCancel(r, i, u)
  BY DEF CheckStep
<1>2. SoundRow(i)
  BY ApprovedPathParts DEF Inv
<1>3. 1 \in Steps
  BY StepCountAssumption DEF Steps
<1>4. CASE CheckStart(r, i, u)
  <2>. DEFINE w == [op |-> "started", inst |-> i, step |-> 1, to |-> 1, actor |-> u]
  <2>1. w \in Work
    BY <1>3 DEF Work, Ops
  <2>2. SoundWork(w)
    <3>1. PathApproved(i, 1)
      BY DEF PathApproved, Mandatory, Steps, NoStep
    <3>2. QED
      BY <3>1 DEF SoundWork
  <2>3. work' = [work EXCEPT ![r] = w] /\ UNCHANGED <<inst, log, outbox, published>>
    BY <1>4 DEF CheckStart
  <2>4. QED
    BY <2>1, <2>2, <2>3, CheckKeepsInv
<1>5. ASSUME NEW op \in Ops, NEW to \in Steps \cup {NoStep},
             Accept(r, op, i, to, u),
             inst[i].status \in Active,
             op # "started",
             op = "approved" => MayDecide(u, inst[i].step) /\ IsNextStep(inst[i].step, to),
             op = "returned" => to \in Steps /\ to < inst[i].step
      PROVE  Inv'
  <2>. DEFINE w == [op |-> op, inst |-> i, step |-> inst[i].step, to |-> to, actor |-> u]
  <2>1. inst[i].step \in Steps /\ inst[i].status # "none"
    BY <1>2, <1>5 DEF SoundRow, Active
  <2>2. w \in Work
    BY <2>1 DEF Work
  <2>3. SoundWork(w)
    BY <1>2, <1>5, <2>1 DEF SoundWork, SoundRow
  <2>4. work' = [work EXCEPT ![r] = w] /\ UNCHANGED <<inst, log, outbox, published>>
    BY <1>5 DEF Accept
  <2>5. QED
    BY <2>2, <2>3, <2>4, CheckKeepsInv
<1>6. inst[i].status \in Active => inst[i].step \in Steps
  BY <1>2 DEF SoundRow
<1>7. CASE CheckApprove(r, i, u)
  BY <1>5, <1>7 DEF CheckApprove, Ops
<1>8. CASE CheckReject(r, i, u)
  BY <1>5, <1>6, <1>8 DEF CheckReject, Ops
<1>9. CASE CheckReturn(r, i, u)
  BY <1>5, <1>9 DEF CheckReturn, Ops, Active
<1>10. CASE CheckCancel(r, i, u)
  BY <1>5, <1>6, <1>10 DEF CheckCancel, Ops
<1>11. QED
  BY <1>1, <1>4, <1>7, <1>8, <1>9, <1>10

\* The rows a transaction may write: they keep SoundRow true.
Rows == [status : Statuses, step : Steps \cup {NoStep}]

(* The transaction appends one action row and writes one instance row;     *)
(* it keeps the invariant when the row it writes is sound for the new log. *)
LEMMA CommitKeepsInv ==
    ASSUME Inv, NEW r \in Requests, NEW row \in Rows,
           work[r] # NoWork, Commit(r, row),
           row.status # "none",
           row.status \in Active => row.step \in Steps,
           row.status = "approved" => row.step = NoStep,
           \A k \in Mandatory : (row.step = NoStep \/ k < row.step) =>
                \/ ApprovedInLog(work[r].inst, k)
                \/ /\ work[r].op = "approved"
                   /\ work[r].step = k
                   /\ MayDecide(work[r].actor, k)
    PROVE  Inv'
<1>1. PICK w \in Work, i \in Instances : w = work[r] /\ i = w.inst
  BY DEF Inv, TypeOK, Work
<1>2. /\ inst' = [inst EXCEPT ![i] = row]
      /\ log' = [log EXCEPT ![i] = Append(@, w)]
      /\ work' = [work EXCEPT ![r] = NoWork]
      /\ outbox' = [outbox EXCEPT ![r] = EventsOf(w, Len(log[i]) + 1)]
      /\ published' = published
  BY <1>1 DEF Commit
<1>3. TypeOK'
  <2>1. Len(log[i]) + 1 \in Nat
    BY <1>1 DEF Inv, TypeOK
  <2>2. EventsOf(w, Len(log[i]) + 1) \in Seq(Event)
    BY <1>1, <2>1, EventsOfType
  <2>3. inst' \in [Instances -> Rows]
    BY <1>1, <1>2 DEF Inv, TypeOK, Rows
  <2>4. log' \in [Instances -> Seq(Work)]
    BY <1>1, <1>2 DEF Inv, TypeOK
  <2>5. work' \in [Requests -> Work \cup {NoWork}]
    BY <1>2 DEF Inv, TypeOK
  <2>6. outbox' \in [Requests -> Seq(Event)]
    BY <1>2, <2>2 DEF Inv, TypeOK
  <2>7. QED
    BY <1>2, <2>3, <2>4, <2>5, <2>6 DEF Inv, TypeOK, Rows
<1>4. \A j \in Instances, s \in Steps \cup {NoStep} :
         PathApproved(j, s) => PathApproved(j, s)'
  BY <1>1, <1>2, PathsStay DEF Inv
<1>5. PathApproved(i, row.step)'
  <2>1. SUFFICES ASSUME NEW k \in Mandatory, row.step = NoStep \/ k < row.step
                 PROVE  ApprovedInLog(i, k)'
    BY DEF PathApproved
  <2>2. k \in Steps
    BY DEF Mandatory
  <2>3. CASE ApprovedInLog(i, k)
    BY <1>1, <1>2, <2>2, <2>3, ApprovalsStay DEF Inv
  <2>4. CASE w.op = "approved" /\ w.step = k /\ MayDecide(w.actor, k)
    <3>1. log'[i] = Append(log[i], w) /\ log[i] \in Seq(Work)
      BY <1>1, <1>2 DEF Inv, TypeOK
    <3>2. /\ Len(log'[i]) \in 1 .. Len(log'[i])
          /\ log'[i][Len(log'[i])] = w
      BY <1>1, <3>1
    <3>3. QED
      BY <2>4, <3>2 DEF ApprovedInLog, MayDecide
  <2>5. QED
    BY <1>1, <2>1, <2>3, <2>4
<1>6. \A j \in Instances : SoundRow(j)'
  <2>1. TAKE j \in Instances
  <2>2. CASE j = i
    <3>1. inst'[j] = row
      BY <1>1, <1>2, <2>2 DEF Inv, TypeOK
    <3>2. QED
      BY <1>5, <2>2, <3>1 DEF SoundRow, PathApproved, ApprovedInLog
  <2>3. CASE j # i
    <3>1. inst'[j] = inst[j] /\ inst[j] \in Rows
      BY <1>1, <1>2, <2>3 DEF Inv, TypeOK, Rows
    <3>2. SoundRow(j)
      BY ApprovedPathParts DEF Inv
    <3>3. PICK s \in Steps \cup {NoStep} : s = inst[j].step
      BY <3>1 DEF Rows
    <3>4. inst[j].status # "none" => PathApproved(j, s)'
      BY <1>4, <3>2, <3>3 DEF SoundRow
    <3>5. QED
      BY <3>1, <3>2, <3>3, <3>4 DEF SoundRow, PathApproved, ApprovedInLog
  <2>4. QED
    BY <2>2, <2>3
<1>7. \A q \in Requests : (work[q] # NoWork => SoundWork(work[q]))'
  <2>1. SUFFICES ASSUME NEW q \in Requests, work'[q] # NoWork
                 PROVE  SoundWork(work[q])'
    OBVIOUS
  <2>2. q # r /\ work'[q] = work[q] /\ work[q] \in Work
    BY <1>2, <2>1 DEF Inv, TypeOK
  <2>3. SoundWork(work[q])
    BY <2>1, <2>2, ApprovedPathParts DEF Inv
  <2>4. PathApproved(work[q].inst, work[q].step)'
    <3>1. work[q].inst \in Instances /\ work[q].step \in Steps \cup {NoStep}
      BY <2>2 DEF Work
    <3>2. PathApproved(work[q].inst, work[q].step)
      BY <2>3 DEF SoundWork
    <3>3. PICK j \in Instances, s \in Steps \cup {NoStep} :
            j = work[q].inst /\ s = work[q].step
      BY <3>1
    <3>4. PathApproved(j, s)'
      BY <1>4, <3>2, <3>3
    <3>5. QED
      BY <2>2, <3>3, <3>4 DEF PathApproved, ApprovedInLog
  <2>5. work[q].op # "started" => inst'[work[q].inst].status # "none"
    <3>1. work[q].inst \in Instances
      BY <2>2 DEF Work
    <3>2. CASE work[q].inst = i
      BY <1>1, <1>2, <3>2 DEF Inv, TypeOK
    <3>3. CASE work[q].inst # i
      BY <1>2, <2>3, <3>1, <3>3 DEF Inv, TypeOK, SoundWork
    <3>4. QED
      BY <3>2, <3>3
  <2>6. QED
    BY <2>2, <2>3, <2>4, <2>5 DEF SoundWork, MayDecide, IsNextStep
<1>8. ApprovedPath'
  BY <1>6, <1>7 DEF ApprovedPath, SoundRow, SoundWork
<1>9. QED
  BY <1>3, <1>8 DEF Inv

(* Each of the five transactions writes a sound row, whatever other        *)
(* requests have committed since its check.                                *)
LEMMA CommitStepKeepsInv ==
    ASSUME Inv, NEW r \in Requests, CommitStep(r) PROVE Inv'
<1>1. work[r] # NoWork
  BY DEF CommitStep, CommitStart, CommitApprove, CommitReject, CommitReturn,
         CommitCancel, Holds
<1>2. PICK w \in Work, i \in Instances : w = work[r] /\ i = w.inst
  BY <1>1 DEF Inv, TypeOK, Work
<1>3. SoundWork(w) /\ SoundRow(i)
  BY <1>1, <1>2, ApprovedPathParts DEF Inv
<1>4. /\ w.step \in Steps /\ w.to \in Steps \cup {NoStep}
      /\ inst[i] \in Rows
  BY <1>2 DEF Inv, TypeOK, Work, Rows
<1>5. CASE CommitStart(r)
  <2>. DEFINE row == [status |-> "in_progress", step |-> w.to]
  <2>1. w.op = "started" /\ w.to = 1 /\ 1 \in Steps
    BY <1>2, <1>3, <1>4, <1>5 DEF CommitStart, Holds, SoundWork
  <2>2. Commit(r, row)
    BY <1>2, <1>5 DEF CommitStart
  <2>3. row \in Rows
    BY <1>4 DEF Rows, Statuses, Active
  <2>4. \A k \in Mandatory : ~(row.step = NoStep \/ k < row.step)
    BY <2>1 DEF Mandatory, Steps, NoStep
  <2>5. row.status # "none" /\ (row.status \in Active => row.step \in Steps)
          /\ row.status # "approved"
    BY <2>1
  <2>. HIDE DEF row
  <2>6. QED
    BY <1>1, <2>2, <2>3, <2>4, <2>5, CommitKeepsInv
<1>6. CASE CommitApprove(r)
  <2>. DEFINE row == [status |-> IF w.to = NoStep THEN "approved" ELSE "in_progress",
                      step |-> w.to]
  <2>1. w.op = "approved"
    BY <1>2, <1>6 DEF CommitApprove, Holds
  <2>2. Commit(r, row)
    BY <1>2, <1>6 DEF CommitApprove
  <2>3. row \in Rows
    BY <1>4 DEF Rows, Statuses, Active, Terminal
  <2>4. \A k \in Mandatory : (w.to = NoStep \/ k < w.to) => k < w.step \/ k = w.step
    BY <1>3, <1>4, <2>1, OptionalAssumption, StepCountAssumption
       DEF SoundWork, IsNextStep, Later, Mandatory, Steps, NoStep
  <2>5. \A k \in Mandatory : (row.step = NoStep \/ k < row.step) =>
            \/ ApprovedInLog(i, k)
            \/ w.op = "approved" /\ w.step = k /\ MayDecide(w.actor, k)
    BY <1>2, <1>3, <2>1, <2>4 DEF SoundWork, PathApproved
  <2>6. /\ row.status # "none"
        /\ row.status \in Active => row.step \in Steps
        /\ row.status = "approved" => row.step = NoStep
    BY <1>4 DEF Active
  <2>. HIDE DEF row
  <2>7. QED
    BY <1>1, <1>2, <2>2, <2>3, <2>5, <2>6, CommitKeepsInv
<1>7. CASE CommitReturn(r)
  <2>. DEFINE row == [status |-> "returned", step |-> w.to]
  <2>1. w.op = "returned" /\ w.to \in Steps /\ w.to < w.step
    BY <1>2, <1>3, <1>7 DEF CommitReturn, Holds, SoundWork
  <2>2. Commit(r, row)
    BY <1>2, <1>7 DEF CommitReturn
  <2>3. row \in Rows
    BY <1>4 DEF Rows, Statuses, Active
  <2>4. \A k \in Mandatory : (row.step = NoStep \/ k < row.step) => ApprovedInLog(i, k)
    <3>1. \A k \in Mandatory : w.to # NoStep /\ (k < w.to => k < w.step)
      BY <1>4, <2>1 DEF Mandatory, Steps, NoStep
    <3>2. QED
      BY <1>2, <1>3, <3>1 DEF SoundWork, PathApproved
  <2>5. row.status # "none" /\ row.step \in Steps /\ row.status # "approved"
    BY <2>1
  <2>. HIDE DEF row
  <2>6. QED
    BY <1>1, <1>2, <2>2, <2>3, <2>4, <2>5, CommitKeepsInv
<1>8. ASSUME NEW status \in {"rejected", "cancelled"},
             Commit(r, [status |-> status, step |-> inst[i].step]),
             w.op # "started"
      PROVE  Inv'
  <2>. DEFINE row == [status |-> status, step |-> inst[i].step]
  <2>1. row \in Rows
    BY <1>4, <1>8 DEF Rows, Statuses, Terminal
  <2>2. inst[i].status # "none"
    BY <1>2, <1>3, <1>8 DEF SoundWork
  <2>3. \A k \in Mandatory : (row.step = NoStep \/ k < row.step) => ApprovedInLog(i, k)
    BY <1>3, <2>2 DEF SoundRow, PathApproved
  <2>4. row.status # "none" /\ row.status \notin Active /\ row.status # "approved"
    BY <1>8 DEF Active
  <2>5. Commit(r, row)
    BY <1>8
  <2>. HIDE DEF row
  <2>6. QED
    BY <1>1, <1>2, <2>1, <2>3, <2>4, <2>5, CommitKeepsInv
<1>9. CASE CommitReject(r)
  BY <1>2, <1>8, <1>9 DEF CommitReject, Holds
<1>10. CASE CommitCancel(r)
  BY <1>2, <1>8, <1>10 DEF CommitCancel, Holds
<1>11. QED
  BY <1>5, <1>6, <1>7, <1>9, <1>10 DEF CommitStep

(* Publishing and being cut off write no row and no action.                *)
LEMMA PublishKeepsInv ==
    ASSUME Inv, NEW r \in Requests, Publish(r) \/ CutOff(r) PROVE Inv'
<1>1. UNCHANGED <<inst, log>>
  BY DEF Publish, CutOff
<1>2. \A q \in Requests : work'[q] = work[q] \/ work'[q] = NoWork
  BY DEF Publish, CutOff, Inv, TypeOK
<1>3. TypeOK'
  <2>1. CASE Publish(r)
    <3>1. Head(outbox[r]) \in Event /\ Tail(outbox[r]) \in Seq(Event)
      BY <2>1 DEF Publish, Inv, TypeOK
    <3>2. PICK e \in Event : e = Head(outbox[r])
      BY <3>1
    <3>3. e.inst \in Instances
      BY DEF Event
    <3>4. published' = [published EXCEPT ![e.inst] = Append(@, e)]
      BY <2>1, <3>2 DEF Publish
    <3>5. published' \in [Instances -> Seq(Event)]
      BY <3>3, <3>4 DEF Inv, TypeOK
    <3>6. QED
      BY <2>1, <3>1, <3>5 DEF Publish, Inv, TypeOK
  <2>2. CASE CutOff(r)
    BY <2>2 DEF CutOff, Inv, TypeOK
  <2>3. QED
    BY <2>1, <2>2
<1>4. ApprovedPath'
  BY <1>1, <1>2 DEF Inv, ApprovedPath, PathApproved, ApprovedInLog, MayDecide, IsNextStep
<1>5. QED
  BY <1>3, <1>4 DEF Inv

(* The initial states satisfy the invariant and every step keeps it.       *)
LEMMA InvInductive ==
    /\ Init => Inv
    /\ Inv /\ [Next]_vars => Inv'
<1>1. Init => Inv
  BY DEF Init, Inv, TypeOK, ApprovedPath, Statuses, NoStep, Active
<1>2. ASSUME Inv, Next PROVE Inv'
  <2>1. PICK r \in Requests : CheckStep(r) \/ CommitStep(r) \/ Publish(r) \/ CutOff(r)
    BY <1>2 DEF Next
  <2>2. QED
    BY <1>2, <2>1, CheckStepKeepsInv, CommitStepKeepsInv, PublishKeepsInv
<1>3. ASSUME Inv, UNCHANGED vars PROVE Inv'
  BY <1>3 DEF Inv, TypeOK, ApprovedPath, PathApproved, ApprovedInLog,
              MayDecide, IsNextStep, vars
<1>4. QED
  BY <1>1, <1>2, <1>3

-----------------------------------------------------------------------------
(* Theorems *)

(* Rows, trails, pending operations and events are well typed in every     *)
(* reachable state, for every template and any number of requests.         *)
THEOREM TypeCorrect == Spec => []TypeOK
<1>1. Inv => TypeOK
  BY DEF Inv
<1>2. QED
  BY <1>1, InvInductive, PTL DEF Spec

(* Behind every instance row and every request in flight there is an       *)
(* approved path: the steps already passed were approved by their          *)
(* approvers, even when the request read the row before others changed it. *)
THEOREM ApprovedPathAlways == Spec => []ApprovedPath
<1>1. Inv => ApprovedPath
  BY DEF Inv
<1>2. QED
  BY <1>1, InvInductive, PTL DEF Spec

(* No interleaving of stale approvals, returns, rejections and restarts    *)
(* yields an approved instance with a mandatory step nobody entitled       *)
(* approved: the check-then-act races of steps.ts cannot skip a step.      *)
THEOREM NoMandatoryStepSkipped == Spec => []MandatoryStepsApproved
<1>1. Inv => MandatoryStepsApproved
  BY DEF Inv, ApprovedPath, PathApproved, MandatoryStepsApproved
<1>2. QED
  BY <1>1, InvInductive, PTL DEF Spec

-----------------------------------------------------------------------------
(* Requests served one at a time: what a request checked is still true     *)
(* when it commits, and the engine implements ApprovalChain.  For racing   *)
(* requests this is false.                                                 *)

\* At most one request is in flight.
Serial == \A p, q \in Requests : p = q

\* What the check of an operation read is what the rows still say.
Fresh(w) ==
    /\ w.op = "started" =>
          /\ inst[w.inst].status = "none"
          /\ \A j \in Instances : RecordOf[j] = RecordOf[w.inst] => inst[j].status \notin Active
    /\ w.op # "started" => inst[w.inst].status \in Active /\ inst[w.inst].step = w.step
    /\ w.op = "returned" => inst[w.inst].status = "in_progress"
    /\ w.op \in {"approved", "rejected", "returned"} => MayDecide(w.actor, w.step)

SerialInv ==
    /\ Inv
    /\ OneActiveInstance
    /\ \A r \in Requests : work[r] # NoWork => Fresh(work[r])

-----------------------------------------------------------------------------
(* The invariant *)

(* A check accepts only what it has just read.                             *)
LEMMA CheckIsFresh ==
    ASSUME Serial, Inv, NEW r \in Requests, CheckStep(r)
    PROVE  /\ \A q \in Requests : work'[q] # NoWork => Fresh(work'[q])
           /\ UNCHANGED <<inst, log>>
<1>1. PICK i \in Instances, u \in Users :
        \/ CheckStart(r, i, u)
        \/ CheckApprove(r, i, u)
        \/ CheckReject(r, i, u)
        \/ CheckReturn(r, i, u)
        \/ CheckCancel(r, i, u)
  BY DEF CheckStep
<1>2. ASSUME NEW w, work' = [work EXCEPT ![r] = w], Fresh(w)
      PROVE  \A q \in Requests : work'[q] # NoWork => Fresh(work'[q])
  BY <1>2 DEF Serial, Inv, TypeOK
<1>3. CASE CheckStart(r, i, u)
  <2>. DEFINE w == [op |-> "started", inst |-> i, step |-> 1, to |-> 1, actor |-> u]
  <2>1. work' = [work EXCEPT ![r] = w] /\ UNCHANGED <<inst, log>>
    BY <1>3 DEF CheckStart
  <2>2. Fresh(w)
    BY <1>3 DEF CheckStart, Fresh
  <2>. HIDE DEF w
  <2>3. QED
    BY <1>2, <2>1, <2>2
<1>4. ASSUME NEW op \in Ops, NEW to, Accept(r, op, i, to, u), op # "started",
             inst[i].status \in Active,
             op = "returned" => inst[i].status = "in_progress",
             op \in {"approved", "rejected", "returned"} => MayDecide(u, inst[i].step)
      PROVE  /\ \A q \in Requests : work'[q] # NoWork => Fresh(work'[q])
             /\ UNCHANGED <<inst, log>>
  <2>. DEFINE w == [op |-> op, inst |-> i, step |-> inst[i].step, to |-> to, actor |-> u]
  <2>1. work' = [work EXCEPT ![r] = w] /\ UNCHANGED <<inst, log>>
    BY <1>4 DEF Accept
  <2>2. Fresh(w)
    BY <1>4 DEF Fresh
  <2>. HIDE DEF w
  <2>3. QED
    BY <1>2, <2>1, <2>2
<1>5. CASE CheckApprove(r, i, u)
  BY <1>4, <1>5 DEF CheckApprove, Ops
<1>6. CASE CheckReject(r, i, u)
  BY <1>4, <1>6 DEF CheckReject, Ops
<1>7. CASE CheckReturn(r, i, u)
  BY <1>4, <1>7 DEF CheckReturn, Ops, Active
<1>8. CASE CheckCancel(r, i, u)
  BY <1>4, <1>8 DEF CheckCancel, Ops
<1>9. QED
  BY <1>1, <1>3, <1>5, <1>6, <1>7, <1>8

\* The row that the commit of w writes.
RowAfter(w) ==
    [status |-> StatusAfter(w),
     step |-> IF w.op \in {"rejected", "cancelled"} THEN inst[w.inst].step ELSE w.to]

(* What a transaction does, whichever operation it commits.                *)
LEMMA CommitWrites ==
    ASSUME Inv, NEW r \in Requests, CommitStep(r)
    PROVE  /\ work[r] \in Work /\ work[r] # NoWork /\ work[r].inst \in Instances
           /\ SoundWork(work[r])
           /\ inst' = [inst EXCEPT ![work[r].inst] = RowAfter(work[r])]
           /\ log' = [log EXCEPT ![work[r].inst] = Append(@, work[r])]
           /\ work' = [work EXCEPT ![r] = NoWork]
<1>1. work[r] # NoWork
  BY DEF CommitStep, CommitStart, CommitApprove, CommitReject, CommitReturn,
         CommitCancel, Holds
<1>2. work[r] \in Work /\ work[r].inst \in Instances /\ SoundWork(work[r])
  BY <1>1, ApprovedPathParts DEF Inv, TypeOK, Work
<1>3. Commit(r, RowAfter(work[r]))
  BY <1>2 DEF CommitStep, CommitStart, CommitApprove, CommitReject, CommitReturn,
         CommitCancel, Holds, RowAfter, StatusAfter, SoundWork
<1>4. QED
  BY <1>1, <1>2, <1>3 DEF Commit

(* The next status of an instance is a decided one, or the instance was    *)
(* undecided or new before.                                                *)
LEMMA SerialNext == Serial /\ SerialInv /\ [Next]_vars => SerialInv'
<1>. SUFFICES ASSUME Serial, SerialInv, [Next]_vars PROVE SerialInv'
  OBVIOUS
<1>1. Inv'
  BY InvInductive DEF SerialInv
<1>2. ASSUME UNCHANGED inst, \A q \in Requests : work'[q] # NoWork => Fresh(work'[q])
      PROVE  SerialInv'
  BY <1>1, <1>2 DEF SerialInv, OneActiveInstance, Fresh, MayDecide
<1>3. ASSUME NEW r \in Requests, CheckStep(r) PROVE SerialInv'
  BY <1>2, <1>3, CheckIsFresh DEF SerialInv
<1>4. ASSUME NEW r \in Requests, CommitStep(r) PROVE SerialInv'
  <2>1. PICK w \in Work, i \in Instances :
          /\ w = work[r] /\ i = w.inst /\ Fresh(w) /\ SoundWork(w)
          /\ inst' = [inst EXCEPT ![i] = RowAfter(w)]
          /\ work' = [work EXCEPT ![r] = NoWork]
    BY <1>4, CommitWrites DEF SerialInv
  <2>2. \A q \in Requests : work'[q] = NoWork
    BY <2>1 DEF Serial, SerialInv, Inv, TypeOK
  <2>3. /\ inst'[i].status = StatusAfter(w)
        /\ \A j \in Instances \ {i} : inst'[j] = inst[j]
    BY <2>1 DEF SerialInv, Inv, TypeOK, RowAfter
  <2>4. \A j \in Instances \ {i} : RecordOf[j] = RecordOf[i] => inst[j].status \notin Active
    <3>1. CASE w.op = "started"
      BY <2>1, <3>1 DEF Fresh
    <3>2. CASE w.op # "started"
      BY <2>1, <3>2 DEF Fresh, SerialInv, OneActiveInstance
    <3>3. QED
      BY <3>1, <3>2
  <2>5. OneActiveInstance'
    BY <2>3, <2>4 DEF OneActiveInstance, SerialInv
  <2>6. QED
    BY <1>1, <2>2, <2>5 DEF SerialInv
<1>5. ASSUME NEW r \in Requests, Publish(r) PROVE SerialInv'
  BY <1>2, <1>5 DEF Publish, SerialInv
<1>6. ASSUME NEW r \in Requests, CutOff(r) PROVE SerialInv'
  BY <1>2, <1>6 DEF CutOff, SerialInv, Serial, Inv, TypeOK
<1>7. CASE UNCHANGED vars
  BY <1>2, <1>7 DEF vars, SerialInv
<1>8. QED
  BY <1>3, <1>4, <1>5, <1>6, <1>7 DEF Next

(* It holds at first and so for ever.                                      *)
LEMMA SerialAlways ==
    ASSUME Serial
    PROVE  Spec => []SerialInv
<1>1. Init => SerialInv
  BY InvInductive DEF Init, SerialInv, OneActiveInstance, Active
<1>2. SerialInv /\ [Next]_vars => SerialInv'
  BY SerialNext
<1>3. QED
  BY <1>1, <1>2, PTL DEF Spec

-----------------------------------------------------------------------------
(* The refinement *)

\* The steps that a trail approves.
Granted(trail) == {trail[k].step : k \in {m \in 1 .. Len(trail) : trail[m].op = "approved"}}

(* One more action row grants its own step, if it is an approval.          *)
LEMMA GrantedByOneMore ==
    ASSUME NEW trail \in Seq(Work), NEW w \in Work
    PROVE  Granted(Append(trail, w)) =
              IF w.op = "approved" THEN Granted(trail) \cup {w.step} ELSE Granted(trail)
<1>. DEFINE longer == Append(trail, w)
<1>1. /\ Len(trail) \in Nat /\ Len(longer) = Len(trail) + 1
      /\ longer[Len(trail) + 1] = w
      /\ \A k \in 1 .. Len(trail) : longer[k] = trail[k]
  OBVIOUS
<1>. HIDE DEF longer
<1>2. \A k : k \in 1 .. Len(longer) <=> k \in 1 .. Len(trail) \/ k = Len(trail) + 1
  BY <1>1
<1>3. \A x : x \in Granted(longer) <=>
          x \in Granted(trail) \/ (w.op = "approved" /\ x = w.step)
  BY <1>1, <1>2 DEF Granted
<1>4. QED
  BY <1>3 DEF longer

\* The rows and the granted steps, as the abstract chain has them.
grants == [i \in Instances |-> Granted(log[i])]

(* Every step of the engine is a step of the chain, or a stutter.          *)
LEMMA ChainStep ==
    ASSUME Serial, SerialInv, [Next]_vars
    PROVE  \/ Chain!ChainNext
           \/ UNCHANGED <<inst, log>>
<1>1. ASSUME NEW r \in Requests, CommitStep(r) PROVE Chain!ChainNext
  <2>1. PICK w \in Work, i \in Instances :
          /\ w = work[r] /\ i = w.inst /\ Fresh(w) /\ SoundWork(w)
          /\ inst' = [inst EXCEPT ![i] = RowAfter(w)]
          /\ log' = [log EXCEPT ![i] = Append(@, w)]
    BY <1>1, CommitWrites DEF SerialInv
  <2>2. inst[i] \in [status : Statuses, step : Steps \cup {NoStep}]
    BY DEF SerialInv, Inv, TypeOK
  <2>3. grants' = [grants EXCEPT ![i] =
                      IF w.op = "approved" THEN @ \cup {w.step} ELSE @]
    <3>1. log \in [Instances -> Seq(Work)]
      BY DEF SerialInv, Inv, TypeOK
    <3>2. /\ log'[i] = Append(log[i], w)
          /\ \A j \in Instances \ {i} : log'[j] = log[j]
      BY <2>1, <3>1
    <3>3. Granted(log'[i]) = IF w.op = "approved" THEN Granted(log[i]) \cup {w.step}
                                                  ELSE Granted(log[i])
      BY <3>1, <3>2, GrantedByOneMore
    <3>4. QED
      BY <3>2, <3>3 DEF grants
  <2>4. CASE w.op = "started"
    <3>1. Chain!Open(i)
      BY <2>1, <2>3, <2>4
      DEF Chain!Open, Chain!Undecided, Chain!Active, Active, Fresh, SoundWork, RowAfter,
          StatusAfter, grants, Granted
    <3>2. QED
      BY <3>1 DEF Chain!ChainNext
  <2>5. CASE w.op = "approved"
    <3>1. Chain!Grant(i)
      BY <2>1, <2>3, <2>5
      DEF Chain!Grant, Chain!Undecided, Chain!Active, Active, Fresh, SoundWork, RowAfter,
          StatusAfter, grants, Granted, Work, Chain!MayDecide, MayDecide, Chain!IsNextStep,
          IsNextStep, Chain!Later, Later, Chain!Steps, Steps, Chain!NoStep, NoStep
    <3>2. QED
      BY <3>1 DEF Chain!ChainNext
  <2>6. CASE w.op = "rejected"
    <3>1. Chain!Refuse(i)
      BY <2>1, <2>2, <2>3, <2>6
      DEF Chain!Refuse, Chain!Undecided, Chain!Active, Active, Fresh, RowAfter,
          StatusAfter, grants, Granted, Work, Chain!MayDecide, MayDecide
    <3>2. QED
      BY <3>1 DEF Chain!ChainNext
  <2>7. CASE w.op = "returned"
    <3>1. Chain!SendBack(i)
      BY <2>1, <2>3, <2>7
      DEF Chain!SendBack, Fresh, SoundWork, RowAfter, StatusAfter, grants, Granted, Work,
          Chain!MayDecide, MayDecide, Chain!Steps, Steps
    <3>2. QED
      BY <3>1 DEF Chain!ChainNext
  <2>8. CASE w.op = "cancelled"
    <3>1. Chain!Withdraw(i)
      BY <2>1, <2>2, <2>3, <2>8
      DEF Chain!Withdraw, Chain!Undecided, Chain!Active, Active, Fresh, RowAfter,
          StatusAfter, grants, Granted
    <3>2. QED
      BY <3>1 DEF Chain!ChainNext
  <2>9. QED
    BY <2>4, <2>5, <2>6, <2>7, <2>8 DEF Work, Ops
<1>2. ASSUME NEW r \in Requests, CheckStep(r) PROVE UNCHANGED <<inst, log>>
  BY <1>2, CheckIsFresh DEF SerialInv
<1>3. ASSUME NEW r \in Requests, Publish(r) \/ CutOff(r) PROVE UNCHANGED <<inst, log>>
  BY <1>3 DEF Publish, CutOff
<1>4. QED
  BY <1>1, <1>2, <1>3 DEF Next, vars

(* When requests are served one at a time, the checks of the five          *)
(* operations, their transactions and any cut-off between them implement   *)
(* the abstract approval chain.                                            *)
THEOREM SerialImplementsChain ==
    ASSUME Serial
    PROVE  Spec => ImplementsChain
<1>1. Init => Chain!ChainInit
  BY DEF Init, Chain!ChainInit, Chain!NoStep, NoStep
<1>2. SerialInv /\ [Next]_vars => [Chain!ChainNext]_Chain!chainVars
  BY ChainStep DEF Chain!chainVars
<1>3. QED
  BY <1>1, <1>2, SerialAlways, PTL DEF Spec, ImplementsChain, Chain!ChainSpec

(* When requests are served one at a time, an approved, rejected or        *)
(* cancelled instance stays as it is.                                      *)
THEOREM DecidedStaysDecided ==
    ASSUME Serial
    PROVE  Spec => TerminalIsFinal
<1>. DEFINE Stays == \A i \in Instances : inst[i].status \in Terminal => inst'[i] = inst[i]
<1>1. SerialInv /\ [Next]_vars => [Stays]_vars
  <2>. SUFFICES ASSUME SerialInv, Next, NEW i \in Instances, inst[i].status \in Terminal
       PROVE  inst'[i] = inst[i]
    OBVIOUS
  <2>1. ASSUME NEW r \in Requests, CommitStep(r) PROVE inst'[i] = inst[i]
    <3>1. work[r].inst # i /\ inst' = [inst EXCEPT ![work[r].inst] = RowAfter(work[r])]
      BY <2>1, CommitWrites DEF SerialInv, Fresh, Active, Terminal
    <3>2. QED
      BY <3>1 DEF SerialInv, Inv, TypeOK
  <2>2. ASSUME NEW r \in Requests, CheckStep(r) PROVE inst'[i] = inst[i]
    BY <2>2, CheckIsFresh DEF SerialInv
  <2>3. ASSUME NEW r \in Requests, Publish(r) \/ CutOff(r) PROVE inst'[i] = inst[i]
    BY <2>3 DEF Publish, CutOff
  <2>4. QED
    BY <2>1, <2>2, <2>3 DEF Next
<1>2. QED
  BY <1>1, SerialAlways, PTL DEF Spec, TerminalIsFinal

(* When requests are served one at a time, a record never has two          *)
(* undecided instances.                                                    *)
THEOREM OneUndecidedInstance ==
    ASSUME Serial
    PROVE  Spec => []OneActiveInstance
<1>1. SerialInv => OneActiveInstance
  BY DEF SerialInv
<1>2. QED
  BY <1>1, SerialAlways, PTL

-----------------------------------------------------------------------------
(* What a record sees, when requests are served one at a time              *)

\* UndecidedOf in the rows f.
UndecidedIn(f, r) ==
    LET undecided == {i \in Instances : RecordOf[i] = r /\ f[i].status \in Active} IN
    IF undecided = {} THEN "none" ELSE f[CHOOSE i \in undecided : TRUE].status

(* A record whose only undecided instance is i shows the status of i.      *)
LEMMA OneShows ==
    ASSUME NEW f, NEW i \in Instances, f[i].status \in Active,
           \A j \in Instances : RecordOf[j] = RecordOf[i] /\ f[j].status \in Active => j = i
    PROVE  UndecidedIn(f, RecordOf[i]) = f[i].status
<1>. DEFINE U == {j \in Instances : RecordOf[j] = RecordOf[i] /\ f[j].status \in Active}
<1>1. U = {i}
  OBVIOUS
<1>2. (CHOOSE j \in U : TRUE) = i
  BY <1>1
<1>3. QED
  BY <1>1, <1>2 DEF UndecidedIn

(* A record without an undecided instance shows none.                      *)
LEMMA NoneShows ==
    ASSUME NEW f, NEW r, \A j \in Instances : RecordOf[j] = r => f[j].status \notin Active
    PROVE  UndecidedIn(f, r) = "none"
BY DEF UndecidedIn

(* Rows that differ at another record show the same.                       *)
LEMMA SameShows ==
    ASSUME NEW f, NEW g, NEW r, \A j \in Instances : RecordOf[j] = r => f[j] = g[j]
    PROVE  UndecidedIn(f, r) = UndecidedIn(g, r)
<1>. DEFINE U(h) == {j \in Instances : RecordOf[j] = r /\ h[j].status \in Active}
<1>1. U(f) = U(g)
  OBVIOUS
<1>2. CASE U(f) = {}
  BY <1>1, <1>2 DEF UndecidedIn
<1>3. CASE U(f) # {}
  <2>. DEFINE i == CHOOSE j \in U(f) : TRUE
  <2>1. i \in U(f) /\ i = CHOOSE j \in U(g) : TRUE
    BY <1>1, <1>3
  <2>2. UndecidedIn(f, r) = f[i].status /\ UndecidedIn(g, r) = g[i].status
    BY <1>1, <1>3, <2>1 DEF UndecidedIn
  <2>3. QED
    BY <2>1, <2>2
<1>4. QED
  BY <1>2, <1>3

(* A commit that writes the row of an undecided instance, or the first row *)
(* of a record without one, is a step of what the record sees.             *)
LEMMA RecordSees ==
    ASSUME OneActiveInstance, inst \in [Instances -> [status : Statuses, step : Steps \cup {NoStep}]],
           NEW i \in Instances, NEW row, inst' = [inst EXCEPT ![i] = row],
           \/ /\ inst[i].status = "none" /\ row.status = "in_progress"
              /\ \A j \in Instances : RecordOf[j] = RecordOf[i] => inst[j].status \notin Active
           \/ /\ inst[i].status \in Active
              /\ \/ row.status \in {"in_progress", "approved", "rejected", "cancelled"}
                 \/ row.status = "returned" /\ inst[i].status = "in_progress"
    PROVE  [PerRecord!ApprovalNext]_PerRecord!approvalVars
<1>. DEFINE Recs == {RecordOf[j] : j \in Instances}
            r == RecordOf[i]
            new == IF row.status \in Active THEN row.status ELSE "none"
            seen == [x \in Recs |-> UndecidedOf(x)]
            passed == {RecordOf[j] : j \in {k \in Instances : inst[k].status = "approved"}}
<1>1. inst'[i] = row /\ \A j \in Instances \ {i} : inst'[j] = inst[j]
  OBVIOUS
<1>2. \A j \in Instances : RecordOf[j] = r /\ inst[j].status \in Active => j = i
  BY DEF OneActiveInstance
<1>3. UndecidedIn(inst, r) = IF inst[i].status \in Active THEN inst[i].status ELSE "none"
  <2>1. CASE inst[i].status \in Active
    BY <1>2, <2>1, OneShows
  <2>2. CASE inst[i].status \notin Active
    BY <1>2, <2>2, NoneShows
  <2>3. QED
    BY <2>1, <2>2
<1>4. UndecidedIn(inst', r) = new
  <2>1. \A j \in Instances : RecordOf[j] = r /\ inst'[j].status \in Active => j = i
    BY <1>1, <1>2
  <2>2. CASE row.status \in Active
    BY <1>1, <2>1, <2>2, OneShows
  <2>3. CASE row.status \notin Active
    BY <1>1, <2>1, <2>3, NoneShows
  <2>4. QED
    BY <2>2, <2>3
<1>5. \A x \in Recs \ {r} : UndecidedIn(inst', x) = UndecidedIn(inst, x)
  <2>1. ASSUME NEW x \in Recs \ {r}, NEW g, g = inst' PROVE UndecidedIn(g, x) = UndecidedIn(inst, x)
    <3>1. \A j \in Instances : RecordOf[j] = x => g[j] = inst[j]
      BY <1>1, <2>1
    <3>2. QED
      BY <3>1, SameShows
  <2>2. QED
    BY <2>1
<1>6. \A x : UndecidedOf(x) = UndecidedIn(inst, x) /\ UndecidedOf(x)' = UndecidedIn(inst', x)
  BY DEF UndecidedOf, UndecidedIn
<1>7. seen' = [seen EXCEPT ![r] = new]
  BY <1>4, <1>5, <1>6
<1>8. seen[r] = IF inst[i].status \in Active THEN inst[i].status ELSE "none"
  BY <1>3, <1>6
<1>9. passed' = IF row.status = "approved" THEN passed \cup {r} ELSE passed
  <2>1. inst[i].status # "approved"
    BY DEF Active
  <2>2. ASSUME NEW x PROVE x \in passed' <=> x \in passed \/ (x = r /\ row.status = "approved")
    <3>1. x \in passed' <=> \E j \in Instances : inst'[j].status = "approved" /\ x = RecordOf[j]
      OBVIOUS
    <3>2. x \in passed <=> \E j \in Instances : inst[j].status = "approved" /\ x = RecordOf[j]
      OBVIOUS
    <3>3. QED
      BY <1>1, <2>1, <3>1, <3>2
  <2>. HIDE DEF passed
  <2>3. QED
    BY <2>2
<1>. HIDE DEF seen, passed
<1>10. CASE inst[i].status = "none"
  <2>1. seen[r] = "none" /\ seen' = [seen EXCEPT ![r] = "in_progress"] /\ passed' = passed
    BY <1>7, <1>8, <1>9, <1>10 DEF Active
  <2>2. PerRecord!Begun(r)
    BY <2>1 DEF PerRecord!Begun, PerRecord!MoveTo, seen, passed
  <2>3. QED
    BY <2>2 DEF PerRecord!ApprovalNext
<1>11. CASE inst[i].status \in Active /\ row.status \in {"approved", "rejected", "cancelled"}
  <2>1. seen[r] # "none" /\ seen' = [seen EXCEPT ![r] = "none"]
    BY <1>7, <1>8, <1>11 DEF Active
  <2>2. CASE row.status = "approved"
    <3>1. PerRecord!Approved(r)
      BY <1>9, <2>1, <2>2 DEF PerRecord!Approved, PerRecord!MoveTo, seen, passed
    <3>2. QED
      BY <3>1 DEF PerRecord!ApprovalNext
  <2>3. CASE row.status # "approved"
    <3>1. PerRecord!Dismissed(r)
      BY <1>9, <2>1, <2>3 DEF PerRecord!Dismissed, PerRecord!MoveTo, seen, passed
    <3>2. QED
      BY <3>1 DEF PerRecord!ApprovalNext
  <2>4. QED
    BY <2>2, <2>3
<1>12. CASE inst[i].status = "in_progress" /\ row.status = "returned"
  <2>1. seen[r] = "in_progress" /\ seen' = [seen EXCEPT ![r] = "returned"] /\ passed' = passed
    BY <1>7, <1>8, <1>9, <1>12 DEF Active
  <2>2. PerRecord!SentBack(r)
    BY <2>1 DEF PerRecord!SentBack, PerRecord!MoveTo, seen, passed
  <2>3. QED
    BY <2>2 DEF PerRecord!ApprovalNext
<1>13. CASE inst[i].status = "returned" /\ row.status = "in_progress"
  <2>1. seen[r] = "returned" /\ seen' = [seen EXCEPT ![r] = "in_progress"] /\ passed' = passed
    BY <1>7, <1>8, <1>9, <1>13 DEF Active
  <2>2. PerRecord!GoneOn(r)
    BY <2>1 DEF PerRecord!GoneOn, PerRecord!MoveTo, seen, passed
  <2>3. QED
    BY <2>2 DEF PerRecord!ApprovalNext
<1>14. CASE inst[i].status = "in_progress" /\ row.status = "in_progress"
  <2>1. seen[r] = "in_progress" /\ seen' = [seen EXCEPT ![r] = "in_progress"] /\ passed' = passed
    BY <1>7, <1>8, <1>9, <1>14 DEF Active
  <2>2. seen' = seen
    BY <2>1 DEF seen
  <2>3. QED
    BY <2>1, <2>2 DEF PerRecord!approvalVars, seen, passed
<1>15. QED
  BY <1>10, <1>11, <1>12, <1>13, <1>14 DEF Active

(* When requests are served one at a time, a record sees its workflow go   *)
(* on or be sent back, and be decided once: what the services of the       *)
(* records, and their models, rely on.                                     *)
THEOREM SerialServesRecords ==
    ASSUME Serial
    PROVE  Spec => ServesRecords
<1>1. Init => PerRecord!ApprovalInit
  <2>. SUFFICES ASSUME Init PROVE PerRecord!ApprovalInit
    OBVIOUS
  <2>1. \A j \in Instances : inst[j].status = "none"
    BY DEF Init
  <2>2. \A x : UndecidedOf(x) = "none"
    BY <2>1 DEF UndecidedOf, Active
  <2>3. QED
    BY <2>1, <2>2 DEF PerRecord!ApprovalInit
<1>2. SerialInv /\ [Next]_vars => [PerRecord!ApprovalNext]_PerRecord!approvalVars
  <2>. SUFFICES ASSUME SerialInv, [Next]_vars
       PROVE  [PerRecord!ApprovalNext]_PerRecord!approvalVars
    OBVIOUS
  <2>1. CASE UNCHANGED inst
    <3>1. \A x : UndecidedOf(x)' = UndecidedOf(x)
      BY <2>1 DEF UndecidedOf
    <3>2. QED
      BY <2>1, <3>1 DEF PerRecord!approvalVars
  <2>2. ASSUME NEW i \in Instances,
               Chain!Open(i) \/ Chain!Grant(i) \/ Chain!Refuse(i) \/ Chain!SendBack(i)
               \/ Chain!Withdraw(i)
        PROVE  [PerRecord!ApprovalNext]_PerRecord!approvalVars
    <3>1. inst \in [Instances -> [status : Statuses, step : Steps \cup {NoStep}]]
      BY DEF SerialInv, Inv, TypeOK
    <3>. DEFINE Good(row) ==
                  /\ inst' = [inst EXCEPT ![i] = row]
                  /\ \/ /\ inst[i].status = "none" /\ row.status = "in_progress"
                        /\ \A j \in Instances : RecordOf[j] = RecordOf[i] => inst[j].status \notin Active
                     \/ /\ inst[i].status \in Active
                        /\ \/ row.status \in {"in_progress", "approved", "rejected", "cancelled"}
                           \/ row.status = "returned" /\ inst[i].status = "in_progress"
    <3>2. \E row : Good(row)
      <4>1. CASE Chain!Open(i)
        <5>1. Good([status |-> "in_progress", step |-> 1])
          BY <4>1 DEF Chain!Open, Chain!Undecided, Chain!Active, Active
        <5>2. QED
          BY <5>1
      <4>2. CASE Chain!Grant(i)
        <5>1. inst[i].status \in Active
          BY <4>2 DEF Chain!Grant, Chain!Undecided, Chain!Active, Active
        <5>2. PICK next : inst' = [inst EXCEPT ![i] =
                  [status |-> IF next = Chain!NoStep THEN "approved" ELSE "in_progress",
                   step |-> next]]
          BY <4>2 DEF Chain!Grant
        <5>3. Good([status |-> IF next = Chain!NoStep THEN "approved" ELSE "in_progress",
                    step |-> next])
          BY <5>1, <5>2
        <5>4. QED
          BY <5>3
      <4>3. CASE Chain!Refuse(i)
        <5>1. Good([inst[i] EXCEPT !.status = "rejected"])
          BY <3>1, <4>3 DEF Chain!Refuse, Chain!Undecided, Chain!Active, Active
        <5>2. QED
          BY <5>1
      <4>4. CASE Chain!SendBack(i)
        <5>1. PICK t : inst' = [inst EXCEPT ![i] = [status |-> "returned", step |-> t]]
          BY <4>4 DEF Chain!SendBack
        <5>2. Good([status |-> "returned", step |-> t])
          BY <4>4, <5>1 DEF Chain!SendBack, Active
        <5>3. QED
          BY <5>2
      <4>5. CASE Chain!Withdraw(i)
        <5>1. Good([inst[i] EXCEPT !.status = "cancelled"])
          BY <3>1, <4>5 DEF Chain!Withdraw, Chain!Undecided, Chain!Active, Active
        <5>2. QED
          BY <5>1
      <4>6. QED
        BY <2>2, <4>1, <4>2, <4>3, <4>4, <4>5
    <3>3. QED
      BY <3>1, <3>2, RecordSees DEF SerialInv
  <2>3. QED
    BY <2>1, <2>2, ChainStep DEF Chain!ChainNext
<1>3. QED
  BY <1>1, <1>2, SerialAlways, PTL DEF Spec, ServesRecords, PerRecord!ApprovalSpec

-----------------------------------------------------------------------------
(* The trail and the events, whatever races                                *)

(* A check writes no row, no action and no event.                          *)
LEMMA CheckWritesNothing ==
    ASSUME NEW r \in Requests, CheckStep(r)
    PROVE  UNCHANGED <<inst, log, outbox, published>> /\ Idle(r)
BY DEF CheckStep, CheckStart, CheckApprove, CheckReject, CheckReturn, CheckCancel, Accept

\* TrailExplainsRow, for one instance.
Explained(i) ==
    IF log[i] = <<>>
    THEN inst[i] = [status |-> "none", step |-> NoStep]
    ELSE /\ inst[i].status = StatusAfter(log[i][Len(log[i])])
         /\ \E k \in Moves(i) :
                /\ \A m \in Moves(i) : m <= k
                /\ inst[i].step = log[i][k].to

(* The transaction appends the action that explains the row it writes.     *)
LEMMA CommitExplains ==
    ASSUME Inv, TrailExplainsRow, NEW r \in Requests, CommitStep(r)
    PROVE  TrailExplainsRow'
<1>1. PICK w \in Work, i \in Instances :
        /\ w = work[r] /\ i = w.inst /\ SoundWork(w)
        /\ inst' = [inst EXCEPT ![i] = RowAfter(w)]
        /\ log' = [log EXCEPT ![i] = Append(@, w)]
  BY CommitWrites
<1>2. /\ log[i] \in Seq(Work) /\ Len(log[i]) \in Nat
      /\ inst \in [Instances -> [status : Statuses, step : Steps \cup {NoStep}]]
      /\ log \in [Instances -> Seq(Work)]
  BY LenProperties DEF Inv, TypeOK
<1> DEFINE L == Len(log[i])
<1>3. /\ Len(log'[i]) = L + 1 /\ log'[i][L + 1] = w /\ log'[i] # <<>>
      /\ \A k \in 1 .. L : log'[i][k] = log[i][k]
  <2>1. log'[i] = Append(log[i], w)
    BY <1>1, <1>2
  <2>2. QED
    BY <1>2, <2>1, AppendProperties, EmptySeq
<1>4. inst'[i].status = StatusAfter(w)
      /\ inst'[i].step = IF w.op \in {"rejected", "cancelled"} THEN inst[i].step ELSE w.to
  BY <1>1, <1>2 DEF RowAfter
<1>5. \A k : k \in Moves(i)' <=> \/ k \in Moves(i)
                                 \/ k = L + 1 /\ w.op \in {"started", "approved", "returned"}
  BY <1>2, <1>3 DEF Moves
<1>6. \A k \in Moves(i) : k \in 1 .. L
  BY DEF Moves
<1>7. \E k \in Moves(i)' : (\A m \in Moves(i)' : m <= k) /\ inst'[i].step = log'[i][k].to
  <2>1. CASE w.op \in {"started", "approved", "returned"}
    <3>1. L + 1 \in Moves(i)' /\ \A m \in Moves(i)' : m <= L + 1
      BY <1>2, <1>5, <1>6, <2>1
    <3>2. inst'[i].step = log'[i][L + 1].to
      BY <1>3, <1>4, <2>1
    <3>3. QED
      BY <3>1, <3>2
  <2>2. CASE w.op \in {"rejected", "cancelled"}
    <3>1. inst[i].status # "none"
      BY <1>1, <2>2 DEF SoundWork
    <3>2. log[i] # <<>>
      BY <3>1 DEF TrailExplainsRow
    <3>3. PICK k \in Moves(i) : (\A m \in Moves(i) : m <= k) /\ inst[i].step = log[i][k].to
      BY <3>2 DEF TrailExplainsRow
    <3>4. k \in Moves(i)' /\ \A m \in Moves(i)' : m <= k
      BY <1>5, <2>2, <3>3
    <3>5. inst'[i].step = log'[i][k].to
      BY <1>3, <1>4, <1>6, <2>2, <3>3
    <3>6. QED
      BY <3>4, <3>5
  <2>3. QED
    BY <2>1, <2>2 DEF Work, Ops
<1>8. Explained(i)'
  BY <1>3, <1>4, <1>7 DEF Explained
<1>9. ASSUME NEW j \in Instances, j # i PROVE Explained(j)'
  <2>1. inst'[j] = inst[j] /\ log'[j] = log[j]
    BY <1>1, <1>2, <1>9
  <2>2. Explained(j)
    BY DEF TrailExplainsRow, Explained
  <2>3. QED
    BY <2>1, <2>2 DEF Explained, Moves
<1>10. \A j \in Instances : Explained(j)'
  BY <1>8, <1>9
<1>11. QED
  BY <1>10 DEF TrailExplainsRow, Explained

(* However requests race and wherever they are cut off, the rows are what  *)
(* the append-only trail says.                                             *)
THEOREM TrailAlwaysExplains == Spec => []TrailExplainsRow
<1>1. Init => TrailExplainsRow
  BY DEF Init, TrailExplainsRow
<1>2. Inv /\ TrailExplainsRow /\ [Next]_vars => TrailExplainsRow'
  <2> SUFFICES ASSUME Inv, TrailExplainsRow, [Next]_vars PROVE TrailExplainsRow'
    OBVIOUS
  <2>1. ASSUME UNCHANGED <<inst, log>> PROVE TrailExplainsRow'
    BY <2>1 DEF TrailExplainsRow, Moves
  <2>2. ASSUME NEW r \in Requests, CheckStep(r) \/ Publish(r) \/ CutOff(r)
        PROVE  UNCHANGED <<inst, log>>
    BY <2>2, CheckWritesNothing DEF Publish, CutOff
  <2>3. QED
    BY <2>1, <2>2, CommitExplains DEF Next, vars
<1>3. QED
  BY <1>1, <1>2, InvInductive, PTL DEF Spec

\* The event of an instance that reports its action c.
Told(i, c, name) == [name |-> name, inst |-> i, cause |-> c]

IsPublished(i, e) == \E n \in 1 .. Len(published[i]) : published[i][n] = e

\* Two requests never announce the same action.
OwnAction ==
    \A p, q \in Requests : p # q /\ outbox[p] # <<>> /\ outbox[q] # <<>> =>
        Head(outbox[p]).inst # Head(outbox[q]).inst \/ Head(outbox[p]).cause # Head(outbox[q]).cause

\* What a request still has to announce happened, was not announced yet,
\* and is announced in the order of the code.
Announces(r, i, c, name) ==
    /\ c \in 1 .. Len(log[i])
    /\ Reports(name, log[i][c]) /\ ~IsPublished(i, Told(i, c, name))
    /\ \/ /\ outbox[r] = <<Told(i, c, name)>>
          /\ name = "approved" => IsPublished(i, Told(i, c, "stepApproved"))
       \/ /\ outbox[r] = <<Told(i, c, name), Told(i, c, "approved")>>
          /\ name = "stepApproved"
          /\ Reports("approved", log[i][c]) /\ ~IsPublished(i, Told(i, c, "approved"))

Announcing ==
    \A r \in Requests : outbox[r] # <<>> =>
        \E i \in Instances, c \in Nat, name \in EventNames : Announces(r, i, c, name)

EventsInv == EventsReportCommits /\ OwnAction /\ Announcing

(* The events of an action: its own, and for the last approval two.        *)
LEMMA EventsOfAction ==
    ASSUME NEW w \in Work, NEW c \in Nat
    PROVE  /\ w.op = "approved" /\ w.to = NoStep =>
                 EventsOf(w, c) = <<Told(w.inst, c, "stepApproved"), Told(w.inst, c, "approved")>>
           /\ w.op = "approved" /\ w.to # NoStep =>
                 EventsOf(w, c) = <<Told(w.inst, c, "stepApproved")>>
           /\ w.op # "approved" => EventsOf(w, c) = <<Told(w.inst, c, w.op)>>
<1>1. CASE w.op = "approved" /\ w.to = NoStep
  <2>1. EventNamesOf(w) = <<"stepApproved", "approved">>
    BY <1>1 DEF EventNamesOf
  <2>2. EventsOf(w, c) = [n \in 1 .. 2 |->
            [name |-> <<"stepApproved", "approved">>[n], inst |-> w.inst, cause |-> c]]
    BY <2>1 DEF EventsOf
  <2>3. QED
    BY <1>1, <2>2 DEF Told
<1>2. CASE w.op = "approved" /\ w.to # NoStep
  <2>1. EventNamesOf(w) = <<"stepApproved">>
    BY <1>2 DEF EventNamesOf
  <2>2. EventsOf(w, c) = [n \in 1 .. 1 |->
            [name |-> <<"stepApproved">>[n], inst |-> w.inst, cause |-> c]]
    BY <2>1 DEF EventsOf
  <2>3. QED
    BY <1>2, <2>2 DEF Told
<1>3. CASE w.op # "approved"
  <2>1. EventNamesOf(w) = <<w.op>>
    BY <1>3 DEF EventNamesOf
  <2>2. EventsOf(w, c) = [n \in 1 .. 1 |-> [name |-> <<w.op>>[n], inst |-> w.inst, cause |-> c]]
    BY <2>1 DEF EventsOf
  <2>3. QED
    BY <1>3, <2>2 DEF Told
<1>4. QED
  BY <1>1, <1>2, <1>3

(* Every event already published is about an action in the trail.          *)
LEMMA PublishedBefore ==
    ASSUME TypeOK, EventsReportCommits, NEW i \in Instances, NEW e, IsPublished(i, e)
    PROVE  e.cause \in 1 .. Len(log[i])
BY DEF EventsReportCommits, IsPublished

(* A transaction puts the events of its own action in its outbox.          *)
LEMMA CommitKeepsEvents ==
    ASSUME Inv, EventsInv, NEW r \in Requests, CommitStep(r)
    PROVE  EventsInv'
<1>1. PICK w \in Work, i \in Instances :
        /\ w = work[r] /\ i = w.inst
        /\ log' = [log EXCEPT ![i] = Append(@, w)]
  BY CommitWrites
<1>2. /\ log[i] \in Seq(Work) /\ Len(log[i]) \in Nat
      /\ log \in [Instances -> Seq(Work)] /\ outbox \in [Requests -> Seq(Event)]
  BY LenProperties DEF Inv, TypeOK
<1>3. PICK c \in Nat : c = Len(log[i]) + 1
  BY <1>2
<1>4. outbox' = [outbox EXCEPT ![r] = EventsOf(w, c)] /\ published' = published
  BY <1>1, <1>3 DEF CommitStep, CommitStart, CommitApprove, CommitReject, CommitReturn,
     CommitCancel, Commit
<1>5. /\ Len(log'[i]) = c /\ log'[i][c] = w
      /\ \A k \in 1 .. Len(log[i]) : log'[i][k] = log[i][k]
  <2>1. log'[i] = Append(log[i], w)
    BY <1>1, <1>2
  <2>2. QED
    BY <1>2, <1>3, <2>1, AppendProperties
<1>6. \A j \in Instances, k \in Nat : k \in 1 .. Len(log[j]) =>
        /\ k \in 1 .. Len(log'[j]) /\ log'[j][k] = log[j][k]
        /\ j = i => k # c
  <2>1. TAKE j \in Instances, k \in Nat
  <2>2. CASE j = i
    BY <1>2, <1>3, <1>5, <2>2
  <2>3. CASE j # i
    BY <1>1, <1>2, <2>3
  <2>4. QED
    BY <2>2, <2>3
<1>7. EventsReportCommits'
  <2> SUFFICES ASSUME NEW j \in Instances, NEW n \in 1 .. Len(published[j])
               PROVE  LET e == published[j][n] IN
                      /\ e.cause \in 1 .. Len(log'[j])
                      /\ Reports(e.name, log'[j][e.cause])
                      /\ \A m \in 1 .. n - 1 : published[j][m] # e
                      /\ e.name = "approved" =>
                            \E m \in 1 .. n - 1 :
                                published[j][m] = [e EXCEPT !.name = "stepApproved"]
    BY <1>4 DEF EventsReportCommits
  <2>1. published[j][n].cause \in 1 .. Len(log[j])
    BY DEF EventsInv, EventsReportCommits
  <2>2. PICK k \in Nat : k = published[j][n].cause /\ k \in 1 .. Len(log[j])
    BY <2>1
  <2>3. k \in 1 .. Len(log'[j]) /\ log'[j][k] = log[j][k]
    BY <1>6, <2>2
  <2>4. QED
    BY <2>2, <2>3 DEF EventsInv, EventsReportCommits
<1>8. \A name : ~IsPublished(i, Told(i, c, name))
  BY <1>2, <1>3, PublishedBefore DEF Inv, EventsInv, Told
<1>9. \A j \in Instances : \A e : IsPublished(j, e)' <=> IsPublished(j, e)
  BY <1>4 DEF IsPublished
<1>10. \E name \in EventNames : Announces(r, i, c, name)' /\ Head(outbox'[r]) = Told(i, c, name)
  <2>1. c \in 1 .. Len(log'[i])
    BY <1>3, <1>2, <1>5
  <2>2. outbox'[r] = EventsOf(w, c)
    BY <1>2, <1>4
  <2>3. CASE w.op = "approved" /\ w.to = NoStep
    <3>1. outbox'[r] = <<Told(i, c, "stepApproved"), Told(i, c, "approved")>>
      BY <1>1, <2>2, <2>3, EventsOfAction
    <3>2. Reports("stepApproved", log'[i][c]) /\ Reports("approved", log'[i][c])
      BY <1>5, <2>3 DEF Reports
    <3>3. Announces(r, i, c, "stepApproved")'
      BY <1>8, <1>9, <2>1, <3>1, <3>2 DEF Announces
    <3>4. Head(outbox'[r]) = Told(i, c, "stepApproved")
      BY <3>1
    <3>5. QED
      BY <3>3, <3>4 DEF EventNames
  <2>4. CASE ~(w.op = "approved" /\ w.to = NoStep)
    <3>1. PICK name \in EventNames :
            /\ outbox'[r] = <<Told(i, c, name)>> /\ name # "approved"
            /\ Reports(name, log'[i][c])
      <4>1. CASE w.op = "approved"
        <5>1. outbox'[r] = <<Told(i, c, "stepApproved")>>
          BY <1>1, <2>2, <2>4, <4>1, EventsOfAction
        <5>2. QED
          BY <1>5, <4>1, <5>1 DEF Reports, EventNames
      <4>2. CASE w.op # "approved"
        <5>1. outbox'[r] = <<Told(i, c, w.op)>>
          BY <1>1, <2>2, <4>2, EventsOfAction
        <5>2. w.op \in EventNames /\ w.op # "stepApproved"
          BY <4>2 DEF EventNames, Work, Ops
        <5>3. Reports(w.op, log'[i][c])
          BY <1>5, <4>2, <5>2 DEF Reports
        <5>4. QED
          BY <4>2, <5>1, <5>2, <5>3
      <4>3. QED
        BY <4>1, <4>2
    <3>2. Announces(r, i, c, name)'
      BY <1>8, <1>9, <2>1, <3>1 DEF Announces
    <3>3. Head(outbox'[r]) = Told(i, c, name)
      BY <3>1
    <3>4. QED
      BY <3>2, <3>3
  <2>5. QED
    BY <2>3, <2>4
<1>11. ASSUME NEW q \in Requests, q # r, outbox'[q] # <<>>
       PROVE  /\ outbox'[q] = outbox[q]
              /\ \E j \in Instances, k \in Nat, name \in EventNames :
                    /\ Announces(q, j, k, name)'
                    /\ Head(outbox[q]) = Told(j, k, name)
                    /\ j # i \/ k # c
  <2>1. outbox'[q] = outbox[q] /\ outbox[q] # <<>>
    BY <1>2, <1>4, <1>11
  <2>2. PICK j \in Instances, k \in Nat, name \in EventNames : Announces(q, j, k, name)
    BY <2>1 DEF EventsInv, Announcing
  <2>3. k \in 1 .. Len(log[j])
    BY <2>2 DEF Announces
  <2>4. k \in 1 .. Len(log'[j]) /\ log'[j][k] = log[j][k] /\ (j # i \/ k # c)
    BY <1>6, <2>3
  <2>5. Announces(q, j, k, name)'
    BY <1>9, <2>1, <2>2, <2>4 DEF Announces
  <2>6. Head(outbox[q]) = Told(j, k, name)
    BY <2>2 DEF Announces
  <2>7. QED
    BY <2>1, <2>4, <2>5, <2>6
<1>12. Announcing'
  BY <1>3, <1>10, <1>11 DEF Announcing
<1>13. OwnAction'
  <2>1. Head(outbox'[r]).inst = i /\ Head(outbox'[r]).cause = c
    BY <1>10 DEF Told
  <2>2. ASSUME NEW q \in Requests, q # r, outbox'[q] # <<>>
        PROVE  Head(outbox'[q]).inst # i \/ Head(outbox'[q]).cause # c
    <3>1. PICK j \in Instances, k \in Nat, name \in EventNames :
            Head(outbox'[q]) = Told(j, k, name) /\ (j # i \/ k # c)
      BY <1>11, <2>2
    <3>2. QED
      BY <3>1 DEF Told
  <2>3. ASSUME NEW p \in Requests, NEW q \in Requests, p # q, p # r, q # r,
               outbox'[p] # <<>>, outbox'[q] # <<>>
        PROVE  \/ Head(outbox'[p]).inst # Head(outbox'[q]).inst
               \/ Head(outbox'[p]).cause # Head(outbox'[q]).cause
    BY <1>11, <2>3 DEF EventsInv, OwnAction
  <2>4. QED
    BY <2>1, <2>2, <2>3 DEF OwnAction
<1>14. QED
  BY <1>7, <1>12, <1>13 DEF EventsInv

(* A request announces the first of its events, for the first time.        *)
LEMMA PublishKeepsEvents ==
    ASSUME Inv, EventsInv, NEW r \in Requests, Publish(r)
    PROVE  EventsInv'
<1>1. PICK i \in Instances, c \in Nat, name \in EventNames : Announces(r, i, c, name)
  BY DEF EventsInv, Announcing, Publish
<1> DEFINE e == Told(i, c, name)
<1>2. /\ Head(outbox[r]) = e /\ e.inst = i /\ e.cause = c /\ e.name = name /\ e \in Event
  BY <1>1 DEF Announces, Told, Event
<1>3. /\ published' = [published EXCEPT ![i] = Append(@, e)]
      /\ outbox' = [outbox EXCEPT ![r] = Tail(@)]
      /\ log' = log
  BY <1>2 DEF Publish
<1> HIDE DEF e
<1>4. /\ published \in [Instances -> Seq(Event)] /\ published[i] \in Seq(Event)
      /\ Len(published[i]) \in Nat /\ outbox \in [Requests -> Seq(Event)]
  BY LenProperties DEF Inv, TypeOK
<1> DEFINE N == Len(published[i]) + 1
<1>5. /\ Len(published'[i]) = N /\ published'[i][N] = e
      /\ \A n \in 1 .. Len(published[i]) : published'[i][n] = published[i][n]
      /\ \A j \in Instances \ {i} : published'[j] = published[j]
  <2>1. published'[i] = Append(published[i], e)
    BY <1>3, <1>4
  <2>2. \A j \in Instances \ {i} : published'[j] = published[j]
    BY <1>3, <1>4
  <2>3. QED
    BY <1>2, <1>4, <2>1, <2>2, AppendProperties
<1>6. ASSUME NEW j \in Instances, NEW x
      PROVE  IsPublished(j, x)' <=> IsPublished(j, x) \/ (j = i /\ x = e)
  <2>1. CASE j # i
    BY <1>5, <2>1 DEF IsPublished
  <2>2. CASE j = i
    <3>1. \A n : n \in 1 .. N <=> n \in 1 .. Len(published[i]) \/ n = N
      BY <1>4
    <3>2. IsPublished(i, x)' <=> \E n \in 1 .. N : published'[i][n] = x
      BY <1>5 DEF IsPublished
    <3>3. QED
      BY <1>5, <2>2, <3>1, <3>2 DEF IsPublished
  <2>3. QED
    BY <2>1, <2>2
<1>7. /\ c \in 1 .. Len(log[i]) /\ Reports(name, log[i][c]) /\ ~IsPublished(i, e)
      /\ name = "approved" => IsPublished(i, Told(i, c, "stepApproved"))
  BY <1>1 DEF Announces, e
<1>8. EventsReportCommits'
  <2> DEFINE Good(j, n, pub) ==
               LET x == pub[n] IN
               /\ x.cause \in 1 .. Len(log[j])
               /\ Reports(x.name, log[j][x.cause])
               /\ \A m \in 1 .. n - 1 : pub[m] # x
               /\ x.name = "approved" =>
                     \E m \in 1 .. n - 1 : pub[m] = [x EXCEPT !.name = "stepApproved"]
  <2>1. \A j \in Instances : \A n \in 1 .. Len(published[j]) : Good(j, n, published[j])
    BY DEF EventsInv, EventsReportCommits
  <2>2. \A n \in 1 .. Len(published[i]) : Good(i, n, published'[i])
    <3>1. \A n \in 1 .. Len(published[i]) : \A m \in 1 .. n - 1 : m \in 1 .. Len(published[i])
      BY <1>4
    <3>2. TAKE n \in 1 .. Len(published[i])
    <3>3. published'[i][n] = published[i][n]
      BY <1>5
    <3>4. \A m \in 1 .. n - 1 : published'[i][m] = published[i][m]
      BY <1>5, <3>1
    <3>5. Good(i, n, published[i])
      BY <2>1
    <3>6. QED
      BY <3>3, <3>4, <3>5
  <2>3. Good(i, N, published'[i])
    <3>1. \A m \in 1 .. N - 1 : published'[i][m] # e
      BY <1>4, <1>5, <1>7 DEF IsPublished
    <3>2. name = "approved" =>
            \E m \in 1 .. N - 1 : published'[i][m] = [e EXCEPT !.name = "stepApproved"]
      <4>1. [e EXCEPT !.name = "stepApproved"] = Told(i, c, "stepApproved")
        BY DEF e, Told
      <4>2. SUFFICES ASSUME name = "approved"
                     PROVE  \E m \in 1 .. N - 1 : published'[i][m] = Told(i, c, "stepApproved")
        BY <4>1
      <4>3. PICK m \in 1 .. Len(published[i]) : published[i][m] = Told(i, c, "stepApproved")
        BY <1>7, <4>2 DEF IsPublished
      <4>4. m \in 1 .. N - 1 /\ published'[i][m] = Told(i, c, "stepApproved")
        BY <1>4, <1>5, <4>3
      <4>5. QED
        BY <4>4
    <3>3. QED
      BY <1>2, <1>5, <1>7, <3>1, <3>2
  <2>4. \A n \in 1 .. N : Good(i, n, published'[i])
    <3>1. \A n \in 1 .. N : n \in 1 .. Len(published[i]) \/ n = N
      BY <1>4
    <3>2. QED
      BY <2>2, <2>3, <3>1
  <2> HIDE DEF Good
  <2>5. \A j \in Instances \ {i} : \A n \in 1 .. Len(published'[j]) : Good(j, n, published'[j])
    BY <1>5, <2>1
  <2>6. \A j \in Instances : \A n \in 1 .. Len(published'[j]) : Good(j, n, published'[j])
    BY <1>5, <2>4, <2>5
  <2>7. QED
    BY <1>3, <2>6 DEF EventsReportCommits, Good
<1>9. outbox'[r] # <<>> =>
        Announces(r, i, c, "approved")' /\ Head(outbox'[r]) = Told(i, c, "approved")
  <2> SUFFICES ASSUME outbox'[r] # <<>>
               PROVE  Announces(r, i, c, "approved")' /\ Head(outbox'[r]) = Told(i, c, "approved")
    OBVIOUS
  <2>1. outbox'[r] = Tail(outbox[r])
    BY <1>3, <1>4
  <2>2. /\ outbox[r] = <<Told(i, c, name), Told(i, c, "approved")>> /\ name = "stepApproved"
        /\ Reports("approved", log[i][c]) /\ ~IsPublished(i, Told(i, c, "approved"))
    <3>1. \A x : Tail(<<x>>) = <<>>
      OBVIOUS
    <3>2. outbox[r] # <<Told(i, c, name)>>
      BY <2>1, <3>1
    <3>3. QED
      BY <1>1, <3>2 DEF Announces
  <2>3. outbox'[r] = <<Told(i, c, "approved")>>
    BY <2>1, <2>2
  <2>4. Told(i, c, "approved") # e
    BY <2>2 DEF Told, e
  <2>5. /\ ~IsPublished(i, Told(i, c, "approved"))'
        /\ IsPublished(i, Told(i, c, "stepApproved"))'
    <3>1. e = Told(i, c, "stepApproved")
      BY <2>2 DEF e
    <3>2. QED
      BY <1>6, <2>2, <2>4, <3>1
  <2>6. Announces(r, i, c, "approved")'
    BY <1>3, <1>7, <2>2, <2>3, <2>5 DEF Announces
  <2>7. QED
    BY <2>3, <2>6
<1>10. ASSUME NEW q \in Requests, q # r, outbox'[q] # <<>>
       PROVE  /\ outbox'[q] = outbox[q]
              /\ \E j \in Instances, k \in Nat, n \in EventNames : Announces(q, j, k, n)'
              /\ Head(outbox[q]).inst # i \/ Head(outbox[q]).cause # c
  <2>1. outbox'[q] = outbox[q] /\ outbox[q] # <<>>
    BY <1>3, <1>4, <1>10
  <2>2. PICK j \in Instances, k \in Nat, n \in EventNames : Announces(q, j, k, n)
    BY <2>1 DEF EventsInv, Announcing
  <2>3. Head(outbox[q]).inst = j /\ Head(outbox[q]).cause = k
    BY <2>2 DEF Announces, Told
  <2>4. j # i \/ k # c
    BY <1>2, <1>10, <2>1, <2>3 DEF EventsInv, OwnAction, Publish
  <2>5. \A any : Told(j, k, any) # e \/ j # i
    BY <1>2, <2>4 DEF Told
  <2>6. Announces(q, j, k, n)'
    <3>1. \A any : IsPublished(j, Told(j, k, any))' <=> IsPublished(j, Told(j, k, any))
      BY <1>6, <2>5
    <3>2. QED
      BY <1>3, <2>1, <2>2, <3>1 DEF Announces
  <2>7. QED
    BY <2>1, <2>3, <2>4, <2>6
<1>11. Announcing'
  BY <1>9, <1>10 DEF Announcing, EventNames
<1>12. OwnAction'
  <2>1. outbox'[r] # <<>> => Head(outbox'[r]).inst = i /\ Head(outbox'[r]).cause = c
    BY <1>9 DEF Told
  <2>2. QED
    BY <1>10, <2>1 DEF OwnAction, EventsInv
<1>13. QED
  BY <1>8, <1>11, <1>12 DEF EventsInv

(* However requests race and wherever they are cut off, what is announced  *)
(* happened, and is announced once and in order.                           *)
THEOREM EventsAlwaysReport == Spec => []EventsReportCommits
<1>1. Init => EventsInv
  <2> SUFFICES ASSUME Init PROVE EventsInv
    OBVIOUS
  <2>1. /\ \A i \in Instances : published[i] = <<>> /\ Len(published[i]) = 0
        /\ \A r \in Requests : outbox[r] = <<>>
    BY DEF Init
  <2>2. QED
    BY <2>1 DEF EventsInv, EventsReportCommits, OwnAction, Announcing
<1>2. Inv /\ EventsInv /\ [Next]_vars => EventsInv'
  <2> SUFFICES ASSUME Inv, EventsInv, [Next]_vars PROVE EventsInv'
    OBVIOUS
  <2>1. ASSUME UNCHANGED <<log, published>>,
               \A q \in Requests : outbox'[q] = outbox[q] \/ outbox'[q] = <<>>
        PROVE  EventsInv'
    <3>1. EventsReportCommits'
      BY <2>1 DEF EventsInv, EventsReportCommits
    <3>2. OwnAction'
      BY <2>1 DEF EventsInv, OwnAction
    <3>3. \A q \in Requests, j \in Instances, k \in Nat, n \in EventNames :
            outbox'[q] = outbox[q] /\ Announces(q, j, k, n) => Announces(q, j, k, n)'
      BY <2>1 DEF Announces, IsPublished
    <3>4. Announcing'
      BY <2>1, <3>3 DEF EventsInv, Announcing
    <3>5. QED
      BY <3>1, <3>2, <3>4 DEF EventsInv
  <2>2. ASSUME NEW r \in Requests, CheckStep(r) PROVE EventsInv'
    BY <2>1, <2>2, CheckWritesNothing
  <2>3. ASSUME NEW r \in Requests, CutOff(r) PROVE EventsInv'
    <3>1. \A q \in Requests : outbox'[q] = outbox[q] \/ outbox'[q] = <<>>
      BY <2>3 DEF CutOff, Inv, TypeOK
    <3>2. QED
      BY <2>1, <2>3, <3>1 DEF CutOff
  <2>4. CASE UNCHANGED vars
    BY <2>1, <2>4 DEF vars
  <2>5. QED
    BY <2>2, <2>3, <2>4, CommitKeepsEvents, PublishKeepsEvents DEF Next
<1>3. EventsInv => EventsReportCommits
  BY DEF EventsInv
<1>4. QED
  BY <1>1, <1>2, <1>3, InvInductive, PTL DEF Spec

-----------------------------------------------------------------------------
(* The mails that tell of a workflow instance *)

RowStatuses == {"none", "pending", "sent", "read", "failed"}

JobStages == {"none", "waiting", "send", "record", "complete", "done", "dead"}

IsSingle(to) == \E u : to = {u}

IsHandler(h) ==
    /\ h = [at |-> h.at, kind |-> h.kind, actor |-> h.actor, key |-> h.key, to |-> h.to,
            todo |-> h.todo]
    /\ h.at = "enqueue" => IsSingle(h.to)

HandlersTyped ==
    /\ handlers = [q \in Calls |-> handlers[q]]
    /\ \A q \in Calls : handlers[q] # NoHandler => IsHandler(handlers[q])

\* The handler has created the row of a mail and is about to enqueue its job.
Enqueues(q, n) ==
    /\ handlers[q] # NoHandler /\ handlers[q].at = "enqueue"
    /\ \E u : handlers[q].to = {u} /\ n = <<handlers[q].key, u, "email">>

\* A mail has one row, one handler that enqueues its job, and one job; what was
\* mailed shows in the row, or the job is about to record it.
Settled(n) ==
    /\ jobs[n].at = "send" => mails[n] = 0
    /\ jobs[n].at = "record" => mails[n] = 1
    /\ mails[n] = 1 => jobs[n].at = "record" \/ rows[n].status \in {"sent", "read"}
    /\ rows[n].status = "none" => jobs[n].at = "none"
    /\ \A q \in Calls : Enqueues(q, n) =>
          /\ jobs[n].at = "none" /\ rows[n].status # "none"
          /\ \A p \in Calls : Enqueues(p, n) => p = q

MailTypes ==
    /\ rows \in [Ids -> [status : RowStatuses, seen : BOOLEAN]]
    /\ \A n \in Ids : rows[n].status = "none" => ~rows[n].seen
    /\ jobs \in [Mails -> [at : JobStages, tries : Nat, stalls : Nat]]
    /\ mails \in [Mails -> {0, 1}]

MailInv == HandlersTyped /\ MailTypes /\ \A n \in Mails : Settled(n)

(* A handler moves: the others are where they were.                        *)
LEMMA HandlerMoves ==
    ASSUME HandlersTyped, NEW q \in Calls, NEW h, h = NoHandler \/ IsHandler(h),
           handlers' = [handlers EXCEPT ![q] = h]
    PROVE  /\ HandlersTyped' /\ handlers'[q] = h
           /\ \A p \in Calls \ {q} : handlers'[p] = handlers[p]
<1>1. /\ handlers' = [p \in Calls |-> handlers'[p]] /\ handlers'[q] = h
      /\ \A p \in Calls \ {q} : handlers'[p] = handlers[p]
  BY DEF HandlersTyped
<1>2. ASSUME NEW p \in Calls, handlers'[p] # NoHandler PROVE IsHandler(handlers'[p])
  <2>1. CASE p = q
    BY <1>1, <1>2, <2>1
  <2>2. CASE p # q
    <3>1. handlers'[p] = handlers[p]
      BY <1>1, <2>2
    <3>2. QED
      BY <1>2, <3>1 DEF HandlersTyped
  <2>3. QED
    BY <2>1, <2>2
<1>3. QED
  BY <1>1, <1>2 DEF HandlersTyped

(* A mail stays settled when its row, its job and its count stay, and      *)
(* nobody new is about to enqueue it.                                      *)
LEMMA StaysSettled ==
    ASSUME NEW n \in Mails, Settled(n),
           rows'[n] = rows[n], jobs'[n] = jobs[n], mails'[n] = mails[n],
           \A q \in Calls : Enqueues(q, n)' => Enqueues(q, n)
    PROVE  Settled(n)'
BY DEF Settled

(* A handler that moves leaves the mails settled, unless it goes on to     *)
(* enqueue a job.                                                          *)
LEMMA QuietHandler ==
    ASSUME MailInv, NEW q \in Calls, NEW h, h = NoHandler \/ IsHandler(h),
           h = NoHandler \/ h.at # "enqueue",
           handlers' = [handlers EXCEPT ![q] = h], rows' = rows, jobs' = jobs, mails' = mails
    PROVE  MailInv'
<1>1. /\ HandlersTyped' /\ handlers'[q] = h
      /\ \A p \in Calls \ {q} : handlers'[p] = handlers[p]
  BY HandlerMoves DEF MailInv
<1>2. ASSUME NEW n \in Mails, NEW p \in Calls, Enqueues(p, n)' PROVE Enqueues(p, n)
  BY <1>1, <1>2 DEF Enqueues
<1>3. \A n \in Mails : Settled(n)'
  BY <1>2, StaysSettled DEF MailInv
<1>4. QED
  BY <1>1, <1>3 DEF MailInv, MailTypes

(* A handler that ends leaves the mails settled.                           *)
LEMMA DoneKeepsMails ==
    ASSUME MailInv, NEW q \in Calls, Done(q),
           rows' = rows, jobs' = jobs, mails' = mails
    PROVE  MailInv'
<1>. DEFINE h == NoHandler
<1>1. h = NoHandler /\ handlers' = [handlers EXCEPT ![q] = h]
  BY DEF Done
<1>. HIDE DEF h
<1>2. QED
  BY <1>1, QuietHandler

Assigned(q, at, key, to, todo) ==
    handlers' = [handlers EXCEPT ![q].at = at, ![q].key = key, ![q].to = to, ![q].todo = todo]

(* What a handler becomes when its stage, key and lists are assigned.      *)
LEMMA FieldsMove ==
    ASSUME HandlersTyped, NEW q \in Calls, handlers[q] # NoHandler,
           NEW at, NEW key, NEW to, NEW todo, at = "enqueue" => IsSingle(to),
           Assigned(q, at, key, to, todo)
    PROVE  \E h : /\ handlers' = [handlers EXCEPT ![q] = h] /\ IsHandler(h)
                  /\ h.at = at /\ h.key = key /\ h.to = to /\ h.todo = todo
<1>1. PICK at0, kind, actor, key0, to0, todo0 :
          handlers[q] = [at |-> at0, kind |-> kind, actor |-> actor, key |-> key0, to |-> to0,
                         todo |-> todo0]
  BY DEF HandlersTyped, IsHandler
<1>. DEFINE H(a, k, t, d) == [at |-> a, kind |-> kind, actor |-> actor, key |-> k, to |-> t,
                              todo |-> d]
<1>2. [H(at0, key0, to0, todo0) EXCEPT !.at = at] = H(at, key0, to0, todo0)
  OBVIOUS
<1>3. [H(at, key0, to0, todo0) EXCEPT !.key = key] = H(at, key, to0, todo0)
  OBVIOUS
<1>4. [H(at, key, to0, todo0) EXCEPT !.to = to] = H(at, key, to, todo0)
  OBVIOUS
<1>5. [H(at, key, to, todo0) EXCEPT !.todo = todo] = H(at, key, to, todo)
  OBVIOUS
<1>6. IsHandler(H(at, key, to, todo))
  BY DEF IsHandler
<1>7. H(at, key, to, todo).at = at /\ H(at, key, to, todo).key = key
      /\ H(at, key, to, todo).to = to /\ H(at, key, to, todo).todo = todo
  OBVIOUS
<1>8. handlers[q] = H(at0, key0, to0, todo0)
  BY <1>1
<1>. HIDE DEF H
<1>9. /\ handlers' = [p \in Calls |-> handlers'[p]]
      /\ \A p \in Calls \ {q} : handlers'[p] = handlers[p]
      /\ handlers'[q] = [[[[handlers[q] EXCEPT !.at = at] EXCEPT !.key = key] EXCEPT !.to = to]
                            EXCEPT !.todo = todo]
  BY DEF HandlersTyped, Assigned
<1>10. handlers'[q] = H(at, key, to, todo)
  <2>1. [handlers[q] EXCEPT !.at = at] = H(at, key0, to0, todo0)
    BY <1>2, <1>8
  <2>2. handlers'[q] = [[[H(at, key0, to0, todo0) EXCEPT !.key = key] EXCEPT !.to = to]
                          EXCEPT !.todo = todo]
    BY <1>9, <2>1
  <2>3. handlers'[q] = [[H(at, key, to0, todo0) EXCEPT !.to = to] EXCEPT !.todo = todo]
    BY <1>3, <2>2
  <2>4. QED
    BY <1>4, <1>5, <2>3
<1>11. handlers' = [handlers EXCEPT ![q] = H(at, key, to, todo)]
  BY <1>9, <1>10 DEF HandlersTyped
<1>12. QED
  BY <1>6, <1>7, <1>11

(* Events, and the steps of a handler before it writes anything.           *)
LEMMA ReadingKeepsMails ==
    ASSUME MailInv, NEW q \in Calls,
           \/ Start(q) \/ ApproveStep(q) \/ ApproveLast(q) \/ Reject(q) \/ Return(q)
           \/ Load(q) \/ Look(q) \/ HandlerCutOff(q)
    PROVE  MailInv'
<1>1. ASSUME NEW kind, NEW actor, Announce(q, kind, actor) PROVE MailInv'
  <2>. DEFINE h == [at |-> "load", kind |-> kind, actor |-> actor,
                    key |-> <<kind, 0>>, to |-> {}, todo |-> {}]
  <2>1. IsHandler(h) /\ h.at # "enqueue"
    BY DEF IsHandler
  <2>2. /\ handlers' = [handlers EXCEPT ![q] = h]
        /\ rows' = rows /\ jobs' = jobs /\ mails' = mails
    BY <1>1 DEF Announce, mailVars
  <2>. HIDE DEF h
  <2>3. QED
    BY <2>1, <2>2, QuietHandler
<1>2. CASE Start(q) \/ ApproveStep(q) \/ ApproveLast(q) \/ Reject(q) \/ Return(q)
  BY <1>1, <1>2 DEF Start, ApproveStep, ApproveLast, Reject, Return
<1>3. Done(q) /\ rows' = rows /\ jobs' = jobs /\ mails' = mails => MailInv'
  BY DoneKeepsMails
<1>4. ASSUME NEW at, NEW key, NEW to, NEW todo, at # "enqueue", handlers[q] # NoHandler,
             Assigned(q, at, key, to, todo), rows' = rows, jobs' = jobs, mails' = mails
      PROVE  MailInv'
  <2>1. PICK h : /\ handlers' = [handlers EXCEPT ![q] = h] /\ IsHandler(h)
                 /\ h.at = at
    BY <1>4, FieldsMove DEF MailInv
  <2>2. QED
    BY <1>4, <2>1, QuietHandler
<1>5. CASE Load(q)
  <2>1. rows' = rows /\ jobs' = jobs /\ mails' = mails /\ handlers[q] # NoHandler
    BY <1>5 DEF Load, At, mailVars
  <2>2. CASE Done(q)
    BY <1>3, <2>1, <2>2
  <2>3. CASE ~Done(q)
    <3>1. PICK key, to : handlers' = [handlers EXCEPT ![q].at = "look", ![q].key = key,
                                                      ![q].to = to]
      BY <1>5, <2>3 DEF Load
    <3>2. Assigned(q, "look", key, to, handlers[q].todo)
      BY <2>1, <3>1 DEF MailInv, HandlersTyped, IsHandler, Assigned
    <3>3. QED
      BY <1>4, <2>1, <3>2
  <2>4. QED
    BY <2>2, <2>3
<1>6. CASE Look(q)
  <2>1. rows' = rows /\ jobs' = jobs /\ mails' = mails /\ handlers[q] # NoHandler
    BY <1>6 DEF Look, At, mailVars
  <2>2. CASE Done(q)
    BY <1>3, <2>1, <2>2
  <2>3. CASE ~Done(q)
    <3>1. PICK todo : handlers' = [handlers EXCEPT ![q].at = "row", ![q].todo = todo]
      BY <1>6, <2>3 DEF Look
    <3>2. Assigned(q, "row", handlers[q].key, handlers[q].to, todo)
      BY <2>1, <3>1 DEF MailInv, HandlersTyped, IsHandler, Assigned
    <3>3. QED
      BY <1>4, <2>1, <3>2
  <2>4. QED
    BY <2>2, <2>3
<1>7. CASE HandlerCutOff(q)
  BY <1>3, <1>7 DEF HandlerCutOff, mailVars
<1>8. QED
  BY <1>2, <1>5, <1>6, <1>7

(* The row of a notification is created: a mail then has a row, and one    *)
(* handler that is about to enqueue its job.                               *)
LEMMA CreateRowKeepsMails ==
    ASSUME MailInv, NEW q \in Calls, CreateRow(q)
    PROVE  MailInv'
<1>. DEFINE h == handlers[q]
<1>1. h # NoHandler /\ h.at = "row" /\ jobs' = jobs /\ mails' = mails
  BY DEF CreateRow, At, mailVars
<1>2. PICK p \in h.todo :
          IF rows[<<h.key, p[1], p[2]>>] # NoRow THEN Done(q) /\ UNCHANGED rows
          ELSE /\ rows' = [rows EXCEPT ![<<h.key, p[1], p[2]>>].status =
                                IF p[2] = "email" THEN "pending" ELSE "sent"]
               /\ Proceed(q, p)
  BY DEF CreateRow
<1>. PICK new : new = <<h.key, p[1], p[2]>>
  OBVIOUS
<1>3. CASE rows[new] # NoRow
  <2>1. Done(q) /\ rows' = rows
    BY <1>2, <1>3
  <2>2. QED
    BY <1>1, <2>1, DoneKeepsMails
<1>4. CASE rows[new] = NoRow
  <2>1. rows' = [rows EXCEPT ![new].status = IF p[2] = "email" THEN "pending" ELSE "sent"]
        /\ Proceed(q, p)
    BY <1>2, <1>4
  <2>2. PICK g : /\ handlers' = [handlers EXCEPT ![q] = g] /\ (g = NoHandler \/ IsHandler(g))
                 /\ \/ g = NoHandler
                    \/ g.at = "row"
                    \/ g.at = "enqueue" /\ g.key = h.key /\ g.to = {p[1]} /\ p[2] = "email"
    <3>1. CASE p[2] = "email"
      <4>. PICK to : to = {p[1]}
        OBVIOUS
      <4>1. Assigned(q, "enqueue", h.key, to, h.todo \ {p})
        BY <1>1, <2>1, <3>1 DEF Proceed, MailInv, HandlersTyped, IsHandler, Assigned
      <4>2. IsSingle(to)
        BY DEF IsSingle
      <4>3. PICK g : /\ handlers' = [handlers EXCEPT ![q] = g] /\ IsHandler(g)
                     /\ g.at = "enqueue" /\ g.key = h.key /\ g.to = to
        BY <1>1, <4>1, <4>2, FieldsMove DEF MailInv
      <4>4. QED
        BY <3>1, <4>3
    <3>2. CASE p[2] # "email" /\ h.todo = {p}
      BY <2>1, <3>2 DEF Proceed, Done
    <3>3. CASE p[2] # "email" /\ h.todo # {p}
      <4>1. Assigned(q, "row", h.key, h.to, h.todo \ {p})
        BY <1>1, <2>1, <3>3 DEF Proceed, MailInv, HandlersTyped, IsHandler, Assigned
      <4>2. QED
        BY <1>1, <4>1, FieldsMove DEF MailInv
    <3>4. QED
      BY <3>1, <3>2, <3>3
  <2>3. /\ HandlersTyped' /\ handlers'[q] = g
        /\ \A r \in Calls \ {q} : handlers'[r] = handlers[r]
    BY <2>2, HandlerMoves DEF MailInv
  <2>4. MailTypes'
    BY <1>1, <1>4, <2>1 DEF MailInv, MailTypes, RowStatuses, NoRow
  <2>5. ASSUME NEW n \in Mails, n # new PROVE Settled(n)'
    <3>1. rows'[n] = rows[n]
      BY <2>1, <2>5 DEF MailInv, MailTypes, Mails
    <3>2. ASSUME NEW r \in Calls, Enqueues(r, n)' PROVE Enqueues(r, n)
      BY <2>2, <2>3, <2>5, <3>2 DEF Enqueues
    <3>3. QED
      BY <1>1, <3>1, <3>2, StaysSettled DEF MailInv
  <2>6. ASSUME new \in Mails PROVE Settled(new)'
    <3>1. p[2] = "email" /\ new \in Ids
      BY <2>6 DEF Mails
    <3>2. rows[new].status = "none" /\ rows'[new].status = "pending"
      BY <1>4, <2>1, <3>1 DEF MailInv, MailTypes, NoRow
    <3>3. \A r \in Calls : ~Enqueues(r, new)
      BY <2>6, <3>2 DEF MailInv, Settled
    <3>4. ASSUME NEW r \in Calls, Enqueues(r, new)' PROVE r = q
      BY <2>3, <3>3, <3>4 DEF Enqueues
    <3>5. jobs'[new].at = "none" /\ mails'[new] = mails[new]
      BY <1>1, <2>6, <3>2 DEF MailInv, Settled
    <3>6. mails[new] # 1
      BY <1>1, <2>6, <3>2, <3>5 DEF MailInv, Settled
    <3>7. QED
      BY <3>2, <3>4, <3>5, <3>6 DEF Settled
  <2>7. QED
    BY <2>3, <2>4, <2>5, <2>6 DEF MailInv
<1>5. QED
  BY <1>3, <1>4

(* The job of a mail is enqueued, or is not; the handler is done with it.  *)
LEMMA EnqueueKeepsMails ==
    ASSUME MailInv, NEW q \in Calls, Enqueue(q)
    PROVE  MailInv'
<1>. DEFINE h == handlers[q]
<1>. PICK n : n = <<h.key, CHOOSE u \in h.to : TRUE, "email">>
  OBVIOUS
<1>1. h # NoHandler /\ h.at = "enqueue" /\ rows' = rows /\ mails' = mails
  BY DEF Enqueue, At
<1>2. jobs' = [jobs EXCEPT ![n] = Job("waiting", 0, 0)] \/ jobs' = jobs
  BY DEF Enqueue
<1>3. PICK g : /\ handlers' = [handlers EXCEPT ![q] = g] /\ (g = NoHandler \/ IsHandler(g))
               /\ g = NoHandler \/ g.at = "row"
  <2>1. CASE h.todo = {}
    BY <2>1 DEF Enqueue, Done
  <2>2. CASE h.todo # {}
    <3>1. Assigned(q, "row", h.key, {}, h.todo)
      BY <1>1, <2>2 DEF Enqueue, MailInv, HandlersTyped, IsHandler, Assigned
    <3>2. QED
      BY <1>1, <3>1, FieldsMove DEF MailInv
  <2>3. QED
    BY <2>1, <2>2
<1>4. /\ HandlersTyped' /\ handlers'[q] = g
      /\ \A r \in Calls \ {q} : handlers'[r] = handlers[r]
  BY <1>3, HandlerMoves DEF MailInv
<1>5. Enqueues(q, n)
  <2>1. PICK u : h.to = {u}
    BY <1>1 DEF MailInv, HandlersTyped, IsHandler, IsSingle
  <2>2. (CHOOSE v \in h.to : TRUE) = u
    BY <2>1
  <2>3. QED
    BY <1>1, <2>1, <2>2 DEF Enqueues
<1>6. MailTypes'
  <2>1. jobs \in [Mails -> [at : JobStages, tries : Nat, stalls : Nat]]
    BY DEF MailInv, MailTypes
  <2>2. Job("waiting", 0, 0) \in [at : JobStages, tries : Nat, stalls : Nat]
    BY DEF JobStages, Job
  <2>3. jobs' \in [Mails -> [at : JobStages, tries : Nat, stalls : Nat]]
    BY <1>2, <2>1, <2>2
  <2>4. QED
    BY <1>1, <2>3 DEF MailInv, MailTypes
<1>7. ASSUME NEW m, NEW r \in Calls, Enqueues(r, m)' PROVE r # q /\ Enqueues(r, m)
  BY <1>3, <1>4, <1>7 DEF Enqueues
<1>8. ASSUME NEW m \in Mails, m # n PROVE Settled(m)'
  <2>1. jobs'[m] = jobs[m]
    BY <1>2, <1>8 DEF MailInv, MailTypes
  <2>2. QED
    BY <1>1, <1>7, <2>1, StaysSettled DEF MailInv
<1>9. ASSUME n \in Mails PROVE Settled(n)'
  <2>1. \A r \in Calls : ~Enqueues(r, n)'
    BY <1>5, <1>7, <1>9 DEF MailInv, Settled
  <2>2. jobs[n].at = "none" /\ rows[n].status # "none"
    BY <1>5, <1>9 DEF MailInv, Settled
  <2>3. jobs'[n].at \in {"none", "waiting"}
    BY <1>2, <1>9, <2>2 DEF MailInv, MailTypes, Job
  <2>4. QED
    BY <1>1, <1>9, <2>1, <2>2, <2>3 DEF MailInv, Settled
<1>10. QED
  BY <1>4, <1>6, <1>8, <1>9 DEF MailInv

(* A step on one notification keeps the mails settled when it keeps the    *)
(* types and settles that one.                                             *)
LEMMA OneNotification ==
    ASSUME MailInv, NEW n \in Ids, handlers' = handlers, MailTypes',
           \A m \in Mails \ {n} :
               rows'[m] = rows[m] /\ jobs'[m] = jobs[m] /\ mails'[m] = mails[m],
           n \in Mails =>
               /\ jobs'[n].at = "send" => mails'[n] = 0
               /\ jobs'[n].at = "record" => mails'[n] = 1
               /\ mails'[n] = 1 => jobs'[n].at = "record" \/ rows'[n].status \in {"sent", "read"}
               /\ rows'[n].status = "none" => rows[n].status = "none" /\ jobs'[n].at = "none"
               /\ jobs[n].at = "none" => jobs'[n].at = "none"
    PROVE  MailInv'
<1>1. HandlersTyped' /\ \A q \in Calls : \A m : Enqueues(q, m)' <=> Enqueues(q, m)
  BY DEF MailInv, HandlersTyped, Enqueues
<1>2. \A m \in Mails \ {n} : Settled(m)'
  BY <1>1, StaysSettled DEF MailInv
<1>3. n \in Mails => Settled(n)'
  BY <1>1 DEF MailInv, Settled
<1>4. QED
  BY <1>1, <1>2, <1>3 DEF MailInv

(* A row is read.                                                          *)
LEMMA ReadKeepsMails ==
    ASSUME MailInv, NEW n \in Ids, Read(n)
    PROVE  MailInv'
<1>1. /\ rows' = [rows EXCEPT ![n] = [status |-> "read", seen |-> TRUE]]
      /\ handlers' = handlers /\ jobs' = jobs /\ mails' = mails /\ rows[n] # NoRow
  BY DEF Read, mailVars
<1>2. rows[n].status # "none"
  BY <1>1 DEF MailInv, MailTypes, NoRow
<1>3. MailTypes'
  BY <1>1 DEF MailInv, MailTypes, RowStatuses
<1>4. rows'[n].status = "read" /\ \A m \in Ids \ {n} : rows'[m] = rows[m]
  BY <1>1 DEF MailInv, MailTypes
<1>5. \A m \in Mails : m \in Ids
  BY DEF Mails
<1>6. QED
  BY <1>1, <1>2, <1>3, <1>4, <1>5, OneNotification DEF MailInv, Settled

(* The worker and the queue: a job is taken only when its row does not     *)
(* tell of a mail, and a mail that is not recorded is forgotten.           *)
LEMMA WorkerKeepsMails ==
    ASSUME MailInv, NEW n \in Mails,
           \/ Take(n) \/ SendMail(n) \/ Record(n) \/ Complete(n)
           \/ Fail(n) \/ Stall(n) \/ MarkFailed(n)
    PROVE  MailInv'
<1>1. n \in Ids /\ \A m \in Mails : m \in Ids
  BY DEF Mails
<1>2. /\ jobs[n].at = "send" => mails[n] = 0
      /\ jobs[n].at = "record" => mails[n] = 1
      /\ mails[n] = 1 => jobs[n].at = "record" \/ rows[n].status \in {"sent", "read"}
      /\ rows[n].status = "none" => jobs[n].at = "none"
      /\ mails[n] \in {0, 1} /\ jobs[n] \in [at : JobStages, tries : Nat, stalls : Nat]
      /\ rows[n] \in [status : RowStatuses, seen : BOOLEAN]
      /\ rows[n].status = "none" => ~rows[n].seen
  BY <1>1 DEF MailInv, Settled, MailTypes
<1>3. CASE Take(n)
  <2>1. /\ handlers' = handlers /\ rows' = rows /\ mails' = mails /\ jobs[n].at = "waiting"
        /\ jobs' = [jobs EXCEPT ![n] = IF rows[n].status \in {"sent", "read"}
                                       THEN Job("done", 0, 0)
                                       ELSE [jobs[n] EXCEPT !.at = "send"]]
    BY <1>3 DEF Take
  <2>2. MailTypes'
    BY <1>2, <2>1 DEF MailInv, MailTypes, JobStages, Job
  <2>3. /\ jobs'[n].at = IF rows[n].status \in {"sent", "read"} THEN "done" ELSE "send"
        /\ \A m \in Mails \ {n} : jobs'[m] = jobs[m]
    BY <1>2, <2>1 DEF MailInv, MailTypes, Job
  <2>4. QED
    BY <1>1, <1>2, <2>1, <2>2, <2>3, OneNotification
<1>4. CASE SendMail(n)
  <2>1. /\ handlers' = handlers /\ rows' = rows /\ jobs[n].at = "send"
        /\ mails' = [mails EXCEPT ![n] = mails[n] + 1]
        /\ jobs' = [jobs EXCEPT ![n].at = "record"]
    BY <1>4 DEF SendMail
  <2>2. MailTypes'
    BY <1>2, <2>1 DEF MailInv, MailTypes, JobStages
  <2>3. /\ jobs'[n].at = "record" /\ mails'[n] = 1
        /\ \A m \in Mails \ {n} : jobs'[m] = jobs[m] /\ mails'[m] = mails[m]
    BY <1>2, <2>1 DEF MailInv, MailTypes
  <2>4. QED
    BY <1>1, <1>2, <2>1, <2>2, <2>3, OneNotification
<1>5. CASE Record(n)
  <2>1. /\ handlers' = handlers /\ mails' = mails /\ jobs[n].at = "record"
        /\ rows' = [rows EXCEPT ![n].status = "sent"]
        /\ jobs' = [jobs EXCEPT ![n].at = "complete"]
    BY <1>5 DEF Record
  <2>2. MailTypes'
    BY <1>1, <1>2, <2>1 DEF MailInv, MailTypes, JobStages, RowStatuses
  <2>3. /\ jobs'[n].at = "complete" /\ rows'[n].status = "sent"
        /\ \A m \in Mails \ {n} : jobs'[m] = jobs[m] /\ rows'[m] = rows[m]
    BY <1>1, <1>2, <2>1 DEF MailInv, MailTypes
  <2>4. QED
    BY <1>1, <1>2, <2>1, <2>2, <2>3, OneNotification
<1>6. CASE Complete(n)
  <2>1. /\ handlers' = handlers /\ rows' = rows /\ mails' = mails /\ jobs[n].at = "complete"
        /\ jobs' = [jobs EXCEPT ![n] = Job("done", 0, 0)]
    BY <1>6 DEF Complete
  <2>2. MailTypes'
    BY <1>2, <2>1 DEF MailInv, MailTypes, JobStages, Job
  <2>3. /\ jobs'[n].at = "done" /\ \A m \in Mails \ {n} : jobs'[m] = jobs[m]
    BY <2>1 DEF MailInv, MailTypes, Job
  <2>4. QED
    BY <1>1, <1>2, <2>1, <2>2, <2>3, OneNotification
<1>7. CASE Fail(n) \/ Stall(n)
  <2>1. PICK tries \in Nat, stalls \in Nat, at \in {"waiting", "dead"} :
            jobs' = [jobs EXCEPT ![n] = Job(at, tries, stalls)]
    <3>. /\ jobs[n].tries \in Nat /\ jobs[n].tries + 1 \in Nat
         /\ jobs[n].stalls \in Nat /\ 0 \in Nat /\ 1 \in Nat
      BY <1>2
    <3>1. CASE Fail(n)
      <4>1. CASE jobs[n].tries + 1 < MaxAttempts
        BY <3>1, <4>1 DEF Fail
      <4>2. CASE ~(jobs[n].tries + 1 < MaxAttempts)
        BY <3>1, <4>2 DEF Fail
      <4>3. QED
        BY <4>1, <4>2
    <3>2. CASE Stall(n)
      <4>1. CASE jobs[n].stalls = 0
        BY <3>2, <4>1 DEF Stall
      <4>2. CASE jobs[n].stalls # 0
        BY <3>2, <4>2 DEF Stall
      <4>3. QED
        BY <4>1, <4>2
    <3>3. QED
      BY <1>7, <3>1, <3>2
  <2>2. /\ handlers' = handlers /\ rows' = rows
        /\ jobs[n].at \in {"send", "record", "complete"}
        /\ mails' = [mails EXCEPT ![n] = IF jobs[n].at = "record" THEN mails[n] - 1 ELSE mails[n]]
    BY <1>7 DEF Fail, Stall, Forget
  <2>3. MailTypes'
    BY <1>2, <2>1, <2>2 DEF MailInv, MailTypes, JobStages, Job
  <2>4. /\ jobs'[n].at \in {"waiting", "dead"}
        /\ mails'[n] = IF jobs[n].at = "record" THEN 0 ELSE mails[n]
        /\ \A m \in Mails \ {n} : jobs'[m] = jobs[m] /\ mails'[m] = mails[m]
    BY <1>2, <2>1, <2>2 DEF MailInv, MailTypes, Job
  <2>5. QED
    BY <1>1, <1>2, <2>2, <2>3, <2>4, OneNotification
<1>8. CASE MarkFailed(n)
  <2>1. handlers' = handlers /\ jobs' = jobs
    BY <1>8 DEF MarkFailed
  <2>2. CASE rows' = rows /\ mails' = mails
    <3>1. MailTypes'
      BY <2>1, <2>2 DEF MailInv, MailTypes
    <3>2. QED
      BY <1>1, <1>2, <2>1, <2>2, <3>1, OneNotification
  <2>3. CASE ~(rows' = rows /\ mails' = mails)
    <3>1. /\ rows' = [rows EXCEPT ![n].status = "failed"]
          /\ mails' = [mails EXCEPT ![n] = IF /\ rows[n].status \in {"sent", "read"}
                                              /\ jobs[n].at # "record" /\ mails[n] > 0
                                           THEN mails[n] - 1 ELSE mails[n]]
      BY <1>8, <2>3 DEF MarkFailed
    <3>2. MailTypes'
      BY <1>1, <1>2, <2>1, <3>1 DEF MailInv, MailTypes, RowStatuses
    <3>3. /\ rows'[n].status = "failed"
          /\ mails'[n] = IF /\ rows[n].status \in {"sent", "read"}
                            /\ jobs[n].at # "record" /\ mails[n] > 0
                         THEN mails[n] - 1 ELSE mails[n]
          /\ \A m \in Mails \ {n} : rows'[m] = rows[m] /\ mails'[m] = mails[m]
      BY <1>1, <1>2, <3>1 DEF MailInv, MailTypes
    <3>4. QED
      BY <1>1, <1>2, <2>1, <3>2, <3>3, OneNotification
  <2>4. QED
    BY <2>2, <2>3
<1>9. QED
  BY <1>3, <1>4, <1>5, <1>6, <1>7, <1>8

(* Nothing has been mailed at first.                                       *)
LEMMA MailsInit == NotifyInit => MailInv
<1>. SUFFICES ASSUME NotifyInit PROVE MailInv
  OBVIOUS
<1>1. HandlersTyped
  BY DEF NotifyInit, HandlersTyped
<1>2. \A q \in Calls : handlers[q] = NoHandler
  BY DEF NotifyInit
<1>3. MailTypes
  BY DEF NotifyInit, MailTypes, RowStatuses, JobStages, NoRow, Job
<1>4. ASSUME NEW n \in Mails PROVE Settled(n)
  <2>1. jobs[n].at = "none" /\ mails[n] = 0
    BY DEF NotifyInit, Job
  <2>2. \A q \in Calls : ~Enqueues(q, n)
    BY <1>2 DEF Enqueues
  <2>3. QED
    BY <2>1, <2>2 DEF Settled
<1>5. QED
  BY <1>1, <1>3, <1>4 DEF MailInv

(* Every step keeps the mails settled.                                     *)
LEMMA MailsNext == MailInv /\ [NotifyNext]_notifyVars => MailInv'
<1>. SUFFICES ASSUME MailInv, [NotifyNext]_notifyVars PROVE MailInv'
  OBVIOUS
<1>1. CASE NotifyNext
  BY <1>1, ReadingKeepsMails, CreateRowKeepsMails, EnqueueKeepsMails, ReadKeepsMails,
     WorkerKeepsMails DEF NotifyNext
<1>2. CASE UNCHANGED notifyVars
  <2>1. handlers' = handlers /\ rows' = rows /\ jobs' = jobs /\ mails' = mails
    BY <1>2 DEF notifyVars, mailVars
  <2>2. \A q \in Calls : \A n : Enqueues(q, n)' <=> Enqueues(q, n)
    BY <2>1 DEF Enqueues
  <2>3. QED
    BY <2>1, <2>2, StaysSettled DEF MailInv, HandlersTyped, MailTypes
<1>3. QED
  BY <1>1, <1>2

(* However handlers race, attempts fail, workers die and users read, a     *)
(* notification is mailed again only when its row no longer tells of the   *)
(* mail before (notify, processEmailJob and the listener of "failed").     *)
THEOREM MailedAtMostOnce == NotifySpec => []MailedOnce
<1>1. MailInv => MailedOnce
  BY DEF MailInv, MailTypes, MailedOnce
<1>2. QED
  BY <1>1, MailsInit, MailsNext, PTL DEF NotifySpec


\* The columns of the instance.
InstanceTyped ==
    instance = [status |-> instance.status, step |-> instance.step]

(* The instance the notifications are about is one of those the engine     *)
(* serves: what is told of it are the steps a record sees (emit in         *)
(* steps.ts and instances.ts).                                             *)
THEOREM NoticesTellOfEngine == NotifySpec => TellsOfEngine
<1>1. NotifyInit => InstanceTyped /\ Engine!ApprovalInit
  BY DEF NotifyInit, InstanceTyped, Running, Engine!ApprovalInit
<1>2. ASSUME InstanceTyped, [NotifyNext]_notifyVars
      PROVE  InstanceTyped' /\ [Engine!ApprovalNext]_Engine!approvalVars
  <2>1. ASSUME instance' = instance
        PROVE  InstanceTyped' /\ [Engine!ApprovalNext]_Engine!approvalVars
    BY <1>2, <2>1 DEF InstanceTyped, Running, Engine!approvalVars
  <2>2. ASSUME NEW q \in Calls, Start(q)
        PROVE  InstanceTyped' /\ Engine!Begun("record")
    BY <2>2 DEF Start, InstanceTyped, Running, Engine!Begun, Engine!MoveTo
  <2>3. ASSUME NEW q \in Calls, ApproveStep(q)
        PROVE  InstanceTyped' /\ (Engine!GoneOn("record") \/ UNCHANGED Engine!approvalVars)
    BY <2>3 DEF ApproveStep, InstanceTyped, Running, Engine!GoneOn, Engine!MoveTo, Engine!approvalVars
  <2>4. ASSUME NEW q \in Calls, ApproveLast(q)
        PROVE  InstanceTyped' /\ Engine!Approved("record")
    BY <2>4 DEF ApproveLast, InstanceTyped, Running, Engine!Approved, Engine!MoveTo
  <2>5. ASSUME NEW q \in Calls, Reject(q)
        PROVE  InstanceTyped' /\ Engine!Dismissed("record")
    <3>1. /\ instance' = [instance EXCEPT !.status = "rejected"]
          /\ instance.status \in {"in_progress", "returned"}
      BY <2>5 DEF Reject, Running
    <3>2. instance' = [status |-> "rejected", step |-> instance.step]
      BY <1>2, <3>1 DEF InstanceTyped
    <3>3. QED
      BY <3>1, <3>2 DEF InstanceTyped, Running, Engine!Dismissed, Engine!MoveTo
  <2>6. ASSUME NEW q \in Calls, Return(q)
        PROVE  InstanceTyped' /\ Engine!SentBack("record")
    BY <2>6 DEF Return, InstanceTyped, Running, Engine!SentBack, Engine!MoveTo
  <2>7. ASSUME NEW q \in Calls, Load(q) \/ Look(q) \/ CreateRow(q) \/ Enqueue(q) \/ HandlerCutOff(q)
        PROVE  instance' = instance
    BY <2>7 DEF Load, Look, CreateRow, Enqueue, HandlerCutOff, engineVars
  <2>8. ASSUME NEW n \in Ids, Read(n) PROVE instance' = instance
    BY <2>8 DEF Read, engineVars
  <2>9. ASSUME NEW n \in Mails, \/ Take(n) \/ SendMail(n) \/ Record(n) \/ Complete(n)
                                \/ Fail(n) \/ Stall(n) \/ MarkFailed(n)
        PROVE  instance' = instance
    BY <2>9 DEF Take, SendMail, Record, Complete, Fail, Stall, MarkFailed, engineVars
  <2>10. CASE UNCHANGED notifyVars
    BY <2>1, <2>10 DEF notifyVars, engineVars
  <2>11. QED
    BY <1>2, <2>1, <2>2, <2>3, <2>4, <2>5, <2>6, <2>7, <2>8, <2>9, <2>10
       DEF NotifyNext, Engine!ApprovalNext
<1>3. QED
  BY <1>1, <1>2, PTL DEF NotifySpec, TellsOfEngine, Engine!ApprovalSpec

-----------------------------------------------------------------------------
(* The types of the notifications *)

Kinds == {"started", "stepApproved", "approved", "rejected", "returned"}

InstanceRows == [status : {"none", "in_progress", "returned", "approved", "rejected"},
                 step : 0..Last]

HandlerRows == [at : {"load", "look", "row", "enqueue"}, kind : Kinds, actor : Recipients,
                key : Kinds \X (0..Last), to : SUBSET Recipients,
                todo : SUBSET (Recipients \X Channels)]

\* A handler that has loaded the instance has a key of it.
Keyed(h) == h \in HandlerRows /\ (h.at # "load" => h.key \in Keys)

NotifyTypes ==
    /\ instance \in InstanceRows
    /\ Running => instance.step # 0
    /\ handlers = [q \in Calls |-> handlers[q]]
    /\ \A q \in Calls : handlers[q] # NoHandler => Keyed(handlers[q])
    /\ marks \in [Mails -> Nat]
    /\ events \in Nat

(* A handler moves on, or ends.                                            *)
LEMMA KeyedMoves ==
    ASSUME NotifyTypes, NEW q \in Calls, NEW h, h = NoHandler \/ Keyed(h),
           handlers' = [handlers EXCEPT ![q] = h],
           UNCHANGED <<instance, marks, events>>
    PROVE  NotifyTypes'
<1>1. handlers' = [p \in Calls |-> handlers'[p]]
  BY DEF NotifyTypes
<1>2. ASSUME NEW p \in Calls, handlers'[p] # NoHandler PROVE Keyed(handlers'[p])
  BY <1>2 DEF NotifyTypes
<1>3. QED
  BY <1>1, <1>2 DEF NotifyTypes, Running, Keyed

(* An event is published with the transaction of a step of the engine.     *)
LEMMA AnnounceTyped ==
    ASSUME NotifyTypes, NEW q \in Calls, NEW kind \in Kinds, NEW actor \in Recipients,
           Announce(q, kind, actor),
           instance' \in InstanceRows, Running' => instance'.step # 0
    PROVE  NotifyTypes'
<1> DEFINE h == [at |-> "load", kind |-> kind, actor |-> actor, key |-> <<kind, 0>>,
                 to |-> {}, todo |-> {}]
<1>1. Keyed(h)
  BY StepsAssumption DEF Keyed, HandlerRows
<1>2. handlers' = [handlers EXCEPT ![q] = h] /\ marks' = marks /\ events' = events + 1
  BY DEF Announce, mailVars
<1> HIDE DEF h
<1>3. handlers' = [p \in Calls |-> handlers'[p]]
  BY <1>2 DEF NotifyTypes
<1>4. ASSUME NEW p \in Calls, handlers'[p] # NoHandler PROVE Keyed(handlers'[p])
  BY <1>1, <1>2, <1>4 DEF NotifyTypes
<1>5. QED
  BY <1>2, <1>3, <1>4 DEF NotifyTypes, Keyed

(* The engine shows an instance with a step wherever it is undecided.      *)
LEMMA EngineTyped ==
    ASSUME NotifyTypes, NEW q \in Calls,
           Start(q) \/ ApproveStep(q) \/ ApproveLast(q) \/ Reject(q) \/ Return(q)
    PROVE  NotifyTypes'
<1>1. Running => instance.step \in 1..Last /\ ApproverOf[instance.step] \in Recipients
  BY StepsAssumption DEF NotifyTypes, InstanceRows
<1>2. CASE Start(q)
  <2>1. instance' \in InstanceRows /\ instance'.step # 0
    BY <1>2, StepsAssumption DEF Start, InstanceRows
  <2>2. QED
    BY <1>2, <2>1, StepsAssumption, AnnounceTyped DEF Start, Kinds
<1>3. CASE ApproveStep(q)
  <2>1. instance' \in InstanceRows /\ instance'.step # 0
    BY <1>1, <1>3, StepsAssumption DEF ApproveStep, InstanceRows
  <2>2. QED
    BY <1>1, <1>3, <2>1, AnnounceTyped DEF ApproveStep, Kinds
<1>4. CASE ApproveLast(q)
  <2>1. instance' \in InstanceRows /\ ~Running'
    BY <1>4, StepsAssumption DEF ApproveLast, InstanceRows, Running
  <2>2. QED
    BY <1>1, <1>4, <2>1, AnnounceTyped DEF ApproveLast, Kinds
<1>5. CASE Reject(q)
  <2>1. instance' \in InstanceRows /\ ~Running'
    BY <1>5 DEF Reject, InstanceRows, Running, NotifyTypes
  <2>2. QED
    BY <1>1, <1>5, <2>1, AnnounceTyped DEF Reject, Kinds
<1>6. CASE Return(q)
  <2>1. Running
    BY <1>6 DEF Return, Running
  <2>2. instance' \in InstanceRows /\ instance'.step # 0
    BY <1>1, <1>6, <2>1, StepsAssumption DEF Return, InstanceRows
  <2>3. QED
    BY <1>1, <1>6, <2>1, <2>2, AnnounceTyped DEF Return, Kinds
<1>7. QED
  BY <1>2, <1>3, <1>4, <1>5, <1>6

(* Loading turns the step that is current into a key.                      *)
LEMMA LoadTyped ==
    ASSUME NotifyTypes, NEW q \in Calls, Load(q)
    PROVE  NotifyTypes'
<1> DEFINE stepwise == handlers[q].kind \in {"started", "stepApproved"}
           key == <<handlers[q].kind, IF stepwise THEN instance.step ELSE 0>>
           to == IF stepwise THEN {ApproverOf[instance.step]}
                 ELSE IF handlers[q].kind = "returned" THEN {Starter, handlers[q].actor} ELSE {Starter}
           h == [handlers[q] EXCEPT !.at = "look", !.key = key, !.to = to]
<1>1. handlers[q] \in HandlerRows /\ UNCHANGED <<instance, marks, events>>
  BY DEF Load, At, NotifyTypes, Keyed, engineVars, mailVars
<1>2. CASE stepwise /\ instance.step = 0
  BY <1>1, <1>2, KeyedMoves DEF Load, Done
<1>3. CASE ~(stepwise /\ instance.step = 0)
  <2>1. handlers' = [handlers EXCEPT ![q] = h]
    BY <1>3 DEF Load
  <2>2. instance.step \in 0..Last
    BY DEF NotifyTypes, InstanceRows
  <2>3. key \in Kinds \X (0..Last) /\ key \in Keys
    BY <1>1, <1>3, <2>2, StepsAssumption DEF HandlerRows, Kinds, Keys
  <2>4. to \subseteq Recipients
    BY <1>1, <1>3, <2>2, StepsAssumption DEF HandlerRows
  <2> HIDE DEF key, to
  <2>5. Keyed(h)
    BY <1>1, <2>3, <2>4 DEF Keyed, HandlerRows
  <2> HIDE DEF h
  <2>6. QED
    BY <1>1, <2>1, <2>5, KeyedMoves
<1>4. QED
  BY <1>2, <1>3

(* What is to be created is for users and channels.                        *)
LEMMA LookTyped ==
    ASSUME NotifyTypes, NEW q \in Calls, Look(q)
    PROVE  NotifyTypes'
<1> DEFINE todo == {p \in (handlers[q].to \X Channels) \ Muted :
                       rows[<<handlers[q].key, p[1], p[2]>>] = NoRow}
           h == [handlers[q] EXCEPT !.at = "row", !.todo = todo]
<1>1. Keyed(handlers[q]) /\ handlers[q].at = "look" /\ UNCHANGED <<instance, marks, events>>
  BY DEF Look, At, NotifyTypes, engineVars, mailVars
<1>2. todo \subseteq Recipients \X Channels
  BY <1>1 DEF Keyed, HandlerRows
<1>3. CASE Done(q)
  BY <1>1, <1>3, KeyedMoves DEF Done
<1>4. CASE handlers' = [handlers EXCEPT ![q] = h]
  <2> HIDE DEF todo
  <2>1. Keyed(h)
    BY <1>1, <1>2 DEF Keyed, HandlerRows
  <2> HIDE DEF h
  <2>2. QED
    BY <1>1, <1>4, <2>1, KeyedMoves
<1>5. QED
  BY <1>3, <1>4 DEF Look


(* The rest of what was to be created stays to be created.                 *)
LEMMA CreateRowTyped ==
    ASSUME NotifyTypes, NEW q \in Calls, CreateRow(q)
    PROVE  NotifyTypes'
<1>1. Keyed(handlers[q]) /\ handlers[q].at = "row" /\ UNCHANGED <<instance, marks, events>>
  BY DEF CreateRow, At, NotifyTypes, engineVars, mailVars
<1>2. CASE Done(q)
  BY <1>1, <1>2, KeyedMoves DEF Done
<1>3. ASSUME NEW p \in handlers[q].todo, Proceed(q, p), ~Done(q)
      PROVE  NotifyTypes'
  <2>1. p[1] \in Recipients /\ handlers[q].todo \ {p} \subseteq Recipients \X Channels
    BY <1>1 DEF Keyed, HandlerRows
  <2> DEFINE rest == handlers[q].todo \ {p}
             mailed == [handlers[q] EXCEPT !.at = "enqueue", !.to = {p[1]}, !.todo = rest]
             shown == [handlers[q] EXCEPT !.todo = rest]
  <2>2. handlers' = [handlers EXCEPT ![q] = mailed] \/ handlers' = [handlers EXCEPT ![q] = shown]
    BY <1>3 DEF Proceed
  <2> HIDE DEF rest
  <2>3. Keyed(mailed) /\ Keyed(shown)
    BY <1>1, <2>1 DEF Keyed, HandlerRows, rest
  <2> HIDE DEF mailed, shown
  <2>4. QED
    BY <1>1, <2>2, <2>3, KeyedMoves
<1>4. QED
  BY <1>2, <1>3 DEF CreateRow

(* After the job of a mail the handler goes on with the rows, if any.      *)
LEMMA EnqueueTyped ==
    ASSUME NotifyTypes, NEW q \in Calls, Enqueue(q)
    PROVE  NotifyTypes'
<1> DEFINE h == [handlers[q] EXCEPT !.at = "row", !.to = {}]
<1>1. Keyed(handlers[q]) /\ handlers[q].at = "enqueue" /\ UNCHANGED <<instance, marks, events>>
  BY DEF Enqueue, At, NotifyTypes, engineVars
<1>2. Keyed(h)
  BY <1>1 DEF Keyed, HandlerRows
<1>3. handlers' = [handlers EXCEPT ![q] = h] \/ Done(q)
  BY DEF Enqueue
<1> HIDE DEF h
<1>4. QED
  BY <1>1, <1>2, <1>3, KeyedMoves DEF Done

(* What the worker, the listener and the users do only counts marks.       *)
LEMMA WorkerTyped ==
    ASSUME NotifyTypes, NEW n \in Mails,
           \/ Take(n) \/ SendMail(n) \/ Record(n) \/ Complete(n) \/ Fail(n) \/ Stall(n)
           \/ MarkFailed(n)
    PROVE  NotifyTypes'
<1>1. UNCHANGED <<instance, events, handlers>>
  BY DEF Take, SendMail, Record, Complete, Fail, Stall, MarkFailed, engineVars
<1>2. \/ marks' = marks \/ marks' = [marks EXCEPT ![n] = marks[n] + 1]
      \/ marks[n] > 0 /\ marks' = [marks EXCEPT ![n] = marks[n] - 1]
  BY DEF Take, SendMail, Record, Complete, Fail, Stall, MarkFailed, NotifyTypes
<1>3. marks[n] \in Nat
  BY DEF NotifyTypes
<1>4. marks' \in [Mails -> Nat]
  BY <1>2, <1>3 DEF NotifyTypes
<1>5. QED
  BY <1>1, <1>4 DEF NotifyTypes, Running, Keyed

(* Every step keeps the types of the notifications.                        *)
LEMMA NotifyTyped == NotifyTypes /\ [NotifyNext]_notifyVars => NotifyTypes'
<1>. SUFFICES ASSUME NotifyTypes, [NotifyNext]_notifyVars PROVE NotifyTypes'
  OBVIOUS
<1>1. ASSUME UNCHANGED <<instance, events, handlers, marks>> PROVE NotifyTypes'
  BY <1>1 DEF NotifyTypes, Running, Keyed
<1>2. ASSUME NEW q \in Calls, HandlerCutOff(q) PROVE NotifyTypes'
  BY <1>2, KeyedMoves DEF HandlerCutOff, Done, engineVars, mailVars
<1>3. ASSUME NEW n \in Ids, Read(n) PROVE NotifyTypes'
  BY <1>1, <1>3 DEF Read, engineVars, mailVars
<1>4. CASE UNCHANGED notifyVars
  BY <1>1, <1>4 DEF notifyVars, engineVars, mailVars
<1>5. CASE NotifyNext
  BY <1>2, <1>3, <1>5, EngineTyped, LoadTyped, LookTyped, CreateRowTyped, EnqueueTyped,
     WorkerTyped DEF NotifyNext
<1>6. QED
  BY <1>4, <1>5

(* Every variable of the notifications keeps its type: each handler that   *)
(* has loaded the instance works on a key and on rows that exist.          *)
THEOREM NotificationsTypes == NotifySpec => [](NotifyTypes /\ MailTypes)
<1>1. NotifyInit => NotifyTypes
  <2>. SUFFICES ASSUME NotifyInit PROVE NotifyTypes
    OBVIOUS
  <2>1. instance \in InstanceRows /\ ~Running
    BY StepsAssumption DEF NotifyInit, InstanceRows, Running
  <2>2. QED
    BY <2>1 DEF NotifyInit, NotifyTypes
<1>2. MailInv => MailTypes
  BY DEF MailInv
<1>3. QED
  BY <1>1, <1>2, MailsInit, MailsNext, NotifyTyped, PTL DEF NotifySpec

=============================================================================
