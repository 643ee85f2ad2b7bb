--------------------------- MODULE RecordApproval --------------------------
(***************************************************************************)
(* What the services of a record see of the workflow engine: a record has  *)
(* at most one undecided instance, which may be sent back once before it   *)
(* goes on, and which ends with an approval or without one. An approval is *)
(* never taken back. WorkflowEngine implements this for every record when  *)
(* requests are served one at a time; and whatever the modules that do     *)
(* without the engine's steps (Procurement, Commercial, Sourcing,          *)
(* Documents, Notifications) do to a workflow is a step of it.             *)
(***************************************************************************)
CONSTANT Records

VARIABLES
    undecided,      \* undecided[r]: the status of its undecided instance, or "none"
    approved        \* the records with an approved instance

approvalVars == <<undecided, approved>>

ApprovalInit ==
    /\ undecided = [r \in Records |-> "none"]
    /\ approved = {}

MoveTo(r, status) == undecided' = [undecided EXCEPT ![r] = status]

\* startInstance, unless the record has an undecided instance.
Begun(r) ==
    /\ undecided[r] = "none"
    /\ MoveTo(r, "in_progress")
    /\ UNCHANGED approved

\* A return, from where only an approval leads on.
SentBack(r) ==
    /\ undecided[r] = "in_progress"
    /\ MoveTo(r, "returned")
    /\ UNCHANGED approved

GoneOn(r) ==
    /\ undecided[r] = "returned"
    /\ MoveTo(r, "in_progress")
    /\ UNCHANGED approved

\* The approval of the last step.
Approved(r) ==
    /\ undecided[r] # "none"
    /\ MoveTo(r, "none")
    /\ approved' = approved \cup {r}

\* A rejection or a cancellation.
Dismissed(r) ==
    /\ undecided[r] # "none"
    /\ MoveTo(r, "none")
    /\ UNCHANGED approved

ApprovalNext ==
    \E r \in Records :
        Begun(r) \/ SentBack(r) \/ GoneOn(r) \/ Approved(r) \/ Dismissed(r)

ApprovalSpec == ApprovalInit /\ [][ApprovalNext]_approvalVars

=============================================================================
