--------------------------- MODULE WorkflowSteps ---------------------------
(***************************************************************************)
(* The template a workflow instance runs on, as steps.ts sees it: an       *)
(* ordered list of steps 1 .. StepCount, some of them optional, each with  *)
(* an approver rule.  An instance keeps the template version it started    *)
(* with, so for the instances of one version all of this is constant.      *)
(***************************************************************************)
EXTENDS Naturals

CONSTANTS
    StepCount,      \* the number of steps of the template
    Optional,       \* the steps with isOptional = true
    Users,          \* the users who send requests
    Approvers       \* Approvers[s]: the users isValidApprover accepts at s

Steps == 1 .. StepCount

\* currentStepId = null
NoStep == 0

ASSUME StepCountAssumption == StepCount \in Nat \ {0}
ASSUME OptionalAssumption  == Optional \subseteq Steps
ASSUME ApproversAssumption == Approvers \in [Steps -> SUBSET Users]

Mandatory == Steps \ Optional

Later(s) == {k \in Steps : k > s}

\* findNextStep: the first later mandatory step; when only optional steps
\* are left, the first of them; when none is left, the workflow is complete.
IsNextStep(s, next) ==
    \/ /\ next \in Later(s) \ Optional
       /\ \A k \in Later(s) \ Optional : next <= k
    \/ /\ Later(s) \subseteq Optional
       /\ next \in Later(s)
       /\ \A k \in Later(s) : next <= k
    \/ /\ Later(s) = {}
       /\ next = NoStep

\* isValidApprover on the rule of step s
MayDecide(u, s) == u \in Approvers[s]

Active   == {"in_progress", "returned"}
Terminal == {"approved", "rejected", "cancelled"}

=============================================================================
