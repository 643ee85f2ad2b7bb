----------------------------- MODULE MCWorkflow -----------------------------
(***************************************************************************)
(* Values for the constants of WorkflowEngine: a template of three steps   *)
(* whose middle one is optional (it is skipped going forward and reachable *)
(* by a return), an approver of the first and one of the last two steps.   *)
(***************************************************************************)
EXTENDS WorkflowEngine, TLC

CONSTANTS i1, i2, r1, r2, u1, u2, po

OneInstance  == i1 :> po
TwoInstances == i1 :> po @@ i2 :> po

TwoApprovers == <<{u1}, {u1, u2}, {u2}>>

=============================================================================
