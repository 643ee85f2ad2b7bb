--------------------------- MODULE ApprovalChain ---------------------------
(***************************************************************************)
(* What the workflow engine promises, without requests, transactions or    *)
(* events: each instance is a token that walks over the steps of its       *)
(* template, every decision is taken on the state it changes, a record has *)
(* at most one undecided instance and a decided instance is final.         *)
(* WorkflowEngine implements this when requests are served one at a time.  *)
(***************************************************************************)
EXTENDS WorkflowSteps

CONSTANTS
    Instances,      \* instance ids
    RecordOf        \* RecordOf[i]: the business record instance i is about

VARIABLES
    chain,          \* chain[i]: the status of i and the step it stands at
    granted         \* granted[i]: the steps of i somebody approved

chainVars == <<chain, granted>>

ChainInit ==
    /\ chain = [i \in Instances |-> [status |-> "none", step |-> NoStep]]
    /\ granted = [i \in Instances |-> {}]

Undecided(i) == chain[i].status \in Active

\* A record gets an instance only while it has no undecided one.
Open(i) ==
    /\ chain[i].status = "none"
    /\ \A j \in Instances : RecordOf[j] = RecordOf[i] => ~Undecided(j)
    /\ chain' = [chain EXCEPT ![i] = [status |-> "in_progress", step |-> 1]]
    /\ UNCHANGED granted

\* An approver of the step the instance stands at moves it forward.
Grant(i) ==
    LET s == chain[i].step IN
    /\ Undecided(i)
    /\ \E u \in Users : MayDecide(u, s)
    /\ \E next \in Steps \cup {NoStep} :
        /\ IsNextStep(s, next)
        /\ chain' = [chain EXCEPT ![i] =
              [status |-> IF next = NoStep THEN "approved" ELSE "in_progress",
               step |-> next]]
    /\ granted' = [granted EXCEPT ![i] = @ \cup {s}]

\* An approver of the current step ends the instance.
Refuse(i) ==
    /\ Undecided(i)
    /\ \E u \in Users : MayDecide(u, chain[i].step)
    /\ chain' = [chain EXCEPT ![i].status = "rejected"]
    /\ UNCHANGED granted

\* An approver of the current step sends the instance to an earlier one.
SendBack(i) ==
    /\ chain[i].status = "in_progress"
    /\ \E u \in Users : MayDecide(u, chain[i].step)
    /\ \E t \in Steps :
        /\ t < chain[i].step
        /\ chain' = [chain EXCEPT ![i] = [status |-> "returned", step |-> t]]
    /\ UNCHANGED granted

\* Anybody may withdraw an undecided instance.
Withdraw(i) ==
    /\ Undecided(i)
    /\ chain' = [chain EXCEPT ![i].status = "cancelled"]
    /\ UNCHANGED granted

ChainNext ==
    \E i \in Instances :
        Open(i) \/ Grant(i) \/ Refuse(i) \/ SendBack(i) \/ Withdraw(i)

ChainSpec == ChainInit /\ [][ChainNext]_chainVars

=============================================================================
