---------------------------- MODULE BudgetControl ---------------------------
(***************************************************************************)
(* What a budget line promises: an order is committed and an invoice or    *)
(* expense spent once, and only when it was admitted before; what is       *)
(* committed is released only as far as there is any; credit notes reduce  *)
(* what is spent. Procurement implements this when calls come one at a     *)
(* time.                                                                   *)
(***************************************************************************)
EXTENDS Integers

CONSTANTS
    Orders, Spendings, Credits,     \* the records, by what they do to the line
    Amount                          \* the amount of each

VARIABLES
    admitted,       \* the orders and spendings that were approved
    charged,        \* those of them whose amount is on the line
    commitment,     \* the amounts of orders, as far as not released
    spent           \* the amounts of spendings less those of credit notes

budgetVars == <<admitted, charged, commitment, spent>>

BudgetInit == admitted = {} /\ charged = {} /\ commitment = 0 /\ spent = 0

Admitted(r) ==
    /\ admitted' = admitted \cup {r}
    /\ UNCHANGED <<charged, commitment, spent>>

\* An amount comes on the line once.
Charged(r) ==
    /\ r \in admitted \ charged
    /\ charged' = charged \cup {r}
    /\ commitment' = IF r \in Orders THEN commitment + Amount[r] ELSE commitment
    /\ spent' = IF r \in Orders THEN spent ELSE spent + Amount[r]
    /\ UNCHANGED admitted

Credited(r) ==
    /\ spent' = spent - Amount[r]
    /\ UNCHANGED <<admitted, charged, commitment>>

Released(amount) ==
    /\ commitment' = commitment - amount
    /\ UNCHANGED <<admitted, charged, spent>>

BudgetNext ==
    \/ \E r \in Orders \cup Spendings : Admitted(r) \/ Charged(r)
    \/ \E r \in Credits : Credited(r)
    \/ \E amount \in 1..commitment : Released(amount)

BudgetSpec == BudgetInit /\ [][BudgetNext]_budgetVars

=============================================================================
