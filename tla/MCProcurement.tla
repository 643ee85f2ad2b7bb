--------------------------- MODULE MCProcurement ---------------------------
(***************************************************************************)
(* Values for the constants of Procurement: two orders sharing a budget    *)
(* line, an invoice of the first, an expense and a credit note.            *)
(***************************************************************************)
EXTENDS Procurement, TLC

CONSTANTS poA, poB, si, ex, cn, q1, q2

AllTypes == poA :> "po" @@ poB :> "po" @@ si :> "si" @@ ex :> "expense" @@ cn :> "cn"

TypeOfRecords == [r \in Records |-> AllTypes[r]]

AmountOfRecords == [r \in Records |-> IF r \in {poA, si} THEN 2 ELSE 1]

OrderOfRecords == [r \in Records |-> IF r = si /\ poA \in Records THEN poA ELSE NoRecord]

NoOrders == [r \in Records |-> NoRecord]

AllCategorised == Records

=============================================================================
