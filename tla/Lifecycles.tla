----------------------------- MODULE Lifecycles -----------------------------
(***************************************************************************)
(* The status tables of the procurement records whose approval the         *)
(* workflow engine drives (procurement/*/transitions.ts), and what the     *)
(* convergence handlers make of a workflow outcome.                        *)
(*                                                                         *)
(*   moves     the transitions the service allows                          *)
(*   final     terminal statuses                                           *)
(*   managed   statuses only the workflow engine may write                 *)
(*   counted   statuses in which the amount counts as committed or spent   *)
(*   opens     the status whose entry starts a workflow                    *)
(*   absorbs   the status whose entry updates the budget line              *)
(*   posts     the statuses whose entry posts an event                     *)
(*   outcome   the status a workflow outcome turns into; "ignored" if none *)
(***************************************************************************)

Types == {"po", "si", "expense", "cn"}

Outcomes == {"approved", "returned", "rejected"}

PurchaseOrder ==
    [moves |-> {<<"draft", "submitted">>,
                <<"submitted", "approved">>, <<"submitted", "rejected">>,
                <<"submitted", "returned">>,
                <<"returned", "submitted">>, <<"returned", "cancelled">>,
                <<"approved", "issued">>, <<"approved", "cancelled">>,
                <<"issued", "partially_delivered">>, <<"issued", "delivered">>,
                <<"issued", "cancelled">>,
                <<"partially_delivered", "delivered">>, <<"delivered", "closed">>},
     initial |-> "draft",
     final   |-> {"rejected", "cancelled", "closed"},
     managed |-> {"approved", "rejected", "returned"},
     counted |-> {"approved", "issued", "partially_delivered", "delivered", "closed"},
     opens   |-> "submitted",
     absorbs |-> "approved",
     posts   |-> {"approved", "issued", "delivered"},
     outcome |-> [approved |-> "approved", returned |-> "returned",
                  rejected |-> "rejected"]]

SupplierInvoice ==
    [moves |-> {<<"received", "under_review">>,
                <<"under_review", "approved">>, <<"under_review", "disputed">>,
                <<"under_review", "rejected">>,
                <<"disputed", "under_review">>, <<"disputed", "rejected">>,
                <<"approved", "paid">>, <<"paid", "closed">>},
     initial |-> "received",
     final   |-> {"rejected", "closed"},
     managed |-> {"approved", "rejected", "disputed"},
     counted |-> {"approved", "paid", "closed"},
     opens   |-> "under_review",
     absorbs |-> "approved",
     posts   |-> {"approved"},
     outcome |-> [approved |-> "approved", returned |-> "disputed",
                  rejected |-> "rejected"]]

Expense ==
    [moves |-> {<<"draft", "submitted">>,
                <<"submitted", "approved">>, <<"submitted", "rejected">>,
                <<"submitted", "returned">>, <<"returned", "submitted">>,
                <<"approved", "paid">>, <<"approved", "cancelled">>,
                <<"paid", "closed">>},
     initial |-> "draft",
     final   |-> {"rejected", "cancelled", "closed"},
     managed |-> {"approved", "rejected", "returned"},
     counted |-> {"approved", "paid", "closed"},
     opens   |-> "submitted",
     absorbs |-> "approved",
     posts   |-> {"approved"},
     outcome |-> [approved |-> "approved", returned |-> "returned",
                  rejected |-> "rejected"]]

\* A credit note is verified, by hand or by its workflow, and applied by hand.
CreditNote ==
    [moves |-> {<<"received", "verified">>,
                <<"verified", "applied">>, <<"verified", "disputed">>,
                <<"verified", "cancelled">>,
                <<"applied", "closed">>,
                <<"disputed", "verified">>, <<"disputed", "cancelled">>},
     initial |-> "received",
     final   |-> {"closed", "cancelled"},
     managed |-> {},
     counted |-> {"applied", "closed"},
     opens   |-> "received",
     absorbs |-> "applied",
     posts   |-> {"applied"},
     outcome |-> [approved |-> "verified", returned |-> "ignored",
                  rejected |-> "cancelled"]]

Lifecycle == [po |-> PurchaseOrder, si |-> SupplierInvoice,
              expense |-> Expense, cn |-> CreditNote]

\* The statuses of a type; "absent" is a record not created yet.
StatusesOf(t) ==
    {"absent", Lifecycle[t].initial} \cup {m[1] : m \in Lifecycle[t].moves}
                                     \cup {m[2] : m \in Lifecycle[t].moves}

=============================================================================
