-------------------------- MODULE CommercialTables --------------------------
(***************************************************************************)
(* The records whose approval the workflow engine drives besides those of  *)
(* Lifecycles: payment applications and certificates, tax invoices,        *)
(* variations, cost proposals, correspondence, vendor contracts and        *)
(* framework agreements.                                                   *)
(*                                                                         *)
(*   Table[t].moves     the transitions the service knows                  *)
(*   Table[t].final     the terminal statuses                              *)
(*   Table[t].managed   the statuses only the workflow engine may write    *)
(*   Service[t].opens   the status whose entry starts a workflow           *)
(*   Service[t].seeds   the workflow starts with the record                *)
(*   Service[t].numbers the status whose entry takes a reference number    *)
(*   Service[t].code    the counters it takes numbers from: at creation    *)
(*                      (register) and on entry of that status (issue)     *)
(*   Service[t].posts   the statuses whose entry by hand posts an event    *)
(*   Handlers[t].posts  the outcomes whose handler posts an event          *)
(***************************************************************************)

\* One line of a transition table.
Row(from, to) == {from} \X to

ClosedForm == Row("issued", {"superseded", "closed"})

\* The approval phase of letters, notices, claims, contracts and agreements.
ReviewPhase ==
    Row("draft", {"under_review"}) \cup Row("returned", {"under_review"})
    \cup Row("under_review", {"approved_internal", "returned", "rejected"})

\* The approval phase with a submission before the review.
SubmissionPhase ==
    Row("draft", {"submitted"}) \cup Row("returned", {"submitted"})
    \cup Row("submitted", {"under_review", "returned", "rejected"})
    \cup Row("under_review", {"approved_internal", "returned", "rejected"})

Reviewed == {"under_review", "approved_internal", "rejected", "returned"}
Decided == {"approved_internal", "rejected", "returned"}
Ended == {"rejected", "superseded", "closed"}

IpaTable ==
    [moves |-> SubmissionPhase \cup Row("submitted", {"approved_internal"})
               \cup Row("approved_internal", {"signed", "issued"})
               \cup Row("signed", {"issued"}) \cup ClosedForm,
     final |-> Ended, managed |-> Reviewed]

IpcTable ==
    [moves |-> SubmissionPhase \cup Row("approved_internal", {"signed"})
               \cup Row("signed", {"issued"}) \cup ClosedForm,
     final |-> Ended, managed |-> Reviewed]

VariationTable(subtype) ==
    [moves |-> SubmissionPhase \cup Row("submitted", {"approved_internal"})
               \cup Row("approved_internal", {"signed"})
               \cup Row("signed", {"issued"}) \cup ClosedForm
               \cup IF subtype = "vo"
                    THEN Row("issued", {"client_pending"})
                         \cup Row("client_pending", {"client_approved", "client_rejected"})
                         \cup Row("client_approved", {"closed"})
                    ELSE {},
     final |-> Ended \cup {"client_rejected"}, managed |-> Reviewed]

CostProposalTable ==
    [moves |-> SubmissionPhase \cup Row("approved_internal", {"issued"})
               \cup Row("issued", {"linked_to_variation"}) \cup ClosedForm
               \cup Row("linked_to_variation", {"superseded", "closed"}),
     final |-> Ended, managed |-> {}]

\* What happens to a notice, a claim or a back charge once it is issued.
AfterIssue(subtype) ==
    CASE subtype = "notice" ->
            Row("issued", {"response_due"}) \cup Row("responded", {"closed"})
            \cup Row("response_due", {"responded", "closed"})
      [] subtype = "claim" ->
            Row("issued", {"under_evaluation"})
            \cup Row("under_evaluation", {"partially_accepted", "accepted", "disputed", "closed"})
            \cup Row("partially_accepted", {"closed"}) \cup Row("accepted", {"closed"})
            \cup Row("disputed", {"under_evaluation", "closed"})
      [] subtype = "back_charge" ->
            Row("issued", {"acknowledged", "disputed"})
            \cup Row("acknowledged", {"recovered", "partially_recovered", "closed"})
            \cup Row("disputed", {"acknowledged", "closed"})
            \cup Row("partially_recovered", {"recovered", "closed"})
            \cup Row("recovered", {"closed"})
      [] OTHER -> {}

CorrespondenceTable(subtype) ==
    [moves |-> ReviewPhase \cup Row("approved_internal", {"signed"})
               \cup (IF subtype = "letter" THEN Row("approved_internal", {"issued"}) ELSE {})
               \cup Row("signed", {"issued"}) \cup ClosedForm \cup AfterIssue(subtype),
     final |-> Ended, managed |-> Decided]

TaxInvoiceTable ==
    [moves |-> Row("draft", {"under_review"}) \cup Row("returned", {"under_review"})
               \cup Row("under_review", {"approved_internal", "returned"})
               \cup Row("approved_internal", {"issued"})
               \cup Row("issued", {"submitted", "overdue", "cancelled", "superseded"})
               \cup Row("submitted", {"partially_collected", "collected", "overdue", "cancelled"})
               \cup Row("overdue", {"partially_collected", "collected", "cancelled"})
               \cup Row("partially_collected", {"collected", "overdue"}),
     final |-> {"collected", "cancelled", "superseded", "closed"}, managed |-> {}]

AgreementTable ==
    [moves |-> ReviewPhase \cup Row("approved_internal", {"signed"})
               \cup Row("signed", {"active"})
               \cup Row("active", {"expired", "terminated", "superseded"}),
     final |-> {"rejected", "expired", "terminated", "superseded"}, managed |-> {}]

-----------------------------------------------------------------------------

Types == {"ipa", "ipc", "ti", "vo", "co", "cp", "letter", "notice", "claim", "back_charge",
          "vc", "fa"}

\* The types whose services leave the decision to the engine.
ManagedTypes == {"ipa", "ipc", "vo", "co", "letter", "notice", "claim", "back_charge"}

Table ==
    [ipa |-> IpaTable, ipc |-> IpcTable,
     ti |-> TaxInvoiceTable, cp |-> CostProposalTable,
     vo |-> VariationTable("vo"), co |-> VariationTable("co"),
     letter |-> CorrespondenceTable("letter"), notice |-> CorrespondenceTable("notice"),
     claim |-> CorrespondenceTable("claim"), back_charge |-> CorrespondenceTable("back_charge"),
     vc |-> AgreementTable, fa |-> AgreementTable]

IpaService == [opens |-> "submitted", seeds |-> FALSE, numbers |-> "issued",
               code |-> [register |-> "none", issue |-> "IPA"], posts |-> {}]

IpcService == [opens |-> "submitted", seeds |-> FALSE, numbers |-> "issued",
               code |-> [register |-> "none", issue |-> "IPC"], posts |-> {"signed"}]

VariationService(subtype) ==
    [opens |-> "submitted", seeds |-> FALSE, numbers |-> "issued",
     code |-> [register |-> "none", issue |-> IF subtype = "co" THEN "CO" ELSE "VO"],
     posts |-> {"client_approved"}]

CostProposalService == [opens |-> "never", seeds |-> TRUE, numbers |-> "issued",
                        code |-> [register |-> "none", issue |-> "CP"], posts |-> {}]

\* Only a claim and a back charge are posted, when they are issued.
CorrespondenceService(subtype) ==
    [opens |-> "under_review", seeds |-> FALSE, numbers |-> "issued",
     code |-> [register |-> "none",
               issue |-> CASE subtype = "letter" -> "LTR" [] subtype = "notice" -> "NTC"
                           [] subtype = "claim" -> "CLM" [] OTHER -> "BCH"],
     posts |-> IF subtype \in {"claim", "back_charge"} THEN {"issued"} ELSE {}]

TaxInvoiceService == [opens |-> "never", seeds |-> TRUE, numbers |-> "issued",
                      code |-> [register |-> "INVNUM", issue |-> "INV"], posts |-> {"issued"}]

VendorContractService == [opens |-> "never", seeds |-> TRUE, numbers |-> "never",
                          code |-> [register |-> "VC", issue |-> "none"], posts |-> {"signed"}]

FrameworkAgreementService == [opens |-> "never", seeds |-> TRUE, numbers |-> "never",
                              code |-> [register |-> "FA", issue |-> "none"], posts |-> {}]

Service ==
    [ipa |-> IpaService, ipc |-> IpcService,
     ti |-> TaxInvoiceService, cp |-> CostProposalService,
     vo |-> VariationService("vo"), co |-> VariationService("co"),
     letter |-> CorrespondenceService("letter"), notice |-> CorrespondenceService("notice"),
     claim |-> CorrespondenceService("claim"), back_charge |-> CorrespondenceService("back_charge"),
     vc |-> VendorContractService, fa |-> FrameworkAgreementService]

Codes == {"IPA", "IPC", "VO", "CO", "CP", "LTR", "NTC", "CLM", "BCH", "INV", "INVNUM", "VC", "FA"}

-----------------------------------------------------------------------------
(* What the convergence handlers make of a workflow outcome *)

Outcomes == {"approved", "returned", "rejected"}

PlainOutcome == [approved |-> "approved_internal", returned |-> "returned",
                 rejected |-> "rejected"]

IpaHandlers == [outcome |-> PlainOutcome, posts |-> {"approved_internal"}]

IpcHandlers == [outcome |-> PlainOutcome, posts |-> {}]

VariationHandlers == [outcome |-> PlainOutcome, posts |-> {"approved_internal"}]

CorrespondenceHandlers == [outcome |-> PlainOutcome, posts |-> {}]

CostProposalHandlers == [outcome |-> PlainOutcome, posts |-> {}]

\* A tax invoice has no status "rejected".
TaxInvoiceHandlers == [outcome |-> [PlainOutcome EXCEPT !.rejected = "cancelled"], posts |-> {}]

VendorContractHandlers == [outcome |-> PlainOutcome, posts |-> {}]

FrameworkAgreementHandlers == [outcome |-> PlainOutcome, posts |-> {}]

Handlers ==
    [ipa |-> IpaHandlers, ipc |-> IpcHandlers,
     ti |-> TaxInvoiceHandlers, cp |-> CostProposalHandlers,
     vo |-> VariationHandlers, co |-> VariationHandlers,
     letter |-> CorrespondenceHandlers, notice |-> CorrespondenceHandlers,
     claim |-> CorrespondenceHandlers, back_charge |-> CorrespondenceHandlers,
     vc |-> VendorContractHandlers, fa |-> FrameworkAgreementHandlers]

\* "absent" before the record is created, "deleted" after it is removed.
StatusesOf(t) ==
    {"absent", "deleted", "draft"} \cup {m[1] : m \in Table[t].moves}
                                   \cup {m[2] : m \in Table[t].moves}
                                   \cup {Handlers[t].outcome[o] : o \in Outcomes}

=============================================================================
