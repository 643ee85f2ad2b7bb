-------------------------- MODULE CommercialProofs --------------------------
(***************************************************************************)
(* Theorems about Commercial and Kpis for any records, parents, amounts    *)
(* and number of calls in flight, cut off anywhere: no record gets past    *)
(* its approval phase unapproved and money lies only on issued invoices of *)
(* approved records, whatever races; and a record whose calls do not       *)
(* overlap shows what its workflow decided, stays in a terminal status, is *)
(* never overpaid, and agrees with the posting ledger.                     *)
(***************************************************************************)
EXTENDS Kpis, TLAPS

\* The statuses of a record in review, and those of an invoice once issued.
InReview == {"submitted", "under_review", "returned"}
Billed == {"issued", "submitted", "overdue", "partially_collected", "collected"}

Managed(r) == TypeOf[r] \in ManagedTypes

On(q, r) == work[q] # NoWork /\ work[q].rec = r

Numbered(r) == \E g \in given : g[1] = "INV" /\ g[3] = r

\* What the stage of a call in flight says of the status it writes.
CallSound(w) ==
    LET t == TypeOf[w.rec] IN
    /\ w.to \in StatusesOf(t) \ {"absent"}
    /\ w.at \in {"handle", "write"} => w.to \notin {"draft", "deleted"}
    /\ w.at = "handle" => \E o \in Outcomes : w.to = Handlers[t].outcome[o]
    /\ w.at = "open" => w.to = Service[t].opens
    /\ w.at = "post" => w.to \in Posts(w.rec)
    /\ w.at \in {"edit", "sum", "collect"} => t = "ti"

\* A call that leaves a record that nobody approved in its approval phase.
Innocent(w) == w.at \in {"create", "write", "open", "remove", "handle"} /\ w.to \in Pending

\* A call that makes or finds an invoice issued earlier.
Bills(w) ==
    \/ w.at \in {"sum", "collect"}
    \/ w.at = "write" /\ TypeOf[w.rec] = "ti" /\ w.to \in Billed \ {"issued"}

\* What holds of a record whatever races on it.
ApprovalFirst(r) ==
    Managed(r) /\ approvals[r] = 0 =>
        /\ status[r] \in Pending
        /\ \A g \in given : g[3] # r
        /\ \A p \in posted : p[1] # r
        /\ \A q \in Requests : On(q, r) => Innocent(work[q])

Lineage(r) ==
    /\ status[r] = "absent" =>
          /\ flow[r] = "none" /\ approvals[r] = 0 /\ collected[r] = 0
          /\ \A q \in Requests : On(q, r) => work[q].at = "create"
    /\ ParentOf[r] # NoRecord /\ (status[r] # "absent" \/ Busy(r)) => approvals[ParentOf[r]] > 0

Billing(r) ==
    /\ collected[r] > 0 => Numbered(r)
    /\ TypeOf[r] = "ti" /\ status[r] \in Billed => Numbered(r)
    /\ \A q \in Requests : On(q, r) /\ Bills(work[q]) => Numbered(r)

\* A record whose calls have come to an end agrees with its workflow and
\* with the ledger.
Settled(r) ==
    /\ flow[r] = "rejected" => status[r] \in {Handlers[TypeOf[r]].outcome["rejected"], "deleted"}
    /\ flow[r] = "approved" /\ Managed(r) => status[r] \notin Pending

Counts(kpi, r) == TypeOf[r] \in SourceTypes[kpi]

Backed(r) ==
    \A kpi \in Kpis : Counts(kpi, r) =>
        /\ status[r] \in StatusFilter[kpi] => <<r, Backing[kpi]>> \in posted
        /\ kpi # "total_invoiced" /\ <<r, Backing[kpi]>> \in posted
              => status[r] \in StatusFilter[kpi]

\* The status a call is about to write agrees with the workflow.
Agrees(w) ==
    LET r == w.rec IN
    /\ flow[r] = "rejected" => w.to = Handlers[TypeOf[r]].outcome["rejected"]
    /\ Managed(r) /\ flow[r] = "approved" => w.to \notin Pending
    /\ Managed(r) /\ flow[r] \in Running => w.to \in InReview

\* It takes its record in or out of a KPI only where the ledger follows.
Followed(w) ==
    \A kpi \in Kpis : Counts(kpi, w.rec) =>
        /\ kpi # "total_invoiced" /\ status[w.rec] \in StatusFilter[kpi]
              => w.to \in StatusFilter[kpi]
        /\ status[w.rec] \notin StatusFilter[kpi] /\ w.to \in StatusFilter[kpi]
              => w.to = Backing[kpi]

\* All that is missing from the ledger is what the call is about to post.
Posting(w) ==
    \A kpi \in Kpis : Counts(kpi, w.rec) =>
        /\ status[w.rec] \in StatusFilter[kpi] =>
              <<w.rec, Backing[kpi]>> \in posted \/ w.to = Backing[kpi]
        /\ kpi # "total_invoiced" /\ (<<w.rec, Backing[kpi]>> \in posted \/ w.to = Backing[kpi])
              => status[w.rec] \in StatusFilter[kpi]

\* What the only call on a record has read still holds.
Fresh(w) ==
    LET r == w.rec IN
    /\ w.at = "create" => status[r] = "absent"
    /\ w.at = "remove" => status[r] = "draft"
    /\ w.at = "handle" => Agrees(w) /\ (Managed(r) => status[r] \in InReview)
    /\ w.at = "write" =>
          Agrees(w) /\ Followed(w) /\ (Managed(r) => status[r] \notin Table[TypeOf[r]].final)
    /\ w.at = "open" => Managed(r) /\ status[r] = w.to
    /\ w.at = "post" => Posting(w)
    /\ w.at \in {"sum", "collect"} => status[r] \in Collectable /\ flow[r] # "rejected"
    /\ w.at = "collect" => w.seen = collected[r] /\ collected[r] + w.amount <= total[r]

\* What holds of a record as long as its calls do not overlap.
Orderly(r) ==
    r \notin disturbed =>
        /\ \A p, q \in Requests : On(p, r) /\ On(q, r) => p = q
        /\ Managed(r) /\ status[r] \in {"draft", "deleted"} => flow[r] = "none"
        /\ Managed(r) /\ flow[r] \in Running => status[r] \in InReview
        /\ (\A q \in Requests : On(q, r) => work[q].at \notin {"handle", "write"}) => Settled(r)
        /\ (\A q \in Requests : On(q, r) => work[q].at # "post") => Backed(r)
        /\ \A q \in Requests : On(q, r) => Fresh(work[q])

RecordSound(r) == ApprovalFirst(r) /\ Lineage(r) /\ Billing(r) /\ Orderly(r)

CallsSound == \A q \in Requests : work[q] # NoWork => CallSound(work[q])

Inv == TypeOK /\ CallsSound /\ \A r \in Records : RecordSound(r)

-----------------------------------------------------------------------------
(* The tables *)

(* What all tables have in common: a transition and an outcome of the      *)
(* workflow lead to a status of the type other than those a record has     *)
(* before its first call and after it is deleted; only a managed type      *)
(* opens a workflow on a transition; a rejected record stays rejected.     *)
LEMMA Tables ==
    ASSUME NEW t \in Types
    PROVE  /\ {"absent", "deleted", "draft"} \subseteq StatusesOf(t)
           /\ \A a, b : <<a, b>> \in Table[t].moves =>
                 b \in StatusesOf(t) \ {"absent", "deleted", "draft"}
           /\ \A o \in Outcomes :
                 Handlers[t].outcome[o] \in StatusesOf(t) \ {"absent", "deleted", "draft"}
           /\ Handlers[t].outcome["rejected"] \in Table[t].final
           /\ Service[t].opens \in StatusesOf(t) => t \in ManagedTypes
           /\ Service[t].code.register \in Codes \cup {"none"}
           /\ Service[t].code.issue \in Codes \cup {"none"}
<1>1. {"absent", "deleted", "draft"} \subseteq StatusesOf(t)
  BY DEF StatusesOf
<1>2. \A a, b : <<a, b>> \in Table[t].moves => b \in StatusesOf(t)
  BY DEF StatusesOf
<1>3. \A o \in Outcomes : Handlers[t].outcome[o] \in StatusesOf(t)
  BY DEF StatusesOf
<1> DEFINE Proper == /\ \A a, b : <<a, b>> \in Table[t].moves => b \notin {"absent", "deleted", "draft"}
                     /\ Service[t].opens = "never" => \A m \in Table[t].moves : m[1] # "never" /\ m[2] # "never"
<1>4. Proper
  <2>1. CASE t \in {"ipa", "ipc"}
    BY <2>1 DEF Table, IpaTable, IpcTable, SubmissionPhase, ClosedForm, Row, Service, IpaService, IpcService
  <2>2. CASE t \in {"vo", "co"}
    BY <2>2 DEF Table, VariationTable, SubmissionPhase, ClosedForm, Row, Service, VariationService
  <2>3. CASE t = "cp"
    BY <2>3 DEF Table, CostProposalTable, SubmissionPhase, ClosedForm, Row
  <2>4. CASE t \in {"letter", "notice", "claim", "back_charge"}
    BY <2>4 DEF Table, CorrespondenceTable, ReviewPhase, ClosedForm, AfterIssue, Row, Service, CorrespondenceService
  <2>5. CASE t = "ti"
    BY <2>5 DEF Table, TaxInvoiceTable, Row
  <2>6. CASE t \in {"vc", "fa"}
    BY <2>6 DEF Table, AgreementTable, ReviewPhase, Row
  <2>7. QED
    BY <2>1, <2>2, <2>3, <2>4, <2>5, <2>6 DEF Types
<1>5. \A o \in Outcomes : Handlers[t].outcome[o] \notin {"absent", "deleted", "draft", "never"}
  BY DEF Types, Outcomes, Handlers, IpaHandlers, IpcHandlers, VariationHandlers, CorrespondenceHandlers,
     CostProposalHandlers, TaxInvoiceHandlers, VendorContractHandlers, FrameworkAgreementHandlers, PlainOutcome
<1>6. Handlers[t].outcome["rejected"] \in Table[t].final
  BY DEF Types, Handlers, IpaHandlers, IpcHandlers, VariationHandlers, CorrespondenceHandlers,
     CostProposalHandlers, TaxInvoiceHandlers, VendorContractHandlers, FrameworkAgreementHandlers, PlainOutcome,
     Table, IpaTable, IpcTable, VariationTable, CorrespondenceTable, CostProposalTable, TaxInvoiceTable,
     AgreementTable, Ended
<1>7. Service[t].opens \in StatusesOf(t) => t \in ManagedTypes
  <2>1. SUFFICES ASSUME t \notin ManagedTypes PROVE Service[t].opens \notin StatusesOf(t)
    OBVIOUS
  <2>2. Service[t].opens = "never"
    BY <2>1 DEF Types, ManagedTypes, Service, CostProposalService, TaxInvoiceService,
       VendorContractService, FrameworkAgreementService
  <2>3. QED
    BY <1>4, <1>5, <2>2 DEF StatusesOf
<1>8. Service[t].code.register \in Codes \cup {"none"} /\ Service[t].code.issue \in Codes \cup {"none"}
  BY DEF Types, Codes, Service, IpaService, IpcService, VariationService, CorrespondenceService,
     CostProposalService, TaxInvoiceService, VendorContractService, FrameworkAgreementService
<1>9. QED
  BY <1>1, <1>2, <1>3, <1>4, <1>5, <1>6, <1>7, <1>8

(* A managed type: users' transitions never lead out of the approval phase *)
(* and only the approval does; users never take a record in review out of  *)
(* review; no number is taken and nothing is posted before the approval.   *)
LEMMA ManagedTables ==
    ASSUME NEW t \in ManagedTypes
    PROVE  /\ t \in Types /\ ~Service[t].seeds /\ Service[t].code.register = "none"
           /\ Service[t].numbers = "issued"
           /\ Service[t].opens \in InReview
           /\ (Service[t].posts \cup Handlers[t].posts) \cap Pending = {}
           /\ Table[t].final \cap InReview = {}
           /\ \A o \in Outcomes \ {"approved"} : Handlers[t].outcome[o] = o
           /\ Handlers[t].outcome["approved"] \notin Pending
           /\ \A a, b : <<a, b>> \in Table[t].moves =>
                 /\ a \notin Pending => b \notin Pending
                 /\ a \in Pending /\ b \notin Table[t].managed => b \in InReview
<1>1. t \in Types
  BY DEF Types, ManagedTypes
<1>2. /\ ~Service[t].seeds /\ Service[t].code.register = "none"
      /\ Service[t].numbers = "issued"
      /\ Service[t].opens \in InReview
  BY DEF ManagedTypes, InReview, Service, IpaService, IpcService, VariationService, CorrespondenceService
<1>3. (Service[t].posts \cup Handlers[t].posts) \cap Pending = {}
  BY DEF ManagedTypes, Pending, Service, IpaService, IpcService, VariationService, CorrespondenceService,
     Handlers, IpaHandlers, IpcHandlers, VariationHandlers, CorrespondenceHandlers
<1>4. /\ \A o \in Outcomes \ {"approved"} : Handlers[t].outcome[o] = o
      /\ Handlers[t].outcome["approved"] \notin Pending
  BY DEF ManagedTypes, Pending, Outcomes, Handlers, IpaHandlers, IpcHandlers, VariationHandlers,
     CorrespondenceHandlers, PlainOutcome
<1>5. Table[t].final \cap InReview = {}
  BY DEF ManagedTypes, InReview, Table, IpaTable, IpcTable, VariationTable, CorrespondenceTable, Ended
<1>6. \A a, b : <<a, b>> \in Table[t].moves =>
          /\ a \notin Pending => b \notin Pending
          /\ a \in Pending /\ b \notin Table[t].managed => b \in InReview
  <2>1. CASE t \in {"ipa", "ipc"}
    BY <2>1 DEF Table, IpaTable, IpcTable, SubmissionPhase, ClosedForm, Row, Pending, InReview, Reviewed
  <2>2. CASE t \in {"vo", "co"}
    BY <2>2 DEF Table, VariationTable, SubmissionPhase, ClosedForm, Row, Pending, InReview, Reviewed
  <2>3. CASE t \in {"letter", "notice", "claim", "back_charge"}
    BY <2>3 DEF Table, CorrespondenceTable, ReviewPhase, ClosedForm, AfterIssue, Row, Pending, InReview, Decided
  <2>4. QED
    BY <2>1, <2>2, <2>3 DEF ManagedTypes
<1>7. QED
  BY <1>1, <1>2, <1>3, <1>4, <1>5, <1>6

(* A tax invoice becomes one of the issued ones only by being issued.      *)
LEMMA InvoiceTables ==
    /\ Service["ti"].numbers = "issued" /\ Service["ti"].code.issue = "INV"
    /\ Collectable \subseteq Billed
    /\ Billed \subseteq StatusesOf("ti") \ {"absent", "deleted", "draft"}
    /\ \A o \in Outcomes : Handlers["ti"].outcome[o] \notin Billed
    /\ Handlers["ti"].outcome["rejected"] \notin Billed
    /\ \A a, b : <<a, b>> \in Table["ti"].moves /\ b \in Billed \ {"issued"} => a \in Billed
<1>1. Service["ti"].numbers = "issued" /\ Service["ti"].code.issue = "INV"
  BY DEF Service, TaxInvoiceService
<1>2. \A o \in Outcomes : Handlers["ti"].outcome[o] \notin Billed
  BY DEF Handlers, TaxInvoiceHandlers, PlainOutcome, Outcomes, Billed
<1>3. \A a, b : <<a, b>> \in Table["ti"].moves /\ b \in Billed \ {"issued"} => a \in Billed
  BY DEF Table, TaxInvoiceTable, Row, Billed
<1>4. Billed \subseteq StatusesOf("ti")
  <2>1. /\ <<"approved_internal", "issued">> \in Table["ti"].moves
        /\ <<"issued", "submitted">> \in Table["ti"].moves
        /\ <<"submitted", "overdue">> \in Table["ti"].moves
        /\ <<"submitted", "partially_collected">> \in Table["ti"].moves
        /\ <<"submitted", "collected">> \in Table["ti"].moves
    BY DEF Table, TaxInvoiceTable, Row
  <2>2. QED
    BY <2>1, Tables DEF Types, Billed
<1>5. QED
  BY <1>1, <1>2, <1>3, <1>4 DEF Collectable, Billed, Outcomes

(* The KPIs and the tables agree: a record that a KPI counts entered its   *)
(* statuses through the one that is posted, and only an invoice leaves     *)
(* them.                                                                   *)
LEMMA KpiTables ==
    ASSUME NEW kpi \in Kpis, NEW t \in SourceTypes[kpi]
    PROVE  /\ t \in Types /\ (kpi = "total_invoiced" <=> t = "ti") /\ (t # "ti" => t \in ManagedTypes)
           /\ StatusFilter[kpi] \cap {"absent", "deleted", "draft", "returned", "rejected"} = {}
           /\ t # "ti" => StatusFilter[kpi] \cap Pending = {}
           /\ Backing[kpi] \in StatusFilter[kpi]
           /\ Backing[kpi] \in Service[t].posts \cup Handlers[t].posts
           /\ Backing[kpi] # Service[t].opens
           /\ \A o \in Outcomes : Handlers[t].outcome[o] \in StatusFilter[kpi] =>
                 Handlers[t].outcome[o] = Backing[kpi]
           /\ \A a, b : <<a, b>> \in Table[t].moves =>
                 /\ t # "ti" /\ a \in StatusFilter[kpi] => b \in StatusFilter[kpi]
                 /\ a \notin StatusFilter[kpi] /\ b \in StatusFilter[kpi] => b = Backing[kpi]
<1> USE DEF StatusFilter, Backing
<1>1. CASE kpi = "total_claimed"
  <2>1. t = "ipa"
    BY <1>1 DEF SourceTypes
  <2>2. \A a, b : <<a, b>> \in Table[t].moves =>
                 /\ t # "ti" /\ a \in StatusFilter[kpi] => b \in StatusFilter[kpi]
                 /\ a \notin StatusFilter[kpi] /\ b \in StatusFilter[kpi] => b = Backing[kpi]
    BY <1>1, <2>1 DEF Table, IpaTable, SubmissionPhase, ClosedForm, Row, ApprovedPlus
  <2>3. QED
    BY <1>1, <2>1, <2>2 DEF Types, ManagedTypes, ApprovedPlus, Pending, Service, IpaService, Handlers,
       IpaHandlers, PlainOutcome, Outcomes
<1>2. CASE kpi = "total_certified"
  <2>1. t = "ipc"
    BY <1>2 DEF SourceTypes
  <2>2. \A a, b : <<a, b>> \in Table[t].moves =>
                 /\ t # "ti" /\ a \in StatusFilter[kpi] => b \in StatusFilter[kpi]
                 /\ a \notin StatusFilter[kpi] /\ b \in StatusFilter[kpi] => b = Backing[kpi]
    BY <1>2, <2>1 DEF Table, IpcTable, SubmissionPhase, ClosedForm, Row, ApprovedPlus
  <2>3. QED
    BY <1>2, <2>1, <2>2 DEF Types, ManagedTypes, ApprovedPlus, Pending, Service, IpcService, Handlers,
       IpcHandlers, PlainOutcome, Outcomes
<1>3. CASE kpi = "total_invoiced"
  <2>1. t = "ti"
    BY <1>3 DEF SourceTypes
  <2>2. \A a, b : <<a, b>> \in Table[t].moves =>
                 /\ t # "ti" /\ a \in StatusFilter[kpi] => b \in StatusFilter[kpi]
                 /\ a \notin StatusFilter[kpi] /\ b \in StatusFilter[kpi] => b = Backing[kpi]
    BY <1>3, <2>1 DEF Table, TaxInvoiceTable, Row
  <2>3. QED
    BY <1>3, <2>1, <2>2 DEF Types, ManagedTypes, Pending, Service, TaxInvoiceService, Handlers,
       TaxInvoiceHandlers, PlainOutcome, Outcomes
<1>4. CASE kpi = "approved_variation_exposure"
  <2>1. t \in {"vo", "co"}
    BY <1>4 DEF SourceTypes
  <2>2. \A a, b : <<a, b>> \in Table[t].moves =>
                 /\ t # "ti" /\ a \in StatusFilter[kpi] => b \in StatusFilter[kpi]
                 /\ a \notin StatusFilter[kpi] /\ b \in StatusFilter[kpi] => b = Backing[kpi]
    BY <1>4, <2>1 DEF Table, VariationTable, SubmissionPhase, ClosedForm, Row, ApprovedPlus
  <2>3. QED
    BY <1>4, <2>1, <2>2 DEF Types, ManagedTypes, ApprovedPlus, Pending, Service, VariationService, Handlers,
       VariationHandlers, PlainOutcome, Outcomes
<1>5. QED
  BY <1>1, <1>2, <1>3, <1>4 DEF Kpis

-----------------------------------------------------------------------------
(* One call on one record moves *)

\* A step of call q, to w, on the columns of record r alone.
StepOn(q, r, w) ==
    /\ work' = [work EXCEPT ![q] = w]
    /\ work[q] # NoWork => work[q].rec = r
    /\ w # NoWork => w.rec = r
    /\ \A s \in Records \ {r} :
          /\ status'[s] = status[s] /\ flow'[s] = flow[s] /\ total'[s] = total[s]
          /\ collected'[s] = collected[s] /\ (s \in disturbed' <=> s \in disturbed)
    /\ \A s \in Records : approvals[s] > 0 => approvals'[s] > 0
    /\ \A s \in Records \ {r} : approvals'[s] = approvals[s]
    /\ given \subseteq given' /\ \A g \in given' : g \in given \/ g[3] = r
    /\ posted \subseteq posted' /\ \A p \in posted' : p \in posted \/ p[1] = r

(* The other calls stay as they are.                                       *)
LEMMA TheCalls ==
    ASSUME TypeOK, NEW q \in Requests, NEW r \in Records, NEW w \in Work \cup {NoWork},
           StepOn(q, r, w)
    PROVE  /\ work' \in [Requests -> Work \cup {NoWork}]
           /\ work'[q] = w
           /\ \A p \in Requests \ {q} : work'[p] = work[p]
           /\ \A s \in Records \ {r} : ~On(q, s) /\ ~On(q, s)'
           /\ \A s \in Records : \A p \in Requests \ {q} : On(p, s)' <=> On(p, s)
           /\ On(q, r)' <=> w # NoWork
BY DEF TypeOK, StepOn, On

(* A step on one record keeps what holds of every other one.               *)
LEMMA Elsewhere ==
    ASSUME TypeOK, NEW q \in Requests, NEW r \in Records, NEW w \in Work \cup {NoWork},
           StepOn(q, r, w), NEW s \in Records \ {r}, RecordSound(s)
    PROVE  RecordSound(s)'
<1>1. \A p \in Requests : (On(p, s)' <=> On(p, s)) /\ (On(p, s) => work'[p] = work[p])
  BY TheCalls
<1>2. Busy(s)' <=> Busy(s)
  BY <1>1 DEF Busy, On
<1>3. /\ status'[s] = status[s] /\ flow'[s] = flow[s] /\ total'[s] = total[s]
      /\ collected'[s] = collected[s] /\ (s \in disturbed' <=> s \in disturbed)
      /\ approvals'[s] = approvals[s]
      /\ \A g \in given' : g[3] = s => g \in given
      /\ \A p \in posted' : p[1] = s => p \in posted
      /\ given \subseteq given' /\ posted \subseteq posted'
  BY DEF StepOn
<1>4. ApprovalFirst(s)'
  BY <1>1, <1>3 DEF RecordSound, ApprovalFirst, Innocent, Managed
<1>5. Lineage(s)'
  <2>1. ParentOf[s] # NoRecord => ParentOf[s] \in Records
    BY ParentAssumption
  <2>2. QED
    BY <1>1, <1>2, <1>3, <2>1 DEF RecordSound, Lineage, StepOn
<1>6. Billing(s)'
  <2>1. Numbered(s) => Numbered(s)'
    BY <1>3 DEF Numbered
  <2>2. QED
    BY <1>1, <1>3, <2>1 DEF RecordSound, Billing, Bills
<1>7. Orderly(s)'
  <2>1. SUFFICES ASSUME s \notin disturbed' PROVE Orderly(s)'
    BY DEF Orderly
  <2>2. \A kpi \in Kpis : <<s, Backing[kpi]>> \in posted' <=> <<s, Backing[kpi]>> \in posted
    BY <1>3
  <2>3. (Settled(s)' <=> Settled(s)) /\ (Backed(s)' <=> Backed(s))
    BY <1>3, <2>2 DEF Settled, Backed, Managed, Counts
  <2>4. ASSUME NEW p \in Requests, On(p, s) PROVE Fresh(work[p])' <=> Fresh(work[p])
    <3>1. work'[p] = work[p] /\ work[p].rec = s
      BY <1>1, <2>4 DEF On
    <3>2. (Agrees(work[p])' <=> Agrees(work[p])) /\ (Followed(work[p])' <=> Followed(work[p]))
          /\ (Posting(work[p])' <=> Posting(work[p]))
      BY <1>3, <2>2, <3>1 DEF Agrees, Followed, Posting, Managed, Counts
    <3>3. QED
      BY <1>3, <3>1, <3>2 DEF Fresh, Managed
  <2>5. s \notin disturbed
    BY <1>3, <2>1
  <2>6. QED
    BY <1>1, <1>3, <2>3, <2>4, <2>5 DEF RecordSound, Orderly, Managed
<1>8. QED
  BY <1>4, <1>5, <1>6, <1>7 DEF RecordSound

(* A step that keeps what holds of its own record keeps the invariant.     *)
LEMMA StepKeepsInv ==
    ASSUME Inv, NEW q \in Requests, NEW r \in Records, NEW w \in Work \cup {NoWork},
           StepOn(q, r, w), w # NoWork => CallSound(w),
           work' \in [Requests -> Work \cup {NoWork}] => TypeOK', RecordSound(r)'
    PROVE  Inv'
<1>1. TypeOK'
  BY TheCalls DEF Inv
<1>2. CallsSound'
  <2>1. ASSUME NEW p \in Requests, work'[p] # NoWork PROVE CallSound(work'[p])
    <3>1. CASE p = q
      BY <2>1, <3>1, TheCalls DEF Inv
    <3>2. CASE p # q
      BY <2>1, <3>2, TheCalls DEF Inv, CallsSound
    <3>3. QED
      BY <3>1, <3>2
  <2>2. QED
    BY <2>1 DEF CallsSound, CallSound
<1>3. \A s \in Records : RecordSound(s)'
  BY Elsewhere DEF Inv
<1>4. QED
  BY <1>1, <1>2, <1>3 DEF Inv

(* A record that was asked for before and is there now has its lineage.    *)
LEMMA LineageKept ==
    ASSUME Inv, NEW q \in Requests, NEW r \in Records, NEW w \in Work \cup {NoWork},
           StepOn(q, r, w), status[r] # "absent" \/ Busy(r), status'[r] # "absent"
    PROVE  Lineage(r)'
<1>1. ParentOf[r] # NoRecord => ParentOf[r] \in Records /\ approvals[ParentOf[r]] > 0
  BY ParentAssumption DEF Inv, RecordSound, Lineage
<1>2. QED
  BY <1>1 DEF Lineage, StepOn

(* What such a step has to show of its record, part by part, with the      *)
(* other calls left out.                                                   *)
LEMMA RecordKept ==
    ASSUME Inv, NEW q \in Requests, NEW r \in Records, NEW w \in Work \cup {NoWork},
           StepOn(q, r, w),
           \* nothing is gained without an approval
           Managed(r) /\ approvals'[r] = 0 =>
               /\ approvals[r] = 0 /\ status'[r] \in Pending
               /\ \A g \in given' : g \in given \/ g[3] # r
               /\ \A p \in posted' : p \in posted \/ p[1] # r
               /\ w # NoWork => Innocent(w),
           \* it descends from approved records
           Lineage(r)',
           \* its invoice has a number
           collected'[r] > 0 => Numbered(r)',
           TypeOf[r] = "ti" /\ status'[r] \in Billed => Numbered(r)',
           w # NoWork /\ Bills(w) => Numbered(r)',
           \* as the only call, it leaves it in order
           r \notin disturbed' =>
               /\ r \notin disturbed /\ \A p \in Requests \ {q} : ~On(p, r)
               /\ Managed(r) /\ status'[r] \in {"draft", "deleted"} => flow'[r] = "none"
               /\ Managed(r) /\ flow'[r] \in Running => status'[r] \in InReview
               /\ w = NoWork \/ w.at \notin {"handle", "write"} => Settled(r)'
               /\ w = NoWork \/ w.at # "post" => Backed(r)'
               /\ w # NoWork => Fresh(w)'
    PROVE  RecordSound(r)'
<1>1. RecordSound(r)
  BY DEF Inv
<1>2. /\ work'[q] = w /\ (On(q, r)' <=> w # NoWork)
      /\ \A p \in Requests \ {q} : work'[p] = work[p] /\ (On(p, r)' <=> On(p, r))
  BY TheCalls DEF Inv
<1>3. ApprovalFirst(r)'
  <2>1. SUFFICES ASSUME Managed(r), approvals'[r] = 0
                 PROVE  /\ status'[r] \in Pending
                        /\ \A g \in given' : g[3] # r
                        /\ \A p \in posted' : p[1] # r
                        /\ \A p \in Requests : On(p, r)' => Innocent(work[p])'
    BY DEF ApprovalFirst, Managed
  <2>2. ASSUME NEW p \in Requests, On(p, r)' PROVE Innocent(work[p])'
    <3>1. CASE p = q
      BY <1>2, <2>1, <2>2, <3>1 DEF Innocent
    <3>2. CASE p # q
      BY <1>1, <1>2, <2>1, <2>2, <3>2 DEF RecordSound, ApprovalFirst, Innocent
    <3>3. QED
      BY <3>1, <3>2
  <2>3. QED
    BY <1>1, <2>1, <2>2 DEF RecordSound, ApprovalFirst
<1>4. Billing(r)'
  <2>1. Numbered(r) => Numbered(r)'
    BY DEF Numbered, StepOn
  <2>2. ASSUME NEW p \in Requests, On(p, r)', Bills(work[p])' PROVE Numbered(r)'
    <3>1. CASE p = q
      BY <1>2, <2>2, <3>1 DEF Bills
    <3>2. CASE p # q
      BY <1>1, <1>2, <2>1, <2>2, <3>2 DEF RecordSound, Billing, Bills
    <3>3. QED
      BY <3>1, <3>2
  <2>3. QED
    BY <2>2 DEF Billing
<1>5. Orderly(r)'
  <2>1. SUFFICES ASSUME r \notin disturbed' PROVE Orderly(r)'
    BY DEF Orderly
  <2>2. \A p \in Requests : On(p, r)' => p = q
    BY <1>2, <2>1
  <2>3. w # NoWork => Fresh(w)' /\ (Fresh(w)' => Fresh(work[q])')
    BY <1>2, <2>1 DEF Fresh, Agrees, Followed, Posting
  <2>4. (\A p \in Requests : On(p, r)' => work'[p].at \notin {"handle", "write"}) => Settled(r)'
    BY <1>2, <2>1
  <2>5. (\A p \in Requests : On(p, r)' => work'[p].at # "post") => Backed(r)'
    BY <1>2, <2>1
  <2>6. \A p \in Requests : On(p, r)' => Fresh(work[p])'
    BY <1>2, <2>2, <2>3
  <2>7. /\ Managed(r) /\ status'[r] \in {"draft", "deleted"} => flow'[r] = "none"
        /\ Managed(r) /\ flow'[r] \in Running => status'[r] \in InReview
    BY <2>1
  <2>8. QED
    BY <2>2, <2>4, <2>5, <2>6, <2>7 DEF Orderly, Managed
<1>6. QED
  BY <1>3, <1>4, <1>5 DEF RecordSound

-----------------------------------------------------------------------------
(* The calls that begin *)

\* The call that Begin puts in flight.
Beginning(r, stage, to, amount) ==
    [at |-> stage, rec |-> r, to |-> to, amount |-> amount, seen |-> 0]

(* A step that only begins a call, of a status that leaves an unapproved   *)
(* record in its approval phase, on what it has just read.                 *)
LEMMA BeginKeepsInv ==
    ASSUME Inv, NEW q \in Requests, NEW r \in Records, NEW stage \in Stages,
           NEW to \in StatusesOf(TypeOf[r]), NEW amount \in Nat, Begin(q, r, stage, to, amount),
           UNCHANGED <<status, flow, counter, given, posted, total, collected, approvals>>,
           CallSound(Beginning(r, stage, to, amount)), stage \notin {"handle", "post"},
           Managed(r) /\ approvals[r] = 0 => Innocent(Beginning(r, stage, to, amount)),
           Bills(Beginning(r, stage, to, amount)) => Numbered(r),
           Lineage(r)',
           r \notin disturbed' => Fresh(Beginning(r, stage, to, amount))
    PROVE  Inv'
<1> DEFINE w == Beginning(r, stage, to, amount)
<1>1. TypeOf[r] \in Types
  BY TypeOfAssumption
<1>2. w \in Work /\ w # NoWork
  BY <1>1, NoCommercialWork DEF Work, Beginning, Statuses
<1>3. w.rec = r /\ w.at = stage /\ w.to = to
  BY DEF Beginning
<1>4. work' = [work EXCEPT ![q] = w] /\ work[q] = NoWork
  BY DEF Begin, Beginning
<1>5. StepOn(q, r, w)
  BY <1>3, <1>4 DEF StepOn, Begin
<1>6. disturbed' \subseteq Records
  BY DEF Begin, Inv, TypeOK
<1>7. ASSUME work' \in [Requests -> Work \cup {NoWork}] PROVE TypeOK'
  BY <1>6, <1>7 DEF Inv, TypeOK
<1>8. ASSUME r \notin disturbed'
      PROVE  /\ r \notin disturbed /\ \A p \in Requests : ~On(p, r)
             /\ Managed(r) /\ status'[r] \in {"draft", "deleted"} => flow'[r] = "none"
             /\ Managed(r) /\ flow'[r] \in Running => status'[r] \in InReview
             /\ Settled(r)' /\ Backed(r)' /\ Fresh(w)'
  <2>1. r \notin disturbed /\ \A p \in Requests : ~On(p, r)
    BY <1>8 DEF Begin, Busy, On
  <2>2. /\ Managed(r) /\ status[r] \in {"draft", "deleted"} => flow[r] = "none"
        /\ Managed(r) /\ flow[r] \in Running => status[r] \in InReview
        /\ Settled(r) /\ Backed(r)
    BY <2>1 DEF Inv, RecordSound, Orderly
  <2>3. Settled(r)' /\ Backed(r)'
    BY <2>2 DEF Settled, Backed, Managed, Counts
  <2>4. Fresh(w)'
    BY <1>8 DEF Fresh, Agrees, Followed, Posting, Managed, Counts
  <2>5. QED
    BY <2>1, <2>2, <2>3, <2>4
<1>9. /\ collected[r] > 0 => Numbered(r)
      /\ TypeOf[r] = "ti" /\ status[r] \in Billed => Numbered(r)
      /\ Managed(r) /\ approvals[r] = 0 => status[r] \in Pending
  BY DEF Inv, RecordSound, Billing, ApprovalFirst
<1>10. Numbered(r)' <=> Numbered(r)
  BY DEF Numbered
<1> HIDE DEF w
<1>11. RecordSound(r)'
  BY <1>2, <1>5, <1>8, <1>9, <1>10, RecordKept DEF w
<1>12. QED
  BY <1>2, <1>5, <1>7, <1>11, StepKeepsInv DEF w

(* A certificate or an invoice is created only for a record that the       *)
(* workflow engine approved.                                               *)
LEMMA AskCreateKeepsInv ==
    ASSUME Inv, NEW q \in Requests, NEW r \in Records, NEW amount \in Totals[r],
           AskCreate(q, r, amount)
    PROVE  Inv'
<1> DEFINE w == Beginning(r, "create", "draft", amount)
<1>1. TypeOf[r] \in Types
  BY TypeOfAssumption
<1>2. "draft" \in StatusesOf(TypeOf[r]) /\ amount \in Nat
  BY <1>1, Tables, TotalsAssumption
<1>3. status[r] = "absent" /\ ~Busy(r)
  BY DEF AskCreate
<1>4. /\ flow[r] = "none" /\ approvals[r] = 0 /\ collected[r] = 0
  BY <1>3 DEF Inv, RecordSound, Lineage
<1>5. ParentOf[r] # NoRecord => approvals[ParentOf[r]] > 0
  <2>1. SUFFICES ASSUME ParentOf[r] # NoRecord PROVE approvals[ParentOf[r]] > 0
    OBVIOUS
  <2>2. /\ ParentOf[r] \in Records /\ Managed(ParentOf[r])
        /\ status[ParentOf[r]] \in Gate(r)
    BY <2>1, ParentAssumption DEF AskCreate, Managed, ManagedTypes
  <2>3. status[ParentOf[r]] \notin Pending
    BY <2>2 DEF Gate, CertificateGate, InvoiceGate, Pending
  <2>4. approvals[ParentOf[r]] # 0 /\ approvals[ParentOf[r]] \in Nat
    BY <2>2, <2>3 DEF Inv, TypeOK, RecordSound, ApprovalFirst
  <2>5. QED
    BY <2>4
<1>6. Lineage(r)'
  <2>1. ASSUME NEW p \in Requests, On(p, r)' PROVE work'[p].at = "create"
    <3>1. work' = [work EXCEPT ![q] = w]
      BY DEF AskCreate, Begin, Beginning
    <3>2. CASE p = q
      BY <3>1, <3>2 DEF Inv, TypeOK, Beginning
    <3>3. CASE p # q
      BY <1>3, <2>1, <3>1, <3>3 DEF Inv, TypeOK, On, Busy
    <3>4. QED
      BY <3>2, <3>3
  <2>2. QED
    BY <1>3, <1>4, <1>5, <2>1 DEF Lineage, AskCreate
<1>7. CallSound(w) /\ Innocent(w) /\ ~Bills(w)
  BY <1>2 DEF CallSound, Innocent, Bills, Beginning, Pending
<1>8. Fresh(w)
  BY <1>3 DEF Fresh, Beginning
<1>9. QED
  BY <1>2, <1>6, <1>7, <1>8, BeginKeepsInv DEF AskCreate, Stages

(* The other calls of users begin on a record that is there.               *)
LEMMA AskKeepsInv ==
    ASSUME Inv, NEW q \in Requests, NEW r \in Records, Exists(r), NEW stage \in Stages,
           NEW to \in StatusesOf(TypeOf[r]), NEW amount \in Nat, Begin(q, r, stage, to, amount),
           UNCHANGED <<status, flow, counter, given, posted, total, collected, approvals>>,
           CallSound(Beginning(r, stage, to, amount)), stage \notin {"handle", "post"},
           Managed(r) /\ approvals[r] = 0 => Innocent(Beginning(r, stage, to, amount)),
           Bills(Beginning(r, stage, to, amount)) => Numbered(r),
           r \notin disturbed' /\ r \notin disturbed /\ Settled(r) =>
               Fresh(Beginning(r, stage, to, amount))
    PROVE  Inv'
<1>1. ASSUME r \notin disturbed' PROVE r \notin disturbed /\ Settled(r)
  <2>1. r \notin disturbed /\ \A p \in Requests : ~On(p, r)
    BY <1>1 DEF Begin, Busy, On
  <2>2. QED
    BY <2>1 DEF Inv, RecordSound, Orderly
<1>2. Lineage(r)'
  <2>1. ParentOf[r] # NoRecord => approvals[ParentOf[r]] > 0
    BY DEF Inv, RecordSound, Lineage, Exists
  <2>2. QED
    BY <2>1 DEF Lineage, Exists
<1>3. QED
  BY <1>1, <1>2, BeginKeepsInv

(* The edit of an invoice touches no status.                               *)
LEMMA AskEditKeepsInv ==
    ASSUME Inv, NEW q \in Requests, NEW r \in Records, NEW amount \in Totals[r],
           AskEdit(q, r, amount)
    PROVE  Inv'
<1> DEFINE w == Beginning(r, "edit", status[r], amount)
<1>1. TypeOf[r] = "ti" /\ status[r] \in {"draft", "returned"} /\ amount \in Nat
  BY TotalsAssumption DEF AskEdit
<1>2. status[r] \in StatusesOf(TypeOf[r])
  BY DEF Inv, TypeOK, Legal
<1>3. Exists(r) /\ ~Managed(r)
  BY <1>1 DEF Exists, Managed, ManagedTypes
<1>4. CallSound(w) /\ ~Bills(w) /\ Fresh(w)
  BY <1>1, <1>2 DEF CallSound, Bills, Fresh, Beginning
<1>5. QED
  BY <1>1, <1>2, <1>3, <1>4, AskKeepsInv DEF AskEdit, Stages

(* A deletion has read a draft.                                            *)
LEMMA AskDeleteKeepsInv ==
    ASSUME Inv, NEW q \in Requests, NEW r \in Records, AskDelete(q, r)
    PROVE  Inv'
<1> DEFINE w == Beginning(r, "remove", "deleted", 0)
<1>1. TypeOf[r] \in Types
  BY TypeOfAssumption
<1>2. status[r] = "draft" /\ "deleted" \in StatusesOf(TypeOf[r])
  BY <1>1, Tables DEF AskDelete
<1>3. CallSound(w) /\ Innocent(w) /\ ~Bills(w) /\ Fresh(w)
  BY <1>2 DEF CallSound, Innocent, Bills, Fresh, Beginning, Pending
<1>4. QED
  BY <1>2, <1>3, AskKeepsInv DEF AskDelete, Exists, Stages

(* A transition asked for by a user has checked the table: it neither      *)
(* leaves the approval phase nor contradicts the workflow, whose outcome   *)
(* the record shows if its calls did not overlap.                          *)
LEMMA AskMoveKeepsInv ==
    ASSUME Inv, NEW q \in Requests, NEW r \in Records, NEW to, Exists(r), Ask(q, r, to)
    PROVE  Inv'
<1> DEFINE w == Beginning(r, "write", to, 0)
           t == TypeOf[r]
<1>1. t \in Types
  BY TypeOfAssumption
<1>2. /\ status[r] \notin Table[t].final /\ <<status[r], to>> \in Table[t].moves
      /\ to \notin Table[t].managed /\ Begin(q, r, "write", to, 0)
  BY DEF Ask
<1>3. to \in StatusesOf(t) \ {"absent", "deleted", "draft"}
  BY <1>1, <1>2, Tables
<1>4. w.at = "write" /\ w.rec = r /\ w.to = to
  BY DEF Beginning
<1>5. CallSound(w)
  BY <1>3, <1>4 DEF CallSound
<1>6. ASSUME Managed(r), approvals[r] = 0 PROVE Innocent(w)
  <2>1. status[r] \in Pending
    BY <1>6 DEF Inv, RecordSound, ApprovalFirst
  <2>2. to \in InReview
    BY <1>2, <1>6, <2>1, ManagedTables DEF Managed
  <2>3. QED
    BY <1>4, <2>2 DEF Innocent, InReview, Pending
<1>7. ASSUME Bills(w) PROVE Numbered(r)
  <2>1. t = "ti" /\ to \in Billed \ {"issued"}
    BY <1>4, <1>7 DEF Bills
  <2>2. status[r] \in Billed
    BY <1>2, <2>1, InvoiceTables
  <2>3. QED
    BY <2>1, <2>2 DEF Inv, RecordSound, Billing
<1>8. ASSUME r \notin disturbed, Settled(r) PROVE Fresh(w)
  <2>1. flow[r] # "rejected"
    BY <1>1, <1>2, <1>8, Tables DEF Settled, Exists
  <2>2. ASSUME Managed(r), flow[r] = "approved" PROVE to \notin Pending
    BY <1>2, <1>8, <2>2, ManagedTables DEF Settled, Managed
  <2>3. ASSUME Managed(r), flow[r] \in Running PROVE to \in InReview
    <3>1. status[r] \in InReview
      BY <1>8, <2>3 DEF Inv, RecordSound, Orderly
    <3>2. status[r] \in Pending
      BY <3>1 DEF InReview, Pending
    <3>3. QED
      BY <1>2, <2>3, <3>2, ManagedTables DEF Managed
  <2>4. Agrees(w)
    BY <1>4, <2>1, <2>2, <2>3 DEF Agrees
  <2>5. Followed(w)
    BY <1>2, <1>4, KpiTables DEF Followed, Counts
  <2>6. QED
    BY <1>2, <1>4, <2>4, <2>5 DEF Fresh
<1>9. QED
  BY <1>2, <1>3, <1>5, <1>6, <1>7, <1>8, AskKeepsInv DEF Ask, Stages

(* A payment begins on an issued invoice.                                  *)
LEMMA AskCollectKeepsInv ==
    ASSUME Inv, NEW q \in Requests, NEW r \in Records, NEW amount \in Payments,
           AskCollect(q, r, amount)
    PROVE  Inv'
<1> DEFINE w == Beginning(r, "sum", status[r], amount)
<1>1. /\ TypeOf[r] = "ti" /\ status[r] \in Collectable /\ amount \in Nat
  BY PaymentsAssumption DEF AskCollect
<1>2. status[r] \in StatusesOf(TypeOf[r])
  BY DEF Inv, TypeOK, Legal
<1>3. Exists(r) /\ ~Managed(r) /\ status[r] \in Billed
  BY <1>1 DEF Exists, Managed, ManagedTypes, Collectable, Billed
<1>4. CallSound(w)
  BY <1>1, <1>2, <1>3 DEF CallSound, Beginning, Exists
<1>5. Numbered(r)
  BY <1>1, <1>3 DEF Inv, RecordSound, Billing
<1>6. ASSUME Settled(r) PROVE Fresh(w)
  <2>1. flow[r] # "rejected"
    BY <1>1, <1>3, <1>6, InvoiceTables DEF Settled, Exists
  <2>2. QED
    BY <1>1, <2>1 DEF Fresh, Beginning
<1>7. QED
  BY <1>1, <1>2, <1>3, <1>4, <1>5, <1>6, AskKeepsInv DEF AskCollect, Stages

-----------------------------------------------------------------------------
(* The workflow engine *)

(* An outcome that is not an approval leaves the record in its approval    *)
(* phase, and the engine decides only on a record in review.               *)
LEMMA DecideKeepsInv ==
    ASSUME Inv, NEW q \in Requests, NEW r \in Records, status[r] # "absent",
           NEW outcome \in Outcomes, Decide(q, r, outcome)
    PROVE  Inv'
<1> DEFINE t == TypeOf[r]
           to == Handlers[t].outcome[outcome]
           w == Beginning(r, "handle", to, 0)
<1>1. t \in Types
  BY TypeOfAssumption
<1>2. to \in StatusesOf(t) \ {"absent", "deleted", "draft"}
  BY <1>1, Tables
<1>3. w \in Work /\ w # NoWork
  BY <1>1, <1>2, NoCommercialWork DEF Work, Beginning, Statuses, Stages
<1>4. w.at = "handle" /\ w.rec = r /\ w.to = to
  BY DEF Beginning
<1>5. /\ work' = [work EXCEPT ![q] = w] /\ work[q] = NoWork
      /\ flow[r] \in Running /\ flow' = [flow EXCEPT ![r] = outcome]
      /\ UNCHANGED <<status, counter, given, posted, total, collected>>
  BY DEF Decide, Begin, Beginning, Running
<1>6. /\ approvals' \in [Records -> Nat]
      /\ \A s \in Records \ {r} : approvals'[s] = approvals[s]
      /\ approvals'[r] >= approvals[r]
      /\ outcome = "approved" => approvals'[r] # 0
      /\ outcome # "approved" => approvals'[r] = approvals[r]
  BY DEF Decide, Inv, TypeOK
<1>7. flow' \in [Records -> FlowStatuses] /\ disturbed' \subseteq Records
  BY <1>5 DEF Decide, Begin, Inv, TypeOK, FlowStatuses, Outcomes
<1>8. /\ \A s \in Records \ {r} : flow'[s] = flow[s] /\ (s \in disturbed' <=> s \in disturbed)
      /\ flow'[r] = outcome
  BY <1>5 DEF Decide, Begin, Inv, TypeOK
<1>9. \A s \in Records : approvals[s] > 0 => approvals'[s] > 0
  BY <1>6 DEF Inv, TypeOK
<1> HIDE DEF w
<1>10. StepOn(q, r, w)
  BY <1>4, <1>5, <1>6, <1>8, <1>9 DEF StepOn
<1>11. ASSUME work' \in [Requests -> Work \cup {NoWork}] PROVE TypeOK'
  BY <1>5, <1>6, <1>7, <1>11 DEF Inv, TypeOK
<1>12. CallSound(w) /\ ~Bills(w)
  BY <1>2, <1>4 DEF CallSound, Bills
<1>13. ASSUME Managed(r), approvals'[r] = 0
       PROVE  approvals[r] = 0 /\ status'[r] \in Pending /\ Innocent(w)
  <2>1. outcome # "approved" /\ approvals[r] = 0
    BY <1>6, <1>13
  <2>2. to = outcome /\ to \in Pending
    BY <1>13, <2>1, ManagedTables DEF Managed, Outcomes, Pending
  <2>3. QED
    BY <1>4, <1>5, <1>13, <2>1, <2>2 DEF Inv, RecordSound, ApprovalFirst, Innocent
<1>14. ASSUME r \notin disturbed'
       PROVE  /\ r \notin disturbed /\ \A p \in Requests \ {q} : ~On(p, r)
              /\ Managed(r) => status'[r] \in InReview
              /\ Backed(r)' /\ Fresh(w)'
  <2>1. r \notin disturbed /\ \A p \in Requests : ~On(p, r)
    BY <1>14 DEF Decide, Begin, Busy, On
  <2>2. Managed(r) => status[r] \in InReview
    BY <1>5, <2>1 DEF Inv, RecordSound, Orderly
  <2>3. Backed(r)'
    BY <1>5, <2>1 DEF Inv, RecordSound, Orderly, Backed, Counts
  <2>4. Agrees(w)'
    <3>1. outcome = "rejected" => to = Handlers[t].outcome["rejected"]
      OBVIOUS
    <3>2. Managed(r) /\ outcome = "approved" => to \notin Pending
      BY ManagedTables DEF Managed
    <3>3. Managed(r) /\ outcome \in Running => to \in InReview
      BY ManagedTables DEF Managed, Running, Outcomes, InReview
    <3>4. QED
      BY <1>4, <1>8, <3>1, <3>2, <3>3 DEF Agrees, Managed
  <2>5. Fresh(w)'
    BY <1>4, <1>5, <2>2, <2>4 DEF Fresh, Managed
  <2>6. QED
    BY <1>5, <2>1, <2>2, <2>3, <2>5
<1>15. /\ collected[r] > 0 => Numbered(r)
       /\ TypeOf[r] = "ti" /\ status[r] \in Billed => Numbered(r)
  BY DEF Inv, RecordSound, Billing
<1>16. (Numbered(r)' <=> Numbered(r)) /\ Lineage(r)'
  BY <1>3, <1>5, <1>10, LineageKept DEF Numbered
<1>17. RecordSound(r)'
  <2>1. r \notin disturbed' /\ Managed(r) => status'[r] \notin {"draft", "deleted"}
    BY <1>14 DEF InReview
  <2>2. QED
    BY <1>3, <1>4, <1>5, <1>10, <1>12, <1>13, <1>14, <1>15, <1>16, <2>1, RecordKept
<1>18. QED
  BY <1>3, <1>10, <1>11, <1>12, <1>17, StepKeepsInv

(* A workflow that goes on or is cancelled moves no call; the free request *)
(* of the step stays free.                                                 *)
LEMMA FlowKeepsInv ==
    ASSUME Inv, NEW r \in Records, Free, Advance(r) \/ CancelFlow(r)
    PROVE  Inv'
<1>1. PICK q \in Requests : work[q] = NoWork
  BY DEF Free
<1>2. /\ flow[r] \in Running /\ flow'[r] \in {"in_progress", "cancelled"}
      /\ flow' \in [Records -> FlowStatuses]
      /\ \A s \in Records \ {r} : flow'[s] = flow[s]
      /\ flow'[r] = "in_progress" => flow[r] \in Running
      /\ UNCHANGED <<status, counter, given, posted, total, collected, work, approvals, disturbed>>
  BY DEF Advance, CancelFlow, Running, FlowStatuses, Inv, TypeOK
<1>3. work' = [work EXCEPT ![q] = NoWork]
  BY <1>1, <1>2 DEF Inv, TypeOK
<1>4. StepOn(q, r, NoWork)
  BY <1>1, <1>2, <1>3 DEF StepOn
<1>5. TypeOK' /\ CallsSound'
  BY <1>2 DEF Inv, TypeOK, CallsSound, CallSound
<1>6. RecordSound(r)
  BY DEF Inv
<1>7. \A p \in Requests : On(p, r)' <=> On(p, r)
  BY <1>2 DEF On
<1>8. ApprovalFirst(r)' /\ Billing(r)'
  BY <1>2, <1>6, <1>7 DEF RecordSound, ApprovalFirst, Billing, Innocent, Bills, Numbered
<1>9. Lineage(r)'
  <2>1. status[r] # "absent"
    BY <1>2, <1>6 DEF RecordSound, Lineage, Running
  <2>2. QED
    BY <1>2, <1>4, <2>1, LineageKept
<1>10. Orderly(r)'
  <2>1. SUFFICES ASSUME r \notin disturbed PROVE Orderly(r)'
    BY <1>2 DEF Orderly
  <2>2. Settled(r)'
    BY <1>2 DEF Settled
  <2>3. Backed(r)' <=> Backed(r)
    BY <1>2 DEF Backed, Counts
  <2>4. Managed(r) => status[r] \in InReview
    BY <1>2, <1>6, <2>1 DEF RecordSound, Orderly
  <2>5. ASSUME NEW p \in Requests, On(p, r) PROVE Fresh(work[p])'
    <3>1. Fresh(work[p]) /\ work[p].rec = r
      BY <1>6, <2>1, <2>5 DEF RecordSound, Orderly, On
    <3>2. /\ Agrees(work[p]) => Agrees(work[p])'
          /\ Followed(work[p]) => Followed(work[p])'
          /\ Posting(work[p]) => Posting(work[p])'
      BY <1>2, <3>1 DEF Agrees, Followed, Posting, Managed, Counts, Running
    <3>3. QED
      BY <1>2, <3>1, <3>2 DEF Fresh, Managed
  <2>6. QED
    BY <1>2, <1>6, <1>7, <2>1, <2>2, <2>3, <2>4, <2>5 DEF RecordSound, Orderly, InReview, Managed
<1>11. QED
  BY <1>4, <1>5, <1>8, <1>9, <1>10, StepKeepsInv DEF RecordSound

-----------------------------------------------------------------------------
(* The queries of a call *)

(* What the invariant says of the call that moves and of its record.       *)
LEMMA Moving ==
    ASSUME Inv, NEW q \in Requests, work[q] # NoWork
    PROVE  /\ work[q] \in Work /\ work[q].rec \in Records
           /\ TypeOf[work[q].rec] \in Types /\ CallSound(work[q])
           /\ RecordSound(work[q].rec) /\ On(q, work[q].rec) /\ Busy(work[q].rec)
           /\ work[q].at # "create" => status[work[q].rec] # "absent"
           /\ work[q].rec \notin disturbed =>
                 Fresh(work[q]) /\ \A p \in Requests \ {q} : ~On(p, work[q].rec)
<1>1. work[q] \in Work /\ CallSound(work[q])
  BY DEF Inv, TypeOK, CallsSound
<1>2. work[q].rec \in Records /\ On(q, work[q].rec) /\ Busy(work[q].rec)
  BY <1>1 DEF Work, On, Busy
<1>3. RecordSound(work[q].rec) /\ TypeOf[work[q].rec] \in Types
  BY <1>2, TypeOfAssumption DEF Inv
<1>4. QED
  BY <1>1, <1>2, <1>3 DEF RecordSound, Lineage, Orderly

(* GoTo moves a call to another stage and leaves the rest of it alone.     *)
LEMMA GoesTo ==
    ASSUME Inv, NEW q \in Requests, work[q] # NoWork, NEW stage \in Stages, GoTo(q, stage)
    PROVE  \E w \in Work :
               /\ work' = [work EXCEPT ![q] = w] /\ w # NoWork
               /\ w.at = stage /\ w.rec = work[q].rec /\ w.to = work[q].to
               /\ w.amount = work[q].amount
<1> DEFINE w == [work[q] EXCEPT !.at = stage]
<1>1. work[q] \in Work
  BY Moving
<1>2. w \in Work
  BY <1>1 DEF Work
<1>3. w.at = stage /\ w.rec = work[q].rec /\ w.to = work[q].to /\ w.amount = work[q].amount
  BY <1>1 DEF Work
<1>4. work' = [work EXCEPT ![q] = w]
  BY DEF GoTo, Inv, TypeOK
<1>5. QED
  BY <1>2, <1>3, <1>4, NoCommercialWork

(* Taking a number gives one to the record, and only to it.                *)
LEMMA Takes ==
    ASSUME TypeOK, NEW r \in Records, NEW code \in Codes \cup {"none"}, Take(code, r)
    PROVE  /\ counter' \in [Codes -> Nat] /\ given' \subseteq Codes \X Nat \X Records
           /\ given \subseteq given' /\ \A g \in given' : g \in given \/ g[3] = r
           /\ code = "none" => given' = given
           /\ code # "none" => \E g \in given' : g[1] = code /\ g[3] = r
<1>1. CASE code = "none"
  BY <1>1 DEF Take, TypeOK
<1>2. CASE code # "none"
  <2> DEFINE g == <<code, counter[code] + 1, r>>
  <2>1. counter[code] + 1 \in Nat
    BY <1>2 DEF TypeOK
  <2>2. counter' = [counter EXCEPT ![code] = @ + 1] /\ given' = given \cup {g}
    BY <1>2 DEF Take
  <2>3. counter' \in [Codes -> Nat]
    BY <1>2, <2>1, <2>2 DEF TypeOK
  <2>4. g \in Codes \X Nat \X Records /\ g[1] = code /\ g[3] = r
    BY <1>2, <2>1
  <2> HIDE DEF g
  <2>5. QED
    BY <1>2, <2>2, <2>3, <2>4 DEF TypeOK
<1>3. QED
  BY <1>1, <1>2

(* A call that ends without a trace leaves a record as it was.             *)
LEMMA EndKeepsInv ==
    ASSUME Inv, NEW q \in Requests, work[q] # NoWork, work' = [work EXCEPT ![q] = NoWork],
           UNCHANGED <<status, flow, counter, given, posted, collected, approvals>>,
           total' \in [Records -> Nat], \A s \in Records \ {work[q].rec} : total'[s] = total[s],
           \/ disturbed' = disturbed \cup {work[q].rec}
           \/ /\ disturbed' = disturbed
              /\ work[q].rec \notin disturbed => Settled(work[q].rec) /\ Backed(work[q].rec),
           work[q].at # "create" \/ disturbed' = disturbed \cup {work[q].rec}
    PROVE  Inv'
<1>1. PICK r \in Records :
          /\ r = work[q].rec /\ RecordSound(r) /\ Busy(r)
          /\ work[q].at # "create" => status[r] # "absent"
          /\ r \notin disturbed => \A p \in Requests \ {q} : ~On(p, r)
  BY Moving
<1>2. StepOn(q, r, NoWork)
  BY <1>1 DEF StepOn
<1>3. ASSUME work' \in [Requests -> Work \cup {NoWork}] PROVE TypeOK'
  BY <1>1, <1>3 DEF Inv, TypeOK
<1>4. \A p \in Requests : On(p, r)' => On(p, r) /\ work'[p] = work[p]
  BY <1>1, <1>2, TheCalls DEF Inv, On
<1>5. ApprovalFirst(r)' /\ Billing(r)'
  BY <1>1, <1>4 DEF RecordSound, ApprovalFirst, Billing, Innocent, Bills, Numbered
<1>6. Lineage(r)'
  BY <1>1, <1>4 DEF RecordSound, Lineage, Busy, On
<1>7. Orderly(r)'
  <2>1. SUFFICES ASSUME r \notin disturbed' PROVE Orderly(r)'
    BY DEF Orderly
  <2>2. /\ r \notin disturbed /\ Settled(r) /\ Backed(r)
        /\ \A p \in Requests : ~On(p, r)'
    BY <1>1, <1>2, <2>1, TheCalls DEF Inv
  <2>3. Settled(r)' /\ Backed(r)'
    BY <2>2 DEF Settled, Backed, Counts, Managed
  <2>4. QED
    BY <1>1, <2>2, <2>3 DEF RecordSound, Orderly, Managed
<1>8. QED
  BY <1>1, <1>2, <1>3, <1>5, <1>6, <1>7, StepKeepsInv DEF RecordSound

(* A call that is cut off disturbs its record.                             *)
LEMMA CutOffKeepsInv ==
    ASSUME Inv, NEW q \in Requests, CutOff(q)
    PROVE  Inv'
<1>1. total' \in [Records -> Nat] /\ \A s \in Records : total'[s] = total[s]
  BY DEF CutOff, Inv, TypeOK
<1>2. QED
  BY <1>1, EndKeepsInv DEF CutOff, Done

(* The row, its number and its workflow.                                   *)
LEMMA CreateKeepsInv ==
    ASSUME Inv, NEW q \in Requests, Create(q)
    PROVE  Inv'
<1>1. work[q] # NoWork /\ work[q].at = "create"
  BY DEF Create, At
<1>2. PICK r \in Records :
          /\ r = work[q].rec /\ TypeOf[r] \in Types /\ RecordSound(r) /\ Busy(r)
          /\ r \notin disturbed => Fresh(work[q]) /\ \A p \in Requests \ {q} : ~On(p, r)
          /\ work[q].amount \in Nat
  BY <1>1, Moving DEF Work
<1> DEFINE t == TypeOf[r]
<1>3. /\ status' = [status EXCEPT ![r] = "draft"] /\ total' = [total EXCEPT ![r] = work[q].amount]
      /\ Take(Service[t].code.register, r)
      /\ flow' \in {flow, [flow EXCEPT ![r] = "in_progress"]}
      /\ flow' # flow => Service[t].seeds
      /\ work' = [work EXCEPT ![q] = NoWork]
      /\ UNCHANGED <<posted, collected, approvals, disturbed>>
  BY <1>2 DEF Create, Done
<1>4. Service[t].code.register \in Codes \cup {"none"} /\ "draft" \in StatusesOf(t)
  BY <1>2, Tables
<1>5. /\ counter' \in [Codes -> Nat] /\ given' \subseteq Codes \X Nat \X Records
      /\ given \subseteq given' /\ \A g \in given' : g \in given \/ g[3] = r
      /\ Service[t].code.register = "none" => given' = given
  BY <1>2, <1>3, <1>4, Takes DEF Inv
<1>6. Managed(r) => given' = given /\ flow' = flow
  BY <1>3, <1>5, ManagedTables DEF Managed
<1>7. StepOn(q, r, NoWork)
  BY <1>2, <1>3, <1>5 DEF StepOn, Inv, TypeOK
<1>8. /\ status' \in [Records -> Statuses] /\ \A s \in Records : <<TypeOf[s], status'[s]>> \in Legal
      /\ total' \in [Records -> Nat] /\ flow' \in [Records -> FlowStatuses]
  BY <1>2, <1>3, <1>4 DEF Inv, TypeOK, Legal, Statuses, FlowStatuses
<1>9. ASSUME work' \in [Requests -> Work \cup {NoWork}] PROVE TypeOK'
  BY <1>3, <1>5, <1>8, <1>9 DEF Inv, TypeOK
<1>10. status'[r] = "draft"
  BY <1>2, <1>3 DEF Inv, TypeOK
<1>11. Lineage(r)'
  BY <1>2, <1>7, <1>10, LineageKept
<1>12. collected'[r] > 0 => Numbered(r)'
  BY <1>2, <1>3, <1>5 DEF RecordSound, Billing, Numbered
<1>13. ASSUME r \notin disturbed'
       PROVE  /\ r \notin disturbed /\ \A p \in Requests \ {q} : ~On(p, r)
              /\ Managed(r) => flow'[r] = "none"
              /\ Settled(r)' /\ Backed(r)'
  <2>1. r \notin disturbed /\ (\A p \in Requests \ {q} : ~On(p, r)) /\ status[r] = "absent"
    BY <1>1, <1>2, <1>3, <1>13 DEF Fresh
  <2>2. flow[r] = "none" /\ flow'[r] \in {"none", "in_progress"}
    BY <1>2, <1>3, <2>1 DEF RecordSound, Lineage, Inv, TypeOK
  <2>3. Settled(r)'
    BY <2>2 DEF Settled
  <2>4. Backed(r)
    BY <1>1, <1>2, <2>1 DEF RecordSound, Orderly, On
  <2>5. \A kpi \in Kpis : Counts(kpi, r) =>
            status[r] \notin StatusFilter[kpi] /\ status'[r] \notin StatusFilter[kpi]
    BY <1>10, <2>1, KpiTables DEF Counts
  <2>6. Backed(r)'
    BY <1>3, <2>4, <2>5 DEF Backed, Counts
  <2>7. QED
    BY <1>6, <2>1, <2>2, <2>3, <2>6
<1>14. RecordSound(r)'
  BY <1>2, <1>3, <1>5, <1>6, <1>7, <1>10, <1>11, <1>12, <1>13, RecordKept
     DEF Pending, Billed, Running
<1>15. QED
  BY <1>2, <1>7, <1>9, <1>14, StepKeepsInv

(* The edit of a total.                                                    *)
LEMMA EditKeepsInv ==
    ASSUME Inv, NEW q \in Requests, Edit(q)
    PROVE  Inv'
<1>1. work[q] # NoWork /\ work[q].at = "edit"
  BY DEF Edit, At
<1>2. PICK r \in Records : r = work[q].rec /\ work[q].amount \in Nat /\ RecordSound(r) /\ On(q, r)
                           /\ (r \notin disturbed => \A p \in Requests \ {q} : ~On(p, r))
  BY <1>1, Moving DEF Work
<1>3. total' \in [Records -> Nat] /\ \A s \in Records \ {r} : total'[s] = total[s]
  BY <1>2 DEF Edit, Inv, TypeOK
<1>4. r \notin disturbed => Settled(r) /\ Backed(r)
  BY <1>1, <1>2 DEF RecordSound, Orderly
<1>5. QED
  BY <1>1, <1>2, <1>3, <1>4, EndKeepsInv DEF Edit, Done

(* Only a draft goes, if its calls do not overlap.                         *)
LEMMA RemoveKeepsInv ==
    ASSUME Inv, NEW q \in Requests, Remove(q)
    PROVE  Inv'
<1>1. work[q] # NoWork /\ work[q].at = "remove"
  BY DEF Remove, At
<1>2. PICK r \in Records :
          /\ r = work[q].rec /\ TypeOf[r] \in Types /\ RecordSound(r) /\ Busy(r) /\ On(q, r)
          /\ status[r] # "absent"
          /\ r \notin disturbed => Fresh(work[q]) /\ \A p \in Requests \ {q} : ~On(p, r)
  BY <1>1, Moving
<1>3. /\ status' \in {status, [status EXCEPT ![r] = "deleted"]}
      /\ work' = [work EXCEPT ![q] = NoWork]
      /\ UNCHANGED <<flow, counter, given, posted, total, collected, approvals, disturbed>>
  BY <1>2 DEF Remove, Done
<1>4. "deleted" \in StatusesOf(TypeOf[r])
  BY <1>2, Tables
<1>5. /\ status' \in [Records -> Statuses] /\ \A s \in Records : <<TypeOf[s], status'[s]>> \in Legal
      /\ status'[r] \in {status[r], "deleted"} /\ \A s \in Records \ {r} : status'[s] = status[s]
  BY <1>2, <1>3, <1>4 DEF Inv, TypeOK, Legal, Statuses
<1>6. StepOn(q, r, NoWork)
  BY <1>2, <1>3, <1>5 DEF StepOn
<1>7. ASSUME work' \in [Requests -> Work \cup {NoWork}] PROVE TypeOK'
  BY <1>3, <1>5, <1>7 DEF Inv, TypeOK
<1>8. Lineage(r)'
  BY <1>2, <1>5, <1>6, LineageKept
<1>9. /\ collected'[r] > 0 => Numbered(r)'
      /\ TypeOf[r] = "ti" /\ status'[r] \in Billed => Numbered(r)'
      /\ Managed(r) /\ approvals[r] = 0 => status'[r] \in Pending
  BY <1>2, <1>3, <1>5 DEF RecordSound, Billing, Numbered, Billed, ApprovalFirst, Pending
<1>10. ASSUME r \notin disturbed'
       PROVE  /\ r \notin disturbed /\ \A p \in Requests \ {q} : ~On(p, r)
              /\ Managed(r) => flow'[r] = "none"
              /\ Settled(r)' /\ Backed(r)'
  <2>1. r \notin disturbed /\ (\A p \in Requests \ {q} : ~On(p, r)) /\ status[r] = "draft"
    BY <1>1, <1>2, <1>3, <1>10 DEF Fresh
  <2>2. (Managed(r) => flow[r] = "none") /\ Settled(r) /\ Backed(r)
    BY <1>1, <1>2, <2>1 DEF RecordSound, Orderly, On
  <2>3. Settled(r)'
    BY <1>3, <1>5, <2>2 DEF Settled, Managed
  <2>4. \A kpi \in Kpis : Counts(kpi, r) =>
            status[r] \notin StatusFilter[kpi] /\ status'[r] \notin StatusFilter[kpi]
    BY <1>5, <2>1, KpiTables DEF Counts
  <2>5. Backed(r)'
    BY <1>3, <2>2, <2>4 DEF Backed, Counts
  <2>6. QED
    BY <1>3, <2>1, <2>2, <2>3, <2>5
<1>11. RecordSound(r)'
  BY <1>2, <1>3, <1>6, <1>8, <1>9, <1>10, RecordKept DEF Running
<1>12. QED
  BY <1>2, <1>6, <1>7, <1>11, StepKeepsInv

(* A handler finds its record in review and goes on to write the outcome,  *)
(* or leaves a record that shows it.                                       *)
LEMMA HandleKeepsInv ==
    ASSUME Inv, NEW q \in Requests, Handle(q)
    PROVE  Inv'
<1>1. work[q] # NoWork /\ work[q].at = "handle"
  BY DEF Handle, At
<1>2. PICK r \in Records :
          /\ r = work[q].rec /\ TypeOf[r] \in Types /\ RecordSound(r) /\ Busy(r) /\ On(q, r)
          /\ status[r] # "absent" /\ CallSound(work[q])
          /\ r \notin disturbed => Fresh(work[q]) /\ \A p \in Requests \ {q} : ~On(p, r)
  BY <1>1, Moving
<1> DEFINE to == work[q].to
<1>3. UNCHANGED <<status, flow, counter, given, posted, total, collected, approvals, disturbed>>
  BY DEF Handle
<1>4. r \notin disturbed => Backed(r) /\ Agrees(work[q]) /\ (Managed(r) => status[r] \in InReview)
  BY <1>1, <1>2 DEF RecordSound, Orderly, Fresh
<1>5. CASE ~Exists(r) \/ status[r] = to
  <2>1. Done(q)
    BY <1>2, <1>5 DEF Handle
  <2>2. ASSUME r \notin disturbed PROVE Settled(r)
    <3>1. status[r] = to \/ status[r] = "deleted"
      BY <1>2, <1>5 DEF Exists
    <3>2. CASE status[r] = to
      BY <1>2, <1>4, <2>2, <3>2 DEF Agrees, Settled
    <3>3. CASE status[r] = "deleted"
      BY <1>4, <2>2, <3>3 DEF InReview, Settled
    <3>4. QED
      BY <3>1, <3>2, <3>3
  <2>3. QED
    BY <1>1, <1>2, <1>3, <1>4, <2>1, <2>2, EndKeepsInv DEF Done, Inv, TypeOK
<1>6. CASE Exists(r) /\ status[r] # to
  <2>1. PICK w \in Work : /\ work' = [work EXCEPT ![q] = w] /\ w # NoWork
                          /\ w.at = "write" /\ w.rec = r /\ w.to = to
    <3>1. GoTo(q, "write")
      BY <1>2, <1>6 DEF Handle
    <3>2. QED
      BY <1>1, <1>2, <3>1, GoesTo DEF Stages
  <2>2. CallSound(w)
    BY <1>1, <1>2, <2>1 DEF CallSound
  <2>3. StepOn(q, r, w)
    BY <1>2, <1>3, <2>1 DEF StepOn
  <2>4. ASSUME work' \in [Requests -> Work \cup {NoWork}] PROVE TypeOK'
    BY <1>3, <2>4 DEF Inv, TypeOK
  <2>5. ~Bills(w)
    BY <1>1, <1>2, <2>1, InvoiceTables DEF Bills, CallSound
  <2>6. Managed(r) /\ approvals[r] = 0 => Innocent(w) /\ status[r] \in Pending
    BY <1>1, <1>2, <2>1 DEF RecordSound, ApprovalFirst, Innocent
  <2>7. Lineage(r)'
    BY <1>2, <1>3, <2>3, LineageKept
  <2>8. /\ collected'[r] > 0 => Numbered(r)'
        /\ TypeOf[r] = "ti" /\ status'[r] \in Billed => Numbered(r)'
    BY <1>2, <1>3 DEF RecordSound, Billing, Numbered
  <2>9. ASSUME r \notin disturbed' PROVE Backed(r)' /\ Fresh(w)'
    <3>1. r \notin disturbed
      BY <1>3, <2>9
    <3>2. Backed(r)'
      BY <1>3, <1>4, <3>1 DEF Backed, Counts
    <3>3. Agrees(w)
      BY <1>2, <1>4, <2>1, <3>1 DEF Agrees
    <3>4. Followed(w)
      <4>1. ASSUME NEW kpi \in Kpis, Counts(kpi, r), to \in StatusFilter[kpi] PROVE to = Backing[kpi]
        BY <1>1, <1>2, <4>1, KpiTables DEF Counts, CallSound
      <4>2. ASSUME NEW kpi \in Kpis, Counts(kpi, r), kpi # "total_invoiced"
            PROVE  status[r] \notin StatusFilter[kpi]
        BY <1>4, <3>1, <4>2, KpiTables DEF Counts, Managed, InReview, Pending
      <4>3. QED
        BY <2>1, <4>1, <4>2 DEF Followed
    <3>5. Managed(r) => status[r] \notin Table[TypeOf[r]].final
      BY <1>4, <3>1, ManagedTables DEF Managed
    <3>6. Fresh(w)
      BY <2>1, <3>3, <3>4, <3>5 DEF Fresh
    <3>7. Fresh(w)'
      BY <1>3, <3>6 DEF Fresh, Agrees, Followed, Posting, Managed, Counts
    <3>8. QED
      BY <3>2, <3>7
  <2>10. RecordSound(r)'
    <3>1. r \notin disturbed =>
              /\ Managed(r) => status[r] \notin {"draft", "deleted"}
              /\ Managed(r) /\ flow[r] \in Running => status[r] \in InReview
      BY <1>4 DEF InReview
    <3>2. QED
      BY <1>2, <1>3, <2>1, <2>3, <2>5, <2>6, <2>7, <2>8, <2>9, <3>1, RecordKept
  <2>11. QED
    BY <2>2, <2>3, <2>4, <2>10, StepKeepsInv
<1>7. QED
  BY <1>5, <1>6

(* The update of the status: whatever the record has become meanwhile, an  *)
(* unapproved one stays in its approval phase and an issued invoice has a  *)
(* number.                                                                 *)
LEMMA WriteKeepsInv ==
    ASSUME Inv, NEW q \in Requests, Write(q)
    PROVE  Inv'
<1>1. work[q] # NoWork /\ work[q].at = "write"
  BY DEF Write, At
<1>2. PICK r \in Records :
          /\ r = work[q].rec /\ TypeOf[r] \in Types /\ RecordSound(r) /\ Busy(r) /\ On(q, r)
          /\ status[r] # "absent" /\ CallSound(work[q])
          /\ r \notin disturbed => Fresh(work[q]) /\ \A p \in Requests \ {q} : ~On(p, r)
  BY <1>1, Moving
<1> DEFINE to == work[q].to
           t == TypeOf[r]
           code == IF to = Service[t].numbers THEN Service[t].code.issue ELSE "none"
<1>3. UNCHANGED <<flow, posted, total, collected, approvals, disturbed>>
  BY DEF Write
<1>4. /\ to \in StatusesOf(t) \ {"absent", "deleted", "draft"}
      /\ r \notin disturbed => /\ Backed(r) /\ Agrees(work[q]) /\ Followed(work[q])
                               /\ Managed(r) => status[r] \notin Table[t].final
                               /\ Managed(r) /\ status[r] \in {"draft", "deleted"} => flow[r] = "none"
  BY <1>1, <1>2 DEF RecordSound, Orderly, Fresh, CallSound
<1>5. CASE ~Exists(r)
  <2>1. Done(q) /\ UNCHANGED <<status, counter, given>>
    BY <1>2, <1>5 DEF Write
  <2>2. ASSUME r \notin disturbed PROVE Settled(r)
    BY <1>2, <1>4, <1>5, <2>2 DEF Exists, Settled
  <2>3. QED
    BY <1>1, <1>2, <1>3, <1>4, <2>1, <2>2, EndKeepsInv DEF Done, Inv, TypeOK
<1>6. CASE Exists(r)
  <2>1. status' = [status EXCEPT ![r] = to] /\ Take(code, r) /\ AfterWrite(q)
    BY <1>2, <1>6 DEF Write
  <2>2. code \in Codes \cup {"none"}
    BY <1>2, Tables
  <2>3. /\ counter' \in [Codes -> Nat] /\ given' \subseteq Codes \X Nat \X Records
        /\ given \subseteq given' /\ \A g \in given' : g \in given \/ g[3] = r
        /\ code = "none" => given' = given
        /\ code # "none" => \E g \in given' : g[1] = code /\ g[3] = r
    <3> HIDE DEF code
    <3>1. QED
      BY <2>1, <2>2, Takes DEF Inv
  <2>4. /\ status' \in [Records -> Statuses] /\ \A s \in Records : <<TypeOf[s], status'[s]>> \in Legal
        /\ status'[r] = to /\ \A s \in Records \ {r} : status'[s] = status[s]
    BY <1>2, <1>4, <2>1 DEF Inv, TypeOK, Legal, Statuses
  \* What the code goes on with.
  <2>5. PICK w \in Work \cup {NoWork} :
            /\ work' = [work EXCEPT ![q] = w]
            /\ w # NoWork => /\ w.at \in {"open", "post"} /\ w.rec = r /\ w.to = to
                             /\ w.at = "open" => to = Service[t].opens
                             /\ w.at = "post" => to \in Posts(r)
            /\ w = NoWork \/ w.at # "post" => to \notin Posts(r) \/ to = Service[t].opens
    <3>1. CASE to = Service[t].opens
      <4>1. GoTo(q, "open")
        BY <1>2, <2>1, <3>1 DEF AfterWrite
      <4>2. PICK w \in Work : work' = [work EXCEPT ![q] = w] /\ w.at = "open" /\ w.rec = r /\ w.to = to
        BY <1>1, <1>2, <4>1, GoesTo DEF Stages
      <4>3. QED
        BY <3>1, <4>2
    <3>2. CASE to # Service[t].opens /\ to \in Posts(r)
      <4>1. GoTo(q, "post")
        BY <1>2, <2>1, <3>2 DEF AfterWrite
      <4>2. PICK w \in Work : work' = [work EXCEPT ![q] = w] /\ w # NoWork /\ w.at = "post" /\ w.rec = r /\ w.to = to
        BY <1>1, <1>2, <4>1, GoesTo DEF Stages
      <4>3. QED
        BY <3>2, <4>2
    <3>3. CASE to # Service[t].opens /\ to \notin Posts(r)
      <4>1. work' = [work EXCEPT ![q] = NoWork]
        BY <1>2, <2>1, <3>3 DEF AfterWrite, Done
      <4>2. QED
        BY <3>3, <4>1
    <3>4. QED
      BY <3>1, <3>2, <3>3
  <2>6. w # NoWork => CallSound(w) /\ ~Bills(w)
    BY <1>4, <2>5 DEF CallSound, Bills
  <2>7. StepOn(q, r, w)
    BY <1>2, <1>3, <2>3, <2>4, <2>5 DEF StepOn
  <2>8. ASSUME work' \in [Requests -> Work \cup {NoWork}] PROVE TypeOK'
    BY <1>3, <2>3, <2>4, <2>8 DEF Inv, TypeOK
  <2>9. ASSUME Managed(r), approvals'[r] = 0
        PROVE  /\ approvals[r] = 0 /\ status'[r] \in Pending /\ given' = given
               /\ w # NoWork => Innocent(w)
    <3>1. approvals[r] = 0 /\ to \in Pending
      BY <1>2, <1>3, <2>9 DEF RecordSound, ApprovalFirst, Innocent
    <3>2. code = "none" /\ to \notin Posts(r)
      <4>1. t \in ManagedTypes
        BY <2>9 DEF Managed
      <4>2. to # Service[t].numbers
        BY <3>1, <4>1, ManagedTables DEF Pending
      <4>3. to \notin Posts(r)
        BY <3>1, <4>1, ManagedTables DEF Posts
      <4>4. QED
        BY <4>2, <4>3
    <3>3. QED
      BY <2>3, <2>4, <2>5, <3>1, <3>2 DEF Innocent
  <2>10. Lineage(r)'
    BY <1>2, <1>4, <2>4, <2>7, LineageKept
  <2>11. Numbered(r) => Numbered(r)'
    BY <2>3 DEF Numbered
  <2>12. ASSUME t = "ti", to \in Billed PROVE Numbered(r)'
    <3>1. CASE to = "issued"
      BY <2>3, <2>12, <3>1, InvoiceTables DEF Numbered
    <3>2. CASE to # "issued"
      BY <1>1, <1>2, <2>11, <2>12, <3>2 DEF RecordSound, Billing, Bills
    <3>3. QED
      BY <3>1, <3>2
  <2>13. collected'[r] > 0 => Numbered(r)'
    BY <1>2, <1>3, <2>11 DEF RecordSound, Billing
  <2>14. ASSUME r \notin disturbed'
         PROVE  /\ r \notin disturbed /\ \A p \in Requests \ {q} : ~On(p, r)
                /\ Managed(r) /\ flow'[r] \in Running => status'[r] \in InReview
                /\ Settled(r)' /\ (w = NoWork \/ w.at # "post" => Backed(r)')
                /\ w # NoWork => Fresh(w)'
    <3>1. /\ r \notin disturbed /\ \A p \in Requests \ {q} : ~On(p, r)
          /\ Backed(r) /\ Agrees(work[q]) /\ Followed(work[q])
      BY <1>2, <1>3, <1>4, <2>14
    <3>2. /\ flow[r] = "rejected" => to = Handlers[t].outcome["rejected"]
          /\ Managed(r) /\ flow[r] = "approved" => to \notin Pending
          /\ Managed(r) /\ flow[r] \in Running => to \in InReview
      BY <1>2, <3>1 DEF Agrees
    <3>3. Settled(r)'
      BY <1>3, <2>4, <3>2 DEF Settled, Managed
    <3>4. ASSUME NEW kpi \in Kpis, Counts(kpi, r)
          PROVE  /\ to \in StatusFilter[kpi] => <<r, Backing[kpi]>> \in posted \/ to = Backing[kpi]
                 /\ kpi # "total_invoiced" /\ (<<r, Backing[kpi]>> \in posted \/ to = Backing[kpi])
                       => to \in StatusFilter[kpi]
                 /\ to = Backing[kpi] => to \in Posts(r) /\ to # Service[t].opens
      <4>1. /\ kpi # "total_invoiced" /\ status[r] \in StatusFilter[kpi] => to \in StatusFilter[kpi]
            /\ status[r] \notin StatusFilter[kpi] /\ to \in StatusFilter[kpi] => to = Backing[kpi]
        BY <1>2, <3>1, <3>4 DEF Followed
      <4>2. /\ status[r] \in StatusFilter[kpi] => <<r, Backing[kpi]>> \in posted
            /\ kpi # "total_invoiced" /\ <<r, Backing[kpi]>> \in posted => status[r] \in StatusFilter[kpi]
        BY <3>1, <3>4 DEF Backed
      <4>3. /\ Backing[kpi] \in StatusFilter[kpi] /\ Backing[kpi] # Service[t].opens
            /\ Backing[kpi] \in Posts(r)
        BY <3>4, KpiTables DEF Counts, Posts
      <4>4. QED
        BY <4>1, <4>2, <4>3
    <3>5. w = NoWork \/ w.at # "post" => Backed(r)'
      BY <1>3, <2>4, <2>5, <3>4 DEF Backed, Counts
    <3>6. w # NoWork => Fresh(w)'
      <4>1. CASE w # NoWork /\ w.at = "open"
        <5>1. Managed(r)
          BY <1>2, <1>4, <2>5, <4>1, Tables DEF Managed
        <5>2. QED
          BY <2>4, <2>5, <4>1, <5>1 DEF Fresh, Managed
      <4>2. CASE w # NoWork /\ w.at = "post"
        <5>1. Posting(w)'
          BY <1>3, <2>4, <2>5, <3>4, <4>2 DEF Posting, Counts
        <5>2. QED
          BY <4>2, <5>1 DEF Fresh
      <4>3. QED
        BY <2>5, <4>1, <4>2
    <3>7. QED
      BY <1>3, <2>4, <3>1, <3>2, <3>3, <3>5, <3>6
  <2>15. RecordSound(r)'
    BY <1>2, <1>3, <1>4, <2>4, <2>6, <2>7, <2>9, <2>10, <2>12, <2>13, <2>14, RecordKept
  <2>16. QED
    BY <1>2, <2>6, <2>7, <2>8, <2>15, StepKeepsInv
<1>7. QED
  BY <1>5, <1>6

(* A workflow starts for a record that was just submitted.                 *)
LEMMA OpenKeepsInv ==
    ASSUME Inv, NEW q \in Requests, Open(q)
    PROVE  Inv'
<1>1. work[q] # NoWork /\ work[q].at = "open"
  BY DEF Open, At
<1>2. PICK r \in Records :
          /\ r = work[q].rec /\ TypeOf[r] \in Types /\ RecordSound(r) /\ Busy(r) /\ On(q, r)
          /\ status[r] # "absent" /\ CallSound(work[q])
          /\ r \notin disturbed => Fresh(work[q]) /\ \A p \in Requests \ {q} : ~On(p, r)
  BY <1>1, Moving
<1>3. /\ flow' \in {flow, [flow EXCEPT ![r] = "in_progress"]}
      /\ work' = [work EXCEPT ![q] = NoWork]
      /\ UNCHANGED <<status, counter, given, posted, total, collected, approvals, disturbed>>
  BY <1>2 DEF Open, Done
<1>4. /\ flow' \in [Records -> FlowStatuses] /\ flow'[r] \in {flow[r], "in_progress"}
      /\ \A s \in Records \ {r} : flow'[s] = flow[s]
  BY <1>2, <1>3 DEF Inv, TypeOK, FlowStatuses
<1>5. StepOn(q, r, NoWork)
  BY <1>2, <1>3, <1>4 DEF StepOn
<1>6. ASSUME work' \in [Requests -> Work \cup {NoWork}] PROVE TypeOK'
  BY <1>3, <1>4, <1>6 DEF Inv, TypeOK
<1>7. Lineage(r)'
  BY <1>2, <1>3, <1>5, LineageKept
<1>8. /\ collected'[r] > 0 => Numbered(r)'
      /\ TypeOf[r] = "ti" /\ status'[r] \in Billed => Numbered(r)'
      /\ Managed(r) /\ approvals[r] = 0 => status'[r] \in Pending
  BY <1>2, <1>3 DEF RecordSound, Billing, Numbered, ApprovalFirst
<1>9. ASSUME r \notin disturbed'
      PROVE  /\ r \notin disturbed /\ \A p \in Requests \ {q} : ~On(p, r)
             /\ Managed(r) => status'[r] \in InReview
             /\ Settled(r)' /\ Backed(r)'
  <2>1. r \notin disturbed /\ (\A p \in Requests \ {q} : ~On(p, r)) /\ Managed(r) /\ status[r] = work[q].to
    BY <1>1, <1>2, <1>3, <1>9 DEF Fresh
  <2>2. status[r] \in InReview
    BY <1>1, <1>2, <2>1, ManagedTables DEF Managed, CallSound
  <2>3. Settled(r) /\ Backed(r)
    BY <1>1, <1>2, <2>1 DEF RecordSound, Orderly, On
  <2>4. Settled(r)' /\ Backed(r)'
    BY <1>3, <1>4, <2>3 DEF Settled, Backed, Managed, Counts
  <2>5. QED
    BY <1>3, <2>1, <2>2, <2>4
<1>10. RecordSound(r)'
  <2>1. r \notin disturbed' /\ Managed(r) => status'[r] \notin {"draft", "deleted"}
    BY <1>9 DEF InReview
  <2>2. QED
    BY <1>2, <1>3, <1>5, <1>7, <1>8, <1>9, <2>1, RecordKept
<1>11. QED
  BY <1>2, <1>5, <1>6, <1>10, StepKeepsInv

(* The posting of an approved record.                                      *)
LEMMA PostKeepsInv ==
    ASSUME Inv, NEW q \in Requests, Post(q)
    PROVE  Inv'
<1>1. work[q] # NoWork /\ work[q].at = "post"
  BY DEF Post, At
<1>2. PICK r \in Records :
          /\ r = work[q].rec /\ TypeOf[r] \in Types /\ RecordSound(r) /\ Busy(r) /\ On(q, r)
          /\ status[r] # "absent" /\ CallSound(work[q])
          /\ r \notin disturbed => Fresh(work[q]) /\ \A p \in Requests \ {q} : ~On(p, r)
  BY <1>1, Moving
<1> DEFINE event == <<r, work[q].to>>
<1>3. /\ posted' = posted \cup {event} /\ work' = [work EXCEPT ![q] = NoWork]
      /\ UNCHANGED <<status, flow, counter, given, total, collected, approvals, disturbed>>
  BY <1>2 DEF Post, Done
<1>4. event[1] = r /\ event[2] = work[q].to /\ work[q].to \in Posts(r)
  BY <1>1, <1>2 DEF CallSound
<1> HIDE DEF event
<1>5. StepOn(q, r, NoWork)
  BY <1>2, <1>3, <1>4 DEF StepOn
<1>6. ASSUME work' \in [Requests -> Work \cup {NoWork}] PROVE TypeOK'
  BY <1>3, <1>4, <1>6 DEF Inv, TypeOK
<1>7. Lineage(r)'
  BY <1>2, <1>3, <1>5, LineageKept
<1>8. /\ collected'[r] > 0 => Numbered(r)'
      /\ TypeOf[r] = "ti" /\ status'[r] \in Billed => Numbered(r)'
      /\ ~(Managed(r) /\ approvals'[r] = 0)
  BY <1>1, <1>2, <1>3 DEF RecordSound, Billing, Numbered, ApprovalFirst, Innocent
<1>9. ASSUME r \notin disturbed'
      PROVE  /\ r \notin disturbed /\ \A p \in Requests \ {q} : ~On(p, r)
             /\ Managed(r) /\ status'[r] \in {"draft", "deleted"} => flow'[r] = "none"
             /\ Managed(r) /\ flow'[r] \in Running => status'[r] \in InReview
             /\ Settled(r)' /\ Backed(r)'
  <2>1. /\ r \notin disturbed /\ (\A p \in Requests \ {q} : ~On(p, r)) /\ Posting(work[q])
        /\ Managed(r) /\ status[r] \in {"draft", "deleted"} => flow[r] = "none"
        /\ Managed(r) /\ flow[r] \in Running => status[r] \in InReview
        /\ Settled(r)
    BY <1>1, <1>2, <1>3, <1>9 DEF RecordSound, Orderly, Fresh, On
  <2>2. Settled(r)'
    BY <1>3, <2>1 DEF Settled, Managed
  <2>3. \A kpi \in Kpis : <<r, Backing[kpi]>> \in posted' <=>
            <<r, Backing[kpi]>> \in posted \/ work[q].to = Backing[kpi]
    BY <1>3 DEF event
  <2>4. Backed(r)'
    BY <1>2, <1>3, <2>1, <2>3 DEF Posting, Backed, Counts
  <2>5. QED
    BY <1>3, <2>1, <2>2, <2>4
<1>10. RecordSound(r)'
  BY <1>2, <1>5, <1>7, <1>8, <1>9, RecordKept
<1>11. QED
  BY <1>2, <1>5, <1>6, <1>10, StepKeepsInv

(* The sum of the collections; the payment goes on if it fits.             *)
LEMMA SumKeepsInv ==
    ASSUME Inv, NEW q \in Requests, Sum(q)
    PROVE  Inv'
<1>1. work[q] # NoWork /\ work[q].at = "sum"
  BY DEF Sum, At
<1>2. PICK r \in Records :
          /\ r = work[q].rec /\ TypeOf[r] \in Types /\ RecordSound(r) /\ Busy(r) /\ On(q, r)
          /\ status[r] # "absent" /\ CallSound(work[q]) /\ work[q] \in Work
          /\ r \notin disturbed => Fresh(work[q]) /\ \A p \in Requests \ {q} : ~On(p, r)
  BY <1>1, Moving
<1>3. UNCHANGED <<status, flow, counter, given, posted, total, collected, approvals, disturbed>>
  BY DEF Sum
<1>4. /\ TypeOf[r] = "ti" /\ ~Managed(r)
      /\ r \notin disturbed => Settled(r) /\ Backed(r)
  BY <1>1, <1>2 DEF RecordSound, Orderly, CallSound, Managed, ManagedTypes, On
<1>5. CASE collected[r] + work[q].amount > total[r]
  <2>1. Done(q)
    BY <1>2, <1>5 DEF Sum
  <2>2. QED
    BY <1>1, <1>2, <1>3, <1>4, <2>1, EndKeepsInv DEF Done, Inv, TypeOK
<1>6. CASE ~(collected[r] + work[q].amount > total[r])
  <2>1. PICK w \in Work :
            /\ w # NoWork /\ work' = [work EXCEPT ![q] = w]
            /\ w.at = "collect" /\ w.rec = r /\ w.to = work[q].to /\ w.amount = work[q].amount
            /\ w.seen = collected[r] /\ w.amount \in Nat
    <3> DEFINE v == [work[q] EXCEPT !.at = "collect", !.seen = collected[r]]
    <3>1. v \in Work /\ v # NoWork
      BY <1>2, NoCommercialWork DEF Work, Stages, Inv, TypeOK
    <3>2. /\ v.at = "collect" /\ v.rec = r /\ v.to = work[q].to /\ v.amount = work[q].amount
          /\ v.seen = collected[r] /\ v.amount \in Nat
      BY <1>2 DEF Work
    <3>3. work' = [work EXCEPT ![q] = v]
      BY <1>2, <1>6 DEF Sum, Inv, TypeOK
    <3> HIDE DEF v
    <3>4. QED
      BY <3>1, <3>2, <3>3
  <2>2. CallSound(w)
    BY <1>1, <1>2, <2>1 DEF CallSound
  <2>3. StepOn(q, r, w)
    BY <1>2, <1>3, <2>1 DEF StepOn
  <2>4. ASSUME work' \in [Requests -> Work \cup {NoWork}] PROVE TypeOK'
    BY <1>3, <2>4 DEF Inv, TypeOK
  <2>5. Lineage(r)'
    BY <1>2, <1>3, <2>1, <2>3, LineageKept
  <2>6. Numbered(r)'
    BY <1>1, <1>2, <1>3 DEF RecordSound, Billing, Bills, Numbered
  <2>7. ASSUME r \notin disturbed'
        PROVE  /\ r \notin disturbed /\ \A p \in Requests \ {q} : ~On(p, r)
               /\ Settled(r)' /\ Backed(r)' /\ Fresh(w)'
    <3>1. r \notin disturbed /\ (\A p \in Requests \ {q} : ~On(p, r)) /\ Settled(r) /\ Backed(r)
      BY <1>2, <1>3, <1>4, <2>7
    <3>2. Settled(r)' /\ Backed(r)'
      BY <1>3, <3>1 DEF Settled, Backed, Managed, Counts
    <3>3. status[r] \in Collectable /\ flow[r] # "rejected"
      BY <1>1, <1>2, <3>1 DEF Fresh
    <3>4. collected[r] \in Nat /\ total[r] \in Nat
      BY DEF Inv, TypeOK
    <3>5. collected[r] + w.amount <= total[r]
      BY <1>6, <2>1, <3>4
    <3>6. Fresh(w)'
      BY <1>3, <2>1, <3>3, <3>5 DEF Fresh
    <3>7. QED
      BY <1>3, <3>1, <3>2, <3>6
  <2>8. RecordSound(r)'
    BY <1>2, <1>4, <2>1, <2>3, <2>5, <2>6, <2>7, RecordKept DEF Managed
  <2>9. QED
    BY <1>2, <2>1, <2>2, <2>3, <2>4, <2>8, StepKeepsInv
<1>7. QED
  BY <1>5, <1>6

(* The collection, and the status derived from the sum.                    *)
LEMMA CollectKeepsInv ==
    ASSUME Inv, NEW q \in Requests, Collect(q)
    PROVE  Inv'
<1>1. work[q] # NoWork /\ work[q].at = "collect"
  BY DEF Collect, At
<1>2. PICK r \in Records :
          /\ r = work[q].rec /\ TypeOf[r] \in Types /\ RecordSound(r) /\ Busy(r) /\ On(q, r)
          /\ status[r] # "absent" /\ CallSound(work[q]) /\ work[q].amount \in Nat
          /\ r \notin disturbed => Fresh(work[q]) /\ \A p \in Requests \ {q} : ~On(p, r)
  BY <1>1, Moving DEF Work
<1>3. TypeOf[r] = "ti" /\ ~Managed(r) /\ Numbered(r)
  BY <1>1, <1>2 DEF RecordSound, Billing, Bills, CallSound, Managed, ManagedTypes
<1>4. PICK derived \in {"collected", "partially_collected"} :
          /\ collected' \in {collected, [collected EXCEPT ![r] = @ + work[q].amount]}
          /\ status' \in {status, [status EXCEPT ![r] = derived]}
  BY <1>2 DEF Collect
<1>5. /\ work' = [work EXCEPT ![q] = NoWork]
      /\ UNCHANGED <<flow, counter, given, posted, total, approvals, disturbed>>
  BY DEF Collect, Done
<1>6. derived \in StatusesOf(TypeOf[r]) /\ derived \in Billed
  BY <1>3, InvoiceTables DEF Billed
<1>7. /\ collected' \in [Records -> Nat] /\ status' \in [Records -> Statuses]
      /\ \A s \in Records : <<TypeOf[s], status'[s]>> \in Legal
      /\ \A s \in Records \ {r} : collected'[s] = collected[s] /\ status'[s] = status[s]
      /\ status'[r] \in {status[r], derived}
  BY <1>2, <1>4, <1>6 DEF Inv, TypeOK, Legal, Statuses
<1>8. StepOn(q, r, NoWork)
  BY <1>2, <1>5, <1>7 DEF StepOn
<1>9. ASSUME work' \in [Requests -> Work \cup {NoWork}] PROVE TypeOK'
  BY <1>5, <1>7, <1>9 DEF Inv, TypeOK
<1>10. Numbered(r)' /\ Lineage(r)'
  BY <1>2, <1>3, <1>5, <1>7, <1>8, LineageKept DEF Numbered
<1>11. ASSUME r \notin disturbed'
       PROVE  /\ r \notin disturbed /\ \A p \in Requests \ {q} : ~On(p, r)
              /\ Settled(r)' /\ Backed(r)'
  <2>1. /\ r \notin disturbed /\ (\A p \in Requests \ {q} : ~On(p, r)) /\ Backed(r)
        /\ status[r] \in Collectable /\ flow[r] # "rejected"
    BY <1>1, <1>2, <1>5, <1>11 DEF RecordSound, Orderly, Fresh, On
  <2>2. Settled(r)'
    BY <1>3, <1>5, <2>1 DEF Settled, Managed
  <2>3. \A kpi \in Kpis : Counts(kpi, r) => kpi = "total_invoiced" /\ status[r] \in StatusFilter[kpi]
    BY <1>3, <2>1, KpiTables DEF Counts, StatusFilter, Collectable
  <2>4. Backed(r)'
    BY <1>5, <2>1, <2>3 DEF Backed, Counts
  <2>5. QED
    BY <1>5, <2>1, <2>2, <2>4
<1>12. RecordSound(r)'
  BY <1>2, <1>3, <1>8, <1>10, <1>11, RecordKept DEF Managed
<1>13. QED
  BY <1>2, <1>8, <1>9, <1>12, StepKeepsInv

-----------------------------------------------------------------------------
(* The theorems *)

(* No record exists at first.                                              *)
LEMMA InitInv == Init => Inv
<1>1. SUFFICES ASSUME Init PROVE Inv
  OBVIOUS
<1>2. TypeOK
  <2>1. \A r \in Records : TypeOf[r] \in Types /\ "absent" \in StatusesOf(TypeOf[r])
    BY TypeOfAssumption, Tables
  <2>2. /\ status \in [Records -> Statuses] /\ \A r \in Records : <<TypeOf[r], status[r]>> \in Legal
    <3>1. \A r \in Records : status[r] = "absent" /\ "absent" \in Statuses
      BY <1>1, <2>1 DEF Init, Statuses
    <3>2. status = [r \in Records |-> "absent"]
      BY <1>1 DEF Init
    <3>3. QED
      BY <2>1, <3>1, <3>2 DEF Legal
  <2>3. QED
    BY <1>1, <2>2 DEF Init, TypeOK, FlowStatuses
<1>3. \A q \in Requests : work[q] = NoWork
  BY <1>1 DEF Init
<1>4. CallsSound
  BY <1>3 DEF CallsSound
<1>5. ASSUME NEW r \in Records PROVE RecordSound(r)
  <2>1. /\ status[r] = "absent" /\ flow[r] = "none" /\ collected[r] = 0 /\ approvals[r] = 0
        /\ given = {} /\ posted = {} /\ \A q \in Requests : ~On(q, r)
    BY <1>1 DEF Init, On
  <2>2. ApprovalFirst(r) /\ Billing(r)
    BY <2>1 DEF ApprovalFirst, Pending, Billing, Billed
  <2>3. Lineage(r)
    BY <2>1 DEF Lineage, Busy, On
  <2>4. Backed(r)
    BY <2>1, KpiTables DEF Backed, Counts
  <2>5. QED
    BY <2>1, <2>2, <2>3, <2>4 DEF RecordSound, Orderly, Settled, Running
<1>6. QED
  BY <1>2, <1>4, <1>5 DEF Inv

(* Every step keeps the invariant: one case per action.                    *)
LEMMA NextInv == Inv /\ [Next]_vars => Inv'
<1>1. SUFFICES ASSUME Inv, [Next]_vars PROVE Inv'
  OBVIOUS
<1>2. CASE UNCHANGED vars
  BY <1>1, <1>2 DEF vars, Inv, TypeOK, CallsSound, CallSound, RecordSound, ApprovalFirst, Innocent,
     Lineage, Busy, Billing, Bills, Numbered, Orderly, On, Settled, Backed, Fresh, Agrees, Followed, Posting
<1>3. ASSUME NEW r \in Records, Free, Advance(r) \/ CancelFlow(r) PROVE Inv'
  BY <1>1, <1>3, FlowKeepsInv
<1>4. ASSUME NEW r \in Room, NEW q \in Requests, NEW amount \in Totals[r], AskCreate(q, r, amount)
      PROVE  Inv'
  <2>1. r \in Records
    BY DEF Room
  <2>2. QED
    BY <1>1, <1>4, <2>1, AskCreateKeepsInv
<1>5. ASSUME NEW r \in Records, status[r] # "absent", NEW q \in Requests, NEW outcome \in Outcomes,
             Decide(q, r, outcome)
      PROVE  Inv'
  BY <1>1, <1>5, DecideKeepsInv
<1>6. ASSUME NEW r \in Records, Exists(r), NEW q \in Requests,
             \/ \E amount \in Totals[r] : AskEdit(q, r, amount)
             \/ AskDelete(q, r)
             \/ \E m \in Table[TypeOf[r]].moves : Ask(q, r, m[2])
             \/ \E amount \in Payments : AskCollect(q, r, amount)
      PROVE  Inv'
  BY <1>1, <1>6, AskEditKeepsInv, AskDeleteKeepsInv, AskMoveKeepsInv, AskCollectKeepsInv
<1>7. ASSUME NEW q \in Requests, Serve(q) PROVE Inv'
  BY <1>1, <1>7, CreateKeepsInv, EditKeepsInv, RemoveKeepsInv, WriteKeepsInv, OpenKeepsInv,
     PostKeepsInv, HandleKeepsInv, SumKeepsInv, CollectKeepsInv DEF Serve
<1>8. ASSUME NEW q \in Requests, CutOff(q) PROVE Inv'
  BY <1>1, <1>8, CutOffKeepsInv
<1>9. QED
  BY <1>1, <1>2, <1>3, <1>4, <1>5, <1>6, <1>7, <1>8 DEF Next

(* The invariant holds in every reachable state.                           *)
LEMMA InvAlways == Spec => []Inv
<1>1. Inv /\ [Next]_vars => Inv'
  BY NextInv
<1>2. QED
  BY <1>1, InitInv, PTL DEF Spec

(* Every reachable state is well typed: although updates name only the id  *)
(* of their row, no record gets a status of another type, and nothing is   *)
(* posted for a status that its service does not post.                     *)
THEOREM CommercialTypes == Spec => []TypeOK
<1>1. Inv => TypeOK
  BY DEF Inv
<1>2. QED
  BY <1>1, InvAlways, PTL

(* However calls race or are cut off, no record of a managed type gets     *)
(* past its approval phase, takes a number or is posted without an         *)
(* approval of the workflow engine.                                        *)
THEOREM CommercialOnlyApprovedIssued == Spec => []OnlyApprovedIssued
<1>1. Inv => OnlyApprovedIssued
  BY DEF Inv, TypeOK, RecordSound, ApprovalFirst, Managed, OnlyApprovedIssued
<1>2. QED
  BY <1>1, InvAlways, PTL

(* Money is only recorded on an invoice issued under a number, for an      *)
(* approved certificate of an approved application.                        *)
THEOREM CommercialMoneyHasCertificate == Spec => []MoneyHasCertificate
<1>1. ASSUME Inv PROVE MoneyHasCertificate
  <2>1. SUFFICES ASSUME NEW r \in Records, collected[r] > 0
                 PROVE  /\ \E g \in given : g[1] = "INV" /\ g[3] = r
                        /\ ParentOf[r] # NoRecord =>
                              /\ approvals[ParentOf[r]] > 0
                              /\ ParentOf[ParentOf[r]] # NoRecord => approvals[ParentOf[ParentOf[r]]] > 0
    BY DEF MoneyHasCertificate
  <2>2. \A x \in Records : Lineage(x) /\ Billing(x)
    BY <1>1 DEF Inv, RecordSound
  <2>3. status[r] # "absent"
    BY <2>1, <2>2 DEF Lineage
  <2>4. ASSUME ParentOf[r] # NoRecord
        PROVE  ParentOf[r] \in Records /\ approvals[ParentOf[r]] > 0 /\ status[ParentOf[r]] # "absent"
    BY <2>2, <2>3, <2>4, ParentAssumption DEF Lineage
  <2>5. QED
    BY <2>1, <2>2, <2>4 DEF Lineage, Billing, Numbered
<1>2. QED
  BY <1>1, InvAlways, PTL

(* A record whose calls neither overlap nor are cut off shows, once they   *)
(* have come to an end, what its workflow decided.                         *)
THEOREM CommercialConverged == Spec => []Converged
<1>1. ASSUME Inv PROVE Converged
  <2>1. SUFFICES ASSUME NEW r \in Records \ disturbed, ~Busy(r) PROVE Settled(r)
    BY DEF Converged, Settled, Managed
  <2>2. QED
    BY <1>1, <2>1 DEF Inv, RecordSound, Orderly, Busy, On
<1>2. QED
  BY <1>1, InvAlways, PTL

(* The quiet applications, certificates and variations of a project are    *)
(* those the ledger knows, and no invoice counts that was not posted.      *)
THEOREM CommercialKpisReconcile == Spec => []KpisReconcile
<1>1. ASSUME Inv PROVE KpisReconcile
  <2>1. \A r \in Quiet : r \in Records /\ Backed(r)
    BY <1>1 DEF Quiet, Inv, RecordSound, Orderly, Busy, On
  <2>2. ASSUME NEW kpi \in Kpis \ {"total_invoiced"} PROVE Verdict(kpi, Quiet) = "matched"
    <3>1. Source(kpi, Quiet) = Ledger(kpi, Quiet)
      BY <2>1 DEF Source, Ledger, Backed, Counts
    <3>2. QED
      BY <3>1 DEF Verdict
  <2>3. ASSUME NEW r \in Quiet PROVE Verdict("total_invoiced", {r}) # "missing_postings"
    <3>1. r \in Source("total_invoiced", {r}) => r \in Ledger("total_invoiced", {r})
      BY <2>1 DEF Source, Ledger, Backed, Counts, Kpis
    <3>2. Source("total_invoiced", {r}) \subseteq {r}
      BY DEF Source
    <3>3. QED
      BY <3>1, <3>2 DEF Verdict
  <2>4. QED
    BY <2>2, <2>3 DEF KpisReconcile
<1>2. QED
  BY <1>1, InvAlways, PTL

(* The steps that change a status or a sum of collections.                 *)
LEMMA Writers ==
    ASSUME Next, NEW r \in Records, status'[r] # status[r] \/ collected'[r] # collected[r]
    PROVE  /\ \E q \in Requests : Create(q) \/ Remove(q) \/ Write(q) \/ Collect(q)
           /\ disturbed' = disturbed
BY DEF Next, Advance, CancelFlow, AskCreate, AskEdit, AskDelete, Ask, AskCollect, Decide, Serve,
   Create, Edit, Remove, Write, Open, Post, Handle, Sum, Collect, CutOff

(* As long as its calls do not overlap, no payment takes an invoice past   *)
(* its total.                                                              *)
THEOREM CommercialNoOvercollection == Spec => NoOvercollection
<1> DEFINE Fits == \A r \in Records :
              collected'[r] # collected[r] /\ r \notin disturbed' => collected'[r] <= total'[r]
<1>1. ASSUME Inv, Next PROVE Fits
  <2>1. SUFFICES ASSUME NEW r \in Records, collected'[r] # collected[r], r \notin disturbed'
                 PROVE  collected'[r] <= total'[r]
    OBVIOUS
  <2>2. PICK q \in Requests : Collect(q)
    BY <1>1, <2>1, Writers DEF Create, Remove, Write
  <2>3. work[q] # NoWork /\ work[q].at = "collect" /\ collected'[r] = collected[r] + work[q].amount
        /\ work[q].rec = r /\ total' = total /\ r \notin disturbed
    BY <1>1, <2>1, <2>2 DEF Collect, At, Inv, TypeOK
  <2>4. Fresh(work[q])
    BY <1>1, <2>3, Moving
  <2>5. QED
    BY <2>3, <2>4 DEF Fresh
<1>2. Inv /\ [Next]_vars => [Fits]_vars
  BY <1>1
<1>3. QED
  BY <1>2, InvAlways, PTL DEF Spec, NoOvercollection

(* An undisturbed record of a managed type never leaves a terminal status. *)
THEOREM CommercialFinalStays == Spec => FinalStays
<1> DEFINE Stays == \A r \in Records :
              TypeOf[r] \in ManagedTypes /\ r \notin disturbed' /\ status[r] \in Table[TypeOf[r]].final
                  => status'[r] = status[r]
<1>1. ASSUME Inv, Next PROVE Stays
  <2>1. SUFFICES ASSUME NEW r \in Records, TypeOf[r] \in ManagedTypes, r \notin disturbed',
                        status'[r] # status[r]
                 PROVE  status[r] \notin Table[TypeOf[r]].final
    OBVIOUS
  <2>2. PICK q \in Requests : /\ Create(q) \/ Remove(q) \/ Write(q) \/ Collect(q)
                              /\ disturbed' = disturbed
    BY <1>1, <2>1, Writers
  <2>3. work[q] # NoWork /\ work[q].rec = r
    BY <1>1, <2>1, <2>2 DEF Create, Remove, Write, Collect, At, Inv, TypeOK
  <2>4. Fresh(work[q]) /\ CallSound(work[q])
    BY <1>1, <2>1, <2>2, <2>3, Moving
  <2>5. {"absent", "draft"} \cap Table[TypeOf[r]].final = {}
    BY <2>1 DEF ManagedTypes, Table, IpaTable, IpcTable, VariationTable, CorrespondenceTable, Ended
  <2>6. QED
    BY <2>1, <2>2, <2>3, <2>4, <2>5 DEF Create, Remove, Write, Collect, At, Fresh, CallSound, Managed,
       ManagedTypes
<1>2. Inv /\ [Next]_vars => [Stays]_vars
  BY <1>1
<1>3. QED
  BY <1>2, InvAlways, PTL DEF Spec, FinalStays

-----------------------------------------------------------------------------
(* What is done to a workflow is what the engine promises                  *)

(* A workflow is opened or goes on, is sent back, or is decided: a step of *)
(* what the engine shows to a record.                                      *)
LEMMA FlowMoves ==
    ASSUME TypeOK, NEW r \in Records, NEW s, flow' = [flow EXCEPT ![r] = s],
           \/ s = "in_progress" /\ approvals' = approvals
           \/ s = "returned" /\ flow[r] = "in_progress" /\ approvals' = approvals
           \/ s \in {"rejected", "cancelled"} /\ flow[r] \in Running /\ approvals' = approvals
           \/ /\ s = "approved" /\ flow[r] \in Running
              /\ approvals' = [approvals EXCEPT ![r] = @ + 1]
    PROVE  [Engine!ApprovalNext]_Engine!approvalVars
<1>. DEFINE seen == [x \in Records |-> IF flow[x] \in Running THEN flow[x] ELSE "none"]
            passed == {x \in Records : approvals[x] > 0}
            new == IF s \in Running THEN s ELSE "none"
<1>1. seen' = [seen EXCEPT ![r] = new]
  BY DEF TypeOK
<1>2. seen[r] = IF flow[r] \in Running THEN flow[r] ELSE "none"
  OBVIOUS
<1>3. passed' = IF s = "approved" THEN passed \cup {r} ELSE passed
  <2>1. CASE s = "approved"
    <3>1. approvals' = [approvals EXCEPT ![r] = @ + 1] /\ approvals[r] \in Nat
      BY <2>1 DEF TypeOK
    <3>2. approvals'[r] > 0 /\ \A x \in Records \ {r} : approvals'[x] = approvals[x]
      BY <3>1 DEF TypeOK
    <3>3. QED
      BY <2>1, <3>2
  <2>2. CASE s # "approved"
    BY <2>2
  <2>3. QED
    BY <2>1, <2>2
<1>. HIDE DEF seen, passed
<1>4. CASE s = "in_progress"
  <2>1. seen' = [seen EXCEPT ![r] = "in_progress"] /\ passed' = passed
    BY <1>1, <1>3, <1>4 DEF Running
  <2>2. CASE seen[r] = "none"
    <3>1. Engine!Begun(r)
      BY <2>1, <2>2 DEF Engine!Begun, Engine!MoveTo, seen, passed
    <3>2. QED
      BY <3>1 DEF Engine!ApprovalNext
  <2>3. CASE seen[r] = "returned"
    <3>1. Engine!GoneOn(r)
      BY <2>1, <2>3 DEF Engine!GoneOn, Engine!MoveTo, seen, passed
    <3>2. QED
      BY <3>1 DEF Engine!ApprovalNext
  <2>4. CASE seen[r] = "in_progress"
    <3>1. seen' = seen
      BY <2>1, <2>4 DEF seen
    <3>2. QED
      BY <2>1, <3>1 DEF Engine!approvalVars, seen, passed
  <2>5. QED
    BY <1>2, <2>2, <2>3, <2>4 DEF Running
<1>5. CASE s = "returned"
  <2>1. /\ seen[r] = "in_progress" /\ seen' = [seen EXCEPT ![r] = "returned"]
        /\ passed' = passed
    BY <1>1, <1>2, <1>3, <1>5 DEF Running
  <2>2. Engine!SentBack(r)
    BY <2>1 DEF Engine!SentBack, Engine!MoveTo, seen, passed
  <2>3. QED
    BY <2>2 DEF Engine!ApprovalNext
<1>6. CASE s \in {"rejected", "cancelled"}
  <2>1. seen[r] # "none" /\ seen' = [seen EXCEPT ![r] = "none"] /\ passed' = passed
    BY <1>1, <1>2, <1>3, <1>6 DEF Running
  <2>2. Engine!Dismissed(r)
    BY <2>1 DEF Engine!Dismissed, Engine!MoveTo, seen, passed
  <2>3. QED
    BY <2>2 DEF Engine!ApprovalNext
<1>7. CASE s = "approved"
  <2>1. /\ seen[r] # "none" /\ seen' = [seen EXCEPT ![r] = "none"]
        /\ passed' = passed \cup {r}
    BY <1>1, <1>2, <1>3, <1>7 DEF Running
  <2>2. Engine!Approved(r)
    BY <2>1 DEF Engine!Approved, Engine!MoveTo, seen, passed
  <2>3. QED
    BY <2>2 DEF Engine!ApprovalNext
<1>8. QED
  BY <1>4, <1>5, <1>6, <1>7

(* A workflow that nothing is done to shows the same.                      *)
LEMMA FlowStays ==
    ASSUME flow' = flow, approvals' = approvals
    PROVE  [Engine!ApprovalNext]_Engine!approvalVars
BY DEF Engine!approvalVars

(* A step of the services, of the handlers or of the engine is a step of   *)
(* what the engine promises, or leaves the workflows alone.                *)
LEMMA NextFollows == TypeOK /\ [Next]_vars => [Engine!ApprovalNext]_Engine!approvalVars
<1>. SUFFICES ASSUME TypeOK, [Next]_vars PROVE [Engine!ApprovalNext]_Engine!approvalVars
  OBVIOUS
<1>1. ASSUME NEW q \in Requests, Create(q) \/ Open(q)
      PROVE  [Engine!ApprovalNext]_Engine!approvalVars
  <2>1. /\ flow' = flow \/ flow' = [flow EXCEPT ![work[q].rec] = "in_progress"]
        /\ approvals' = approvals
    BY <1>1 DEF Create, Open
  <2>2. work[q].rec \in Records
    BY <1>1 DEF Create, Open, At, TypeOK, Work
  <2>3. QED
    BY <2>1, <2>2, FlowMoves, FlowStays
<1>2. ASSUME NEW r \in Records, Advance(r) \/ CancelFlow(r)
      PROVE  [Engine!ApprovalNext]_Engine!approvalVars
  BY <1>2, FlowMoves DEF Advance, CancelFlow
<1>3. ASSUME NEW q \in Requests, NEW r \in Records, NEW x,
             \/ AskCreate(q, r, x) \/ AskEdit(q, r, x) \/ AskDelete(q, r) \/ Ask(q, r, x)
             \/ AskCollect(q, r, x)
      PROVE  [Engine!ApprovalNext]_Engine!approvalVars
  BY <1>3, FlowStays DEF AskCreate, AskEdit, AskDelete, Ask, AskCollect
<1>4. ASSUME NEW q \in Requests, NEW r \in Records, NEW outcome \in Outcomes,
             Decide(q, r, outcome)
      PROVE  [Engine!ApprovalNext]_Engine!approvalVars
  BY <1>4, FlowMoves DEF Decide, Outcomes, Running
<1>5. ASSUME NEW q \in Requests,
             \/ Edit(q) \/ Remove(q) \/ Write(q) \/ Post(q) \/ Handle(q) \/ Sum(q)
             \/ Collect(q) \/ CutOff(q)
      PROVE  [Engine!ApprovalNext]_Engine!approvalVars
  BY <1>5, FlowStays DEF Edit, Remove, Write, Post, Handle, Sum, Collect, CutOff
<1>6. CASE UNCHANGED vars
  BY <1>6, FlowStays DEF vars
<1>7. Room \subseteq Records
  BY DEF Room
<1>8. QED
  BY <1>1, <1>2, <1>3, <1>4, <1>5, <1>6, <1>7 DEF Next, Serve

(* However the calls on commercial records race or are cut off, what the   *)
(* services, the handlers and the engine do to a workflow is what the      *)
(* engine promises of it.                                                  *)
THEOREM CommercialFollowsEngine == Spec => FollowsEngine
<1>1. Init => Engine!ApprovalInit
  BY DEF Init, Running, Engine!ApprovalInit
<1>2. QED
  BY <1>1, NextFollows, CommercialTypes, PTL DEF Spec, FollowsEngine, Engine!ApprovalSpec

=============================================================================
