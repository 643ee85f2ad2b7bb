-------------------------------- MODULE Kpis --------------------------------
(***************************************************************************)
(* The financial KPIs of a project and their reconciliation with the       *)
(* posting ledger, computed on the records of Commercial. A KPI sums over  *)
(* the records in certain statuses, the ledger over the events of one      *)
(* posting each; an amount stands for the record it comes from.            *)
(***************************************************************************)
EXTENDS Commercial

Kpis == {"total_claimed", "total_certified", "total_invoiced", "approved_variation_exposure"}

ApprovedPlus == {"approved_internal", "signed", "issued", "superseded", "closed"}

\* Mutated form: a certificate counts from its approval on.
StatusFilterEarly ==
    [total_claimed |-> ApprovedPlus,
     total_certified |-> ApprovedPlus,
     total_invoiced |-> {"issued", "submitted", "partially_collected", "collected", "overdue"},
     approved_variation_exposure |->
        ApprovedPlus \cup {"client_pending", "client_approved", "client_rejected"}]

\* The statuses a KPI counts.
StatusFilter ==
    [total_claimed |-> ApprovedPlus,
     total_certified |-> ApprovedPlus \ {"approved_internal"},
     total_invoiced |-> {"issued", "submitted", "partially_collected", "collected", "overdue"},
     approved_variation_exposure |->
        ApprovedPlus \cup {"client_pending", "client_approved", "client_rejected"}]

\* The record types a KPI counts, and the status whose posting backs it.
SourceTypes ==
    [total_claimed |-> {"ipa"}, total_certified |-> {"ipc"}, total_invoiced |-> {"ti"},
     approved_variation_exposure |-> {"vo", "co"}]

Backing ==
    [total_claimed |-> "approved_internal", total_certified |-> "signed",
     total_invoiced |-> "issued", approved_variation_exposure |-> "approved_internal"]

Source(kpi, R) ==
    {r \in R : TypeOf[r] \in SourceTypes[kpi] /\ status[r] \in StatusFilter[kpi]}

Ledger(kpi, R) ==
    {r \in R : TypeOf[r] \in SourceTypes[kpi] /\ <<r, Backing[kpi]>> \in posted}

\* The verdict of the reconciliation on the records R.
Verdict(kpi, R) ==
    IF Ledger(kpi, R) = {} /\ Source(kpi, R) # {} THEN "missing_postings"
    ELSE IF Source(kpi, R) = Ledger(kpi, R) THEN "matched" ELSE "mismatched"

-----------------------------------------------------------------------------
(* Properties *)

\* The records whose calls have come to an end, with none cut off or overlapping.
Quiet == {r \in Records : Exists(r) /\ r \notin disturbed /\ ~Busy(r)}

(* The status lists of the KPIs and the steps that post agree: whatever    *)
(* way the quiet applications, certificates and variations came, by hand   *)
(* or by the workflow, the reconciliation of what they claim, certify and  *)
(* expose shows matched. An invoice can leave the statuses that count      *)
(* after it was posted, but none counts that was not posted.               *)
KpisReconcile ==
    LET quiet == Quiet IN
    /\ \A kpi \in Kpis \ {"total_invoiced"} : Verdict(kpi, quiet) = "matched"
    /\ \A r \in quiet : Verdict("total_invoiced", {r}) # "missing_postings"

=============================================================================
