------------------------------ MODULE Sourcing ------------------------------
(***************************************************************************)
(* A request for quotations (RFQ), the quotations of the invited vendors,  *)
(* the award, and the order or contract made of it. A call is a sequence   *)
(* of separate queries, one action each:                                   *)
(*                                                                         *)
(*   transition      RFQ read -> "write" [-> "open"]                       *)
(*   award           RFQ read -> "winner" -> "award"                       *)
(*   quote           RFQ read -> "quote"                                   *)
(*   review, delete  quotation read -> "mark" or "erase"                   *)
(*   materialise     RFQ read -> "look" -> "make"                          *)
(*   engine          decision -> "converge" -> "write"                     *)
(***************************************************************************)
EXTENDS Naturals, FiniteSets

CONSTANTS
    Quotations,     \* ids of quotations
    VendorOf,       \* the vendor of a quotation, one that is invited
    Requests,       \* the calls that can be in flight at the same time
    MaxOverlaps,    \* bounds the calls that begin while another is in flight
    Faults,         \* TRUE: a call may be cut off between two queries
    NoQuotation, NoWork

ASSUME QuotationAssumption == NoQuotation \notin Quotations
ASSUME OverlapsAssumption == MaxOverlaps \in Nat
ASSUME SourcingFaults == Faults \in BOOLEAN

VARIABLES
    rfq,            \* the status of the RFQ and its awardedQuotationId
    flow,           \* the status of its latest workflow instance
    quotation,      \* the status of each quotation
    made,           \* how many orders and contracts a quotation was made into
    work,           \* the calls in flight
    approved,       \* history: the engine approved the RFQ
    overlaps        \* history: how many calls began while another was in flight

tables == <<rfq, flow, quotation, made, approved>>
vars == <<tables, work, overlaps>>

\* RFQ_TRANSITIONS
RfqMoves ==
    [draft |-> {"under_review"},
     under_review |-> {"approved_internal", "returned", "rejected"},
     returned |-> {"under_review"},
     approved_internal |-> {"issued"},
     issued |-> {"responses_received", "cancelled"},
     responses_received |-> {"evaluation"},
     evaluation |-> {"awarded", "cancelled"},
     awarded |-> {"closed"},
     rejected |-> {}, closed |-> {}, cancelled |-> {}]

\* RFQ_WORKFLOW_MANAGED_ACTIONS, as statuses
Managed == {"approved_internal", "returned", "rejected"}

Accepting == {"issued", "responses_received", "evaluation"}

\* QUOTATION_TRANSITIONS
QuotationMoves ==
    [received |-> {"under_review", "expired"},
     under_review |-> {"shortlisted", "rejected", "expired"},
     shortlisted |-> {"rejected", "expired"},
     awarded |-> {}, rejected |-> {}, expired |-> {}, absent |-> {}]

Active == {"received", "under_review", "shortlisted"}

Running == {"in_progress", "returned"}
FlowStatuses == Running \cup {"none", "approved", "rejected", "cancelled"}

Stages == {"write", "open", "winner", "award", "quote", "mark", "erase", "look", "make", "converge"}

Work == [at : Stages, to : DOMAIN RfqMoves \cup DOMAIN QuotationMoves,
         on : Quotations \cup {NoQuotation}]

Init ==
    /\ rfq = [status |-> "draft", winner |-> NoQuotation]
    /\ flow = "none"
    /\ quotation = [i \in Quotations |-> "absent"]
    /\ made = [i \in Quotations |-> 0]
    /\ work = [q \in Requests |-> NoWork]
    /\ approved = FALSE
    /\ overlaps = 0

At(q, stage) == work[q] # NoWork /\ work[q].at = stage

GoTo(q, stage) == work' = [work EXCEPT ![q].at = stage]

Done(q) == work' = [work EXCEPT ![q] = NoWork]

\* to: the status to write; on: the quotation the call is about.
Begin(q, stage, to, on) ==
    /\ work[q] = NoWork
    /\ work' = [work EXCEPT ![q] = [at |-> stage, to |-> to, on |-> on]]
    /\ IF \A p \in Requests : work[p] = NoWork THEN UNCHANGED overlaps
       ELSE overlaps < MaxOverlaps /\ overlaps' = overlaps + 1

-----------------------------------------------------------------------------
(* The RFQ *)

\* Mutated form: an RFQ can be approved by hand.
AskMoveManaged(q, to) ==
    /\ to \in RfqMoves[rfq.status] \ {"awarded"}
    /\ Begin(q, "write", to, NoQuotation)
    /\ UNCHANGED tables

\* transitionRfq, but for the award.
AskMove(q, to) ==
    /\ to \in RfqMoves[rfq.status] \ (Managed \cup {"awarded"})
    /\ Begin(q, "write", to, NoQuotation)
    /\ UNCHANGED tables

\* The update, by id only, also that of the handlers. A submission goes on.
Write(q) ==
    /\ At(q, "write")
    /\ rfq' = [rfq EXCEPT !.status = work[q].to]
    /\ IF work[q].to = "under_review" THEN GoTo(q, "open") ELSE Done(q)
    /\ UNCHANGED <<flow, quotation, made, approved, overlaps>>

\* startInstance; without a template, or when it fails, the RFQ waits.
Open(q) ==
    /\ At(q, "open")
    /\ flow' \in {flow, IF flow \in Running THEN flow ELSE "in_progress"}
    /\ Done(q)
    /\ UNCHANGED <<rfq, quotation, made, approved, overlaps>>

\* A decision of the workflow engine and, in the same call, its handler.
Decide(q, outcome) ==
    /\ flow \in (IF outcome = "returned" THEN {"in_progress"} ELSE Running)
    /\ flow' = outcome
    /\ approved' = (approved \/ outcome = "approved")
    /\ Begin(q, "converge", IF outcome = "approved" THEN "approved_internal" ELSE outcome,
             NoQuotation)
    /\ UNCHANGED <<rfq, quotation, made>>

\* An approval that is not the last, or a cancellation: nothing listens.
Proceed ==
    /\ flow \in Running
    /\ flow' \in {"in_progress", "cancelled"}
    /\ UNCHANGED <<rfq, quotation, made, approved, work, overlaps>>

\* handleRfqApproved, handleRfqReturned and handleRfqRejected.
Converge(q) ==
    /\ At(q, "converge")
    /\ IF rfq.status = work[q].to THEN Done(q) ELSE GoTo(q, "write")
    /\ UNCHANGED <<tables, overlaps>>

AskAward(q, i) ==
    /\ "awarded" \in RfqMoves[rfq.status]
    /\ Begin(q, "winner", "awarded", i)
    /\ UNCHANGED tables

ReadWinner(q) ==
    /\ At(q, "winner")
    /\ IF quotation[work[q].on] = "shortlisted" THEN GoTo(q, "award") ELSE Done(q)
    /\ UNCHANGED <<tables, overlaps>>

\* Mutated form: the other quotations are left as they are.
AwardOnly(q) ==
    LET winner == work[q].on IN
    /\ At(q, "award")
    /\ quotation' = [quotation EXCEPT ![winner] = "awarded"]
    /\ rfq' = [status |-> "awarded", winner |-> winner]
    /\ Done(q)
    /\ UNCHANGED <<flow, made, approved, overlaps>>

\* One transaction: the winner is awarded, its siblings are rejected.
Award(q) ==
    LET winner == work[q].on IN
    /\ At(q, "award")
    /\ quotation' = [i \in Quotations |-> IF i = winner THEN "awarded"
                                          ELSE IF quotation[i] \in Active THEN "rejected"
                                          ELSE quotation[i]]
    /\ rfq' = [status |-> "awarded", winner |-> winner]
    /\ Done(q)
    /\ UNCHANGED <<flow, made, approved, overlaps>>

-----------------------------------------------------------------------------
(* The quotations *)

\* The unique index over the active quotations of a vendor.
Alone(i) ==
    \A j \in Quotations \ {i} : VendorOf[j] = VendorOf[i] => quotation[j] \notin Active

AskQuote(q, i) ==
    /\ rfq.status \in Accepting
    /\ quotation[i] = "absent"
    /\ Begin(q, "quote", "received", i)
    /\ UNCHANGED tables

\* Looks for an active quotation of the vendor, and creates one.
Quote(q) ==
    LET i == work[q].on IN
    /\ At(q, "quote")
    /\ quotation' = IF quotation[i] = "absent" /\ Alone(i)
                    THEN [quotation EXCEPT ![i] = "received"] ELSE quotation
    /\ Done(q)
    /\ UNCHANGED <<rfq, flow, made, approved, overlaps>>

\* transitionQuotation
AskReview(q, i, to) ==
    /\ to \in QuotationMoves[quotation[i]]
    /\ Begin(q, "mark", to, i)
    /\ UNCHANGED tables

\* The update, by id only; it fails when the quotation is gone, or when it
\* would be the second active one of its vendor.
Mark(q) ==
    LET w == work[q] IN
    /\ At(q, "mark")
    /\ quotation' = IF quotation[w.on] # "absent" /\ (w.to \in Active => Alone(w.on))
                    THEN [quotation EXCEPT ![w.on] = w.to] ELSE quotation
    /\ Done(q)
    /\ UNCHANGED <<rfq, flow, made, approved, overlaps>>

AskErase(q, i) ==
    /\ quotation[i] = "received"
    /\ Begin(q, "erase", "absent", i)
    /\ UNCHANGED tables

\* The row is deleted, unless it is the winner or has become an order.
Erase(q) ==
    LET i == work[q].on IN
    /\ At(q, "erase")
    /\ quotation' = IF rfq.winner = i \/ made[i] > 0 THEN quotation
                    ELSE [quotation EXCEPT ![i] = "absent"]
    /\ Done(q)
    /\ UNCHANGED <<rfq, flow, made, approved, overlaps>>

-----------------------------------------------------------------------------
(* The order or contract of the award *)

AskMaterialise(q) ==
    /\ rfq.status = "awarded"
    /\ Begin(q, "look", "awarded", rfq.winner)
    /\ UNCHANGED tables

\* An order or a contract of the RFQ that exists already refuses the call.
Look(q) ==
    /\ At(q, "look")
    /\ IF \A i \in Quotations : made[i] = 0 THEN GoTo(q, "make") ELSE Done(q)
    /\ UNCHANGED <<tables, overlaps>>

\* The order is drafted from the awarded quotation: the one the RFQ pointed
\* to when it was read, or else one with that status.
Make(q) ==
    LET w == work[q]
        sources == IF w.on # NoQuotation THEN {w.on} \ {j \in Quotations : quotation[j] = "absent"}
                   ELSE {j \in Quotations : quotation[j] = "awarded"}
    IN
    /\ At(q, "make")
    /\ IF sources = {} THEN UNCHANGED made
       ELSE \E i \in sources : made' = [made EXCEPT ![i] = @ + 1]
    /\ Done(q)
    /\ UNCHANGED <<rfq, flow, quotation, approved, overlaps>>

-----------------------------------------------------------------------------

\* The process dies or the connection is lost; nothing resumes the call.
CutOff(q) ==
    /\ Faults
    /\ work[q] # NoWork
    /\ Done(q)
    /\ UNCHANGED <<tables, overlaps>>

Next ==
    \/ Proceed
    \/ \E q \in Requests :
        \/ \E to \in DOMAIN RfqMoves : AskMove(q, to)
        \/ \E outcome \in {"approved", "returned", "rejected"} : Decide(q, outcome)
        \/ \E i \in Quotations :
            \/ AskAward(q, i) \/ AskQuote(q, i) \/ AskErase(q, i)
            \/ \E to \in DOMAIN QuotationMoves : AskReview(q, i, to)
        \/ AskMaterialise(q)
        \/ Write(q) \/ Open(q) \/ Converge(q) \/ ReadWinner(q) \/ Award(q)
        \/ Quote(q) \/ Mark(q) \/ Erase(q) \/ Look(q) \/ Make(q) \/ CutOff(q)

Spec == Init /\ [][Next]_vars

-----------------------------------------------------------------------------
(* Properties *)

(* However calls race or are cut off, vendors have quoted, and an order has *)
(* been made, only for an RFQ that the workflow engine approved.            *)
ApprovedBeforeQuotes ==
    \/ rfq.status \in Accepting \cup {"awarded", "closed", "cancelled"}
    \/ \E i \in Quotations : quotation[i] # "absent" \/ made[i] > 0
    => approved

(* As long as calls do not overlap, wherever they are cut off, an awarded  *)
(* RFQ has one awarded quotation, the one it points to, every other one is *)
(* settled for good, and at most one order or contract was made, of it.    *)
AwardSettled ==
    overlaps = 0 /\ rfq.status \in {"awarded", "closed"} =>
        \A i \in Quotations :
            /\ quotation[i] \notin Active
            /\ quotation[i] = "awarded" <=> i = rfq.winner
            /\ made[i] <= IF i = rfq.winner THEN 1 ELSE 0

\* The workflow of the one RFQ, as the engine shows it to a record.
Engine == INSTANCE RecordApproval WITH
    Records <- {"rfq"},
    undecided <- [r \in {"rfq"} |-> IF flow \in Running THEN flow ELSE "none"],
    approved <- {r \in {"rfq"} : approved}

(* Whatever submissions and handlers do to the workflow of the RFQ, and    *)
(* however they race or are cut off, is what the engine promises of it.    *)
FollowsEngine == Engine!ApprovalSpec

=============================================================================
