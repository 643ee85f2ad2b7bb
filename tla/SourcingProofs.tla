--------------------------- MODULE SourcingProofs ---------------------------
(***************************************************************************)
(* Theorems about Sourcing for any quotations, vendors and requests:       *)
(* nobody quotes before the approval, whatever races; and an award is      *)
(* settled as long as calls do not overlap, wherever they are cut off.     *)
(***************************************************************************)
EXTENDS Sourcing, TLAPS

RfqStatuses == {"draft", "under_review", "returned", "approved_internal", "issued",
                "responses_received", "evaluation", "awarded", "rejected", "closed", "cancelled"}

QuotationStatuses == {"received", "under_review", "shortlisted", "awarded", "rejected",
                      "expired", "absent"}

\* The statuses before the decision of the engine, and those of an award.
Before == {"draft", "under_review", "returned", "rejected"}
Won == {"awarded", "closed"}

\* The calls, with the status each kind of them writes.
Calls == {w \in Work : /\ w.at \in {"write", "converge"} => w.to \in RfqStatuses
                       /\ w.at = "mark" => w.to \in QuotationStatuses}

TypeOK ==
    /\ rfq \in [status : RfqStatuses, winner : Quotations \cup {NoQuotation}]
    /\ flow \in FlowStatuses
    /\ quotation \in [Quotations -> QuotationStatuses]
    /\ made \in [Quotations -> Nat]
    /\ work \in [Requests -> Calls \cup {NoWork}]
    /\ approved \in BOOLEAN
    /\ overlaps \in Nat

(* The tables of statuses, spelled out.                                    *)
LEMMA Tables ==
    /\ DOMAIN RfqMoves = RfqStatuses
    /\ DOMAIN QuotationMoves = QuotationStatuses
    /\ \A s \in Before : RfqMoves[s] \ (Managed \cup {"awarded"}) \subseteq Before
    /\ \A s \in RfqStatuses : RfqMoves[s] \subseteq RfqStatuses
    /\ \A s \in RfqStatuses : \A t \in RfqMoves[s] \ {"awarded"} : s \in Won <=> t \in Won
    /\ \A s \in RfqStatuses : \A t \in RfqMoves[s] \ Managed : t \in Before => s \in Before
    /\ \A s \in RfqStatuses : "awarded" \in RfqMoves[s] => s = "evaluation"
    /\ \A s \in QuotationStatuses : \A t \in QuotationMoves[s] :
          s \in Active /\ t \in QuotationStatuses \ {"awarded", "absent"}
<1>1. DOMAIN RfqMoves = RfqStatuses /\ DOMAIN QuotationMoves = QuotationStatuses
  BY DEF RfqMoves, QuotationMoves, RfqStatuses, QuotationStatuses
<1>2. \A s \in RfqStatuses : RfqMoves[s] \subseteq RfqStatuses
  BY DEF RfqMoves, RfqStatuses
<1>3. \A s \in Before : RfqMoves[s] \ (Managed \cup {"awarded"}) \subseteq Before
  BY DEF RfqMoves, Before, Managed
<1>4. \A s \in RfqStatuses : \A t \in RfqMoves[s] \ {"awarded"} : s \in Won <=> t \in Won
  BY DEF RfqMoves, RfqStatuses, Won
<1>5. \A s \in RfqStatuses : \A t \in RfqMoves[s] \ Managed : t \in Before => s \in Before
  BY DEF RfqMoves, RfqStatuses, Managed, Before
<1>6. \A s \in RfqStatuses : "awarded" \in RfqMoves[s] => s = "evaluation"
  BY DEF RfqMoves, RfqStatuses
<1>7. \A s \in QuotationStatuses : \A t \in QuotationMoves[s] :
          s \in Active /\ t \in QuotationStatuses \ {"awarded", "absent"}
  BY DEF QuotationMoves, QuotationStatuses, Active
<1>8. QED
  BY <1>1, <1>2, <1>3, <1>4, <1>5, <1>6, <1>7

-----------------------------------------------------------------------------
(* Type correctness *)

(* Beginning a call adds one record to the calls in flight.                *)
LEMMA BeginCall ==
    ASSUME work \in [Requests -> Calls \cup {NoWork}], overlaps \in Nat,
           NEW q \in Requests, NEW stage \in Stages,
           NEW to \in RfqStatuses \cup QuotationStatuses,
           NEW on \in Quotations \cup {NoQuotation}, Begin(q, stage, to, on),
           stage \in {"write", "converge"} => to \in RfqStatuses,
           stage = "mark" => to \in QuotationStatuses
    PROVE  /\ work' \in [Requests -> Calls \cup {NoWork}]
           /\ overlaps' \in Nat
           /\ \A p \in Requests \ {q} : work'[p] = work[p]
           /\ work'[q] = [at |-> stage, to |-> to, on |-> on]
           /\ overlaps' = 0 => overlaps = 0 /\ \A p \in Requests : work[p] = NoWork
<1>1. [at |-> stage, to |-> to, on |-> on] \in Calls
  BY Tables DEF Work, Calls
<1>2. work' \in [Requests -> Calls \cup {NoWork}] /\ overlaps' \in Nat
  BY <1>1 DEF Begin
<1>3. QED
  BY <1>2 DEF Begin

(* A step of a call leaves it at its next stage or ends it, and leaves the *)
(* others alone.                                                           *)
LEMMA StepOfCall ==
    ASSUME work \in [Requests -> Calls \cup {NoWork}], NEW q \in Requests, work[q] # NoWork
    PROVE  /\ \A stage \in {"write", "open", "award", "make"} :
                GoTo(q, stage) /\ (stage = "write" => work[q].at = "converge") =>
                    /\ work' \in [Requests -> Calls \cup {NoWork}]
                    /\ \A p \in Requests \ {q} : work'[p] = work[p]
                    /\ work'[q].at = stage
                    /\ work'[q].to = work[q].to
                    /\ work'[q].on = work[q].on
           /\ Done(q) =>
                /\ work' \in [Requests -> Calls \cup {NoWork}]
                /\ \A p \in Requests \ {q} : work'[p] = work[p]
                /\ work'[q] = NoWork
<1>1. work[q] \in Calls
  OBVIOUS
<1>2. ASSUME NEW stage \in {"write", "open", "award", "make"}, GoTo(q, stage),
             stage = "write" => work[q].at = "converge"
      PROVE  /\ work' \in [Requests -> Calls \cup {NoWork}]
             /\ \A p \in Requests \ {q} : work'[p] = work[p]
             /\ work'[q].at = stage
             /\ work'[q].to = work[q].to
             /\ work'[q].on = work[q].on
  <2>1. [work[q] EXCEPT !.at = stage] \in Calls
    BY <1>1, <1>2 DEF Calls, Work, Stages
  <2>2. work' = [work EXCEPT ![q] = [work[q] EXCEPT !.at = stage]]
    BY <1>2 DEF GoTo
  <2>3. work[q] = [at |-> work[q].at, to |-> work[q].to, on |-> work[q].on]
    BY <1>1 DEF Calls, Work
  <2>4. QED
    BY <2>1, <2>2, <2>3
<1>3. ASSUME Done(q)
      PROVE  /\ work' \in [Requests -> Calls \cup {NoWork}]
             /\ \A p \in Requests \ {q} : work'[p] = work[p]
             /\ work'[q] = NoWork
  BY <1>3 DEF Done
<1>4. QED
  BY <1>2, <1>3

(* Every variable keeps its type.                                          *)
THEOREM SourcingTypes == Spec => []TypeOK
<1>1. Init => TypeOK
  <2> SUFFICES ASSUME Init PROVE TypeOK
    OBVIOUS
  <2>1. rfq \in [status : RfqStatuses, winner : Quotations \cup {NoQuotation}]
    BY DEF Init, RfqStatuses
  <2>2. quotation \in [Quotations -> QuotationStatuses] /\ made \in [Quotations -> Nat]
    BY DEF Init, QuotationStatuses
  <2>3. flow \in FlowStatuses /\ overlaps \in Nat
    BY DEF Init, FlowStatuses
  <2>4. approved \in BOOLEAN
    BY Zenon DEF Init
  <2>5. work \in [Requests -> Calls \cup {NoWork}]
    BY DEF Init
  <2>6. QED
    BY <2>1, <2>2, <2>3, <2>4, <2>5 DEF TypeOK
<1>2. TypeOK /\ [Next]_vars => TypeOK'
  <2> SUFFICES ASSUME TypeOK, [Next]_vars PROVE TypeOK'
    OBVIOUS
  <2> USE DEF TypeOK
  <2>1. CASE UNCHANGED vars
    BY <2>1 DEF vars, tables
  <2>2. CASE Proceed
    BY <2>2 DEF Proceed, FlowStatuses, Running
  <2>3. ASSUME NEW q \in Requests, NEW to \in DOMAIN RfqMoves, AskMove(q, to) PROVE TypeOK'
    BY <2>3, Tables, BeginCall DEF AskMove, tables, Stages
  <2>4. ASSUME NEW q \in Requests, NEW outcome \in {"approved", "returned", "rejected"},
               Decide(q, outcome)
        PROVE TypeOK'
    <3>1. (IF outcome = "approved" THEN "approved_internal" ELSE outcome) \in RfqStatuses
      BY DEF RfqStatuses
    <3>2. work' \in [Requests -> Calls \cup {NoWork}] /\ overlaps' \in Nat
      BY <2>4, <3>1, BeginCall DEF Decide, Stages
    <3>3. flow' \in FlowStatuses
      BY <2>4 DEF Decide, FlowStatuses, Running
    <3>4. approved' \in BOOLEAN
      BY <2>4 DEF Decide
    <3>5. QED
      BY <2>4, <3>2, <3>3, <3>4 DEF Decide
  <2>5. ASSUME NEW q \in Requests, NEW i \in Quotations, AskAward(q, i) PROVE TypeOK'
    BY <2>5, BeginCall DEF AskAward, tables, Stages, RfqStatuses
  <2>6. ASSUME NEW q \in Requests, NEW i \in Quotations, AskQuote(q, i) PROVE TypeOK'
    BY <2>6, BeginCall DEF AskQuote, tables, Stages, QuotationStatuses
  <2>7. ASSUME NEW q \in Requests, NEW i \in Quotations, AskErase(q, i) PROVE TypeOK'
    BY <2>7, BeginCall DEF AskErase, tables, Stages, QuotationStatuses
  <2>8. ASSUME NEW q \in Requests, NEW i \in Quotations, NEW to \in DOMAIN QuotationMoves,
               AskReview(q, i, to)
        PROVE TypeOK'
    BY <2>8, Tables, BeginCall DEF AskReview, tables, Stages
  <2>9. ASSUME NEW q \in Requests, AskMaterialise(q) PROVE TypeOK'
    BY <2>9, BeginCall DEF AskMaterialise, tables, Stages, RfqStatuses
  <2>10. ASSUME NEW q \in Requests, Write(q) PROVE TypeOK'
    <3>1. work[q] \in Calls /\ work[q] # NoWork /\ work[q].at = "write"
      BY <2>10 DEF Write, At
    <3>2. work' \in [Requests -> Calls \cup {NoWork}]
      BY <2>10, <3>1, StepOfCall DEF Write
    <3>3. rfq' = [rfq EXCEPT !.status = work[q].to] /\ work[q].to \in RfqStatuses
      BY <2>10, <3>1 DEF Write, Calls
    <3>4. QED
      BY <2>10, <3>2, <3>3 DEF Write
  <2>11. ASSUME NEW q \in Requests, Open(q) PROVE TypeOK'
    <3>1. flow' \in FlowStatuses
      BY <2>11 DEF Open, FlowStatuses, Running
    <3>2. QED
      BY <2>11, <3>1, StepOfCall DEF Open, At
  <2>12. ASSUME NEW q \in Requests, Converge(q) \/ ReadWinner(q) \/ Look(q) PROVE TypeOK'
    <3>1. work' \in [Requests -> Calls \cup {NoWork}]
      BY <2>12, StepOfCall DEF Converge, ReadWinner, Look, At
    <3>2. QED
      BY <2>12, <3>1 DEF Converge, ReadWinner, Look, tables
  <2>13. ASSUME NEW q \in Requests, Award(q) PROVE TypeOK'
    <3>1. work[q] \in Calls /\ work[q].on \in Quotations \cup {NoQuotation}
      BY <2>13 DEF Award, At, Calls, Work
    <3>2. rfq' \in [status : RfqStatuses, winner : Quotations \cup {NoQuotation}]
      BY <2>13, <3>1 DEF Award, RfqStatuses
    <3>3. quotation' \in [Quotations -> QuotationStatuses]
      BY <2>13 DEF Award, QuotationStatuses
    <3>4. QED
      BY <2>13, <3>2, <3>3, StepOfCall DEF Award, At
  <2>14. ASSUME NEW q \in Requests, Quote(q) \/ Mark(q) \/ Erase(q) PROVE TypeOK'
    <3>1. work[q] \in Calls
      BY <2>14 DEF Quote, Mark, Erase, At
    <3>2. quotation' \in [Quotations -> QuotationStatuses]
      BY <2>14, <3>1 DEF Quote, Mark, Erase, At, Calls, QuotationStatuses
    <3>3. QED
      BY <2>14, <3>2, StepOfCall DEF Quote, Mark, Erase, At
  <2>15. ASSUME NEW q \in Requests, Make(q) PROVE TypeOK'
    <3>1. made' \in [Quotations -> Nat]
      BY <2>15 DEF Make
    <3>2. QED
      BY <2>15, <3>1, StepOfCall DEF Make, At
  <2>16. ASSUME NEW q \in Requests, CutOff(q) PROVE TypeOK'
    BY <2>16, StepOfCall DEF CutOff, tables
  <2>17. QED
    BY <2>1, <2>2, <2>3, <2>4, <2>5, <2>6, <2>7, <2>8, <2>9, <2>10, <2>11, <2>12, <2>13,
       <2>14, <2>15, <2>16 DEF Next
<1>3. QED
  BY <1>1, <1>2, PTL DEF Spec

-----------------------------------------------------------------------------
(* Nobody quotes before the approval *)

\* Until the engine approves, the RFQ is before its decision, nobody quoted,
\* and every call in flight leaves it there.
ApprovedFirst ==
    ~approved =>
        /\ rfq.status \in Before
        /\ \A i \in Quotations : quotation[i] = "absent" /\ made[i] = 0
        /\ \A q \in Requests : work[q] # NoWork =>
              work[q].at \in {"write", "converge", "open"} /\ work[q].to \in Before

(* However calls race and wherever they are cut off, vendors have quoted   *)
(* and orders are made only for an RFQ that the workflow engine approved.  *)
THEOREM SourcingApprovedBeforeQuotes == Spec => []ApprovedBeforeQuotes
<1>1. Init => ApprovedFirst
  BY DEF Init, ApprovedFirst, Before
<1>2. TypeOK /\ ApprovedFirst /\ [Next]_vars => ApprovedFirst'
  <2> SUFFICES ASSUME TypeOK, ApprovedFirst, [Next]_vars, ~approved' PROVE ApprovedFirst'
    BY DEF ApprovedFirst
  <2>1. CASE UNCHANGED vars
    BY <2>1 DEF vars, tables, ApprovedFirst
  <2> SUFFICES ASSUME Next PROVE ApprovedFirst'
    BY <2>1
  <2>2. ~approved
    BY DEF Next, Proceed, AskMove, Decide, AskAward, AskQuote, AskErase, AskReview,
       AskMaterialise, Write, Open, Converge, ReadWinner, Award, Quote, Mark, Erase, Look,
       Make, CutOff, tables
  <2>3. /\ rfq.status \in Before /\ rfq.status \in RfqStatuses
        /\ \A i \in Quotations : quotation[i] = "absent" /\ made[i] = 0
        /\ \A q \in Requests : work[q] # NoWork =>
              work[q].at \in {"write", "converge", "open"} /\ work[q].to \in Before
    BY <2>2 DEF ApprovedFirst, TypeOK
  <2>4. /\ work \in [Requests -> Calls \cup {NoWork}] /\ overlaps \in Nat
        /\ rfq \in [status : RfqStatuses, winner : Quotations \cup {NoQuotation}]
    BY DEF TypeOK
  <2>5. CASE Proceed
    BY <2>3, <2>5 DEF Proceed, ApprovedFirst
  <2>6. ASSUME NEW q \in Requests, NEW to \in DOMAIN RfqMoves, AskMove(q, to)
        PROVE  ApprovedFirst'
    <3>1. to \in Before /\ to \in RfqStatuses
      BY <2>3, <2>6, Tables DEF AskMove
    <3>2. work'[q].at = "write" /\ work'[q].to = to
          /\ \A p \in Requests \ {q} : work'[p] = work[p]
      <4>1. Begin(q, "write", to, NoQuotation)
        BY <2>6 DEF AskMove
      <4>2. /\ work'[q] = [at |-> "write", to |-> to, on |-> NoQuotation]
            /\ \A p \in Requests \ {q} : work'[p] = work[p]
        BY <2>4, <3>1, <4>1, BeginCall DEF Stages
      <4>3. QED
        BY <4>2
    <3>3. QED
      BY <2>3, <2>6, <3>1, <3>2 DEF AskMove, tables, ApprovedFirst
  <2>7. ASSUME NEW q \in Requests, NEW outcome \in {"approved", "returned", "rejected"},
               Decide(q, outcome)
        PROVE  ApprovedFirst'
    <3>1. outcome \in Before /\ outcome \in RfqStatuses /\ outcome # "approved"
      BY <2>7 DEF Decide, Before, RfqStatuses
    <3>2. work'[q].at = "converge" /\ work'[q].to = outcome
          /\ \A p \in Requests \ {q} : work'[p] = work[p]
      <4>1. Begin(q, "converge", outcome, NoQuotation)
        BY <2>7, <3>1 DEF Decide
      <4>2. /\ work'[q] = [at |-> "converge", to |-> outcome, on |-> NoQuotation]
            /\ \A p \in Requests \ {q} : work'[p] = work[p]
        BY <2>4, <3>1, <4>1, BeginCall DEF Stages
      <4>3. QED
        BY <4>2
    <3>3. QED
      BY <2>3, <2>7, <3>1, <3>2 DEF Decide, ApprovedFirst
  <2>8. ASSUME NEW q \in Requests, NEW i \in Quotations,
               \/ AskAward(q, i) \/ AskQuote(q, i) \/ AskErase(q, i)
               \/ \E to \in DOMAIN QuotationMoves : AskReview(q, i, to)
        PROVE  FALSE
    <3>1. "awarded" \notin RfqMoves[rfq.status] /\ rfq.status \notin Accepting
      BY <2>3, Tables DEF Before, Accepting
    <3>2. QuotationMoves[quotation[i]] = {} /\ quotation[i] # "received"
      BY <2>3 DEF QuotationMoves
    <3>3. QED
      BY <2>8, <3>1, <3>2 DEF AskAward, AskQuote, AskErase, AskReview
  <2>9. ASSUME NEW q \in Requests, AskMaterialise(q) PROVE FALSE
    BY <2>3, <2>9 DEF AskMaterialise, Before
  <2>10. ASSUME NEW q \in Requests,
                \/ ReadWinner(q) \/ Award(q) \/ Quote(q) \/ Mark(q) \/ Erase(q)
                \/ Look(q) \/ Make(q)
         PROVE  FALSE
    BY <2>3, <2>10 DEF ReadWinner, Award, Quote, Mark, Erase, Look, Make, At
  <2>11. ASSUME NEW q \in Requests, Write(q) PROVE ApprovedFirst'
    <3>1. work[q] # NoWork /\ work[q].to \in Before
      BY <2>3, <2>11 DEF Write, At
    <3>2. rfq'.status \in Before
      BY <2>4, <2>11, <3>1 DEF Write
    <3>3. \A p \in Requests : work'[p] # NoWork =>
             work'[p].at \in {"write", "converge", "open"} /\ work'[p].to \in Before
      BY <2>3, <2>4, <2>11, <3>1, StepOfCall DEF Write
    <3>4. QED
      BY <2>3, <2>11, <3>2, <3>3 DEF Write, ApprovedFirst
  <2>12. ASSUME NEW q \in Requests, Open(q) \/ Converge(q) \/ CutOff(q) PROVE ApprovedFirst'
    <3>1. work[q] # NoWork
      BY <2>12 DEF Open, Converge, CutOff, At
    <3>2. \A p \in Requests : work'[p] # NoWork =>
             work'[p].at \in {"write", "converge", "open"} /\ work'[p].to \in Before
      BY <2>3, <2>4, <2>12, <3>1, StepOfCall DEF Open, Converge, CutOff, At
    <3>3. QED
      BY <2>3, <2>12, <3>2 DEF Open, Converge, CutOff, tables, ApprovedFirst
  <2>13. QED
    BY <2>5, <2>6, <2>7, <2>8, <2>9, <2>10, <2>11, <2>12 DEF Next
<1>3. TypeOK /\ ApprovedFirst => ApprovedBeforeQuotes
  BY DEF TypeOK, ApprovedFirst, ApprovedBeforeQuotes, Before, Accepting
<1>4. QED
  BY <1>1, <1>2, <1>3, SourcingTypes, PTL DEF Spec

-----------------------------------------------------------------------------
(* An award is settled while calls do not overlap *)

\* What the tables owe each other while no call is between two queries.
Consistent ==
    /\ rfq.status \notin Before => flow \notin Running
    /\ rfq.status \notin Won =>
          \A i \in Quotations : quotation[i] # "awarded" /\ made[i] = 0
    /\ rfq.status \in Won =>
          /\ rfq.winner \in Quotations
          /\ \A i \in Quotations :
                /\ quotation[i] \notin Active
                /\ quotation[i] = "awarded" <=> i = rfq.winner
                /\ made[i] <= IF i = rfq.winner THEN 1 ELSE 0

\* What a call has read still holds.
Fresh(w) ==
    /\ w.at \in {"write", "converge"} =>
          (rfq.status \in Won <=> w.to \in Won) /\ (w.to \notin Before => flow \notin Running)
    /\ w.at = "open" => rfq.status \in Before
    /\ w.at \in {"winner", "award"} => rfq.status = "evaluation" /\ w.on \in Quotations
    /\ w.at \in {"quote", "mark", "erase"} => rfq.status \notin Won /\ w.to # "awarded"
    /\ w.at \in {"look", "make"} => rfq.status \in Won /\ w.on = rfq.winner
    /\ w.at = "make" => \A i \in Quotations : made[i] = 0

\* At most one call is in flight.
OneCall == \A p, q \in Requests : work[p] # NoWork /\ work[q] # NoWork => p = q

Serial ==
    overlaps = 0 =>
        /\ Consistent
        /\ OneCall
        /\ \A q \in Requests : work[q] # NoWork => Fresh(work[q])

(* A call that begins while nothing is in flight is the only one.          *)
LEMMA SerialBegin ==
    ASSUME TypeOK, NEW q \in Requests, NEW stage \in Stages,
           NEW to \in RfqStatuses \cup QuotationStatuses,
           NEW on \in Quotations \cup {NoQuotation}, Begin(q, stage, to, on),
           stage \in {"write", "converge"} => to \in RfqStatuses,
           stage = "mark" => to \in QuotationStatuses,
           overlaps' = 0
    PROVE  /\ overlaps = 0
           /\ work'[q].at = stage /\ work'[q].to = to /\ work'[q].on = on
           /\ \A p \in Requests \ {q} : work'[p] = NoWork
<1>1. work \in [Requests -> Calls \cup {NoWork}] /\ overlaps \in Nat
  BY DEF TypeOK
<1>2. /\ \A p \in Requests \ {q} : work'[p] = work[p]
      /\ work'[q] = [at |-> stage, to |-> to, on |-> on]
      /\ overlaps = 0 /\ \A p \in Requests : work[p] = NoWork
  BY <1>1, BeginCall
<1>3. QED
  BY <1>2

(* The only call in flight, when it steps, stays the only one.             *)
LEMMA SerialStep ==
    ASSUME TypeOK, OneCall, NEW q \in Requests, work[q] # NoWork
    PROVE  /\ \A stage \in {"write", "open", "award", "make"} :
                GoTo(q, stage) /\ (stage = "write" => work[q].at = "converge") =>
                    /\ work'[q].at = stage
                    /\ work'[q].to = work[q].to
                    /\ work'[q].on = work[q].on
                    /\ \A p \in Requests \ {q} : work'[p] = NoWork
           /\ Done(q) => \A p \in Requests : work'[p] = NoWork
<1>1. work \in [Requests -> Calls \cup {NoWork}]
  BY DEF TypeOK
<1>2. \A p \in Requests \ {q} : work[p] = NoWork
  BY DEF OneCall
<1>3. QED
  BY <1>1, <1>2, StepOfCall

(* As long as calls do not overlap, wherever they are cut off, an awarded  *)
(* RFQ has one awarded quotation, every other one is settled, and at most  *)
(* one order or contract was made, of that one.                            *)
THEOREM SourcingAwardSettled == Spec => []AwardSettled
<1>1. Init => Serial
  BY DEF Init, Serial, Consistent, OneCall, Before, Won
<1>2. TypeOK /\ TypeOK' /\ Serial /\ [Next]_vars => Serial'
  <2> SUFFICES ASSUME TypeOK, TypeOK', Serial, [Next]_vars, overlaps' = 0
               PROVE  Consistent' /\ OneCall' /\ \A q \in Requests : work'[q] # NoWork => Fresh(work[q])'
    BY DEF Serial
  <2> DEFINE Goal == Consistent' /\ OneCall' /\ \A q \in Requests : work'[q] # NoWork => Fresh(work[q])'
  <2>t. /\ rfq \in [status : RfqStatuses, winner : Quotations \cup {NoQuotation}]
        /\ quotation \in [Quotations -> QuotationStatuses]
        /\ made \in [Quotations -> Nat]
        /\ work \in [Requests -> Calls \cup {NoWork}]
        /\ overlaps \in Nat
    BY DEF TypeOK
  <2>s. overlaps = 0 => Consistent /\ OneCall /\ \A q \in Requests : work[q] # NoWork => Fresh(work[q])
    BY DEF Serial
  <2>1. CASE UNCHANGED vars
    BY <2>1, <2>s DEF vars, tables, Consistent, OneCall, Fresh
  <2>2. CASE Proceed
    BY <2>2, <2>s DEF Proceed, Consistent, OneCall, Fresh, Running
  \* A call that begins has just read what it is about.
  <2>3. ASSUME NEW q \in Requests, NEW to \in DOMAIN RfqMoves, AskMove(q, to) PROVE Goal
    <3>1. /\ Begin(q, "write", to, NoQuotation) /\ UNCHANGED tables /\ to \in RfqStatuses
          /\ to \in RfqMoves[rfq.status] \ (Managed \cup {"awarded"})
      BY <2>3, Tables DEF AskMove
    <3>2. /\ overlaps = 0
          /\ work'[q].at = "write" /\ work'[q].to = to
          /\ \A p \in Requests \ {q} : work'[p] = NoWork
      BY <3>1, SerialBegin DEF Stages
    <3>3. (rfq.status \in Won <=> to \in Won) /\ (to \notin Before => flow \notin Running)
      BY <2>s, <2>t, <3>1, <3>2, Tables DEF Consistent
    <3>4. Fresh(work[q])'
      BY <3>1, <3>2, <3>3 DEF Fresh, tables
    <3>5. QED
      BY <2>s, <3>1, <3>2, <3>4 DEF tables, Consistent, OneCall
  <2>4. ASSUME NEW q \in Requests, NEW outcome \in {"approved", "returned", "rejected"},
               Decide(q, outcome)
        PROVE  Goal
    <3> DEFINE to == IF outcome = "approved" THEN "approved_internal" ELSE outcome
    <3>1. /\ Begin(q, "converge", to, NoQuotation) /\ to \in RfqStatuses
          /\ flow \in Running /\ flow' = outcome
          /\ UNCHANGED <<rfq, quotation, made>>
          /\ to \notin Won /\ (to \notin Before => flow' \notin Running)
      BY <2>4 DEF Decide, RfqStatuses, Won, Before, Running
    <3> HIDE DEF to
    <3>2. /\ overlaps = 0
          /\ work'[q].at = "converge" /\ work'[q].to = to
          /\ \A p \in Requests \ {q} : work'[p] = NoWork
      BY <3>1, SerialBegin DEF Stages
    <3>3. rfq.status \in Before /\ rfq.status \notin Won
      BY <2>s, <3>1, <3>2 DEF Consistent, Before, Won
    <3>4. Fresh(work[q])'
      BY <3>1, <3>2, <3>3 DEF Fresh
    <3>5. QED
      BY <2>s, <3>1, <3>2, <3>3, <3>4 DEF Consistent, OneCall
  <2>5. ASSUME NEW q \in Requests, NEW i \in Quotations, AskAward(q, i)
        PROVE  Goal
    <3>1. Begin(q, "winner", "awarded", i) /\ UNCHANGED tables
      BY <2>5 DEF AskAward
    <3>2. /\ overlaps = 0
          /\ work'[q].at = "winner" /\ work'[q].to = "awarded" /\ work'[q].on = i
          /\ \A p \in Requests \ {q} : work'[p] = NoWork
      BY <2>t, <3>1, SerialBegin DEF Stages, RfqStatuses
    <3>3. rfq.status = "evaluation"
      BY <2>5, <2>s, <2>t, <3>2, Tables DEF AskAward
    <3>4. Fresh(work[q])'
      BY <3>1, <3>2, <3>3 DEF Fresh, tables
    <3>5. QED
      BY <2>s, <3>1, <3>2, <3>4 DEF tables, Consistent, OneCall
  <2>6. ASSUME NEW q \in Requests, NEW i \in Quotations, AskQuote(q, i)
        PROVE  Goal
    <3>1. Begin(q, "quote", "received", i) /\ UNCHANGED tables
      BY <2>6 DEF AskQuote
    <3>2. /\ overlaps = 0
          /\ work'[q].at = "quote" /\ work'[q].to = "received" /\ work'[q].on = i
          /\ \A p \in Requests \ {q} : work'[p] = NoWork
      BY <2>t, <3>1, SerialBegin DEF Stages, QuotationStatuses
    <3>3. rfq.status \notin Won
      BY <2>6, <2>s, <2>t, <3>2 DEF AskQuote, Accepting, Won
    <3>4. Fresh(work[q])'
      BY <3>1, <3>2, <3>3 DEF Fresh, tables
    <3>5. QED
      BY <2>s, <3>1, <3>2, <3>4 DEF tables, Consistent, OneCall
  <2>7. ASSUME NEW q \in Requests, NEW i \in Quotations, AskErase(q, i)
        PROVE  Goal
    <3>1. Begin(q, "erase", "absent", i) /\ UNCHANGED tables
      BY <2>7 DEF AskErase
    <3>2. /\ overlaps = 0
          /\ work'[q].at = "erase" /\ work'[q].to = "absent" /\ work'[q].on = i
          /\ \A p \in Requests \ {q} : work'[p] = NoWork
      BY <2>t, <3>1, SerialBegin DEF Stages, QuotationStatuses
    <3>3. rfq.status \notin Won
      BY <2>7, <2>s, <2>t, <3>2 DEF AskErase, Consistent, Active
    <3>4. Fresh(work[q])'
      BY <3>1, <3>2, <3>3 DEF Fresh, tables
    <3>5. QED
      BY <2>s, <3>1, <3>2, <3>4 DEF tables, Consistent, OneCall
  <2>8. ASSUME NEW q \in Requests, NEW i \in Quotations, NEW to \in DOMAIN QuotationMoves, AskReview(q, i, to)
        PROVE  Goal
    <3>1. Begin(q, "mark", to, i) /\ UNCHANGED tables
      BY <2>8 DEF AskReview
    <3>2. /\ overlaps = 0
          /\ work'[q].at = "mark" /\ work'[q].to = to /\ work'[q].on = i
          /\ \A p \in Requests \ {q} : work'[p] = NoWork
      BY <2>t, <3>1, SerialBegin, Tables DEF Stages
    <3>3. rfq.status \notin Won /\ to # "awarded"
      BY <2>8, <2>s, <2>t, <3>2, Tables DEF AskReview, Consistent
    <3>4. Fresh(work[q])'
      BY <3>1, <3>2, <3>3 DEF Fresh, tables
    <3>5. QED
      BY <2>s, <3>1, <3>2, <3>4 DEF tables, Consistent, OneCall
  <2>9. ASSUME NEW q \in Requests, AskMaterialise(q)
        PROVE  Goal
    <3>1. Begin(q, "look", "awarded", rfq.winner) /\ UNCHANGED tables
      BY <2>9 DEF AskMaterialise
    <3>2. /\ overlaps = 0
          /\ work'[q].at = "look" /\ work'[q].to = "awarded" /\ work'[q].on = rfq.winner
          /\ \A p \in Requests \ {q} : work'[p] = NoWork
      BY <2>t, <3>1, SerialBegin DEF Stages, RfqStatuses
    <3>3. rfq.status \in Won
      BY <2>9, <2>s, <2>t, <3>2 DEF AskMaterialise, Won
    <3>4. Fresh(work[q])'
      BY <3>1, <3>2, <3>3 DEF Fresh, tables
    <3>5. QED
      BY <2>s, <3>1, <3>2, <3>4 DEF tables, Consistent, OneCall
  \* A call goes on, alone.
  <2>10. ASSUME NEW q \in Requests, Write(q) PROVE Goal
    <3>1. /\ overlaps = 0 /\ work[q] # NoWork /\ work[q].at = "write"
          /\ work[q].to \in RfqStatuses
          /\ rfq'.status = work[q].to /\ rfq'.winner = rfq.winner
          /\ UNCHANGED <<flow, quotation, made>>
      BY <2>10, <2>t DEF Write, At, Calls
    <3>2. /\ Consistent /\ OneCall
          /\ (rfq.status \in Won <=> work[q].to \in Won)
          /\ (work[q].to \notin Before => flow \notin Running)
      BY <2>s, <3>1 DEF Fresh
    <3>3. Consistent'
      BY <3>1, <3>2 DEF Consistent
    <3>4. CASE work[q].to = "under_review"
      <4>1. /\ work'[q].at = "open" /\ \A p \in Requests \ {q} : work'[p] = NoWork
            /\ rfq'.status \in Before
        BY <2>10, <3>1, <3>2, <3>4, SerialStep DEF Write, Before
      <4>2. Fresh(work[q])'
        BY <4>1 DEF Fresh
      <4>3. QED
        BY <3>3, <4>1, <4>2 DEF OneCall
    <3>5. CASE work[q].to # "under_review"
      <4>1. \A p \in Requests : work'[p] = NoWork
        BY <2>10, <3>1, <3>2, <3>5, SerialStep DEF Write
      <4>2. QED
        BY <3>3, <4>1 DEF OneCall
    <3>6. QED
      BY <3>4, <3>5
  <2>11. ASSUME NEW q \in Requests, Converge(q) \/ ReadWinner(q) \/ Look(q) PROVE Goal
    <3>1. /\ overlaps = 0 /\ work[q] # NoWork /\ UNCHANGED tables
          /\ Consistent /\ OneCall /\ Fresh(work[q])
      BY <2>11, <2>s DEF Converge, ReadWinner, Look, At
    <3>2. Consistent'
      BY <3>1 DEF Consistent, tables
    <3>3. CASE Done(q)
      BY <3>1, <3>2, <3>3, SerialStep DEF OneCall
    <3>4. CASE \/ Converge(q) /\ GoTo(q, "write")
               \/ ReadWinner(q) /\ GoTo(q, "award")
               \/ Look(q) /\ GoTo(q, "make") /\ \A i \in Quotations : made[i] = 0
      <4>1. /\ work'[q].to = work[q].to /\ work'[q].on = work[q].on
            /\ \/ work[q].at = "converge" /\ work'[q].at = "write"
               \/ work[q].at = "winner" /\ work'[q].at = "award"
               \/ /\ work[q].at = "look" /\ work'[q].at = "make"
                  /\ \A i \in Quotations : made[i] = 0
            /\ \A p \in Requests \ {q} : work'[p] = NoWork
        BY <3>1, <3>4, SerialStep DEF Converge, ReadWinner, Look, At
      <4>2. Fresh(work[q])'
        BY <3>1, <4>1 DEF Fresh, tables
      <4>3. QED
        BY <3>2, <4>1, <4>2 DEF OneCall
    <3>5. QED
      BY <2>11, <3>3, <3>4 DEF Converge, ReadWinner, Look
  <2>12. ASSUME NEW q \in Requests, Open(q) PROVE Goal
    <3>1. /\ overlaps = 0 /\ work[q] # NoWork /\ work[q] \in Calls /\ Done(q)
          /\ Consistent /\ OneCall /\ Fresh(work[q])
      BY <2>12, <2>s, <2>t DEF Open, At
    <3>2. rfq.status \in Before
      BY <2>12, <2>t, <3>1 DEF Open, At, Fresh
    <3>3. Consistent'
      BY <2>12, <2>t, <3>1, <3>2 DEF Open, Consistent
    <3>4. \A p \in Requests : work'[p] = NoWork
      BY <3>1, SerialStep
    <3>5. QED
      BY <3>3, <3>4 DEF OneCall
  <2>13. ASSUME NEW q \in Requests, Award(q) PROVE Goal
    <3>1. /\ overlaps = 0 /\ work[q] # NoWork /\ work[q] \in Calls /\ Done(q)
          /\ Consistent /\ OneCall /\ Fresh(work[q])
      BY <2>13, <2>s, <2>t DEF Award, At
    <3>2. rfq.status = "evaluation" /\ work[q].on \in Quotations
      BY <2>13, <2>t, <3>1 DEF Award, At, Fresh
    <3>3. Consistent'
      BY <2>13, <2>t, <3>1, <3>2 DEF Award, Consistent, Before, Won, Active
    <3>4. \A p \in Requests : work'[p] = NoWork
      BY <3>1, SerialStep
    <3>5. QED
      BY <3>3, <3>4 DEF OneCall
  <2>14. ASSUME NEW q \in Requests, Quote(q) PROVE Goal
    <3>1. /\ overlaps = 0 /\ work[q] # NoWork /\ work[q] \in Calls /\ Done(q)
          /\ Consistent /\ OneCall /\ Fresh(work[q])
      BY <2>14, <2>s, <2>t DEF Quote, At
    <3>2. rfq.status \notin Won
      BY <2>14, <2>t, <3>1 DEF Quote, At, Fresh
    <3>3. Consistent'
      BY <2>14, <2>t, <3>1, <3>2 DEF Quote, Consistent
    <3>4. \A p \in Requests : work'[p] = NoWork
      BY <3>1, SerialStep
    <3>5. QED
      BY <3>3, <3>4 DEF OneCall
  <2>15. ASSUME NEW q \in Requests, Mark(q) PROVE Goal
    <3>1. /\ overlaps = 0 /\ work[q] # NoWork /\ work[q] \in Calls /\ Done(q)
          /\ Consistent /\ OneCall /\ Fresh(work[q])
      BY <2>15, <2>s, <2>t DEF Mark, At
    <3>2. rfq.status \notin Won /\ work[q].to # "awarded"
      BY <2>15, <2>t, <3>1 DEF Mark, At, Fresh
    <3>3. Consistent'
      BY <2>15, <2>t, <3>1, <3>2 DEF Mark, Consistent
    <3>4. \A p \in Requests : work'[p] = NoWork
      BY <3>1, SerialStep
    <3>5. QED
      BY <3>3, <3>4 DEF OneCall
  <2>16. ASSUME NEW q \in Requests, Erase(q) PROVE Goal
    <3>1. /\ overlaps = 0 /\ work[q] # NoWork /\ work[q] \in Calls /\ Done(q)
          /\ Consistent /\ OneCall /\ Fresh(work[q])
      BY <2>16, <2>s, <2>t DEF Erase, At
    <3>2. rfq.status \notin Won
      BY <2>16, <2>t, <3>1 DEF Erase, At, Fresh
    <3>3. Consistent'
      BY <2>16, <2>t, <3>1, <3>2 DEF Erase, Consistent
    <3>4. \A p \in Requests : work'[p] = NoWork
      BY <3>1, SerialStep
    <3>5. QED
      BY <3>3, <3>4 DEF OneCall
  <2>17. ASSUME NEW q \in Requests, Make(q) PROVE Goal
    <3>1. /\ overlaps = 0 /\ work[q] # NoWork /\ work[q] \in Calls /\ Done(q)
          /\ Consistent /\ OneCall /\ Fresh(work[q])
      BY <2>17, <2>s, <2>t DEF Make, At
    <3>2. /\ rfq.status \in Won /\ work[q].on = rfq.winner
          /\ \A i \in Quotations : made[i] = 0
      BY <2>17, <2>t, <3>1 DEF Make, At, Fresh
    <3>3. Consistent'
      BY <2>17, <2>t, <3>1, <3>2 DEF Make, Consistent
    <3>4. \A p \in Requests : work'[p] = NoWork
      BY <3>1, SerialStep
    <3>5. QED
      BY <3>3, <3>4 DEF OneCall
  <2>18. ASSUME NEW q \in Requests, CutOff(q) PROVE Goal
    <3>1. /\ overlaps = 0 /\ work[q] # NoWork /\ Done(q) /\ Consistent /\ OneCall
          /\ UNCHANGED tables
      BY <2>18, <2>s DEF CutOff
    <3>2. \A p \in Requests : work'[p] = NoWork
      BY <3>1, SerialStep
    <3>3. QED
      BY <3>1, <3>2 DEF Consistent, OneCall, tables
  <2>19. QED
    BY <2>1, <2>2, <2>3, <2>4, <2>5, <2>6, <2>7, <2>8, <2>9, <2>10, <2>11, <2>12, <2>13,
       <2>14, <2>15, <2>16, <2>17, <2>18 DEF Next
<1>3. Serial => AwardSettled
  BY DEF Serial, AwardSettled, Consistent, Won
<1>4. QED
  BY <1>1, <1>2, <1>3, SourcingTypes, PTL DEF Spec

-----------------------------------------------------------------------------
(* What the engine shows to the RFQ *)

(* Setting the status of the workflow as the engine does is one of the     *)
(* steps it promises.                                                      *)
LEMMA FlowMoves ==
    ASSUME TypeOK, NEW s, flow' = s,
           \/ s = "in_progress" /\ approved' = approved
           \/ s = "returned" /\ flow = "in_progress" /\ approved' = approved
           \/ s \in {"rejected", "cancelled"} /\ flow \in Running /\ approved' = approved
           \/ s = "approved" /\ flow \in Running /\ approved' = TRUE
    PROVE  [Engine!ApprovalNext]_Engine!approvalVars
<1>. DEFINE seen == [x \in {"rfq"} |-> IF flow \in Running THEN flow ELSE "none"]
            passed == {x \in {"rfq"} : approved}
            new == IF s \in Running THEN s ELSE "none"
<1>1. seen' = [seen EXCEPT !["rfq"] = new]
  OBVIOUS
<1>2. seen["rfq"] = IF flow \in Running THEN flow ELSE "none"
  OBVIOUS
<1>3. passed' = IF s = "approved" THEN passed \cup {"rfq"} ELSE passed
  <2>1. CASE s = "approved"
    BY <2>1
  <2>2. CASE s # "approved"
    BY <2>2
  <2>3. QED
    BY <2>1, <2>2
<1>. HIDE DEF seen, passed
<1>4. CASE s = "in_progress"
  <2>1. seen' = [seen EXCEPT !["rfq"] = "in_progress"] /\ passed' = passed
    BY <1>1, <1>3, <1>4 DEF Running
  <2>2. CASE seen["rfq"] = "none"
    <3>1. Engine!Begun("rfq")
      BY <2>1, <2>2 DEF Engine!Begun, Engine!MoveTo, seen, passed
    <3>2. QED
      BY <3>1 DEF Engine!ApprovalNext
  <2>3. CASE seen["rfq"] = "returned"
    <3>1. Engine!GoneOn("rfq")
      BY <2>1, <2>3 DEF Engine!GoneOn, Engine!MoveTo, seen, passed
    <3>2. QED
      BY <3>1 DEF Engine!ApprovalNext
  <2>4. CASE seen["rfq"] = "in_progress"
    <3>1. seen' = seen
      BY <2>1, <2>4 DEF seen
    <3>2. QED
      BY <2>1, <3>1 DEF Engine!approvalVars, seen, passed
  <2>5. QED
    BY <1>2, <2>2, <2>3, <2>4 DEF Running
<1>5. CASE s = "returned"
  <2>1. /\ seen["rfq"] = "in_progress" /\ seen' = [seen EXCEPT !["rfq"] = "returned"]
        /\ passed' = passed
    BY <1>1, <1>2, <1>3, <1>5 DEF Running
  <2>2. Engine!SentBack("rfq")
    BY <2>1 DEF Engine!SentBack, Engine!MoveTo, seen, passed
  <2>3. QED
    BY <2>2 DEF Engine!ApprovalNext
<1>6. CASE s \in {"rejected", "cancelled"}
  <2>1. seen["rfq"] # "none" /\ seen' = [seen EXCEPT !["rfq"] = "none"] /\ passed' = passed
    BY <1>1, <1>2, <1>3, <1>6 DEF Running
  <2>2. Engine!Dismissed("rfq")
    BY <2>1 DEF Engine!Dismissed, Engine!MoveTo, seen, passed
  <2>3. QED
    BY <2>2 DEF Engine!ApprovalNext
<1>7. CASE s = "approved"
  <2>1. /\ seen["rfq"] # "none" /\ seen' = [seen EXCEPT !["rfq"] = "none"]
        /\ passed' = passed \cup {"rfq"}
    BY <1>1, <1>2, <1>3, <1>7 DEF Running
  <2>2. Engine!Approved("rfq")
    BY <2>1 DEF Engine!Approved, Engine!MoveTo, seen, passed
  <2>3. QED
    BY <2>2 DEF Engine!ApprovalNext
<1>8. QED
  BY <1>4, <1>5, <1>6, <1>7

(* A workflow that nothing is done to shows the same.                      *)
LEMMA FlowStays ==
    ASSUME flow' = flow, approved' = approved
    PROVE  [Engine!ApprovalNext]_Engine!approvalVars
BY DEF Engine!approvalVars

(* A step of the calls, the handlers or the engine is a step of what the   *)
(* engine promises, or leaves the workflow alone.                          *)
LEMMA NextFollows == TypeOK /\ [Next]_vars => [Engine!ApprovalNext]_Engine!approvalVars
<1>. SUFFICES ASSUME TypeOK, [Next]_vars PROVE [Engine!ApprovalNext]_Engine!approvalVars
  OBVIOUS
<1>1. ASSUME NEW q \in Requests, NEW outcome \in {"approved", "returned", "rejected"},
             Decide(q, outcome)
      PROVE  [Engine!ApprovalNext]_Engine!approvalVars
  <2>1. CASE outcome = "approved"
    BY <1>1, <2>1, FlowMoves DEF Decide
  <2>2. CASE outcome # "approved"
    <3>1. approved' = approved
      BY <1>1, <2>2 DEF Decide, TypeOK
    <3>2. QED
      BY <1>1, <2>2, <3>1, FlowMoves DEF Decide
  <2>3. QED
    BY <2>1, <2>2
<1>2. CASE Proceed
  BY <1>2, FlowMoves DEF Proceed
<1>3. ASSUME NEW q \in Requests, Open(q) PROVE [Engine!ApprovalNext]_Engine!approvalVars
  <2>1. CASE flow' = flow
    BY <1>3, <2>1, FlowStays DEF Open
  <2>2. CASE flow' = "in_progress"
    BY <1>3, <2>2, FlowMoves DEF Open
  <2>3. QED
    BY <1>3, <2>1, <2>2 DEF Open
<1>4. ASSUME NEW q \in Requests, NEW to, AskMove(q, to)
      PROVE  [Engine!ApprovalNext]_Engine!approvalVars
  BY <1>4, FlowStays DEF AskMove, tables
<1>5. ASSUME NEW q \in Requests, NEW i \in Quotations,
             AskAward(q, i) \/ AskQuote(q, i) \/ AskErase(q, i)
      PROVE  [Engine!ApprovalNext]_Engine!approvalVars
  BY <1>5, FlowStays DEF AskAward, AskQuote, AskErase, tables
<1>6. ASSUME NEW q \in Requests, NEW i \in Quotations, NEW to, AskReview(q, i, to)
      PROVE  [Engine!ApprovalNext]_Engine!approvalVars
  BY <1>6, FlowStays DEF AskReview, tables
<1>7. ASSUME NEW q \in Requests,
             \/ AskMaterialise(q) \/ Write(q) \/ Converge(q) \/ ReadWinner(q) \/ Award(q)
             \/ Quote(q) \/ Mark(q) \/ Erase(q) \/ Look(q) \/ Make(q) \/ CutOff(q)
      PROVE  [Engine!ApprovalNext]_Engine!approvalVars
  BY <1>7, FlowStays DEF AskMaterialise, Write, Converge, ReadWinner, Award, Quote, Mark,
     Erase, Look, Make, CutOff, tables
<1>8. CASE UNCHANGED vars
  BY <1>8, FlowStays DEF vars, tables
<1>9. QED
  BY <1>1, <1>2, <1>3, <1>4, <1>5, <1>6, <1>7, <1>8 DEF Next

(* However the calls on an RFQ race or are cut off, what they, the handlers *)
(* and the engine do to its workflow is what the engine promises of it.     *)
THEOREM SourcingFollowsEngine == Spec => FollowsEngine
<1>1. Init => Engine!ApprovalInit
  BY DEF Init, Running, Engine!ApprovalInit
<1>2. QED
  BY <1>1, NextFollows, SourcingTypes, PTL DEF Spec, FollowsEngine, Engine!ApprovalSpec

=============================================================================
