------------------------- MODULE ProcurementProofs -------------------------
(***************************************************************************)
(* Theorems about Procurement for any set of records, any number of calls  *)
(* in flight, any budget, cut off anywhere.                                *)
(***************************************************************************)
EXTENDS Procurement, FiniteSetTheorems, WellFoundedInduction, TLAPS

(* What the status tables have in common: where a record starts and what a *)
(* transition or a workflow outcome makes of it are statuses of its type,  *)
(* and the status that updates the budget line is posted.                  *)
LEMMA Tables ==
    ASSUME NEW t \in Types
    PROVE  /\ Lifecycle[t].initial \in StatusesOf(t)
           /\ \A a, b : <<a, b>> \in Lifecycle[t].moves => b \in StatusesOf(t)
           /\ \A o \in Outcomes : Lifecycle[t].outcome[o] \in StatusesOf(t) \cup {"ignored"}
           /\ Lifecycle[t].absorbs \in Lifecycle[t].posts
<1>1. Lifecycle[t].initial \in StatusesOf(t)
  BY DEF StatusesOf
<1>2. \A a, b : <<a, b>> \in Lifecycle[t].moves => b \in StatusesOf(t)
  BY DEF StatusesOf
<1>3. \A o \in Outcomes : Lifecycle[t].outcome[o] \in StatusesOf(t) \cup {"ignored"}
  <2>1. CASE t = "po"
    <3>1. /\ <<"submitted", "approved">> \in Lifecycle[t].moves
          /\ <<"submitted", "rejected">> \in Lifecycle[t].moves
          /\ <<"submitted", "returned">> \in Lifecycle[t].moves
      BY <2>1 DEF Lifecycle, PurchaseOrder
    <3>2. QED
      BY <1>2, <2>1, <3>1 DEF Outcomes, Lifecycle, PurchaseOrder
  <2>2. CASE t = "si"
    <3>1. /\ <<"under_review", "approved">> \in Lifecycle[t].moves
          /\ <<"under_review", "rejected">> \in Lifecycle[t].moves
          /\ <<"under_review", "disputed">> \in Lifecycle[t].moves
      BY <2>2 DEF Lifecycle, SupplierInvoice
    <3>2. QED
      BY <1>2, <2>2, <3>1 DEF Outcomes, Lifecycle, SupplierInvoice
  <2>3. CASE t = "expense"
    <3>1. /\ <<"submitted", "approved">> \in Lifecycle[t].moves
          /\ <<"submitted", "rejected">> \in Lifecycle[t].moves
          /\ <<"submitted", "returned">> \in Lifecycle[t].moves
      BY <2>3 DEF Lifecycle, Expense
    <3>2. QED
      BY <1>2, <2>3, <3>1 DEF Outcomes, Lifecycle, Expense
  <2>4. CASE t = "cn"
    <3>1. /\ <<"received", "verified">> \in Lifecycle[t].moves
          /\ <<"verified", "cancelled">> \in Lifecycle[t].moves
      BY <2>4 DEF Lifecycle, CreditNote
    <3>2. QED
      BY <1>2, <2>4, <3>1 DEF Outcomes, Lifecycle, CreditNote
  <2>5. QED
    BY <2>1, <2>2, <2>3, <2>4 DEF Types
<1>4. Lifecycle[t].absorbs \in Lifecycle[t].posts
  BY DEF Types, Lifecycle, PurchaseOrder, SupplierInvoice, Expense, CreditNote
<1>5. QED
  BY <1>1, <1>2, <1>3, <1>4

(* Of an order, an invoice or an expense, every way into the statuses that *)
(* count is managed by the workflow engine, and only its approval leads    *)
(* there; nothing else is absorbed or posted.                              *)
LEMMA WaysIn ==
    ASSUME NEW t \in Types, t # "cn"
    PROVE  /\ "absent" \notin Lifecycle[t].counted
           /\ Lifecycle[t].initial \notin Lifecycle[t].counted
           /\ \A a, b : /\ <<a, b>> \in Lifecycle[t].moves
                        /\ a \notin Lifecycle[t].counted
                        /\ b \notin Lifecycle[t].managed
                        => b \notin Lifecycle[t].counted
           /\ \A o \in Outcomes \ {"approved"} : Lifecycle[t].outcome[o] \notin Lifecycle[t].counted
           /\ Lifecycle[t].absorbs \in Lifecycle[t].counted
           /\ Lifecycle[t].posts \subseteq Lifecycle[t].counted
<1>1. CASE t = "po"
  BY <1>1 DEF Lifecycle, PurchaseOrder, Outcomes
<1>2. CASE t = "si"
  BY <1>2 DEF Lifecycle, SupplierInvoice, Outcomes
<1>3. CASE t = "expense"
  BY <1>3 DEF Lifecycle, Expense, Outcomes
<1>4. QED
  BY <1>1, <1>2, <1>3 DEF Types

\* What the stage of a call in flight says of the status it writes.
CallSound(w) ==
    /\ w.to \in StatusesOf(TypeOf[w.rec])
    /\ w.at = "absorb" => w.to = Cycle(w.rec).absorbs
    /\ w.at \in {"relieve", "release"} /\ TypeOf[w.rec] = "si" => w.to = Cycle(w.rec).absorbs
    /\ w.at = "post" => w.to \in Cycle(w.rec).posts

CallsSound == \A q \in Requests : work[q] # NoWork => CallSound(work[q])

\* A call that can neither absorb, release nor post, nor make its record count.
Innocent(w) ==
    /\ w.at \in {"handle", "write", "open"}
    /\ w.from \notin Cycle(w.rec).counted
    /\ w.to \notin Cycle(w.rec).counted

\* No order, invoice or expense that the engine has not approved counts, and
\* every call on it is innocent, however stale the status it has read.
ApprovalFirst ==
    \A r \in Records : TypeOf[r] # "cn" /\ approvals[r] = 0 =>
        /\ ~Counted(r)
        /\ absorbed[r] = 0
        /\ \A p \in posted : p[1] # r
        /\ \A q \in Requests : work[q] # NoWork /\ work[q].rec = r => Innocent(work[q])

Inv == TypeOK /\ CallsSound /\ ApprovalFirst

-----------------------------------------------------------------------------
(* One call moves *)

(* When one call moves to a sound state, all calls stay well typed and     *)
(* sound.                                                                  *)
LEMMA CallMoves ==
    ASSUME TypeOK, CallsSound, NEW q \in Requests, NEW w \in Work \cup {NoWork},
           work' = [work EXCEPT ![q] = w], w # NoWork => CallSound(w)
    PROVE  work' \in [Requests -> Work \cup {NoWork}] /\ CallsSound'
<1>1. work' \in [Requests -> Work \cup {NoWork}]
  BY DEF TypeOK
<1>2. ASSUME NEW p \in Requests, work'[p] # NoWork PROVE CallSound(work'[p])
  <2>1. CASE p = q
    BY <1>2, <2>1 DEF TypeOK
  <2>2. CASE p # q
    BY <1>2, <2>2 DEF TypeOK, CallsSound
  <2>3. QED
    BY <2>1, <2>2
<1>3. CallsSound'
  BY <1>2 DEF CallsSound, CallSound
<1>4. QED
  BY <1>1, <1>3

(* A step keeps ApprovalFirst when a record that is unapproved after it    *)
(* was so before, gains nothing by it, and the call that moves is innocent *)
(* if it is on that record.                                                *)
LEMMA ApprovalFirstKept ==
    ASSUME TypeOK, ApprovalFirst, NEW q \in Requests, NEW w \in Work \cup {NoWork},
           work' = [work EXCEPT ![q] = w],
           \A r \in Records : TypeOf[r] # "cn" /\ approvals'[r] = 0 =>
               /\ approvals[r] = 0
               /\ ~Counted(r)'
               /\ absorbed'[r] = absorbed[r]
               /\ \A p \in posted' : p \in posted \/ p[1] # r
               /\ w # NoWork /\ w.rec = r => Innocent(w)
    PROVE  ApprovalFirst'
<1>1. SUFFICES ASSUME NEW r \in Records, TypeOf[r] # "cn", approvals'[r] = 0
               PROVE  /\ ~Counted(r)'
                      /\ absorbed'[r] = 0
                      /\ \A p \in posted' : p[1] # r
                      /\ \A x \in Requests : work'[x] # NoWork /\ work'[x].rec = r
                                                => Innocent(work'[x])
  BY DEF ApprovalFirst, Innocent
<1>2. ~Counted(r)' /\ absorbed'[r] = 0 /\ \A p \in posted' : p[1] # r
  BY <1>1 DEF ApprovalFirst
<1>3. ASSUME NEW x \in Requests, work'[x] # NoWork, work'[x].rec = r
      PROVE  Innocent(work'[x])
  <2>1. CASE x = q
    BY <1>1, <1>3, <2>1 DEF TypeOK
  <2>2. CASE x # q
    <3>1. work'[x] = work[x]
      BY <2>2 DEF TypeOK
    <3>2. QED
      BY <1>1, <1>3, <3>1 DEF ApprovalFirst
  <2>3. QED
    BY <2>1, <2>2
<1>4. QED
  BY <1>2, <1>3

(* A call at a later stage than the update of the status is on a record    *)
(* that is approved.                                                       *)
LEMMA PastWrite ==
    ASSUME Inv, NEW q \in Requests, work[q] # NoWork,
           work[q].at \notin {"handle", "write", "open"}, TypeOf[work[q].rec] # "cn"
    PROVE  approvals[work[q].rec] # 0
BY DEF Inv, TypeOK, ApprovalFirst, Innocent, Work

-----------------------------------------------------------------------------
(* The steps of users and of the engine *)

(* Creating a record keeps the invariant: no initial status counts.        *)
LEMMA CreateKeepsInv ==
    ASSUME Inv, NEW r \in Records, Create(r)
    PROVE  Inv'
<1>1. TypeOf[r] \in Types
  BY TypeOfAssumption
<1>2. Cycle(r).initial \in StatusesOf(TypeOf[r])
  BY <1>1, Tables DEF Cycle
<1>3. TypeOK'
  <2>1. status' \in [Records -> UNION {StatusesOf(t) : t \in Types}]
    BY <1>1, <1>2 DEF Inv, TypeOK, Create
  <2>2. \A s \in Records : status'[s] \in StatusesOf(TypeOf[s])
    BY <1>2 DEF Inv, TypeOK, Create
  <2>3. flow' \in [Records -> FlowStatuses]
    BY DEF Inv, TypeOK, Create, FlowStatuses
  <2>4. QED
    BY <2>1, <2>2, <2>3 DEF Inv, TypeOK, Create, money
<1>4. CallsSound'
  BY DEF Inv, CallsSound, CallSound, Create
<1>5. ApprovalFirst'
  <2>1. ASSUME NEW s \in Records, TypeOf[s] # "cn", ~Counted(s) PROVE ~Counted(s)'
    <3>1. CASE s = r
      BY <1>1, <2>1, <3>1, WaysIn DEF Inv, TypeOK, Create, Counted, Cycle
    <3>2. CASE s # r
      BY <2>1, <3>2 DEF Inv, TypeOK, Create, Counted
    <3>3. QED
      BY <3>1, <3>2
  <2>2. QED
    BY <2>1 DEF Inv, ApprovalFirst, Create, money, Innocent
<1>6. QED
  BY <1>3, <1>4, <1>5 DEF Inv

(* So do the steps that only change a workflow, or create the budget.      *)
LEMMA FlowKeepsInv ==
    ASSUME Inv, (\E r \in Records : Advance(r) \/ CancelFlow(r)) \/ CreateBudget
    PROVE  Inv'
<1>1. TypeOK'
  BY DEF Inv, TypeOK, Advance, CancelFlow, CreateBudget, money, FlowStatuses
<1>2. CallsSound'
  BY DEF Inv, CallsSound, CallSound, Advance, CancelFlow, CreateBudget
<1>3. ApprovalFirst'
  BY DEF Inv, ApprovalFirst, Counted, Innocent, Advance, CancelFlow, CreateBudget, money
<1>4. QED
  BY <1>1, <1>2, <1>3 DEF Inv

(* A call begins with what it reads of its record.                         *)
LEMMA BeginsSound ==
    ASSUME Inv, NEW q \in Requests, NEW r \in Records, NEW stage \in {"handle", "write"},
           NEW to \in StatusesOf(TypeOf[r]), Begin(q, r, stage, to)
    PROVE  \E w \in Work :
               /\ w.rec = r /\ w.at = stage /\ w.from = status[r] /\ w.to = to
               /\ CallSound(w)
               /\ work' = [work EXCEPT ![q] = w]
<1>. DEFINE w == [at |-> stage, rec |-> r, from |-> status[r], to |-> to, seen |-> 0]
<1>1. TypeOf[r] \in Types
  BY TypeOfAssumption
<1>2. w \in Work
  BY <1>1 DEF Work, Stages, Inv, TypeOK
<1>3. CallSound(w)
  BY DEF CallSound
<1>4. QED
  BY <1>2, <1>3 DEF Begin

(* A transition that users may ask for never leads an unapproved order,    *)
(* invoice or expense to a status that counts.                             *)
LEMMA AskKeepsInv ==
    ASSUME Inv, NEW q \in Requests, NEW r \in Records, NEW to, Ask(q, r, to)
    PROVE  Inv'
<1>1. TypeOf[r] \in Types
  BY TypeOfAssumption
<1>2. to \in StatusesOf(TypeOf[r])
  BY <1>1, Tables DEF Ask, Cycle
<1>3. PICK w \in Work : /\ w.rec = r /\ w.at = "write" /\ w.from = status[r] /\ w.to = to
                        /\ CallSound(w)
                        /\ work' = [work EXCEPT ![q] = w]
  BY <1>2, BeginsSound DEF Ask
<1>4. w # NoWork
  BY NoWorkAssumption
<1>5. work' \in [Requests -> Work \cup {NoWork}] /\ CallsSound'
  BY <1>3, CallMoves DEF Inv
<1>6. TypeOK'
  BY <1>5 DEF Inv, TypeOK, Ask, money
<1>7. ApprovalFirst'
  <2>1. ASSUME TypeOf[r] # "cn", approvals[r] = 0 PROVE Innocent(w)
    BY <1>1, <1>3, <2>1, WaysIn DEF Inv, ApprovalFirst, Counted, Ask, Cycle, Innocent
  <2>2. \A s \in Records : TypeOf[s] # "cn" /\ approvals[s] = 0 => ~Counted(s)'
    BY DEF Inv, ApprovalFirst, Counted, Ask
  <2>3. QED
    BY <1>3, <2>1, <2>2, ApprovalFirstKept DEF Inv, Ask, money
<1>8. QED
  BY <1>5, <1>6, <1>7 DEF Inv

(* A decision of the engine that is not an approval leads to no status     *)
(* that counts.                                                            *)
LEMMA DecideKeepsInv ==
    ASSUME Inv, NEW q \in Requests, NEW r \in Records, NEW outcome \in Outcomes,
           Decide(q, r, outcome)
    PROVE  Inv'
<1>1. TypeOf[r] \in Types
  BY TypeOfAssumption
<1>2. flow' \in [Records -> FlowStatuses]
  BY DEF Inv, TypeOK, Decide, FlowStatuses, Outcomes
<1>3. approvals' \in [Records -> Nat]
  BY DEF Inv, TypeOK, Decide
<1>4. \A s \in Records : approvals'[s] = 0 =>
          approvals[s] = 0 /\ (s = r => outcome # "approved")
  BY DEF Inv, TypeOK, Decide
<1>5. \A s \in Records : TypeOf[s] # "cn" /\ approvals[s] = 0 => ~Counted(s)'
  BY DEF Inv, ApprovalFirst, Counted, Decide
<1>. DEFINE to == OutcomeStatus(r, outcome)
<1>6. CASE to = "ignored"
  <2>1. work' = work
    BY <1>6 DEF Decide, Publish
  <2>2. TypeOK' /\ CallsSound'
    BY <1>2, <1>3, <2>1 DEF Inv, TypeOK, CallsSound, CallSound, Decide, money
  <2>3. ApprovalFirst'
    BY <1>4, <1>5, <2>1 DEF Inv, ApprovalFirst, Decide, money, Innocent
  <2>4. QED
    BY <2>2, <2>3 DEF Inv
<1>7. CASE to # "ignored"
  <2>1. to \in StatusesOf(TypeOf[r])
    BY <1>1, <1>7, Tables DEF OutcomeStatus, Cycle
  <2>2. PICK w \in Work : /\ w.rec = r /\ w.at = "handle" /\ w.from = status[r] /\ w.to = to
                          /\ CallSound(w)
                          /\ work' = [work EXCEPT ![q] = w]
    BY <1>7, <2>1, BeginsSound DEF Decide, Publish
  <2>3. work' \in [Requests -> Work \cup {NoWork}] /\ CallsSound'
    BY <2>2, CallMoves DEF Inv
  <2>4. TypeOK'
    BY <1>2, <1>3, <2>3 DEF Inv, TypeOK, Decide, money
  <2>5. ASSUME TypeOf[r] # "cn", approvals[r] = 0, outcome # "approved"
        PROVE  Innocent(w)
    <3>1. to \notin Cycle(r).counted
      BY <1>1, <2>5, WaysIn DEF OutcomeStatus, Cycle
    <3>2. QED
      BY <2>2, <2>5, <3>1 DEF Inv, ApprovalFirst, Counted, Innocent, Cycle
  <2>6. ApprovalFirst'
    BY <1>4, <1>5, <2>2, <2>5, ApprovalFirstKept DEF Inv, Decide, money
  <2>7. QED
    BY <2>3, <2>4, <2>6 DEF Inv
<1>8. QED
  BY <1>6, <1>7

-----------------------------------------------------------------------------
(* The queries of a call *)

(* What the invariant says of the call that moves.                         *)
LEMMA Moving ==
    ASSUME Inv, NEW q \in Requests, work[q] # NoWork
    PROVE  /\ work[q] \in Work
           /\ work[q].rec \in Records
           /\ TypeOf[work[q].rec] \in Types
           /\ CallSound(work[q])
           /\ TypeOf[work[q].rec] # "cn" /\ approvals[work[q].rec] = 0 => Innocent(work[q])
<1>1. work[q] \in Work
  BY DEF Inv, TypeOK
<1>2. work[q].rec \in Records
  BY <1>1 DEF Work
<1>3. QED
  BY <1>1, <1>2, TypeOfAssumption DEF Inv, CallsSound, ApprovalFirst

(* GoTo moves a call to another stage and leaves the rest of it alone.     *)
LEMMA GoesTo ==
    ASSUME Inv, NEW q \in Requests, work[q] # NoWork, NEW stage \in Stages, GoTo(q, stage)
    PROVE  \E w \in Work :
               /\ work' = [work EXCEPT ![q] = w]
               /\ w.at = stage /\ w.rec = work[q].rec
               /\ w.from = work[q].from /\ w.to = work[q].to
<1>. DEFINE w == [work[q] EXCEPT !.at = stage]
<1>1. work[q] \in Work
  BY Moving
<1>2. w \in Work
  BY <1>1 DEF Work
<1>3. w.at = stage /\ w.rec = work[q].rec /\ w.from = work[q].from /\ w.to = work[q].to
  BY <1>1 DEF Work
<1>4. work' = [work EXCEPT ![q] = w]
  BY DEF GoTo, Inv, TypeOK
<1>5. QED
  BY <1>2, <1>3, <1>4

(* A step that only moves a call keeps the invariant.                      *)
LEMMA MoveKeepsInv ==
    ASSUME Inv, NEW q \in Requests, NEW w \in Work \cup {NoWork},
           work' = [work EXCEPT ![q] = w], w # NoWork => CallSound(w),
           w # NoWork /\ TypeOf[w.rec] # "cn" /\ approvals[w.rec] = 0 => Innocent(w),
           flow' \in [Records -> FlowStatuses], committed' \in Int,
           exceptions' \subseteq {"absorb", "reverse"} \X Records, cut' \subseteq Records,
           relieved' \in [Records -> Int],
           UNCHANGED <<status, actual, budgeted, posted, approvals, absorbed>>
    PROVE  Inv'
<1>1. work' \in [Requests -> Work \cup {NoWork}] /\ CallsSound'
  BY CallMoves DEF Inv
<1>2. TypeOK'
  BY <1>1 DEF Inv, TypeOK
<1>3. \A s \in Records : TypeOf[s] # "cn" /\ approvals[s] = 0 => ~Counted(s)'
  BY DEF Inv, ApprovalFirst, Counted
<1>4. ApprovalFirst'
  BY <1>3, ApprovalFirstKept DEF Inv
<1>5. QED
  BY <1>1, <1>2, <1>4 DEF Inv

(* The handler goes on with the status it has read, or leaves the record.  *)
LEMMA HandleKeepsInv ==
    ASSUME Inv, NEW q \in Requests, Handle(q)
    PROVE  Inv'
<1>1. work[q] # NoWork /\ work[q].at = "handle"
  BY DEF Handle, At
<1>. DEFINE r == work[q].rec
            w == [work[q] EXCEPT !.at = "write", !.from = status[r]]
<1>2. work[q] \in Work /\ r \in Records /\ TypeOf[r] \in Types /\ CallSound(work[q])
  BY <1>1, Moving
<1>3. CASE Done(q)
  BY <1>1, <1>3, MoveKeepsInv DEF Handle, Done, money, Inv, TypeOK
<1>4. CASE work' = [work EXCEPT ![q].at = "write", ![q].from = status[r]]
  <2>1. w \in Work
    BY <1>2 DEF Work, Stages, Inv, TypeOK
  <2>2. w.at = "write" /\ w.rec = r /\ w.from = status[r] /\ w.to = work[q].to
    BY <1>2 DEF Work
  <2>3. work' = [work EXCEPT ![q] = w]
    BY <1>4 DEF Inv, TypeOK
  <2>4. CallSound(w)
    BY <1>2, <2>2 DEF CallSound
  <2>5. ASSUME TypeOf[r] # "cn", approvals[r] = 0 PROVE Innocent(w)
    <3>1. Innocent(work[q]) /\ ~Counted(r)
      BY <1>1, <1>2, <2>5, Moving DEF Inv, ApprovalFirst
    <3>2. QED
      BY <2>2, <3>1 DEF Innocent, Counted, Cycle
  <2>. HIDE DEF w
  <2>6. QED
    BY <2>1, <2>2, <2>3, <2>4, <2>5, MoveKeepsInv DEF Handle, money, Inv, TypeOK
<1>5. QED
  BY <1>3, <1>4 DEF Handle

(* The update of the status, and what the code goes on with after it.      *)
LEMMA WriteKeepsInv ==
    ASSUME Inv, NEW q \in Requests, Write(q)
    PROVE  Inv'
<1>1. work[q] # NoWork /\ work[q].at = "write"
  BY DEF Write, At
<1>. DEFINE r == work[q].rec
<1>2. /\ work[q] \in Work /\ r \in Records /\ TypeOf[r] \in Types /\ CallSound(work[q])
      /\ TypeOf[r] # "cn" /\ approvals[r] = 0 => Innocent(work[q])
  BY <1>1, Moving
<1>3. work[q].to \in StatusesOf(TypeOf[r])
  BY <1>2 DEF CallSound
<1>4. /\ status' \in [Records -> UNION {StatusesOf(t) : t \in Types}]
      /\ \A s \in Records : status'[s] \in StatusesOf(TypeOf[s])
  BY <1>2, <1>3 DEF Inv, TypeOK, Write
<1>5. ASSUME NEW s \in Records, TypeOf[s] # "cn", approvals[s] = 0
      PROVE  ~Counted(s)'
  <2>1. CASE s = r
    BY <1>2, <1>5, <2>1 DEF Inv, TypeOK, Write, Counted, Innocent, Cycle
  <2>2. CASE s # r
    BY <1>5, <2>2 DEF Inv, TypeOK, ApprovalFirst, Write, Counted
  <2>3. QED
    BY <2>1, <2>2
<1>6. ASSUME NEW w \in Work \cup {NoWork}, work' = [work EXCEPT ![q] = w],
             w # NoWork => CallSound(w) /\ w.rec = r,
             w # NoWork /\ TypeOf[r] # "cn" /\ approvals[r] = 0 => Innocent(w)
      PROVE  Inv'
  <2>1. work' \in [Requests -> Work \cup {NoWork}] /\ CallsSound'
    BY <1>6, CallMoves DEF Inv
  <2>2. TypeOK'
    BY <1>4, <2>1 DEF Inv, TypeOK, Write, money
  <2>3. ApprovalFirst'
    BY <1>5, <1>6, ApprovalFirstKept DEF Inv, Write, money
  <2>4. QED
    BY <2>1, <2>2, <2>3 DEF Inv
<1>7. CASE Done(q)
  BY <1>6, <1>7 DEF Done
<1>8. ASSUME NEW stage \in Stages, GoTo(q, stage), stage \notin {"handle", "write"},
             stage = "absorb" => work[q].to = Cycle(r).absorbs,
             stage # "release",
             stage = "relieve" => Uncommits(work[q]),
             stage = "post" => work[q].to \in Cycle(r).posts
      PROVE  Inv'
  <2>1. PICK w \in Work :
            /\ work' = [work EXCEPT ![q] = w]
            /\ w.at = stage /\ w.rec = r /\ w.from = work[q].from /\ w.to = work[q].to
    BY <1>1, <1>8, GoesTo
  <2>2. CallSound(w)
    BY <1>3, <1>8, <2>1 DEF CallSound, Uncommits, Cycle
  <2>3. ASSUME TypeOf[r] # "cn", approvals[r] = 0 PROVE Innocent(w)
    <3>1. work[q].from \notin Cycle(r).counted /\ work[q].to \notin Cycle(r).counted
      BY <1>2, <2>3 DEF Innocent
    <3>2. /\ work[q].to # Cycle(r).absorbs
          /\ work[q].to \notin Cycle(r).posts
      BY <1>2, <2>3, <3>1, WaysIn DEF Cycle
    <3>3. ~Uncommits(work[q])
      BY <3>1 DEF Uncommits, Cycle, Lifecycle
    <3>4. stage = "open"
      BY <1>8, <3>2, <3>3 DEF Stages
    <3>5. QED
      BY <2>1, <3>1, <3>4 DEF Innocent
  <2>4. QED
    BY <1>6, <2>1, <2>2, <2>3
<1>9. QED
  BY <1>7, <1>8 DEF Write, AfterWrite, Announces, Stages

(* A call that is past the update of the status moves on, or ends.         *)
LEMMA GoOnKeepsInv ==
    ASSUME Inv, NEW q \in Requests, work[q] # NoWork,
           work[q].at \notin {"handle", "write", "open"},
           \/ Done(q)
           \/ \E stage \in {"relieve", "release"} :
                 /\ GoTo(q, stage)
                 /\ TypeOf[work[q].rec] = "si" => work[q].to = Cycle(work[q].rec).absorbs
           \/ GoTo(q, "post") /\ work[q].to \in Cycle(work[q].rec).posts
    PROVE  \E w \in Work \cup {NoWork} :
               /\ work' = [work EXCEPT ![q] = w]
               /\ w # NoWork => CallSound(w) /\ w.rec = work[q].rec
               /\ w # NoWork /\ TypeOf[w.rec] # "cn" => approvals[w.rec] # 0
<1>. DEFINE r == work[q].rec
<1>1. r \in Records /\ TypeOf[r] \in Types /\ CallSound(work[q])
      /\ (TypeOf[r] # "cn" => approvals[r] # 0)
  BY Moving, PastWrite
<1>2. CASE Done(q)
  BY <1>2 DEF Done
<1>3. ASSUME NEW stage \in Stages, GoTo(q, stage), stage # "absorb",
             stage \in {"relieve", "release"} /\ TypeOf[r] = "si" => work[q].to = Cycle(r).absorbs,
             stage = "post" => work[q].to \in Cycle(r).posts
      PROVE  \E w \in Work :
                 /\ work' = [work EXCEPT ![q] = w]
                 /\ CallSound(w) /\ w.rec = r
                 /\ TypeOf[r] # "cn" => approvals[r] # 0
  <2>1. PICK w \in Work :
            /\ work' = [work EXCEPT ![q] = w]
            /\ w.at = stage /\ w.rec = r /\ w.from = work[q].from /\ w.to = work[q].to
    BY <1>3, GoesTo
  <2>2. CallSound(w)
    BY <1>1, <1>3, <2>1 DEF CallSound
  <2>3. QED
    BY <1>1, <2>1, <2>2
<1>4. QED
  BY <1>2, <1>3 DEF Stages

(* Starting a workflow changes no record.                                  *)
LEMMA OpenKeepsInv ==
    ASSUME Inv, NEW q \in Requests, Open(q)
    PROVE  Inv'
<1>1. work[q] # NoWork
  BY DEF Open, At
<1>2. work' = [work EXCEPT ![q] = NoWork]
  BY DEF Open, Done
<1>3. flow' \in [Records -> FlowStatuses]
  BY DEF Open, Inv, TypeOK, FlowStatuses
<1>4. QED
  BY <1>2, <1>3, MoveKeepsInv DEF Open, money, Inv, TypeOK

(* Only a call on an approved record, or on a credit note, reaches the     *)
(* budget line.                                                            *)
LEMMA AbsorbKeepsInv ==
    ASSUME Inv, NEW q \in Requests, Absorb(q)
    PROVE  Inv'
<1>1. work[q] # NoWork /\ work[q].at = "absorb"
  BY DEF Absorb, At
<1>. DEFINE r == work[q].rec
<1>2. /\ r \in Records /\ TypeOf[r] \in Types /\ CallSound(work[q])
      /\ TypeOf[r] # "cn" => approvals[r] # 0
  BY <1>1, Moving, PastWrite
<1>3. work[q].to = Cycle(r).absorbs /\ work[q].to \in Cycle(r).posts
  BY <1>1, <1>2, Tables DEF CallSound, Cycle
<1>4. GoTo(q, "relieve") \/ GoTo(q, "post")
  BY DEF Absorb
<1>5. PICK w \in Work \cup {NoWork} :
          /\ work' = [work EXCEPT ![q] = w]
          /\ w # NoWork => CallSound(w) /\ w.rec = r
          /\ w # NoWork /\ TypeOf[w.rec] # "cn" => approvals[w.rec] # 0
  BY <1>1, <1>3, <1>4, GoOnKeepsInv
<1>6. Amount[r] \in Nat
  BY <1>2, AmountAssumption
<1>7. /\ committed' \in Int /\ actual' \in Int /\ absorbed' \in [Records -> Nat]
      /\ \A s \in Records : s # r => absorbed'[s] = absorbed[s]
  BY <1>6 DEF Absorb, Increment, Inv, TypeOK
<1>8. exceptions' \subseteq {"absorb", "reverse"} \X Records
  BY <1>2 DEF Absorb, Inv, TypeOK
<1>9. work' \in [Requests -> Work \cup {NoWork}] /\ CallsSound'
  BY <1>5, CallMoves DEF Inv
<1>10. TypeOK'
  BY <1>7, <1>8, <1>9 DEF Inv, TypeOK, Absorb
<1>11. ApprovalFirst'
  <2>1. \A s \in Records : TypeOf[s] # "cn" /\ approvals[s] = 0 => ~Counted(s)'
    BY DEF Inv, ApprovalFirst, Counted, Absorb
  <2>2. \A s \in Records : TypeOf[s] # "cn" /\ approvals[s] = 0 => absorbed'[s] = absorbed[s]
    BY <1>2, <1>7
  <2>3. QED
    BY <1>5, <2>1, <2>2, ApprovalFirstKept DEF Inv, Absorb
<1>12. QED
  BY <1>9, <1>10, <1>11 DEF Inv

(* The bounded release: its read, and its decrement.                       *)
LEMMA RelieveKeepsInv ==
    ASSUME Inv, NEW q \in Requests, Relieve(q)
    PROVE  Inv'
<1>1. work[q] # NoWork /\ work[q].at = "relieve"
  BY DEF Relieve, At
<1>. DEFINE r == work[q].rec
<1>2. /\ work[q] \in Work /\ r \in Records /\ TypeOf[r] \in Types /\ CallSound(work[q])
      /\ TypeOf[r] # "cn" => approvals[r] # 0
  BY <1>1, Moving, PastWrite
<1>3. exceptions' \subseteq {"absorb", "reverse"} \X Records
  BY <1>2 DEF Relieve, Inv, TypeOK
<1>4. CASE AfterRelease(q)
  <2>1. TypeOf[r] = "si" => work[q].to \in Cycle(r).posts
    BY <1>1, <1>2, Tables DEF CallSound, Cycle
  <2>2. PICK w \in Work \cup {NoWork} :
            /\ work' = [work EXCEPT ![q] = w]
            /\ w # NoWork => CallSound(w) /\ w.rec = r
            /\ w # NoWork /\ TypeOf[w.rec] # "cn" => approvals[w.rec] # 0
    BY <1>1, <1>4, <2>1, GoOnKeepsInv DEF AfterRelease
  <2>3. QED
    BY <1>3, <2>2, MoveKeepsInv DEF Relieve, money, Inv, TypeOK
<1>5. CASE work' = [work EXCEPT ![q].at = "release", ![q].seen = committed]
  <2>. DEFINE w == [work[q] EXCEPT !.at = "release", !.seen = committed]
  <2>1. w \in Work
    BY <1>2 DEF Work, Stages, Inv, TypeOK
  <2>2. w.at = "release" /\ w.rec = r /\ w.to = work[q].to
    BY <1>2 DEF Work
  <2>3. work' = [work EXCEPT ![q] = w]
    BY <1>5 DEF Inv, TypeOK
  <2>4. CallSound(w)
    BY <1>1, <1>2, <2>2 DEF CallSound
  <2>. HIDE DEF w
  <2>5. QED
    BY <1>2, <1>3, <2>1, <2>2, <2>3, <2>4, MoveKeepsInv DEF Relieve, money, Inv, TypeOK
<1>6. QED
  BY <1>4, <1>5 DEF Relieve

(* The decrement of the commitment changes no record.                      *)
LEMMA ReleaseKeepsInv ==
    ASSUME Inv, NEW q \in Requests, Release(q)
    PROVE  Inv'
<1>1. work[q] # NoWork /\ work[q].at = "release"
  BY DEF Release, At
<1>. DEFINE r == work[q].rec
<1>2. /\ work[q] \in Work /\ r \in Records /\ TypeOf[r] \in Types /\ CallSound(work[q])
  BY <1>1, Moving
<1>3. TypeOf[r] = "si" => work[q].to \in Cycle(r).posts
  BY <1>1, <1>2, Tables DEF CallSound, Cycle
<1>4. PICK w \in Work \cup {NoWork} :
          /\ work' = [work EXCEPT ![q] = w]
          /\ w # NoWork => CallSound(w) /\ w.rec = r
          /\ w # NoWork /\ TypeOf[w.rec] # "cn" => approvals[w.rec] # 0
  BY <1>1, <1>3, GoOnKeepsInv DEF Release, AfterRelease
<1>5. Released(work[q]) \in Int
  BY <1>2, AmountAssumption DEF Released, Work
<1>6. committed' \in Int /\ relieved' \in [Records -> Int]
  <2>1. committed \in Int /\ relieved \in [Records -> Int]
    BY DEF Inv, TypeOK
  <2>2. \A o, v : (o \in Records => v \in Int) => [relieved EXCEPT ![o] = v] \in [Records -> Int]
    BY <2>1
  <2>3. relieved' = [relieved EXCEPT ![OrderOf(r)] = @ + Released(work[q])]
    BY DEF Release
  <2>4. committed' = committed - Released(work[q])
    BY DEF Release
  <2>5. QED
    <3>1. OrderOf(r) \in Records => relieved[OrderOf(r)] + Released(work[q]) \in Int
      BY <1>5, <2>1
    <3>2. relieved' \in [Records -> Int]
      BY <2>2, <2>3, <3>1
    <3>3. QED
      BY <1>5, <2>1, <2>4, <3>2
<1>7. QED
  BY <1>4, <1>6, MoveKeepsInv DEF Release, Inv, TypeOK

(* Only a call on an approved record, or on a credit note, posts.          *)
LEMMA PostKeepsInv ==
    ASSUME Inv, NEW q \in Requests, Post(q)
    PROVE  Inv'
<1>1. work[q] # NoWork /\ work[q].at = "post"
  BY DEF Post, At
<1>. DEFINE r == work[q].rec
            p == <<r, work[q].to>>
<1>2. /\ r \in Records /\ CallSound(work[q])
      /\ TypeOf[r] # "cn" => approvals[r] # 0
  BY <1>1, Moving, PastWrite
<1>3. work' = [work EXCEPT ![q] = NoWork] /\ posted' = posted \cup {p}
  BY DEF Post, Done
<1>4. p[1] = r /\ p[2] \in Cycle(r).posts
  BY <1>1, <1>2 DEF CallSound
<1>5. work' \in [Requests -> Work \cup {NoWork}] /\ CallsSound'
  BY <1>3, CallMoves DEF Inv
<1>. HIDE DEF p
<1>6. TypeOK'
  BY <1>2, <1>3, <1>4, <1>5 DEF Inv, TypeOK, Post, money
<1>7. ApprovalFirst'
  <2>1. \A s \in Records : TypeOf[s] # "cn" /\ approvals[s] = 0 => ~Counted(s)'
    BY DEF Inv, ApprovalFirst, Counted, Post
  <2>2. \A s \in Records : TypeOf[s] # "cn" /\ approvals[s] = 0 =>
            \A x \in posted' : x \in posted \/ x[1] # s
    BY <1>2, <1>3, <1>4
  <2>3. QED
    BY <1>3, <2>1, <2>2, ApprovalFirstKept DEF Inv, Post, money
<1>8. QED
  BY <1>5, <1>6, <1>7 DEF Inv

(* A call that is cut off is a call less.                                  *)
LEMMA CutOffKeepsInv ==
    ASSUME Inv, NEW q \in Requests, CutOff(q)
    PROVE  Inv'
<1>1. work[q].rec \in Records
  BY Moving DEF CutOff
<1>2. cut' \subseteq Records
  BY <1>1 DEF CutOff, Inv, TypeOK
<1>3. QED
  BY <1>2, MoveKeepsInv DEF CutOff, Done, money, Inv, TypeOK

-----------------------------------------------------------------------------
(* The theorems *)

(* No record exists at first.                                              *)
LEMMA InitInv == Init => Inv
<1>1. SUFFICES ASSUME Init PROVE Inv
  OBVIOUS
<1>2. TypeOK
  <2>1. \A r \in Records : status[r] = "absent" /\ "absent" \in StatusesOf(TypeOf[r])
    BY <1>1 DEF Init, StatusesOf
  <2>2. status \in [Records -> UNION {StatusesOf(t) : t \in Types}]
    BY <1>1, <2>1, TypeOfAssumption DEF Init
  <2>3. QED
    BY <1>1, <2>1, <2>2 DEF Init, TypeOK, FlowStatuses
<1>3. CallsSound
  BY <1>1 DEF Init, CallsSound
<1>4. ApprovalFirst
  BY <1>1, TypeOfAssumption, WaysIn DEF Init, ApprovalFirst, Counted, Cycle
<1>5. QED
  BY <1>2, <1>3, <1>4 DEF Inv

(* Every step keeps the invariant: one case per action.                    *)
LEMMA NextInv == Inv /\ [Next]_vars => Inv'
<1>1. SUFFICES ASSUME Inv, [Next]_vars PROVE Inv'
  OBVIOUS
<1>2. CASE UNCHANGED vars
  BY <1>1, <1>2 DEF vars, Inv, TypeOK, CallsSound, CallSound, ApprovalFirst, Counted, Innocent
<1>3. ASSUME NEW r \in Records, Create(r) PROVE Inv'
  BY <1>1, <1>3, CreateKeepsInv
<1>4. ASSUME (\E r \in Records : Advance(r) \/ CancelFlow(r)) \/ CreateBudget PROVE Inv'
  BY <1>1, <1>4, FlowKeepsInv
<1>5. ASSUME NEW q \in Requests, NEW r \in Records, NEW to, Ask(q, r, to) PROVE Inv'
  BY <1>1, <1>5, AskKeepsInv
<1>6. ASSUME NEW q \in Requests, NEW r \in Records, NEW outcome \in Outcomes,
             Decide(q, r, outcome)
      PROVE  Inv'
  BY <1>1, <1>6, DecideKeepsInv
<1>7. ASSUME NEW q \in Requests, Serve(q) PROVE Inv'
  BY <1>1, <1>7, HandleKeepsInv, WriteKeepsInv, OpenKeepsInv, AbsorbKeepsInv,
     RelieveKeepsInv, ReleaseKeepsInv, PostKeepsInv DEF Serve
<1>8. ASSUME NEW q \in Requests, CutOff(q) PROVE Inv'
  BY <1>1, <1>8, CutOffKeepsInv
<1>9. QED
  BY <1>1, <1>2, <1>3, <1>4, <1>5, <1>6, <1>7, <1>8 DEF Next

(* The invariant holds in every reachable state.                           *)
LEMMA InvAlways == Spec => []Inv
<1>1. Inv /\ [Next]_vars => Inv'
  BY NextInv
<1>2. QED
  BY <1>1, InitInv, PTL DEF Spec

(* Every reachable state is well typed; in particular a record never gets  *)
(* a status of another type and nothing is posted for a status that is not *)
(* posted, although updates name only the id of their row.                 *)
THEOREM TypeCorrect == Spec => []TypeOK
<1>1. Inv => TypeOK
  BY DEF Inv
<1>2. QED
  BY <1>1, InvAlways, PTL

(* No order, invoice or expense counts, reaches the budget line or is      *)
(* posted before the workflow engine has approved it, for any number of    *)
(* racing and interrupted calls.                                           *)
THEOREM ApprovalComesFirst == Spec => []OnlyApprovedCounts
<1>1. Inv => OnlyApprovedCounts
  BY DEF Inv, TypeOK, ApprovalFirst, OnlyApprovedCounts
<1>2. QED
  BY <1>1, InvAlways, PTL

-----------------------------------------------------------------------------
(* What counts is accounted for, whatever races                            *)

OnLine(r) == absorbed[r] > 0 \/ <<"absorb", r>> \in exceptions

Accounted(r) == <<r, Cycle(r).absorbs>> \in posted /\ OnLine(r)

\* A call that is on its way to account for its record.
Accounts(w) ==
    /\ w.to = Cycle(w.rec).absorbs
    /\ \/ w.at = "absorb"
       \/ w.at \in {"relieve", "release"} /\ TypeOf[w.rec] = "si" /\ OnLine(w.rec)
       \/ w.at = "post" /\ OnLine(w.rec)

Pursued(r) ==
    Accounted(r) \/ \E q \in Requests : work[q] # NoWork /\ work[q].rec = r /\ Accounts(work[q])

\* A call that makes its record count either accounts for it or has read it
\* when it counted already.
AccountInv ==
    \A r \in Records \ cut :
        /\ Counted(r) => Pursued(r)
        /\ \A q \in Requests : work[q] # NoWork /\ work[q].rec = r =>
              LET w == work[q] IN
              w.at \in {"handle", "write"} /\ w.to \in Cycle(r).counted =>
                  w.to = Cycle(r).absorbs \/ (w.at = "write" /\ Pursued(r))

(* In every table, credit notes included, a record comes to count by the   *)
(* status that is absorbed and by no other.                                *)
LEMMA CountsByAbsorbing ==
    ASSUME NEW t \in Types
    PROVE  /\ "absent" \notin Lifecycle[t].counted
           /\ Lifecycle[t].initial \notin Lifecycle[t].counted
           /\ \A a, b : <<a, b>> \in Lifecycle[t].moves
                        /\ a \notin Lifecycle[t].counted /\ b \in Lifecycle[t].counted
                        => b = Lifecycle[t].absorbs
           /\ \A o \in Outcomes : Lifecycle[t].outcome[o] \in Lifecycle[t].counted
                        => Lifecycle[t].outcome[o] = Lifecycle[t].absorbs
           /\ Lifecycle[t].opens # Lifecycle[t].absorbs
           /\ Lifecycle[t].absorbs # "cancelled"
<1>1. CASE t = "po"
  BY <1>1 DEF Lifecycle, PurchaseOrder, Outcomes
<1>2. CASE t = "si"
  BY <1>2 DEF Lifecycle, SupplierInvoice, Outcomes
<1>3. CASE t = "expense"
  BY <1>3 DEF Lifecycle, Expense, Outcomes
<1>4. CASE t = "cn"
  BY <1>4 DEF Lifecycle, CreditNote, Outcomes
<1>5. QED
  BY <1>1, <1>2, <1>3, <1>4 DEF Types

(* A record stays accounted for, or pursued by a call, when nothing is     *)
(* taken off the ledger, the line or the exception queue and the call that *)
(* moves does not give it up.                                              *)
LEMMA PursuedKept ==
    ASSUME Inv, NEW q \in Requests, NEW w \in Work \cup {NoWork},
           work' = [work EXCEPT ![q] = w],
           posted \subseteq posted', exceptions \subseteq exceptions',
           NEW s \in Records, absorbed[s] > 0 => absorbed'[s] > 0,
           work[q] # NoWork /\ work[q].rec = s /\ Accounts(work[q]) => Pursued(s)',
           Pursued(s)
    PROVE  Pursued(s)'
<1>1. OnLine(s) => OnLine(s)'
  BY DEF OnLine
<1>2. CASE Accounted(s)
  <2>1. Accounted(s)'
    BY <1>1, <1>2 DEF Accounted
  <2>2. QED
    BY <2>1 DEF Pursued
<1>3. ASSUME NEW p \in Requests, work[p] # NoWork, work[p].rec = s, Accounts(work[p])
      PROVE  Pursued(s)'
  <2>1. CASE p = q
    BY <1>3, <2>1
  <2>2. CASE p # q
    <3>1. work'[p] = work[p]
      BY <2>2 DEF Inv, TypeOK
    <3>2. Accounts(work[p])'
      BY <1>1, <1>3, <3>1 DEF Accounts
    <3>3. QED
      BY <1>3, <3>1, <3>2 DEF Pursued
  <2>3. QED
    BY <2>1, <2>2
<1>4. QED
  BY <1>2, <1>3 DEF Pursued

(* A step of a call on r keeps AccountInv when the call does not give r up *)
(* and r does not come to count unpursued.                                 *)
LEMMA AccountKept ==
    ASSUME Inv, AccountInv, NEW q \in Requests, NEW r \in Records,
           NEW w \in Work \cup {NoWork},
           work' = [work EXCEPT ![q] = w], w # NoWork => w.rec = r,
           work[q] # NoWork => work[q].rec = r,
           posted \subseteq posted', exceptions \subseteq exceptions', cut \subseteq cut',
           \A s \in Records : absorbed[s] > 0 => absorbed'[s] > 0,
           \A s \in Records \ {r} : status'[s] = status[s],
           r \notin cut' =>
              /\ work[q] # NoWork /\ Accounts(work[q]) => Pursued(r)'
              /\ Counted(r)' => Counted(r) \/ Pursued(r)'
              /\ w # NoWork /\ w.at \in {"handle", "write"} /\ w.to \in Cycle(r).counted =>
                    w.to = Cycle(r).absorbs \/ (w.at = "write" /\ Pursued(r))
    PROVE  AccountInv'
<1>1. SUFFICES ASSUME NEW s \in Records, s \notin cut'
               PROVE  /\ Counted(s)' => Pursued(s)'
                      /\ \A x \in Requests : work'[x] # NoWork /\ work'[x].rec = s =>
                            (work'[x].at \in {"handle", "write"}
                                /\ work'[x].to \in Cycle(s).counted =>
                                    work'[x].to = Cycle(s).absorbs
                                    \/ (work'[x].at = "write" /\ Pursued(s)'))
  BY DEF AccountInv, Cycle
<1>2. s \notin cut
  BY <1>1
<1>3. Pursued(s) => Pursued(s)'
  BY <1>1, PursuedKept
<1>4. Counted(s)' => Pursued(s)'
  <2>1. CASE s = r
    BY <1>1, <1>2, <1>3, <2>1 DEF AccountInv
  <2>2. CASE s # r
    BY <1>2, <1>3, <2>2 DEF AccountInv, Counted, Cycle
  <2>3. QED
    BY <2>1, <2>2
<1>5. ASSUME NEW x \in Requests, work'[x] # NoWork, work'[x].rec = s,
             work'[x].at \in {"handle", "write"}, work'[x].to \in Cycle(s).counted
      PROVE  work'[x].to = Cycle(s).absorbs \/ (work'[x].at = "write" /\ Pursued(s)')
  <2>1. CASE x = q
    <3>1. work'[x] = w
      BY <2>1 DEF Inv, TypeOK
    <3>2. s = r
      BY <1>5, <3>1
    <3>3. QED
      BY <1>1, <1>3, <1>5, <3>1, <3>2
  <2>2. CASE x # q
    <3>1. work'[x] = work[x]
      BY <2>2 DEF Inv, TypeOK
    <3>2. QED
      BY <1>2, <1>3, <1>5, <3>1 DEF AccountInv
  <2>3. QED
    BY <2>1, <2>2
<1>6. QED
  BY <1>4, <1>5

(* The steps without a call leave every account as it is; a record that is *)
(* created does not count.                                                 *)
LEMMA CreateKeepsAccounts ==
    ASSUME Inv, AccountInv,
           (\E r \in Records : Create(r) \/ Advance(r) \/ CancelFlow(r)) \/ CreateBudget
    PROVE  AccountInv'
<1>1. /\ work' = work /\ posted' = posted /\ exceptions' = exceptions
      /\ absorbed' = absorbed /\ cut' = cut
  BY DEF Create, Advance, CancelFlow, CreateBudget, money
<1>2. ASSUME NEW s \in Records, Counted(s)' PROVE Counted(s)
  <2>1. CASE status' = status
    BY <1>2, <2>1 DEF Counted, Cycle
  <2>2. ASSUME NEW r \in Records, Create(r) PROVE Counted(s)
    <3>1. TypeOf[r] \in Types
      BY TypeOfAssumption
    <3>2. s # r
      BY <1>2, <2>2, <3>1, CountsByAbsorbing DEF Inv, TypeOK, Create, Counted, Cycle
    <3>3. QED
      BY <1>2, <2>2, <3>2 DEF Inv, TypeOK, Create, Counted, Cycle
  <2>3. QED
    BY <2>1, <2>2 DEF Advance, CancelFlow, CreateBudget
<1>3. \A s \in Records : Pursued(s)' <=> Pursued(s)
  BY <1>1 DEF Pursued, Accounted, Accounts, OnLine, Cycle
<1>4. QED
  BY <1>1, <1>2, <1>3 DEF AccountInv, Cycle

(* A transition into a status that counts starts from one that counts, or  *)
(* will be absorbed.                                                       *)
LEMMA AskKeepsAccounts ==
    ASSUME Inv, AccountInv, NEW q \in Requests, NEW r \in Records, NEW to, Ask(q, r, to)
    PROVE  AccountInv'
<1>1. TypeOf[r] \in Types
  BY TypeOfAssumption
<1>2. to \in StatusesOf(TypeOf[r])
  BY <1>1, Tables DEF Ask, Cycle
<1>3. PICK w \in Work : /\ w.rec = r /\ w.at = "write" /\ w.from = status[r] /\ w.to = to
                        /\ CallSound(w)
                        /\ work' = [work EXCEPT ![q] = w]
  BY <1>2, BeginsSound DEF Ask
<1>4. work[q] = NoWork
  BY DEF Ask, Begin
<1>5. r \notin cut' /\ to \in Cycle(r).counted => to = Cycle(r).absorbs \/ Pursued(r)
  BY <1>1, CountsByAbsorbing DEF Ask, AccountInv, Counted, Cycle
<1>6. Counted(r)' => Counted(r)
  BY DEF Ask, Counted, Cycle
<1>7. QED
  BY <1>3, <1>4, <1>5, <1>6, AccountKept DEF Ask, money

(* The only outcome that makes a record count is absorbed.                 *)
LEMMA DecideKeepsAccounts ==
    ASSUME Inv, AccountInv, NEW q \in Requests, NEW r \in Records, NEW outcome \in Outcomes,
           Decide(q, r, outcome)
    PROVE  AccountInv'
<1>1. TypeOf[r] \in Types
  BY TypeOfAssumption
<1>. DEFINE to == OutcomeStatus(r, outcome)
<1>2. Counted(r)' => Counted(r)
  BY DEF Decide, Counted, Cycle
<1>3. /\ work[q] = NoWork
      /\ posted' = posted /\ exceptions' = exceptions /\ cut' = cut
      /\ absorbed' = absorbed /\ status' = status
  BY DEF Decide, Publish, Begin, money
<1>4. CASE to = "ignored"
  <2>1. work' = [work EXCEPT ![q] = NoWork]
    BY <1>3, <1>4 DEF Decide, Publish, Inv, TypeOK
  <2>2. QED
    BY <1>2, <1>3, <2>1, AccountKept
<1>5. CASE to # "ignored"
  <2>1. to \in StatusesOf(TypeOf[r])
    BY <1>1, <1>5, Tables DEF OutcomeStatus, Cycle
  <2>2. PICK w \in Work : /\ w.rec = r /\ w.at = "handle" /\ w.from = status[r] /\ w.to = to
                          /\ CallSound(w)
                          /\ work' = [work EXCEPT ![q] = w]
    BY <1>5, <2>1, BeginsSound DEF Decide, Publish
  <2>3. to \in Cycle(r).counted => to = Cycle(r).absorbs
    BY <1>1, CountsByAbsorbing DEF OutcomeStatus, Cycle
  <2>4. QED
    BY <1>2, <1>3, <2>2, <2>3, AccountKept
<1>6. QED
  BY <1>4, <1>5

(* The handler hands on what it was given, and accounts for nothing yet.   *)
LEMMA HandleKeepsAccounts ==
    ASSUME Inv, AccountInv, NEW q \in Requests, Handle(q)
    PROVE  AccountInv'
<1>1. work[q] # NoWork /\ work[q].at = "handle"
  BY DEF Handle, At
<1>0. PICK r \in Records : r = work[q].rec
  BY <1>1, Moving
<1>. USE <1>0
<1>2. r \in Records /\ TypeOf[r] \in Types /\ work[q] \in Work
  BY <1>1, Moving
<1>3. ~Accounts(work[q])
  BY <1>1 DEF Accounts
<1>4. Counted(r)' => Counted(r)
  BY DEF Handle, Counted, Cycle
<1>5. r \notin cut' /\ work[q].to \in Cycle(r).counted => work[q].to = Cycle(r).absorbs
  BY <1>1, <1>2 DEF Handle, AccountInv
<1>6. CASE Done(q)
  BY <1>1, <1>2, <1>3, <1>4, <1>6, AccountKept DEF Handle, Done, money
<1>7. CASE work' = [work EXCEPT ![q].at = "write", ![q].from = status[r]]
  <2>. DEFINE w == [work[q] EXCEPT !.at = "write", !.from = status[r]]
  <2>1. w \in Work
    BY <1>2, Moving DEF Work, Stages, Inv, TypeOK
  <2>2. w.rec = r /\ w.to = work[q].to /\ w.at = "write"
    BY <1>2 DEF Work
  <2>3. work' = [work EXCEPT ![q] = w]
    BY <1>7 DEF Inv, TypeOK
  <2>. HIDE DEF w
  <2>4. QED
    BY <1>1, <1>2, <1>3, <1>4, <1>5, <2>1, <2>2, <2>3, AccountKept DEF Handle, money
<1>8. QED
  BY <1>6, <1>7 DEF Handle

(* A record that comes to count is pursued: by this call, which goes on to *)
(* absorb it, or since before.                                             *)
LEMMA WriteKeepsAccounts ==
    ASSUME Inv, AccountInv, NEW q \in Requests, Write(q)
    PROVE  AccountInv'
<1>1. work[q] # NoWork /\ work[q].at = "write"
  BY DEF Write, At
<1>0. PICK r \in Records, to \in {work[q].to} : r = work[q].rec /\ to = work[q].to
  BY <1>1, Moving
<1>. USE <1>0
<1>2. r \in Records /\ TypeOf[r] \in Types /\ work[q] \in Work
  BY <1>1, Moving
<1>3. ~Accounts(work[q])
  BY <1>1 DEF Accounts
<1>4. /\ status'[r] = to
      /\ \A s \in Records \ {r} : status'[s] = status[s]
      /\ posted' = posted /\ exceptions' = exceptions /\ cut' = cut /\ absorbed' = absorbed
  BY <1>2 DEF Write, money, Inv, TypeOK
<1>5. r \notin cut' /\ to \in Cycle(r).counted => to = Cycle(r).absorbs \/ Pursued(r)
  BY <1>1, <1>2, <1>4 DEF AccountInv
<1>6. PICK w \in Work \cup {NoWork} :
          /\ work' = [work EXCEPT ![q] = w]
          /\ w # NoWork => w.rec = r /\ w.to = to /\ w.at \notin {"handle", "write"}
          /\ to = Cycle(r).absorbs => w # NoWork /\ w.at = "absorb"
  <2>1. CASE Done(q) /\ to # Cycle(r).absorbs
    BY <2>1 DEF Done
  <2>2. ASSUME NEW stage \in {"open", "absorb", "relieve", "post"}, GoTo(q, stage),
               to = Cycle(r).absorbs => stage = "absorb"
        PROVE  \E w \in Work : /\ work' = [work EXCEPT ![q] = w]
                               /\ w.at = stage /\ w.rec = r /\ w.to = to
    BY <1>1, <2>2, GoesTo DEF Stages
  <2>3. /\ Cycle(r).opens # Cycle(r).absorbs
        /\ Uncommits(work[q]) => to # Cycle(r).absorbs
        /\ Announces(work[q]) => to # Cycle(r).absorbs
    BY <1>2, CountsByAbsorbing DEF Cycle, Uncommits, Announces
  <2>4. CASE \E stage \in {"open", "absorb", "relieve", "post"} :
                 GoTo(q, stage) /\ (to = Cycle(r).absorbs => stage = "absorb")
    <3>1. PICK stage \in {"open", "absorb", "relieve", "post"} :
                 GoTo(q, stage) /\ (to = Cycle(r).absorbs => stage = "absorb")
      BY <2>4
    <3>2. PICK w \in Work : /\ work' = [work EXCEPT ![q] = w]
                            /\ w.at = stage /\ w.rec = r /\ w.to = to
      BY <2>2, <3>1
    <3>3. QED
      BY <3>1, <3>2, NoWorkAssumption
  <2>5. QED
    BY <2>1, <2>3, <2>4 DEF Write, AfterWrite
<1>7. to = Cycle(r).absorbs => Pursued(r)'
  <2>1. SUFFICES ASSUME to = Cycle(r).absorbs PROVE Pursued(r)'
    OBVIOUS
  <2>2. work'[q] = w /\ w # NoWork /\ w.at = "absorb" /\ w.rec = r /\ w.to = to
    BY <1>6, <2>1 DEF Inv, TypeOK
  <2>3. Accounts(work[q])'
    BY <2>1, <2>2 DEF Accounts, Cycle
  <2>4. QED
    BY <2>2, <2>3 DEF Pursued
<1>8. Pursued(r) => Pursued(r)'
  BY <1>2, <1>3, <1>4, <1>6, PursuedKept
<1>9. r \notin cut' /\ Counted(r)' => Pursued(r)'
  BY <1>4, <1>5, <1>7, <1>8 DEF Counted, Cycle
<1>10. QED
  BY <1>1, <1>2, <1>3, <1>4, <1>6, <1>9, AccountKept

(* Nothing comes to count after the update of the status: the rest of a    *)
(* call keeps AccountInv when it does not give its record up.              *)
LEMMA GoOnKeepsAccounts ==
    ASSUME Inv, AccountInv, NEW q \in Requests, work[q] # NoWork,
           NEW r \in Records, r = work[q].rec,
           NEW w \in Work \cup {NoWork}, work' = [work EXCEPT ![q] = w],
           w # NoWork => w.rec = r /\ w.at \notin {"handle", "write"},
           status' = status, posted \subseteq posted', exceptions \subseteq exceptions',
           cut \subseteq cut', \A s \in Records : absorbed[s] > 0 => absorbed'[s] > 0,
           \/ r \in cut'
           \/ ~Accounts(work[q])
           \/ Accounted(r)'
           \/ w # NoWork /\ w.to = Cycle(w.rec).absorbs /\ OnLine(r)'
              /\ (w.at = "post" \/ (w.at \in {"relieve", "release"} /\ TypeOf[w.rec] = "si"))
    PROVE  AccountInv'
<1>2. work'[q] = w
  BY DEF Inv, TypeOK
<1>3. r \notin cut' /\ Accounts(work[q]) => Pursued(r)'
  <2>1. CASE Accounted(r)'
    BY <2>1 DEF Pursued
  <2>2. CASE w # NoWork /\ w.to = Cycle(w.rec).absorbs /\ OnLine(r)'
             /\ (w.at = "post" \/ (w.at \in {"relieve", "release"} /\ TypeOf[w.rec] = "si"))
    <3>1. w.rec = r
      BY <2>2
    <3>2. Accounts(work[q])'
      BY <1>2, <2>2, <3>1 DEF Accounts, Cycle
    <3>3. QED
      BY <1>2, <2>2, <3>1, <3>2 DEF Pursued
  <2>3. QED
    BY <2>1, <2>2
<1>4. Counted(r)' => Counted(r)
  BY DEF Counted, Cycle
<1>5. QED
  BY <1>3, <1>4, AccountKept

(* The amount goes on the line or the record in the exception queue, and   *)
(* the call goes on to post.                                               *)
LEMMA AbsorbKeepsAccounts ==
    ASSUME Inv, AccountInv, NEW q \in Requests, Absorb(q)
    PROVE  AccountInv'
<1>1. work[q] # NoWork /\ work[q].at = "absorb"
  BY DEF Absorb, At
<1>0. PICK r \in Records : r = work[q].rec
  BY <1>1, Moving
<1>. USE <1>0
<1>2. r \in Records /\ CallSound(work[q]) /\ work[q].to = Cycle(r).absorbs
  BY <1>1, Moving DEF CallSound
<1>3. /\ exceptions \subseteq exceptions' /\ posted' = posted /\ cut' = cut /\ status' = status
      /\ \A s \in Records : absorbed[s] > 0 => absorbed'[s] > 0
      /\ OnLine(r)'
  <2>1. absorbed \in [Records -> Nat]
    BY DEF Inv, TypeOK
  <2>2. CASE HasLine(r) /\ Increment(r) /\ UNCHANGED exceptions
    BY <1>2, <2>1, <2>2 DEF Absorb, Increment, OnLine
  <2>3. CASE exceptions' = exceptions \cup {<<"absorb", r>>} /\ UNCHANGED absorbed
    BY <1>2, <2>3 DEF Absorb, OnLine
  <2>4. QED
    BY <2>2, <2>3 DEF Absorb
<1>4. \E stage \in {"relieve", "post"} :
          GoTo(q, stage) /\ (stage = "relieve" => TypeOf[r] = "si")
  BY DEF Absorb
<1>5. PICK stage \in {"relieve", "post"} :
          GoTo(q, stage) /\ (stage = "relieve" => TypeOf[r] = "si")
  BY <1>4
<1>6. PICK w \in Work : /\ work' = [work EXCEPT ![q] = w]
                        /\ w.at = stage /\ w.rec = r /\ w.to = work[q].to
  BY <1>1, <1>5, GoesTo DEF Stages
<1>7. QED
  BY <1>1, <1>2, <1>3, <1>5, <1>6, NoWorkAssumption, GoOnKeepsAccounts

(* What follows a release: an invoice goes on to post.                     *)
LEMMA AfterReleaseKeepsAccounts ==
    ASSUME Inv, AccountInv, NEW q \in Requests, work[q] # NoWork,
           work[q].at \in {"relieve", "release"}, AfterRelease(q),
           status' = status, posted' = posted, exceptions \subseteq exceptions',
           cut' = cut, absorbed' = absorbed
    PROVE  AccountInv'
<1>0. PICK r \in Records : r = work[q].rec
  BY Moving
<1>. USE <1>0
<1>1. r \in Records /\ CallSound(work[q])
  BY Moving
<1>2. Accounts(work[q]) => TypeOf[r] = "si" /\ OnLine(r) /\ work[q].to = Cycle(r).absorbs
  BY DEF Accounts
<1>3. OnLine(r) => OnLine(r)'
  BY <1>1 DEF OnLine
<1>4. CASE TypeOf[r] = "si"
  <2>1. PICK w \in Work : /\ work' = [work EXCEPT ![q] = w]
                          /\ w.at = "post" /\ w.rec = r /\ w.to = work[q].to
    BY <1>4, GoesTo DEF AfterRelease, Stages
  <2>2. QED
    BY <1>1, <1>2, <1>3, <2>1, NoWorkAssumption, GoOnKeepsAccounts
<1>5. CASE TypeOf[r] # "si"
  <2>1. work' = [work EXCEPT ![q] = NoWork]
    BY <1>5 DEF AfterRelease, Done
  <2>2. QED
    BY <1>2, <1>5, <2>1, GoOnKeepsAccounts
<1>6. QED
  BY <1>4, <1>5

(* The bounded release gives no record up.                                 *)
LEMMA RelieveKeepsAccounts ==
    ASSUME Inv, AccountInv, NEW q \in Requests, Relieve(q) \/ Release(q)
    PROVE  AccountInv'
<1>1. work[q] # NoWork /\ work[q].at \in {"relieve", "release"}
  BY DEF Relieve, Release, At
<1>0. PICK r \in Records : r = work[q].rec
  BY <1>1, Moving
<1>. USE <1>0
<1>2. r \in Records /\ work[q] \in Work
  BY <1>1, Moving
<1>3. /\ exceptions \subseteq exceptions' /\ posted' = posted /\ cut' = cut
      /\ status' = status /\ absorbed' = absorbed
  BY DEF Relieve, Release, money
<1>4. CASE AfterRelease(q)
  BY <1>1, <1>3, <1>4, AfterReleaseKeepsAccounts
<1>5. CASE work' = [work EXCEPT ![q].at = "release", ![q].seen = committed]
  <2>. DEFINE w == [work[q] EXCEPT !.at = "release", !.seen = committed]
  <2>1. w \in Work
    BY <1>2 DEF Work, Stages, Inv, TypeOK
  <2>2. w.at = "release" /\ w.rec = r /\ w.to = work[q].to
    BY <1>2 DEF Work
  <2>3. work' = [work EXCEPT ![q] = w]
    BY <1>5 DEF Inv, TypeOK
  <2>4. Accounts(work[q]) => TypeOf[r] = "si" /\ OnLine(r)' /\ work[q].to = Cycle(r).absorbs
    BY <1>1, <1>2, <1>3 DEF Accounts, OnLine
  <2>. HIDE DEF w
  <2>5. QED
    BY <1>1, <1>2, <1>3, <2>1, <2>2, <2>3, <2>4, NoWorkAssumption, GoOnKeepsAccounts
<1>6. QED
  BY <1>4, <1>5 DEF Relieve, Release

(* Posting completes the account.                                          *)
LEMMA PostKeepsAccounts ==
    ASSUME Inv, AccountInv, NEW q \in Requests, Post(q)
    PROVE  AccountInv'
<1>1. work[q] # NoWork /\ work[q].at = "post"
  BY DEF Post, At
<1>0. PICK r \in Records : r = work[q].rec
  BY <1>1, Moving
<1>. USE <1>0
<1>2. /\ posted' = posted \cup {<<r, work[q].to>>} /\ exceptions' = exceptions
      /\ cut' = cut /\ status' = status /\ absorbed' = absorbed
      /\ work' = [work EXCEPT ![q] = NoWork]
  BY DEF Post, Done, money
<1>3. Accounts(work[q]) => Accounted(r)'
  BY <1>1, <1>2 DEF Accounts, Accounted, OnLine, Cycle
<1>4. QED
  BY <1>1, <1>2, <1>3, GoOnKeepsAccounts

(* Opening a workflow and being cut off: the one accounts for nothing, the *)
(* other is what the property excepts.                                     *)
LEMMA EndKeepsAccounts ==
    ASSUME Inv, AccountInv, NEW q \in Requests, Open(q) \/ CutOff(q)
    PROVE  AccountInv'
<1>1. work[q] # NoWork /\ work' = [work EXCEPT ![q] = NoWork]
  BY DEF Open, CutOff, Done, At
<1>2. /\ posted' = posted /\ exceptions' = exceptions /\ cut \subseteq cut'
      /\ status' = status /\ absorbed' = absorbed
  BY DEF Open, CutOff, money
<1>3. PICK r \in Records : r = work[q].rec
  BY <1>1, Moving
<1>4. ~Accounts(work[q]) \/ r \in cut'
  BY <1>3 DEF Open, CutOff, Accounts, At
<1>5. QED
  BY <1>1, <1>2, <1>3, <1>4, GoOnKeepsAccounts

(* Every step keeps AccountInv: one case per action.                       *)
LEMMA NextAccounts == Inv /\ AccountInv /\ [Next]_vars => AccountInv'
<1>1. SUFFICES ASSUME Inv, AccountInv, [Next]_vars PROVE AccountInv'
  OBVIOUS
<1>2. CASE UNCHANGED vars
  <2>1. \A r \in Records : (Counted(r)' <=> Counted(r)) /\ (Pursued(r)' <=> Pursued(r))
    BY <1>2 DEF vars, Counted, Pursued, Accounted, Accounts, OnLine, Cycle
  <2>2. QED
    BY <1>1, <1>2, <2>1 DEF vars, AccountInv, Cycle
<1>3. CASE (\E r \in Records : Create(r) \/ Advance(r) \/ CancelFlow(r)) \/ CreateBudget
  BY <1>1, <1>3, CreateKeepsAccounts
<1>4. ASSUME NEW q \in Requests, NEW r \in Records, NEW to, Ask(q, r, to) PROVE AccountInv'
  BY <1>1, <1>4, AskKeepsAccounts
<1>5. ASSUME NEW q \in Requests, NEW r \in Records, NEW outcome \in Outcomes,
             Decide(q, r, outcome)
      PROVE  AccountInv'
  BY <1>1, <1>5, DecideKeepsAccounts
<1>6. ASSUME NEW q \in Requests, Serve(q) \/ CutOff(q) PROVE AccountInv'
  BY <1>1, <1>6, HandleKeepsAccounts, WriteKeepsAccounts, AbsorbKeepsAccounts,
     RelieveKeepsAccounts, PostKeepsAccounts, EndKeepsAccounts DEF Serve
<1>7. QED
  BY <1>1, <1>2, <1>3, <1>4, <1>5, <1>6 DEF Next

(* However calls race, a record that counts is posted and is on the budget *)
(* line or in the exception queue once nothing is in flight, unless a call *)
(* on it was cut off.                                                      *)
THEOREM AlwaysAccountedFor == Spec => []AccountedFor
<1>1. Init => AccountInv
  BY TypeOfAssumption, CountsByAbsorbing DEF Init, AccountInv, Counted, Cycle
<1>2. Inv /\ AccountInv /\ [Next]_vars => AccountInv'
  BY NextAccounts
<1>3. AccountInv => AccountedFor
  BY DEF AccountInv, AccountedFor, Idle, Pursued, Accounted, OnLine
<1>4. QED
  BY <1>1, <1>2, <1>3, InvAlways, PTL DEF Spec

-----------------------------------------------------------------------------
(* Requests served one at a time                                           *)

\* At most one call is in flight.
Serial == \A p, q \in Requests : p = q

InHand(r) == status[r] \in Cycle(r).counted \cup {"cancelled"}

\* A record between two calls, or in one that has not decided it.
Rest(r) ==
    /\ absorbed[r] <= 1
    /\ Counted(r) \/ absorbed[r] = 1 => flow[r] = "approved" /\ InHand(r)
    /\ r \notin cut => /\ flow[r] = "approved" => InHand(r)
                       /\ flow[r] = "rejected" => status[r] = "rejected"

\* The user's transition, checked against a status that is still there.
Asked(r, w) ==
    /\ Rest(r) /\ w.from = status[r] /\ w.from \notin Cycle(r).final
    /\ <<w.from, w.to>> \in Cycle(r).moves /\ w.to \notin Cycle(r).managed

\* The decision of the engine that the record does not show yet.
Decided(r, w) ==
    /\ absorbed[r] = 0 /\ ~Counted(r)
    /\ \E outcome \in Outcomes : flow[r] = outcome /\ w.to = OutcomeStatus(r, outcome)

InCall(r, w) ==
    \/ w.at = "handle" /\ Decided(r, w)
    \/ w.at = "write" /\ (Asked(r, w) \/ Decided(r, w))
    \/ w.at = "open" /\ Rest(r) /\ status[r] = Cycle(r).opens
    \/ /\ w.at = "absorb"
       /\ absorbed[r] = 0 /\ flow[r] = "approved" /\ status[r] = Cycle(r).absorbs
    \/ w.at \in {"relieve", "release", "post"} /\ Rest(r)

SerialInv ==
    \A r \in Records : TypeOf[r] # "cn" =>
        \/ \E q \in Requests : work[q] # NoWork /\ work[q].rec = r /\ InCall(r, work[q])
        \/ Rest(r) /\ \A q \in Requests : work[q] = NoWork \/ work[q].rec # r

(* The tables of orders, invoices and expenses: a record that counts goes  *)
(* on counting or is cancelled, nothing leaves cancelled or rejected, and  *)
(* only the engine's approval makes a record count.                        *)
LEMMA Courses ==
    ASSUME NEW t \in Types, t # "cn"
    PROVE  /\ \A a, b : <<a, b>> \in Lifecycle[t].moves =>
                 /\ a \notin {"cancelled", "rejected"}
                 /\ a \in Lifecycle[t].counted =>
                       b \in Lifecycle[t].counted \cup {"cancelled"} /\ b # Lifecycle[t].opens
                 /\ a \notin Lifecycle[t].counted /\ b \notin Lifecycle[t].managed =>
                       b \notin Lifecycle[t].counted
                 /\ b \notin Lifecycle[t].managed => b # Lifecycle[t].absorbs
           /\ {Lifecycle[t].opens, Lifecycle[t].initial, "absent", "rejected", "cancelled"}
                 \cap Lifecycle[t].counted = {}
           /\ "rejected" \notin {Lifecycle[t].opens, Lifecycle[t].initial}
           /\ "cancelled" \notin {Lifecycle[t].opens, Lifecycle[t].initial, Lifecycle[t].absorbs}
           /\ Lifecycle[t].opens \notin {Lifecycle[t].absorbs, Lifecycle[t].initial}
           /\ Lifecycle[t].absorbs \in Lifecycle[t].counted
           /\ Lifecycle[t].posts \subseteq Lifecycle[t].counted
           /\ Lifecycle[t].outcome["approved"] = Lifecycle[t].absorbs
           /\ Lifecycle[t].outcome["rejected"] = "rejected"
           /\ Lifecycle[t].outcome["returned"] \notin
                 Lifecycle[t].counted \cup {Lifecycle[t].opens, "cancelled", "ignored"}
<1>1. CASE t = "po"
  BY <1>1 DEF Lifecycle, PurchaseOrder
<1>2. CASE t = "si"
  BY <1>2 DEF Lifecycle, SupplierInvoice
<1>3. CASE t = "expense"
  BY <1>3 DEF Lifecycle, Expense
<1>4. QED
  BY <1>1, <1>2, <1>3 DEF Types

(* What SerialInv says of a record when the one request is free, and of    *)
(* the record of the call in flight.                                       *)
LEMMA AtRest ==
    ASSUME Serial, SerialInv, NEW q \in Requests, work[q] = NoWork,
           NEW r \in Records, TypeOf[r] # "cn"
    PROVE  Rest(r)
BY DEF Serial, SerialInv

(* The one call in flight finds its record where the last of its own steps *)
(* has left it.                                                            *)
LEMMA TheCall ==
    ASSUME Serial, Inv, SerialInv, NEW q \in Requests, work[q] # NoWork,
           TypeOf[work[q].rec] # "cn"
    PROVE  InCall(work[q].rec, work[q])
BY Moving DEF Serial, SerialInv

(* A step of the one call keeps SerialInv when its record ends at rest, or *)
(* in the call as it should be; all the others stay at rest.               *)
LEMMA SerialKept ==
    ASSUME Serial, Inv, SerialInv, NEW q \in Requests, NEW r \in Records,
           NEW w \in Work \cup {NoWork},
           work' = [work EXCEPT ![q] = w], w # NoWork => w.rec = r,
           work[q] # NoWork => work[q].rec = r,
           \A s \in Records \ {r} :
               /\ status'[s] = status[s] /\ flow'[s] = flow[s] /\ absorbed'[s] = absorbed[s]
               /\ s \in cut' <=> s \in cut,
           TypeOf[r] # "cn" => IF w = NoWork THEN Rest(r)' ELSE InCall(r, w)'
    PROVE  SerialInv'
<1>1. work'[q] = w
  BY DEF Inv, TypeOK
<1>2. \A x \in Requests : x = q
  BY DEF Serial
<1>3. SUFFICES ASSUME NEW s \in Records, TypeOf[s] # "cn"
               PROVE  \/ \E x \in Requests : work'[x] # NoWork /\ work'[x].rec = s
                                             /\ InCall(s, work[x])'
                      \/ Rest(s)' /\ \A x \in Requests : work'[x] = NoWork \/ work'[x].rec # s
  BY DEF SerialInv
<1>4. CASE s = r /\ w = NoWork
  BY <1>1, <1>2, <1>3, <1>4
<1>5. CASE s = r /\ w # NoWork
  <2>1. InCall(s, w)'
    BY <1>3, <1>5
  <2>2. InCall(s, work[q])'
    BY <1>1, <2>1 DEF InCall, Asked, Decided
  <2>3. QED
    BY <1>1, <1>5, <2>2
<1>6. CASE s # r
  <2>1. Rest(s)
    BY <1>2, <1>3, <1>6 DEF SerialInv
  <2>2. Rest(s)'
    BY <1>6, <2>1 DEF Rest, Counted, InHand, Cycle
  <2>3. QED
    BY <1>1, <1>2, <1>6, <2>2
<1>7. QED
  BY <1>4, <1>5, <1>6

(* Creating a record, and what happens to a workflow that is running,      *)
(* happen to records at rest and leave them so.                            *)
LEMMA SingleKeepsSerial ==
    ASSUME Serial, Inv, SerialInv, Free, NEW r \in Records,
           Create(r) \/ Advance(r) \/ CancelFlow(r)
    PROVE  SerialInv'
<1>1. PICK q \in Requests : work[q] = NoWork
  BY DEF Free
<1>2. work' = work /\ absorbed' = absorbed /\ cut' = cut
  BY DEF Create, Advance, CancelFlow, money
<1>3. work' = [work EXCEPT ![q] = NoWork]
  BY <1>1, <1>2 DEF Inv, TypeOK
<1>4. \A s \in Records \ {r} : status'[s] = status[s] /\ flow'[s] = flow[s]
  BY DEF Create, Advance, CancelFlow, Inv, TypeOK
<1>5. ASSUME TypeOf[r] # "cn" PROVE Rest(r)'
  <2>1. Rest(r)
    BY <1>1, <1>5, AtRest
  <2>2. TypeOf[r] \in Types
    BY TypeOfAssumption
  <2>3. CASE Advance(r) \/ CancelFlow(r)
    <3>1. status' = status /\ flow[r] # "approved" /\ flow'[r] \notin {"approved", "rejected"}
      BY <2>3 DEF Advance, CancelFlow, Running, Inv, TypeOK
    <3>2. QED
      BY <1>2, <2>1, <3>1 DEF Rest, Counted, InHand, Cycle
  <2>4. CASE Create(r)
    <3>1. status[r] = "absent" /\ status'[r] = Cycle(r).initial
      BY <2>4 DEF Create, Inv, TypeOK
    <3>2. flow' = flow
      BY <1>5, <2>2, <2>4, Courses DEF Create, Cycle
    <3>3. /\ Cycle(r).initial \notin Cycle(r).counted /\ "absent" \notin Cycle(r).counted
      BY <1>5, <2>2, Courses DEF Cycle
    <3>4. absorbed[r] # 1 /\ (r \notin cut => flow[r] \notin {"approved", "rejected"})
      BY <2>1, <3>1, <3>3 DEF Rest, InHand
    <3>5. QED
      BY <1>2, <2>1, <3>1, <3>2, <3>3, <3>4 DEF Rest, Counted, Cycle
  <2>5. QED
    BY <2>3, <2>4
<1>6. QED
  BY <1>1, <1>2, <1>3, <1>4, <1>5, SerialKept

(* A transition is asked of a record at rest, on the status it has.        *)
LEMMA AskKeepsSerial ==
    ASSUME Serial, Inv, SerialInv, NEW q \in Requests, NEW r \in Records, NEW to,
           Ask(q, r, to)
    PROVE  SerialInv'
<1>1. TypeOf[r] \in Types
  BY TypeOfAssumption
<1>2. to \in StatusesOf(TypeOf[r])
  BY <1>1, Tables DEF Ask, Cycle
<1>3. PICK w \in Work : /\ w.rec = r /\ w.at = "write" /\ w.from = status[r] /\ w.to = to
                        /\ CallSound(w)
                        /\ work' = [work EXCEPT ![q] = w]
  BY <1>2, BeginsSound DEF Ask
<1>4. /\ work[q] = NoWork /\ status' = status /\ flow' = flow
      /\ absorbed' = absorbed /\ cut' = cut
  BY DEF Ask, Begin, money
<1>5. ASSUME TypeOf[r] # "cn" PROVE InCall(r, w)'
  <2>1. Rest(r)
    BY <1>4, <1>5, AtRest
  <2>2. Rest(r)'
    BY <1>4, <2>1 DEF Rest, Counted, InHand, Cycle
  <2>3. QED
    BY <1>3, <1>4, <2>2 DEF InCall, Asked, Ask, Cycle
<1>6. QED
  BY <1>3, <1>4, <1>5, NoWorkAssumption, SerialKept

(* The engine decides on a record at rest, whose workflow runs: it does    *)
(* not count and was never absorbed.                                       *)
LEMMA DecideKeepsSerial ==
    ASSUME Serial, Inv, SerialInv, NEW q \in Requests, NEW r \in Records,
           NEW outcome \in Outcomes, Decide(q, r, outcome)
    PROVE  SerialInv'
<1>1. TypeOf[r] \in Types
  BY TypeOfAssumption
<1>2. /\ work[q] = NoWork /\ status' = status /\ absorbed' = absorbed /\ cut' = cut
      /\ flow'[r] = outcome /\ \A s \in Records \ {r} : flow'[s] = flow[s]
  BY DEF Decide, Publish, Begin, money, Inv, TypeOK
<1>. DEFINE to == OutcomeStatus(r, outcome)
<1>3. CASE to = "ignored"
  <2>1. TypeOf[r] = "cn"
    BY <1>1, <1>3, Courses DEF OutcomeStatus, Cycle, Outcomes, Types, Lifecycle, PurchaseOrder,
       SupplierInvoice, Expense
  <2>2. work' = [work EXCEPT ![q] = NoWork]
    BY <1>2, <1>3 DEF Decide, Publish, Inv, TypeOK
  <2>3. QED
    BY <1>2, <2>1, <2>2, SerialKept
<1>4. CASE to # "ignored"
  <2>1. to \in StatusesOf(TypeOf[r])
    BY <1>1, <1>4, Tables DEF OutcomeStatus, Cycle
  <2>2. PICK w \in Work : /\ w.rec = r /\ w.at = "handle" /\ w.from = status[r] /\ w.to = to
                          /\ CallSound(w)
                          /\ work' = [work EXCEPT ![q] = w]
    BY <1>4, <2>1, BeginsSound DEF Decide, Publish
  <2>3. ASSUME TypeOf[r] # "cn" PROVE InCall(r, w)'
    <3>1. Rest(r) /\ flow[r] # "approved" /\ absorbed[r] \in Nat
      BY <1>2, <2>3, AtRest DEF Decide, Running, Inv, TypeOK
    <3>2. absorbed[r] = 0 /\ ~Counted(r)
      BY <3>1 DEF Rest
    <3>3. Decided(r, w)'
      BY <1>2, <2>2, <3>2 DEF Decided, Counted, Cycle, OutcomeStatus
    <3>4. QED
      BY <2>2, <3>3 DEF InCall
  <2>4. QED
    BY <1>2, <2>2, <2>3, NoWorkAssumption, SerialKept
<1>5. QED
  BY <1>3, <1>4

(* The handler stops only at a record that shows the decision already.     *)
LEMMA HandleKeepsSerial ==
    ASSUME Serial, Inv, SerialInv, NEW q \in Requests, Handle(q)
    PROVE  SerialInv'
<1>1. work[q] # NoWork /\ work[q].at = "handle"
  BY DEF Handle, At
<1>2. PICK r \in Records : r = work[q].rec
  BY <1>1, Moving
<1>3. TypeOf[r] \in Types /\ work[q] \in Work
  BY <1>1, <1>2, Moving
<1>4. status' = status /\ flow' = flow /\ absorbed' = absorbed /\ cut' = cut
  BY DEF Handle, money
<1>5. TypeOf[r] # "cn" => Decided(r, work[q])
  BY <1>1, <1>2, TheCall DEF InCall
<1>6. CASE status[r] = work[q].to /\ Done(q)
  <2>1. work' = [work EXCEPT ![q] = NoWork]
    BY <1>6 DEF Done
  <2>2. ASSUME TypeOf[r] # "cn" PROVE Rest(r)'
    <3>1. PICK outcome \in Outcomes : flow[r] = outcome /\ status[r] = OutcomeStatus(r, outcome)
      BY <1>5, <1>6, <2>2 DEF Decided
    <3>2. absorbed[r] = 0 /\ ~Counted(r)
      BY <1>5, <2>2 DEF Decided
    <3>3. flow[r] # "approved" /\ (flow[r] = "rejected" => status[r] = "rejected")
      BY <1>3, <2>2, <3>1, <3>2, Courses DEF OutcomeStatus, Counted, Cycle
    <3>4. QED
      BY <1>4, <3>2, <3>3 DEF Rest, Counted, Cycle
  <2>3. QED
    BY <1>1, <1>2, <1>4, <2>1, <2>2, SerialKept
<1>7. CASE work' = [work EXCEPT ![q].at = "write", ![q].from = status[r]]
  <2>. DEFINE w == [work[q] EXCEPT !.at = "write", !.from = status[r]]
  <2>1. w \in Work
    BY <1>3 DEF Work, Stages, Inv, TypeOK
  <2>2. w.rec = r /\ w.to = work[q].to /\ w.at = "write"
    BY <1>2, <1>3 DEF Work
  <2>3. work' = [work EXCEPT ![q] = w]
    BY <1>7 DEF Inv, TypeOK
  <2>. HIDE DEF w
  <2>4. PICK v \in Work : v = w
    BY <2>1
  <2>5. ASSUME TypeOf[r] # "cn" PROVE InCall(r, v)'
    <3>1. Decided(r, v)
      BY <1>5, <2>2, <2>4, <2>5 DEF Decided
    <3>2. Decided(r, v)'
      BY <1>4, <3>1 DEF Decided, Counted, Cycle, OutcomeStatus
    <3>3. QED
      BY <2>2, <2>4, <3>2 DEF InCall
  <2>6. QED
    BY <1>1, <1>2, <1>4, <2>2, <2>3, <2>4, <2>5, NoWorkAssumption, SerialKept
<1>8. QED
  BY <1>2, <1>6, <1>7 DEF Handle

(* The update of the status: the decision becomes visible, and an approved *)
(* record goes on to be absorbed; a user's transition takes a record that  *)
(* counts to one that counts or is cancelled, and any other to one that    *)
(* does not.                                                               *)
LEMMA WriteKeepsSerial ==
    ASSUME Serial, Inv, SerialInv, NEW q \in Requests, Write(q)
    PROVE  SerialInv'
<1>1. work[q] # NoWork /\ work[q].at = "write"
  BY DEF Write, At
<1>2. PICK r \in Records, to \in {work[q].to}, from \in {work[q].from} :
          r = work[q].rec /\ to = work[q].to /\ from = work[q].from
  BY <1>1, Moving
<1>3. TypeOf[r] \in Types /\ work[q] \in Work
  BY <1>1, <1>2, Moving
<1>4. /\ status'[r] = to /\ \A s \in Records \ {r} : status'[s] = status[s]
      /\ flow' = flow /\ absorbed' = absorbed /\ cut' = cut
  BY <1>2 DEF Write, money, Inv, TypeOK
<1>5. PICK w \in Work \cup {NoWork} :
          /\ work' = [work EXCEPT ![q] = w]
          /\ w # NoWork => w.rec = r /\ w.to = to
          /\ \/ to = Cycle(r).opens /\ w # NoWork /\ w.at = "open"
             \/ to = Cycle(r).absorbs /\ w # NoWork /\ w.at = "absorb"
             \/ w # NoWork /\ w.at \in {"relieve", "post"}
                  /\ (Uncommits(work[q]) \/ Announces(work[q]))
             \/ w = NoWork /\ to \notin {Cycle(r).opens, Cycle(r).absorbs}
  <2>1. CASE Done(q) /\ to \notin {Cycle(r).opens, Cycle(r).absorbs}
    BY <2>1 DEF Done
  <2>2. ASSUME NEW stage \in {"open", "absorb", "relieve", "post"}, GoTo(q, stage)
        PROVE  \E w \in Work : /\ work' = [work EXCEPT ![q] = w] /\ w # NoWork
                               /\ w.at = stage /\ w.rec = r /\ w.to = to
    BY <1>1, <1>2, <2>2, GoesTo, NoWorkAssumption DEF Stages
  <2>3. CASE to = Cycle(r).opens /\ GoTo(q, "open")
    BY <2>2, <2>3
  <2>4. CASE to = Cycle(r).absorbs /\ GoTo(q, "absorb")
    BY <2>2, <2>4
  <2>5. CASE Uncommits(work[q]) /\ GoTo(q, "relieve")
    BY <2>2, <2>5
  <2>6. CASE Announces(work[q]) /\ GoTo(q, "post")
    BY <2>2, <2>6
  <2>7. QED
    BY <1>2, <2>1, <2>3, <2>4, <2>5, <2>6 DEF Write, AfterWrite
<1>6. ASSUME TypeOf[r] # "cn" PROVE IF w = NoWork THEN Rest(r)' ELSE InCall(r, w)'
  <2>. DEFINE C == Cycle(r)
  <2>1. /\ C.opens \notin C.counted \cup {"cancelled", "rejected", C.absorbs}
        /\ C.absorbs \in C.counted /\ "cancelled" \notin C.counted
        /\ "rejected" \notin C.counted /\ C.posts \subseteq C.counted
        /\ C.absorbs # "cancelled"
    BY <1>3, <1>6, Courses DEF Cycle
  <2>2. absorbed[r] \in Nat
    BY DEF Inv, TypeOK
  <2>3. CASE Decided(r, work[q])
    <3>1. PICK outcome \in Outcomes : flow[r] = outcome /\ to = OutcomeStatus(r, outcome)
      BY <1>2, <2>3 DEF Decided
    <3>2. absorbed[r] = 0
      BY <2>3 DEF Decided
    <3>3. CASE outcome = "approved"
      <4>1. to = C.absorbs
        BY <1>3, <1>6, <3>1, <3>3, Courses DEF OutcomeStatus, Cycle
      <4>2. ~Uncommits(work[q]) /\ ~Announces(work[q])
        BY <1>2, <2>1, <4>1 DEF Uncommits, Announces
      <4>3. w # NoWork /\ w.at = "absorb"
        BY <1>5, <2>1, <4>1, <4>2
      <4>4. QED
        BY <1>4, <3>1, <3>2, <3>3, <4>1, <4>3 DEF InCall, Cycle
    <3>4. CASE outcome # "approved"
      <4>1. to \notin C.counted \cup {C.opens, "cancelled"}
            /\ (outcome = "rejected" => to = "rejected")
        BY <1>3, <1>6, <2>1, <3>1, <3>4, Courses DEF OutcomeStatus, Cycle, Outcomes
      <4>2. ~Uncommits(work[q]) /\ ~Announces(work[q])
        BY <1>2, <2>1, <4>1 DEF Uncommits, Announces
      <4>3. w = NoWork
        BY <1>5, <2>1, <4>1, <4>2
      <4>4. Rest(r)'
        BY <1>4, <2>2, <3>1, <3>2, <3>4, <4>1 DEF Rest, Counted, Cycle
      <4>5. QED
        BY <4>3, <4>4
    <3>5. QED
      BY <3>3, <3>4
  <2>4. CASE Asked(r, work[q])
    <3>1. /\ Rest(r) /\ from = status[r]
          /\ <<from, to>> \in C.moves /\ to \notin C.managed
      BY <1>2, <2>4 DEF Asked
    <3>2. /\ from \notin {"cancelled", "rejected"} /\ to # C.absorbs
          /\ from \in C.counted => to \in C.counted \cup {"cancelled"} /\ to # C.opens
          /\ from \notin C.counted => to \notin C.counted
      BY <1>3, <1>6, <3>1, Courses DEF Cycle
    <3>3. Rest(r)'
      <4>1. CASE from \in C.counted
        <5>1. flow[r] = "approved"
          BY <3>1, <4>1 DEF Rest, Counted
        <5>2. InHand(r)'
          BY <1>4, <3>2, <4>1 DEF InHand, Cycle
        <5>3. QED
          BY <1>4, <3>1, <5>1, <5>2 DEF Rest
      <4>2. CASE from \notin C.counted
        <5>1. ~InHand(r)
          BY <3>1, <3>2, <4>2 DEF InHand
        <5>2. absorbed[r] # 1 /\ (r \notin cut => flow[r] \notin {"approved", "rejected"})
          BY <3>1, <3>2, <5>1 DEF Rest
        <5>3. ~Counted(r)'
          BY <1>4, <3>2, <4>2 DEF Counted, Cycle
        <5>4. QED
          BY <1>4, <3>1, <5>2, <5>3 DEF Rest
      <4>3. QED
        BY <4>1, <4>2
    <3>4. w # NoWork => \/ to = C.opens /\ w.at = "open"
                        \/ w.at \in {"relieve", "post"}
      BY <1>5, <3>2
    <3>5. QED
      BY <1>4, <3>3, <3>4 DEF InCall, Cycle
  <2>5. QED
    BY <1>1, <1>2, <1>6, <2>3, <2>4, TheCall DEF InCall
<1>7. QED
  BY <1>1, <1>2, <1>4, <1>5, <1>6, SerialKept

(* A workflow is started for a record at rest that does not count.         *)
LEMMA OpenKeepsSerial ==
    ASSUME Serial, Inv, SerialInv, NEW q \in Requests, Open(q)
    PROVE  SerialInv'
<1>1. work[q] # NoWork /\ work[q].at = "open"
  BY DEF Open, At
<1>2. PICK r \in Records : r = work[q].rec
  BY <1>1, Moving
<1>3. TypeOf[r] \in Types
  BY TypeOfAssumption
<1>4. /\ work' = [work EXCEPT ![q] = NoWork]
      /\ status' = status /\ absorbed' = absorbed /\ cut' = cut
      /\ \A s \in Records \ {r} : flow'[s] = flow[s]
      /\ flow'[r] \in {flow[r], "in_progress"}
  BY <1>2 DEF Open, Done, money, Inv, TypeOK
<1>5. ASSUME TypeOf[r] # "cn" PROVE Rest(r)'
  <2>1. Rest(r) /\ status[r] = Cycle(r).opens
    BY <1>1, <1>2, <1>5, TheCall DEF InCall
  <2>2. ~InHand(r) /\ ~Counted(r)
    BY <1>3, <1>5, <2>1, Courses DEF InHand, Counted, Cycle
  <2>3. QED
    BY <1>4, <2>1, <2>2 DEF Rest, Counted, InHand, Cycle
<1>6. QED
  BY <1>1, <1>2, <1>4, <1>5, SerialKept

(* The amount is added to an approved record that was never absorbed.      *)
LEMMA AbsorbKeepsSerial ==
    ASSUME Serial, Inv, SerialInv, NEW q \in Requests, Absorb(q)
    PROVE  SerialInv'
<1>1. work[q] # NoWork /\ work[q].at = "absorb"
  BY DEF Absorb, At
<1>2. PICK r \in Records : r = work[q].rec
  BY <1>1, Moving
<1>3. TypeOf[r] \in Types
  BY TypeOfAssumption
<1>4. /\ status' = status /\ flow' = flow /\ cut' = cut
      /\ \A s \in Records \ {r} : absorbed'[s] = absorbed[s]
      /\ absorbed[r] \in Nat /\ absorbed'[r] \in {absorbed[r], absorbed[r] + 1}
  BY <1>2 DEF Absorb, Increment, Inv, TypeOK
<1>5. PICK w \in Work : /\ work' = [work EXCEPT ![q] = w]
                        /\ w.at \in {"relieve", "post"} /\ w.rec = r
  BY <1>1, <1>2, GoesTo DEF Absorb, Stages
<1>6. ASSUME TypeOf[r] # "cn" PROVE InCall(r, w)'
  <2>1. absorbed[r] = 0 /\ flow[r] = "approved" /\ status[r] = Cycle(r).absorbs
    BY <1>1, <1>2, <1>6, TheCall DEF InCall
  <2>2. Counted(r)
    BY <1>3, <1>6, <2>1, Courses DEF Counted, Cycle
  <2>3. Rest(r)'
    BY <1>4, <2>1, <2>2 DEF Rest, Counted, InHand, Cycle
  <2>4. QED
    BY <1>5, <2>3 DEF InCall
<1>7. QED
  BY <1>1, <1>2, <1>4, <1>5, <1>6, NoWorkAssumption, SerialKept

(* The release and the posting find the record at rest and leave it so.    *)
LEMMA FinishKeepsSerial ==
    ASSUME Serial, Inv, SerialInv, NEW q \in Requests, Relieve(q) \/ Release(q) \/ Post(q)
    PROVE  SerialInv'
<1>1. work[q] # NoWork /\ work[q].at \in {"relieve", "release", "post"}
  BY DEF Relieve, Release, Post, At
<1>2. PICK r \in Records : r = work[q].rec
  BY <1>1, Moving
<1>3. status' = status /\ flow' = flow /\ absorbed' = absorbed /\ cut' = cut
  BY DEF Relieve, Release, Post, money
<1>4. PICK w \in Work \cup {NoWork} :
          /\ work' = [work EXCEPT ![q] = w]
          /\ w # NoWork => w.rec = r /\ w.at \in {"release", "post"}
  <2>1. CASE Done(q)
    BY <2>1 DEF Done
  <2>2. CASE GoTo(q, "post")
    BY <1>1, <1>2, <2>2, GoesTo DEF Stages
  <2>3. CASE work' = [work EXCEPT ![q].at = "release", ![q].seen = committed]
    <3>. DEFINE w == [work[q] EXCEPT !.at = "release", !.seen = committed]
    <3>1. work[q] \in Work /\ committed \in Int
      BY <1>1, Moving DEF Inv, TypeOK
    <3>2. w \in Work /\ w.rec = r /\ w.at = "release"
      BY <1>2, <3>1 DEF Work, Stages
    <3>3. work' = [work EXCEPT ![q] = w]
      BY <2>3 DEF Inv, TypeOK
    <3>. HIDE DEF w
    <3>4. QED
      BY <3>2, <3>3
  <2>4. QED
    BY <2>1, <2>2, <2>3 DEF Relieve, Release, Post, AfterRelease
<1>5. ASSUME TypeOf[r] # "cn" PROVE IF w = NoWork THEN Rest(r)' ELSE InCall(r, w)'
  <2>1. Rest(r)
    BY <1>1, <1>2, <1>5, TheCall DEF InCall
  <2>2. Rest(r)'
    BY <1>3, <2>1 DEF Rest, Counted, InHand, Cycle
  <2>3. QED
    BY <1>4, <2>2 DEF InCall
<1>6. QED
  BY <1>1, <1>2, <1>3, <1>4, <1>5, SerialKept

(* A call that is cut off, wherever it is, leaves its record absorbed at   *)
(* most once, and counting only if it is approved.                         *)
LEMMA CutOffKeepsSerial ==
    ASSUME Serial, Inv, SerialInv, NEW q \in Requests, CutOff(q)
    PROVE  SerialInv'
<1>1. work[q] # NoWork
  BY DEF CutOff
<1>2. PICK r \in Records : r = work[q].rec
  BY <1>1, Moving
<1>3. TypeOf[r] \in Types
  BY TypeOfAssumption
<1>4. /\ work' = [work EXCEPT ![q] = NoWork] /\ cut' = cut \cup {r}
      /\ status' = status /\ flow' = flow /\ absorbed' = absorbed
  BY <1>2 DEF CutOff, Done, money
<1>5. ASSUME TypeOf[r] # "cn" PROVE Rest(r)'
  <2>1. InCall(r, work[q])
    BY <1>1, <1>2, <1>5, TheCall
  <2>2. /\ absorbed[r] <= 1
        /\ Counted(r) \/ absorbed[r] = 1 => flow[r] = "approved" /\ InHand(r)
    <3>1. CASE Rest(r)
      BY <3>1 DEF Rest
    <3>2. CASE Decided(r, work[q])
      BY <3>2 DEF Decided
    <3>3. CASE absorbed[r] = 0 /\ flow[r] = "approved" /\ status[r] = Cycle(r).absorbs
      BY <1>3, <1>5, <3>3, Courses DEF InHand, Cycle
    <3>4. QED
      BY <2>1, <3>1, <3>2, <3>3 DEF InCall, Asked
  <2>3. QED
    BY <1>4, <2>2 DEF Rest, Counted, InHand, Cycle
<1>6. \A s \in Records \ {r} : s \in cut' <=> s \in cut
  BY <1>4
<1>7. QED
  BY <1>1, <1>2, <1>4, <1>5, <1>6, SerialKept

(* Every step keeps SerialInv: one case per action.                        *)
LEMMA NextSerial == ASSUME Serial PROVE Inv /\ SerialInv /\ [Next]_vars => SerialInv'
<1>1. SUFFICES ASSUME Inv, SerialInv, [Next]_vars PROVE SerialInv'
  OBVIOUS
<1>2. CASE UNCHANGED <<status, flow, work, absorbed, cut>>
  <2>1. \A r \in Records : Rest(r)' <=> Rest(r)
    BY <1>2 DEF Rest, Counted, InHand, Cycle
  <2>2. \A r \in Records, q \in Requests : InCall(r, work[q])' <=> InCall(r, work[q])
    BY <1>2, <2>1 DEF InCall, Asked, Decided, Counted, Cycle, OutcomeStatus
  <2>3. QED
    BY <1>1, <1>2, <2>1, <2>2 DEF SerialInv
<1>3. ASSUME NEW r \in Records, Free /\ (Create(r) \/ Advance(r) \/ CancelFlow(r))
      PROVE  SerialInv'
  BY <1>1, <1>3, SingleKeepsSerial
<1>4. ASSUME NEW q \in Requests, NEW r \in Records, NEW to, Ask(q, r, to) PROVE SerialInv'
  BY <1>1, <1>4, AskKeepsSerial
<1>5. ASSUME NEW q \in Requests, NEW r \in Records, NEW outcome \in Outcomes,
             Decide(q, r, outcome)
      PROVE  SerialInv'
  BY <1>1, <1>5, DecideKeepsSerial
<1>6. ASSUME NEW q \in Requests, Serve(q) \/ CutOff(q) PROVE SerialInv'
  BY <1>1, <1>6, HandleKeepsSerial, WriteKeepsSerial, OpenKeepsSerial, AbsorbKeepsSerial,
     FinishKeepsSerial, CutOffKeepsSerial DEF Serve
<1>7. CASE CreateBudget
  BY <1>2, <1>7 DEF CreateBudget, money
<1>8. CASE UNCHANGED vars
  BY <1>2, <1>8 DEF vars
<1>9. QED
  BY <1>1, <1>3, <1>4, <1>5, <1>6, <1>7, <1>8 DEF Next

(* Requests that wait for each other keep it, for any records, any budget  *)
(* and any call cut off.                                                   *)
LEMMA SerialAlways == ASSUME Serial PROVE Spec => []SerialInv
<1>1. Init => SerialInv
  <2>1. SUFFICES ASSUME Init PROVE SerialInv
    OBVIOUS
  <2>2. ASSUME NEW r \in Records, TypeOf[r] # "cn" PROVE Rest(r)
    BY <2>1, <2>2, TypeOfAssumption, Courses DEF Init, Rest, Counted, Cycle
  <2>3. QED
    BY <2>1, <2>2 DEF Init, SerialInv
<1>2. Inv /\ SerialInv /\ [Next]_vars => SerialInv'
  BY NextSerial
<1>3. QED
  BY <1>1, <1>2, InvAlways, PTL DEF Spec

(* With requests served one at a time, the amount of an order, invoice or  *)
(* expense is added to the budget line at most once, through any number of *)
(* returns, resubmissions and interrupted calls.                           *)
THEOREM SerialCountsOnce == ASSUME Serial PROVE Spec => []CountedOnce
<1>1. SerialInv => CountedOnce
  <2>1. SUFFICES ASSUME SerialInv, NEW r \in Records, TypeOf[r] # "cn" PROVE absorbed[r] <= 1
    BY DEF CountedOnce
  <2>2. Rest(r) => absorbed[r] <= 1
    BY DEF Rest
  <2>3. \A q \in Requests : InCall(r, work[q]) => Rest(r) \/ absorbed[r] = 0
    BY DEF InCall, Asked, Decided
  <2>4. Rest(r) \/ absorbed[r] = 0
    BY <2>1, <2>3 DEF SerialInv
  <2>5. QED
    BY <2>2, <2>4
<1>2. QED
  BY <1>1, SerialAlways, PTL

(* With requests served one at a time, a decided workflow shows in its     *)
(* record whenever nothing is in flight, unless a call on it was cut off.  *)
THEOREM SerialConverges == ASSUME Serial PROVE Spec => []Converged
<1>1. SerialInv => Converged
  BY DEF SerialInv, Converged, Idle, Rest, InHand, Counted
<1>2. QED
  BY <1>1, SerialAlways, PTL

\* The commitment that the call about to release has read is still there.
ReleaseInv ==
    /\ committed >= 0
    /\ \A q \in Requests : At(q, "release") => work[q].seen = committed

(* The one call keeps ReleaseInv when it does not take more off the line   *)
(* than there is, and only the read leads to the release.                  *)
LEMMA ReleaseKept ==
    ASSUME Serial, Inv, NEW q \in Requests, NEW w \in Work \cup {NoWork},
           work' = [work EXCEPT ![q] = w], committed' >= 0,
           w # NoWork /\ w.at = "release" => w.seen = committed'
    PROVE  ReleaseInv'
<1>1. \A x \in Requests : x = q
  BY DEF Serial
<1>2. work'[q] = w
  BY DEF Inv, TypeOK
<1>3. QED
  BY <1>1, <1>2 DEF ReleaseInv, At

(* Every step keeps ReleaseInv: one case per action.                       *)
LEMMA NextRelease == ASSUME Serial PROVE Inv /\ ReleaseInv /\ [Next]_vars => ReleaseInv'
<1>1. SUFFICES ASSUME Inv, ReleaseInv, [Next]_vars PROVE ReleaseInv'
  OBVIOUS
<1>2. CASE UNCHANGED <<committed, work>>
  BY <1>1, <1>2 DEF ReleaseInv, At
<1>3. ASSUME NEW q \in Requests, NEW r \in Records, NEW stage \in {"handle", "write"}, NEW to,
             Begin(q, r, stage, to), committed' = committed
      PROVE  ReleaseInv'
  <2>1. work' = [work EXCEPT ![q] =
                    [at |-> stage, rec |-> r, from |-> status[r], to |-> to, seen |-> 0]]
    BY <1>3 DEF Begin
  <2>2. ASSUME NEW x \in Requests PROVE ~At(x, "release")'
    <3>1. x = q
      BY DEF Serial
    <3>2. work'[x].at = stage
      BY <1>1, <2>1, <3>1 DEF Inv, TypeOK
    <3>3. QED
      BY <3>2 DEF At
  <2>3. QED
    BY <1>1, <1>3, <2>2 DEF ReleaseInv
<1>4. ASSUME NEW q \in Requests, work[q] # NoWork, committed' >= 0,
             \/ Done(q)
             \/ \E stage \in Stages \ {"release"} : GoTo(q, stage)
      PROVE  ReleaseInv'
  <2>1. CASE Done(q)
    BY <1>1, <1>4, <2>1, ReleaseKept DEF Done
  <2>2. ASSUME NEW stage \in Stages \ {"release"}, GoTo(q, stage) PROVE ReleaseInv'
    <3>1. PICK w \in Work : work' = [work EXCEPT ![q] = w] /\ w.at = stage
      BY <1>1, <1>4, <2>2, GoesTo
    <3>2. QED
      BY <1>1, <1>4, <2>2, <3>1, ReleaseKept
  <2>3. QED
    BY <1>4, <2>1, <2>2
<1>5. ASSUME NEW q \in Requests, NEW r \in Records, NEW to, Ask(q, r, to) PROVE ReleaseInv'
  BY <1>3, <1>5 DEF Ask, money
<1>6. ASSUME NEW q \in Requests, NEW r \in Records, NEW outcome \in Outcomes,
             Decide(q, r, outcome)
      PROVE  ReleaseInv'
  BY <1>2, <1>3, <1>6 DEF Decide, Publish, money
<1>7. ASSUME NEW q \in Requests, Handle(q) PROVE ReleaseInv'
  <2>1. work[q] # NoWork /\ committed' = committed /\ committed' >= 0
    BY <1>1, <1>7 DEF Handle, At, money, ReleaseInv
  <2>2. CASE Done(q)
    BY <1>4, <2>1, <2>2
  <2>3. CASE work' = [work EXCEPT ![q].at = "write", ![q].from = status[work[q].rec]]
    <3>. DEFINE w == [work[q] EXCEPT !.at = "write", !.from = status[work[q].rec]]
    <3>1. work[q] \in Work /\ work[q].rec \in Records /\ TypeOf[work[q].rec] \in Types
      BY <1>1, <2>1, Moving
    <3>2. w \in Work /\ w.at = "write"
      BY <1>1, <3>1 DEF Work, Stages, Inv, TypeOK
    <3>3. work' = [work EXCEPT ![q] = w]
      BY <1>1, <2>3 DEF Inv, TypeOK
    <3>. HIDE DEF w
    <3>4. QED
      BY <1>1, <2>1, <3>2, <3>3, ReleaseKept
  <2>4. QED
    BY <1>7, <2>2, <2>3 DEF Handle
<1>8. ASSUME NEW q \in Requests, Write(q) \/ Open(q) \/ Post(q) \/ CutOff(q) PROVE ReleaseInv'
  <2>1. work[q] # NoWork /\ committed' = committed /\ committed' >= 0
    BY <1>1, <1>8 DEF Write, Open, Post, CutOff, At, money, ReleaseInv
  <2>2. Done(q) \/ \E stage \in Stages \ {"release"} : GoTo(q, stage)
    BY <1>8 DEF Write, AfterWrite, Open, Post, CutOff, Stages
  <2>3. QED
    BY <1>4, <2>1, <2>2
<1>9. ASSUME NEW q \in Requests, Absorb(q) PROVE ReleaseInv'
  <2>1. work[q] # NoWork
    BY <1>9 DEF Absorb, At
  <2>2. Amount[work[q].rec] \in Nat
    BY <1>1, <2>1, Moving, AmountAssumption
  <2>3. committed' >= 0
    BY <1>1, <1>9, <2>2 DEF Absorb, Increment, ReleaseInv, Inv, TypeOK
  <2>4. \E stage \in Stages \ {"release"} : GoTo(q, stage)
    BY <1>9 DEF Absorb, Stages
  <2>5. QED
    BY <1>4, <2>1, <2>3, <2>4
<1>10. ASSUME NEW q \in Requests, Relieve(q) PROVE ReleaseInv'
  <2>1. work[q] # NoWork /\ committed' = committed /\ committed' >= 0 /\ committed \in Int
    BY <1>1, <1>10 DEF Relieve, At, money, ReleaseInv, Inv, TypeOK
  <2>2. CASE AfterRelease(q)
    BY <1>4, <2>1, <2>2 DEF AfterRelease, Stages
  <2>3. CASE work' = [work EXCEPT ![q].at = "release", ![q].seen = committed]
    <3>. DEFINE w == [work[q] EXCEPT !.at = "release", !.seen = committed]
    <3>1. work[q] \in Work
      BY <1>1, <2>1, Moving
    <3>2. w \in Work /\ w.seen = committed
      BY <2>1, <3>1 DEF Work, Stages
    <3>3. work' = [work EXCEPT ![q] = w]
      BY <1>1, <2>3 DEF Inv, TypeOK
    <3>. HIDE DEF w
    <3>4. QED
      BY <1>1, <2>1, <3>2, <3>3, ReleaseKept
  <2>4. QED
    BY <1>10, <2>2, <2>3 DEF Relieve
<1>11. ASSUME NEW q \in Requests, Release(q) PROVE ReleaseInv'
  <2>1. work[q] # NoWork /\ work[q].seen = committed /\ committed \in Int /\ committed >= 0
    BY <1>1, <1>11 DEF Release, At, ReleaseInv, Inv, TypeOK
  <2>2. Amount[work[q].rec] \in Nat
    BY <1>1, <2>1, Moving, AmountAssumption
  <2>3. committed' >= 0
    BY <1>11, <2>1, <2>2 DEF Release, Released
  <2>4. QED
    BY <1>4, <1>11, <2>1, <2>3 DEF Release, AfterRelease, Stages
<1>12. CASE \E r \in Records : Create(r) \/ Advance(r) \/ CancelFlow(r)
  BY <1>2, <1>12 DEF Create, Advance, CancelFlow, money
<1>13. CASE CreateBudget \/ UNCHANGED vars
  BY <1>2, <1>13 DEF CreateBudget, money, vars
<1>14. QED
  BY <1>1, <1>5, <1>6, <1>7, <1>8, <1>9, <1>10, <1>11, <1>12, <1>13 DEF Next, Serve

(* With requests served one at a time the commitment is never negative:    *)
(* what is released is bounded by what was read, and that is still there.  *)
THEOREM SerialCommitmentNotNegative == ASSUME Serial PROVE Spec => [](committed >= 0)
<1>1. Init => ReleaseInv
  BY DEF Init, ReleaseInv, At
<1>2. Inv /\ ReleaseInv /\ [Next]_vars => ReleaseInv'
  BY NextRelease
<1>3. ReleaseInv => committed >= 0
  BY DEF ReleaseInv
<1>4. QED
  BY <1>1, <1>2, <1>3, InvAlways, PTL DEF Spec

-----------------------------------------------------------------------------
(* Sums over finite sets *)

\* The element that a fold over a set takes next.
Pick(S) == CHOOSE x \in S : TRUE

\* f sums the weights of every subset of S.
Sums(f, W, S) ==
    f = [s \in SUBSET S |-> IF s = {} THEN 0 ELSE W[Pick(s)] + f[s \ {Pick(s)}]]

SumOf(W, S) == LET f == CHOOSE f : Sums(f, W, S) IN f[S]

(* A family of subsets of a finite set has a smallest member: the ground   *)
(* on which all that follows is argued, in place of an induction.          *)
LEMMA Smallest ==
    ASSUME NEW U, IsFiniteSet(U), NEW B, B \subseteq SUBSET U, B # {}
    PROVE  \E T \in B : IsFiniteSet(T) /\ \A s \in B : s \subseteq T => s = T
<1>. DEFINE R == StrictSubsetOrdering(U)
<1>1. B \subseteq FiniteSubsetsOf(U)
  BY FS_Subset DEF FiniteSubsetsOf
<1>2. PICK T \in B : \A s \in B : ~(<<s, T>> \in R)
  <2>1. IsWellFoundedOn(R, FiniteSubsetsOf(U))
    BY FS_StrictSubsetOrderingWellFounded
  <2>. HIDE DEF R
  <2>2. QED
    BY <1>1, <2>1, WFMin
<1>3. IsFiniteSet(T)
  BY FS_Subset
<1>4. QED
  BY <1>2, <1>3 DEF StrictSubsetOrdering

(* What a fold takes next is there, and is gone afterwards.                *)
LEMMA PickIn ==
    ASSUME NEW S, S # {}
    PROVE  /\ Pick(S) \in S /\ S \ {Pick(S)} \subseteq S /\ S \ {Pick(S)} # S
           /\ IsFiniteSet(S) => IsFiniteSet(S \ {Pick(S)})
<1>1. Pick(S) \in S
  BY DEF Pick
<1>2. QED
  BY <1>1, FS_Subset

(* Two such functions agree where both are defined.                        *)
LEMMA SumsAgree ==
    ASSUME NEW W, NEW S, NEW T, NEW f, NEW g, Sums(f, W, S), Sums(g, W, T),
           NEW s, s \subseteq S, s \subseteq T, IsFiniteSet(s)
    PROVE  f[s] = g[s]
<1>. DEFINE B == {t \in SUBSET s : f[t] # g[t]}
<1>. SUFFICES ASSUME B # {} PROVE FALSE
  OBVIOUS
<1>1. B \subseteq SUBSET s
  OBVIOUS
<1>2. PICK t \in B : IsFiniteSet(t) /\ \A u \in B : u \subseteq t => u = t
  <2>. HIDE DEF B
  <2>1. QED
    BY <1>1, Smallest
<1>3. t \in SUBSET S /\ t \in SUBSET T
  OBVIOUS
<1>4. /\ f[t] = IF t = {} THEN 0 ELSE W[Pick(t)] + f[t \ {Pick(t)}]
      /\ g[t] = IF t = {} THEN 0 ELSE W[Pick(t)] + g[t \ {Pick(t)}]
  BY <1>3 DEF Sums
<1>5. t # {}
  BY <1>2, <1>4
<1>6. f[t \ {Pick(t)}] = g[t \ {Pick(t)}]
  BY <1>2, <1>5, PickIn
<1>7. QED
  BY <1>2, <1>4, <1>5, <1>6

(* For every finite set there is such a function.                          *)
LEMMA SumsExist ==
    ASSUME NEW W, NEW S, IsFiniteSet(S)
    PROVE  \E f : Sums(f, W, S)
<1>. DEFINE B == {t \in SUBSET S : ~ \E f : Sums(f, W, t)}
<1>. SUFFICES ASSUME B # {} PROVE FALSE
  OBVIOUS
<1>1. B \subseteq SUBSET S
  OBVIOUS
<1>2. PICK t \in B : IsFiniteSet(t) /\ \A u \in B : u \subseteq t => u = t
  <2>. HIDE DEF B
  <2>1. QED
    BY <1>1, Smallest
<1>. DEFINE h == [s \in SUBSET t |-> IF s = {} THEN 0
                                     ELSE W[Pick(s)] + SumOf(W, s \ {Pick(s)})]
<1>3. \A u \in SUBSET t : u # t => \E f : Sums(f, W, u)
  BY <1>2
<1>4. \A u \in SUBSET t : u # t => h[u] = SumOf(W, u)
  <2>1. SUFFICES ASSUME NEW u \in SUBSET t, u # t PROVE h[u] = SumOf(W, u)
    OBVIOUS
  <2>2. PICK f : Sums(f, W, u) /\ f[u] = SumOf(W, u)
    BY <1>3, <2>1 DEF SumOf
  <2>3. f[u] = IF u = {} THEN 0 ELSE W[Pick(u)] + f[u \ {Pick(u)}]
    BY <2>2 DEF Sums
  <2>4. CASE u = {}
    BY <2>2, <2>3, <2>4
  <2>5. CASE u # {}
    <3>. DEFINE w == u \ {Pick(u)}
    <3>1. w \subseteq u /\ w \in SUBSET t /\ w # t /\ IsFiniteSet(w)
      BY <1>2, <2>1, <2>5, PickIn, FS_Subset
    <3>2. PICK g : Sums(g, W, w) /\ g[w] = SumOf(W, w)
      BY <1>3, <3>1 DEF SumOf
    <3>3. f[w] = g[w]
      BY <2>2, <3>1, <3>2, SumsAgree
    <3>4. QED
      BY <2>2, <2>3, <2>5, <3>2, <3>3
  <2>6. QED
    BY <2>4, <2>5
<1>5. Sums(h, W, t)
  <2>1. ASSUME NEW s \in SUBSET t, s # {}
        PROVE  h[s \ {Pick(s)}] = SumOf(W, s \ {Pick(s)})
    <3>1. s \ {Pick(s)} \in SUBSET t /\ s \ {Pick(s)} # t
      BY <2>1, PickIn
    <3>2. QED
      BY <1>4, <3>1
  <2>2. QED
    BY <2>1 DEF Sums
<1>6. QED
  BY <1>2, <1>5

(* So a sum unfolds as its definition says.                                *)
LEMMA SumUnfolds ==
    ASSUME NEW W, NEW S, IsFiniteSet(S)
    PROVE  SumOf(W, S) = IF S = {} THEN 0 ELSE W[Pick(S)] + SumOf(W, S \ {Pick(S)})
<1>1. PICK f : Sums(f, W, S) /\ f[S] = SumOf(W, S)
  BY SumsExist DEF SumOf
<1>2. f[S] = IF S = {} THEN 0 ELSE W[Pick(S)] + f[S \ {Pick(S)}]
  BY <1>1 DEF Sums
<1>3. CASE S = {}
  BY <1>1, <1>2, <1>3
<1>4. CASE S # {}
  <2>. DEFINE s == S \ {Pick(S)}
  <2>1. s \subseteq S /\ IsFiniteSet(s)
    BY <1>4, PickIn
  <2>2. PICK g : Sums(g, W, s) /\ g[s] = SumOf(W, s)
    BY <2>1, SumsExist DEF SumOf
  <2>3. f[s] = g[s]
    BY <1>1, <2>1, <2>2, SumsAgree
  <2>4. QED
    BY <1>1, <1>2, <1>4, <2>2, <2>3
<1>5. QED
  BY <1>3, <1>4

(* A sum of integers is one.                                               *)
LEMMA SumIsInt ==
    ASSUME NEW D, NEW W \in [D -> Int], NEW S \in SUBSET D, IsFiniteSet(S)
    PROVE  SumOf(W, S) \in Int
<1>. DEFINE B == {t \in SUBSET S : SumOf(W, t) \notin Int}
<1>. SUFFICES ASSUME B # {} PROVE FALSE
  OBVIOUS
<1>1. B \subseteq SUBSET S
  OBVIOUS
<1>2. PICK t \in B : IsFiniteSet(t) /\ \A u \in B : u \subseteq t => u = t
  <2>. HIDE DEF B
  <2>1. QED
    BY <1>1, Smallest
<1>3. SumOf(W, t) = IF t = {} THEN 0 ELSE W[Pick(t)] + SumOf(W, t \ {Pick(t)})
  BY <1>2, SumUnfolds
<1>4. t # {}
  BY <1>2, <1>3
<1>5. SumOf(W, t \ {Pick(t)}) \in Int /\ W[Pick(t)] \in Int
  BY <1>2, <1>4, PickIn
<1>6. QED
  BY <1>2, <1>3, <1>4, <1>5

(* An element adds its weight, whichever is taken first.                   *)
LEMMA SumAdds ==
    ASSUME NEW D, NEW W \in [D -> Int], NEW S \in SUBSET D, IsFiniteSet(S)
    PROVE  \A x \in D \ S : SumOf(W, S \cup {x}) = SumOf(W, S) + W[x]
<1>. DEFINE Adds(t) == \A x \in D \ t : SumOf(W, t \cup {x}) = SumOf(W, t) + W[x]
            B == {t \in SUBSET S : ~Adds(t)}
<1>. SUFFICES ASSUME B # {} PROVE FALSE
  OBVIOUS
<1>1. B \subseteq SUBSET S
  OBVIOUS
<1>2. PICK t \in B : IsFiniteSet(t) /\ \A u \in B : u \subseteq t => u = t
  <2>. HIDE DEF B
  <2>1. QED
    BY <1>1, Smallest
<1>3. PICK e \in D \ t : SumOf(W, t \cup {e}) # SumOf(W, t) + W[e]
  OBVIOUS
<1>4. t \in SUBSET D /\ \A u \in SUBSET t : u # t => Adds(u)
  BY <1>2
<1>. HIDE DEF Adds, B
<1>5. PICK T : T = t \cup {e}
  OBVIOUS
<1>6. T # {} /\ T \in SUBSET D /\ IsFiniteSet(T) /\ T \ {e} = t
  BY <1>2, <1>4, <1>5, FS_AddElement
<1>7. SumOf(W, T) = W[Pick(T)] + SumOf(W, T \ {Pick(T)})
  BY <1>6, SumUnfolds
<1>8. SumOf(W, t) \in Int /\ W[e] \in Int
  BY <1>2, <1>4, SumIsInt
<1>9. ASSUME Pick(T) = e PROVE FALSE
  <2>1. SumOf(W, T) = W[e] + SumOf(W, t)
    BY <1>6, <1>7, <1>9
  <2>2. SumOf(W, T) = SumOf(W, t) + W[e]
    BY <1>8, <2>1
  <2>3. QED
    BY <1>3, <1>5, <2>2
<1>10. PICK p \in t : p = Pick(T)
  BY <1>5, <1>6, <1>9, PickIn
<1>11. PICK u \in SUBSET t : u = t \ {p}
  OBVIOUS
<1>12. /\ u # t /\ u \in SUBSET D /\ IsFiniteSet(u) /\ p \in D \ u /\ e \in D \ u
       /\ u \cup {p} = t /\ T \ {p} = u \cup {e}
  BY <1>2, <1>4, <1>5, <1>9, <1>10, <1>11, FS_Subset
<1>13. /\ SumOf(W, u \cup {e}) = SumOf(W, u) + W[e]
       /\ SumOf(W, u \cup {p}) = SumOf(W, u) + W[p]
  BY <1>4, <1>12 DEF Adds
<1>14. SumOf(W, u) \in Int /\ W[p] \in Int
  BY <1>12, SumIsInt
<1>15. SumOf(W, T) = W[p] + (SumOf(W, u) + W[e]) /\ SumOf(W, t) = SumOf(W, u) + W[p]
  BY <1>7, <1>10, <1>12, <1>13
<1>16. SumOf(W, T) = SumOf(W, t) + W[e]
  BY <1>8, <1>14, <1>15
<1>17. QED
  BY <1>3, <1>5, <1>16

(* Nothing sums up to zero.                                                *)
LEMMA SumOfNone ==
    ASSUME NEW W
    PROVE  SumOf(W, {}) = 0
BY SumUnfolds, FS_EmptySet

(* Weights of zero sum up to zero.                                         *)
LEMMA SumOfZeros ==
    ASSUME NEW W, NEW S, IsFiniteSet(S), \A x \in S : W[x] = 0
    PROVE  SumOf(W, S) = 0
<1>. DEFINE B == {t \in SUBSET S : SumOf(W, t) # 0}
<1>. SUFFICES ASSUME B # {} PROVE FALSE
  OBVIOUS
<1>1. B \subseteq SUBSET S
  OBVIOUS
<1>2. PICK t \in B : IsFiniteSet(t) /\ \A u \in B : u \subseteq t => u = t
  <2>. HIDE DEF B
  <2>1. QED
    BY <1>1, Smallest
<1>3. SumOf(W, t) = IF t = {} THEN 0 ELSE W[Pick(t)] + SumOf(W, t \ {Pick(t)})
  BY <1>2, SumUnfolds
<1>4. t # {}
  BY <1>2, <1>3
<1>5. SumOf(W, t \ {Pick(t)}) = 0 /\ W[Pick(t)] = 0
  BY <1>2, <1>4, PickIn
<1>6. QED
  BY <1>2, <1>3, <1>4, <1>5

(* Functions that agree on a set have the same sum over it.                *)
LEMMA SumsEqual ==
    ASSUME NEW V, NEW W, NEW S, IsFiniteSet(S), \A x \in S : V[x] = W[x]
    PROVE  SumOf(V, S) = SumOf(W, S)
<1>. DEFINE B == {t \in SUBSET S : SumOf(V, t) # SumOf(W, t)}
<1>. SUFFICES ASSUME B # {} PROVE FALSE
  OBVIOUS
<1>1. B \subseteq SUBSET S
  OBVIOUS
<1>2. PICK t \in B : IsFiniteSet(t) /\ \A u \in B : u \subseteq t => u = t
  <2>. HIDE DEF B
  <2>1. QED
    BY <1>1, Smallest
<1>3. /\ SumOf(V, t) = IF t = {} THEN 0 ELSE V[Pick(t)] + SumOf(V, t \ {Pick(t)})
      /\ SumOf(W, t) = IF t = {} THEN 0 ELSE W[Pick(t)] + SumOf(W, t \ {Pick(t)})
  BY <1>2, SumUnfolds
<1>4. t # {}
  BY <1>2, <1>3
<1>5. SumOf(V, t \ {Pick(t)}) = SumOf(W, t \ {Pick(t)}) /\ V[Pick(t)] = W[Pick(t)]
  BY <1>2, <1>4, PickIn
<1>6. QED
  BY <1>2, <1>3, <1>4, <1>5

(* A sum changes by what one of its weights changes.                       *)
LEMMA SumChanges ==
    ASSUME NEW D, NEW W \in [D -> Int], NEW V \in [D -> Int], NEW S \in SUBSET D, IsFiniteSet(S),
           NEW x \in D, \A y \in D \ {x} : V[y] = W[y]
    PROVE  SumOf(V, S) = SumOf(W, S) + IF x \in S THEN V[x] - W[x] ELSE 0
<1>1. CASE x \notin S
  <2>1. \A y \in S : V[y] = W[y]
    BY <1>1
  <2>2. SumOf(V, S) = SumOf(W, S)
    BY <2>1, SumsEqual
  <2>3. SumOf(W, S) \in Int
    BY SumIsInt
  <2>4. QED
    BY <1>1, <2>2, <2>3
<1>2. CASE x \in S
  <2>1. PICK T \in SUBSET D : T = S \ {x}
    OBVIOUS
  <2>2. T \cup {x} = S /\ IsFiniteSet(T) /\ x \in D \ T
    BY <1>2, <2>1, FS_Subset
  <2>3. SumOf(V, S) = SumOf(V, T) + V[x] /\ SumOf(W, S) = SumOf(W, T) + W[x]
    BY <2>2, SumAdds
  <2>4. \A y \in T : V[y] = W[y]
    BY <2>1
  <2>5. SumOf(V, T) = SumOf(W, T)
    BY <2>2, <2>4, SumsEqual
  <2>6. SumOf(W, T) \in Int /\ W[x] \in Int /\ V[x] \in Int
    BY <2>2, SumIsInt
  <2>7. QED
    BY <1>2, <2>3, <2>5, <2>6
<1>3. QED
  BY <1>1, <1>2

(* Weights that are not negative have a sum that is not.                   *)
LEMMA SumNotNegative ==
    ASSUME NEW D, NEW W \in [D -> Nat], NEW S \in SUBSET D, IsFiniteSet(S)
    PROVE  SumOf(W, S) \in Nat
<1>. DEFINE B == {t \in SUBSET S : SumOf(W, t) \notin Nat}
<1>. SUFFICES ASSUME B # {} PROVE FALSE
  OBVIOUS
<1>1. B \subseteq SUBSET S
  OBVIOUS
<1>2. PICK t \in B : IsFiniteSet(t) /\ \A u \in B : u \subseteq t => u = t
  <2>. HIDE DEF B
  <2>1. QED
    BY <1>1, Smallest
<1>3. SumOf(W, t) = IF t = {} THEN 0 ELSE W[Pick(t)] + SumOf(W, t \ {Pick(t)})
  BY <1>2, SumUnfolds
<1>4. t # {}
  BY <1>2, <1>3
<1>5. SumOf(W, t \ {Pick(t)}) \in Nat /\ W[Pick(t)] \in Nat
  BY <1>2, <1>4, PickIn
<1>6. QED
  BY <1>2, <1>3, <1>4, <1>5

-----------------------------------------------------------------------------
(* The trail of the budget line *)

\* What the absorptions of each record added up to.
Added == [r \in Records |-> absorbed[r] * Amount[r]]

\* Only an order that is known is released.
OrderKnown ==
    \A q \in Requests :
        work[q] # NoWork /\ work[q].at \in {"relieve", "release"} => OrderOf(work[q].rec) \in Records

TrailInv ==
    /\ OrderKnown
    /\ committed = SumOf(Added, OfTypes({"po"})) - SumOf(relieved, Records)
    /\ actual = SumOf(Added, OfTypes({"si", "expense"})) - SumOf(Added, OfTypes({"cn"}))

(* The sums of LineMatchesTrail are sums of those functions.               *)
LEMMA TrailSums ==
    ASSUME NEW S \in SUBSET Records
    PROVE  /\ MapThenSumSet(LAMBDA r : absorbed[r] * Amount[r], S) = SumOf(Added, S)
           /\ MapThenSumSet(LAMBDA r : relieved[r], S) = SumOf(relieved, S)
<1>. DEFINE Steps(f) == f = [s \in SUBSET S |->
                                IF s = {} THEN 0
                                ELSE absorbed[Pick(s)] * Amount[Pick(s)] + f[s \ {Pick(s)}]]
<1>1. ASSUME NEW f PROVE Sums(f, Added, S) <=> Steps(f)
  <2>1. \A s \in SUBSET S : s # {} => Added[Pick(s)] = absorbed[Pick(s)] * Amount[Pick(s)]
    BY PickIn DEF Added
  <2>2. [s \in SUBSET S |-> IF s = {} THEN 0
                            ELSE absorbed[Pick(s)] * Amount[Pick(s)] + f[s \ {Pick(s)}]]
      = [s \in SUBSET S |-> IF s = {} THEN 0 ELSE Added[Pick(s)] + f[s \ {Pick(s)}]]
    BY <2>1
  <2>3. QED
    BY <2>2 DEF Sums
<1>2. (CHOOSE f : Sums(f, Added, S)) = CHOOSE f : Steps(f)
  BY <1>1, Zenon
<1>3. MapThenSumSet(LAMBDA r : absorbed[r] * Amount[r], S) = SumOf(Added, S)
  BY <1>2, Zenon DEF SumOf, MapThenSumSet, MapThenFoldSet, Pick
<1>4. MapThenSumSet(LAMBDA r : relieved[r], S) = SumOf(relieved, S)
  BY DEF SumOf, Sums, MapThenSumSet, MapThenFoldSet, Pick
<1>5. QED
  BY <1>3, <1>4

(* What the sums are made of, and that they are integers.                  *)
LEMMA TrailTyped ==
    ASSUME Inv
    PROVE  /\ Added \in [Records -> Int] /\ relieved \in [Records -> Int]
           /\ \A S \in SUBSET Records : SumOf(Added, S) \in Int /\ SumOf(relieved, S) \in Int
<1>1. Added \in [Records -> Int] /\ relieved \in [Records -> Int]
  BY AmountAssumption DEF Inv, TypeOK, Added
<1>2. ASSUME NEW S \in SUBSET Records PROVE SumOf(Added, S) \in Int /\ SumOf(relieved, S) \in Int
  BY <1>1, RecordsAssumption, FS_Subset, SumIsInt
<1>3. QED
  BY <1>1, <1>2

(* An absorption adds the amount to the sums that the record is part of.   *)
LEMMA AddedChanges ==
    ASSUME Inv, NEW r \in Records, absorbed' = [absorbed EXCEPT ![r] = @ + 1],
           NEW S \in SUBSET Records
    PROVE  SumOf(Added, S)' = SumOf(Added, S) + IF r \in S THEN Amount[r] ELSE 0
<1>1. absorbed \in [Records -> Nat] /\ Amount \in [Records -> Nat]
  BY AmountAssumption DEF Inv, TypeOK
<1>2. absorbed'[r] = absorbed[r] + 1 /\ \A s \in Records \ {r} : absorbed'[s] = absorbed[s]
  BY <1>1
<1>3. PICK a \in Nat, m \in Nat : a = absorbed[r] /\ m = Amount[r]
  BY <1>1
<1>4. (a + 1) * m = a * m + m
  OBVIOUS
<1>5. Added'[r] = Added[r] + Amount[r] /\ \A s \in Records \ {r} : Added'[s] = Added[s]
  BY <1>2, <1>3, <1>4 DEF Added
<1>6. Added \in [Records -> Int] /\ Added' \in [Records -> Int] /\ Amount[r] \in Int
  BY <1>1, <1>2 DEF Added
<1>7. IsFiniteSet(S)
  BY RecordsAssumption, FS_Subset
<1>8. PICK V \in [Records -> Int], W \in [Records -> Int] : V = Added' /\ W = Added
  BY <1>6
<1>9. SumOf(V, S) = SumOf(W, S) + IF r \in S THEN V[r] - W[r] ELSE 0
  BY <1>5, <1>7, <1>8, SumChanges
<1>10. V[r] - W[r] = Amount[r]
  BY <1>5, <1>6, <1>8
<1>11. SumOf(Added, S)' = SumOf(V, S)
  BY <1>8
<1>12. QED
  BY <1>8, <1>9, <1>10, <1>11

(* The call that moves leaves no order unknown.                            *)
LEMMA OrderKept ==
    ASSUME Inv, OrderKnown, NEW q \in Requests, NEW w \in Work \cup {NoWork},
           work' = [work EXCEPT ![q] = w],
           w # NoWork /\ w.at \in {"relieve", "release"} => OrderOf(w.rec) \in Records
    PROVE  OrderKnown'
BY DEF OrderKnown, Inv, TypeOK, OrderOf

(* A call that goes on releases only an order that it knows.               *)
LEMMA OrderStays ==
    ASSUME Inv, OrderKnown, NEW q \in Requests, work[q] # NoWork,
           \/ Done(q)
           \/ \E stage \in Stages :
                 /\ GoTo(q, stage)
                 /\ stage \in {"relieve", "release"} => OrderOf(work[q].rec) \in Records
    PROVE  OrderKnown'
<1>1. CASE Done(q)
  BY <1>1, OrderKept DEF Done
<1>2. ASSUME NEW stage \in Stages, GoTo(q, stage),
             stage \in {"relieve", "release"} => OrderOf(work[q].rec) \in Records
      PROVE  OrderKnown'
  <2>1. PICK w \in Work : work' = [work EXCEPT ![q] = w] /\ w.at = stage /\ w.rec = work[q].rec
    BY <1>2, GoesTo
  <2>2. QED
    BY <1>2, <2>1, OrderKept
<1>3. QED
  BY <1>1, <1>2

(* The steps that leave the budget line alone keep TrailInv.               *)
LEMMA LineUntouched ==
    ASSUME TrailInv, OrderKnown', UNCHANGED money
    PROVE  TrailInv'
<1>1. Added' = Added /\ relieved' = relieved /\ committed' = committed /\ actual' = actual
  BY DEF money, Added
<1>2. QED
  BY <1>1 DEF TrailInv, OfTypes

(* A new call has not come to the release yet.                             *)
LEMMA BeginKeepsTrail ==
    ASSUME Inv, TrailInv, UNCHANGED money, NEW q \in Requests, NEW r \in Records,
           NEW stage \in {"handle", "write"}, NEW to, Begin(q, r, stage, to)
    PROVE  TrailInv'
<1>1. ASSUME NEW x \in Requests, work'[x] # NoWork, work'[x].at \in {"relieve", "release"}
      PROVE  OrderOf(work'[x].rec) \in Records
  BY <1>1 DEF Begin, TrailInv, OrderKnown, Inv, TypeOK
<1>2. OrderKnown'
  BY <1>1 DEF OrderKnown, OrderOf
<1>3. QED
  BY <1>2, LineUntouched

(* The queries before and after those of the budget line.                  *)
LEMMA MoveKeepsTrail ==
    ASSUME Inv, TrailInv, NEW q \in Requests,
           Handle(q) \/ Write(q) \/ Open(q) \/ Relieve(q) \/ Post(q) \/ CutOff(q)
    PROVE  TrailInv'
<1>1. UNCHANGED money /\ work[q] # NoWork /\ OrderKnown
  BY DEF Handle, Write, Open, Relieve, Post, CutOff, At, money, TrailInv
<1>2. /\ work[q] \in Work /\ work[q].rec \in Records /\ TypeOf[work[q].rec] \in Types
  BY <1>1, Moving
<1>3. CASE Open(q) \/ Post(q) \/ CutOff(q)
  BY <1>1, <1>3, OrderStays, LineUntouched DEF Open, Post, CutOff
<1>4. CASE Write(q)
  <2>1. Uncommits(work[q]) => OrderOf(work[q].rec) \in Records
    BY <1>2 DEF Uncommits, OrderOf
  <2>2. \/ Done(q)
        \/ \E stage \in Stages :
              /\ GoTo(q, stage)
              /\ stage \in {"relieve", "release"} => OrderOf(work[q].rec) \in Records
    BY <1>4, <2>1 DEF Write, AfterWrite, Stages
  <2>3. QED
    BY <1>1, <2>2, OrderStays, LineUntouched
<1>5. CASE Handle(q)
  <2>1. CASE Done(q)
    BY <1>1, <2>1, OrderStays, LineUntouched
  <2>2. CASE work' = [work EXCEPT ![q].at = "write", ![q].from = status[work[q].rec]]
    <3>. DEFINE w == [work[q] EXCEPT !.at = "write", !.from = status[work[q].rec]]
    <3>1. w \in Work /\ w.at = "write"
      BY <1>2 DEF Work, Stages, Inv, TypeOK
    <3>2. work' = [work EXCEPT ![q] = w]
      BY <2>2 DEF Inv, TypeOK
    <3>. HIDE DEF w
    <3>3. QED
      BY <1>1, <3>1, <3>2, OrderKept, LineUntouched
  <2>3. QED
    BY <1>5, <2>1, <2>2 DEF Handle
<1>6. CASE Relieve(q)
  <2>1. OrderOf(work[q].rec) \in Records
    BY <1>1, <1>6 DEF Relieve, At, OrderKnown
  <2>2. CASE AfterRelease(q)
    BY <1>1, <2>2, OrderStays, LineUntouched DEF AfterRelease, Stages
  <2>3. CASE work' = [work EXCEPT ![q].at = "release", ![q].seen = committed]
    <3>. DEFINE w == [work[q] EXCEPT !.at = "release", !.seen = committed]
    <3>1. w \in Work /\ w.rec = work[q].rec
      BY <1>2 DEF Work, Stages, Inv, TypeOK
    <3>2. work' = [work EXCEPT ![q] = w]
      BY <2>3 DEF Inv, TypeOK
    <3>. HIDE DEF w
    <3>3. QED
      BY <1>1, <2>1, <3>1, <3>2, OrderKept, LineUntouched
  <2>4. QED
    BY <1>6, <2>2, <2>3 DEF Relieve
<1>7. QED
  BY <1>3, <1>4, <1>5, <1>6

(* The amount that is absorbed is added to one of the totals of the line,  *)
(* and the same to the sum of what was absorbed into that one.             *)
LEMMA AbsorbKeepsTrail ==
    ASSUME Inv, TrailInv, NEW q \in Requests, Absorb(q)
    PROVE  TrailInv'
<1>1. work[q] # NoWork /\ relieved' = relieved
  BY DEF Absorb, At
<1>2. PICK r \in Records : r = work[q].rec /\ TypeOf[r] \in Types
  BY <1>1, Moving
<1>3. OrderKnown'
  <2>1. \E stage \in Stages :
            /\ GoTo(q, stage)
            /\ stage \in {"relieve", "release"} => OrderOf(work[q].rec) \in Records
    BY CategorisedAssumption DEF Absorb, Stages, OrderOf
  <2>2. QED
    BY <1>1, <2>1, OrderStays DEF TrailInv
<1>4. CASE committed' = committed /\ actual' = actual /\ absorbed' = absorbed
  BY <1>1, <1>3, <1>4, LineUntouched DEF money
<1>5. CASE Increment(r)
  <2>1. /\ absorbed' = [absorbed EXCEPT ![r] = @ + 1]
        /\ committed' = IF TypeOf[r] = "po" THEN committed + Amount[r] ELSE committed
        /\ actual' = IF TypeOf[r] \in {"si", "expense"} THEN actual + Amount[r]
                     ELSE IF TypeOf[r] = "cn" THEN actual - Amount[r] ELSE actual
    BY <1>5 DEF Increment
  <2>2. ASSUME NEW types
        PROVE  SumOf(Added, OfTypes(types))'
                   = SumOf(Added, OfTypes(types)) + IF TypeOf[r] \in types THEN Amount[r] ELSE 0
    <3>1. PICK S \in SUBSET Records : S = OfTypes(types)
      BY DEF OfTypes
    <3>2. SumOf(Added, S)' = SumOf(Added, S) + IF r \in S THEN Amount[r] ELSE 0
      BY <2>1, AddedChanges
    <3>3. QED
      BY <3>1, <3>2 DEF OfTypes
  <2>3. PICK po \in Int, spent \in Int, credit \in Int :
            /\ po = SumOf(Added, OfTypes({"po"}))
            /\ spent = SumOf(Added, OfTypes({"si", "expense"}))
            /\ credit = SumOf(Added, OfTypes({"cn"}))
    BY TrailTyped DEF OfTypes
  <2>4. SumOf(relieved, Records)' = SumOf(relieved, Records) /\ SumOf(relieved, Records) \in Int
    BY <1>1, TrailTyped
  <2>5. Amount[r] \in Int
    BY AmountAssumption
  <2>6. committed' = SumOf(Added, OfTypes({"po"}))' - SumOf(relieved, Records)'
    BY <2>1, <2>2, <2>3, <2>4, <2>5 DEF TrailInv
  <2>7. actual' = SumOf(Added, OfTypes({"si", "expense"}))' - SumOf(Added, OfTypes({"cn"}))'
    <3>1. actual = spent - credit
      BY <2>3 DEF TrailInv
    <3>2. /\ SumOf(Added, OfTypes({"si", "expense"}))'
                 = spent + IF TypeOf[r] \in {"si", "expense"} THEN Amount[r] ELSE 0
          /\ SumOf(Added, OfTypes({"cn"}))' = credit + IF TypeOf[r] = "cn" THEN Amount[r] ELSE 0
      BY <2>2, <2>3
    <3>3. QED
      BY <2>1, <2>3, <2>5, <3>1, <3>2
  <2>8. QED
    BY <1>3, <2>6, <2>7 DEF TrailInv
<1>6. QED
  BY <1>2, <1>4, <1>5 DEF Absorb

(* What is released is taken off the line and noted for its order, however *)
(* old the read is that it was computed from.                              *)
LEMMA ReleaseKeepsTrail ==
    ASSUME Inv, TrailInv, NEW q \in Requests, Release(q)
    PROVE  TrailInv'
<1>1. work[q] # NoWork /\ work[q].at = "release" /\ actual' = actual /\ absorbed' = absorbed
  BY DEF Release, At
<1>2. PICK w \in Work : w = work[q]
  BY <1>1, Moving
<1>3. PICK o \in Records : o = OrderOf(w.rec)
  BY <1>1, <1>2 DEF TrailInv, OrderKnown
<1>4. PICK n \in Int : n = Released(w)
  BY <1>2, AmountAssumption DEF Released, Work
<1>5. committed' = committed - n /\ relieved' = [relieved EXCEPT ![o] = relieved[o] + n]
  BY <1>2, <1>3, <1>4 DEF Release
<1>6. SumOf(relieved, Records)' = SumOf(relieved, Records) + n
  <2>1. relieved \in [Records -> Int]
    BY TrailTyped
  <2>2. PICK m \in Int : m = relieved[o] + n
    BY <2>1
  <2>3. /\ relieved' \in [Records -> Int] /\ relieved'[o] = relieved[o] + n
        /\ \A s \in Records \ {o} : relieved'[s] = relieved[s]
    BY <1>5, <2>1, <2>2
  <2>4. PICK V \in [Records -> Int], W \in [Records -> Int], S \in SUBSET Records :
            V = relieved' /\ W = relieved /\ S = Records
    BY <2>1, <2>3
  <2>5. SumOf(V, S) = SumOf(W, S) + IF o \in S THEN V[o] - W[o] ELSE 0
    BY <2>3, <2>4, RecordsAssumption, SumChanges
  <2>6. V[o] - W[o] = n
    BY <2>3, <2>4
  <2>7. QED
    BY <2>4, <2>5, <2>6
<1>7. OrderKnown'
  BY <1>1, OrderStays DEF Release, AfterRelease, TrailInv, Stages
<1>8. Added' = Added
  BY <1>1 DEF Added
<1>9. committed' = SumOf(Added, OfTypes({"po"}))' - SumOf(relieved, Records)'
  <2>1. SumOf(Added, OfTypes({"po"})) \in Int /\ SumOf(relieved, Records) \in Int
    BY TrailTyped DEF OfTypes
  <2>2. SumOf(Added, OfTypes({"po"}))' = SumOf(Added, OfTypes({"po"}))
    BY <1>8 DEF OfTypes
  <2>3. QED
    BY <1>5, <1>6, <2>1, <2>2 DEF TrailInv
<1>10. QED
  BY <1>1, <1>7, <1>8, <1>9 DEF TrailInv, OfTypes

(* Every step keeps TrailInv: one case per action.                         *)
LEMMA NextTrail == Inv /\ TrailInv /\ [Next]_vars => TrailInv'
<1>1. SUFFICES ASSUME Inv, TrailInv, [Next]_vars PROVE TrailInv'
  OBVIOUS
<1>2. CASE work' = work /\ UNCHANGED money
  <2>1. OrderKnown'
    BY <1>1, <1>2 DEF TrailInv, OrderKnown, OrderOf
  <2>2. QED
    BY <1>1, <1>2, <2>1, LineUntouched
<1>3. CASE (\E r \in Records : Create(r) \/ Advance(r) \/ CancelFlow(r)) \/ CreateBudget
           \/ UNCHANGED vars
  BY <1>2, <1>3 DEF Create, Advance, CancelFlow, CreateBudget, money, vars
<1>4. ASSUME NEW q \in Requests, NEW r \in Records, NEW to, Ask(q, r, to) PROVE TrailInv'
  BY <1>1, <1>4, BeginKeepsTrail DEF Ask
<1>5. ASSUME NEW q \in Requests, NEW r \in Records, NEW outcome \in Outcomes,
             Decide(q, r, outcome)
      PROVE  TrailInv'
  BY <1>1, <1>2, <1>5, BeginKeepsTrail DEF Decide, Publish
<1>6. ASSUME NEW q \in Requests, Serve(q) \/ CutOff(q) PROVE TrailInv'
  BY <1>1, <1>6, MoveKeepsTrail, AbsorbKeepsTrail, ReleaseKeepsTrail DEF Serve
<1>7. QED
  BY <1>1, <1>3, <1>4, <1>5, <1>6 DEF Next

(* LineMatchesTrail, budget/absorption: whatever interleaves, whatever is  *)
(* cut off and however stale the reads are, the budget line holds what was *)
(* added to it and released from it: no update is lost.                    *)
THEOREM LineAlwaysMatchesTrail == Spec => []LineMatchesTrail
<1>1. Init => TrailInv
  <2>1. SUFFICES ASSUME Init PROVE TrailInv
    OBVIOUS
  <2>2. \A r \in Records : Added[r] = 0 /\ relieved[r] = 0
    BY <2>1, AmountAssumption DEF Init, Added
  <2>3. \A S \in SUBSET Records : SumOf(Added, S) = 0 /\ SumOf(relieved, S) = 0
    BY <2>2, RecordsAssumption, FS_Subset, SumOfZeros
  <2>4. \A types : OfTypes(types) \in SUBSET Records
    BY DEF OfTypes
  <2>5. QED
    BY <2>1, <2>3, <2>4 DEF Init, TrailInv, OrderKnown
<1>2. TrailInv => LineMatchesTrail
  <2>1. SUFFICES ASSUME TrailInv PROVE LineMatchesTrail
    OBVIOUS
  <2>2. ASSUME NEW types
        PROVE  MapThenSumSet(LAMBDA r : absorbed[r] * Amount[r], OfTypes(types))
                   = SumOf(Added, OfTypes(types))
    <3>1. OfTypes(types) \in SUBSET Records
      BY DEF OfTypes
    <3>2. QED
      BY <3>1, TrailSums
  <2>3. MapThenSumSet(LAMBDA r : relieved[r], Records) = SumOf(relieved, Records)
    BY TrailSums
  <2>4. QED
    BY <2>1, <2>2, <2>3 DEF TrailInv, LineMatchesTrail
<1>3. QED
  BY <1>1, <1>2, NextTrail, InvAlways, PTL DEF Spec

-----------------------------------------------------------------------------
(* The commitment, with requests served one at a time and none cut off     *)

\* Whether an order stands for its amount, w being its call in flight if any:
\* while it counts, but for the absorption, and until it has been released.
Backing(r, w) ==
    IF Counted(r) THEN w = NoWork \/ w.at # "absorb"
    ELSE w # NoWork /\ w.at \in {"relieve", "release"}

\* The orders that stand for the commitment.
Backed ==
    {r \in Records :
        /\ TypeOf[r] = "po" /\ r \in Categorised
        /\ \/ \E q \in Requests : work[q] # NoWork /\ work[q].rec = r /\ Backing(r, work[q])
           \/ Backing(r, NoWork) /\ \A q \in Requests : work[q] = NoWork \/ work[q].rec # r}

BoundInv ==
    /\ ~budgeted => committed = 0
    /\ committed <= SumOf(Amount, Backed)

(* The amounts of a set of records, when one is added.                     *)
LEMMA AmountSums ==
    ASSUME NEW S \in SUBSET Records
    PROVE  /\ SumOf(Amount, S) \in Nat
           /\ \A r \in Records \ S : SumOf(Amount, S \cup {r}) = SumOf(Amount, S) + Amount[r]
<1>1. Amount \in [Records -> Nat] /\ Amount \in [Records -> Int] /\ IsFiniteSet(S)
  BY AmountAssumption, RecordsAssumption, FS_Subset
<1>2. QED
  BY <1>1, SumNotNegative, SumAdds

(* The amounts of some of the records are no more than those of all.       *)
LEMMA SumOfPart ==
    ASSUME NEW S \in SUBSET Records, NEW T \in SUBSET S
    PROVE  SumOf(Amount, T) <= SumOf(Amount, S)
<1>. DEFINE B == {t \in SUBSET S : T \subseteq t /\ ~(SumOf(Amount, T) <= SumOf(Amount, t))}
<1>. SUFFICES ASSUME B # {} PROVE FALSE
  OBVIOUS
<1>1. IsFiniteSet(S) /\ B \subseteq SUBSET S
  BY RecordsAssumption, FS_Subset
<1>2. PICK t \in B : IsFiniteSet(t) /\ \A u \in B : u \subseteq t => u = t
  <2>. HIDE DEF B
  <2>1. QED
    BY <1>1, Smallest
<1>3. SumOf(Amount, T) \in Nat /\ SumOf(Amount, t) \in Nat
  BY <1>2, AmountSums
<1>4. T # t
  BY <1>2, <1>3
<1>5. PICK r \in t : r \notin T
  BY <1>2, <1>4
<1>6. PICK u \in SUBSET Records : u = t \ {r}
  BY <1>2
<1>7. SumOf(Amount, T) <= SumOf(Amount, u)
  BY <1>2, <1>5, <1>6
<1>8. SumOf(Amount, u \cup {r}) = SumOf(Amount, u) + Amount[r] /\ u \cup {r} = t
  BY <1>2, <1>5, <1>6, AmountSums
<1>9. Amount[r] \in Nat /\ SumOf(Amount, u) \in Nat
  BY <1>2, <1>5, <1>6, AmountSums, AmountAssumption
<1>10. SumOf(Amount, t) = SumOf(Amount, u) + Amount[r]
  BY <1>8
<1>11. SumOf(Amount, T) <= SumOf(Amount, t)
  BY <1>3, <1>7, <1>9, <1>10
<1>12. QED
  BY <1>2, <1>11

(* What a step of the one call does to the orders that stand for the       *)
(* commitment.                                                             *)
LEMMA BackedMoves ==
    ASSUME Serial, Inv, NEW q \in Requests, NEW r \in Records, NEW w \in Work \cup {NoWork},
           work' = [work EXCEPT ![q] = w], w # NoWork => w.rec = r,
           work[q] # NoWork => work[q].rec = r,
           \A s \in Records \ {r} : status'[s] = status[s]
    PROVE  /\ \A s \in Records \ {r} : s \in Backed' <=> s \in Backed
           /\ r \in Backed <=> TypeOf[r] = "po" /\ r \in Categorised /\ Backing(r, work[q])
           /\ r \in Backed' <=> TypeOf[r] = "po" /\ r \in Categorised /\ Backing(r, w)'
<1>1. \A x \in Requests : x = q
  BY DEF Serial
<1>2. work'[q] = w
  BY DEF Inv, TypeOK
<1>3. ASSUME NEW s \in Records \ {r} PROVE s \in Backed' <=> s \in Backed
  <2>1. Counted(s)' <=> Counted(s)
    BY DEF Counted, Cycle
  <2>2. Backing(s, NoWork)' <=> Backing(s, NoWork)
    BY <2>1 DEF Backing
  <2>3. QED
    BY <1>1, <1>2, <2>2 DEF Backed
<1>4. r \in Backed <=> TypeOf[r] = "po" /\ r \in Categorised /\ Backing(r, work[q])
  BY <1>1 DEF Backed
<1>5. r \in Backed' <=> TypeOf[r] = "po" /\ r \in Categorised /\ Backing(r, w)'
  BY <1>1, <1>2 DEF Backed, Backing, Counted, Cycle
<1>6. QED
  BY <1>3, <1>4, <1>5

(* The bound is kept when the same orders stand for the commitment, and no *)
(* more is committed.                                                      *)
LEMMA BoundSame ==
    ASSUME Inv, BoundInv, Backed' = Backed, committed' \in Int, committed' <= committed,
           ~budgeted' => committed' = 0
    PROVE  BoundInv'
<1>1. SumOf(Amount, Backed)' = SumOf(Amount, Backed) /\ SumOf(Amount, Backed) \in Nat
  BY AmountSums DEF Backed
<1>2. committed \in Int
  BY DEF Inv, TypeOK
<1>3. QED
  BY <1>1, <1>2 DEF BoundInv

(* A step of the one call that leaves the line alone, and an order where   *)
(* it stood, keeps the bound.                                              *)
LEMMA BoundKept ==
    ASSUME Serial, Inv, BoundInv, NEW q \in Requests, NEW r \in Records,
           NEW w \in Work \cup {NoWork},
           work' = [work EXCEPT ![q] = w], w # NoWork => w.rec = r,
           work[q] # NoWork => work[q].rec = r,
           \A s \in Records \ {r} : status'[s] = status[s],
           committed' = committed, budgeted' = budgeted,
           TypeOf[r] = "po" => (Backing(r, w)' <=> Backing(r, work[q]))
    PROVE  BoundInv'
<1>1. /\ \A s \in Records \ {r} : s \in Backed' <=> s \in Backed
      /\ r \in Backed' <=> r \in Backed
  BY BackedMoves
<1>2. Backed' = Backed
  BY <1>1 DEF Backed
<1>3. QED
  BY <1>2, BoundSame DEF BoundInv, Inv, TypeOK

(* A call that begins, and the queries that do not touch the line.         *)
LEMMA BeginKeepsBound ==
    ASSUME Serial, Inv, BoundInv, NEW q \in Requests, NEW r \in Records,
           NEW stage \in {"handle", "write"}, NEW to \in UNION {StatusesOf(t) : t \in Types},
           Begin(q, r, stage, to), status' = status, committed' = committed, budgeted' = budgeted
    PROVE  BoundInv'
<1>. DEFINE w == [at |-> stage, rec |-> r, from |-> status[r], to |-> to, seen |-> 0]
<1>1. work[q] = NoWork /\ work' = [work EXCEPT ![q] = w]
  BY DEF Begin
<1>2. w \in Work /\ w.rec = r /\ w.at = stage
  BY DEF Work, Stages, Inv, TypeOK
<1>3. PICK v \in Work : v = w
  BY <1>2
<1>. HIDE DEF w
<1>4. Backing(r, v)' <=> Backing(r, work[q])
  BY <1>1, <1>2, <1>3, NoWorkAssumption DEF Backing, Counted, Cycle
<1>5. QED
  BY <1>1, <1>2, <1>3, <1>4, BoundKept

(* Handling, opening and posting change no status and no total.            *)
LEMMA QuietKeepsBound ==
    ASSUME Serial, Inv, BoundInv, NEW q \in Requests, Handle(q) \/ Open(q) \/ Post(q)
    PROVE  BoundInv'
<1>1. /\ work[q] # NoWork /\ work[q].at \in {"handle", "open", "post"}
      /\ status' = status /\ committed' = committed /\ budgeted' = budgeted
  BY DEF Handle, Open, Post, At, money
<1>2. PICK r \in Records : r = work[q].rec /\ work[q] \in Work
  BY <1>1, Moving
<1>3. PICK w \in Work \cup {NoWork} :
          work' = [work EXCEPT ![q] = w] /\ (w # NoWork => w.rec = r /\ w.at = "write")
  <2>1. CASE Done(q)
    BY <2>1 DEF Done
  <2>2. CASE work' = [work EXCEPT ![q].at = "write", ![q].from = status[work[q].rec]]
    <3>. DEFINE w == [work[q] EXCEPT !.at = "write", !.from = status[work[q].rec]]
    <3>1. w \in Work /\ w.at = "write" /\ w.rec = r
      BY <1>2 DEF Work, Stages, Inv, TypeOK
    <3>2. work' = [work EXCEPT ![q] = w]
      BY <2>2 DEF Inv, TypeOK
    <3>. HIDE DEF w
    <3>3. QED
      BY <3>1, <3>2
  <2>3. QED
    BY <2>1, <2>2 DEF Handle, Open, Post
<1>4. Backing(r, w)' <=> Backing(r, work[q])
  BY <1>1, <1>3 DEF Backing, Counted, Cycle
<1>5. QED
  BY <1>1, <1>2, <1>3, <1>4, BoundKept

(* The update of the status: an approved order stands for nothing until it *)
(* is absorbed, a cancelled one until it is released.                      *)
LEMMA WriteKeepsBound ==
    ASSUME Serial, Inv, SerialInv, BoundInv, NEW q \in Requests, Write(q)
    PROVE  BoundInv'
<1>1. work[q] # NoWork /\ work[q].at = "write" /\ committed' = committed /\ budgeted' = budgeted
  BY DEF Write, At, money
<1>2. PICK r \in Records : r = work[q].rec /\ TypeOf[r] \in Types /\ work[q] \in Work
  BY <1>1, Moving
<1>3. PICK v \in Work : v = work[q]
  BY <1>2
<1>4. status'[r] = v.to /\ \A s \in Records \ {r} : status'[s] = status[s]
  BY <1>2, <1>3 DEF Write, Inv, TypeOK
<1>5. PICK w \in Work \cup {NoWork} :
          /\ work' = [work EXCEPT ![q] = w] /\ (w # NoWork => w.rec = r)
          /\ \/ w # NoWork /\ w.at = "open" /\ v.to = Cycle(r).opens
             \/ w # NoWork /\ w.at = "absorb" /\ v.to = Cycle(r).absorbs
             \/ w # NoWork /\ w.at = "relieve" /\ Uncommits(v)
             \/ w # NoWork /\ w.at = "post" /\ Announces(v)
             \/ /\ w = NoWork
                /\ v.to \notin {Cycle(r).opens, Cycle(r).absorbs} /\ ~Uncommits(v) /\ ~Announces(v)
  <2>1. ASSUME NEW stage \in Stages, GoTo(q, stage)
        PROVE  \E w \in Work : /\ work' = [work EXCEPT ![q] = w] /\ w.rec = r /\ w.at = stage
                               /\ w # NoWork
    BY <1>1, <1>2, <2>1, GoesTo, NoWorkAssumption
  <2>2. "open" \in Stages /\ "absorb" \in Stages /\ "relieve" \in Stages /\ "post" \in Stages
    BY DEF Stages
  <2>3. CASE v.to = Cycle(r).opens /\ GoTo(q, "open")
    BY <2>1, <2>2, <2>3
  <2>4. CASE v.to = Cycle(r).absorbs /\ GoTo(q, "absorb")
    BY <2>1, <2>2, <2>4
  <2>5. CASE Uncommits(v) /\ GoTo(q, "relieve")
    BY <2>1, <2>2, <2>5
  <2>6. CASE Announces(v) /\ GoTo(q, "post")
    BY <2>1, <2>2, <2>6
  <2>7. CASE /\ v.to \notin {Cycle(r).opens, Cycle(r).absorbs} /\ ~Uncommits(v) /\ ~Announces(v)
             /\ Done(q)
    BY <2>7 DEF Done
  <2>8. QED
    BY <1>2, <1>3, <2>3, <2>4, <2>5, <2>6, <2>7 DEF Write, AfterWrite
<1>6. ASSUME TypeOf[r] = "po" PROVE Backing(r, w)' <=> Backing(r, work[q])
  <2>1. Asked(r, v) \/ Decided(r, v)
    BY <1>1, <1>2, <1>3, <1>6, TheCall DEF InCall
  <2>2. /\ Counted(r) <=> status[r] \in Cycle(r).counted
        /\ Counted(r)' <=> v.to \in Cycle(r).counted
    BY <1>4 DEF Counted, Cycle
  <2>3. /\ Cycle(r).opens \notin Cycle(r).counted /\ Cycle(r).absorbs \in Cycle(r).counted
        /\ "cancelled" \notin Cycle(r).counted /\ "rejected" \notin Cycle(r).counted
        /\ Cycle(r).posts \subseteq Cycle(r).counted
        /\ "cancelled" # Cycle(r).absorbs
    BY <1>2, <1>6, Courses DEF Cycle
  <2>4. Uncommits(v) <=> v.to = "cancelled" /\ v.from \in Cycle(r).counted
    BY <1>2, <1>3, <1>6 DEF Uncommits, Cycle, Lifecycle
  <2>5. Announces(v) <=> v.to \in Cycle(r).posts /\ v.to # Cycle(r).absorbs
    BY <1>2, <1>3 DEF Announces
  <2>6. Backing(r, work[q]) <=> Counted(r)
    BY <1>1 DEF Backing
  <2>7. CASE Asked(r, v)
    <3>1. /\ v.from = status[r]
          /\ v.from \in Cycle(r).counted =>
                v.to \in Cycle(r).counted \cup {"cancelled"} /\ v.to # Cycle(r).opens
          /\ v.from \notin Cycle(r).counted => v.to \notin Cycle(r).counted
          /\ v.to # Cycle(r).absorbs
      BY <1>2, <1>6, <2>7, Courses DEF Asked, Cycle
    <3>2. QED
      BY <1>5, <2>2, <2>3, <2>4, <2>5, <2>6, <3>1 DEF Backing
  <2>8. CASE Decided(r, v)
    <3>1. ~Counted(r)
      BY <2>8 DEF Decided
    <3>2. v.to = Cycle(r).absorbs \/ v.to \notin Cycle(r).counted
      BY <1>2, <1>6, <2>8, Courses DEF Decided, OutcomeStatus, Outcomes, Cycle
    <3>3. v.to # "cancelled"
      BY <1>2, <1>6, <2>8, Courses DEF Decided, OutcomeStatus, Outcomes, Cycle
    <3>4. QED
      BY <1>5, <2>2, <2>3, <2>4, <2>5, <2>6, <3>1, <3>2, <3>3 DEF Backing
  <2>9. QED
    BY <2>1, <2>7, <2>8
<1>7. QED
  BY <1>1, <1>2, <1>4, <1>5, <1>6, BoundKept

(* The amount of an order that is absorbed is one more that stands for the *)
(* commitment.                                                             *)
LEMMA AbsorbKeepsBound ==
    ASSUME Serial, Inv, SerialInv, BoundInv, NEW q \in Requests, Absorb(q)
    PROVE  BoundInv'
<1>1. work[q] # NoWork /\ work[q].at = "absorb" /\ status' = status /\ budgeted' = budgeted
  BY DEF Absorb, At
<1>2. PICK r \in Records : r = work[q].rec /\ TypeOf[r] \in Types
  BY <1>1, Moving
<1>3. PICK w \in Work : /\ work' = [work EXCEPT ![q] = w]
                        /\ w.at \in {"relieve", "post"} /\ w.rec = r
  BY <1>1, <1>2, GoesTo DEF Absorb, Stages
<1>4. /\ \A s \in Records \ {r} : s \in Backed' <=> s \in Backed
      /\ r \in Backed <=> TypeOf[r] = "po" /\ r \in Categorised /\ Backing(r, work[q])
      /\ r \in Backed' <=> TypeOf[r] = "po" /\ r \in Categorised /\ Backing(r, w)'
  BY <1>1, <1>2, <1>3, BackedMoves
<1>5. CASE TypeOf[r] # "po"
  <2>1. Backed' = Backed
    BY <1>4, <1>5 DEF Backed
  <2>2. committed' = committed
    BY <1>2, <1>5 DEF Absorb, Increment
  <2>3. QED
    BY <1>1, <2>1, <2>2, BoundSame DEF BoundInv, Inv, TypeOK
<1>6. CASE TypeOf[r] = "po"
  <2>1. Counted(r)
    <3>1. status[r] = Cycle(r).absorbs
      BY <1>1, <1>2, <1>6, TheCall DEF InCall
    <3>2. QED
      BY <1>2, <1>6, <3>1, Courses DEF Counted, Cycle
  <2>2. ~Backing(r, work[q]) /\ Backing(r, w)'
    BY <1>1, <1>3, <2>1 DEF Backing, Counted, Cycle
  <2>3. CASE r \notin Categorised
    <3>1. Backed' = Backed
      BY <1>4, <2>3 DEF Backed
    <3>2. committed' = committed
      BY <1>2, <2>3 DEF Absorb, HasLine
    <3>3. QED
      BY <1>1, <3>1, <3>2, BoundSame DEF BoundInv, Inv, TypeOK
  <2>4. CASE r \in Categorised
    <3>1. PICK S \in SUBSET Records : S = Backed /\ r \notin S
      BY <1>4, <2>2 DEF Backed
    <3>2. PICK T \in SUBSET Records : T = Backed' /\ T = S \cup {r}
      <4>1. PICK T \in SUBSET Records : T = Backed'
        BY DEF Backed
      <4>2. \A s \in Records : s \in T <=> s \in S \/ s = r
        BY <1>4, <1>6, <2>2, <2>4, <3>1, <4>1
      <4>3. T = S \cup {r}
        BY <4>2
      <4>4. QED
        BY <4>1, <4>3
    <3>3. SumOf(Amount, T) = SumOf(Amount, S) + Amount[r] /\ SumOf(Amount, S) \in Nat
      BY <3>1, <3>2, AmountSums
    <3>4. SumOf(Amount, Backed)' = SumOf(Amount, T)
      BY <3>2
    <3>5. Amount[r] \in Nat /\ committed \in Int
      BY AmountAssumption DEF Inv, TypeOK
    <3>6. IF budgeted THEN committed' = committed + Amount[r] ELSE committed' = committed
      BY <1>2, <1>6, <2>4 DEF Absorb, Increment, HasLine
    <3>7. QED
      BY <1>1, <3>1, <3>3, <3>4, <3>5, <3>6 DEF BoundInv
  <2>5. QED
    BY <2>3, <2>4
<1>7. QED
  BY <1>5, <1>6

(* When an order stops standing for the commitment, what it stood for is   *)
(* gone from it, or nothing is committed.                                  *)
LEMMA BoundReleased ==
    ASSUME Inv, BoundInv, NEW r \in Records, Backed' \in {Backed, Backed \ {r}},
           committed' \in Int, committed' <= committed, ~budgeted' => committed' = 0,
           r \in Categorised => committed' <= 0 \/ committed' <= committed - Amount[r]
    PROVE  BoundInv'
<1>1. CASE Backed' = Backed
  BY <1>1, BoundSame
<1>2. CASE Backed' = Backed \ {r} /\ r \in Backed
  <2>1. PICK S \in SUBSET Records : S = Backed
    BY DEF Backed
  <2>2. PICK T \in SUBSET Records : T = Backed' /\ S = T \cup {r} /\ r \notin T
    BY <1>2, <2>1
  <2>3. /\ SumOf(Amount, S) = SumOf(Amount, T) + Amount[r]
        /\ SumOf(Amount, T) \in Nat
    BY <2>2, AmountSums
  <2>4. SumOf(Amount, Backed)' = SumOf(Amount, T)
    BY <2>2
  <2>5. Amount[r] \in Nat /\ committed \in Int /\ r \in Categorised
    BY <1>2, AmountAssumption DEF Inv, TypeOK, Backed
  <2>6. committed <= SumOf(Amount, S)
    BY <2>1 DEF BoundInv
  <2>7. QED
    BY <2>3, <2>4, <2>5, <2>6 DEF BoundInv
<1>3. QED
  BY <1>1, <1>2

(* The bounded release, its read and its decrement: all that the order     *)
(* stands for is taken off, or as much as there is.                        *)
LEMMA ReleaseKeepsBound ==
    ASSUME Serial, Inv, ReleaseInv, BoundInv, NEW q \in Requests, Relieve(q) \/ Release(q)
    PROVE  BoundInv'
<1>1. /\ work[q] # NoWork /\ work[q].at \in {"relieve", "release"}
      /\ status' = status /\ budgeted' = budgeted
  BY DEF Relieve, Release, At
<1>2. PICK r \in Records : r = work[q].rec /\ work[q] \in Work /\ Amount[r] \in Nat
  BY <1>1, Moving, AmountAssumption
<1>3. PICK w \in Work \cup {NoWork} :
          /\ work' = [work EXCEPT ![q] = w] /\ (w # NoWork => w.rec = r)
          /\ \/ AfterRelease(q) /\ (TypeOf[r] = "po" => w = NoWork)
             \/ Relieve(q) /\ w # NoWork /\ w.at = "release" /\ committed' = committed
  <2>1. CASE AfterRelease(q)
    <3>1. CASE TypeOf[r] = "si" /\ GoTo(q, "post")
      BY <1>1, <1>2, <2>1, <3>1, GoesTo DEF Stages
    <3>2. CASE TypeOf[r] # "si" /\ Done(q)
      BY <2>1, <3>2 DEF Done
    <3>3. QED
      BY <1>2, <2>1, <3>1, <3>2 DEF AfterRelease
  <2>2. CASE Relieve(q) /\ work' = [work EXCEPT ![q].at = "release", ![q].seen = committed]
    <3>. DEFINE w == [work[q] EXCEPT !.at = "release", !.seen = committed]
    <3>1. w \in Work /\ w.at = "release" /\ w.rec = r
      BY <1>2 DEF Work, Stages, Inv, TypeOK
    <3>2. work' = [work EXCEPT ![q] = w]
      BY <2>2 DEF Inv, TypeOK
    <3>3. committed' = committed
      BY <2>2 DEF Relieve, money
    <3>. HIDE DEF w
    <3>4. QED
      BY <2>2, <3>1, <3>2, <3>3, NoWorkAssumption
  <2>3. QED
    BY <2>1, <2>2 DEF Relieve, Release
<1>4. /\ \A s \in Records \ {r} : s \in Backed' <=> s \in Backed
      /\ r \in Backed <=> TypeOf[r] = "po" /\ r \in Categorised /\ Backing(r, work[q])
      /\ r \in Backed' <=> TypeOf[r] = "po" /\ r \in Categorised /\ Backing(r, w)'
  BY <1>1, <1>2, <1>3, BackedMoves
<1>5. Backing(r, work[q])
  BY <1>1 DEF Backing
<1>6. Backed' \in {Backed, Backed \ {r}}
  BY <1>4, <1>5 DEF Backed
<1>7. committed \in Int /\ committed >= 0
  BY DEF Inv, TypeOK, ReleaseInv
<1>8. CASE Relieve(q)
  <2>1. committed' = committed
    BY <1>8 DEF Relieve, money
  <2>2. CASE w # NoWork /\ w.at = "release"
    <3>1. Backing(r, w)'
      BY <2>2 DEF Backing
    <3>2. Backed' = Backed
      BY <1>4, <1>5, <3>1 DEF Backed
    <3>3. QED
      BY <1>1, <1>7, <2>1, <3>2, BoundSame DEF BoundInv
  <2>3. CASE TypeOf[r] # "po"
    <3>1. Backed' = Backed
      BY <1>4, <2>3 DEF Backed
    <3>2. QED
      BY <1>1, <1>7, <2>1, <3>1, BoundSame DEF BoundInv
  <2>4. CASE TypeOf[r] = "po" /\ w = NoWork
    <3>1. OrderOf(r) = r
      BY <2>4 DEF OrderOf
    <3>2. work'[q] = NoWork
      BY <1>3, <2>4 DEF Inv, TypeOK
    <3>3. ASSUME work' = [work EXCEPT ![q].at = "release", ![q].seen = committed] PROVE FALSE
      <4>. DEFINE x == [work[q] EXCEPT !.at = "release", !.seen = committed]
      <4>1. x \in Work
        BY <1>2, <1>7 DEF Work, Stages
      <4>2. work'[q] = x
        BY <3>3 DEF Inv, TypeOK
      <4>. HIDE DEF x
      <4>3. QED
        BY <3>2, <4>1, <4>2, NoWorkAssumption
    <3>4. committed <= 0 \/ ~budgeted \/ r \notin Categorised
      BY <1>2, <1>8, <3>1, <3>3 DEF Relieve, HasLine
    <3>5. r \in Categorised => committed' <= 0
      BY <1>7, <2>1, <3>4 DEF BoundInv
    <3>6. QED
      BY <1>1, <1>6, <1>7, <2>1, <3>5, BoundReleased DEF BoundInv
  <2>5. QED
    BY <1>3, <2>2, <2>3, <2>4
<1>9. CASE Release(q)
  <2>1. work[q].seen = committed
    BY <1>9 DEF Release, ReleaseInv
  <2>2. PICK n \in Int : /\ n = Released(work[q])
                         /\ n = IF committed < Amount[r] THEN committed ELSE Amount[r]
    BY <1>2, <1>7, <2>1 DEF Released
  <2>3. committed' = committed - n
    BY <1>9, <2>2 DEF Release
  <2>4. /\ committed' \in Int /\ committed' <= committed
        /\ committed' <= 0 \/ committed' <= committed - Amount[r]
    BY <1>2, <1>7, <2>2, <2>3
  <2>5. ~budgeted' => committed' = 0
    BY <1>1, <1>2, <1>7, <2>2, <2>3 DEF BoundInv
  <2>6. QED
    BY <1>6, <2>4, <2>5, BoundReleased
<1>10. QED
  BY <1>8, <1>9

(* Every step keeps the bound: one case per action.                        *)
LEMMA NextBound ==
    ASSUME Serial, ~Faults
    PROVE  Inv /\ SerialInv /\ ReleaseInv /\ BoundInv /\ [Next]_vars => BoundInv'
<1>1. SUFFICES ASSUME Inv, SerialInv, ReleaseInv, BoundInv, [Next]_vars PROVE BoundInv'
  OBVIOUS
<1>2. ASSUME work' = work, committed' = committed, budgeted => budgeted',
             \A r \in Records : TypeOf[r] = "po" => (Counted(r)' <=> Counted(r))
      PROVE  BoundInv'
  <2>1. \A r \in Records : TypeOf[r] = "po" =>
            /\ Backing(r, NoWork)' <=> Backing(r, NoWork)
            /\ \A q \in Requests : Backing(r, work[q])' <=> Backing(r, work[q])
    BY <1>2 DEF Backing
  <2>2. Backed' = Backed
    BY <1>2, <2>1 DEF Backed
  <2>3. QED
    BY <1>1, <1>2, <2>2, BoundSame DEF BoundInv, Inv, TypeOK
<1>3. CASE \/ \E r \in Records : Advance(r) \/ CancelFlow(r)
           \/ CreateBudget \/ UNCHANGED vars
  <2>1. status' = status /\ work' = work /\ committed' = committed /\ (budgeted => budgeted')
    BY <1>3 DEF Advance, CancelFlow, CreateBudget, money, vars
  <2>2. \A r \in Records : Counted(r)' <=> Counted(r)
    BY <2>1 DEF Counted, Cycle
  <2>3. QED
    BY <1>2, <2>1, <2>2
<1>4. ASSUME NEW r \in Records, Create(r) PROVE BoundInv'
  <2>1. /\ work' = work /\ committed' = committed /\ budgeted' = budgeted
        /\ status[r] = "absent" /\ status' = [status EXCEPT ![r] = Cycle(r).initial]
    BY <1>4 DEF Create, money
  <2>2. ASSUME NEW s \in Records, TypeOf[s] = "po" PROVE Counted(s)' <=> Counted(s)
    <3>1. CASE s # r
      BY <1>1, <2>1, <3>1 DEF Counted, Cycle, Inv, TypeOK
    <3>2. CASE s = r
      <4>1. {"absent", Cycle(r).initial} \cap Cycle(r).counted = {}
        BY <2>2, <3>2, TypeOfAssumption, Courses DEF Cycle
      <4>2. status'[r] = Cycle(r).initial
        BY <1>1, <2>1 DEF Inv, TypeOK
      <4>3. QED
        BY <2>1, <3>2, <4>1, <4>2 DEF Counted, Cycle
    <3>3. QED
      BY <3>1, <3>2
  <2>3. QED
    BY <1>2, <2>1, <2>2
<1>5. ASSUME NEW q \in Requests, NEW r \in Records, NEW to, Ask(q, r, to) PROVE BoundInv'
  <2>1. to \in UNION {StatusesOf(t) : t \in Types}
    BY <1>5, TypeOfAssumption, Tables DEF Ask, Cycle
  <2>2. QED
    BY <1>1, <1>5, <2>1, BeginKeepsBound DEF Ask, money
<1>6. ASSUME NEW q \in Requests, NEW r \in Records, NEW outcome \in Outcomes,
             Decide(q, r, outcome)
      PROVE  BoundInv'
  <2>1. status' = status /\ committed' = committed /\ budgeted' = budgeted
    BY <1>6 DEF Decide, money
  <2>2. CASE work' = work
    <3>1. \A s \in Records : Counted(s)' <=> Counted(s)
      BY <2>1 DEF Counted, Cycle
    <3>2. QED
      BY <1>2, <2>1, <2>2, <3>1
  <2>3. CASE OutcomeStatus(r, outcome) # "ignored" /\ Begin(q, r, "handle", OutcomeStatus(r, outcome))
    <3>1. OutcomeStatus(r, outcome) \in UNION {StatusesOf(t) : t \in Types}
      BY <2>3, TypeOfAssumption, Tables DEF OutcomeStatus, Cycle
    <3>2. QED
      BY <1>1, <2>1, <2>3, <3>1, BeginKeepsBound
  <2>4. QED
    BY <1>6, <2>2, <2>3 DEF Decide, Publish
<1>7. ASSUME NEW q \in Requests, Serve(q) PROVE BoundInv'
  BY <1>1, <1>7, QuietKeepsBound, WriteKeepsBound, AbsorbKeepsBound, ReleaseKeepsBound DEF Serve
<1>8. ASSUME NEW q \in Requests, CutOff(q) PROVE FALSE
  BY <1>8 DEF CutOff
<1>9. QED
  BY <1>1, <1>3, <1>4, <1>5, <1>6, <1>7, <1>8 DEF Next

(* CommitmentBounded, budget/absorption: with requests served one at a     *)
(* time and none cut off, what is committed is never negative and, when    *)
(* nothing is in flight, never more than the orders that count.            *)
THEOREM SerialCommitmentBounded == ASSUME Serial, ~Faults PROVE Spec => []CommitmentBounded
<1>1. Init => ReleaseInv /\ BoundInv
  <2>1. SUFFICES ASSUME Init PROVE ReleaseInv /\ BoundInv
    OBVIOUS
  <2>2. committed = 0 /\ SumOf(Amount, Backed) \in Nat
    BY <2>1, AmountSums DEF Init, Backed
  <2>3. QED
    BY <2>1, <2>2 DEF Init, ReleaseInv, BoundInv, At
<1>2. Inv /\ ReleaseInv /\ [Next]_vars => ReleaseInv'
  BY NextRelease
<1>3. Inv /\ SerialInv /\ ReleaseInv /\ BoundInv /\ [Next]_vars => BoundInv'
  BY NextBound
<1>4. Inv /\ ReleaseInv /\ BoundInv => CommitmentBounded
  <2>1. SUFFICES ASSUME Inv, ReleaseInv, BoundInv PROVE CommitmentBounded
    OBVIOUS
  <2>2. committed >= 0 /\ committed \in Int
    BY <2>1 DEF ReleaseInv, Inv, TypeOK
  <2>3. PICK S \in SUBSET Records : S = {r \in Records : TypeOf[r] = "po" /\ Counted(r)}
    OBVIOUS
  <2>4. MapThenSumSet(LAMBDA r : Amount[r], S) = SumOf(Amount, S)
    BY DEF SumOf, Sums, MapThenSumSet, MapThenFoldSet, Pick
  <2>5. Idle => Backed \subseteq S
    BY <2>3 DEF Idle, Backed, Backing
  <2>6. Idle => SumOf(Amount, Backed) <= SumOf(Amount, S)
    BY <2>3, <2>5, SumOfPart
  <2>7. SumOf(Amount, S) \in Nat /\ SumOf(Amount, Backed) \in Nat
    BY AmountSums DEF Backed
  <2>8. QED
    BY <2>1, <2>2, <2>3, <2>4, <2>6, <2>7 DEF CommitmentBounded, BoundInv
<1>5. QED
  BY <1>1, <1>2, <1>3, <1>4, InvAlways, SerialAlways, PTL DEF Spec

-----------------------------------------------------------------------------
(* What is done to a workflow is what the engine promises                  *)

(* A workflow is opened or goes on, is sent back, or is decided: a step of *)
(* what the engine shows to a record.                                      *)
LEMMA FlowMoves ==
    ASSUME TypeOK, NEW r \in Records, NEW s, flow' = [flow EXCEPT ![r] = s],
           \/ s = "in_progress" /\ approvals' = approvals
           \/ s = "returned" /\ flow[r] = "in_progress" /\ approvals' = approvals
           \/ s \in {"rejected", "cancelled"} /\ flow[r] \in Running /\ approvals' = approvals
           \/ /\ s = "approved" /\ flow[r] \in Running
              /\ approvals' = [approvals EXCEPT ![r] = @ + 1]
    PROVE  [Engine!ApprovalNext]_Engine!approvalVars
<1>. DEFINE seen == [x \in Records |-> IF flow[x] \in Running THEN flow[x] ELSE "none"]
            passed == {x \in Records : approvals[x] > 0}
            new == IF s \in Running THEN s ELSE "none"
<1>1. seen' = [seen EXCEPT ![r] = new]
  BY DEF TypeOK
<1>2. seen[r] = IF flow[r] \in Running THEN flow[r] ELSE "none"
  OBVIOUS
<1>3. passed' = IF s = "approved" THEN passed \cup {r} ELSE passed
  <2>1. CASE s = "approved"
    <3>1. approvals' = [approvals EXCEPT ![r] = @ + 1] /\ approvals[r] \in Nat
      BY <2>1 DEF TypeOK
    <3>2. approvals'[r] > 0 /\ \A x \in Records \ {r} : approvals'[x] = approvals[x]
      BY <3>1 DEF TypeOK
    <3>3. QED
      BY <2>1, <3>2
  <2>2. CASE s # "approved"
    BY <2>2
  <2>3. QED
    BY <2>1, <2>2
<1>. HIDE DEF seen, passed
<1>4. CASE s = "in_progress"
  <2>1. seen' = [seen EXCEPT ![r] = "in_progress"] /\ passed' = passed
    BY <1>1, <1>3, <1>4 DEF Running
  <2>2. CASE seen[r] = "none"
    <3>1. Engine!Begun(r)
      BY <2>1, <2>2 DEF Engine!Begun, Engine!MoveTo, seen, passed
    <3>2. QED
      BY <3>1 DEF Engine!ApprovalNext
  <2>3. CASE seen[r] = "returned"
    <3>1. Engine!GoneOn(r)
      BY <2>1, <2>3 DEF Engine!GoneOn, Engine!MoveTo, seen, passed
    <3>2. QED
      BY <3>1 DEF Engine!ApprovalNext
  <2>4. CASE seen[r] = "in_progress"
    <3>1. seen' = seen
      BY <2>1, <2>4 DEF seen
    <3>2. QED
      BY <2>1, <3>1 DEF Engine!approvalVars, seen, passed
  <2>5. QED
    BY <1>2, <2>2, <2>3, <2>4 DEF Running
<1>5. CASE s = "returned"
  <2>1. /\ seen[r] = "in_progress" /\ seen' = [seen EXCEPT ![r] = "returned"]
        /\ passed' = passed
    BY <1>1, <1>2, <1>3, <1>5 DEF Running
  <2>2. Engine!SentBack(r)
    BY <2>1 DEF Engine!SentBack, Engine!MoveTo, seen, passed
  <2>3. QED
    BY <2>2 DEF Engine!ApprovalNext
<1>6. CASE s \in {"rejected", "cancelled"}
  <2>1. seen[r] # "none" /\ seen' = [seen EXCEPT ![r] = "none"] /\ passed' = passed
    BY <1>1, <1>2, <1>3, <1>6 DEF Running
  <2>2. Engine!Dismissed(r)
    BY <2>1 DEF Engine!Dismissed, Engine!MoveTo, seen, passed
  <2>3. QED
    BY <2>2 DEF Engine!ApprovalNext
<1>7. CASE s = "approved"
  <2>1. /\ seen[r] # "none" /\ seen' = [seen EXCEPT ![r] = "none"]
        /\ passed' = passed \cup {r}
    BY <1>1, <1>2, <1>3, <1>7 DEF Running
  <2>2. Engine!Approved(r)
    BY <2>1 DEF Engine!Approved, Engine!MoveTo, seen, passed
  <2>3. QED
    BY <2>2 DEF Engine!ApprovalNext
<1>8. QED
  BY <1>4, <1>5, <1>6, <1>7

(* A workflow that nothing is done to shows the same.                      *)
LEMMA FlowStays ==
    ASSUME flow' = flow, approvals' = approvals
    PROVE  [Engine!ApprovalNext]_Engine!approvalVars
BY DEF Engine!approvalVars

(* A step of the services, of the handlers or of the engine is a step of   *)
(* what the engine promises, or leaves the workflows alone.                *)
LEMMA NextFollows == TypeOK /\ [Next]_vars => [Engine!ApprovalNext]_Engine!approvalVars
<1>. SUFFICES ASSUME TypeOK, [Next]_vars PROVE [Engine!ApprovalNext]_Engine!approvalVars
  OBVIOUS
<1>1. ASSUME NEW r \in Records, Create(r) PROVE [Engine!ApprovalNext]_Engine!approvalVars
  BY <1>1, FlowMoves, FlowStays DEF Create
<1>2. ASSUME NEW r \in Records, Advance(r) \/ CancelFlow(r)
      PROVE  [Engine!ApprovalNext]_Engine!approvalVars
  BY <1>2, FlowMoves DEF Advance, CancelFlow
<1>3. ASSUME NEW q \in Requests, NEW r \in Records, NEW to, Ask(q, r, to)
      PROVE  [Engine!ApprovalNext]_Engine!approvalVars
  BY <1>3, FlowStays DEF Ask
<1>4. ASSUME NEW q \in Requests, NEW r \in Records, NEW outcome \in Outcomes,
             Decide(q, r, outcome)
      PROVE  [Engine!ApprovalNext]_Engine!approvalVars
  BY <1>4, FlowMoves DEF Decide, Outcomes, Running
<1>5. ASSUME NEW q \in Requests, Open(q) PROVE [Engine!ApprovalNext]_Engine!approvalVars
  <2>1. CASE flow' = flow
    BY <1>5, <2>1, FlowStays DEF Open
  <2>2. CASE flow' # flow
    <3>1. work[q].rec \in Records
      BY <1>5 DEF Open, At, TypeOK, Work
    <3>2. flow' = [flow EXCEPT ![work[q].rec] = "in_progress"] /\ approvals' = approvals
      BY <1>5, <2>2 DEF Open
    <3>3. QED
      BY <3>1, <3>2, FlowMoves
  <2>3. QED
    BY <2>1, <2>2
<1>6. ASSUME NEW q \in Requests,
             \/ Handle(q) \/ Write(q) \/ Absorb(q) \/ Relieve(q) \/ Release(q) \/ Post(q)
             \/ CutOff(q)
      PROVE  [Engine!ApprovalNext]_Engine!approvalVars
  BY <1>6, FlowStays DEF Handle, Write, Absorb, Relieve, Release, Post, CutOff
<1>7. CASE CreateBudget \/ UNCHANGED vars
  BY <1>7, FlowStays DEF CreateBudget, vars
<1>8. QED
  BY <1>1, <1>2, <1>3, <1>4, <1>5, <1>6, <1>7 DEF Next, Serve

(* However the calls on procurement records race or are cut off, what the  *)
(* services, the handlers and the engine do to a workflow is what the      *)
(* engine promises of it.                                                  *)
THEOREM ProcurementFollowsEngine == Spec => FollowsEngine
<1>1. Init => Engine!ApprovalInit
  BY DEF Init, Running, Engine!ApprovalInit
<1>2. QED
  BY <1>1, NextFollows, TypeCorrect, PTL DEF Spec, FollowsEngine, Engine!ApprovalSpec

-----------------------------------------------------------------------------
(* What the budget line promises *)

Approvables == OfTypes({"po", "si", "expense"})

Admissions == {r \in Approvables : approvals[r] > 0}

Charges == {r \in Approvables : absorbed[r] > 0}

(* A step that neither approves nor moves money leaves the line alone.     *)
LEMMA ControlStays ==
    ASSUME UNCHANGED money, Admissions' = Admissions
    PROVE  [Control!BudgetNext]_Control!budgetVars
<1>1. Charges' = Charges /\ committed' = committed /\ actual' = actual
  BY DEF Charges, money
<1>2. QED
  BY <1>1 DEF Admissions, Charges, Approvables, Control!budgetVars

(* An approval admits the record, unless it is a credit note.              *)
LEMMA DecideControls ==
    ASSUME TypeOK, NEW q \in Requests, NEW r \in Records, NEW outcome \in Outcomes,
           Decide(q, r, outcome)
    PROVE  [Control!BudgetNext]_Control!budgetVars
<1>1. UNCHANGED money
  BY DEF Decide
<1>2. CASE outcome # "approved" \/ r \notin Approvables
  <2>1. \A x \in Approvables : approvals'[x] = approvals[x]
    BY <1>2 DEF Decide, TypeOK, Approvables, OfTypes
  <2>2. Admissions' = Admissions
    BY <2>1 DEF Admissions, Approvables, OfTypes
  <2>3. QED
    BY <1>1, <2>2, ControlStays
<1>3. CASE outcome = "approved" /\ r \in Approvables
  <2>1. approvals[r] \in Nat /\ approvals' = [approvals EXCEPT ![r] = approvals[r] + 1]
    BY <1>3 DEF Decide, TypeOK
  <2>2. approvals'[r] > 0 /\ \A x \in Approvables \ {r} : approvals'[x] = approvals[x]
    BY <2>1 DEF TypeOK, Approvables, OfTypes
  <2>3. Admissions' = Admissions \cup {r}
    BY <1>3, <2>2 DEF Admissions, Approvables, OfTypes
  <2>4. Charges' = Charges /\ committed' = committed /\ actual' = actual
    BY <1>1 DEF Charges, money
  <2>5. Control!Admitted(r)
    BY <2>3, <2>4 DEF Control!Admitted, Admissions, Charges, Approvables
  <2>6. r \in OfTypes({"po"}) \cup OfTypes({"si", "expense"})
    BY <1>3 DEF Approvables, OfTypes
  <2>7. QED
    BY <2>5, <2>6 DEF Control!BudgetNext
<1>4. QED
  BY <1>2, <1>3

(* An absorption charges an approved record that was not charged before,   *)
(* or credits a credit note.                                               *)
LEMMA AbsorbControls ==
    ASSUME TypeOK, OnlyApprovedCounts', CountedOnce', NEW q \in Requests, Absorb(q)
    PROVE  [Control!BudgetNext]_Control!budgetVars
<1>1. PICK r \in Records : r = work[q].rec
  BY DEF Absorb, At, TypeOK, Work
<1>2. approvals' = approvals /\ Admissions' = Admissions
  BY DEF Absorb, Admissions
<1>3. CASE ~HasLine(r)
  <2>1. UNCHANGED money
    BY <1>1, <1>3 DEF Absorb, money
  <2>2. QED
    BY <1>2, <2>1, ControlStays
<1>4. CASE HasLine(r)
  <2>1. Increment(r) /\ absorbed[r] \in Nat
    BY <1>1, <1>4 DEF Absorb, TypeOK
  <2>2. /\ absorbed'[r] = absorbed[r] + 1
        /\ \A x \in Records \ {r} : absorbed'[x] = absorbed[x]
    BY <2>1 DEF Increment, TypeOK
  <2>3. TypeOf[r] \in {"po", "si", "expense", "cn"}
    BY TypeOfAssumption DEF Types
  <2>4. CASE TypeOf[r] = "cn"
    <3>1. committed' = committed /\ actual' = actual - Amount[r] /\ r \in OfTypes({"cn"})
      BY <2>1, <2>4 DEF Increment, OfTypes
    <3>2. \A x \in Approvables : absorbed'[x] = absorbed[x]
      BY <2>2, <2>4 DEF Approvables, OfTypes
    <3>3. Charges' = Charges
      BY <3>2 DEF Charges, Approvables, OfTypes
    <3>4. Control!Credited(r)
      BY <1>2, <3>1, <3>3 DEF Control!Credited, Admissions, Charges, Approvables
    <3>5. QED
      BY <3>1, <3>4 DEF Control!BudgetNext
  <2>5. CASE TypeOf[r] # "cn"
    <3>1. r \in Approvables
      BY <2>3, <2>5 DEF Approvables, OfTypes
    <3>2. absorbed'[r] = 1 /\ absorbed[r] = 0
      BY <2>1, <2>2, <2>5 DEF CountedOnce
    <3>3. approvals'[r] > 0
      BY <2>5, <3>2 DEF OnlyApprovedCounts
    <3>4. r \in Admissions \ Charges
      BY <1>2, <3>1, <3>2, <3>3 DEF Admissions, Charges
    <3>5. Charges' = Charges \cup {r}
      BY <2>2, <3>1, <3>2 DEF Charges, Approvables, OfTypes
    <3>6. /\ committed' = IF r \in OfTypes({"po"}) THEN committed + Amount[r] ELSE committed
          /\ actual' = IF r \in OfTypes({"po"}) THEN actual ELSE actual + Amount[r]
      BY <2>1, <2>3, <2>5 DEF Increment, OfTypes
    <3>7. Control!Charged(r)
      BY <1>2, <3>4, <3>5, <3>6 DEF Control!Charged, Admissions, Charges, Approvables
    <3>8. r \in OfTypes({"po"}) \cup OfTypes({"si", "expense"})
      BY <3>1 DEF Approvables, OfTypes
    <3>9. QED
      BY <3>7, <3>8 DEF Control!BudgetNext
  <2>6. QED
    BY <2>4, <2>5
<1>5. QED
  BY <1>3, <1>4

(* A release takes off the line what is on it at most.                     *)
LEMMA ReleaseControls ==
    ASSUME TypeOK, ReleaseInv, NEW q \in Requests, Release(q)
    PROVE  [Control!BudgetNext]_Control!budgetVars
<1>. DEFINE amount == Released(work[q])
<1>1. /\ committed' = committed - amount /\ actual' = actual /\ absorbed' = absorbed
      /\ approvals' = approvals
  BY DEF Release
<1>2. work[q].seen = committed /\ committed \in Nat /\ Amount[work[q].rec] \in Nat \ {0}
  <2>1. At(q, "release") /\ work[q].rec \in Records
    BY DEF Release, At, TypeOK, Work
  <2>2. QED
    BY <2>1, AmountAssumption DEF ReleaseInv, TypeOK
<1>3. amount \in 0..committed
  BY <1>2 DEF Released
<1>. HIDE DEF amount
<1>4. Admissions' = Admissions /\ Charges' = Charges
  BY <1>1 DEF Admissions, Charges
<1>5. CASE amount = 0
  <2>1. committed' = committed
    BY <1>1, <1>2, <1>5
  <2>2. QED
    BY <1>1, <1>4, <2>1 DEF Control!budgetVars, Admissions, Charges, Approvables
<1>6. CASE amount # 0
  <2>1. amount \in 1..committed
    BY <1>2, <1>3, <1>6
  <2>2. Control!Released(amount)
    BY <1>1, <1>4 DEF Control!Released, Admissions, Charges, Approvables
  <2>3. QED
    BY <2>1, <2>2 DEF Control!BudgetNext
<1>7. QED
  BY <1>5, <1>6

(* Every step is one of the budget line, or leaves it alone.               *)
LEMMA NextControls ==
    TypeOK /\ ReleaseInv /\ OnlyApprovedCounts' /\ CountedOnce' /\ [Next]_vars
        => [Control!BudgetNext]_Control!budgetVars
<1>. SUFFICES ASSUME TypeOK, ReleaseInv, OnlyApprovedCounts', CountedOnce', [Next]_vars
     PROVE  [Control!BudgetNext]_Control!budgetVars
  OBVIOUS
<1>1. ASSUME NEW r \in Records, Create(r) \/ Advance(r) \/ CancelFlow(r)
      PROVE  [Control!BudgetNext]_Control!budgetVars
  BY <1>1, ControlStays DEF Create, Advance, CancelFlow, Admissions
<1>2. ASSUME NEW q \in Requests, NEW r \in Records, NEW to, Ask(q, r, to)
      PROVE  [Control!BudgetNext]_Control!budgetVars
  BY <1>2, ControlStays DEF Ask, Admissions
<1>3. ASSUME NEW q \in Requests, NEW r \in Records, NEW outcome \in Outcomes,
             Decide(q, r, outcome)
      PROVE  [Control!BudgetNext]_Control!budgetVars
  BY <1>3, DecideControls
<1>4. ASSUME NEW q \in Requests, Absorb(q) PROVE [Control!BudgetNext]_Control!budgetVars
  BY <1>4, AbsorbControls
<1>5. ASSUME NEW q \in Requests, Release(q) PROVE [Control!BudgetNext]_Control!budgetVars
  BY <1>5, ReleaseControls
<1>6. ASSUME NEW q \in Requests,
             Handle(q) \/ Write(q) \/ Open(q) \/ Relieve(q) \/ Post(q) \/ CutOff(q)
      PROVE  [Control!BudgetNext]_Control!budgetVars
  BY <1>6, ControlStays DEF Handle, Write, Open, Relieve, Post, CutOff, Admissions
<1>7. CASE CreateBudget \/ UNCHANGED vars
  BY <1>7, ControlStays DEF CreateBudget, vars, money, Admissions
<1>8. QED
  BY <1>1, <1>2, <1>3, <1>4, <1>5, <1>6, <1>7 DEF Next, Serve

(* When calls come one at a time, cut off anywhere, the budget line of     *)
(* procurement keeps its promises: one charge of each approved record, and *)
(* no release of what is not committed.                                    *)
THEOREM SerialKeepsControl == ASSUME Serial PROVE Spec => KeepsControl
<1>1. Init => Control!BudgetInit
  BY DEF Init, OfTypes, Control!BudgetInit
<1>2. Init => ReleaseInv
  BY DEF Init, ReleaseInv, At
<1>3. Inv /\ ReleaseInv /\ [Next]_vars => ReleaseInv'
  BY NextRelease
<1>4. QED
  BY <1>1, <1>2, <1>3, NextControls, InvAlways, TypeCorrect, ApprovalComesFirst, SerialCountsOnce,
     PTL DEF Spec, KeepsControl, Control!BudgetSpec

=============================================================================
