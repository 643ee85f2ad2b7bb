------------------------- MODULE ProjectSetupProofs -------------------------
(***************************************************************************)
(* Theorems about the companies and the workflow templates of a project,   *)
(* for any entities, contracts and templates and any number of calls in    *)
(* flight. Those about the companies are of Parties on its own, without    *)
(* the bounds that ProjectSetup sets to the product, and carry over.       *)
(***************************************************************************)
EXTENDS ProjectSetup, TLAPS

PrimeStatuses == {"draft", "signed", "active", "completed", "terminated", "cancelled"}
DealStatuses == {"draft", "signed", "active", "closed", "cancelled"}
Absence == {"absent", "deleted"}

Contract == [status : PrimeStatuses, holder : Entities, value : Values]
Agreement == [status : DealStatuses, parties : SUBSET Entities]

\* The calls of each kind, with what they have read and what they will write.
Joining == [for : {"join"}, at : {"join"}, on : Entities, to : {"none"}, seen : {{}}]
Leaving == [for : {"leave"}, at : {"deals", "leave"}, on : Entities, to : {"none"}, seen : {{}}]
Awarding == [for : {"award"}, at : {"award"}, on : Entities, to : Contract,
             seen : SUBSET Entities]
Updating == [for : {"update"}, at : {"update"}, on : Contracts, to : Values,
             seen : Values \cup {NoValue}]
Moving == [for : {"move"}, at : {"move"}, on : Contracts, to : PrimeStatuses, seen : {{}}]
Erasing == [for : {"erase"}, at : {"erase"}, on : Contracts, to : {"none"}, seen : {{}}]
Dealing == [for : {"deal"}, at : {"parties", "deal"}, on : Deals, to : Agreement, seen : {{}}]
MovingDeal == [for : {"moveDeal"}, at : {"moveDeal"}, on : Deals, to : DealStatuses,
               seen : {{}}]
ErasingDeal == [for : {"eraseDeal"}, at : {"eraseDeal"}, on : Deals, to : {"none"},
                seen : {{}}]

CompanyCalls == Joining \cup Leaving \cup Awarding \cup Updating \cup Moving \cup Erasing
                    \cup Dealing \cup MovingDeal \cup ErasingDeal

PartyTypes ==
    /\ entity \in [Entities -> [status : {"active", "inactive", "archived"},
                                default : Codes \cup {NoCode}]]
    /\ project \in [owner : Entities, contract : Contracts \cup {NoContract},
                    value : Values \cup {NoValue}]
    /\ participants \subseteq Entities
    /\ prime \in [Contracts -> [status : PrimeStatuses \cup Absence,
                                holder : Entities \cup {NoContract},
                                value : Values \cup {NoValue}]]
    /\ deal \in [Deals -> [status : DealStatuses \cup Absence, parties : SUBSET Entities]]
    /\ calls \in [Requests -> CompanyCalls \cup {NoCall}]
    /\ races \subseteq {"values", "parties"}
    /\ byHand \in BOOLEAN

-----------------------------------------------------------------------------
(* The invariant *)

\* The project row points to the prime contract.
Pointer == \A c \in Contracts : project.contract = c <=> c \in Companies!Live

\* It shows its value, unless edits raced or it was edited by hand.
Shown ==
    "values" \notin races /\ ~byHand =>
        \A c \in Companies!Live : project.value = prime[c].value

\* Every overlap of two calls whose order matters is on record.
Recorded ==
    \A p, q \in Requests : p # q /\ calls[p] # NoCall /\ calls[q] # NoCall =>
        Companies!Conflicts(calls[p], calls[q]) \subseteq races

\* No two calls make the same deal.
OneDraft ==
    \A p, q \in Requests :
        /\ p # q /\ calls[p] # NoCall /\ calls[q] # NoCall
        /\ calls[p].for = "deal" /\ calls[q].for = "deal"
        => calls[p].on # calls[q].on

\* What a call has checked still holds when it writes.
StillTrue(w) ==
    /\ w.for \in {"update", "move", "erase"} => prime[w.on].status # "absent"
    /\ w.for = "update" /\ "values" \notin races /\ w.on \in Companies!Live =>
           w.seen = prime[w.on].value
    /\ w.for = "award" => w.to.holder = w.on
    /\ w.for = "deal" => deal[w.on].status = "absent"
    /\ w.for \in {"moveDeal", "eraseDeal"} => deal[w.on].status # "absent"
    /\ "parties" \notin races =>
           /\ w.for = "leave" =>
                 \A c \in Companies!Live : prime[c].holder = w.on => prime[c].status = "cancelled"
           /\ w.at = "leave" => \A d \in Companies!Binding : w.on \notin deal[d].parties
           /\ w.for = "award" /\ w.seen # {} => w.on \in participants
           /\ w.for = "move" => prime[w.on].status # "cancelled"
           /\ w.at = "deal" => w.to.parties \subseteq participants
           /\ w.for = "moveDeal" => deal[w.on].status \notin {"closed", "cancelled"}

CallsTrue == \A q \in Requests : calls[q] # NoCall => StillTrue(calls[q])

Sound == PartyTypes /\ Pointer /\ Shown /\ PartiesParticipate /\ Recorded /\ OneDraft /\ CallsTrue

-----------------------------------------------------------------------------
(* Lemmas about the tables and the calls *)

(* Which statuses a contract may be moved to, and that a cancelled or      *)
(* closed one stays.                                                       *)
LEMMA Moves ==
    /\ \A s \in PrimeStatuses : \A to \in Companies!PrimeMoves[s] :
           to \in PrimeStatuses /\ s # "cancelled"
    /\ \A s \in DealStatuses : \A to \in Companies!DealMoves[s] :
           to \in DealStatuses /\ s \notin {"closed", "cancelled"}
    /\ DOMAIN Companies!PrimeMoves = PrimeStatuses
    /\ DOMAIN Companies!DealMoves = DealStatuses
<1>1. \A s \in PrimeStatuses : \A to \in Companies!PrimeMoves[s] :
           to \in PrimeStatuses /\ s # "cancelled"
  BY DEF Companies!PrimeMoves, PrimeStatuses
<1>2. \A s \in DealStatuses : \A to \in Companies!DealMoves[s] :
           to \in DealStatuses /\ s \notin {"closed", "cancelled"}
  BY DEF Companies!DealMoves, DealStatuses
<1>3. QED
  BY <1>1, <1>2 DEF Companies!PrimeMoves, PrimeStatuses, Companies!DealMoves, DealStatuses

(* Which kind of call is at a stage.                                       *)
LEMMA Kinds ==
    ASSUME NEW w \in CompanyCalls
    PROVE  /\ w.for = "join" \/ w.at = "join" => w \in Joining
           /\ w.for = "leave" \/ w.at \in {"deals", "leave"} => w \in Leaving
           /\ w.for = "award" \/ w.at = "award" => w \in Awarding
           /\ w.for = "update" \/ w.at = "update" => w \in Updating
           /\ w.for = "move" \/ w.at = "move" => w \in Moving
           /\ w.for = "erase" \/ w.at = "erase" => w \in Erasing
           /\ w.for = "deal" \/ w.at \in {"parties", "deal"} => w \in Dealing
           /\ w.for = "moveDeal" \/ w.at = "moveDeal" => w \in MovingDeal
           /\ w.for = "eraseDeal" \/ w.at = "eraseDeal" => w \in ErasingDeal
BY DEF CompanyCalls, Joining, Leaving, Awarding, Updating, Moving, Erasing, Dealing, MovingDeal,
       ErasingDeal

(* When the order of two calls matters.                                    *)
LEMMA WhenConflict ==
    ASSUME NEW x, NEW y, Companies!Conflicts(x, y) \subseteq races
    PROVE  /\ "values" \notin races => ~(x.for = "update" /\ y.for = "update")
           /\ "parties" \notin races =>
                 /\ ~(x.for = y.for /\ x.for \in {"move", "moveDeal"})
                 /\ x.for = "leave" /\ y.for = "award" => y.on # x.on
                 /\ y.for = "leave" /\ x.for = "award" => y.on # x.on
                 /\ x.for = "leave" /\ y.for = "deal" => x.on \notin y.to.parties
                 /\ y.for = "leave" /\ x.for = "deal" => y.on \notin x.to.parties
BY DEF Companies!Conflicts, Companies!Takes

(* The order of two calls matters both ways.                               *)
LEMMA ConflictBothWays ==
    ASSUME NEW x, NEW y
    PROVE  Companies!Conflicts(x, y) = Companies!Conflicts(y, x)
<1>1. Companies!Takes(x, y) \/ Companies!Takes(y, x)
          <=> Companies!Takes(y, x) \/ Companies!Takes(x, y)
  OBVIOUS
<1>2. /\ x.for = "update" /\ y.for = "update" <=> y.for = "update" /\ x.for = "update"
      /\ x.for = y.for /\ x.for \in {"move", "moveDeal"}
            <=> y.for = x.for /\ y.for \in {"move", "moveDeal"}
  OBVIOUS
<1>3. QED
  BY <1>1, <1>2 DEF Companies!Conflicts

-----------------------------------------------------------------------------
(* A call begins *)

(* A call that begins with what is true keeps the invariant: what conflicts*)
(* with it is recorded.                                                    *)
LEMMA BeginsSound ==
    ASSUME Sound, NEW q \in Requests, NEW w \in CompanyCalls, StillTrue(w),
           calls[q] = NoCall, calls' = [calls EXCEPT ![q] = w],
           races' = races \cup UNION {Companies!Conflicts(w, calls[p]) :
                                        p \in {p \in Requests : calls[p] # NoCall}},
           w.for = "deal" => \A p \in Requests : calls[p] # NoCall => calls[p].on # w.on,
           Companies!Stays
    PROVE  Sound'
<1>1. /\ entity' = entity /\ project' = project /\ participants' = participants
      /\ prime' = prime /\ deal' = deal /\ byHand' = byHand
  BY DEF Companies!Stays
<1>2. /\ calls \in [Requests -> CompanyCalls \cup {NoCall}] /\ calls'[q] = w
      /\ \A p \in Requests \ {q} : calls'[p] = calls[p]
  BY DEF Sound, PartyTypes
<1>3. races \subseteq races'
  OBVIOUS
<1>4. \A p \in Requests \ {q} : calls[p] # NoCall =>
          Companies!Conflicts(w, calls[p]) \subseteq races'
  OBVIOUS
<1>5. races' \subseteq {"values", "parties"}
  <2>1. \A x, y : Companies!Conflicts(x, y) \subseteq {"values", "parties"}
    BY DEF Companies!Conflicts
  <2>2. UNION {Companies!Conflicts(w, calls[p]) : p \in {p \in Requests : calls[p] # NoCall}}
            \subseteq {"values", "parties"}
    BY <2>1
  <2>3. races \subseteq {"values", "parties"}
    BY DEF Sound, PartyTypes
  <2>4. QED
    BY <2>2, <2>3
<1>6. PartyTypes'
  BY <1>1, <1>2, <1>5 DEF Sound, PartyTypes
<1>7. Pointer' /\ Shown'
  BY <1>1, <1>3 DEF Sound, Pointer, Shown, Companies!Live, Companies!Gone
<1>8. PartiesParticipate'
  BY <1>1, <1>3 DEF Sound, PartiesParticipate, Companies!PartiesParticipate, Companies!Live,
     Companies!Gone, Companies!Binding
<1>9. Recorded'
  <2>1. SUFFICES ASSUME NEW p \in Requests, NEW r \in Requests, p # r,
                        calls'[p] # NoCall, calls'[r] # NoCall
                 PROVE  Companies!Conflicts(calls'[p], calls'[r]) \subseteq races'
    BY DEF Recorded, Companies!Conflicts, Companies!Takes
  <2>2. CASE p = q
    BY <1>2, <1>4, <2>1, <2>2
  <2>3. CASE r = q
    BY <1>2, <1>4, <2>1, <2>3, ConflictBothWays
  <2>4. CASE p # q /\ r # q
    BY <1>2, <1>3, <2>1, <2>4 DEF Sound, Recorded
  <2>5. QED
    BY <2>2, <2>3, <2>4
<1>10. OneDraft'
  BY <1>2 DEF Sound, OneDraft
<1>11. ASSUME NEW v \in CompanyCalls, StillTrue(v) PROVE StillTrue(v)'
  BY <1>1, <1>3, <1>11 DEF StillTrue, Companies!Live, Companies!Gone, Companies!Binding
<1>12. CallsTrue'
  <2>1. SUFFICES ASSUME NEW p \in Requests, calls'[p] # NoCall PROVE StillTrue(calls[p])'
    BY DEF CallsTrue
  <2>2. PICK v \in CompanyCalls : v = calls'[p]
    BY <1>2, <2>1
  <2>3. StillTrue(v)
    BY <1>2, <2>1, <2>2 DEF Sound, CallsTrue
  <2>4. StillTrue(v)'
    BY <1>11, <2>3
  <2>5. QED
    BY <2>2, <2>4 DEF StillTrue, Companies!Live, Companies!Binding
<1>13. QED
  BY <1>6, <1>7, <1>8, <1>9, <1>10, <1>12 DEF Sound


(* A call that joins has nothing to lose.                                  *)
LEMMA AskJoinSound ==
    ASSUME Sound, NEW q \in Requests, NEW e \in Entities,
           Companies!AskJoin(q, e)
    PROVE  Sound'
<1>. DEFINE w == [for |-> "join", at |-> "join", on |-> e, to |-> "none", seen |-> {}]
<1>1. w \in CompanyCalls
  BY DEF CompanyCalls, Joining
<1>2. StillTrue(w)
  BY DEF StillTrue
<1>3. /\ calls[q] = NoCall /\ calls' = [calls EXCEPT ![q] = w]
      /\ races' = races \cup UNION {Companies!Conflicts(w, calls[p]) :
                                   p \in {p \in Requests : calls[p] # NoCall}}
      /\ Companies!Stays
  BY DEF Companies!AskJoin, Companies!Begin
<1>4. w.for = "deal" => \A p \in Requests : calls[p] # NoCall => calls[p].on # w.on
  BY DEF Companies!AskJoin
<1>. HIDE DEF w
<1>5. QED
  BY <1>1, <1>2, <1>3, <1>4, BeginsSound

(* A participant who leaves holds no contract but a cancelled one.         *)
LEMMA AskLeaveSound ==
    ASSUME Sound, NEW q \in Requests, NEW e \in Entities,
           Companies!AskLeave(q, e)
    PROVE  Sound'
<1>. DEFINE w == [for |-> "leave", at |-> "deals", on |-> e, to |-> "none", seen |-> {}]
<1>1. w \in CompanyCalls
  BY DEF CompanyCalls, Leaving
<1>2. StillTrue(w)
  BY DEF StillTrue, Companies!AskLeave
<1>3. /\ calls[q] = NoCall /\ calls' = [calls EXCEPT ![q] = w]
      /\ races' = races \cup UNION {Companies!Conflicts(w, calls[p]) :
                                   p \in {p \in Requests : calls[p] # NoCall}}
      /\ Companies!Stays
  BY DEF Companies!AskLeave, Companies!Begin
<1>4. w.for = "deal" => \A p \in Requests : calls[p] # NoCall => calls[p].on # w.on
  BY DEF Companies!AskLeave
<1>. HIDE DEF w
<1>5. QED
  BY <1>1, <1>2, <1>3, <1>4, BeginsSound

(* A contract is made with the participation of its holder in sight.       *)
LEMMA AskAwardSound ==
    ASSUME Sound, NEW q \in Requests, NEW e \in Entities, NEW status \in PrimeStatuses,
           NEW v \in Values,
           Companies!AskAward(q, e, status, v)
    PROVE  Sound'
<1>. DEFINE w == [for |-> "award", at |-> "award", on |-> e,
                 to |-> [status |-> status, holder |-> e, value |-> v],
                 seen |-> participants \cap {e}]
<1>1. w \in CompanyCalls
  BY DEF CompanyCalls, Awarding, Contract
<1>2. StillTrue(w)
  BY DEF StillTrue
<1>3. /\ calls[q] = NoCall /\ calls' = [calls EXCEPT ![q] = w]
      /\ races' = races \cup UNION {Companies!Conflicts(w, calls[p]) :
                                   p \in {p \in Requests : calls[p] # NoCall}}
      /\ Companies!Stays
  BY DEF Companies!AskAward, Companies!Begin
<1>4. w.for = "deal" => \A p \in Requests : calls[p] # NoCall => calls[p].on # w.on
  BY DEF Companies!AskAward
<1>. HIDE DEF w
<1>5. QED
  BY <1>1, <1>2, <1>3, <1>4, BeginsSound

(* The value that an update has read is that of the contract.              *)
LEMMA AskUpdateSound ==
    ASSUME Sound, NEW q \in Requests, NEW c \in Contracts, NEW v \in Values,
           Companies!AskUpdate(q, c, v)
    PROVE  Sound'
<1>. DEFINE w == [for |-> "update", at |-> "update", on |-> c, to |-> v, seen |-> prime[c].value]
<1>1. w \in CompanyCalls
  BY DEF CompanyCalls, Updating, Sound, PartyTypes
<1>2. StillTrue(w)
  BY DEF StillTrue, Companies!AskUpdate, Companies!Live, Companies!Gone
<1>3. /\ calls[q] = NoCall /\ calls' = [calls EXCEPT ![q] = w]
      /\ races' = races \cup UNION {Companies!Conflicts(w, calls[p]) :
                                   p \in {p \in Requests : calls[p] # NoCall}}
      /\ Companies!Stays
  BY DEF Companies!AskUpdate, Companies!Begin
<1>4. w.for = "deal" => \A p \in Requests : calls[p] # NoCall => calls[p].on # w.on
  BY DEF Companies!AskUpdate
<1>. HIDE DEF w
<1>5. QED
  BY <1>1, <1>2, <1>3, <1>4, BeginsSound

(* No transition leaves a cancelled contract.                              *)
LEMMA AskMoveSound ==
    ASSUME Sound, NEW q \in Requests, NEW c \in Contracts, NEW to,
           Companies!AskMove(q, c, to)
    PROVE  Sound'
<1>. DEFINE w == [for |-> "move", at |-> "move", on |-> c, to |-> to, seen |-> {}]
<1>0. prime[c].status \in PrimeStatuses /\ to \in PrimeStatuses /\ prime[c].status # "cancelled"
  BY Moves DEF Companies!AskMove, Companies!Live, Companies!Gone, Sound, PartyTypes, Absence
<1>1. w \in CompanyCalls
  BY <1>0 DEF CompanyCalls, Moving
<1>2. StillTrue(w)
  BY <1>0 DEF StillTrue, Companies!AskMove, Companies!Live, Companies!Gone
<1>3. /\ calls[q] = NoCall /\ calls' = [calls EXCEPT ![q] = w]
      /\ races' = races \cup UNION {Companies!Conflicts(w, calls[p]) :
                                   p \in {p \in Requests : calls[p] # NoCall}}
      /\ Companies!Stays
  BY DEF Companies!AskMove, Companies!Begin
<1>4. w.for = "deal" => \A p \in Requests : calls[p] # NoCall => calls[p].on # w.on
  BY DEF Companies!AskMove
<1>. HIDE DEF w
<1>5. QED
  BY <1>1, <1>2, <1>3, <1>4, BeginsSound

(* Only a contract that exists is deleted.                                 *)
LEMMA AskEraseSound ==
    ASSUME Sound, NEW q \in Requests, NEW c \in Contracts,
           Companies!AskErase(q, c)
    PROVE  Sound'
<1>. DEFINE w == [for |-> "erase", at |-> "erase", on |-> c, to |-> "none", seen |-> {}]
<1>1. w \in CompanyCalls
  BY DEF CompanyCalls, Erasing
<1>2. StillTrue(w)
  BY DEF StillTrue, Companies!AskErase, Companies!Live, Companies!Gone
<1>3. /\ calls[q] = NoCall /\ calls' = [calls EXCEPT ![q] = w]
      /\ races' = races \cup UNION {Companies!Conflicts(w, calls[p]) :
                                   p \in {p \in Requests : calls[p] # NoCall}}
      /\ Companies!Stays
  BY DEF Companies!AskErase, Companies!Begin
<1>4. w.for = "deal" => \A p \in Requests : calls[p] # NoCall => calls[p].on # w.on
  BY DEF Companies!AskErase
<1>. HIDE DEF w
<1>5. QED
  BY <1>1, <1>2, <1>3, <1>4, BeginsSound

(* A deal is new.                                                          *)
LEMMA AskDealSound ==
    ASSUME Sound, NEW q \in Requests, NEW d \in Deals, NEW parties \in SUBSET Entities,
           NEW status \in DealStatuses,
           Companies!AskDeal(q, d, parties, status)
    PROVE  Sound'
<1>. DEFINE w == [for |-> "deal", at |-> "parties", on |-> d,
                 to |-> [status |-> status, parties |-> parties], seen |-> {}]
<1>1. w \in CompanyCalls
  BY DEF CompanyCalls, Dealing, Agreement
<1>2. StillTrue(w)
  BY DEF StillTrue, Companies!AskDeal
<1>3. /\ calls[q] = NoCall /\ calls' = [calls EXCEPT ![q] = w]
      /\ races' = races \cup UNION {Companies!Conflicts(w, calls[p]) :
                                   p \in {p \in Requests : calls[p] # NoCall}}
      /\ Companies!Stays
  BY DEF Companies!AskDeal, Companies!Begin
<1>4. w.for = "deal" => \A p \in Requests : calls[p] # NoCall => calls[p].on # w.on
  BY DEF Companies!AskDeal
<1>. HIDE DEF w
<1>5. QED
  BY <1>1, <1>2, <1>3, <1>4, BeginsSound

(* No transition leaves a closed or cancelled deal.                        *)
LEMMA AskMoveDealSound ==
    ASSUME Sound, NEW q \in Requests, NEW d \in Deals, NEW to,
           Companies!AskMoveDeal(q, d, to)
    PROVE  Sound'
<1>. DEFINE w == [for |-> "moveDeal", at |-> "moveDeal", on |-> d, to |-> to, seen |-> {}]
<1>0. to \in DealStatuses /\ deal[d].status \notin {"closed", "cancelled"}
  BY Moves DEF Companies!AskMoveDeal, Companies!Gone, Sound, PartyTypes, Absence
<1>1. w \in CompanyCalls
  BY <1>0 DEF CompanyCalls, MovingDeal
<1>2. StillTrue(w)
  BY <1>0 DEF StillTrue, Companies!AskMoveDeal, Companies!Gone
<1>3. /\ calls[q] = NoCall /\ calls' = [calls EXCEPT ![q] = w]
      /\ races' = races \cup UNION {Companies!Conflicts(w, calls[p]) :
                                   p \in {p \in Requests : calls[p] # NoCall}}
      /\ Companies!Stays
  BY DEF Companies!AskMoveDeal, Companies!Begin
<1>4. w.for = "deal" => \A p \in Requests : calls[p] # NoCall => calls[p].on # w.on
  BY DEF Companies!AskMoveDeal
<1>. HIDE DEF w
<1>5. QED
  BY <1>1, <1>2, <1>3, <1>4, BeginsSound

(* Only a deal that exists is deleted.                                     *)
LEMMA AskEraseDealSound ==
    ASSUME Sound, NEW q \in Requests, NEW d \in Deals,
           Companies!AskEraseDeal(q, d)
    PROVE  Sound'
<1>. DEFINE w == [for |-> "eraseDeal", at |-> "eraseDeal", on |-> d, to |-> "none", seen |-> {}]
<1>1. w \in CompanyCalls
  BY DEF CompanyCalls, ErasingDeal
<1>2. StillTrue(w)
  BY DEF StillTrue, Companies!AskEraseDeal, Companies!Deletable
<1>3. /\ calls[q] = NoCall /\ calls' = [calls EXCEPT ![q] = w]
      /\ races' = races \cup UNION {Companies!Conflicts(w, calls[p]) :
                                   p \in {p \in Requests : calls[p] # NoCall}}
      /\ Companies!Stays
  BY DEF Companies!AskEraseDeal, Companies!Begin
<1>4. w.for = "deal" => \A p \in Requests : calls[p] # NoCall => calls[p].on # w.on
  BY DEF Companies!AskEraseDeal
<1>. HIDE DEF w
<1>5. QED
  BY <1>1, <1>2, <1>3, <1>4, BeginsSound

(* Whatever is asked for, the call begins with what is true.               *)
LEMMA AskKeepsSound ==
    ASSUME Sound, NEW q \in Requests, Companies!AskAny(q)
    PROVE  Sound'
<1>1. ASSUME NEW c \in Companies!Live PROVE c \in Contracts
  BY DEF Companies!Live
<1>2. QED
  BY <1>1, Moves, AskJoinSound, AskLeaveSound, AskAwardSound, AskUpdateSound, AskMoveSound,
     AskEraseSound, AskDealSound, AskMoveDealSound, AskEraseDealSound DEF Companies!AskAny


-----------------------------------------------------------------------------
(* A call writes *)

(* A step of a call keeps the invariant when the rows it leaves are right  *)
(* and what every call that does not conflict with it has checked still    *)
(* holds.                                                                  *)
LEMMA ServesSound ==
    ASSUME Sound, NEW q \in Requests, calls[q] # NoCall, NEW v \in CompanyCalls \cup {NoCall},
           calls' = [calls EXCEPT ![q] = v], races' = races,
           v # NoCall => /\ v.for = calls[q].for /\ v.on = calls[q].on /\ v.to = calls[q].to
                         /\ StillTrue(v)',
           PartyTypes', Pointer', Shown', PartiesParticipate',
           \A w \in CompanyCalls :
               /\ StillTrue(w) /\ Companies!Conflicts(calls[q], w) \subseteq races
               /\ w.for = "deal" /\ calls[q].for = "deal" => w.on # calls[q].on
               => StillTrue(w)'
    PROVE  Sound'
<1>1. /\ calls \in [Requests -> CompanyCalls \cup {NoCall}] /\ calls'[q] = v
      /\ \A p \in Requests \ {q} : calls'[p] = calls[p]
  BY DEF Sound, PartyTypes
<1>2. v # NoCall => \A w : Companies!Conflicts(v, w) = Companies!Conflicts(calls[q], w)
  BY DEF Companies!Conflicts, Companies!Takes
<1>3. \A p \in Requests \ {q} : calls[p] # NoCall =>
          Companies!Conflicts(calls[q], calls[p]) \subseteq races
  BY DEF Sound, Recorded
<1>4. Recorded'
  <2>1. SUFFICES ASSUME NEW p \in Requests, NEW r \in Requests, p # r,
                        calls'[p] # NoCall, calls'[r] # NoCall
                 PROVE  Companies!Conflicts(calls'[p], calls'[r]) \subseteq races
    BY DEF Recorded, Companies!Conflicts, Companies!Takes
  <2>2. CASE p = q
    BY <1>1, <1>2, <1>3, <2>1, <2>2
  <2>3. CASE r = q
    BY <1>1, <1>2, <1>3, <2>1, <2>3, ConflictBothWays
  <2>4. CASE p # q /\ r # q
    BY <1>1, <2>1, <2>4 DEF Sound, Recorded
  <2>5. QED
    BY <2>2, <2>3, <2>4
<1>5. OneDraft'
  BY <1>1 DEF Sound, OneDraft
<1>6. CallsTrue'
  <2>1. SUFFICES ASSUME NEW p \in Requests, calls'[p] # NoCall PROVE StillTrue(calls[p])'
    BY DEF CallsTrue
  <2>2. PICK w \in CompanyCalls : w = calls'[p]
    BY <1>1, <2>1
  <2>3. StillTrue(w)'
    <3>1. CASE p = q
      BY <1>1, <2>1, <2>2, <3>1
    <3>2. CASE p # q
      <4>1. calls[p] = w /\ StillTrue(w)
        BY <1>1, <2>1, <2>2, <3>2 DEF Sound, CallsTrue
      <4>2. w.for = "deal" /\ calls[q].for = "deal" => w.on # calls[q].on
        BY <2>1, <2>2, <3>2, <4>1 DEF Sound, OneDraft
      <4>3. QED
        BY <1>3, <2>1, <2>2, <3>2, <4>1, <4>2
    <3>3. QED
      BY <3>1, <3>2
  <2>4. QED
    BY <2>2, <2>3 DEF StillTrue, Companies!Live, Companies!Binding
<1>7. QED
  BY <1>4, <1>5, <1>6 DEF Sound

(* The call that moves, and what the invariant says of it.                 *)
LEMMA TheMoving ==
    ASSUME Sound, NEW q \in Requests, calls[q] # NoCall
    PROVE  calls[q] \in CompanyCalls /\ StillTrue(calls[q])
BY DEF Sound, PartyTypes, CallsTrue

(* A participant more harms nobody.                                        *)
LEMMA JoinKeepsSound ==
    ASSUME Sound, NEW q \in Requests, Companies!Join(q)
    PROVE  Sound'
<1>1. calls[q] # NoCall /\ calls[q] \in Joining
  BY TheMoving, Kinds DEF Companies!Join, Companies!At
<1>2. /\ calls' = [calls EXCEPT ![q] = NoCall]
      /\ participants' = participants \cup {calls[q].on} /\ calls[q].on \in Entities
      /\ entity' = entity /\ project' = project /\ prime' = prime /\ deal' = deal
      /\ races' = races /\ byHand' = byHand
  BY <1>1 DEF Companies!Join, Companies!Done, Joining
<1>3. PartyTypes'
  BY <1>2 DEF Sound, PartyTypes
<1>4. Pointer' /\ Shown'
  BY <1>2 DEF Sound, Pointer, Shown, Companies!Live, Companies!Gone
<1>5. PartiesParticipate'
  BY <1>2 DEF Sound, PartiesParticipate, Companies!PartiesParticipate, Companies!Live,
     Companies!Gone, Companies!Binding
<1>6. \A w \in CompanyCalls : StillTrue(w) => StillTrue(w)'
  BY <1>2 DEF StillTrue, Companies!Live, Companies!Gone, Companies!Binding
<1>7. QED
  BY <1>1, <1>2, <1>3, <1>4, <1>5, <1>6, ServesSound

(* A call that goes on reading changes no row.                             *)
LEMMA CheckKeepsSound ==
    ASSUME Sound, NEW q \in Requests, Companies!CheckDeals(q) \/ Companies!CheckParties(q)
    PROVE  Sound'
<1>1. calls[q] # NoCall /\ calls[q].at \in {"deals", "parties"} /\ calls[q] \in CompanyCalls
      /\ StillTrue(calls[q])
  BY TheMoving DEF Companies!CheckDeals, Companies!CheckParties, Companies!At
<1>2. /\ entity' = entity /\ project' = project /\ prime' = prime /\ deal' = deal
      /\ participants' = participants /\ races' = races /\ byHand' = byHand
  BY DEF Companies!CheckDeals, Companies!CheckParties, Companies!Stays
<1>3. \A w : StillTrue(w) => StillTrue(w)'
  BY <1>2 DEF StillTrue, Companies!Live, Companies!Gone, Companies!Binding
<1>4. PICK v \in CompanyCalls \cup {NoCall} :
          /\ calls' = [calls EXCEPT ![q] = v]
          /\ v # NoCall => /\ v.for = calls[q].for /\ v.on = calls[q].on /\ v.to = calls[q].to
                           /\ StillTrue(v)
  <2>1. CASE Companies!Done(q)
    BY <2>1 DEF Companies!Done
  <2>2. CASE /\ Companies!CheckDeals(q)
             /\ ~\E d \in Companies!Binding : calls[q].on \in deal[d].parties
             /\ calls' = [calls EXCEPT ![q].at = "leave"]
    <3>. DEFINE w == [calls[q] EXCEPT !.at = "leave"]
    <3>1. calls[q] \in Leaving
      BY <1>1, <2>2, Kinds DEF Companies!CheckDeals, Companies!At
    <3>2. w \in Leaving
      BY <3>1 DEF Leaving
    <3>3. w.for = "leave" /\ w.at = "leave" /\ w.on = calls[q].on /\ w.to = calls[q].to
          /\ calls[q].for = "leave"
      BY <3>1 DEF Leaving
    <3>4. calls' = [calls EXCEPT ![q] = w]
      BY <2>2 DEF Sound, PartyTypes
    <3>. HIDE DEF w
    <3>5. StillTrue(w)
      BY <1>1, <2>2, <3>3 DEF StillTrue
    <3>6. QED
      BY <3>2, <3>3, <3>4, <3>5 DEF CompanyCalls
  <2>3. CASE /\ Companies!CheckParties(q)
             /\ calls[q].to.parties \subseteq participants
             /\ calls' = [calls EXCEPT ![q].at = "deal"]
    <3>. DEFINE w == [calls[q] EXCEPT !.at = "deal"]
    <3>1. calls[q] \in Dealing
      BY <1>1, <2>3, Kinds DEF Companies!CheckParties, Companies!At
    <3>2. w \in Dealing
      BY <3>1 DEF Dealing
    <3>3. w.for = "deal" /\ w.at = "deal" /\ w.on = calls[q].on /\ w.to = calls[q].to
          /\ calls[q].for = "deal"
      BY <3>1 DEF Dealing
    <3>4. calls' = [calls EXCEPT ![q] = w]
      BY <2>3 DEF Sound, PartyTypes
    <3>. HIDE DEF w
    <3>5. StillTrue(w)
      BY <1>1, <2>3, <3>3 DEF StillTrue
    <3>6. QED
      BY <3>2, <3>3, <3>4, <3>5 DEF CompanyCalls
  <2>4. QED
    BY <2>1, <2>2, <2>3 DEF Companies!CheckDeals, Companies!CheckParties
<1>5. PartyTypes'
  BY <1>2, <1>4 DEF Sound, PartyTypes
<1>6. Pointer' /\ Shown'
  BY <1>2 DEF Sound, Pointer, Shown, Companies!Live, Companies!Gone
<1>7. PartiesParticipate'
  BY <1>2 DEF Sound, PartiesParticipate, Companies!PartiesParticipate, Companies!Live,
     Companies!Gone, Companies!Binding
<1>8. QED
  BY <1>1, <1>2, <1>3, <1>4, <1>5, <1>6, <1>7, ServesSound

(* Who leaves holds no contract and no deal, and nobody who does not       *)
(* conflict counts on them.                                                *)
LEMMA LeaveKeepsSound ==
    ASSUME Sound, NEW q \in Requests, Companies!Leave(q)
    PROVE  Sound'
<1>1. calls[q] # NoCall /\ calls[q].at = "leave" /\ calls[q] \in Leaving /\ StillTrue(calls[q])
  BY TheMoving, Kinds DEF Companies!Leave, Companies!At
<1>2. PICK e \in Entities : e = calls[q].on
  BY <1>1 DEF Leaving
<1>3. /\ calls' = [calls EXCEPT ![q] = NoCall] /\ participants' = participants \ {e}
      /\ entity' = entity /\ project' = project /\ prime' = prime /\ deal' = deal
      /\ races' = races /\ byHand' = byHand
  BY <1>2 DEF Companies!Leave, Companies!Done
<1>4. PartyTypes'
  BY <1>3 DEF Sound, PartyTypes
<1>5. Pointer' /\ Shown'
  BY <1>3 DEF Sound, Pointer, Shown, Companies!Live, Companies!Gone
<1>6. "parties" \notin races =>
          /\ \A c \in Companies!Live : prime[c].holder = e => prime[c].status = "cancelled"
          /\ \A d \in Companies!Binding : e \notin deal[d].parties
  BY <1>1, <1>2 DEF StillTrue, Leaving
<1>7. Companies!Live' = Companies!Live /\ Companies!Binding' = Companies!Binding
  BY <1>3 DEF Companies!Live, Companies!Gone, Companies!Binding
<1>8. PartiesParticipate'
  BY <1>3, <1>6, <1>7 DEF Sound, PartiesParticipate, Companies!PartiesParticipate
<1>9. ASSUME NEW w \in CompanyCalls, StillTrue(w),
             Companies!Conflicts(calls[q], w) \subseteq races
      PROVE  StillTrue(w)'
  <2>1. "parties" \notin races =>
            /\ w.for = "award" => w.on # e
            /\ w.for = "deal" => e \notin w.to.parties
    BY <1>1, <1>2, <1>9, WhenConflict DEF Leaving
  <2>2. w.at = "deal" => w.for = "deal"
    BY Kinds DEF Dealing
  <2>3. QED
    BY <1>3, <1>7, <1>9, <2>1, <2>2 DEF StillTrue
<1>10. QED
  BY <1>1, <1>3, <1>4, <1>5, <1>8, <1>9, ServesSound

(* A contract is made where there is none, and its holder takes part.      *)
LEMMA AwardKeepsSound ==
    ASSUME Sound, NEW q \in Requests, Companies!Award(q)
    PROVE  Sound'
<1>1. calls[q] # NoCall /\ calls[q] \in Awarding /\ StillTrue(calls[q])
  BY TheMoving, Kinds DEF Companies!Award, Companies!At
<1>2. PICK w0 \in Awarding : w0 = calls[q]
  BY <1>1
<1>3. /\ w0.on \in Entities /\ w0.for = "award" /\ w0.to \in Contract
      /\ w0.to.status \in PrimeStatuses /\ w0.to.holder \in Entities /\ w0.to.value \in Values
  BY DEF Awarding, Contract
<1>4. /\ calls' = [calls EXCEPT ![q] = NoCall]
      /\ entity' = entity /\ deal' = deal /\ races' = races
  BY DEF Companies!Award, Companies!Done
<1>5. CASE UNCHANGED <<prime, project, participants, byHand>>
  <2>1. PartyTypes'
    BY <1>4, <1>5 DEF Sound, PartyTypes
  <2>2. Pointer' /\ Shown'
    BY <1>4, <1>5 DEF Sound, Pointer, Shown, Companies!Live, Companies!Gone
  <2>3. PartiesParticipate'
    BY <1>4, <1>5 DEF Sound, PartiesParticipate, Companies!PartiesParticipate, Companies!Live,
       Companies!Gone, Companies!Binding
  <2>4. \A w \in CompanyCalls : StillTrue(w) => StillTrue(w)'
    BY <1>4, <1>5 DEF StillTrue, Companies!Live, Companies!Gone, Companies!Binding
  <2>5. QED
    BY <1>1, <1>4, <2>1, <2>2, <2>3, <2>4, ServesSound
<1>6. CASE TRUE \in Companies!Succeeds(w0) /\ \E c \in Contracts :
              /\ Companies!Fresh(c)
              /\ prime' = [prime EXCEPT ![c] = w0.to]
              /\ project' = [project EXCEPT !.contract = c, !.value = w0.to.value]
              /\ participants' = IF w0.seen = {} THEN participants \cup {w0.on}
                                 ELSE participants
              /\ byHand' = FALSE
  <2>1. PICK c \in Contracts :
              /\ Companies!Fresh(c)
              /\ prime' = [prime EXCEPT ![c] = w0.to]
              /\ project' = [project EXCEPT !.contract = c, !.value = w0.to.value]
              /\ participants' = IF w0.seen = {} THEN participants \cup {w0.on}
                                 ELSE participants
              /\ byHand' = FALSE
    BY <1>6
  <2>2. Companies!Live = {}
    BY <1>6 DEF Companies!Succeeds
  <2>3. prime[c].status = "absent"
    BY <2>1 DEF Companies!Fresh
  <2>4. /\ prime'[c] = w0.to /\ \A d \in Contracts \ {c} : prime'[d] = prime[d]
        /\ project'.contract = c /\ project'.value = w0.to.value
        /\ project'.owner = project.owner
    BY <2>1 DEF Sound, PartyTypes
  <2>5. Companies!Live' = {c}
    BY <1>3, <2>2, <2>4 DEF Companies!Live, Companies!Gone, PrimeStatuses
  <2>6. PartyTypes'
    <3>1. prime' \in [Contracts -> [status : PrimeStatuses \cup Absence,
                                    holder : Entities \cup {NoContract},
                                    value : Values \cup {NoValue}]]
      BY <1>3, <2>1 DEF Sound, PartyTypes, Contract
    <3>2. project' \in [owner : Entities, contract : Contracts \cup {NoContract},
                        value : Values \cup {NoValue}]
      BY <1>3, <2>1 DEF Sound, PartyTypes
    <3>3. participants' \subseteq Entities
      BY <1>3, <2>1 DEF Sound, PartyTypes
    <3>4. QED
      BY <1>4, <2>1, <3>1, <3>2, <3>3 DEF Sound, PartyTypes
  <2>7. Pointer' /\ Shown'
    BY <2>4, <2>5 DEF Pointer, Shown
  <2>8. participants \subseteq participants'
        /\ ("parties" \notin races => w0.on \in participants')
    BY <1>1, <1>2, <1>3, <2>1 DEF StillTrue
  <2>9. ASSUME "parties" \notin races PROVE w0.to.holder \in participants'
    <3>1. w0.to.holder = w0.on
      BY <1>1, <1>2, <1>3 DEF StillTrue
    <3>2. QED
      BY <2>8, <2>9, <3>1
  <2>10. Companies!Binding' = Companies!Binding
    BY <1>4 DEF Companies!Binding
  <2>11. PartiesParticipate'
    BY <1>4, <2>4, <2>5, <2>8, <2>9, <2>10 DEF Sound, PartiesParticipate,
       Companies!PartiesParticipate
  <2>12. ASSUME NEW w \in CompanyCalls, StillTrue(w),
                Companies!Conflicts(calls[q], w) \subseteq races
         PROVE  StillTrue(w)'
    <3>1. w.for \in {"update", "move", "erase"} =>
              w.on \in Contracts /\ w.on # c /\ prime'[w.on] = prime[w.on]
                  /\ w.on \notin Companies!Live'
      BY <2>3, <2>4, <2>5, <2>12, Kinds DEF StillTrue, Updating, Moving, Erasing
    <3>2. "parties" \notin races /\ w.for = "leave" => w0.to.holder # w.on
      <4>1. w0.to.holder = w0.on
        BY <1>1, <1>2, <1>3 DEF StillTrue
      <4>2. QED
        BY <1>2, <1>3, <2>12, <4>1, WhenConflict
    <3>3. QED
      BY <1>4, <2>4, <2>5, <2>8, <2>10, <2>12, <3>1, <3>2 DEF StillTrue
  <2>13. QED
    BY <1>1, <1>4, <2>6, <2>7, <2>11, <2>12, ServesSound
<1>7. QED
  BY <1>2, <1>5, <1>6 DEF Companies!Award


(* The value of the contract and that of the project row change together.  *)
LEMMA UpdateKeepsSound ==
    ASSUME Sound, NEW q \in Requests, Companies!Update(q)
    PROVE  Sound'
<1>1. calls[q] # NoCall /\ calls[q] \in Updating /\ StillTrue(calls[q])
  BY TheMoving, Kinds DEF Companies!Update, Companies!At
<1>2. PICK c \in Contracts, v \in Values, seen \in {calls[q].seen} :
          c = calls[q].on /\ v = calls[q].to /\ seen = calls[q].seen
  BY <1>1 DEF Updating
<1>3. /\ calls' = [calls EXCEPT ![q] = NoCall]
      /\ entity' = entity /\ deal' = deal /\ races' = races /\ participants' = participants
  BY DEF Companies!Update, Companies!Done
<1>4. /\ prime' \in [Contracts -> [status : PrimeStatuses \cup Absence,
                                   holder : Entities \cup {NoContract},
                                   value : Values \cup {NoValue}]]
      /\ \A d \in Contracts : /\ prime'[d].status = prime[d].status
                              /\ prime'[d].holder = prime[d].holder
      /\ \A d \in Contracts \ {c} : prime'[d] = prime[d]
      /\ c \in Companies!Live => prime'[c].value = v
      /\ c \notin Companies!Live => prime' = prime
  <2>1. prime \in [Contracts -> [status : PrimeStatuses \cup Absence,
                                 holder : Entities \cup {NoContract},
                                 value : Values \cup {NoValue}]]
    BY DEF Sound, PartyTypes
  <2>2. CASE c \in Companies!Live
    <3>1. prime' = [prime EXCEPT ![c].value = v]
      BY <1>2, <2>2 DEF Companies!Update
    <3>2. QED
      BY <2>1, <2>2, <3>1
  <2>3. CASE c \notin Companies!Live
    <3>1. prime' = prime
      BY <1>2, <2>3 DEF Companies!Update
    <3>2. QED
      BY <2>1, <2>3, <3>1
  <2>4. QED
    BY <2>2, <2>3
<1>5. /\ project' \in [owner : Entities, contract : Contracts \cup {NoContract},
                       value : Values \cup {NoValue}]
      /\ project'.contract = project.contract
      /\ byHand' \in BOOLEAN
      /\ \/ c \in Companies!Live /\ v # seen /\ project'.value = v
         \/ project' = project /\ byHand' = byHand /\ (c \in Companies!Live => v = seen)
  <2>1. CASE c \in Companies!Live /\ v # seen
    BY <1>2, <2>1 DEF Companies!Update, Sound, PartyTypes
  <2>2. CASE ~(c \in Companies!Live /\ v # seen)
    BY <1>2, <2>2 DEF Companies!Update, Sound, PartyTypes
  <2>3. QED
    BY <2>1, <2>2
<1>6. PartyTypes'
  BY <1>3, <1>4, <1>5 DEF Sound, PartyTypes
<1>7. Companies!Live' = Companies!Live /\ Companies!Binding' = Companies!Binding
  BY <1>3, <1>4 DEF Companies!Live, Companies!Gone, Companies!Binding
<1>8. \A d, e \in Companies!Live : d = e
  BY DEF Sound, Pointer, Companies!Live
<1>9. Companies!Live \subseteq Contracts
  BY DEF Companies!Live
<1>10. Pointer'
  BY <1>5, <1>7 DEF Sound, Pointer
<1>11. Shown'
  <2>1. SUFFICES ASSUME "values" \notin races, ~byHand', NEW d \in Companies!Live
                 PROVE  project'.value = prime'[d].value
    BY <1>3, <1>7 DEF Shown
  <2>2. CASE c \in Companies!Live /\ v # seen
    BY <1>4, <1>5, <1>8, <2>1, <2>2
  <2>3. CASE c \in Companies!Live /\ v = seen
    <3>1. seen = prime[c].value
      BY <1>1, <1>2, <2>1, <2>3 DEF StillTrue, Updating
    <3>2. project' = project /\ byHand' = byHand /\ d = c
      BY <1>5, <1>8, <2>1, <2>3
    <3>3. project.value = prime[d].value
      BY <2>1, <3>2 DEF Sound, Shown
    <3>4. QED
      BY <1>4, <2>3, <3>1, <3>2, <3>3
  <2>4. CASE c \notin Companies!Live
    BY <1>4, <1>5, <2>1, <2>4 DEF Sound, Shown
  <2>5. QED
    BY <2>2, <2>3, <2>4
<1>12. PartiesParticipate'
  BY <1>3, <1>4, <1>7, <1>9 DEF Sound, PartiesParticipate, Companies!PartiesParticipate
<1>13. ASSUME NEW w \in CompanyCalls, StillTrue(w),
              Companies!Conflicts(calls[q], w) \subseteq races
       PROVE  StillTrue(w)'
  <2>1. "values" \notin races => w.for # "update"
    BY <1>1, <1>13, WhenConflict DEF Updating
  <2>2. w.for \in {"update", "move", "erase"} => w.on \in Contracts
    BY Kinds DEF Updating, Moving, Erasing
  <2>3. QED
    BY <1>3, <1>4, <1>7, <1>9, <1>13, <2>1, <2>2 DEF StillTrue
<1>14. QED
  BY <1>1, <1>3, <1>6, <1>10, <1>11, <1>12, <1>13, ServesSound

(* A contract that is moved was not cancelled, and its holder took part.   *)
LEMMA MoveKeepsSound ==
    ASSUME Sound, NEW q \in Requests, Companies!Move(q)
    PROVE  Sound'
<1>1. calls[q] # NoCall /\ calls[q] \in Moving /\ StillTrue(calls[q])
  BY TheMoving, Kinds DEF Companies!Move, Companies!At
<1>2. PICK c \in Contracts, to \in PrimeStatuses : c = calls[q].on /\ to = calls[q].to
  BY <1>1 DEF Moving
<1>3. /\ calls' = [calls EXCEPT ![q] = NoCall]
      /\ entity' = entity /\ deal' = deal /\ races' = races /\ participants' = participants
      /\ project' = project /\ byHand' = byHand
  BY DEF Companies!Move, Companies!Done
<1>4. /\ prime' \in [Contracts -> [status : PrimeStatuses \cup Absence,
                                   holder : Entities \cup {NoContract},
                                   value : Values \cup {NoValue}]]
      /\ \A d \in Contracts : /\ prime'[d].value = prime[d].value
                              /\ prime'[d].holder = prime[d].holder
      /\ \A d \in Contracts \ {c} : prime'[d] = prime[d]
      /\ c \in Companies!Live => prime'[c].status = to
      /\ c \notin Companies!Live => prime' = prime
  BY <1>2 DEF Companies!Move, Sound, PartyTypes
<1>5. PartyTypes'
  BY <1>3, <1>4 DEF Sound, PartyTypes
<1>6. Companies!Live' = Companies!Live
  BY <1>4 DEF Companies!Live, Companies!Gone, PrimeStatuses
<1>7. Companies!Binding' = Companies!Binding /\ Companies!Live \subseteq Contracts
  BY <1>3 DEF Companies!Binding, Companies!Live
<1>8. Pointer' /\ Shown'
  BY <1>3, <1>4, <1>6, <1>7 DEF Sound, Pointer, Shown
<1>9. "parties" \notin races => prime[c].status # "cancelled"
  BY <1>1, <1>2 DEF StillTrue, Moving
<1>10. PartiesParticipate'
  BY <1>3, <1>4, <1>6, <1>7, <1>9 DEF Sound, PartiesParticipate, Companies!PartiesParticipate
<1>11. ASSUME NEW w \in CompanyCalls, StillTrue(w),
              Companies!Conflicts(calls[q], w) \subseteq races
       PROVE  StillTrue(w)'
  <2>1. "parties" \notin races => w.for # "move"
    BY <1>1, <1>11, WhenConflict DEF Moving
  <2>2. w.for \in {"update", "move", "erase"} => w.on \in Contracts
    BY Kinds DEF Updating, Moving, Erasing
  <2>3. \A d \in Contracts : prime'[d].status = "absent" => prime[d].status = "absent"
    BY <1>4 DEF PrimeStatuses
  <2>4. QED
    BY <1>3, <1>4, <1>6, <1>7, <1>9, <1>11, <2>1, <2>2, <2>3 DEF StillTrue
<1>12. QED
  BY <1>1, <1>3, <1>5, <1>8, <1>10, <1>11, ServesSound

(* The contract that is deleted is the one the project row points to.      *)
LEMMA EraseKeepsSound ==
    ASSUME Sound, NEW q \in Requests, Companies!Erase(q)
    PROVE  Sound'
<1>1. calls[q] # NoCall /\ calls[q] \in Erasing
  BY TheMoving, Kinds DEF Companies!Erase, Companies!At
<1>2. PICK c \in Contracts : c = calls[q].on
  BY <1>1 DEF Erasing
<1>3. /\ calls' = [calls EXCEPT ![q] = NoCall]
      /\ entity' = entity /\ deal' = deal /\ races' = races /\ participants' = participants
      /\ byHand' = byHand
  BY DEF Companies!Erase, Companies!Done
<1>4. Companies!Binding' = Companies!Binding
  BY <1>3 DEF Companies!Binding
<1>5. CASE c \notin Companies!Live
  <2>1. prime' = prime /\ project' = project
    BY <1>2, <1>5 DEF Companies!Erase
  <2>2. PartyTypes'
    BY <1>3, <2>1 DEF Sound, PartyTypes
  <2>3. Pointer' /\ Shown'
    BY <1>3, <2>1 DEF Sound, Pointer, Shown, Companies!Live, Companies!Gone
  <2>4. PartiesParticipate'
    BY <1>3, <1>4, <2>1 DEF Sound, PartiesParticipate, Companies!PartiesParticipate,
       Companies!Live, Companies!Gone
  <2>5. \A w \in CompanyCalls : StillTrue(w) => StillTrue(w)'
    BY <1>3, <1>4, <2>1 DEF StillTrue, Companies!Live, Companies!Gone
  <2>6. QED
    BY <1>1, <1>3, <2>2, <2>3, <2>4, <2>5, ServesSound
<1>6. CASE c \in Companies!Live
  <2>. DEFINE gone == [status |-> "deleted", holder |-> NoContract, value |-> NoValue]
  <2>1. prime' = [prime EXCEPT ![c] = gone]
        /\ project' = [project EXCEPT !.contract = NoContract, !.value = NoValue]
    BY <1>2, <1>6 DEF Companies!Erase
  <2>2. prime'[c] = gone /\ \A d \in Contracts \ {c} : prime'[d] = prime[d]
    BY <2>1 DEF Sound, PartyTypes
  <2>3. PartyTypes'
    <3>1. prime' \in [Contracts -> [status : PrimeStatuses \cup Absence,
                                    holder : Entities \cup {NoContract},
                                    value : Values \cup {NoValue}]]
      BY <2>1 DEF Sound, PartyTypes, Absence
    <3>2. project' \in [owner : Entities, contract : Contracts \cup {NoContract},
                        value : Values \cup {NoValue}]
      BY <2>1 DEF Sound, PartyTypes
    <3>3. QED
      BY <1>3, <3>1, <3>2 DEF Sound, PartyTypes
  <2>4. project.contract = c
    BY <1>6 DEF Sound, Pointer
  <2>5. \A d \in Contracts : d \in Companies!Live => d = c
    BY <2>4 DEF Sound, Pointer
  <2>6. Companies!Live' = {}
    BY <2>2, <2>5 DEF Companies!Live, Companies!Gone
  <2>7. project'.contract = NoContract
    BY <2>1 DEF Sound, PartyTypes
  <2>8. Pointer' /\ Shown'
    BY <2>6, <2>7, ValuesAssumption DEF Pointer, Shown
  <2>9. PartiesParticipate'
    BY <1>3, <1>4, <2>6 DEF Sound, PartiesParticipate, Companies!PartiesParticipate
  <2>10. ASSUME NEW w \in CompanyCalls, StillTrue(w) PROVE StillTrue(w)'
    <3>1. w.for \in {"update", "move", "erase"} => w.on \in Contracts
      BY Kinds DEF Updating, Moving, Erasing
    <3>2. \A d \in Contracts : /\ prime'[d].status = "absent" => prime[d].status = "absent"
                               /\ prime'[d].status = "cancelled" => prime[d].status = "cancelled"
      BY <2>2
    <3>3. QED
      BY <1>3, <1>4, <2>6, <2>10, <3>1, <3>2 DEF StillTrue
  <2>11. QED
    BY <1>1, <1>3, <2>3, <2>8, <2>9, <2>10, ServesSound
<1>7. QED
  BY <1>5, <1>6

(* What the three writes to a deal have in common: the deal is bound after *)
(* it only to participants, whom no call that does not conflict takes away.*)
LEMMA DealsSound ==
    ASSUME Sound, NEW q \in Requests, calls[q] # NoCall, NEW d \in Deals, d = calls[q].on,
           calls[q].for \in {"deal", "moveDeal", "eraseDeal"},
           calls' = [calls EXCEPT ![q] = NoCall],
           UNCHANGED <<entity, project, participants, prime, races, byHand>>,
           deal' \in [Deals -> [status : DealStatuses \cup Absence, parties : SUBSET Entities]],
           \A x \in Deals \ {d} : deal'[x] = deal[x],
           deal'[d].status # "absent",
           deal[d].status = "absent" => calls[q].for = "deal",
           deal'[d].status \in {"closed", "cancelled"} =>
               deal[d].status \in {"closed", "cancelled"} \/ calls[q].for \in {"deal", "moveDeal"},
           "parties" \notin races /\ d \in Companies!Binding' =>
               /\ deal'[d].parties \subseteq participants
               /\ \A w \in CompanyCalls :
                     /\ w.for = "leave" /\ w.at = "leave" /\ StillTrue(w)
                     /\ Companies!Conflicts(calls[q], w) \subseteq races
                     => w.on \notin deal'[d].parties
    PROVE  Sound'
<1>1. PartyTypes'
  BY DEF Sound, PartyTypes
<1>2. Companies!Live' = Companies!Live
  BY DEF Companies!Live, Companies!Gone
<1>3. Pointer' /\ Shown'
  BY <1>2 DEF Sound, Pointer, Shown
<1>4. \A x \in Deals \ {d} : x \in Companies!Binding' <=> x \in Companies!Binding
  BY DEF Companies!Binding
<1>5. Companies!Binding' \subseteq Deals
  BY DEF Companies!Binding
<1>6. PartiesParticipate'
  BY <1>2, <1>4, <1>5 DEF Sound, PartiesParticipate, Companies!PartiesParticipate
<1>7. ASSUME NEW w \in CompanyCalls, StillTrue(w),
             Companies!Conflicts(calls[q], w) \subseteq races,
             w.for = "deal" /\ calls[q].for = "deal" => w.on # d
      PROVE  StillTrue(w)'
  <2>1. w.for \in {"deal", "moveDeal", "eraseDeal"} => w.on \in Deals
    BY Kinds DEF Dealing, MovingDeal, ErasingDeal
  <2>2. w.for = "deal" => deal'[w.on].status = "absent"
    <3>1. SUFFICES ASSUME w.for = "deal", w.on = d PROVE FALSE
      BY <1>7, <2>1 DEF StillTrue
    <3>2. deal[d].status = "absent"
      BY <1>7, <3>1 DEF StillTrue
    <3>3. QED
      BY <1>7, <3>1, <3>2
  <2>3. w.for \in {"moveDeal", "eraseDeal"} => deal'[w.on].status # "absent"
    BY <1>7, <2>1 DEF StillTrue
  <2>4. "parties" \notin races /\ w.for = "moveDeal" =>
            deal'[w.on].status \notin {"closed", "cancelled"}
    <3>1. SUFFICES ASSUME "parties" \notin races, w.for = "moveDeal", w.on = d,
                          deal'[d].status \in {"closed", "cancelled"}
                   PROVE  FALSE
      BY <1>7, <2>1 DEF StillTrue
    <3>2. calls[q].for = "deal"
      BY <1>7, <3>1, WhenConflict DEF StillTrue
    <3>3. deal[d].status = "absent"
      BY <3>2, TheMoving DEF StillTrue
    <3>4. QED
      BY <1>7, <3>1, <3>3 DEF StillTrue
  <2>5. "parties" \notin races /\ w.at = "leave" =>
            \A x \in Companies!Binding' : w.on \notin deal'[x].parties
    <3>1. SUFFICES ASSUME "parties" \notin races, w.at = "leave",
                          NEW x \in Companies!Binding'
                   PROVE  w.on \notin deal'[x].parties
      OBVIOUS
    <3>2. w.for = "leave"
      BY <3>1, Kinds DEF Leaving
    <3>3. CASE x = d
      BY <1>7, <3>1, <3>2, <3>3
    <3>4. CASE x # d
      BY <1>4, <1>5, <1>7, <3>1, <3>4 DEF StillTrue
    <3>5. QED
      BY <3>3, <3>4
  <2>6. QED
    BY <1>2, <1>7, <2>2, <2>3, <2>4, <2>5 DEF StillTrue
<1>8. QED
  BY <1>1, <1>3, <1>6, <1>7, ServesSound


(* A deal is made between participants.                                    *)
LEMMA DealKeepsSound ==
    ASSUME Sound, NEW q \in Requests, Companies!Deal(q)
    PROVE  Sound'
<1>1. /\ calls[q] # NoCall /\ calls[q] \in Dealing /\ calls[q].at = "deal"
      /\ calls[q] \in CompanyCalls /\ StillTrue(calls[q])
  BY TheMoving, Kinds DEF Companies!Deal, Companies!At
<1>2. PICK d \in Deals, to \in Agreement : d = calls[q].on /\ to = calls[q].to
  BY <1>1 DEF Dealing
<1>3. /\ calls' = [calls EXCEPT ![q] = NoCall] /\ deal' = [deal EXCEPT ![d] = to]
      /\ UNCHANGED <<entity, project, participants, prime, races, byHand>>
  BY <1>2 DEF Companies!Deal, Companies!Done
<1>4. to.status \in DealStatuses /\ to.parties \in SUBSET Entities /\ calls[q].for = "deal"
  BY <1>1 DEF Agreement, Dealing
<1>5. /\ deal' \in [Deals -> [status : DealStatuses \cup Absence, parties : SUBSET Entities]]
      /\ \A x \in Deals \ {d} : deal'[x] = deal[x]
      /\ deal'[d] = to
  <2>1. to \in [status : DealStatuses \cup Absence, parties : SUBSET Entities]
    BY DEF Agreement
  <2>2. QED
    BY <1>3, <2>1 DEF Sound, PartyTypes
<1>6. "parties" \notin races => to.parties \subseteq participants
  BY <1>1, <1>2 DEF StillTrue
<1>7. "parties" \notin races =>
          \A w \in CompanyCalls :
              w.for = "leave" /\ Companies!Conflicts(calls[q], w) \subseteq races
              => w.on \notin to.parties
  BY <1>2, <1>4, WhenConflict
<1>8. deal'[d].status # "absent"
  BY <1>4, <1>5 DEF DealStatuses
<1>9. QED
  BY <1>1, <1>2, <1>3, <1>4, <1>5, <1>6, <1>7, <1>8, DealsSound

(* A deal that is moved was not closed or cancelled before, and bound its  *)
(* parties already.                                                        *)
LEMMA MoveDealKeepsSound ==
    ASSUME Sound, NEW q \in Requests, Companies!MoveDeal(q)
    PROVE  Sound'
<1>1. /\ calls[q] # NoCall /\ calls[q] \in MovingDeal /\ calls[q] \in CompanyCalls
      /\ StillTrue(calls[q])
  BY TheMoving, Kinds DEF Companies!MoveDeal, Companies!At
<1>2. PICK d \in Deals, to \in DealStatuses : d = calls[q].on /\ to = calls[q].to
  BY <1>1 DEF MovingDeal
<1>3. /\ calls' = [calls EXCEPT ![q] = NoCall] /\ calls[q].for = "moveDeal"
      /\ UNCHANGED <<entity, project, participants, prime, races, byHand>>
  BY <1>1 DEF Companies!MoveDeal, Companies!Done, MovingDeal
<1>4. /\ deal' \in [Deals -> [status : DealStatuses \cup Absence, parties : SUBSET Entities]]
      /\ \A x \in Deals \ {d} : deal'[x] = deal[x]
      /\ deal'[d].parties = deal[d].parties
      /\ \/ deal[d].status \notin Absence /\ deal'[d].status = to
         \/ deal'[d].status = deal[d].status /\ deal[d].status \in Absence
  <2>1. deal \in [Deals -> [status : DealStatuses \cup Absence, parties : SUBSET Entities]]
    BY DEF Sound, PartyTypes
  <2>2. CASE deal[d].status \in Absence
    <3>1. deal' = deal
      BY <1>2, <2>2 DEF Companies!MoveDeal, Companies!Gone, Absence
    <3>2. QED
      BY <2>1, <2>2, <3>1
  <2>3. CASE deal[d].status \notin Absence
    <3>1. deal' = [deal EXCEPT ![d].status = to]
      BY <1>2, <2>3 DEF Companies!MoveDeal, Companies!Gone, Absence
    <3>2. QED
      BY <2>1, <2>3, <3>1
  <2>4. QED
    BY <2>2, <2>3
<1>5. deal[d].status # "absent"
      /\ ("parties" \notin races => deal[d].status \notin {"closed", "cancelled"})
  BY <1>1, <1>2, <1>3 DEF StillTrue
<1>6. deal'[d].status # "absent"
  BY <1>4, <1>5 DEF DealStatuses
<1>7. "parties" \notin races /\ d \in Companies!Binding' => d \in Companies!Binding
  BY <1>4, <1>5 DEF Companies!Binding, Absence, DealStatuses, Sound, PartyTypes
<1>8. "parties" \notin races /\ d \in Companies!Binding' =>
          /\ deal'[d].parties \subseteq participants
          /\ \A w \in CompanyCalls : w.at = "leave" /\ StillTrue(w) => w.on \notin deal'[d].parties
  BY <1>4, <1>7 DEF Sound, PartiesParticipate, Companies!PartiesParticipate, StillTrue
<1>9. QED
  BY <1>1, <1>2, <1>3, <1>4, <1>5, <1>6, <1>8, DealsSound

(* A deleted deal binds nobody.                                            *)
LEMMA EraseDealKeepsSound ==
    ASSUME Sound, NEW q \in Requests, Companies!EraseDeal(q)
    PROVE  Sound'
<1>1. /\ calls[q] # NoCall /\ calls[q] \in ErasingDeal /\ StillTrue(calls[q])
  BY TheMoving, Kinds DEF Companies!EraseDeal, Companies!At
<1>2. PICK d \in Deals : d = calls[q].on
  BY <1>1 DEF ErasingDeal
<1>3. /\ calls' = [calls EXCEPT ![q] = NoCall] /\ calls[q].for = "eraseDeal"
      /\ deal' = [deal EXCEPT ![d] = [status |-> "deleted", parties |-> {}]]
      /\ UNCHANGED <<entity, project, participants, prime, races, byHand>>
  BY <1>1, <1>2 DEF Companies!EraseDeal, Companies!Done, ErasingDeal
<1>4. /\ deal' \in [Deals -> [status : DealStatuses \cup Absence, parties : SUBSET Entities]]
      /\ \A x \in Deals \ {d} : deal'[x] = deal[x]
      /\ deal'[d].status = "deleted"
  BY <1>3 DEF Sound, PartyTypes, Absence
<1>5. deal[d].status # "absent"
  BY <1>1, <1>2, <1>3 DEF StillTrue
<1>6. d \notin Companies!Binding'
  BY <1>4 DEF Companies!Binding
<1>7. QED
  BY <1>1, <1>2, <1>3, <1>4, <1>5, <1>6, DealsSound

-----------------------------------------------------------------------------
(* The theorems about the companies *)

(* Edits of entities and of the owner touch nothing the invariant is       *)
(* about; an edit of the value is remembered.                              *)
LEMMA EditKeepsSound ==
    ASSUME Sound, Companies!Edit
    PROVE  Sound'
<1>1. /\ participants' = participants /\ prime' = prime /\ deal' = deal /\ calls' = calls
      /\ races' = races /\ (byHand' = byHand \/ byHand' = TRUE)
  BY DEF Companies!Edit, Companies!UpdateEntity, Companies!ArchiveEntity, Companies!UpdateOwner,
     Companies!UpdateValue, Companies!partyVars
<1>2. /\ project'.contract = project.contract
      /\ byHand' \/ project'.value = project.value
      /\ PartyTypes'
  <2>1. ASSUME NEW e \in Entities, NEW status \in {"active", "inactive"},
               NEW code \in Codes \cup {NoCode}, Companies!UpdateEntity(e, status, code)
        PROVE  <1>2!1 /\ <1>2!2 /\ <1>2!3
    BY <2>1 DEF Companies!UpdateEntity, Companies!partyVars, Sound, PartyTypes
  <2>2. ASSUME NEW e \in Entities, Companies!ArchiveEntity(e)
        PROVE  <1>2!1 /\ <1>2!2 /\ <1>2!3
    BY <2>2 DEF Companies!ArchiveEntity, Companies!partyVars, Sound, PartyTypes
  <2>3. ASSUME NEW e \in Entities, Companies!UpdateOwner(e)
        PROVE  <1>2!1 /\ <1>2!2 /\ <1>2!3
    BY <2>3 DEF Companies!UpdateOwner, Companies!partyVars, Sound, PartyTypes
  <2>4. ASSUME NEW v \in Values, Companies!UpdateValue(v)
        PROVE  <1>2!1 /\ <1>2!2 /\ <1>2!3
    BY <2>4 DEF Companies!UpdateValue, Sound, PartyTypes
  <2>5. QED
    BY <2>1, <2>2, <2>3, <2>4 DEF Companies!Edit
<1>3. Companies!Live' = Companies!Live /\ Companies!Binding' = Companies!Binding
  BY <1>1 DEF Companies!Live, Companies!Gone, Companies!Binding
<1>4. Pointer' /\ Shown' /\ PartiesParticipate'
  BY <1>1, <1>2, <1>3 DEF Sound, PartyTypes, Pointer, Shown, PartiesParticipate,
     Companies!PartiesParticipate
<1>5. Recorded' /\ OneDraft'
  BY <1>1 DEF Sound, Recorded, OneDraft, Companies!Conflicts, Companies!Takes
<1>6. CallsTrue'
  <2>1. \A q \in Requests : StillTrue(calls[q])' <=> StillTrue(calls[q])
    BY <1>1, <1>3 DEF StillTrue
  <2>2. QED
    BY <1>1, <2>1 DEF Sound, CallsTrue
<1>7. QED
  BY <1>2, <1>4, <1>5, <1>6 DEF Sound

(* Every step of Parties keeps the invariant: one case per action.         *)
LEMMA NextSound == Sound /\ [Companies!Next]_Companies!vars => Sound'
<1>1. SUFFICES ASSUME Sound, [Companies!Next]_Companies!vars PROVE Sound'
  OBVIOUS
<1>2. CASE UNCHANGED Companies!vars
  <2>1. /\ entity' = entity /\ project' = project /\ participants' = participants
        /\ prime' = prime /\ deal' = deal /\ calls' = calls /\ races' = races /\ byHand' = byHand
    BY <1>2 DEF Companies!vars, Companies!partyVars
  <2>2. Companies!Live' = Companies!Live /\ Companies!Binding' = Companies!Binding
    BY <2>1 DEF Companies!Live, Companies!Gone, Companies!Binding
  <2>3. PartyTypes' /\ Pointer' /\ Shown' /\ PartiesParticipate'
    BY <1>1, <2>1, <2>2 DEF Sound, PartyTypes, Pointer, Shown, PartiesParticipate,
       Companies!PartiesParticipate
  <2>4. Recorded' /\ OneDraft'
    BY <1>1, <2>1 DEF Sound, Recorded, OneDraft, Companies!Conflicts, Companies!Takes
  <2>5. CallsTrue'
    <3>1. \A q \in Requests : StillTrue(calls[q])' <=> StillTrue(calls[q])
      BY <2>1, <2>2 DEF StillTrue
    <3>2. QED
      BY <1>1, <2>1, <3>1 DEF Sound, CallsTrue
  <2>6. QED
    BY <2>3, <2>4, <2>5 DEF Sound
<1>3. CASE Companies!Edit
  BY <1>1, <1>3, EditKeepsSound
<1>4. ASSUME NEW q \in Requests, Companies!AskAny(q) PROVE Sound'
  BY <1>1, <1>4, AskKeepsSound
<1>5. ASSUME NEW q \in Requests, Companies!Serve(q) PROVE Sound'
  BY <1>1, <1>5, JoinKeepsSound, CheckKeepsSound, LeaveKeepsSound, AwardKeepsSound,
     UpdateKeepsSound, MoveKeepsSound, EraseKeepsSound, DealKeepsSound, MoveDealKeepsSound,
     EraseDealKeepsSound DEF Companies!Serve
<1>6. QED
  BY <1>1, <1>2, <1>3, <1>4, <1>5 DEF Companies!Next

(* At first there is nothing but entities and a project.                   *)
LEMMA InitSound == Companies!Init => Sound
<1>1. SUFFICES ASSUME Companies!Init PROVE Sound
  OBVIOUS
<1>2. PartyTypes
  <2>1. PICK e \in Entities : project = [owner |-> e, contract |-> NoContract, value |-> NoValue]
    BY <1>1 DEF Companies!Init
  <2>2. project \in [owner : Entities, contract : Contracts \cup {NoContract},
                    value : Values \cup {NoValue}]
    BY <2>1
  <2>3. /\ entity \in [Entities -> [status : {"active", "inactive", "archived"},
                                   default : Codes \cup {NoCode}]]
        /\ prime \in [Contracts -> [status : PrimeStatuses \cup Absence,
                                    holder : Entities \cup {NoContract},
                                    value : Values \cup {NoValue}]]
        /\ deal \in [Deals -> [status : DealStatuses \cup Absence, parties : SUBSET Entities]]
    BY <1>1 DEF Companies!Init, Absence
  <2>4. QED
    BY <1>1, <2>2, <2>3 DEF Companies!Init, PartyTypes
<1>3. Companies!Live = {} /\ Companies!Binding = {}
  BY <1>1 DEF Companies!Init, Companies!Live, Companies!Gone, Companies!Binding
<1>4. Pointer /\ Shown
  BY <1>1, <1>3, ValuesAssumption DEF Companies!Init, Pointer, Shown
<1>5. PartiesParticipate
  BY <1>3 DEF PartiesParticipate, Companies!PartiesParticipate
<1>6. Recorded /\ OneDraft /\ CallsTrue
  BY <1>1 DEF Companies!Init, Recorded, OneDraft, CallsTrue
<1>7. QED
  BY <1>2, <1>4, <1>5, <1>6 DEF Sound

(* The invariant holds in every reachable state of Parties.                *)
LEMMA CompaniesSound == Companies!Spec => []Sound
<1>1. Sound /\ [Companies!Next]_Companies!vars => Sound'
  BY NextSound
<1>2. QED
  BY <1>1, InitSound, PTL DEF Companies!Spec


(* ProjectSetup implements Parties: of a template nothing in the companies *)
(* of a project depends.                                                   *)
THEOREM SetupImplementsParties == Spec => Companies!Spec
<1>1. Init => Companies!Init
  BY DEF Init
<1>2. [Next]_vars => [Companies!Next]_Companies!vars
  <2>1. Workflows!Next /\ UNCHANGED partyVars => UNCHANGED Companies!vars
    <3>1. Workflows!Next => UNCHANGED <<entity, project>>
      BY DEF Workflows!Next, Workflows!SetOverride, Workflows!AskAny, Workflows!AskCreate,
         Workflows!AskUpdate, Workflows!AskToggle, Workflows!AskStart, Workflows!Begin,
         Workflows!Serve, Workflows!Insert, Workflows!Renew, Workflows!Toggle, Workflows!Find,
         Workflows!Start
    <3>2. QED
      BY <3>1 DEF partyVars, Companies!vars, Companies!partyVars
  <2>2. UNCHANGED vars => UNCHANGED Companies!vars
    BY DEF vars, partyVars, Companies!vars, Companies!partyVars
  <2>3. QED
    BY <2>1, <2>2 DEF Next
<1>3. QED
  BY <1>1, <1>2, PTL DEF Spec, Companies!Spec

(* Whoever holds a prime contract that was not cancelled, or is bound by   *)
(* an intercompany contract, takes part in the project, for any number of  *)
(* calls in flight whose conflicts did not overlap.                        *)
THEOREM HoldersTakePart == Companies!Spec => []PartiesParticipate
<1>1. Sound => PartiesParticipate
  BY DEF Sound
<1>2. QED
  BY <1>1, CompaniesSound, PTL

(* The project row points to its one prime contract whatever races, and    *)
(* shows its value unless edits of the value raced or it was set by hand.  *)
THEOREM ProjectRowFollows == Companies!Spec => []CacheFollowsContract
<1>1. Sound => CacheFollowsContract
  BY DEF Sound, Pointer, Shown, CacheFollowsContract, Companies!CacheFollowsContract
<1>2. QED
  BY <1>1, CompaniesSound, PTL

(* A project never has two prime contracts.                                *)
THEOREM OnePrimeContract ==
    Companies!Spec => [](\A c, d \in Companies!Live : c = d)
<1>1. Sound => \A c, d \in Companies!Live : c = d
  BY DEF Sound, Pointer, Companies!Live
<1>2. QED
  BY <1>1, CompaniesSound, PTL

(* The same with the templates and their users at work next to it.         *)
THEOREM SetupHoldersTakePart == Spec => []PartiesParticipate
BY SetupImplementsParties, HoldersTakePart, PTL

(* The project row follows its contract there, too.                        *)
THEOREM SetupProjectRowFollows == Spec => []CacheFollowsContract
BY SetupImplementsParties, ProjectRowFollows, PTL


-----------------------------------------------------------------------------
(* The workflow templates *)

TemplateCode == [name : Names, marks : Seq(Nat)]

\* The calls of each kind.
Inserting == [at : {"insert"}, on : {NoRow}, row : TemplateRows]
Editing == [at : {"renew", "toggle"}, on : Ids, row : TemplateRows]
Finding == [at : {"find"}, on : Records, row : TemplateCode]
Starting == [at : {"start"}, on : Records, row : Ids]

TemplateCalls == Inserting \cup Editing \cup Finding \cup Starting

TemplateTypes ==
    /\ template \in [Ids -> TemplateRows \cup {NoRow}]
    /\ override \in Names \cup {NoCode}
    /\ edits \in [Requests -> TemplateCalls \cup {NoCall}]

\* The unique index.
Distinct == \A i, j \in Workflows!Rows : template[i].code = template[j].code => i = j

\* The row that a call has read is still there, with its version, and some
\* row holds the code it had.
StillHeld(w) ==
    /\ w.at \in {"renew", "toggle"} => w.on \in Workflows!Rows
    /\ w.at = "renew" => /\ template[w.on].version = w.row.version
                         /\ \E j \in Workflows!Rows : template[j].code = w.row.code

TemplateSound ==
    /\ TemplateTypes
    /\ Distinct
    /\ \A q \in Requests : edits[q] # NoCall => StillHeld(edits[q])

\* What NamesMoveForward says of a step.
Forward ==
    \A i \in Workflows!Rows :
        LET holders == {j \in Workflows!Rows' : template'[j].code = template[i].code} IN
        /\ holders # {}
        /\ \A j \in holders : j = i \/ template'[j].version = template[i].version + 1

(* A mark makes another code of a code.                                    *)
LEMMA Marking ==
    ASSUME NEW code \in TemplateCode, NEW version \in Nat
    PROVE  /\ Workflows!Marked(code, version) \in TemplateCode
           /\ Workflows!Marked(code, version) # code
<1>. DEFINE m == Append(code.marks, version)
<1>1. code.marks \in Seq(Nat)
  BY DEF TemplateCode
<1>2. m \in Seq(Nat) /\ Len(m) # Len(code.marks)
  BY <1>1
<1>. HIDE DEF m
<1>3. Workflows!Marked(code, version) = [code EXCEPT !.marks = m]
  BY DEF Workflows!Marked, m
<1>4. [code EXCEPT !.marks = m] \in TemplateCode /\ [code EXCEPT !.marks = m].marks = m
  BY <1>2 DEF TemplateCode
<1>5. QED
  BY <1>2, <1>3, <1>4

(* A step keeps the invariant when no row goes, none changes its version,  *)
(* and no code is lost.                                                    *)
LEMMA TemplatesKept ==
    ASSUME TemplateSound, NEW q \in Requests, NEW v \in TemplateCalls \cup {NoCall},
           edits' = [edits EXCEPT ![q] = v], v # NoCall => StillHeld(v)',
           template' \in [Ids -> TemplateRows \cup {NoRow}],
           override' \in Names \cup {NoCode}, Distinct', Forward,
           \A i \in Workflows!Rows : i \in Workflows!Rows'
                                     /\ template'[i].version = template[i].version
    PROVE  TemplateSound' /\ Forward
<1>1. /\ edits \in [Requests -> TemplateCalls \cup {NoCall}] /\ edits'[q] = v
      /\ \A p \in Requests \ {q} : edits'[p] = edits[p]
      /\ edits' \in [Requests -> TemplateCalls \cup {NoCall}]
  BY DEF TemplateSound, TemplateTypes
<1>2. \A i \in Workflows!Rows : \E j \in Workflows!Rows' : template'[j].code = template[i].code
  BY DEF Forward
<1>3. ASSUME NEW w \in TemplateCalls, StillHeld(w) PROVE StillHeld(w)'
  <2>1. w.at = "renew" => \E j \in Workflows!Rows' : template'[j].code = w.row.code
    BY <1>2, <1>3 DEF StillHeld
  <2>2. QED
    BY <1>3, <2>1 DEF StillHeld
<1>4. ASSUME NEW p \in Requests, edits'[p] # NoCall PROVE StillHeld(edits[p])'
  <2>1. PICK w \in TemplateCalls : w = edits'[p]
    BY <1>1, <1>4
  <2>2. StillHeld(w)'
    BY <1>1, <1>3, <1>4, <2>1 DEF TemplateSound
  <2>3. QED
    BY <2>1, <2>2 DEF StillHeld
<1>5. QED
  BY <1>1, <1>4 DEF TemplateSound, TemplateTypes

(* A step that leaves the rows alone keeps every name where it is.         *)
LEMMA RowsAlone ==
    ASSUME TemplateSound, template' = template
    PROVE  /\ Workflows!Rows' = Workflows!Rows /\ Distinct' /\ Forward
           /\ template' \in [Ids -> TemplateRows \cup {NoRow}]
<1>1. Workflows!Rows' = Workflows!Rows
  BY DEF Workflows!Rows
<1>2. Distinct'
  BY <1>1 DEF TemplateSound, Distinct
<1>3. Forward
  BY <1>1 DEF TemplateSound, Distinct, Forward
<1>4. QED
  BY <1>1, <1>2, <1>3 DEF TemplateSound, TemplateTypes

(* A row that is there is typed.                                           *)
LEMMA RowTyped ==
    ASSUME TemplateSound, NEW i \in Workflows!Rows
    PROVE  /\ i \in Ids /\ template[i] \in TemplateRows
           /\ template[i].code \in TemplateCode /\ template[i].version \in Nat
BY DEF TemplateSound, TemplateTypes, Workflows!Rows, TemplateRows, TemplateCode

(* A call begins with what it has read.                                    *)
LEMMA AskKeepsTemplates ==
    ASSUME Sound, TemplateSound, NEW q \in Requests, Workflows!AskAny(q)
    PROVE  TemplateSound' /\ Forward
<1>1. \E w \in TemplateCalls :
          /\ edits' = [edits EXCEPT ![q] = w] /\ StillHeld(w)
          /\ template' = template /\ override' = override
  <2>1. ASSUME NEW name \in Names, Workflows!AskCreate(q, name) PROVE <1>1
    <3>. DEFINE w == [at |-> "insert", on |-> NoRow,
                      row |-> [code |-> Workflows!Plain(name), version |-> 1,
                               isActive |-> FALSE]]
    <3>1. << >> \in Seq(Nat)
      OBVIOUS
    <3>2. w \in TemplateCalls
      BY <3>1 DEF TemplateCalls, Inserting, TemplateRows, Workflows!Plain
    <3>3. StillHeld(w)
      BY DEF StillHeld
    <3>4. QED
      BY <2>1, <3>2, <3>3 DEF Workflows!AskCreate, Workflows!Begin
  <2>2. ASSUME NEW i \in Workflows!Rows, Workflows!AskUpdate(q, i) PROVE <1>1
    <3>. DEFINE w == [at |-> "renew", on |-> i, row |-> template[i]]
    <3>1. w \in TemplateCalls
      BY RowTyped DEF TemplateCalls, Editing
    <3>2. StillHeld(w)
      BY DEF StillHeld
    <3>3. QED
      BY <2>2, <3>1, <3>2 DEF Workflows!AskUpdate, Workflows!Begin
  <2>3. ASSUME NEW i \in Workflows!Rows, NEW active \in BOOLEAN,
               Workflows!AskToggle(q, i, active)
        PROVE  <1>1
    <3>. DEFINE row == [template[i] EXCEPT !.isActive = active]
                w == [at |-> "toggle", on |-> i, row |-> row]
    <3>1. row \in TemplateRows
      BY RowTyped DEF TemplateRows
    <3>. HIDE DEF row
    <3>2. w \in TemplateCalls
      BY <3>1, RowTyped DEF TemplateCalls, Editing
    <3>3. StillHeld(w)
      BY DEF StillHeld
    <3>4. QED
      BY <2>3, <3>2, <3>3 DEF Workflows!AskToggle, Workflows!Begin, row
  <2>4. ASSUME NEW r \in Records, NEW large \in BOOLEAN, Workflows!AskStart(q, r, large)
        PROVE  <1>1
    <3>. DEFINE code == Workflows!Plain(Workflows!Resolve(large))
                w == [at |-> "find", on |-> r, row |-> code]
    <3>1. entity[project.owner].default \in Codes \cup {NoCode}
      BY DEF Sound, PartyTypes
    <3>2. Workflows!Resolve(large) \in Names
      BY <2>4, <3>1, NamesAssumption DEF Workflows!AskStart, Workflows!Resolve, TemplateSound,
         TemplateTypes
    <3>3. code \in TemplateCode
      BY <3>2 DEF Workflows!Plain, TemplateCode
    <3>. HIDE DEF code
    <3>4. w \in TemplateCalls /\ StillHeld(w)
      BY <3>3 DEF TemplateCalls, Finding, StillHeld
    <3>5. QED
      BY <2>4, <3>4 DEF Workflows!AskStart, Workflows!Begin, code
  <2>5. QED
    BY <2>1, <2>2, <2>3, <2>4 DEF Workflows!AskAny
<1>2. PICK w \in TemplateCalls :
          /\ edits' = [edits EXCEPT ![q] = w] /\ StillHeld(w)
          /\ template' = template /\ override' = override
  BY <1>1
<1>3. StillHeld(w)'
  BY <1>2, RowsAlone DEF StillHeld
<1>4. QED
  BY <1>2, <1>3, RowsAlone, TemplatesKept DEF TemplateSound, TemplateTypes

(* Looking for a template and starting an instance leave the rows alone.   *)
LEMMA StartKeepsTemplates ==
    ASSUME TemplateSound, NEW q \in Requests, Workflows!Find(q) \/ Workflows!Start(q)
    PROVE  TemplateSound' /\ Forward
<1>1. /\ edits[q] # NoCall /\ edits[q].at \in {"find", "start"} /\ edits[q] \in TemplateCalls
      /\ template' = template /\ override' = override
  BY DEF Workflows!Find, Workflows!Start, Workflows!At, TemplateSound, TemplateTypes
<1>2. PICK v \in TemplateCalls \cup {NoCall} :
          edits' = [edits EXCEPT ![q] = v] /\ (v # NoCall => v.at = "start")
  <2>1. CASE Workflows!Done(q)
    BY <2>1 DEF Workflows!Done
  <2>2. CASE /\ Workflows!Find(q)
             /\ \E i \in Workflows!Active(edits[q].row) :
                    edits' = [edits EXCEPT ![q].at = "start", ![q].row = i]
    <3>1. PICK i \in Workflows!Active(edits[q].row) :
                    edits' = [edits EXCEPT ![q].at = "start", ![q].row = i]
      BY <2>2
    <3>2. i \in Ids
      BY DEF Workflows!Active, Workflows!Coded, Workflows!Rows
    <3>3. edits[q] \in Finding
      BY <1>1, <2>2 DEF Workflows!Find, Workflows!At, TemplateCalls, Inserting, Editing, Starting,
         Finding
    <3>. DEFINE w == [edits[q] EXCEPT !.at = "start", !.row = i]
    <3>4. w \in Starting /\ w.at = "start"
      BY <3>2, <3>3 DEF Finding, Starting
    <3>5. edits' = [edits EXCEPT ![q] = w]
      BY <3>1 DEF TemplateSound, TemplateTypes
    <3>. HIDE DEF w
    <3>6. QED
      BY <3>4, <3>5 DEF TemplateCalls
  <2>3. QED
    BY <2>1, <2>2 DEF Workflows!Find, Workflows!Start
<1>3. v # NoCall => StillHeld(v)'
  BY <1>2 DEF StillHeld
<1>4. QED
  BY <1>1, <1>2, <1>3, RowsAlone, TemplatesKept DEF TemplateSound, TemplateTypes


(* The unique index refuses a second row under a code.                     *)
LEMMA InsertKeepsTemplates ==
    ASSUME TemplateSound, NEW q \in Requests, Workflows!Insert(q)
    PROVE  TemplateSound' /\ Forward
<1>1. /\ edits[q] # NoCall /\ edits[q] \in Inserting
      /\ edits' = [edits EXCEPT ![q] = NoCall] /\ override' = override
  BY DEF Workflows!Insert, Workflows!At, Workflows!Done, TemplateSound, TemplateTypes, TemplateCalls,
     Inserting, Editing, Finding, Starting
<1>2. CASE template' = template
  BY <1>1, <1>2, RowsAlone, TemplatesKept DEF TemplateSound, TemplateTypes
<1>3. CASE template' # template
  <2>1. PICK row \in TemplateRows : row = edits[q].row
    BY <1>1 DEF Inserting
  <2>2. PICK i \in Ids \ Workflows!Rows : template' = [template EXCEPT ![i] = row]
    BY <1>3, <2>1 DEF Workflows!Insert
  <2>3. Workflows!Coded(row.code) = {}
    BY <1>3, <2>1 DEF Workflows!Insert
  <2>4. /\ template' \in [Ids -> TemplateRows \cup {NoRow}]
        /\ template'[i] = row /\ \A j \in Ids \ {i} : template'[j] = template[j]
    BY <2>2 DEF TemplateSound, TemplateTypes
  <2>5. Workflows!Rows' = Workflows!Rows \cup {i}
    BY <2>4, NoRowAssumption DEF Workflows!Rows
  <2>6. \A j \in Workflows!Rows : template'[j] = template[j] /\ template[j].code # row.code
    BY <2>2, <2>3, <2>4 DEF Workflows!Rows, Workflows!Coded
  <2>7. Distinct'
    BY <2>4, <2>5, <2>6 DEF TemplateSound, Distinct
  <2>8. Forward
    BY <2>4, <2>5, <2>6 DEF TemplateSound, Distinct, Forward
  <2>9. QED
    BY <1>1, <2>4, <2>5, <2>6, <2>7, <2>8, TemplatesKept DEF TemplateSound, TemplateTypes
<1>4. QED
  BY <1>2, <1>3

(* The row that is replaced gives up its code in the step that inserts its *)
(* successor, and the unique index refuses the update of a row that        *)
(* another update has replaced meanwhile.                                  *)
LEMMA RenewKeepsTemplates ==
    ASSUME TemplateSound, NEW q \in Requests, Workflows!Renew(q)
    PROVE  TemplateSound' /\ Forward
<1>1. /\ edits[q] # NoCall /\ edits[q] \in Editing /\ edits[q].at = "renew"
      /\ edits' = [edits EXCEPT ![q] = NoCall] /\ override' = override
  BY DEF Workflows!Renew, Workflows!At, Workflows!Done, TemplateSound, TemplateTypes, TemplateCalls,
     Inserting, Editing, Finding, Starting
<1>2. CASE template' = template
  BY <1>1, <1>2, RowsAlone, TemplatesKept DEF TemplateSound, TemplateTypes
<1>3. CASE template' # template
  <2>1. PICK row \in TemplateRows : row = edits[q].row
    BY <1>1 DEF Editing
  <2>2. PICK on \in Ids : on = edits[q].on
    BY <1>1 DEF Editing
  <2>3. /\ row.code \in TemplateCode /\ row.version \in Nat
        /\ on \in Workflows!Rows /\ template[on].version = row.version
        /\ \E j \in Workflows!Rows : template[j].code = row.code
    BY <1>1, <2>1, <2>2 DEF TemplateSound, StillHeld, TemplateRows, TemplateCode
  <2>4. PICK marked \in TemplateCode :
            marked = Workflows!Marked(row.code, row.version) /\ marked # row.code
    BY <2>3, Marking
  <2>5. Workflows!Coded(marked) \cup Workflows!Coded(row.code) \subseteq {on}
    BY <1>3, <2>1, <2>2, <2>4 DEF Workflows!Renew
  <2>6. PICK i \in Ids \ Workflows!Rows :
            template' = [template EXCEPT ![on].code = marked, ![on].isActive = FALSE,
                                         ![i] = Workflows!Successor(row)]
    BY <1>3, <2>1, <2>2, <2>4 DEF Workflows!Renew
  <2>7. template[on].code = row.code
    BY <2>3, <2>5 DEF Workflows!Coded
  <2>8. on # i /\ template \in [Ids -> TemplateRows \cup {NoRow}] /\ template[on] \in TemplateRows
    BY <2>3, <2>6, RowTyped DEF TemplateSound, TemplateTypes
  <2>9. PICK old \in TemplateRows :
            /\ old = [template[on] EXCEPT !.code = marked, !.isActive = FALSE]
            /\ old.code = marked /\ old.version = template[on].version
    <3>. DEFINE w == [template[on] EXCEPT !.code = marked, !.isActive = FALSE]
    <3>1. /\ w \in TemplateRows /\ w.code = marked /\ w.version = template[on].version
      BY <2>4, <2>8 DEF TemplateRows, TemplateCode
    <3>. HIDE DEF w
    <3>2. QED
      BY <3>1 DEF w
  <2>10. PICK new \in TemplateRows :
            /\ new = Workflows!Successor(row)
            /\ new.code = row.code /\ new.version = row.version + 1
    <3>1. PICK version \in Nat : version = row.version + 1
      BY <2>3
    <3>. DEFINE w == [row EXCEPT !.version = version, !.isActive = TRUE]
    <3>2. /\ w \in TemplateRows /\ w.code = row.code /\ w.version = version
      BY <2>1 DEF TemplateRows
    <3>3. w = Workflows!Successor(row)
      BY <3>1 DEF Workflows!Successor
    <3>. HIDE DEF w
    <3>4. QED
      BY <3>1, <3>2, <3>3
  <2>11. /\ template' \in [Ids -> TemplateRows \cup {NoRow}]
         /\ template'[i] = new /\ template'[on] = old
         /\ \A j \in Ids \ {i, on} : template'[j] = template[j]
    BY <2>6, <2>8, <2>9, <2>10
  <2>12. Workflows!Rows' = Workflows!Rows \cup {i}
    BY <2>3, <2>11, NoRowAssumption DEF Workflows!Rows
  <2>13. \A j \in Workflows!Rows \ {on} :
            /\ template'[j] = template[j]
            /\ template[j].code # row.code /\ template[j].code # marked
    BY <2>5, <2>6, <2>11 DEF Workflows!Rows, Workflows!Coded
  <2>14. i \notin Workflows!Rows /\ on \in Workflows!Rows
    BY <2>3, <2>6
  <2>15. /\ template'[i].code = row.code /\ template'[on].code = marked
         /\ template'[i].version = template[on].version + 1
         /\ \A j \in Workflows!Rows \ {on} : template'[j].code = template[j].code
    BY <2>3, <2>9, <2>10, <2>11, <2>13
  <2>16. \A j, k \in Workflows!Rows \ {on} : template[j].code = template[k].code => j = k
    BY DEF TemplateSound, Distinct
  <2>17. Distinct'
    BY <2>4, <2>12, <2>13, <2>15, <2>16 DEF Distinct
  <2>18. Forward
    <3>1. ASSUME NEW k \in Workflows!Rows
          PROVE  LET holders == {j \in Workflows!Rows' : template'[j].code = template[k].code} IN
                 /\ holders # {}
                 /\ \A j \in holders : j = k \/ template'[j].version = template[k].version + 1
      <4>1. CASE k = on
        BY <2>4, <2>7, <2>12, <2>13, <2>15, <4>1
      <4>2. CASE k # on
        BY <2>12, <2>13, <2>15, <2>16, <4>2
      <4>3. QED
        BY <4>1, <4>2
    <3>2. QED
      BY <3>1 DEF Forward
  <2>19. \A j \in Workflows!Rows : j \in Workflows!Rows'
                                   /\ template'[j].version = template[j].version
    BY <2>9, <2>11, <2>12, <2>13
  <2>20. QED
    BY <1>1, <2>11, <2>17, <2>18, <2>19, TemplatesKept DEF TemplateSound, TemplateTypes
<1>4. QED
  BY <1>2, <1>3

(* Activating or deactivating a template changes neither code nor version. *)
LEMMA ToggleKeepsTemplates ==
    ASSUME TemplateSound, NEW q \in Requests, Workflows!Toggle(q)
    PROVE  TemplateSound' /\ Forward
<1>1. /\ edits[q] # NoCall /\ edits[q] \in Editing /\ edits[q].at = "toggle"
      /\ edits' = [edits EXCEPT ![q] = NoCall] /\ override' = override
  BY DEF Workflows!Toggle, Workflows!At, Workflows!Done, TemplateSound, TemplateTypes, TemplateCalls,
     Inserting, Editing, Finding, Starting
<1>2. PICK on \in Ids : on = edits[q].on
  BY <1>1 DEF Editing
<1>3. PICK active \in BOOLEAN : active = edits[q].row.isActive
  BY <1>1 DEF Editing, TemplateRows
<1>4. on \in Workflows!Rows /\ template[on] \in TemplateRows
  BY <1>1, <1>2, RowTyped DEF TemplateSound, StillHeld
<1>5. PICK row \in TemplateRows :
          /\ row = [template[on] EXCEPT !.isActive = active]
          /\ row.code = template[on].code /\ row.version = template[on].version
  <2>. DEFINE w == [template[on] EXCEPT !.isActive = active]
  <2>1. /\ w \in TemplateRows /\ w.code = template[on].code
        /\ w.version = template[on].version
    BY <1>4 DEF TemplateRows
  <2>. HIDE DEF w
  <2>2. QED
    BY <2>1 DEF w
<1>6. /\ template' \in [Ids -> TemplateRows \cup {NoRow}]
      /\ template'[on] = row /\ \A j \in Ids \ {on} : template'[j] = template[j]
  BY <1>2, <1>3, <1>5 DEF Workflows!Toggle, TemplateSound, TemplateTypes
<1>7. Workflows!Rows' = Workflows!Rows
  BY <1>4, <1>6, NoRowAssumption DEF Workflows!Rows
<1>8. \A j \in Workflows!Rows : /\ template'[j].code = template[j].code
                                /\ template'[j].version = template[j].version
  BY <1>5, <1>6 DEF Workflows!Rows
<1>9. Distinct' /\ Forward
  BY <1>7, <1>8 DEF TemplateSound, Distinct, Forward
<1>10. QED
  BY <1>1, <1>6, <1>7, <1>8, <1>9, TemplatesKept DEF TemplateSound, TemplateTypes


-----------------------------------------------------------------------------
(* The templates along the behaviours of the setup *)

(* There is no template at the beginning.                                  *)
LEMMA InitTemplates == Workflows!Init => TemplateSound
BY NoRowAssumption DEF Workflows!Init, Workflows!Rows, TemplateSound, TemplateTypes, Distinct

(* What leaves rows, calls and override alone leaves the names alone.      *)
LEMMA TemplatesAlone ==
    ASSUME TemplateSound, template' = template, edits' = edits,
           override' \in Names \cup {NoCode}
    PROVE  TemplateSound' /\ Forward
<1>1. \A w \in TemplateCalls : StillHeld(w) => StillHeld(w)'
  BY RowsAlone DEF StillHeld
<1>2. \A q \in Requests : edits[q] \in TemplateCalls \cup {NoCall}
  BY DEF TemplateSound, TemplateTypes
<1>3. ASSUME NEW q \in Requests, edits'[q] # NoCall PROVE StillHeld(edits[q])'
  <2>1. PICK w \in TemplateCalls : w = edits[q]
    BY <1>2, <1>3
  <2>2. StillHeld(w)'
    BY <1>1, <1>3, <2>1 DEF TemplateSound
  <2>3. QED
    BY <2>1, <2>2 DEF StillHeld
<1>4. QED
  BY <1>3, RowsAlone DEF TemplateSound, TemplateTypes

(* Every step of the setup keeps the invariant and moves the names forward. *)
LEMMA NextTemplates ==
    ASSUME Sound, TemplateSound, [Next]_vars
    PROVE  TemplateSound' /\ Forward
<1>1. CASE Workflows!Next
  <2>1. ASSUME NEW name \in Names, Workflows!SetOverride(name) PROVE TemplateSound' /\ Forward
    BY <2>1, TemplatesAlone DEF Workflows!SetOverride
  <2>2. ASSUME NEW q \in Requests, Workflows!AskAny(q) \/ Workflows!Serve(q)
        PROVE  TemplateSound' /\ Forward
    BY <2>2, AskKeepsTemplates, StartKeepsTemplates, InsertKeepsTemplates, RenewKeepsTemplates,
       ToggleKeepsTemplates DEF Workflows!Serve
  <2>3. QED
    BY <1>1, <2>1, <2>2 DEF Workflows!Next
<1>2. CASE UNCHANGED templateVars
  BY <1>2, TemplatesAlone DEF templateVars, TemplateSound, TemplateTypes
<1>3. QED
  BY <1>1, <1>2 DEF Next, vars

(* Both invariants hold along every behaviour of the setup.                *)
LEMMA SetupSound == Spec => []Sound /\ []TemplateSound
<1>1. Spec => []Sound
  BY SetupImplementsParties, CompaniesSound, PTL
<1>2. Init => TemplateSound
  BY InitTemplates DEF Init
<1>3. Sound /\ TemplateSound /\ [Next]_vars => TemplateSound'
  BY NextTemplates
<1>4. QED
  BY <1>1, <1>2, <1>3, PTL DEF Spec

(* NamesMoveForward of ProjectSetup, workflow/templates: no edit of a      *)
(* template is lost, whatever calls read the same version and in whatever  *)
(* order they write. A code that was held stays held, and the row that     *)
(* takes it over is the next version of the row that held it.              *)
THEOREM NamesAlwaysMoveForward == Spec => NamesMoveForward
<1>1. Sound /\ TemplateSound /\ [Next]_vars => Forward
  BY NextTemplates
<1>2. Forward => [Forward]_(Workflows!vars)
  OBVIOUS
<1>3. QED
  BY <1>1, <1>2, SetupSound, PTL DEF Spec, NamesMoveForward, Workflows!NamesMoveForward, Forward

StartedTypes ==
    /\ threshold \in BOOLEAN
    /\ flow \in [Records -> SUBSET Ids]

(* Only a start adds to the instances of a record, and it adds a row of    *)
(* the table (workflow/instances.ts).                                      *)
LEMMA StartedKept ==
    ASSUME TemplateTypes, StartedTypes, [Next]_vars
    PROVE  StartedTypes'
<1>1. CASE UNCHANGED <<threshold, flow>>
  BY <1>1 DEF StartedTypes
<1>2. ASSUME NEW q \in Requests, Workflows!Start(q)
      PROVE  StartedTypes'
  <2>1. /\ edits[q] \in TemplateCalls /\ edits[q].at = "start"
        /\ flow' = [flow EXCEPT ![edits[q].on] = @ \cup {edits[q].row}] /\ threshold' = threshold
    BY <1>2 DEF Workflows!Start, Workflows!At, TemplateTypes
  <2>2. edits[q].on \in Records /\ edits[q].row \in Ids
    BY <2>1 DEF TemplateCalls, Inserting, Editing, Finding, Starting
  <2>3. QED
    BY <2>1, <2>2 DEF StartedTypes
<1>3. ASSUME NEW q \in Requests, Workflows!AskAny(q) \/ Workflows!Serve(q)
      PROVE  UNCHANGED <<threshold, flow>> \/ Workflows!Start(q)
  <2>1. CASE Workflows!AskAny(q)
    BY <2>1 DEF Workflows!AskAny, Workflows!AskCreate, Workflows!AskUpdate, Workflows!AskToggle,
                Workflows!AskStart, Workflows!Begin
  <2>2. CASE Workflows!Serve(q)
    BY <2>2 DEF Workflows!Serve, Workflows!Insert, Workflows!Renew, Workflows!Toggle, Workflows!Find
  <2>3. QED
    BY <1>3, <2>1, <2>2
<1>4. CASE Workflows!Next
  BY <1>1, <1>2, <1>3, <1>4 DEF Workflows!Next, Workflows!SetOverride
<1>5. CASE UNCHANGED templateVars
  BY <1>1, <1>5 DEF templateVars
<1>6. QED
  BY <1>4, <1>5 DEF Next, vars

(* Every variable of the companies and of the templates keeps its type:    *)
(* whatever edits race, the instances of a record run under template rows. *)
THEOREM SetupTypes == Spec => [](PartyTypes /\ TemplateTypes /\ StartedTypes)
<1>1. Sound /\ TemplateSound => PartyTypes /\ TemplateTypes
  BY DEF Sound, TemplateSound
<1>2. Init => StartedTypes
  BY DEF Init, Workflows!Init, StartedTypes
<1>3. TemplateSound /\ StartedTypes /\ [Next]_vars => StartedTypes'
  BY StartedKept DEF TemplateSound
<1>4. QED
  BY <1>1, <1>2, <1>3, SetupSound, PTL DEF Spec

=============================================================================
