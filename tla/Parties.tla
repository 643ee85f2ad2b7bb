------------------------------ MODULE Parties ------------------------------
(***************************************************************************)
(* The companies of one project: the participants, the prime contract with *)
(* the client, of which the project row keeps a pointer and the value, and *)
(* the contracts between participants (deals). A call reads what it needs  *)
(* in queries of its own and writes in one transaction at the end:         *)
(*                                                                         *)
(*   join     entity read -> "join"                                        *)
(*   leave    contract read -> "deals" -> "leave"                          *)
(*   award    entity, participant read -> "award"                          *)
(*   update, transition, delete of a contract: contract read -> write      *)
(*   deal     entities read -> "parties" -> "deal"                         *)
(*                                                                         *)
(* A call that is cut off has written nothing. Whether a participant is    *)
(* marked as prime is left out: nothing depends on it.                     *)
(***************************************************************************)
EXTENDS Naturals

CONSTANTS
    Entities,
    Contracts,      \* ids of prime contracts
    Deals,          \* ids of intercompany contracts
    Values,         \* contract values
    Codes,          \* the template codes an entity can name as its default
    Requests,       \* the calls that can be in flight at the same time
    NoContract, NoValue, NoCode, NoCall

VARIABLES
    entity,         \* the status and the default template of each entity
    project,        \* the owner, the contract pointer and the contract value
    participants,   \* the entities that take part in the project
    prime,          \* the prime contracts: status, holder and value
    deal,           \* the intercompany contracts: status and parties
    calls,          \* the calls in flight
    races,          \* history: "values" or "parties", see Conflicts
    byHand          \* history: the project's value was edited after it was last synced

partyVars == <<participants, prime, deal, calls, races, byHand>>
vars == <<entity, project, partyVars>>

\* ALLOWED_TRANSITIONS of the prime contract and of a deal.
PrimeMoves ==
    [draft |-> {"signed", "cancelled"}, signed |-> {"active", "cancelled"},
     active |-> {"completed", "terminated", "cancelled"},
     completed |-> {}, terminated |-> {}, cancelled |-> {}]

DealMoves ==
    [draft |-> {"signed", "cancelled"}, signed |-> {"active", "cancelled"},
     active |-> {"closed", "cancelled"}, closed |-> {}, cancelled |-> {}]

Deletable == {"draft", "cancelled"}
Gone == {"absent", "deleted"}

Init ==
    /\ entity = [e \in Entities |-> [status |-> "active", default |-> NoCode]]
    /\ \E e \in Entities :
          project = [owner |-> e, contract |-> NoContract, value |-> NoValue]
    /\ participants = {}
    /\ prime = [c \in Contracts |-> [status |-> "absent", holder |-> NoContract, value |-> NoValue]]
    /\ deal = [d \in Deals |-> [status |-> "absent", parties |-> {}]]
    /\ calls = [q \in Requests |-> NoCall]
    /\ races = {}
    /\ byHand = FALSE

At(q, stage) == calls[q] # NoCall /\ calls[q].at = stage

Done(q) == calls' = [calls EXCEPT ![q] = NoCall]

\* The prime contract of the project; its projectId is unique.
Live == {c \in Contracts : prime[c].status \notin Gone}

\* x takes a participant away whom the contract that y makes needs.
Takes(x, y) ==
    /\ x.for = "leave"
    /\ \/ y.for = "award" /\ y.on = x.on
       \/ y.for = "deal" /\ x.on \in y.to.parties

\* Two calls in flight whose order matters: two edits of the value of the
\* contract; two transitions, or a participant leaving next to a contract
\* that is being made.
Conflicts(x, y) ==
    {k \in {"values"} : x.for = "update" /\ y.for = "update"}
        \cup {k \in {"parties"} : \/ x.for = y.for /\ x.for \in {"move", "moveDeal"}
                                  \/ Takes(x, y) \/ Takes(y, x)}

Stays == UNCHANGED <<entity, project, participants, prime, deal, byHand>>

\* for: the kind of the call; on: the entity, contract or deal; to, seen: what
\* it writes and what it has read.
Begin(q, for, stage, on, to, seen) ==
    LET w == [for |-> for, at |-> stage, on |-> on, to |-> to, seen |-> seen] IN
    /\ calls[q] = NoCall
    /\ calls' = [calls EXCEPT ![q] = w]
    /\ races' = races \cup UNION {Conflicts(w, calls[p]) : p \in {p \in Requests : calls[p] # NoCall}}
    /\ Stays

-----------------------------------------------------------------------------
(* Entities and the project row *)

\* The route passes the defaults along with every update, or clears them.
UpdateEntity(e, status, default) ==
    /\ entity' = [entity EXCEPT ![e] = [status |-> status, default |-> default]]
    /\ UNCHANGED <<project, partyVars>>

ArchiveEntity(e) ==
    /\ entity[e].status # "archived"
    /\ entity' = [entity EXCEPT ![e].status = "archived"]
    /\ UNCHANGED <<project, partyVars>>

UpdateOwner(e) ==
    /\ project' = [project EXCEPT !.owner = e]
    /\ UNCHANGED <<entity, partyVars>>

UpdateValue(v) ==
    /\ project' = [project EXCEPT !.value = v]
    /\ byHand' = TRUE
    /\ UNCHANGED <<entity, participants, prime, deal, calls, races>>

-----------------------------------------------------------------------------
(* Participants *)

AskJoin(q, e) ==
    /\ entity[e].status = "active"
    /\ Begin(q, "join", "join", e, "none", {})

\* A second row of the same entity is refused by the unique index.
Join(q) ==
    /\ At(q, "join")
    /\ participants' = participants \cup {calls[q].on}
    /\ Done(q)
    /\ UNCHANGED <<entity, project, prime, deal, races, byHand>>

\* Mutated form: only a contract in force keeps its holder.
AskLeaveActive(q, e) ==
    /\ e \in participants
    /\ \A c \in Live : prime[c].holder = e => prime[c].status # "active"
    /\ Begin(q, "leave", "deals", e, "none", {})

AskLeave(q, e) ==
    /\ e \in participants
    /\ \A c \in Live : prime[c].holder = e => prime[c].status = "cancelled"
    /\ Begin(q, "leave", "deals", e, "none", {})

\* The deals that keep their parties in the project.
Binding == {d \in Deals : deal[d].status \in {"draft", "signed", "active"}}

CheckDeals(q) ==
    /\ At(q, "deals")
    /\ IF \E d \in Binding : calls[q].on \in deal[d].parties THEN Done(q)
       ELSE calls' = [calls EXCEPT ![q].at = "leave"]
    /\ UNCHANGED races /\ Stays

Leave(q) ==
    /\ At(q, "leave")
    /\ participants' = participants \ {calls[q].on}
    /\ Done(q)
    /\ UNCHANGED <<entity, project, prime, deal, races, byHand>>

-----------------------------------------------------------------------------
(* The prime contract *)

\* A new id; which one makes no difference.
Fresh(c) == prime[c].status = "absent" /\ c = CHOOSE d \in Contracts : prime[d].status = "absent"

\* createPrimeContract reads the entity and its participation.
AskAward(q, e, status, v) ==
    /\ entity[e].status = "active"
    /\ Begin(q, "award", "award", e, [status |-> status, holder |-> e, value |-> v],
             participants \cap {e})

\* Participant, contract and project in one transaction. It fails over
\* another contract of the project, over a participant created meanwhile and,
\* unless the participant is marked as prime already, over one deleted
\* meanwhile.
Succeeds(w) ==
    CASE Live # {} \/ (w.seen = {} /\ w.on \in participants) -> {FALSE}
      [] Live = {} /\ w.seen # {} /\ w.on \notin participants -> BOOLEAN
      [] OTHER -> {TRUE}

Award(q) ==
    LET w == calls[q] IN
    /\ At(q, "award")
    /\ \E ok \in Succeeds(w) :
          IF ok
          THEN /\ \E c \in Contracts :
                     /\ Fresh(c)
                     /\ prime' = [prime EXCEPT ![c] = w.to]
                     /\ project' = [project EXCEPT !.contract = c, !.value = w.to.value]
               /\ participants' = IF w.seen = {} THEN participants \cup {w.on} ELSE participants
               /\ byHand' = FALSE
          ELSE UNCHANGED <<prime, project, participants, byHand>>
    /\ Done(q)
    /\ UNCHANGED <<entity, deal, races>>

\* updatePrimeContract reads the contract.
AskUpdate(q, c, v) ==
    /\ c \in Live
    /\ Begin(q, "update", "update", c, v, prime[c].value)

\* Mutated form: the project row is synced when it has no value yet.
UpdateUnsynced(q) ==
    LET w == calls[q] IN
    /\ At(q, "update")
    /\ IF w.on \in Live
       THEN /\ prime' = [prime EXCEPT ![w.on].value = w.to]
            /\ IF project.value = NoValue
               THEN project' = [project EXCEPT !.value = w.to] /\ byHand' = FALSE
               ELSE UNCHANGED <<project, byHand>>
       ELSE UNCHANGED <<prime, project, byHand>>
    /\ Done(q)
    /\ UNCHANGED <<entity, participants, deal, races>>

\* The contract, and the project row if the value differs from the one read.
Update(q) ==
    LET w == calls[q] IN
    /\ At(q, "update")
    /\ IF w.on \in Live
       THEN /\ prime' = [prime EXCEPT ![w.on].value = w.to]
            /\ IF w.to # w.seen THEN project' = [project EXCEPT !.value = w.to] /\ byHand' = FALSE
               ELSE UNCHANGED <<project, byHand>>
       ELSE UNCHANGED <<prime, project, byHand>>
    /\ Done(q)
    /\ UNCHANGED <<entity, participants, deal, races>>

AskMove(q, c, to) ==
    /\ c \in Live /\ to \in PrimeMoves[prime[c].status]
    /\ Begin(q, "move", "move", c, to, {})

Move(q) ==
    LET w == calls[q] IN
    /\ At(q, "move")
    /\ prime' = IF w.on \in Live THEN [prime EXCEPT ![w.on].status = w.to] ELSE prime
    /\ Done(q)
    /\ UNCHANGED <<entity, project, participants, deal, races, byHand>>

AskErase(q, c) ==
    /\ c \in Live /\ prime[c].status \in Deletable
    /\ Begin(q, "erase", "erase", c, "none", {})

\* The project row is cleared and the contract deleted, or neither.
Erase(q) ==
    LET w == calls[q] IN
    /\ At(q, "erase")
    /\ IF w.on \in Live
       THEN /\ prime' = [prime EXCEPT ![w.on] = [status |-> "deleted", holder |-> NoContract,
                                                 value |-> NoValue]]
            /\ project' = [project EXCEPT !.contract = NoContract, !.value = NoValue]
       ELSE UNCHANGED <<prime, project>>
    /\ Done(q)
    /\ UNCHANGED <<entity, participants, deal, races, byHand>>

-----------------------------------------------------------------------------
(* Intercompany contracts *)

AskDeal(q, d, parties, status) ==
    /\ deal[d].status = "absent" /\ \A p \in Requests : calls[p] # NoCall => calls[p].on # d
    /\ \A e \in parties : entity[e].status = "active"
    /\ Begin(q, "deal", "parties", d, [status |-> status, parties |-> parties], {})

CheckParties(q) ==
    /\ At(q, "parties")
    /\ IF calls[q].to.parties \subseteq participants
       THEN calls' = [calls EXCEPT ![q].at = "deal"]
       ELSE Done(q)
    /\ UNCHANGED races /\ Stays

Deal(q) ==
    LET w == calls[q] IN
    /\ At(q, "deal")
    /\ deal' = [deal EXCEPT ![w.on] = w.to]
    /\ Done(q)
    /\ UNCHANGED <<entity, project, participants, prime, races, byHand>>

AskMoveDeal(q, d, to) ==
    /\ deal[d].status \notin Gone /\ to \in DealMoves[deal[d].status]
    /\ Begin(q, "moveDeal", "moveDeal", d, to, {})

MoveDeal(q) ==
    LET w == calls[q] IN
    /\ At(q, "moveDeal")
    /\ deal' = IF deal[w.on].status \notin Gone THEN [deal EXCEPT ![w.on].status = w.to] ELSE deal
    /\ Done(q)
    /\ UNCHANGED <<entity, project, participants, prime, races, byHand>>

AskEraseDeal(q, d) ==
    /\ deal[d].status \in Deletable
    /\ Begin(q, "eraseDeal", "eraseDeal", d, "none", {})

EraseDeal(q) ==
    /\ At(q, "eraseDeal")
    /\ deal' = [deal EXCEPT ![calls[q].on] = [status |-> "deleted", parties |-> {}]]
    /\ Done(q)
    /\ UNCHANGED <<entity, project, participants, prime, races, byHand>>

-----------------------------------------------------------------------------

\* One transaction each.
Edit ==
    \/ \E e \in Entities :
        \/ \E status \in {"active", "inactive"}, code \in Codes \cup {NoCode} :
              UpdateEntity(e, status, code)
        \/ ArchiveEntity(e)
        \/ UpdateOwner(e)
    \/ \E v \in Values : UpdateValue(v)

AskAny(q) ==
    \/ \E e \in Entities :
        \/ AskJoin(q, e) \/ AskLeave(q, e)
        \/ \E status \in DOMAIN PrimeMoves, v \in Values : AskAward(q, e, status, v)
    \/ \E c \in Live :
        \/ \E v \in Values : AskUpdate(q, c, v)
        \/ \E to \in PrimeMoves[prime[c].status] : AskMove(q, c, to)
        \/ AskErase(q, c)
    \/ \E d \in Deals :
        \/ \E x, y \in Entities, status \in DOMAIN DealMoves :
              x # y /\ AskDeal(q, d, {x, y}, status)
        \/ \E to \in {"signed", "active", "closed", "cancelled"} : AskMoveDeal(q, d, to)
        \/ AskEraseDeal(q, d)

Serve(q) ==
    \/ Join(q) \/ CheckDeals(q) \/ Leave(q)
    \/ Award(q) \/ Update(q) \/ Move(q) \/ Erase(q)
    \/ CheckParties(q) \/ Deal(q) \/ MoveDeal(q) \/ EraseDeal(q)

Next == Edit \/ \E q \in Requests : AskAny(q) \/ Serve(q)

Spec == Init /\ [][Next]_vars

-----------------------------------------------------------------------------
(* Properties *)

(* Whoever holds the prime contract, unless it was cancelled, and whoever  *)
(* is a party to an intercompany contract that is drafted, signed or in    *)
(* force takes part in the project, in whatever order participants come    *)
(* and go and contracts are made, moved and deleted. Excepted are the      *)
(* overlaps nothing protects: a participant deleted next to a contract of  *)
(* theirs being made, and two transitions of one contract.                 *)
PartiesParticipate ==
    "parties" \notin races =>
        /\ \A c \in Live : prime[c].status # "cancelled" => prime[c].holder \in participants
        /\ \A d \in Binding : deal[d].parties \subseteq participants

(* The project row points to the prime contract of the project, or to none *)
(* if there is none, whatever calls race; and it shows the value of the    *)
(* contract unless two edits of the value raced or somebody edited the     *)
(* project row itself.                                                     *)
CacheFollowsContract ==
    /\ \A c \in Contracts : project.contract = c <=> c \in Live
    /\ "values" \notin races /\ ~byHand => \A c \in Live : project.value = prime[c].value

=============================================================================
