---------------------------- MODULE ProjectSetup ----------------------------
(***************************************************************************)
(* Parties and Templates of one project: which template a new instance     *)
(* runs under depends on the owner of the project and on the default that  *)
(* the owner's entity names, which users edit at any time. A bound on the  *)
(* product of the two: templates are edited, and instances started, only   *)
(* in the behaviours without participants and contracts; and an overlap of *)
(* calls on the parties that nothing protects ends the behaviour.          *)
(***************************************************************************)
EXTENDS Naturals, Sequences

CONSTANTS
    Entities, Contracts, Deals, Values, Codes, Ids, Names, Standard, HighValue, Records,
    MaxVersion, Requests, NoContract, NoValue, NoCode, NoRow, NoCall

ASSUME NamesAssumption == {Standard, HighValue} \cup Codes \subseteq Names /\ NoCode \notin Names
ASSUME ValuesAssumption == NoValue \notin Values /\ NoContract \notin Entities \cup Contracts

\* The rows of the template table.
TemplateRows == [code : [name : Names, marks : Seq(Nat)], version : Nat, isActive : BOOLEAN]

ASSUME NoRowAssumption == NoRow \notin TemplateRows

VARIABLES
    entity, project,                                        \* of both
    participants, prime, deal, calls, races, byHand,        \* of Parties
    template, override, threshold, flow, edits              \* of Templates

Companies == INSTANCE Parties
Workflows == INSTANCE Templates

partyVars == <<participants, prime, deal, calls, races, byHand>>
templateVars == <<template, override, threshold, flow, edits>>
vars == <<entity, project, partyVars, templateVars>>

Init == Companies!Init /\ Workflows!Init

\* Nobody has called for anything but an edit of an entity or of the owner.
NoParties ==
    /\ participants = {} /\ calls = [q \in Requests |-> NoCall]
    /\ \A c \in Contracts : prime[c].status = "absent"
    /\ \A d \in Deals : deal[d].status = "absent"
    /\ ~byHand

NoTemplates ==
    /\ \A i \in Ids : template[i] = NoRow
    /\ edits = [q \in Requests |-> NoCall]
    /\ override = NoCode /\ ~threshold
    /\ \A e \in Entities : entity[e].default = NoCode

NoDeals ==
    /\ \A d \in Deals : deal[d].status = "absent"
    /\ \A q \in Requests : calls[q] # NoCall => calls[q].on \notin Deals

\* The first prime contract, with the value it was made with.
OneContract ==
    /\ \A c \in Contracts : prime[c].status # "deleted"
    /\ \A c, d \in Contracts : prime[c].value # NoValue => project.value = prime[c].value
    /\ \A q \in Requests : calls[q] # NoCall => calls[q].for # "update"
    /\ ~byHand

\* Neither the project nor an entity names a template.
Unnamed == override = NoCode /\ \A e \in Entities : entity[e].default = NoCode

OneEditor == \A p, q \in Requests : p # q => edits[p] = NoCall \/ edits[q] = NoCall

\* An entity that is not active only starts nothing new.
OwnerArchived ==
    \A e \in Entities :
        entity[e].status = "active" \/ (entity[e].status = "archived" /\ e = project.owner)

Next ==
    /\ races = {}
    /\ \/ /\ Companies!Next /\ UNCHANGED templateVars
          /\ NoParties \/ UNCHANGED entity
          /\ NoTemplates \/ UNCHANGED partyVars
          /\ NoDeals' \/ OneContract'
       \/ Workflows!Next /\ UNCHANGED partyVars /\ NoParties
    /\ (\A e \in Entities : entity[e].status = "active")' \/ NoTemplates'
    /\ OwnerArchived' \/ NoParties'
    /\ Unnamed' \/ OneEditor'

Spec == Init /\ [][Next]_vars

-----------------------------------------------------------------------------
(* Properties of the parts, which each other's steps must keep *)

(* See Parties: whoever holds a contract takes part in the project. *)
PartiesParticipate == Companies!PartiesParticipate

(* See Parties: the project row shows the prime contract and its value. *)
CacheFollowsContract == Companies!CacheFollowsContract

(* See Templates: a code always leads to its newest version. *)
NamesMoveForward == Workflows!NamesMoveForward

=============================================================================
