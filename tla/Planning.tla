------------------------------ MODULE Planning ------------------------------
(***************************************************************************)
(* Import and Reserve over the budget of one project: an import of the     *)
(* baseline creates the budget when there is none, at any time between or  *)
(* during the transitions of the instructions. In the behaviours with      *)
(* imports of another type the two have nothing in common, and the         *)
(* instructions rest. A bound on the product of the two: calls on a batch  *)
(* overlap, and users edit lines, only where no instruction was received,  *)
(* and a cut off transition, after which nothing is promised of the        *)
(* reserve, ends the behaviour.                                            *)
(***************************************************************************)
EXTENDS Integers, FiniteSets

CONSTANTS
    Kinds, Batches, Rows, BatchOf, NumberOf, KeyOf, Keys, Broken, Posting, MaxWrites,
    Instructions, AmountOf, Transitions, Requests, Faults, User, NoRow, NoWork, NoBudget

ASSUME KindsAssumption == Kinds \subseteq {"ipa_history", "ipa_forecast", "budget_baseline"}
ASSUME CreatorsAssumption == {User, NoRow} \cap Rows = {} /\ User # NoRow
ASSUME SheetAssumption ==
    BatchOf \in [Rows -> Batches] /\ NumberOf \in [Rows -> Nat] /\ KeyOf \in [Rows -> Keys]
ASSUME AmountAssumption ==
    IsFiniteSet(Instructions) /\ AmountOf \in [Instructions -> Nat] /\ NoBudget \notin Int
ASSUME PlanningFaults == Faults \in BOOLEAN

VARIABLES
    kind, batch, row, slot, posted, calls, writes, disturbed,   \* of Import
    ei, exceptions, tasks, strained,                            \* of Reserve
    budget                                                      \* of both

Imports == INSTANCE Import
Reserves == INSTANCE Reserve WITH Requests <- Transitions

ASSUME NoWorkAssumption ==
    NoWork \notin [on : Instructions, to : DOMAIN Reserves!Moves,
                   total : Int \cup {NoBudget}, at : {"read", "move", "settle"}]

importVars == <<kind, batch, row, slot, posted, calls, writes, disturbed>>
reserveVars == <<ei, exceptions, tasks, strained>>
vars == <<importVars, reserveVars, budget>>

Init == Imports!Init /\ Reserves!Init

Resting == \A e \in Instructions : ei[e] = "absent"

Next ==
    /\ ~strained
    /\ \/ /\ Imports!Next /\ UNCHANGED reserveVars
          /\ Resting \/ UNCHANGED <<disturbed, writes>>
       \/ /\ Reserves!Next /\ UNCHANGED importVars
          /\ kind = "budget_baseline" /\ disturbed = {} /\ writes = 0

Spec == Init /\ [][Next]_vars

-----------------------------------------------------------------------------
(* Properties of the parts, which each other's steps must keep *)

(* See Import: what is shown as committed is live and in the ledger. *)
CommittedIsLive == Imports!CommittedIsLive

(* See Import: a committed batch has no row left to be dealt with. *)
CommittedIsComplete == Imports!CommittedIsComplete

(* See Reserve: the reserve of the budget is that of its instructions, also *)
(* when an import creates the budget between or during their transitions.   *)
ReserveAccounted == Reserves!ReserveAccounted

=============================================================================
