------------------------------ MODULE Reserve ------------------------------
(***************************************************************************)
(* The instructions of the engineer of one project and the reserve that    *)
(* its budget holds for them. A transition that touches the budget is      *)
(* instruction read -> "read" -> "settle", the last two in one transaction *)
(* that keeps the row of the instruction; any other one is read -> "move". *)
(***************************************************************************)
EXTENDS Integers, FiniteSets, FiniteSetsExt

CONSTANTS
    Instructions,
    AmountOf,       \* the reserve amount of an instruction
    Requests,       \* the transitions that can be in flight at the same time
    Faults,         \* TRUE: a transition may be cut off
    NoWork, NoBudget

VARIABLES
    ei,             \* the status of each instruction
    exceptions,     \* the absorption exceptions of instructions
    budget,         \* the budget of the project and its eiReserveTotal
    tasks,          \* the transitions in flight
    strained        \* history: transitions overlapped or were cut off

reserveVars == <<ei, exceptions, tasks, strained>>
vars == <<reserveVars, budget>>

\* EI_TRANSITIONS
Moves == [absent |-> {}, received |-> {"under_evaluation", "rejected"},
          under_evaluation |-> {"approved_reserve", "rejected", "expired"},
          approved_reserve |-> {"converted", "rejected", "expired"},
          converted |-> {}, rejected |-> {}, expired |-> {}]

Init ==
    /\ ei = [e \in Instructions |-> "absent"]
    /\ exceptions = {}
    /\ budget = [exists |-> FALSE, reserve |-> 0]
    /\ tasks = [q \in Requests |-> NoWork]
    /\ strained = FALSE

At(q, stage) == tasks[q] # NoWork /\ tasks[q].at = stage

Done(q) == tasks' = [tasks EXCEPT ![q] = NoWork]

Idle == \A q \in Requests : tasks[q] = NoWork

CreateBudget ==
    /\ ~budget.exists
    /\ budget' = [exists |-> TRUE, reserve |-> 0]
    /\ UNCHANGED reserveVars

CreateEi(e) ==
    /\ ei[e] = "absent"
    /\ ei' = [ei EXCEPT ![e] = "received"]
    /\ UNCHANGED <<exceptions, budget, tasks, strained>>

TouchesBudget(from, to) ==
    \/ to \in {"approved_reserve", "converted"}
    \/ to \in {"rejected", "expired"} /\ from = "approved_reserve"

Ask(q, e, to) ==
    /\ tasks[q] = NoWork
    /\ to \in Moves[ei[e]]
    /\ tasks' = [tasks EXCEPT ![q] =
                    [on |-> e, to |-> to, total |-> NoBudget,
                     at |-> IF TouchesBudget(ei[e], to) THEN "read" ELSE "move"]]
    /\ strained' = (strained \/ ~Idle)
    /\ UNCHANGED <<ei, exceptions, budget>>

\* A transaction that has updated the instruction keeps its row.
Locked(e) == \E q \in Requests : At(q, "settle") /\ tasks[q].on = e

Move(q) ==
    LET t == tasks[q] IN
    /\ At(q, "move") /\ ~Locked(t.on)
    /\ ei' = [ei EXCEPT ![t.on] = t.to]
    /\ Done(q)
    /\ UNCHANGED <<exceptions, budget, strained>>

\* The transaction reads the budget; without one an exception is recorded, on
\* a connection of its own.
ReadBudget(q) ==
    LET t == tasks[q] IN
    /\ At(q, "read") /\ ~Locked(t.on)
    /\ tasks' = [tasks EXCEPT ![q].at = "settle",
                              ![q].total = IF budget.exists THEN budget.reserve ELSE NoBudget]
    /\ exceptions' = IF budget.exists THEN exceptions
                     ELSE exceptions \cup {<<t.on, IF t.to = "approved_reserve" THEN "increase"
                                                   ELSE "release">>}
    /\ UNCHANGED <<ei, budget, strained>>

\* Mutated form: a converted instruction keeps its reserve.
SettleKept(q) ==
    LET t == tasks[q] IN
    /\ At(q, "settle")
    /\ ei' = [ei EXCEPT ![t.on] = t.to]
    /\ budget' = IF t.total = NoBudget THEN budget
                 ELSE [budget EXCEPT !.reserve = IF t.to = "approved_reserve"
                                                 THEN t.total + AmountOf[t.on]
                                                 ELSE IF t.to = "converted" THEN t.total
                                                 ELSE t.total - AmountOf[t.on]]
    /\ Done(q)
    /\ UNCHANGED <<exceptions, strained>>

\* It writes back the total it read, with the amount added or taken off.
Settle(q) ==
    LET t == tasks[q] IN
    /\ At(q, "settle")
    /\ ei' = [ei EXCEPT ![t.on] = t.to]
    /\ budget' = IF t.total = NoBudget THEN budget
                 ELSE [budget EXCEPT !.reserve = IF t.to = "approved_reserve"
                                                 THEN t.total + AmountOf[t.on]
                                                 ELSE t.total - AmountOf[t.on]]
    /\ Done(q)
    /\ UNCHANGED <<exceptions, strained>>

\* The process dies or the connection is lost; the transaction is undone.
CutOff(q) ==
    /\ Faults
    /\ tasks[q] # NoWork
    /\ Done(q)
    /\ strained' = TRUE
    /\ UNCHANGED <<ei, exceptions, budget>>

Next ==
    \/ CreateBudget
    \/ \E e \in Instructions : CreateEi(e)
    \/ \E q \in Requests :
        \/ \E e \in Instructions : \E to \in Moves[ei[e]] : Ask(q, e, to)
        \/ Move(q) \/ ReadBudget(q) \/ Settle(q) \/ CutOff(q)

Spec == Init /\ [][Next]_vars

-----------------------------------------------------------------------------
(* Properties *)

Total(S) == MapThenSumSet(LAMBDA e : AmountOf[e], S)

Excepted(type) == {e \in Instructions : <<e, type>> \in exceptions}

(* Between transitions that did not overlap, the reserve of the budget is  *)
(* the sum of the reserves of the instructions that hold one, up to those  *)
(* an exception was recorded for because there was no budget then.         *)
ReserveAccounted ==
    ~strained /\ Idle =>
        budget.reserve + Total(Excepted("increase")) - Total(Excepted("release"))
            = Total({e \in Instructions : ei[e] = "approved_reserve"})

=============================================================================
