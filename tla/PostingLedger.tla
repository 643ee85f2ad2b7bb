--------------------------- MODULE PostingLedger ---------------------------
(***************************************************************************)
(* What the posting engine promises of posting_events: an append-only      *)
(* ledger in which an idempotency key is used once, a row never changes    *)
(* except for its back-pointer, and a posted row is reversed at most once, *)
(* by a new row that appears together with the back-pointer.               *)
(***************************************************************************)
CONSTANTS
    EventIds,       \* ids of posting_events rows, used or not yet
    Sources,        \* the business facts that are posted
    NoRow,          \* the id is not used
    NoEvent,        \* reversedByEventId = null
    Keys,           \* idempotency keys
    ReversalKey(_)  \* the key of the reversal of an event

VARIABLE ledger

Used(e) == ledger[e] # NoRow

KeyFree(k) == \A e \in EventIds : Used(e) => ledger[e].key # k

LedgerInit == ledger = [e \in EventIds |-> NoRow]

\* A new posted or failed row under a key nobody has used.
Append(e, k, s, status) ==
    /\ ~Used(e)
    /\ KeyFree(k)
    /\ ledger' = [ledger EXCEPT ![e] =
          [key |-> k, source |-> s, status |-> status, reversedBy |-> NoEvent]]

\* The reversal row and the back-pointer, both or neither.
Reverse(e, f) ==
    /\ Used(e) /\ ledger[e].status = "posted" /\ ledger[e].reversedBy = NoEvent
    /\ ~Used(f)
    /\ KeyFree(ReversalKey(e))
    /\ ledger' = [ledger EXCEPT
          ![f] = [key |-> ReversalKey(e), source |-> ledger[e].source,
                  status |-> "reversed", reversedBy |-> NoEvent],
          ![e].reversedBy = f]

LedgerNext ==
    \E e \in EventIds :
        \/ \E k \in Keys, s \in Sources, status \in {"posted", "failed"} :
              Append(e, k, s, status)
        \/ \E f \in EventIds : Reverse(e, f)

LedgerSpec == LedgerInit /\ [][LedgerNext]_ledger

=============================================================================
