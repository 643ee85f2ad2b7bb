------------------------------ MODULE Posting ------------------------------
(***************************************************************************)
(* posting/service.ts, reversal.ts and exceptions.ts: the ledger of        *)
(* posting events and its exception queue.  Each service call is a         *)
(* sequence of separate queries and transactions, one action each here;    *)
(* calls interleave, and the process may die between any two of them.      *)
(*                                                                         *)
(*   post    "record" -> "except"      the payload does not validate        *)
(*           "lookup" -> "create"      it does                              *)
(*   retry   a post under a fresh key, then "settle"                       *)
(*   resolve "resolve"        reverse "reverse"                            *)
(*                                                                         *)
(* The schema makes idempotencyKey unique: a create under a used key       *)
(* throws.  An exception is identified by the failed event it is about.    *)
(***************************************************************************)
EXTENDS Naturals, FiniteSets

CONSTANTS
    EventIds,       \* ids of posting_events rows, used or not yet
    Sources,        \* the business facts that are posted
    Nonces,         \* the random parts of retry keys; bounds the retries
    Requests,       \* the calls that can be in flight at the same time
    NoRow,          \* the id is not used
    NoEvent,        \* no event; reversedByEventId = null
    NoCall,         \* the slot of a request that is not in flight
    Faults          \* TRUE: a call may be cut off between two queries

ASSUME FaultsAssumption == Faults \in BOOLEAN
ASSUME NoEventAssumption == NoEvent \notin EventIds

LiveKey(s)     == <<"live", s>>
RetryKey(x, n) == <<"retry", x, n>>
ReversalKey(e) == <<"reversal", e>>

Keys == {LiveKey(s) : s \in Sources}
            \cup {RetryKey(x, n) : x \in EventIds, n \in Nonces}
            \cup {ReversalKey(e) : e \in EventIds}

Row == [key : Keys, source : Sources, status : {"posted", "failed", "reversed"},
        reversedBy : EventIds \cup {NoEvent}]

ASSUME NoRowAssumption == NoRow \notin Row

VARIABLES
    ledger,         \* posting_events
    queue,          \* posting_exceptions, by failed event
    valid,          \* valid[s]: the payload of s passes the registry's schema
    call            \* the calls in flight

vars == <<ledger, queue, valid, call>>

\* A call in flight: its next query, the source and the key it posts, the
\* exception it retries (or NoEvent), and the event it is about: the failed
\* event it has recorded, or the one it resolves or reverses.
Stages == {"record", "except", "lookup", "create", "settle", "resolve", "reverse"}

Call == [at : Stages, source : Sources, key : Keys, retry : EventIds \cup {NoEvent},
         event : EventIds \cup {NoEvent}]

ASSUME NoCallAssumption == NoCall \notin Call

QueueStates == {"none", "open", "retried", "handled"}

TypeOK ==
    /\ ledger \in [EventIds -> Row \cup {NoRow}]
    /\ queue \in [EventIds -> QueueStates]
    /\ valid \in [Sources -> BOOLEAN]
    /\ call \in [Requests -> Call \cup {NoCall}]

Init ==
    /\ ledger = [e \in EventIds |-> NoRow]
    /\ queue = [e \in EventIds |-> "none"]
    /\ valid \in [Sources -> BOOLEAN]
    /\ call = [r \in Requests |-> NoCall]

Used(e) == ledger[e] # NoRow

\* The unique index on idempotency_key, or findUnique finding nothing.
KeyFree(k) == \A e \in EventIds : Used(e) => ledger[e].key # k

At(r, stage) == call[r] # NoCall /\ call[r].at = stage

\* r has returned or thrown
Done(r) == call' = [call EXCEPT ![r] = NoCall]

GoTo(r, stage) == call' = [call EXCEPT ![r].at = stage]

-----------------------------------------------------------------------------
(* postingService.post *)

\* validatePayload comes first and decides how the call goes on.
StartPost(r, s, k, x) ==
    /\ call[r] = NoCall
    /\ call' = [call EXCEPT ![r] =
          [at |-> IF valid[s] THEN "lookup" ELSE "record",
           source |-> s, key |-> k, retry |-> x, event |-> NoEvent]]
    /\ UNCHANGED <<ledger, queue, valid>>

Post(r, s) == StartPost(r, s, LiveKey(s), NoEvent)

NewRow(r, e, status) ==
    ledger' = [ledger EXCEPT ![e] =
        [key |-> call[r].key, source |-> call[r].source, status |-> status,
         reversedBy |-> NoEvent]]

\* Mutated form: no unique index on the key of a failed event.
RecordFailureUnchecked(r) ==
    /\ At(r, "record")
    /\ \E e \in EventIds :
          /\ ~Used(e)
          /\ NewRow(r, e, "failed")
          /\ call' = [call EXCEPT ![r].at = "except", ![r].event = e]
    /\ UNCHANGED <<queue, valid>>

\* The failed event; a used key makes the create throw and ends the call.
RecordFailure(r) ==
    /\ At(r, "record")
    /\ \/ /\ KeyFree(call[r].key)
          /\ \E e \in EventIds :
                /\ ~Used(e)
                /\ NewRow(r, e, "failed")
                /\ call' = [call EXCEPT ![r].at = "except", ![r].event = e]
       \/ /\ ~KeyFree(call[r].key)
          /\ Done(r)
          /\ UNCHANGED ledger
    /\ UNCHANGED <<queue, valid>>

\* Mutated form: the error is swallowed, so a retry takes it for success.
RecordExceptionSwallowed(r) ==
    /\ At(r, "except")
    /\ queue' = [queue EXCEPT ![call[r].event] = "open"]
    /\ IF call[r].retry # NoEvent THEN GoTo(r, "settle") ELSE Done(r)
    /\ UNCHANGED <<ledger, valid>>

\* The exception row, a separate write; then the validation error is thrown.
RecordException(r) ==
    /\ At(r, "except")
    /\ queue' = [queue EXCEPT ![call[r].event] = "open"]
    /\ Done(r)
    /\ UNCHANGED <<ledger, valid>>

\* What the caller of post() does with an event: retryException goes on to
\* mark its exception, for every other caller the call is over.
Return(r) == IF call[r].retry # NoEvent THEN GoTo(r, "settle") ELSE Done(r)

\* An event with the key exists, whatever its status: return it.
Lookup(r) ==
    /\ At(r, "lookup")
    /\ \/ ~KeyFree(call[r].key) /\ Return(r)
       \/ KeyFree(call[r].key) /\ GoTo(r, "create")
    /\ UNCHANGED <<ledger, queue, valid>>

\* Mutated form: the lookup alone guards the key, there is no unique index.
CreateUnchecked(r) ==
    /\ At(r, "create")
    /\ \E e \in EventIds : ~Used(e) /\ NewRow(r, e, "posted")
    /\ Return(r)
    /\ UNCHANGED <<queue, valid>>

\* The posted event and its audit row; a key used meanwhile makes it throw.
Create(r) ==
    /\ At(r, "create")
    /\ \/ /\ KeyFree(call[r].key)
          /\ \E e \in EventIds : ~Used(e) /\ NewRow(r, e, "posted")
          /\ Return(r)
       \/ /\ ~KeyFree(call[r].key)
          /\ Done(r)
          /\ UNCHANGED ledger
    /\ UNCHANGED <<queue, valid>>

-----------------------------------------------------------------------------
(* postingExceptionService *)

\* A fresh uuid: no row and no call in flight has the key.
FreshNonce(x, n) ==
    /\ KeyFree(RetryKey(x, n))
    /\ \A q \in Requests : call[q] # NoCall => call[q].key # RetryKey(x, n)

Retry(r, x) ==
    /\ queue[x] = "open"
    /\ \E n \in Nonces :
        /\ FreshNonce(x, n)
        /\ StartPost(r, ledger[x].source, RetryKey(x, n), x)

\* By id only: the exception may have been resolved meanwhile.
Settle(r) ==
    /\ At(r, "settle")
    /\ queue' = [queue EXCEPT ![call[r].retry] = "retried"]
    /\ Done(r)
    /\ UNCHANGED <<ledger, valid>>

StartOn(r, stage, e) ==
    /\ call[r] = NoCall
    /\ call' = [call EXCEPT ![r] =
          [at |-> stage, source |-> ledger[e].source, key |-> ledger[e].key,
           retry |-> NoEvent, event |-> e]]
    /\ UNCHANGED <<ledger, queue, valid>>

StartResolve(r, x) == queue[x] = "open" /\ StartOn(r, "resolve", x)

Resolve(r) ==
    /\ At(r, "resolve")
    /\ queue' = [queue EXCEPT ![call[r].event] = "handled"]
    /\ Done(r)
    /\ UNCHANGED <<ledger, valid>>

-----------------------------------------------------------------------------
(* reversePostingEvent *)

StartReverse(r, e) ==
    /\ Used(e)
    /\ ledger[e].status = "posted"
    /\ ledger[e].reversedBy = NoEvent
    /\ StartOn(r, "reverse", e)

\* Mutated form: the back-pointer is not written.
ReverseWithoutPointer(r) ==
    LET e == call[r].event IN
    /\ At(r, "reverse")
    /\ \E f \in EventIds :
          /\ ~Used(f) /\ KeyFree(ReversalKey(e))
          /\ ledger' = [ledger EXCEPT ![f] =
                [key |-> ReversalKey(e), source |-> ledger[e].source,
                 status |-> "reversed", reversedBy |-> NoEvent]]
    /\ Done(r)
    /\ UNCHANGED <<queue, valid>>

\* The reversal row and the back-pointer in one transaction.
Reverse(r) ==
    LET e == call[r].event IN
    /\ At(r, "reverse")
    /\ \/ /\ KeyFree(ReversalKey(e))
          /\ \E f \in EventIds :
                /\ ~Used(f)
                /\ ledger' = [ledger EXCEPT
                      ![f] = [key |-> ReversalKey(e), source |-> ledger[e].source,
                              status |-> "reversed", reversedBy |-> NoEvent],
                      ![e].reversedBy = f]
       \/ ~KeyFree(ReversalKey(e)) /\ UNCHANGED ledger
    /\ Done(r)
    /\ UNCHANGED <<queue, valid>>

-----------------------------------------------------------------------------

\* A deployment corrects the schema of the event type: what failed validates.
RepairSchema(s) ==
    /\ ~valid[s]
    /\ valid' = [valid EXCEPT ![s] = TRUE]
    /\ UNCHANGED <<ledger, queue, call>>

\* The process dies or the connection is lost; nothing resumes the call.
CutOff(r) ==
    /\ Faults
    /\ call[r] # NoCall
    /\ Done(r)
    /\ UNCHANGED <<ledger, queue, valid>>

Serve(r) ==
    \/ RecordFailure(r) \/ RecordException(r) \/ Lookup(r) \/ Create(r)
    \/ Settle(r) \/ Resolve(r) \/ Reverse(r)

Next ==
    \/ \E r \in Requests :
        \/ \E s \in Sources : Post(r, s)
        \/ \E e \in EventIds : Retry(r, e) \/ StartResolve(r, e) \/ StartReverse(r, e)
        \/ Serve(r)
        \/ CutOff(r)
    \/ \E s \in Sources : RepairSchema(s)

Spec == Init /\ [][Next]_vars

-----------------------------------------------------------------------------
(* Properties *)

(* An idempotency key has at most one event, also when several calls look  *)
(* it up before any of them creates it.                                    *)
KeysUnique ==
    \A e, f \in EventIds :
        Used(e) /\ Used(f) /\ ledger[e].key = ledger[f].key => e = f

(* The ledger is append-only: no row is removed or changed, except that    *)
(* the back-pointer of a posted row is set once.                           *)
AppendOnly ==
    [][\A e \in EventIds : Used(e) =>
          \/ ledger'[e] = ledger[e]
          \/ /\ ledger[e].status = "posted"
             /\ ledger[e].reversedBy = NoEvent
             /\ \E f \in EventIds : ledger'[e] = [ledger[e] EXCEPT !.reversedBy = f]]_vars

(* Reversals and back-pointers match one to one, however calls race: the   *)
(* event an event is reversed by is its reversal, and every reversal row   *)
(* is the one its original points back to.                                 *)
ReversalsPaired ==
    \A f \in EventIds :
        /\ Used(f) /\ ledger[f].status = "reversed" =>
              \E e \in EventIds :
                  /\ Used(e) /\ ledger[e].status = "posted"
                  /\ ledger[e].reversedBy = f
                  /\ ledger[f].key = ReversalKey(e)
                  /\ ledger[f].source = ledger[e].source
        /\ Used(f) /\ ledger[f].reversedBy # NoEvent =>
              /\ Used(ledger[f].reversedBy)
              /\ ledger[ledger[f].reversedBy].key = ReversalKey(f)

(* An exception marked 'retried_successfully' has a posted event that a    *)
(* retry of this exception created, for the same source.                   *)
RetriedMeansPosted ==
    \A x \in EventIds : queue[x] = "retried" =>
        \E e \in EventIds, n \in Nonces :
            /\ Used(e) /\ ledger[e].status = "posted"
            /\ ledger[e].key = RetryKey(x, n)
            /\ ledger[e].source = ledger[x].source

Promised == INSTANCE PostingLedger

(* The ledger rows behave as PostingLedger says under any interleaving.    *)
ImplementsLedger == Promised!LedgerSpec

=============================================================================
