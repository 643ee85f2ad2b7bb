--------------------------- MODULE PostingProofs ---------------------------
(***************************************************************************)
(* Theorems about Posting for every number of events, sources and calls in *)
(* flight: the unique index and the transactions make the ledger behave as *)
(* PostingLedger says, although every check of the services may be stale.  *)
(***************************************************************************)
EXTENDS Posting, TLAPS

(* The three kinds of idempotency keys never meet.                         *)
LEMMA KeyKinds ==
    /\ \A s \in Sources : LiveKey(s) \in Keys
    /\ \A x \in EventIds, n \in Nonces : RetryKey(x, n) \in Keys
    /\ \A e \in EventIds : ReversalKey(e) \in Keys
    /\ \A s, e : LiveKey(s) # ReversalKey(e)
    /\ \A x, n, e : RetryKey(x, n) # ReversalKey(e)
    /\ \A e, f : ReversalKey(e) = ReversalKey(f) => e = f
BY DEF Keys, LiveKey, RetryKey, ReversalKey

\* A key that post() is called with: never that of a reversal.
PostingKey(k) == k \in Keys /\ \A e \in EventIds : k # ReversalKey(e)

\* What a call in flight knows for sure of the rows it is about.
CallSound(c) ==
    /\ c.at \in {"record", "lookup", "create"} => PostingKey(c.key)
    /\ c.at \in {"except", "resolve"} => c.event \in EventIds /\ Used(c.event)
    /\ c.at = "settle" => c.retry \in EventIds
    /\ c.at = "reverse" => /\ c.event \in EventIds
                           /\ Used(c.event)
                           /\ ledger[c.event].status = "posted"

CallsSound == \A r \in Requests : call[r] # NoCall => CallSound(call[r])

\* Only reversal rows carry reversal keys, only posted rows are reversed,
\* and an open exception is about a row.
RowsSound ==
    /\ \A f \in EventIds : Used(f) =>
        /\ ledger[f].status # "reversed" => PostingKey(ledger[f].key)
        /\ ledger[f].reversedBy # NoEvent => ledger[f].status = "posted"
    /\ \A x \in EventIds : queue[x] = "open" => Used(x)

Inv == TypeOK /\ CallsSound /\ RowsSound /\ KeysUnique /\ ReversalsPaired

-----------------------------------------------------------------------------
(* Steps that leave the ledger alone *)

(* A step that only moves one call and the queue keeps the invariant when  *)
(* the call stays sound and no exception opens about an unused id.         *)
LEMMA LedgerSame ==
    ASSUME Inv, ledger' = ledger, valid' \in [Sources -> BOOLEAN],
           NEW r \in Requests, NEW c \in Call \cup {NoCall},
           call' = [call EXCEPT ![r] = c], c # NoCall => CallSound(c),
           queue' \in [EventIds -> QueueStates],
           \A x \in EventIds : queue'[x] = "open" => Used(x)
    PROVE  Inv'
<1>1. TypeOK'
  BY DEF Inv, TypeOK
<1>2. CallsSound'
  <2>1. SUFFICES ASSUME NEW q \in Requests, call'[q] # NoCall
                 PROVE  CallSound(call[q])'
    BY DEF CallsSound
  <2>2. call'[q] = c \/ call'[q] = call[q]
    BY DEF Inv, TypeOK
  <2>3. call'[q] # NoCall => CallSound(call'[q])
    BY <2>2 DEF Inv, CallsSound, TypeOK
  <2>4. QED
    BY <2>1, <2>3 DEF CallSound, Used, PostingKey
<1>3. RowsSound'
  BY DEF Inv, RowsSound, Used, PostingKey
<1>4. KeysUnique' /\ ReversalsPaired'
  BY DEF Inv, KeysUnique, ReversalsPaired, Used
<1>5. QED
  BY <1>1, <1>2, <1>3, <1>4 DEF Inv

(* A call that is sound stays so when rows are only added and posted rows  *)
(* keep their status.                                                      *)
LEMMA CallsStay ==
    ASSUME NEW c \in Call, CallSound(c),
           \A e \in EventIds : Used(e) => Used(e)' /\ ledger'[e].status = ledger[e].status
    PROVE  CallSound(c)'
BY DEF CallSound, Used, PostingKey, Call

(* Starting a call keeps the invariant.                                    *)
LEMMA StartKeepsInv ==
    ASSUME Inv, NEW r \in Requests,
           \/ \E s \in Sources : Post(r, s)
           \/ \E e \in EventIds : Retry(r, e) \/ StartResolve(r, e) \/ StartReverse(r, e)
    PROVE  Inv'
<1>1. \A x \in EventIds : queue[x] = "open" => Used(x)
  BY DEF Inv, RowsSound
<1>2. \A x \in EventIds : Used(x) => ledger[x] \in Row
  BY DEF Inv, TypeOK, Used
<1>3. ASSUME NEW s \in Sources, NEW k \in Keys, PostingKey(k),
             NEW x \in EventIds \cup {NoEvent}, StartPost(r, s, k, x)
      PROVE  Inv'
  <2>. DEFINE c == [at |-> IF valid[s] THEN "lookup" ELSE "record",
                    source |-> s, key |-> k, retry |-> x, event |-> NoEvent]
  <2>1. c \in Call
    BY DEF Call, Stages
  <2>2. CallSound(c)
    BY <1>3 DEF CallSound
  <2>3. call' = [call EXCEPT ![r] = c] /\ UNCHANGED <<ledger, queue, valid>>
    BY <1>3 DEF StartPost
  <2>. HIDE DEF c
  <2>4. QED
    BY <1>1, <2>1, <2>2, <2>3, LedgerSame DEF Inv, TypeOK
<1>4. ASSUME NEW stage \in {"resolve", "reverse"}, NEW e \in EventIds, Used(e),
             stage = "reverse" => ledger[e].status = "posted",
             StartOn(r, stage, e)
      PROVE  Inv'
  <2>. DEFINE c == [at |-> stage, source |-> ledger[e].source, key |-> ledger[e].key,
                    retry |-> NoEvent, event |-> e]
  <2>1. c \in Call
    BY <1>2, <1>4 DEF Call, Stages, Row
  <2>2. CallSound(c)
    BY <1>4 DEF CallSound
  <2>3. call' = [call EXCEPT ![r] = c] /\ UNCHANGED <<ledger, queue, valid>>
    BY <1>4 DEF StartOn
  <2>. HIDE DEF c
  <2>4. QED
    BY <1>1, <2>1, <2>2, <2>3, LedgerSame DEF Inv, TypeOK
<1>5. ASSUME NEW s \in Sources, Post(r, s) PROVE Inv'
  BY <1>3, <1>5, KeyKinds DEF Post, PostingKey
<1>6. ASSUME NEW e \in EventIds, Retry(r, e) PROVE Inv'
  <2>1. PICK n \in Nonces : StartPost(r, ledger[e].source, RetryKey(e, n), e)
    BY <1>6 DEF Retry
  <2>2. ledger[e].source \in Sources
    BY <1>1, <1>2, <1>6 DEF Retry, Row
  <2>3. RetryKey(e, n) \in Keys /\ PostingKey(RetryKey(e, n))
    BY KeyKinds DEF PostingKey
  <2>4. QED
    BY <1>3, <2>1, <2>2, <2>3
<1>7. ASSUME NEW e \in EventIds, StartResolve(r, e) PROVE Inv'
  BY <1>1, <1>4, <1>7 DEF StartResolve
<1>8. ASSUME NEW e \in EventIds, StartReverse(r, e) PROVE Inv'
  BY <1>4, <1>8 DEF StartReverse
<1>9. QED
  BY <1>5, <1>6, <1>7, <1>8

-----------------------------------------------------------------------------
(* Steps that write a row *)

(* The other calls in flight stay sound when rows are only added and       *)
(* posted rows keep their status.                                          *)
LEMMA OthersSound ==
    ASSUME Inv, NEW r \in Requests, NEW c \in Call \cup {NoCall},
           call' = [call EXCEPT ![r] = c], c # NoCall => CallSound(c)',
           \A e \in EventIds : Used(e) => Used(e)' /\ ledger'[e].status = ledger[e].status
    PROVE  CallsSound' /\ call' \in [Requests -> Call \cup {NoCall}]
<1>1. SUFFICES ASSUME NEW q \in Requests
               PROVE  (call[q] # NoCall => CallSound(call[q]))'
  BY DEF CallsSound, Inv, TypeOK
<1>2. PICK d \in Call \cup {NoCall} : d = call[q]
  BY DEF Inv, TypeOK
<1>3. d # NoCall => CallSound(d)
  BY <1>2 DEF Inv, CallsSound
<1>4. d # NoCall => CallSound(d)'
  BY <1>3, CallsStay
<1>5. call'[q] = c \/ call'[q] = d
  BY <1>2 DEF Inv, TypeOK
<1>6. CASE call'[q] = c
  BY <1>6 DEF CallSound, Used, PostingKey
<1>7. CASE call'[q] = d
  BY <1>4, <1>7 DEF CallSound, Used, PostingKey
<1>8. QED
  BY <1>5, <1>6, <1>7

(* A new posted or failed row under a free key of post() keeps the rows    *)
(* sound, the keys unique and the reversals paired.                        *)
LEMMA AddedRow ==
    ASSUME Inv, NEW e \in EventIds, ~Used(e), NEW k, PostingKey(k), KeyFree(k),
           NEW s \in Sources, NEW status \in {"posted", "failed"},
           ledger' = [ledger EXCEPT ![e] =
               [key |-> k, source |-> s, status |-> status, reversedBy |-> NoEvent]],
           queue' = queue
    PROVE  /\ ledger' \in [EventIds -> Row \cup {NoRow}]
           /\ RowsSound' /\ KeysUnique' /\ ReversalsPaired'
           /\ \A f \in EventIds : Used(f) => Used(f)' /\ ledger'[f] = ledger[f]
           /\ Used(e)'
<1>. DEFINE row == [key |-> k, source |-> s, status |-> status, reversedBy |-> NoEvent]
<1>1. row \in Row
  BY DEF Row, PostingKey
<1>2. /\ ledger'[e] = row
      /\ \A f \in EventIds : f # e => ledger'[f] = ledger[f]
      /\ ledger' \in [EventIds -> Row \cup {NoRow}]
  BY <1>1 DEF Inv, TypeOK
<1>3. Used(e)' /\ \A f \in EventIds : Used(f) => f # e /\ Used(f)' /\ ledger'[f] = ledger[f]
  BY <1>1, <1>2, NoRowAssumption DEF Used
<1>4. \A f \in EventIds : Used(f)' => f = e \/ Used(f)
  BY <1>2 DEF Used
<1>5. RowsSound'
  BY <1>2, <1>3, <1>4 DEF Inv, RowsSound, PostingKey, Used
<1>6. KeysUnique'
  BY <1>2, <1>3, <1>4 DEF Inv, KeysUnique, KeyFree
<1>7. ReversalsPaired'
  <2>1. SUFFICES ASSUME NEW f \in EventIds, Used(f)'
        PROVE  /\ ledger'[f].status = "reversed" =>
                    \E g \in EventIds :
                        /\ Used(g)' /\ ledger'[g].status = "posted"
                        /\ ledger'[g].reversedBy = f
                        /\ ledger'[f].key = ReversalKey(g)
                        /\ ledger'[f].source = ledger'[g].source
               /\ ledger'[f].reversedBy # NoEvent =>
                    /\ ledger'[ledger'[f].reversedBy] # NoRow
                    /\ ledger'[ledger'[f].reversedBy].key = ReversalKey(f)
    BY DEF ReversalsPaired, Used
  <2>2. CASE f = e
    BY <1>2, <2>2
  <2>3. CASE f # e
    <3>1. Used(f) /\ ledger'[f] = ledger[f] /\ ledger[f] \in Row
      BY <1>2, <1>4, <2>1, <2>3 DEF Inv, TypeOK, Used
    <3>2. ASSUME ledger[f].status = "reversed"
          PROVE  \E g \in EventIds :
                        /\ Used(g)' /\ ledger'[g].status = "posted"
                        /\ ledger'[g].reversedBy = f
                        /\ ledger'[f].key = ReversalKey(g)
                        /\ ledger'[f].source = ledger'[g].source
      BY <1>3, <3>1, <3>2 DEF Inv, ReversalsPaired
    <3>3. ASSUME ledger[f].reversedBy # NoEvent
          PROVE  /\ ledger'[ledger'[f].reversedBy] # NoRow
                 /\ ledger'[ledger'[f].reversedBy].key = ReversalKey(f)
      BY <1>3, <3>1, <3>3 DEF Inv, ReversalsPaired, Row, Used
    <3>4. QED
      BY <3>1, <3>2, <3>3
  <2>4. QED
    BY <2>2, <2>3
<1>8. QED
  BY <1>2, <1>3, <1>5, <1>6, <1>7

\* What a successful reversal of e by the new row f writes.
ReversedBy(e, f) ==
    /\ ~Used(f) /\ KeyFree(ReversalKey(e))
    /\ ledger' = [ledger EXCEPT
          ![f] = [key |-> ReversalKey(e), source |-> ledger[e].source,
                  status |-> "reversed", reversedBy |-> NoEvent],
          ![e].reversedBy = f]

(* The reversal key being free says that the original has no back-pointer  *)
(* yet, however long ago the service looked: the transaction keeps the     *)
(* rows sound and paired.                                                  *)
LEMMA ReversedRow ==
    ASSUME Inv, NEW e \in EventIds, Used(e), ledger[e].status = "posted",
           NEW f \in EventIds, ReversedBy(e, f), queue' = queue
    PROVE  /\ ledger' \in [EventIds -> Row \cup {NoRow}]
           /\ RowsSound' /\ KeysUnique' /\ ReversalsPaired'
           /\ ledger[e].reversedBy = NoEvent
           /\ e # f
           /\ \A g \in EventIds : Used(g) =>
                Used(g)' /\ ledger'[g].status = ledger[g].status
<1>1. ledger[e] \in Row /\ e # f
  BY DEF Inv, TypeOK, Used, ReversedBy
<1>2. ledger[e].reversedBy = NoEvent
  BY <1>1 DEF Inv, ReversalsPaired, ReversedBy, KeyFree, Row, Used
<1>3. PICK row, old : /\ row = [key |-> ReversalKey(e), source |-> ledger[e].source,
                                status |-> "reversed", reversedBy |-> NoEvent]
                      /\ old = ledger[e]
  OBVIOUS
<1>4. PICK new : new = [old EXCEPT !.reversedBy = f]
  OBVIOUS
<1>5. /\ new \in Row /\ new.key = old.key /\ new.source = old.source
      /\ new.status = "posted" /\ new.reversedBy = f
  BY <1>1, <1>3, <1>4 DEF Row
<1>6. /\ row \in Row /\ row.key = ReversalKey(e) /\ row.source = old.source
      /\ row.status = "reversed" /\ row.reversedBy = NoEvent
  BY <1>1, <1>3, KeyKinds DEF Row
<1>7. /\ ledger'[f] = row /\ ledger'[e] = new
      /\ \A g \in EventIds : g # e /\ g # f => ledger'[g] = ledger[g]
  BY <1>1, <1>3, <1>4 DEF ReversedBy, Inv, TypeOK
<1>8. ledger' \in [EventIds -> Row \cup {NoRow}]
  BY <1>1, <1>3, <1>4, <1>5, <1>6 DEF ReversedBy, Inv, TypeOK
<1>9. /\ \A g \in EventIds : Used(g)' => g = f \/ Used(g)
      /\ \A g \in EventIds : Used(g) =>
            g # f /\ Used(g)' /\ ledger'[g].status = ledger[g].status
            /\ ledger'[g].key = ledger[g].key /\ ledger'[g].source = ledger[g].source
  BY <1>1, <1>3, <1>5, <1>6, <1>7, NoRowAssumption DEF ReversedBy, Used
<1>10. RowsSound'
  <2>1. \A g \in EventIds : Used(g)' =>
            /\ ledger'[g].status # "reversed" => PostingKey(ledger'[g].key)
            /\ ledger'[g].reversedBy # NoEvent => ledger'[g].status = "posted"
    BY <1>3, <1>5, <1>6, <1>7, <1>9 DEF Inv, RowsSound
  <2>2. \A x \in EventIds : queue'[x] = "open" => Used(x)'
    BY <1>9 DEF Inv, RowsSound
  <2>3. QED
    BY <2>1, <2>2 DEF RowsSound, PostingKey, Used
<1>11. KeysUnique'
  <2>1. \A g \in EventIds : Used(g) => ledger'[g].key # ledger'[f].key
    BY <1>6, <1>7, <1>9 DEF ReversedBy, KeyFree
  <2>2. QED
    BY <1>9, <2>1 DEF Inv, KeysUnique, Used
<1>12. ReversalsPaired'
  <2>1. SUFFICES ASSUME NEW g \in EventIds, Used(g)'
        PROVE  /\ ledger'[g].status = "reversed" =>
                    \E h \in EventIds :
                        /\ Used(h)' /\ ledger'[h].status = "posted"
                        /\ ledger'[h].reversedBy = g
                        /\ ledger'[g].key = ReversalKey(h)
                        /\ ledger'[g].source = ledger'[h].source
               /\ ledger'[g].reversedBy # NoEvent =>
                    /\ ledger'[ledger'[g].reversedBy] # NoRow
                    /\ ledger'[ledger'[g].reversedBy].key = ReversalKey(g)
    BY DEF ReversalsPaired, Used
  <2>2. CASE g = f
    BY <1>5, <1>6, <1>7, <1>9, <2>2
  <2>3. CASE g = e
    BY <1>5, <1>6, <1>7, <2>3, NoRowAssumption
  <2>4. CASE g # e /\ g # f
    <3>1. Used(g) /\ ledger'[g] = ledger[g] /\ ledger[g] \in Row
      BY <1>7, <1>9, <2>1, <2>4 DEF Inv, TypeOK, Used
    <3>2. ASSUME ledger[g].status = "reversed"
          PROVE  \E h \in EventIds :
                        /\ Used(h)' /\ ledger'[h].status = "posted"
                        /\ ledger'[h].reversedBy = g
                        /\ ledger'[g].key = ReversalKey(h)
                        /\ ledger'[g].source = ledger'[h].source
      <4>1. PICK h \in EventIds :
                /\ Used(h) /\ ledger[h].status = "posted" /\ ledger[h].reversedBy = g
                /\ ledger[g].key = ReversalKey(h) /\ ledger[g].source = ledger[h].source
        BY <3>1, <3>2 DEF Inv, ReversalsPaired
      <4>2. h # e /\ h # f
        BY <1>2, <1>9, <3>1, <4>1, NoEventAssumption
      <4>3. QED
        BY <1>7, <1>9, <3>1, <4>1, <4>2
    <3>3. ASSUME ledger[g].reversedBy # NoEvent
          PROVE  /\ ledger'[ledger'[g].reversedBy] # NoRow
                 /\ ledger'[ledger'[g].reversedBy].key = ReversalKey(g)
      <4>1. PICK h \in EventIds : h = ledger[g].reversedBy
        BY <3>1, <3>3 DEF Row
      <4>2. Used(h) /\ ledger[h].key = ReversalKey(g)
        BY <3>1, <3>3, <4>1 DEF Inv, ReversalsPaired
      <4>3. QED
        BY <1>9, <3>1, <4>1, <4>2 DEF Used
    <3>4. QED
      BY <3>1, <3>2, <3>3
  <2>5. QED
    BY <2>2, <2>3, <2>4
<1>13. QED
  BY <1>1, <1>2, <1>8, <1>9, <1>10, <1>11, <1>12

-----------------------------------------------------------------------------
(* The invariant *)

(* Every query of every call keeps the invariant.                          *)
LEMMA ServeKeepsInv ==
    ASSUME Inv, NEW r \in Requests, Serve(r)
    PROVE  Inv'
<1>1. NoCall \in Call \cup {NoCall} /\ \A x \in EventIds : queue[x] = "open" => Used(x)
  BY DEF Inv, RowsSound
<1>2. \A c : c \in Call =>
        /\ c.retry \in EventIds \cup {NoEvent} /\ c.source \in Sources
        /\ [c EXCEPT !.at = "create"] \in Call /\ [c EXCEPT !.at = "settle"] \in Call
  BY DEF Call, Stages
<1>3. PICK c \in Call : c = call[r] /\ CallSound(c)
  BY DEF Serve, RecordFailure, RecordException, Lookup, Create, Settle, Resolve, Reverse,
         At, Inv, TypeOK, CallsSound
<1>4. \/ RecordFailure(r) \/ RecordException(r) \/ Lookup(r) \/ Create(r)
      \/ Settle(r) \/ Resolve(r) \/ Reverse(r)
  BY DEF Serve
<1>5. CASE RecordFailure(r)
  <2>1. PostingKey(c.key)
    BY <1>3, <1>5 DEF RecordFailure, At, CallSound
  <2>2. CASE ~KeyFree(call[r].key)
    BY <1>1, <1>5, <2>2, LedgerSame DEF RecordFailure, Done, Inv, TypeOK
  <2>3. CASE KeyFree(call[r].key)
    <3>1. PICK e \in EventIds :
              /\ ~Used(e) /\ NewRow(r, e, "failed")
              /\ call' = [call EXCEPT ![r].at = "except", ![r].event = e]
      BY <1>5, <2>3 DEF RecordFailure
    <3>2. PICK d : d = [c EXCEPT !.at = "except", !.event = e]
      OBVIOUS
    <3>3. d \in Call /\ d.at = "except" /\ d.event = e
      BY <3>2 DEF Call, Stages
    <3>4. call' = [call EXCEPT ![r] = d]
      BY <1>3, <3>1, <3>2 DEF Inv, TypeOK
    <3>5. /\ ledger' \in [EventIds -> Row \cup {NoRow}]
          /\ RowsSound' /\ KeysUnique' /\ ReversalsPaired' /\ Used(e)'
          /\ \A f \in EventIds : Used(f) => Used(f)' /\ ledger'[f] = ledger[f]
      BY <1>2, <1>3, <1>5, <2>1, <2>3, <3>1, AddedRow DEF NewRow, RecordFailure
    <3>6. CallSound(d)'
      BY <3>3, <3>5 DEF CallSound
    <3>7. CallsSound' /\ call' \in [Requests -> Call \cup {NoCall}]
      BY <3>3, <3>4, <3>5, <3>6, OthersSound
    <3>8. QED
      BY <1>5, <3>5, <3>7 DEF RecordFailure, Inv, TypeOK
  <2>4. QED
    BY <2>2, <2>3
<1>6. CASE RecordException(r)
  <2>1. c.event \in EventIds /\ Used(c.event)
    BY <1>3, <1>6 DEF RecordException, At, CallSound
  <2>2. \A x \in EventIds : queue'[x] = "open" => Used(x)
    BY <1>1, <1>3, <1>6, <2>1 DEF RecordException, Inv, TypeOK
  <2>3. queue' \in [EventIds -> QueueStates]
    BY <1>6 DEF RecordException, Inv, TypeOK, QueueStates
  <2>4. QED
    BY <1>1, <1>6, <2>2, <2>3, LedgerSame DEF RecordException, Done, Inv, TypeOK
<1>7. ASSUME Return(r)
      PROVE  \E d \in Call \cup {NoCall} :
                /\ call' = [call EXCEPT ![r] = d]
                /\ d # NoCall => d.at = "settle" /\ d.retry \in EventIds
  <2>1. CASE c.retry = NoEvent
    <3>1. call' = [call EXCEPT ![r] = NoCall]
      BY <1>3, <1>7, <2>1 DEF Return, Done
    <3>2. QED
      BY <1>1, <1>2, <3>1 DEF Inv, TypeOK
  <2>2. CASE c.retry # NoEvent
    <3>1. PICK d : d = [c EXCEPT !.at = "settle"]
      OBVIOUS
    <3>2. d \in Call /\ d.at = "settle" /\ d.retry \in EventIds
      BY <1>2, <2>2, <3>1 DEF Call
    <3>3. call' = [call EXCEPT ![r] = d]
      BY <1>3, <1>7, <2>2, <3>1 DEF Return, GoTo, Inv, TypeOK
    <3>4. QED
      BY <3>2, <3>3 DEF Inv, TypeOK
  <2>3. QED
    BY <2>1, <2>2
<1>8. CASE Lookup(r)
  <2>1. CASE Return(r)
    BY <1>1, <1>7, <1>8, <2>1, LedgerSame DEF Lookup, CallSound, Inv, TypeOK
  <2>2. CASE GoTo(r, "create")
    <3>1. PICK d : d = [c EXCEPT !.at = "create"]
      OBVIOUS
    <3>2. d \in Call /\ d.at = "create" /\ d.key = c.key
      BY <1>2, <3>1 DEF Call
    <3>3. CallSound(d)
      BY <1>3, <1>8, <3>2 DEF CallSound, Lookup, At
    <3>4. call' = [call EXCEPT ![r] = d]
      BY <1>3, <2>2, <3>1 DEF GoTo, Inv, TypeOK
    <3>5. QED
      BY <1>1, <1>8, <2>2, <3>2, <3>3, <3>4, LedgerSame DEF Lookup, Inv, TypeOK
  <2>3. QED
    BY <1>8, <2>1, <2>2 DEF Lookup
<1>9. CASE Create(r)
  <2>1. PostingKey(c.key)
    BY <1>3, <1>9 DEF Create, At, CallSound
  <2>2. CASE ~KeyFree(call[r].key)
    BY <1>1, <1>9, <2>2, LedgerSame DEF Create, Done, Inv, TypeOK
  <2>3. CASE KeyFree(call[r].key)
    <3>1. PICK e \in EventIds : ~Used(e) /\ NewRow(r, e, "posted")
      BY <1>9, <2>3 DEF Create
    <3>2. PICK d \in Call \cup {NoCall} : /\ call' = [call EXCEPT ![r] = d]
                                          /\ d # NoCall => d.at = "settle" /\ d.retry \in EventIds
      BY <1>7, <1>9, <2>3 DEF Create
    <3>3. /\ ledger' \in [EventIds -> Row \cup {NoRow}]
          /\ RowsSound' /\ KeysUnique' /\ ReversalsPaired'
          /\ \A f \in EventIds : Used(f) => Used(f)' /\ ledger'[f] = ledger[f]
      BY <1>2, <1>3, <1>9, <2>1, <2>3, <3>1, AddedRow DEF NewRow, Create
    <3>4. CallsSound' /\ call' \in [Requests -> Call \cup {NoCall}]
      BY <3>2, <3>3, OthersSound DEF CallSound
    <3>5. QED
      BY <1>7, <1>9, <2>3, <3>3, <3>4 DEF Create, Inv, TypeOK
  <2>4. QED
    BY <2>2, <2>3
<1>10. CASE Settle(r)
  BY <1>1, <1>10, LedgerSame DEF Settle, Done, Inv, TypeOK, QueueStates
<1>11. CASE Resolve(r)
  BY <1>1, <1>11, LedgerSame DEF Resolve, Done, Inv, TypeOK, QueueStates
<1>12. CASE Reverse(r)
  <2>1. c.event \in EventIds /\ Used(c.event) /\ ledger[c.event].status = "posted"
    BY <1>3, <1>12 DEF Reverse, At, CallSound
  <2>2. CASE UNCHANGED ledger
    BY <1>1, <1>12, <2>2, LedgerSame DEF Reverse, Done, Inv, TypeOK
  <2>3. CASE \E f \in EventIds : ReversedBy(c.event, f)
    <3>1. PICK f \in EventIds : ReversedBy(c.event, f)
      BY <2>3
    <3>2. PICK e \in EventIds : e = c.event
      BY <2>1
    <3>3. /\ ledger' \in [EventIds -> Row \cup {NoRow}]
          /\ RowsSound' /\ KeysUnique' /\ ReversalsPaired'
          /\ \A g \in EventIds : Used(g) => Used(g)' /\ ledger'[g].status = ledger[g].status
      BY <1>12, <2>1, <3>1, <3>2, ReversedRow DEF Reverse
    <3>4. CallsSound' /\ call' \in [Requests -> Call \cup {NoCall}]
      BY <1>1, <1>12, <3>3, OthersSound DEF Reverse, Done
    <3>5. QED
      BY <1>12, <3>3, <3>4 DEF Reverse, Inv, TypeOK
  <2>4. QED
    BY <1>3, <1>12, <2>2, <2>3 DEF Reverse, ReversedBy
<1>13. QED
  BY <1>4, <1>5, <1>6, <1>8, <1>9, <1>10, <1>11, <1>12

(* The ledger and the exception queue are empty at first.                  *)
LEMMA InvInit == Init => Inv
BY DEF Init, Inv, TypeOK, CallsSound, RowsSound, KeysUnique, ReversalsPaired, Used, QueueStates

(* Every step of the posting engine keeps the invariant.                   *)
LEMMA InvNext == Inv /\ [Next]_vars => Inv'
<1>. SUFFICES ASSUME Inv, [Next]_vars PROVE Inv'
  OBVIOUS
<1>1. ASSUME NEW r \in Requests,
             \/ \E s \in Sources : Post(r, s)
             \/ \E e \in EventIds : Retry(r, e) \/ StartResolve(r, e) \/ StartReverse(r, e)
      PROVE  Inv'
  BY <1>1, StartKeepsInv
<1>2. ASSUME NEW r \in Requests, Serve(r) PROVE Inv'
  BY <1>2, ServeKeepsInv
<1>3. ASSUME NEW r \in Requests, CutOff(r) PROVE Inv'
  <2>1. \A x \in EventIds : queue[x] = "open" => Used(x)
    BY DEF Inv, RowsSound
  <2>2. QED
    BY <1>3, <2>1, LedgerSame DEF CutOff, Done, Inv, TypeOK
<1>4. ASSUME NEW s \in Sources, RepairSchema(s) PROVE Inv'
  BY <1>4 DEF RepairSchema, Inv, TypeOK, CallsSound, CallSound, RowsSound, PostingKey,
              KeysUnique, ReversalsPaired, Used
<1>5. CASE UNCHANGED vars
  BY <1>5 DEF vars, Inv, TypeOK, CallsSound, CallSound, RowsSound, PostingKey,
              KeysUnique, ReversalsPaired, Used
<1>6. QED
  BY <1>1, <1>2, <1>3, <1>4, <1>5 DEF Next

(* The invariant holds in every reachable state.                           *)
LEMMA InvAlways == Spec => []Inv
BY InvInit, InvNext, PTL DEF Spec

(* Every reachable state of the posting engine is well typed.              *)
THEOREM TypeCorrect == Spec => []TypeOK
<1>1. Inv => TypeOK
  BY DEF Inv
<1>2. QED
  BY <1>1, InvAlways, PTL

(* An idempotency key has at most one event, for any number of calls that  *)
(* looked it up before one of them created it.                             *)
THEOREM KeysAlwaysUnique == Spec => []KeysUnique
<1>1. Inv => KeysUnique
  BY DEF Inv
<1>2. QED
  BY <1>1, InvAlways, PTL

(* Reversals and back-pointers match one to one under any interleaving of  *)
(* reversals that all saw the original unreversed.                         *)
THEOREM ReversalsAlwaysPaired == Spec => []ReversalsPaired
<1>1. Inv => ReversalsPaired
  BY DEF Inv
<1>2. QED
  BY <1>1, InvAlways, PTL

-----------------------------------------------------------------------------
(* The ledger implements PostingLedger *)

(* Every step of the services is an append, a reversal or a stutter of the *)
(* ledger.                                                                 *)
LEMMA LedgerStep == Inv /\ [Next]_vars => [Promised!LedgerNext]_ledger
<1>. SUFFICES ASSUME Inv, [Next]_vars PROVE [Promised!LedgerNext]_ledger
  OBVIOUS
<1>1. ASSUME NEW r \in Requests, NEW e \in EventIds, NEW status \in {"posted", "failed"},
             ~Used(e), KeyFree(call[r].key), NewRow(r, e, status),
             call[r].key \in Keys, call[r].source \in Sources
      PROVE  Promised!LedgerNext
  <2>1. Promised!Append(e, call[r].key, call[r].source, status)
    BY <1>1 DEF Promised!Append, Promised!Used, Promised!KeyFree, Used, KeyFree, NewRow
  <2>2. QED
    BY <1>1, <2>1 DEF Promised!LedgerNext
<1>2. ASSUME NEW r \in Requests, RecordFailure(r) \/ Create(r)
      PROVE  Promised!LedgerNext \/ UNCHANGED ledger
  <2>1. call[r].key \in Keys /\ call[r].source \in Sources
    BY <1>2 DEF RecordFailure, Create, At, Inv, TypeOK, Call
  <2>2. QED
    BY <1>1, <1>2, <2>1 DEF RecordFailure, Create
<1>3. ASSUME NEW r \in Requests, Reverse(r)
      PROVE  Promised!LedgerNext \/ UNCHANGED ledger
  <2>1. CASE UNCHANGED ledger
    BY <2>1
  <2>2. CASE \E f \in EventIds : ReversedBy(call[r].event, f)
    <3>1. PICK e \in EventIds : e = call[r].event /\ Used(e) /\ ledger[e].status = "posted"
      BY <1>3 DEF Reverse, At, Inv, CallsSound, CallSound
    <3>2. PICK f \in EventIds : ReversedBy(e, f)
      BY <2>2, <3>1
    <3>3. ledger[e].reversedBy = NoEvent
      BY <1>3, <3>1, <3>2, ReversedRow DEF Reverse
    <3>4. Promised!Reverse(e, f)
      BY <3>1, <3>2, <3>3
      DEF Promised!Reverse, Promised!Used, Promised!KeyFree, ReversedBy, Used, KeyFree
    <3>5. QED
      BY <3>4 DEF Promised!LedgerNext
  <2>3. QED
    BY <1>3, <2>1, <2>2 DEF Reverse, ReversedBy
<1>4. ASSUME NEW r \in Requests,
             \/ \E s \in Sources : Post(r, s)
             \/ \E e \in EventIds : Retry(r, e) \/ StartResolve(r, e) \/ StartReverse(r, e)
             \/ RecordException(r) \/ Lookup(r) \/ Settle(r) \/ Resolve(r) \/ CutOff(r)
      PROVE  UNCHANGED ledger
  BY <1>4 DEF Post, Retry, StartPost, StartResolve, StartReverse, StartOn,
              RecordException, Lookup, Settle, Resolve, CutOff
<1>5. ASSUME (\E s \in Sources : RepairSchema(s)) \/ UNCHANGED vars
      PROVE  UNCHANGED ledger
  BY <1>5 DEF RepairSchema, vars
<1>6. QED
  BY <1>2, <1>3, <1>4, <1>5 DEF Next, Serve

(* The services implement PostingLedger: rows are only appended, and a     *)
(* posted row is reversed at most once, together with its reversal.        *)
THEOREM LedgerImplemented == Spec => ImplementsLedger
<1>1. Init => Promised!LedgerInit
  BY DEF Init, Promised!LedgerInit
<1>2. QED
  BY <1>1, InvAlways, LedgerStep, PTL DEF Spec, ImplementsLedger, Promised!LedgerSpec

(* No row is removed or changed, except that the back-pointer of a posted  *)
(* row is set once.                                                        *)
THEOREM AppendOnlyAlways == Spec => AppendOnly
<1>. DEFINE Kept == \A e \in EventIds : Used(e) =>
          \/ ledger'[e] = ledger[e]
          \/ /\ ledger[e].status = "posted"
             /\ ledger[e].reversedBy = NoEvent
             /\ \E f \in EventIds : ledger'[e] = [ledger[e] EXCEPT !.reversedBy = f]
<1>1. Inv /\ [Promised!LedgerNext]_ledger => Kept
  <2>. SUFFICES ASSUME Inv, [Promised!LedgerNext]_ledger, NEW g \in EventIds, Used(g)
       PROVE  \/ ledger'[g] = ledger[g]
              \/ /\ ledger[g].status = "posted"
                 /\ ledger[g].reversedBy = NoEvent
                 /\ \E f \in EventIds : ledger'[g] = [ledger[g] EXCEPT !.reversedBy = f]
    OBVIOUS
  <2>1. ASSUME NEW e \in EventIds, NEW k \in Keys, NEW s \in Sources, NEW status,
               Promised!Append(e, k, s, status)
        PROVE  ledger'[g] = ledger[g]
    BY <2>1 DEF Promised!Append, Promised!Used, Used, Inv, TypeOK
  <2>2. ASSUME NEW e \in EventIds, NEW f \in EventIds, Promised!Reverse(e, f), g # e
        PROVE  ledger'[g] = ledger[g]
    <3>1. g # f /\ e # f
      BY <2>2 DEF Promised!Reverse, Promised!Used, Used
    <3>2. PICK row, new :
             ledger' = [ledger EXCEPT ![f] = row, ![e] = new]
      BY <2>2, <3>1, Zenon DEF Promised!Reverse
    <3>3. QED
      BY <2>2, <3>1, <3>2 DEF Inv, TypeOK
  <2>3. ASSUME NEW f \in EventIds, Promised!Reverse(g, f)
        PROVE  /\ ledger[g].status = "posted"
               /\ ledger[g].reversedBy = NoEvent
               /\ ledger'[g] = [ledger[g] EXCEPT !.reversedBy = f]
    <3>1. f # g
      BY <2>3 DEF Promised!Reverse, Promised!Used
    <3>2. QED
      BY <2>3, <3>1 DEF Promised!Reverse, Inv, TypeOK
  <2>4. QED
    BY <2>1, <2>2, <2>3 DEF Promised!LedgerNext
<1>2. Inv /\ [Next]_vars => [Kept]_vars
  BY <1>1, LedgerStep
<1>3. QED
  BY <1>2, InvAlways, PTL DEF Spec, AppendOnly

-----------------------------------------------------------------------------
(* retryException closes an exception only after a retry of it was posted. *)

\* The stages of post() before a row with its key is written.
Early == {"record", "lookup", "create"}

PostedFor(k, s) ==
    \E e \in EventIds : Used(e) /\ ledger[e].status = "posted"
                                /\ ledger[e].key = k /\ ledger[e].source = s

\* What a retry in flight knows: it posts the source of its failed event
\* under a key of its own, free until the create, and settles what it posted.
RetryOk(c) ==
    /\ c.retry \in EventIds /\ Used(c.retry) /\ c.source = ledger[c.retry].source
    /\ \E n \in Nonces : c.key = RetryKey(c.retry, n)
    /\ c.at \in Early \cup {"except", "settle"}
    /\ c.at \in Early => KeyFree(c.key)
    /\ c.at = "settle" => PostedFor(c.key, c.source)

\* Nobody else posts under the key of a retry that has not written its row.
RetriesSound ==
    \A r \in Requests : call[r] # NoCall /\ call[r].retry # NoEvent =>
        /\ RetryOk(call[r])
        /\ call[r].at \in Early =>
              \A q \in Requests \ {r} : call[q] # NoCall => call[q].key # call[r].key

RetriedSound ==
    \A x \in EventIds : queue[x] = "retried" =>
        Used(x) /\ \E n \in Nonces : PostedFor(RetryKey(x, n), ledger[x].source)

RetryInv == Inv /\ RetriesSound /\ RetriedSound

-----------------------------------------------------------------------------
(* The rows *)

\* Rows stay, with their key, source and status.
RowsKept ==
    \A e \in EventIds : Used(e) =>
        /\ Used(e)'
        /\ ledger'[e].key = ledger[e].key
        /\ ledger'[e].source = ledger[e].source
        /\ ledger'[e].status = ledger[e].status

(* No step takes a row away or changes what it says.                       *)
LEMMA RowsStay == Inv /\ [Next]_vars => RowsKept
<1>. SUFFICES ASSUME Inv, [Promised!LedgerNext]_ledger, NEW g \in EventIds, Used(g)
     PROVE  /\ Used(g)'
            /\ ledger'[g].key = ledger[g].key
            /\ ledger'[g].source = ledger[g].source
            /\ ledger'[g].status = ledger[g].status
  BY LedgerStep DEF RowsKept
<1>1. ASSUME ledger'[g] = ledger[g] PROVE Used(g)'
  BY <1>1 DEF Used
<1>2. ASSUME NEW e \in EventIds, NEW k \in Keys, NEW s \in Sources, NEW status,
             Promised!Append(e, k, s, status)
      PROVE  ledger'[g] = ledger[g]
  BY <1>2 DEF Promised!Append, Promised!Used, Used, Inv, TypeOK
<1>3. ASSUME NEW e \in EventIds, NEW f \in EventIds, Promised!Reverse(e, f), g # e
      PROVE  ledger'[g] = ledger[g]
  <2>1. g # f /\ e # f
    BY <1>3 DEF Promised!Reverse, Promised!Used, Used
  <2>2. PICK row, new : ledger' = [ledger EXCEPT ![f] = row, ![e] = new]
    BY <1>3, <2>1, Zenon DEF Promised!Reverse
  <2>3. QED
    BY <1>3, <2>1, <2>2 DEF Inv, TypeOK
<1>4. ASSUME NEW f \in EventIds, Promised!Reverse(g, f)
      PROVE  /\ Used(g)'
             /\ ledger'[g].key = ledger[g].key
             /\ ledger'[g].source = ledger[g].source
             /\ ledger'[g].status = ledger[g].status
  <2>1. f # g
    BY <1>4 DEF Promised!Reverse, Promised!Used
  <2>2. ledger[g] \in Row /\ ledger'[g] = [ledger[g] EXCEPT !.reversedBy = f]
    BY <1>4, <2>1 DEF Promised!Reverse, Inv, TypeOK, Used
  <2>3. ledger'[g] \in Row
    BY <2>2 DEF Row
  <2>4. QED
    BY <2>2, <2>3, NoRowAssumption DEF Row, Used
<1>5. QED
  BY <1>1, <1>2, <1>3, <1>4 DEF Promised!LedgerNext

(* So what was posted stays posted.                                        *)
LEMMA PostedStays ==
    ASSUME RowsKept, NEW k, NEW s, PostedFor(k, s)
    PROVE  PostedFor(k, s)'
BY DEF RowsKept, PostedFor

(* The keys of retries are neither those of live posts nor of reversals,   *)
(* and every exception has its own.                                        *)
LEMMA RetryKeysApart ==
    /\ \A x, n, s : RetryKey(x, n) # LiveKey(s)
    /\ \A x, n, e : RetryKey(x, n) # ReversalKey(e)
BY DEF RetryKey, LiveKey, ReversalKey

-----------------------------------------------------------------------------
(* One call moves *)

(* The retries in flight stay sound when a call moves to a sound state     *)
(* without taking their keys, and writes rows under its own key only, or   *)
(* under a reversal key.                                                   *)
LEMMA RetriesKept ==
    ASSUME Inv, RetriesSound, RowsKept, NEW r \in Requests, NEW c \in Call \cup {NoCall},
           call' = [call EXCEPT ![r] = c],
           \A e \in EventIds : Used(e)' =>
               \/ Used(e)
               \/ \E f \in EventIds : ledger'[e].key = ReversalKey(f)
               \/ call[r] # NoCall /\ ledger'[e].key = call[r].key,
           c # NoCall =>
               \A q \in Requests \ {r} :
                   /\ call[q] # NoCall /\ call[q].retry # NoEvent /\ call[q].at \in Early
                   => call[q].key # c.key,
           c # NoCall /\ c.retry # NoEvent =>
               /\ RetryOk(c)'
               /\ c.at \in Early =>
                     \A q \in Requests \ {r} : call[q] # NoCall => call[q].key # c.key
    PROVE  RetriesSound'
<1>1. call'[r] = c /\ \A q \in Requests \ {r} : call'[q] = call[q]
  BY DEF Inv, TypeOK
<1>2. ASSUME NEW q \in Requests \ {r}, call[q] # NoCall, call[q].retry # NoEvent
      PROVE  RetryOk(call[q])'
  <2>1. PICK d : d = call[q]
    OBVIOUS
  <2>2. RetryOk(d)
    BY <1>2, <2>1 DEF RetriesSound
  <2>3. Used(d.retry)' /\ d.source = ledger'[d.retry].source
    BY <2>2 DEF RetryOk, RowsKept
  <2>4. d.at = "settle" => PostedFor(d.key, d.source)'
    BY <2>2, PostedStays DEF RetryOk
  <2>5. ASSUME d.at \in Early, NEW e \in EventIds, Used(e)'
        PROVE  ledger'[e].key # d.key
    <3>1. CASE Used(e)
      BY <2>2, <2>5, <3>1 DEF RetryOk, RowsKept, KeyFree
    <3>2. CASE \E f \in EventIds : ledger'[e].key = ReversalKey(f)
      BY <2>2, <3>2, RetryKeysApart DEF RetryOk
    <3>3. CASE call[r] # NoCall /\ ledger'[e].key = call[r].key
      BY <1>2, <2>1, <2>5, <3>3 DEF RetriesSound
    <3>4. QED
      BY <2>5, <3>1, <3>2, <3>3
  <2>6. RetryOk(d)'
    BY <2>2, <2>3, <2>4, <2>5 DEF RetryOk, KeyFree, Used
  <2>7. call'[q] = d
    BY <1>1, <2>1
  <2>8. QED
    BY <1>1, <2>6, <2>7 DEF RetryOk, PostedFor, KeyFree, Used
<1>3. QED
  BY <1>1, <1>2 DEF RetriesSound, RetryOk, PostedFor, KeyFree, Used

(* A step that writes no row keeps the retries in flight sound.            *)
LEMMA MoveKeeps ==
    ASSUME Inv, RetriesSound, ledger' = ledger, NEW r \in Requests,
           NEW c \in Call \cup {NoCall}, call' = [call EXCEPT ![r] = c],
           c # NoCall =>
               \A q \in Requests \ {r} :
                   /\ call[q] # NoCall /\ call[q].retry # NoEvent /\ call[q].at \in Early
                   => call[q].key # c.key,
           c # NoCall /\ c.retry # NoEvent =>
               /\ RetryOk(c)
               /\ c.at \in Early =>
                     \A q \in Requests \ {r} : call[q] # NoCall => call[q].key # c.key
    PROVE  RetriesSound'
<1>1. RowsKept
  BY DEF RowsKept, Used
<1>2. \A e \in EventIds : Used(e)' => Used(e)
  BY DEF Used
<1>3. c # NoCall /\ c.retry # NoEvent => RetryOk(c)'
  BY DEF RetryOk, PostedFor, KeyFree, Used
<1>4. QED
  BY <1>1, <1>2, <1>3, RetriesKept

(* Starting a call: a retry begins with a fresh key, and no other call     *)
(* begins with the key of a retry that has not written its row.            *)
LEMMA StartKeepsRetries ==
    ASSUME Inv, RetriesSound, NEW r \in Requests,
           \/ \E s \in Sources : Post(r, s)
           \/ \E e \in EventIds : Retry(r, e) \/ StartResolve(r, e) \/ StartReverse(r, e)
    PROVE  RetriesSound'
<1>1. ASSUME NEW q \in Requests, call[q] # NoCall, call[q].retry # NoEvent,
             call[q].at \in Early
      PROVE  /\ KeyFree(call[q].key)
             /\ \A s : call[q].key # LiveKey(s)
  BY <1>1, RetryKeysApart DEF RetriesSound, RetryOk
<1>2. \A x \in EventIds : Used(x) => ledger[x] \in Row
  BY DEF Inv, TypeOK, Used
<1>3. ASSUME NEW s \in Sources, Post(r, s) PROVE RetriesSound'
  <2>. DEFINE c == [at |-> IF valid[s] THEN "lookup" ELSE "record",
                    source |-> s, key |-> LiveKey(s), retry |-> NoEvent, event |-> NoEvent]
  <2>1. c \in Call /\ c.key = LiveKey(s) /\ c.retry = NoEvent
    BY KeyKinds DEF Call, Stages
  <2>2. call' = [call EXCEPT ![r] = c] /\ ledger' = ledger
    BY <1>3 DEF Post, StartPost
  <2>. HIDE DEF c
  <2>3. QED
    BY <1>1, <2>1, <2>2, MoveKeeps
<1>4. ASSUME NEW x \in EventIds, Retry(r, x) PROVE RetriesSound'
  <2>1. PICK n \in Nonces :
            FreshNonce(x, n) /\ StartPost(r, ledger[x].source, RetryKey(x, n), x)
    BY <1>4 DEF Retry
  <2>2. Used(x) /\ ledger[x].source \in Sources /\ x # NoEvent
    BY <1>2, <1>4, NoEventAssumption DEF Retry, Inv, RowsSound, Row
  <2>. DEFINE c == [at |-> IF valid[ledger[x].source] THEN "lookup" ELSE "record",
                    source |-> ledger[x].source, key |-> RetryKey(x, n), retry |-> x,
                    event |-> NoEvent]
  <2>3. /\ c \in Call /\ c.at \in Early /\ c.source = ledger[x].source
        /\ c.key = RetryKey(x, n) /\ c.retry = x
    BY <2>2, KeyKinds DEF Call, Stages, Early
  <2>4. call' = [call EXCEPT ![r] = c] /\ ledger' = ledger
    BY <2>1 DEF StartPost
  <2>. HIDE DEF c
  <2>5. KeyFree(c.key) /\ \A q \in Requests : call[q] # NoCall => call[q].key # c.key
    BY <2>1, <2>3 DEF FreshNonce
  <2>6. RetryOk(c)
    BY <2>2, <2>3, <2>5 DEF RetryOk, Early
  <2>7. QED
    BY <2>3, <2>4, <2>5, <2>6, MoveKeeps
<1>5. ASSUME NEW stage \in {"resolve", "reverse"}, NEW e \in EventIds, Used(e),
             StartOn(r, stage, e)
      PROVE  RetriesSound'
  <2>. DEFINE c == [at |-> stage, source |-> ledger[e].source, key |-> ledger[e].key,
                    retry |-> NoEvent, event |-> e]
  <2>1. c \in Call /\ c.key = ledger[e].key /\ c.retry = NoEvent
    BY <1>2, <1>5 DEF Call, Stages, Row
  <2>2. call' = [call EXCEPT ![r] = c] /\ ledger' = ledger
    BY <1>5 DEF StartOn
  <2>. HIDE DEF c
  <2>3. QED
    BY <1>1, <1>5, <2>1, <2>2, MoveKeeps DEF KeyFree
<1>6. ASSUME NEW e \in EventIds, StartResolve(r, e) PROVE RetriesSound'
  BY <1>5, <1>6 DEF StartResolve, Inv, RowsSound
<1>7. ASSUME NEW e \in EventIds, StartReverse(r, e) PROVE RetriesSound'
  BY <1>5, <1>7 DEF StartReverse
<1>8. QED
  BY <1>3, <1>4, <1>6, <1>7

\* A call at another stage is otherwise the same.
Moved(c, stage) == [c EXCEPT !.at = stage]

(* What moving on leaves of a call.                                        *)
LEMMA MovedCall ==
    ASSUME NEW c \in Call, NEW stage \in Stages
    PROVE  /\ Moved(c, stage) \in Call /\ Moved(c, stage).at = stage
           /\ Moved(c, stage).key = c.key /\ Moved(c, stage).retry = c.retry
           /\ Moved(c, stage).source = c.source
BY DEF Moved, Call

(* What the soundness of the retries says of the call that is served.      *)
LEMMA Served ==
    ASSUME Inv, RetriesSound, NEW r \in Requests, call[r] # NoCall
    PROVE  /\ call[r] \in Call
           /\ \A q \in Requests \ {r} :
                /\ call[q] # NoCall /\ call[q].retry # NoEvent /\ call[q].at \in Early
                => call[q].key # call[r].key
           /\ call[r].retry # NoEvent =>
                /\ RetryOk(call[r])
                /\ call[r].at \in Early =>
                     \A q \in Requests \ {r} : call[q] # NoCall => call[q].key # call[r].key
BY DEF Inv, TypeOK, RetriesSound

(* Every query of every call keeps the retries sound.                      *)
LEMMA ServeKeepsRetries ==
    ASSUME Inv, RetriesSound, RowsKept, NEW r \in Requests, Serve(r) \/ CutOff(r)
    PROVE  RetriesSound'
<1>1. call[r] # NoCall
  BY DEF Serve, CutOff, RecordFailure, RecordException, Lookup, Create, Settle, Resolve,
         Reverse, At
<1>2. PICK d : d = call[r]
  OBVIOUS
<1>3. /\ d \in Call
      /\ \A q \in Requests \ {r} :
            /\ call[q] # NoCall /\ call[q].retry # NoEvent /\ call[q].at \in Early
            => call[q].key # d.key
      /\ d.retry # NoEvent =>
            /\ RetryOk(d)
            /\ d.at \in Early =>
                 \A q \in Requests \ {r} : call[q] # NoCall => call[q].key # d.key
  BY <1>1, <1>2, Served
<1>4. ASSUME ledger' = ledger, Done(r) PROVE RetriesSound'
  BY <1>4, MoveKeeps DEF Done
<1>5. ASSUME ledger' = ledger, d.at \in Early, GoTo(r, "create") PROVE RetriesSound'
  <2>1. call' = [call EXCEPT ![r] = Moved(d, "create")]
    BY <1>2, <1>5 DEF GoTo, Moved
  <2>. DEFINE c == Moved(d, "create")
  <2>2. /\ c \in Call /\ c.at = "create"
        /\ c.key = d.key /\ c.retry = d.retry /\ c.source = d.source
    BY <1>3, MovedCall DEF Stages
  <2>. HIDE DEF c
  <2>3. c.retry # NoEvent => RetryOk(c)
    BY <1>3, <1>5, <2>2 DEF RetryOk, Early
  <2>4. QED
    BY <1>3, <1>5, <2>1, <2>2, <2>3, MoveKeeps DEF c
<1>6. CASE RecordException(r) \/ Settle(r) \/ Resolve(r) \/ CutOff(r)
  BY <1>4, <1>6 DEF RecordException, Settle, Resolve, CutOff
<1>7. CASE Lookup(r)
  <2>1. d.at = "lookup" /\ d.at \in Early /\ ledger' = ledger
    BY <1>2, <1>7 DEF Lookup, At, Early
  <2>2. ASSUME ~KeyFree(d.key), Return(r) PROVE Done(r)
    BY <1>2, <1>3, <2>1, <2>2 DEF Return, RetryOk
  <2>3. QED
    BY <1>2, <1>4, <1>5, <1>7, <2>1, <2>2 DEF Lookup
<1>8. CASE Reverse(r)
  <2>1. PICK e \in EventIds : e = d.event
    BY <1>1, <1>2, <1>8 DEF Reverse, At, Inv, CallsSound, CallSound
  <2>2. \A g \in EventIds : Used(g)' =>
            Used(g) \/ \E f \in EventIds : ledger'[g].key = ReversalKey(f)
    <3>1. CASE UNCHANGED ledger
      BY <3>1 DEF Used
    <3>2. CASE \E f \in EventIds : ReversedBy(e, f)
      <4>1. PICK f \in EventIds : ReversedBy(e, f)
        BY <3>2
      <4>2. Used(e) /\ e # f
        BY <1>1, <1>2, <1>8, <2>1, <4>1
        DEF Reverse, At, Inv, CallsSound, CallSound, ReversedBy
      <4>3. ledger'[f].key = ReversalKey(e) /\ \A g \in EventIds \ {e, f} : ledger'[g] = ledger[g]
        BY <4>1, <4>2 DEF ReversedBy, Inv, TypeOK
      <4>4. QED
        BY <2>1, <4>2, <4>3 DEF Used
    <3>3. QED
      BY <1>2, <1>8, <2>1, <3>1, <3>2 DEF Reverse, ReversedBy
  <2>3. call' = [call EXCEPT ![r] = NoCall]
    BY <1>8 DEF Reverse, Done
  <2>4. QED
    BY <2>2, <2>3, RetriesKept
<1>9. ASSUME NEW e \in EventIds, NEW status \in {"posted", "failed"}, ~Used(e),
             NewRow(r, e, status)
      PROVE  /\ Used(e)' /\ ledger'[e].status = status
             /\ ledger'[e].key = d.key /\ ledger'[e].source = d.source
             /\ \A g \in EventIds : Used(g)' => Used(g) \/ ledger'[g].key = d.key
  <2>. DEFINE row == [key |-> d.key, source |-> d.source, status |-> status,
                      reversedBy |-> NoEvent]
  <2>1. row \in Row
    BY <1>3 DEF Row, Call
  <2>2. ledger' = [ledger EXCEPT ![e] = row]
    BY <1>2, <1>9 DEF NewRow
  <2>3. ledger'[e] = row /\ \A g \in EventIds \ {e} : ledger'[g] = ledger[g]
    BY <2>2 DEF Inv, TypeOK
  <2>4. QED
    BY <2>1, <2>3, NoRowAssumption DEF Used
<1>10. CASE RecordFailure(r)
  <2>1. CASE Done(r) /\ UNCHANGED ledger
    BY <1>4, <2>1
  <2>2. ASSUME NEW e \in EventIds, ~Used(e), NewRow(r, e, "failed"),
               call' = [call EXCEPT ![r].at = "except", ![r].event = e]
        PROVE  RetriesSound'
    <3>. DEFINE c == [d EXCEPT !.at = "except", !.event = e]
    <3>1. /\ c \in Call /\ c.at = "except"
          /\ c.key = d.key /\ c.retry = d.retry /\ c.source = d.source
      BY <1>3 DEF Call, Stages
    <3>2. call' = [call EXCEPT ![r] = c]
      BY <1>2, <1>3, <2>2 DEF Inv, TypeOK
    <3>. HIDE DEF c
    <3>3. c.retry # NoEvent => RetryOk(c)'
      BY <1>3, <3>1 DEF RetryOk, Early, RowsKept
    <3>4. c.at \notin Early
      BY <3>1 DEF Early
    <3>5. \A g \in EventIds : Used(g)' => Used(g) \/ ledger'[g].key = call[r].key
      BY <1>2, <1>9, <2>2
    <3>6. QED
      BY <1>1, <1>3, <3>1, <3>2, <3>3, <3>4, <3>5, RetriesKept
  <2>3. QED
    BY <1>10, <2>1, <2>2 DEF RecordFailure
<1>11. CASE Create(r)
  <2>1. CASE Done(r) /\ UNCHANGED ledger
    BY <1>4, <2>1
  <2>2. ASSUME NEW e \in EventIds, ~Used(e), NewRow(r, e, "posted"), Return(r)
        PROVE  RetriesSound'
    <3>1. PICK c \in Call \cup {NoCall} :
              /\ call' = [call EXCEPT ![r] = c]
              /\ c # NoCall =>
                    /\ c.at = "settle" /\ c.key = d.key /\ c.retry = d.retry
                    /\ c.source = d.source
      <4>1. CASE d.retry # NoEvent
        <5>1. call' = [call EXCEPT ![r] = Moved(d, "settle")]
          BY <1>2, <2>2, <4>1 DEF Return, GoTo, Moved
        <5>2. PICK c : c = Moved(d, "settle")
          OBVIOUS
        <5>3. /\ c \in Call /\ c.at = "settle" /\ c.key = d.key
              /\ c.retry = d.retry /\ c.source = d.source
          BY <1>3, <5>2, MovedCall DEF Stages
        <5>4. QED
          BY <5>1, <5>2, <5>3
      <4>2. CASE d.retry = NoEvent
        BY <1>2, <2>2, <4>2 DEF Return, Done
      <4>3. QED
        BY <4>1, <4>2
    <3>2. PostedFor(d.key, d.source)'
      BY <1>9, <2>2 DEF PostedFor
    <3>3. c # NoCall /\ c.retry # NoEvent => RetryOk(c)'
      BY <1>3, <3>1, <3>2 DEF RetryOk, Early, RowsKept, PostedFor, Used
    <3>4. c # NoCall => c.at \notin Early
      BY <3>1 DEF Early
    <3>5. \A g \in EventIds : Used(g)' => Used(g) \/ ledger'[g].key = call[r].key
      BY <1>2, <1>9, <2>2
    <3>6. QED
      BY <1>1, <1>3, <3>1, <3>3, <3>4, <3>5, RetriesKept
  <2>3. QED
    BY <1>11, <2>1, <2>2 DEF Create
<1>12. QED
  BY <1>6, <1>7, <1>8, <1>10, <1>11 DEF Serve

-----------------------------------------------------------------------------
(* The theorem *)

(* An exception becomes retried only by the settle step of its retry.      *)
LEMMA SettleKeepsRetried ==
    ASSUME RetryInv, RowsKept, [Next]_vars
    PROVE  RetriedSound'
<1>1. ASSUME NEW x \in EventIds, queue'[x] = "retried", queue[x] # "retried"
      PROVE  Used(x) /\ \E n \in Nonces : PostedFor(RetryKey(x, n), ledger[x].source)
  <2>1. PICK r \in Requests : Settle(r)
    BY <1>1 DEF Next, Serve, vars, Post, Retry, StartPost, StartResolve, StartReverse, StartOn,
       RecordFailure, RecordException, Lookup, Create, Resolve, Reverse, CutOff,
       RepairSchema, RetryInv, Inv, TypeOK
  <2>2. call[r] # NoCall /\ call[r].at = "settle" /\ call[r].retry = x
    BY <1>1, <2>1 DEF Settle, At, RetryInv, Inv, TypeOK
  <2>3. RetryOk(call[r])
    BY <2>2, NoEventAssumption DEF RetryInv, RetriesSound
  <2>4. QED
    BY <2>2, <2>3 DEF RetryOk
<1>2. ASSUME NEW x \in EventIds, queue'[x] = "retried"
      PROVE  Used(x)' /\ \E n \in Nonces : PostedFor(RetryKey(x, n), ledger[x].source)'
  <2>1. PICK n \in Nonces : Used(x) /\ PostedFor(RetryKey(x, n), ledger[x].source)
    BY <1>1, <1>2 DEF RetryInv, RetriedSound
  <2>2. PICK k, s : k = RetryKey(x, n) /\ s = ledger[x].source
    OBVIOUS
  <2>3. PostedFor(k, s)'
    BY <2>1, <2>2, PostedStays
  <2>4. Used(x)' /\ ledger'[x].source = s
    BY <2>1, <2>2 DEF RowsKept
  <2>5. QED
    BY <2>2, <2>3, <2>4 DEF PostedFor, Used
<1>3. QED
  BY <1>2 DEF RetriedSound, PostedFor, Used

(* Every step keeps the invariant.                                         *)
LEMMA RetryInvNext == RetryInv /\ [Next]_vars => RetryInv'
<1>. SUFFICES ASSUME RetryInv, [Next]_vars PROVE RetryInv'
  OBVIOUS
<1>1. Inv' /\ RowsKept
  BY InvNext, RowsStay DEF RetryInv
<1>2. RetriedSound'
  BY <1>1, SettleKeepsRetried
<1>3. RetriesSound'
  <2>1. ASSUME NEW r \in Requests,
               \/ \E s \in Sources : Post(r, s)
               \/ \E e \in EventIds : Retry(r, e) \/ StartResolve(r, e) \/ StartReverse(r, e)
        PROVE  RetriesSound'
    BY <2>1, StartKeepsRetries DEF RetryInv
  <2>2. ASSUME NEW r \in Requests, Serve(r) \/ CutOff(r) PROVE RetriesSound'
    BY <1>1, <2>2, ServeKeepsRetries DEF RetryInv
  <2>3. ASSUME (\E s \in Sources : RepairSchema(s)) \/ UNCHANGED vars PROVE RetriesSound'
    BY <2>3 DEF RepairSchema, vars, RetryInv, RetriesSound, RetryOk, PostedFor, KeyFree, Used
  <2>4. QED
    BY <2>1, <2>2, <2>3 DEF Next
<1>4. QED
  BY <1>1, <1>2, <1>3 DEF RetryInv

(* An exception marked 'retried_successfully' has a posted event of its    *)
(* source that one of its own retries created: the answer of post() to a   *)
(* retry is never the event of somebody else or a failed one, however the  *)
(* calls race and wherever they are cut off.                               *)
THEOREM RetriedAlwaysPosted == Spec => []RetriedMeansPosted
<1>1. Init => RetryInv
  BY InvInit DEF Init, RetryInv, RetriesSound, RetriedSound
<1>2. RetryInv => RetriedMeansPosted
  BY DEF RetryInv, RetriedSound, PostedFor, RetriedMeansPosted
<1>3. QED
  BY <1>1, <1>2, RetryInvNext, PTL DEF Spec

=============================================================================
