--------------------------- MODULE Notifications ---------------------------
(***************************************************************************)
(* What the users are told of one workflow instance. The engine publishes  *)
(* an event after each of its transactions, and a handler of the event     *)
(* turns it into notifications, one query at a time:                       *)
(*                                                                         *)
(*   "load" the instance -> "look" for rows of the same key                *)
(*     -> for every recipient and channel  "row" [-> "enqueue"]            *)
(*                                                                         *)
(* A row of the mail channel is sent by a job of the queue (BullMQ), whose *)
(* worker goes  waiting -> "send" -> "record" -> "complete". An attempt    *)
(* that fails is repeated up to MaxAttempts times, a job whose worker died *)
(* is taken up again once; each failure has a listener mark the row, later.*)
(***************************************************************************)
EXTENDS Naturals, FiniteSets

CONSTANTS
    Recipients, Starter,
    Last,           \* the number of steps of the template
    ApproverOf,     \* who approves a step
    Channels,       \* the channels looked at, of "in_app" and "email"
    Muted,          \* the <<user, channel>> pairs a preference turns off
    Calls,          \* the calls of the engine that can be in flight
    MaxEvents,      \* bounds the events published
    MaxAttempts,    \* the attempts of a job
    MailFaults,     \* TRUE: queries may fail, processes may die
    NoHandler

ASSUME StepsAssumption ==
    Last \in Nat \ {0} /\ ApproverOf \in [1..Last -> Recipients] /\ Starter \in Recipients
ASSUME ChannelsAssumption == Channels \subseteq {"in_app", "email"}
ASSUME NotificationFaults == MailFaults \in BOOLEAN

VARIABLES
    instance,       \* the status of the instance and its current step
    handlers,       \* the handlers running
    rows,           \* the notification of a key, a user and a channel
    jobs,           \* the job that mails a notification
    marks,          \* failure marks that are still to land
    events,         \* bounds: events published
    mails           \* history: the mails of a notification that its row tells of

engineVars == <<instance, events>>
mailVars == <<jobs, marks, mails>>
notifyVars == <<engineVars, handlers, rows, mailVars>>

\* The idempotency keys of the instance.
Keys == ({"started", "stepApproved"} \X (1..Last)) \cup ({"approved", "rejected", "returned"} \X {0})

Ids == Keys \X Recipients \X Channels
Mails == {n \in Ids : n[3] = "email"}

NoRow == [status |-> "none", seen |-> FALSE]

Job(at, tries, stalls) == [at |-> at, tries |-> tries, stalls |-> stalls]

NotifyInit ==
    /\ instance = [status |-> "none", step |-> 0]
    /\ handlers = [q \in Calls |-> NoHandler]
    /\ rows = [n \in Ids |-> NoRow]
    /\ jobs = [n \in Mails |-> Job("none", 0, 0)]
    /\ marks = [n \in Mails |-> 0]
    /\ events = 0
    /\ mails = [n \in Mails |-> 0]

-----------------------------------------------------------------------------
(* The engine: a transaction, and the event that follows it *)

Running == instance.status \in {"in_progress", "returned"}

Announce(q, kind, actor) ==
    /\ events < MaxEvents /\ events' = events + 1
    /\ handlers[q] = NoHandler
    /\ handlers' = [handlers EXCEPT ![q] = [at |-> "load", kind |-> kind, actor |-> actor,
                                            key |-> <<kind, 0>>, to |-> {}, todo |-> {}]]
    /\ UNCHANGED <<rows, mailVars>>

Start(q) ==
    /\ instance.status = "none"
    /\ instance' = [status |-> "in_progress", step |-> 1]
    /\ Announce(q, "started", Starter)

ApproveStep(q) ==
    /\ Running /\ instance.step < Last
    /\ instance' = [status |-> "in_progress", step |-> instance.step + 1]
    /\ Announce(q, "stepApproved", ApproverOf[instance.step])

\* The last approval; there is no current step any more.
ApproveLast(q) ==
    /\ Running /\ instance.step = Last
    /\ instance' = [status |-> "approved", step |-> 0]
    /\ Announce(q, "approved", ApproverOf[instance.step])

\* A rejected instance keeps its current step.
Reject(q) ==
    /\ Running
    /\ instance' = [instance EXCEPT !.status = "rejected"]
    /\ Announce(q, "rejected", ApproverOf[instance.step])

\* To an earlier step, once: a returned instance has to be approved first.
Return(q) ==
    /\ instance.status = "in_progress"
    /\ \E step \in 1..(instance.step - 1) : instance' = [status |-> "returned", step |-> step]
    /\ Announce(q, "returned", ApproverOf[instance.step])

-----------------------------------------------------------------------------
(* The handlers of the events, and notify *)

At(q, stage) == handlers[q] # NoHandler /\ handlers[q].at = stage

Done(q) == handlers' = [handlers EXCEPT ![q] = NoHandler]

\* The recipients and the key: an event about a step is one about the step
\* that is current by now, the others have one key each.
Load(q) ==
    LET h == handlers[q]
        stepwise == h.kind \in {"started", "stepApproved"}
    IN
    /\ At(q, "load")
    /\ IF stepwise /\ instance.step = 0 THEN Done(q)
       ELSE handlers' = [handlers EXCEPT
                ![q].at = "look",
                ![q].key = <<h.kind, IF stepwise THEN instance.step ELSE 0>>,
                ![q].to = IF stepwise THEN {ApproverOf[instance.step]}
                          ELSE IF h.kind = "returned" THEN {Starter, h.actor} ELSE {Starter}]
    /\ UNCHANGED <<engineVars, rows, mailVars>>

\* What there is already for the key is skipped, and what is turned off.
Look(q) ==
    LET h == handlers[q]
        todo == {p \in (h.to \X Channels) \ Muted : rows[<<h.key, p[1], p[2]>>] = NoRow}
    IN
    /\ At(q, "look")
    /\ IF todo = {} THEN Done(q)
       ELSE handlers' = [handlers EXCEPT ![q].at = "row", ![q].todo = todo]
    /\ UNCHANGED <<engineVars, rows, mailVars>>

\* What follows a row: the next one, if any. A mail has a job to enqueue.
Proceed(q, p) ==
    IF p[2] = "email" THEN handlers' = [handlers EXCEPT ![q].at = "enqueue", ![q].to = {p[1]},
                                                        ![q].todo = @ \ {p}]
    ELSE IF handlers[q].todo = {p} THEN Done(q)
    ELSE handlers' = [handlers EXCEPT ![q].todo = @ \ {p}]

\* A row is created; when another handler was first, the unique index makes
\* the insert fail, and with it the rest of the handler.
CreateRow(q) ==
    LET h == handlers[q] IN
    /\ At(q, "row")
    /\ \E p \in h.todo :
          /\ p[2] = "email" => <<p[1], "in_app">> \notin h.todo
          /\ IF rows[<<h.key, p[1], p[2]>>] # NoRow THEN Done(q) /\ UNCHANGED rows
             ELSE /\ rows' = [rows EXCEPT ![<<h.key, p[1], p[2]>>].status =
                                IF p[2] = "email" THEN "pending" ELSE "sent"]
                  /\ Proceed(q, p)
    /\ UNCHANGED <<engineVars, mailVars>>

\* The job is enqueued; that it could not be is ignored.
Enqueue(q) ==
    LET h == handlers[q]
        n == <<h.key, CHOOSE u \in h.to : TRUE, "email">>
    IN
    /\ At(q, "enqueue")
    /\ \/ jobs' = [jobs EXCEPT ![n] = Job("waiting", 0, 0)]
       \/ MailFaults /\ UNCHANGED jobs
    /\ IF h.todo = {} THEN Done(q)
       ELSE handlers' = [handlers EXCEPT ![q].at = "row", ![q].to = {}]
    /\ UNCHANGED <<engineVars, rows, marks, mails>>

\* A query of the handler fails, or its process dies.
HandlerCutOff(q) ==
    /\ MailFaults /\ handlers[q] # NoHandler
    /\ Done(q)
    /\ UNCHANGED <<engineVars, rows, mailVars>>

-----------------------------------------------------------------------------
(* The worker, and the queue that drives it *)

\* Mutated form: what has been sent is sent again.
TakeAgain(n) ==
    /\ jobs[n].at = "waiting"
    /\ jobs' = [jobs EXCEPT ![n] = [@ EXCEPT !.at = "send"]]
    /\ UNCHANGED <<engineVars, handlers, rows, marks, mails>>

\* processEmailJob loads the row; one that is sent or read is left alone.
Take(n) ==
    /\ jobs[n].at = "waiting"
    /\ jobs' = [jobs EXCEPT ![n] = IF rows[n].status \in {"sent", "read"} THEN Job("done", 0, 0)
                                   ELSE [@ EXCEPT !.at = "send"]]
    /\ UNCHANGED <<engineVars, handlers, rows, marks, mails>>

SendMail(n) ==
    /\ jobs[n].at = "send"
    /\ mails' = [mails EXCEPT ![n] = @ + 1]
    /\ jobs' = [jobs EXCEPT ![n].at = "record"]
    /\ UNCHANGED <<engineVars, handlers, rows, marks>>

Record(n) ==
    /\ jobs[n].at = "record"
    /\ rows' = [rows EXCEPT ![n].status = "sent"]
    /\ jobs' = [jobs EXCEPT ![n].at = "complete"]
    /\ UNCHANGED <<engineVars, handlers, marks, mails>>

Complete(n) ==
    /\ jobs[n].at = "complete"
    /\ jobs' = [jobs EXCEPT ![n] = Job("done", 0, 0)]
    /\ UNCHANGED <<engineVars, handlers, rows, marks, mails>>

\* A mail is forgotten when its attempt ends before the row is updated.
Forget(n) == mails' = [mails EXCEPT ![n] = IF jobs[n].at = "record" THEN @ - 1 ELSE @]

\* The attempt throws: it is repeated later, or was the last; the listener
\* issues an update and does not wait for it.
Fail(n) ==
    LET j == jobs[n] IN
    /\ MailFaults /\ j.at \in {"send", "record"}
    /\ jobs' = [jobs EXCEPT ![n] = IF j.tries + 1 < MaxAttempts
                                   THEN Job("waiting", j.tries + 1, j.stalls)
                                   ELSE Job("dead", 0, 0)]
    /\ marks' = [marks EXCEPT ![n] = @ + 1]
    /\ Forget(n)
    /\ UNCHANGED <<engineVars, handlers, rows>>

\* The worker dies; its job is taken up again once, the second time it fails.
Stall(n) ==
    LET j == jobs[n] IN
    /\ MailFaults /\ j.at \in {"send", "record", "complete"}
    /\ jobs' = [jobs EXCEPT ![n] = IF j.stalls = 0 THEN Job("waiting", j.tries, 1)
                                   ELSE Job("dead", 0, 0)]
    /\ marks' = [marks EXCEPT ![n] = IF j.stalls = 0 THEN @ ELSE @ + 1]
    /\ Forget(n)
    /\ UNCHANGED <<engineVars, handlers, rows>>

\* The update of the listener of "failed" lands, or is lost.
MarkFailed(n) ==
    /\ marks[n] > 0
    /\ marks' = [marks EXCEPT ![n] = @ - 1]
    /\ \/ /\ rows' = [rows EXCEPT ![n].status = "failed"]
          /\ mails' = [mails EXCEPT ![n] =
                          IF /\ rows[n].status \in {"sent", "read"}
                             /\ jobs[n].at # "record" /\ @ > 0
                          THEN @ - 1 ELSE @]
       \/ UNCHANGED <<rows, mails>>
    /\ UNCHANGED <<engineVars, handlers, jobs>>

-----------------------------------------------------------------------------
(* The users *)

\* markAsRead, and what markAllAsRead does to each row.
Read(n) ==
    /\ rows[n] # NoRow /\ ~rows[n].seen
    /\ rows' = [rows EXCEPT ![n] = [status |-> "read", seen |-> TRUE]]
    /\ UNCHANGED <<engineVars, handlers, mailVars>>

NotifyNext ==
    \/ \E q \in Calls :
        \/ Start(q) \/ ApproveStep(q) \/ ApproveLast(q) \/ Reject(q) \/ Return(q)
        \/ Load(q) \/ Look(q) \/ CreateRow(q) \/ Enqueue(q) \/ HandlerCutOff(q)
    \/ \E n \in Ids : Read(n)
    \/ \E n \in Mails :
        \/ Take(n) \/ SendMail(n) \/ Record(n) \/ Complete(n)
        \/ Fail(n) \/ Stall(n) \/ MarkFailed(n)

NotifySpec == NotifyInit /\ [][NotifyNext]_notifyVars

-----------------------------------------------------------------------------
(* Properties *)

(* However handlers race, attempts fail and workers die, a notification is *)
(* mailed again only when its row no longer tells of the mail before: the  *)
(* attempt ended between the mail and the update, or the mark of an earlier *)
(* failure landed on top of the update.                                    *)
MailedOnce == \A n \in Mails : mails[n] <= 1

\* The instance, as the engine shows it to its record.
Engine == INSTANCE RecordApproval WITH
    Records <- {"record"},
    undecided <- [r \in {"record"} |-> IF Running THEN instance.status ELSE "none"],
    approved <- {r \in {"record"} : instance.status = "approved"}

(* The decisions that are told of are those of one instance that the       *)
(* engine promises.                                                        *)
TellsOfEngine == Engine!ApprovalSpec

=============================================================================
