# Verification of the Fun Makers project-control system

TLA+ models, TLC runs and TLAPS proofs about the domain services of this
repository. The system is a TypeScript monorepo: a Next.js application
(`apps/web`) whose API routers call the services of `packages/core`, which keep
all their state in PostgreSQL through Prisma (`packages/db`), and a job worker
(`packages/jobs`) for e-mail. The logic that carries the program is in
`packages/core/src`; paths below are relative to it unless they start with
`packages/`, `apps/` or `docs/`.

## 1. How the program works, and why it is hard

Nearly every state-changing service has the same shape:

1. it **reads** a row and checks statuses and permissions, outside a transaction;
2. it **writes**, in one `$transaction` or in one `update` that names the row by
   its id only;
3. it **follows up**: a workflow is started, the budget line is changed, a
   posting event is written, each by queries of its own; or events go to an
   in-process bus (`workflow/events.ts`) whose handlers run in the same request.

PostgreSQL runs at its default isolation, read committed. So requests interleave
between any two of these stages, every value read may be stale when it is used,
and a process that dies leaves behind what it has committed: there is no outbox
and nothing resumes a request. The models keep exactly these stages apart. What
the database does guarantee (a transaction takes effect at once, a unique index
holds, `increment` and `decrement` are atomic) is assumed.

## 2. Inventory

| Component | State | Operations | Interacts with | Hard behaviour | Correct when |
| --- | --- | --- | --- | --- | --- |
| Workflow engine `workflow/instances.ts`, `steps.ts`, `events.ts` | instances (status, current step), append-only action rows | start, approve, reject, return, cancel | event bus, templates, every record service | checks outside the transaction; events after the commit | no mandatory step is skipped, decided instances stay decided, one undecided instance per record, events report commits |
| Workflow templates `workflow/templates.ts`, `template-resolution.ts` | template rows (code, version, active), defaults and overrides that name a code | create, clone, update as a new version, activate, deactivate, resolve | workflow engine, owner of the project | two updates of one version; updates next to running instances | a code always leads to its newest version, an instance keeps its row |
| Convergence handlers `workflow/convergence-handlers.ts` | none of their own | approved, returned, rejected, for 14 record types | bus to record, budget, posting | order of the handlers of two decisions; overwriting by id | a record follows its workflow |
| Procurement records `procurement/purchase-order`, `supplier-invoice`, `expense`, `credit-note` | a status per record | create, transitions | workflow engine, budget, posting | manual transitions next to a running workflow | nothing counts unapproved, amounts count once |
| Budget absorption `budget/absorption.ts` | committed and actual amount of a budget line, exceptions | absorb an order, invoice, expense or credit note; reverse; bounded release | record services and handlers | read, compute, decrement; a pool shared by all orders of a category | the line equals what the records add up to |
| Posting engine `posting/service.ts`, `reversal.ts`, `exceptions.ts` | append-only posting events, exception queue | post, reverse, retry, resolve | every record service | idempotency checked before the create; failed event and exception written apart | keys unique, a retried exception has its event, a fact is reversed at most once |
| Commercial records `commercial/ipa`, `ipc`, `variation`, `cost-proposal`, `correspondence` | a status per record, reference numbers | create behind the gate of the parent, transitions, delete | workflow engine, posting, number counters | transitions by hand next to the workflow, a parent that changes after the gate | nothing is issued, numbered or posted unapproved; terminal statuses stay |
| Tax invoices, collections `commercial/tax-invoice`, `invoice-collection` | status, total, sum collected | issue, edit the total, collect | workflow engine, posting, certificate | status derived from the sum while a decision of the workflow overwrites it; sum read outside the transaction | no payment past the total, money only on issued invoices |
| Engineer instructions `engineer-instruction/service.ts` | status, reserve on the project budget | transitions | project budget, import | read-modify-write of the reserve; a budget that appears meanwhile | reserve equals the approved instructions |
| RFQs, quotations `procurement/rfq`, `procurement/quotation` | statuses, awarded quotation | transitions, quote, award, materialise | workflow engine, orders, contracts | award checked before its transaction; materialisation checked outside it | one winner, one order, and only of an approved RFQ |
| Vendor contracts, framework agreements `procurement/*` | a status per record | create, transitions | workflow engine | as commercial records | as commercial records |
| Vendors, categories, catalogue `procurement/*` | rows | create, update | - | none of its own | - |
| Documents `documents/*.ts`, drawings `documents/drawings` | versions, stored files, signatures; revisions and the head of a drawing | upload, supersede, sign; submit and approve a revision | object store, workflow engine | status and version number read before the transaction, files stored before it; three writes of one approval | one line of versions, signed files are kept, one revision to build from |
| Import `import/*` | batch and row statuses, live tables | stage, validate, exclude, commit, reject, cancel | budget, forecasts, applications, posting | one transaction per row, marking afterwards; users write to the same tables | a row shown as committed is live; a committed batch is complete |
| Notifications `notifications/*`, `packages/jobs` | notification rows, mail queue | notify, read, deliver, repeat | bus, queue, SMTP | a listener marks failures without waiting; a mail sent by an attempt that dies | nobody is mailed twice unless the row forgot the first mail |
| Reference numbers `commercial/reference-number` | a counter per code | next number | record services | in the transaction of its record | taken only for approved records |
| Audit, overrides `audit/*`, `access-control/override-policy.ts` | audit rows | log, override | all services | none of its own | - |
| Authentication, permissions `auth/*`, `access-control/*` | sessions, roles | look-ups | API | none of its own | - |
| Layer 1 `projects`, `entities`, `layer1/*` | participants, prime contract with a copy in the project row, intercompany contracts | join, leave, award, update, transition, delete | templates (default of the owner) | guards read before the transaction | whoever holds a contract takes part, the copy follows the contract |
| Reports `monthly-cost-sheet`, `forecast`, `dashboard`, `reconciliation` | none, or one row | sums over rows; KPI against ledger | commercial records, posting | status lists kept apart from the steps that post | the reconciliation of undisturbed records matches |
| Database client `packages/db/src/client.ts`, `middleware/*` | - | guards on signed rows, deletes and status writes | all services | the status guard checks who writes, not what | - |
| Web application, API, contracts, UI `apps/web`, `packages/contracts`, `packages/ui` | - | routing, rendering, validation | services | - | - |

`PROJECT.json` lists the same components with what is modelled of each, and the
hazards of this code at the lines where they bite.

## 3. Modules

| Module | Is |
| --- | --- |
| `WorkflowSteps` | the template an instance runs on: steps, optional steps, approvers, `IsNextStep` (`findNextStep`) |
| `ApprovalChain` | abstract: an instance is a token that walks over the steps |
| `RecordApproval` | abstract: what a record sees of its workflow instances; the link between the engine and the modules of the records |
| `WorkflowEngine` | the five operations as check, commit, publish; EXTENDS `WorkflowSteps`, refines `ApprovalChain` and, per record, `RecordApproval` |
| `WorkflowEngineProofs` | theorems about `WorkflowEngine`: for any number of racing requests, and for requests served one at a time, with the refinements of `ApprovalChain` and `RecordApproval`; in its second half the theorems about `Notifications`, which tells of an instance of the engine and which it EXTENDS |
| `PostingLedger` | abstract: an append-only ledger with unique keys and paired reversals |
| `Posting` | the services of the posting engine query by query; refines `PostingLedger` |
| `PostingProofs` | theorems about `Posting`, with the refinement of `PostingLedger` and the retried exceptions |
| `Lifecycles` | the status tables of the four procurement records and what the handlers make of an outcome |
| `BudgetControl` | abstract: what a budget line promises of its charges and releases |
| `Procurement` | composes records, workflow, handlers, budget line and posting; EXTENDS `Lifecycles`, refines `BudgetControl` when calls come one at a time |
| `ProcurementProofs` | theorems about `Procurement`, with the refinement of `BudgetControl` |
| `CommercialTables` | the status tables, handlers, numbers and postings of the other record types with a workflow |
| `Commercial` | composes those records with workflow, handlers, posting, counters and collections; EXTENDS `CommercialTables` |
| `Kpis` | the status filters of the financial KPIs and their reconciliation with the ledger; EXTENDS `Commercial` |
| `CommercialProofs` | theorems about `Commercial` and `Kpis` |
| `VersionLine` | abstract: a line of versions that is only added to and signed |
| `Documents` | a document with versions and signatures, a drawing with revisions; refines `VersionLine` |
| `DocumentsProofs` | theorems about `Documents`, with the refinement of `VersionLine` |
| `Import` | batches of rows committed to live tables |
| `Reserve` | engineer instructions and the reserve of the budget |
| `Planning` | composes `Import` and `Reserve` over the one budget of a project |
| `PlanningProofs` | theorems about `Planning`: the import and the reserve |
| `Sourcing` | an RFQ, its quotations, the award and what is made of it |
| `SourcingProofs` | theorems about `Sourcing` |
| `Notifications` | the handlers that notify, the mail queue and its worker |
| `Parties` | participants, prime contract and intercompany contracts of one project |
| `Templates` | template rows, their versions, and the choice of the template of a record |
| `ProjectSetup` | composes `Parties` and `Templates` over the owner of a project |
| `ProjectSetupProofs` | theorems about `Parties`, and about `ProjectSetup` with its refinement of `Parties` |
| `MC...` | constants and symmetry for TLC, one for each run's module |

Definitions introduced by the comment "Mutated form" are plausible mistakes next
to the definition they are a mistake of. No specification uses them; they
document which error each property would notice.

### WorkflowEngine and the code

`inst[i]` is the row of `workflow_instances` (status, current step; `NoStep` is
null), `log[i]` its action rows. A request is in `work[r]` between its check and
its transaction, together with what it read, and in `outbox[r]` while it emits.
`CheckStart`, `CheckApprove`, `CheckReject`, `CheckReturn`, `CheckCancel` are the
reads and early throws of the functions of those names; `CommitX` is the
`$transaction`, whose update names the id and checks nothing again; `Publish`
emits one event. `CutOff` is a failed transaction or a dead process. The approver
rules (role, user, project assignment) are the constant `Approvers`; comments,
SLA data and the audit row are left out. `startInstanceDeferred`, which does the
same inside the caller's transaction, appears in `Procurement`'s `Create`.

### Posting and the code

`ledger[e]` is a row of `posting_events`, `queue[x]` the exception about the
failed event `x`. `Post` and `Retry` start a call by validating the payload
(`valid`); the stages `record`, `except`, `lookup` and `create` are the queries of
`post` in their order, `settle` is the update with which `retryException` closes
its exception, `resolve` and `reverse` are the other services. The unique index on
the key makes a create throw, which ends the call. `RepairSchema` is a deployment
that corrects a schema: without one a retry could never succeed.

### Procurement and the code

`status[r]` and `flow[r]` are the statuses of a record and of its latest workflow
instance. Of the engine the module keeps what `ApprovalChain` promises: a decision
is one step and a decided instance stays decided; so nothing found here needs the
race of two decisions in the engine itself. A call walks through
`handle`/`write`/`open`/`absorb`/`relieve`/`release`/`post`, one query each:
`Ask` and `Write` are `transitionX` up to its update, `Open` the start of the
workflow on submission, `Handle` the read of a convergence handler, `Absorb` the
increment of the budget line or the exception row, `Relieve` and `Release` the
read and the decrement of `releaseCommitmentBounded`, `Post` the posting event.
There is one budget category, because only orders of one category share a line.
`approvals`, `absorbed` and `relieved` are history variables. A record's posting
is assumed to validate; what happens otherwise is the subject of `Posting`.

`transitions.ts` of each record lists `approve`, `reject` and `return` as actions,
but the services refuse them unconditionally
(`procurement/purchase-order/service.ts:211`), so the budget and posting code for
status `approved` in the transition services is never reached by them: `Ask`
excludes `managed` statuses and the approval enters through `Handle` only.

### Commercial, CommercialTables, Kpis and the code

`CommercialTables` has one entry per record type: the transition table, the
terminal and the managed statuses from its `transitions.ts`, and what its service
and its convergence handler do on top. Twelve types share the actions of
`Commercial`, as they share the shape of `transitionX`: `Ask` is the read and the
guards, `Write` the update with the reference number taken in the same transaction
(`counter`, `given`), `Open` the start of the workflow, `Post` the event of the
record and status, `Handle` the read of the handler of a decision. `ParentOf` is
the application of a certificate and the certificate of an invoice; creating checks
its status in a query of its own. `Collect` is `recordCollection` in its three
queries, with the status derived from the sum. `disturbed` remembers the records
of which calls overlapped or were cut off. `Kpis` adds no state: `StatusFilter` and
`Backing` are the lists of `kpi-definitions` and the steps that post, `Verdict` the
reconciliation.

### Documents and the code

`versions` are the rows of one document, `store[no, name]` the object under the key
made of number and name, so two uploads of the same number share a key. `Store`
precedes the transaction `Commit`, as in `uploadVersion` and `supersedeVersion`;
`Guard` is the middleware's own query about signed rows. `Submit`, `Open`,
`Converge`, `Construct`, `Retire` and `Point` are the queries of a revision's
submission and of `handleDrawingRevisionApproved`.

### Planning: Import and Reserve over one budget

In `Import`, `row[r]` and `batch[b]` are the statuses, `slot[k]` what is live under a
period or category and who put it there. `snapshot` is the hash of the live tables
taken at validation and compared once, by `Fresh`, before the rows of a commit are
gone through one by one. Users write to the same tables between any two queries. In
`Reserve` a transition that touches the budget keeps the row of its instruction to
the end of the transaction, but not the row of the budget it has read. `Planning`
lets an import create the budget at any time between the two.

### Sourcing and the code

`rfq` is the row with the awarded quotation, `quotation[i]` a status, `made[i]` how
many orders or contracts were made of it. `Award` is the one transaction that awards
the winner and rejects its siblings; `Look` and `Make` are the check and the insert
of materialisation. `Alone` is the unique index over a vendor's active quotations.

### Notifications and the code

A handler `load`s the instance, `look`s for rows of its idempotency key, then for
every recipient and channel inserts a row and enqueues a job. A job is BullMQ's
(external): waiting, active, repeated up to `MaxAttempts` times, taken up once more
when its worker stalls. `marks` are the updates the `failed` listener has issued
and nobody waits for.

### ProjectSetup: Parties and Templates of one project

`Parties` has the reads and the transaction of every operation on participants and
contracts; `project` carries the pointer and the value that `prime-contracts`
writes along. `Templates` keeps a code as a name with version marks, because an
update renames the row it replaces. Both read `entity[e].default` and the owner,
which users edit at any time: that is what `ProjectSetup` composes.

## 4. Runs

TLC must find no error in these (distinct states):

| Run | Asks | States |
| --- | --- | --- |
| `workflow_serial` | one request at a time, cut off anywhere, two instances of a record: is there one undecided instance (`OneActiveInstance`), is `ApprovalChain` implemented (`ImplementsChain`), so that a decided instance is final, and does the record see what `RecordApproval` promises (`ServesRecords`)? | 488 000 |
| `workflow_concurrent` | two requests racing: mandatory steps approved although checks are stale (`MandatoryStepsApproved`, `ApprovedPath`), action trail explains the row (`TrailExplainsRow`), events report commits once and in order (`EventsReportCommits`), every approval is announced (`ApprovalsArePublished`) | 45 000 |
| `posting_races` | two calls racing over four rows, cut off anywhere: keys (`KeysUnique`), reversals (`ReversalsPaired`), retried exceptions (`RetriedMeansPosted`), `PostingLedger`, which only appends, implemented (`ImplementsLedger`) | 54 000 |
| `procurement_orders` | two orders on one line, an invoice, an expense and a credit note, any three of them, one call at a time: `BudgetControl` implemented (`KeepsControl`), so amounts are counted once, accounted for (`AccountedFor`), records follow workflows (`Converged`), commitment within the orders that count (`CommitmentBounded`) | 1 205 000 |
| `procurement_races` | two calls racing on an order or an invoice, cut off anywhere: nothing counts unapproved (`OnlyApprovedCounts`), the line equals its trail (`LineMatchesTrail`), every approval whose call was not cut off is posted (`ApprovalsReachLedger`) | 712 000 |
| `commercial` | twelve record types and the chain application, certificate, invoice, money: nothing issued, numbered or posted unapproved (`OnlyApprovedIssued`), money implies the approvals before it (`MoneyHasCertificate`), no payment past the total (`NoOvercollection`), records follow workflows (`Converged`), terminal statuses stay (`FinalStays`), KPIs agree with the ledger (`KpisReconcile`) | 446 000 |
| `documents` | uploads, supersessions and signatures racing, or revisions of a drawing: one line of versions (`LinearHistory`) that implements `VersionLine` (`KeepsLine`), signed files kept (`SignedFileKept`), signed until superseded (`SignedUntilSuperseded`), only approved revisions are built from (`OnlyApprovedBuilt`), one at a time (`OneForConstruction`) | 439 000 |
| `planning` | a batch of each import type with failing queries and users writing meanwhile, and the reserve of two instructions: `CommittedIsLive`, `CommittedIsComplete`, `ReserveAccounted` | 2 173 000 |
| `sourcing` | racing transitions, decisions, quotations, award and order: `ApprovedBeforeQuotes`, `AwardSettled` | 919 000 |
| `notifications` | racing handlers, failing attempts, dying workers, late failure marks: `MailedOnce` | 373 000 |
| `project_setup` | racing calls on participants and contracts, or on templates: `PartiesParticipate`, `CacheFollowsContract`, `NamesMoveForward` | 533 000 |

Several of these properties are true only of calls on a record that did not
overlap, or were not cut off; they say so with `disturbed`, `overlaps`, `strained`,
`races` or `cut`, which remember it; the behaviours themselves are in the model.
In `ProjectSetup` and `Planning` such a step is the last of its behaviour, as a
bound: nothing is claimed after it. What goes wrong in the behaviours they exclude is in section 6.

TLC finds the violation in this run, of a promise the code makes about itself:

| Run | What the code does | What was promised |
| --- | --- | --- |
| `procurement_residual` | cancelling an invoiced order releases its full amount again, out of another order's commitment (`budget/absorption.ts:299`) | "releases only the residual", `budget/absorption.ts:76` |

### Bounds

- Workflow: three steps with the middle one optional, the least template in which
  an optional step is skipped going forward and entered by a return. `MaxActions`
  is 4 for two instances (start, return, approval, decision) and 5 for one (start,
  approve, return, approve, approve: completion after a return). Two requests are
  enough for every race of a check with a commit.
- Posting: one fact, four rows (the failed event, two retries and a reversal),
  two nonces, two calls; keys of different facts never meet.
- Procurement: amounts 1 and 2, so that a partial release differs from a full
  one; two orders, so that a commitment has somebody else to belong to;
  `MaxApprovals` 2 where a record may be submitted and approved again. With one
  call at a time `procurement_orders` looks at sequences of calls only; races are
  the subject of `procurement_races`, with one record in a behaviour.
- Commercial: each of the twelve types alone with two calls racing, because types
  meet only through their parents; application, certificate and invoice together
  with one call at a time, one of them cut off. Payments and totals of 1 and 2, so
  that a payment can complete, exceed, or leave a rest; `MaxTimes` 2 approvals and
  numbers, the second after a return.
- Documents: the document or the drawing in one behaviour, which share nothing;
  three versions and three revisions, so that something between the first and the
  last is superseded; two contents under one name, the case in which files meet.
- Planning: one batch of two rows of different periods, which users write to as
  well; one write of a user, enough to make any read stale; two instructions of
  amounts 1 and 2, moved by one transition at a time, because two that overlap do
  lose a reserve (section 6). What the composition leaves out of the product is stated in the module.
- Sourcing: two vendors, one of which quotes twice (after a withdrawal), so that
  there is a sibling to reject and an index to hit; three overlaps.
- Notifications: two steps and four events, so that a step is returned and
  approved again; the mail channel of one recipient, because rows of different
  recipients and channels never meet but in the handler's loop.
- Project setup: two entities, two prime contracts one after the other, one
  intercompany contract; three rows of two names, two versions, two racing
  calls. The bounds on the product of the two modules, and on overlaps that
  nothing protects, are guards of `ProjectSetup!Next` with names.

Deadlock is not checked: a system whose records are all terminal, or whose bound
is used up, has nothing left to do.

### Fairness

`FairSpec` of `WorkflowEngine` and of `Procurement` says that the server goes on
with the calls it has begun: weak fairness of a request's own next query, per
request. That is the event loop of a process that stays up. In
`workflow_concurrent` no request is cut off; in `procurement_races` any may be, and
`ApprovalsReachLedger` claims nothing for the records in `cut`. Nothing is assumed
of users: nobody need ever submit, approve or retry. The other modules state no
liveness: what follows a call there is the same chain of awaited queries, and what
waits for a user or a job may wait for ever.

## 5. Proofs

TLAPS checks these for every value of the constants, under the named assumptions
in the modules: a template has steps, amounts and payments are positive, an
import's rows are not its users, placeholders are nothing they stand for, and
where a property is a sum, there are finitely many records or instructions
(`RecordsAssumption` of `Procurement`, `AmountAssumption` of `Planning`). No
constant is bounded: any number of requests, records, retries and faults.

| Theorem | Statement |
| --- | --- |
| `WorkflowEngineProofs!TypeCorrect` | `Spec => []TypeOK` |
| `WorkflowEngineProofs!ApprovedPathAlways` | `Spec => []ApprovedPath` |
| `WorkflowEngineProofs!NoMandatoryStepSkipped` | `Spec => []MandatoryStepsApproved` |
| `WorkflowEngineProofs!SerialImplementsChain` | `Serial` implies `Spec => ImplementsChain` |
| `WorkflowEngineProofs!DecidedStaysDecided` | `Serial` implies `Spec => TerminalIsFinal` |
| `WorkflowEngineProofs!OneUndecidedInstance` | `Serial` implies `Spec => []OneActiveInstance` |
| `WorkflowEngineProofs!SerialServesRecords` | `Serial` implies `Spec => ServesRecords` |
| `WorkflowEngineProofs!TrailAlwaysExplains` | `Spec => []TrailExplainsRow` |
| `WorkflowEngineProofs!EventsAlwaysReport` | `Spec => []EventsReportCommits` |
| `WorkflowEngineProofs!MailedAtMostOnce` | `NotifySpec => []MailedOnce` |
| `WorkflowEngineProofs!NoticesTellOfEngine` | `NotifySpec => TellsOfEngine` |
| `WorkflowEngineProofs!NotificationsTypes` | `NotifySpec => [](NotifyTypes /\ MailTypes)` |
| `PostingProofs!TypeCorrect` | `Spec => []TypeOK` |
| `PostingProofs!KeysAlwaysUnique` | `Spec => []KeysUnique` |
| `PostingProofs!ReversalsAlwaysPaired` | `Spec => []ReversalsPaired` |
| `PostingProofs!LedgerImplemented` | `Spec => ImplementsLedger` |
| `PostingProofs!AppendOnlyAlways` | `Spec => AppendOnly` |
| `PostingProofs!RetriedAlwaysPosted` | `Spec => []RetriedMeansPosted` |
| `ProcurementProofs!TypeCorrect` | `Spec => []TypeOK` |
| `ProcurementProofs!ApprovalComesFirst` | `Spec => []OnlyApprovedCounts` |
| `ProcurementProofs!AlwaysAccountedFor` | `Spec => []AccountedFor` |
| `ProcurementProofs!SerialCountsOnce` | `Serial` implies `Spec => []CountedOnce` |
| `ProcurementProofs!SerialConverges` | `Serial` implies `Spec => []Converged` |
| `ProcurementProofs!SerialCommitmentNotNegative` | `Serial` implies `Spec => [](committed >= 0)` |
| `ProcurementProofs!LineAlwaysMatchesTrail` | `Spec => []LineMatchesTrail` |
| `ProcurementProofs!SerialCommitmentBounded` | `Serial` and `~Faults` imply `Spec => []CommitmentBounded` |
| `ProcurementProofs!SerialKeepsControl` | `Serial` implies `Spec => KeepsControl` |
| `ProcurementProofs!ProcurementFollowsEngine` | `Spec => FollowsEngine` |
| `CommercialProofs!CommercialTypes` | `Spec => []TypeOK` |
| `CommercialProofs!CommercialOnlyApprovedIssued` | `Spec => []OnlyApprovedIssued` |
| `CommercialProofs!CommercialMoneyHasCertificate` | `Spec => []MoneyHasCertificate` |
| `CommercialProofs!CommercialConverged` | `Spec => []Converged` |
| `CommercialProofs!CommercialKpisReconcile` | `Spec => []KpisReconcile` |
| `CommercialProofs!CommercialNoOvercollection` | `Spec => NoOvercollection` |
| `CommercialProofs!CommercialFinalStays` | `Spec => FinalStays` |
| `CommercialProofs!CommercialFollowsEngine` | `Spec => FollowsEngine` |
| `DocumentsProofs!DocumentsTypes` | `Spec => []TypeOK` |
| `DocumentsProofs!DocumentsLinearHistory` | `Spec => []LinearHistory` |
| `DocumentsProofs!DocumentsSignedFileKept` | `Spec => []SignedFileKept` |
| `DocumentsProofs!DocumentsOnlyApprovedBuilt` | `Spec => []OnlyApprovedBuilt` |
| `DocumentsProofs!DocumentsOneForConstruction` | `Spec => []OneForConstruction` |
| `DocumentsProofs!DocumentsSignedUntilSuperseded` | `Spec => SignedUntilSuperseded` |
| `DocumentsProofs!DocumentsKeepsLine` | `Spec => KeepsLine` |
| `DocumentsProofs!DocumentsFollowsEngine` | `Spec => FollowsEngine` |
| `PlanningProofs!CommittedRowsAreLive` | `Spec => []CommittedIsLive` |
| `PlanningProofs!CommittedBatchesAreComplete` | `Spec => []CommittedIsComplete` |
| `PlanningProofs!ReserveAlwaysAccounted` | `Spec => []ReserveAccounted` |
| `PlanningProofs!PlanningTypes` | `Spec => [](ImportTypes /\ ReserveTypes)` |
| `ProjectSetupProofs!SetupImplementsParties` | `Spec => Companies!Spec` |
| `ProjectSetupProofs!HoldersTakePart` | `Companies!Spec => []PartiesParticipate` |
| `ProjectSetupProofs!ProjectRowFollows` | `Companies!Spec => []CacheFollowsContract` |
| `ProjectSetupProofs!OnePrimeContract` | `Companies!Spec => [](\A c, d \in Companies!Live : c = d)` |
| `ProjectSetupProofs!SetupHoldersTakePart` | `Spec => []PartiesParticipate` |
| `ProjectSetupProofs!SetupProjectRowFollows` | `Spec => []CacheFollowsContract` |
| `ProjectSetupProofs!NamesAlwaysMoveForward` | `Spec => NamesMoveForward` |
| `ProjectSetupProofs!SetupTypes` | `Spec => [](PartyTypes /\ TemplateTypes /\ StartedTypes)` |
| `SourcingProofs!SourcingTypes` | `Spec => []TypeOK` |
| `SourcingProofs!SourcingApprovedBeforeQuotes` | `Spec => []ApprovedBeforeQuotes` |
| `SourcingProofs!SourcingAwardSettled` | `Spec => []AwardSettled` |
| `SourcingProofs!SourcingFollowsEngine` | `Spec => FollowsEngine` |

Every invariant and every action property of the passing runs is among them. The
type invariants are proved and in no run; the theorems that follow rest on them.
`TerminalIsFinal`, `AppendOnly` and `CountedOnce` are proved as well and in no run: what
they say of a step is part of `ImplementsChain`, `ImplementsLedger` and `KeepsControl`,
which the runs check. `FollowsEngine` and `TellsOfEngine` have no run either: as they
say what composes the modules, they were checked with TLC under the constants of
each run before they were proved.

**No mandatory step is skipped.** `MandatoryStepsApproved` speaks of approved
instances only and says nothing about how they got there. `ApprovedPath` does:
the mandatory steps before the current step have been approved, *and so have
those before the step that any request in flight has read*. The second half is
what makes it inductive in spite of stale checks: approvals are never taken back
(`ApprovalsStay`), so what a request knew when it checked is still true when it
commits, and `IsNextStep` skips no mandatory step. The same staleness that
re-opens decided instances can therefore not skip an approval.

**One request at a time.** `Serial` says that at most one request is in flight
(`Requests` has at most one element). Then the strengthening is `Fresh`: what the
check read is what the rows still say, until the commit. It turns every commit into
a step of `ApprovalChain` on the state it changes, and every check, publication
and cut-off into a stutter. The granted steps of the chain are read off the action
trail (`GrantedByOneMore`). Without `Serial` the theorems that assume it are false (an approval checked
before a rejection commits after it, section 6): this is exactly what a lock on
the instance row would restore.

**What a record sees.** The modules of the records do without the steps of the engine: a
decision there is one action. What justifies it is `RecordApproval`, two variables
and five actions, from both sides. `SerialServesRecords` proves that `WorkflowEngine` implements it for
every record at once: the undecided instance of a record is a function of the rows
because there is one at most (`OneUndecidedInstance`), and a commit changes the rows of one
record. `ProcurementFollowsEngine` and its siblings prove that each module
only moves a workflow as `RecordApproval` does, whatever calls race or are cut off there. The
first says that the engine makes no step beyond the five, so that a module which
allows these in any order misses nothing the engine does; the second that the
modules make none beyond them either, so that nothing found about a record is
owed to a workflow no engine would run. What the engine does when
requests race is not among the promises, and nothing found about the records needs it.

**The ledger.** The invariant adds to `KeysUnique` and `ReversalsPaired` what a
call in flight may rely on (`CallSound`): a posting call never carries a reversal
key, and a reversing call is about a posted row. Nothing is known of the keys'
freshness, because the lookup is stale; the unique index is what each create step
rests on. With the invariant every step is a step of `PostingLedger` or leaves the
ledger alone (`LedgerStep`).

**Retried means posted.** The update that closes an exception names it by id and is
reached whenever `post` returns an event. That this event is posted, of the right
source and not somebody else's rests on the fresh key: until its create, the key
of a retry is free and no other call carries it (`RetriesSound`), so its lookup
finds nothing and a failed event can never be the answer. The first
call and its repetition share a key and have no such guarantee (section 6).

**Approval comes first.** The invariant says that of an order, invoice or expense
nobody has approved, every call in flight is `Innocent`: neither the status it has
read nor the one it will write counts, and it is not at a stage that touches
budget or ledger. `WaysIn` states what the status tables contribute: every move
into a counting status is managed by the engine, and only the outcome `approved`
leads there.

**Approved before quotes.** `ApprovedFirst` adds to the property what holds of every
call in flight before the approval: none of them carries a status that accepts
quotations, and none is at a stage of quoting, awarding or ordering. The tables
contribute that every move into such a status comes from one like it or is managed
by the engine (`Tables`).

**An award is settled.** `Serial` says, while no two calls have overlapped, that the
tables are `Consistent` when no call is between two queries, that at most one call
is in flight (`OneCall`), and that what it has read still holds (`Fresh`). An
overlap makes all of it void and `overlaps` positive, so the theorem holds for every
value of `MaxOverlaps`. The argument is that of the workflow engine: a lock on the
row of the RFQ is what would make the property true of every behaviour.

**The trail and the events.** `TrailExplainsRow` is inductive as it stands, because
the row and its action are written in one transaction, whatever the check had read.
`EventsReportCommits` needs the events that are still to be emitted: what waits in
an `outbox` reports an action of the trail and has not been published
(`Announces`), an `approved` goes out after its `stepApproved`, and no two requests
have the same action to announce (`OwnAction`).

**A mail at a time.** The property counts mails; its invariant `Settled` says where a count of one can come
from. A mail that was sent shows in its row, or its job is at `record` and about to
write that; a job that is at `send` has nothing to its name. The second half is about
the handlers: only one that has inserted the row enqueues a job, the unique key lets
one insert it, and until then there is no job. So a job exists once, and its two
ways back to `waiting` pass through `Forget`.

**Accounted for.** `AccountInv` follows a record from the decision to the ledger: one
that counts and was not cut off is absorbed and posted, or a call in flight has its
absorption or its posting still before it (`Pursued`). Any number of handlers may
race on it: the status tables contribute that a call which makes its record count
either does all of this or read it when it counted already.

**Procurement, one call at a time.** `SerialInv` distinguishes a record at `Rest`
from the record of the one call (`InCall`), stage by stage: an approval that the
record does not show yet is in the hands of that call, and at `absorb` nothing has
been absorbed. Both fail for two calls (a decision handled while a user transition
writes). A call may be cut off anywhere, after which the record is in `cut` for
`Converged`, but still absorbed at most once.

**The budget line.** `LineMatchesTrail` is about sums over all records, and holds for any
races, since the database adds and subtracts atomically: what can be stale is the
amount, and the trail takes the same amount. `CommitmentBounded` needs more: while
a release is under way, the commitment it has read is still there (`ReleaseInv`,
which gives that it never gets negative, `SerialCommitmentNotNegative`), and the
commitment is at most the amounts of the orders that stand for it (`Backed`): those
that count, but for one still to be absorbed, and one that no longer counts until
it has been released. `Faults` must be false here: a process that dies after the order
was cancelled and before its release does leave its amount on the line, in the code
as in the model. The run makes the same restriction.

**Sums.** The library's induction rules need an operator as a parameter, which none of
the provers can instantiate. The theorems on sums do without: `Smallest` says
that a set of subsets of a finite set has a smallest element (by the well-foundedness
of inclusion, which can be cited), and each fact about sums is shown by taking a
smallest subset for which it fails. `MapThenSumSet` is connected with a recursive function
(`SumOf`) in that way; the rest is how a sum changes when one term does.

**What the budget line promises.** `BudgetControl` knows admitted and charged records and two
amounts. `SerialKeepsControl` maps an approval to `Admitted`, an absorption to `Charged`
or `Credited`, and a release to `Released`. That an absorption finds its record
admitted is `ApprovalComesFirst`, that it finds it not charged is `SerialCountsOnce`, and that a
release takes no more than there is committed is `ReleaseInv`; the earlier theorems are
thus cited in the primed state, and no further invariant is needed. Cut-offs are steps of it like any others:
what they leave behind (an amount never released) breaks no promise of this kind,
only `CommitmentBounded`.

**Commercial records.** The invariant has a part for each question. `ApprovalFirst` is the argument of
`ApprovalComesFirst`, over twelve tables. `Lineage` and `Billing` carry
`MoneyHasCertificate`: the gate of a child is read once and a call in flight keeps
what it saw, so what is kept is not the status of the parent but its approval, which is never
taken back; and nothing but an issued, numbered invoice gets to a status that takes money.
`Orderly` is for records of which no calls have overlapped: there is one call,
what it has read is `Fresh`, what it is about to write `Agrees` with the workflow,
and takes the record into a KPI only where it will be posted (`Followed`). The tables
enter through a dozen facts about `CommercialTables` that are checked entry by entry.
`KpisReconcile` then follows record by record (`Backed`) and needs no sums: the verdict
compares sets.

**Documents.** `LinearHistory` holds for any races because the number is unique and the
transaction fails otherwise: `History` adds that a call never carries a number beyond
the next one, nor supersedes another version than the one before it. The three properties with `disturbed` rest on `OneCall` and on what the
one call has read being still so (`Undisturbed`), and `Building` says, for each stage
of the approval handler, which revisions are for construction: the head alone,
with the new one after `Construct`, the new one alone after `Retire`. `Approvals` keeps that every
call at these stages carries an approved revision.

`KeepsLine` says of steps what `LinearHistory` says of states, and holds for any races
as well. The line is the sequence of versions without links and keys; each commit
is shown to append to it (`CommitAppends`, `SeenAppended`), after marking the version it
supersedes, which by `History` is the current one; a signature marks one entry. That
every other call leaves the line alone is most of the proof (`LineStays`).

**Import and reserve.** Of a row of a batch, `Live` says that what is committed is
live and posted, and `Earned` that a call at `post` or at `mark` has created what it
is about to post or mark, also when another call is on the same batch: the
unique index on the period lets one of them create it. `Alone` is what a call may
count on that never shared its batch: a batch that is being worked on is not yet
committed, and one about to be finished as committed has no row left. In
`ReserveInv` the one transition's total is that of the budget (`Holds`), and the reserve is
the sum over the approved instructions, corrected by the exceptions (`Balanced`); the
invariant is kept by an import that creates the budget in between, which is why
`NoBudget` must be no integer.

**Layer 1.** `ProjectSetup` refines `Parties` (`SetupImplementsParties`): every step of it is a step
of `Parties` or leaves its variables alone. `Parties` itself has `Sound`: a call's checks are
`StillTrue` when it writes, except where an overlap is `Recorded` in `races`, and
the pointer of the project row is exact (`Pointer`). The two properties are thus
theorems of `Parties` and, by the refinement, of the composition. `NamesMoveForward`
rests on the unique index: rows have distinct codes (`Distinct`), the row of an
update in flight still has the version that was read, and somebody holds the code
that was read (`StillHeld`); so of two updates of one version only the first finds
the code where it can take it over, and the insert of the other one fails.

Only model-checked: liveness (`ApprovalsArePublished`, `ApprovalsReachLedger`),
which is out of the prover's reach, as are ENABLED and fairness.
`ReleasesOwnResidual` is false, and its run shows how.

## 6. Observations without a run

Met while modelling. Where a document or a comment says otherwise it is quoted.

Workflow engine and handlers:

- An approval checked before a rejection commits after it and re-opens the instance
  (`workflow/steps.ts:169`; "terminal states cannot be re-opened",
  `docs/module-1-signoff.md:28`). `TerminalIsFinal` fails with two requests.
- Two concurrent starts of one record both pass the duplicate check
  (`workflow/instances.ts:96`); the schema has an index, not a unique one.
- The SLA clock looks for an action with the *current* step
  (`workflow/instances.ts:395`), but approvals carry the step that was left: the
  clock of a later step restarts at every read, unlike the comment above it says.
- An order cancelled from `returned` keeps its workflow, whose approval approves the
  cancelled order (`workflow/convergence-handlers.ts:810`; "Terminal statuses cannot
  be reopened", module 3 design, line 146).
- The handler of a return that runs after that of a later approval leaves an
  approved order returned (`workflow/convergence-handlers.ts:883`; "we drive the PO's
  status to match", line 791).
- `updateTemplate` creates the new version active even from a draft nobody activated
  (`workflow/templates.ts:181`; "An explicit activateTemplate() call is required",
  line 45). Updating an old version row renames codes to `x__v1__v1` and leaves
  two active versions; `reactivateTemplate` skips the check that a template has
  a step; an override that names a deactivated template leaves records without
  a workflow.

Posting and budget:

- A failed retry opens an exception of its own under a fresh key; retrying both
  posts the fact twice (`posting/exceptions.ts:120`; "Duplicate posting prevented by
  idempotency key", `docs/blueprint/appendices/D-event-posting-kpi-logic.md:126`).
- A repeated call gets the failed event of the first one as an answer
  (`posting/service.ts:110`; "ensures exactly-once posting even if transition is
  retried", `docs/module-3-implementation-plan.md:540`).
- A process that dies between the failed event and its exception
  (`posting/service.ts:96`) leaves a failed event nobody can retry.
- A reversal sets the back-pointer on the original row (`posting/reversal.ts`);
  `AppendOnly` and `PostingLedger` say precisely this, and no more, may change.
- Two bounded releases that read before either decrements can take the commitment
  below zero (`budget/absorption.ts:93`); `CommitmentBounded` is claimed for calls
  one at a time only.
- A submitted order without a running workflow (no template, or its instance was
  cancelled) is stuck: decisions are refused to users and nobody else takes them
  (`procurement/purchase-order/service.ts:211`).
- A credit note applied by hand while its workflow runs is reset to `verified`
  when the workflow is approved, and can be applied again. The credit note is
  therefore left out of `OnlyApprovedCounts`, `CountedOnce` and `Converged`.
- Two overlapping transitions of engineer instructions lose one of the reserves; a
  reserve approved without a budget and released with one makes the total negative.

Commercial records:

- An invoice collected in full is set back by the approval of its workflow, and two
  concurrent collections can exceed the total (`commercial/invoice-collection/service.ts:66`).
- An invoice returned, edited and issued again posts under the same key, so the
  ledger keeps the old amount.
- An invoice cancelled, superseded or sent back after issue, and an order or expense
  cancelled after approval, leave their KPI while the posted event stays;
  `kpi-definitions` marks these KPIs as in full alignment.
- `approvedCostImpact` is written only by the manual approval
  (`commercial/variation/service.ts:205`) that `transitionVariation` refuses before
  (line 169), and the payload of the handler carries none
  (`workflow/convergence-handlers.ts:549`), so the revised contract value stays
  without variations.
- A variation order may be closed straight from issued (`commercial/variation/transitions.ts:8`),
  although the comment of `commercial/revised-contract-value.ts:12` counts it "once the CLIENT
  has approved".
- Imported applications are created approved, and are not records of `Commercial`.

Documents, import, sourcing, notifications:

- Two racing uploads of one number and name overwrite each other's stored file, even
  after one of them was signed; two signers both pass the guard. An upload on a
  signed document keeps the status `signed` with a current version nobody signed; one
  that read the status before a signature undoes it.
- Two drawing revisions can both be for construction when the handlers of their
  approvals race (`workflow/convergence-handlers.ts:1935`).
- Rejecting or cancelling an import says "live state untouched"
  (`import/service.ts:18`), although rows of a partly valid batch may be committed.
  Validating such a batch again makes committed budget rows valid (and commits them
  over later edits), committed rows of the other types conflicts, and brings back
  excluded ones, so that it never becomes committed.
- A crash after the application of an imported row was created leaves it unposted; a
  soft-deleted forecast makes its period valid but impossible to commit.
- Two overlapping awards leave two awarded quotations; two overlapping
  materialisations make two orders.
- The second return of an instance, or of a step approved again after a return,
  notifies nobody, because the key is that of the first (`notifications/event-handlers.ts:258`).
- `packages/jobs` says a mail is failed only after all attempts
  (`packages/jobs/src/workers/notifications.worker.ts:11`), but the listener marks every failed attempt. A mail
  that is read in the application first is never sent; one whose job could not be
  enqueued is pending for ever.

Layer 1:

- `projects.update` writes the contract value itself, although `layer1/prime-contracts/service.ts:5`
  calls it "a denormalized cache kept in sync within the same transaction"; so do two
  overlapping updates of the contract leave different values.
- Two overlapping transitions can revive a cancelled contract, even after its holder
  left; deleting a contract checks the status it read, so one signed meanwhile is
  deleted. Contracts can be created in any status.
- `isPrime` of a former holder is never reset. `updateEntity` does not refuse a cycle
  of parents, and the router passes absent metadata on as null, which wipes the
  default template of the entity.

## 7. What is not modelled, and the plan

- **Audit log and overrides**: the audit row is written in the transaction of its
  change; an override is one transaction after pure checks.
- **Authentication and access control**: look-ups and hashing.
- **Reports** other than the KPIs: sums over rows, without state; a forecast is one
  write.
- **Vendors, categories, catalogue, user assignments**: one write per call, which no
  modelled guard reads.
- **Web application, routers, UI and shared contracts**: two thirds of the lines of
  the repository. They render, validate and route; every change of state goes
  through a service of `packages/core`, and the models stand for what these do.
  This is why the map covers a small share of the repository and a much larger
  one (about three eighths) of `packages/core/src`.
- Of modelled components: attributes without a guard, wording, logging, decimal
  arithmetic, the parsing of workbooks. `PROJECT.json` says what of each.

Every component whose steps interleave, fail or depend on each other has its
module, and what the runs check of safety is proved. What is left:

1. an abstract commercial record, with its number, its posting and its workflow, that
   `Commercial` implements for the records that are not in `disturbed`; `Orderly` is
   what the step simulation needs;
2. liveness of the other modules, should the code get the repeated calls (of a failed
   handler, of a cut-off absorption) that would justify fairness; it stays with TLC.
