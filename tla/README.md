# Formal models of the CORD API

TLA+ models of the control logic of CORD API v3 (the GraphQL server in `src/`):
what its transactions, deferred side effects, webhooks and workflows promise,
checked with TLC on small instances and, where stated, proved with TLAPS for
every value of the constants.

Every definition is translated from the source; `PROJECT.json` maps each one to
the lines it stands for, and lists the runs, the hazards, the findings, the
theorems, and for every checked property a mutated definition that breaks it.
The mutated forms stand beside the definition they replace and are named
`Bug...`; no specification uses them.

    tlc -workers 2 -config MutationTx_gel.cfg MCMutationTx.tla
    tlapm MutationTxProofs.tla

## 1. The system

The API is a NestJS application on GraphQL Yoga. Its data lives in Neo4j; parts
of the domain can live in Gel or PostgreSQL instead (`DATABASE=gel|postgres`).
Redis carries the BullMQ queues, the live query invalidations and the locks; S3
(or a directory) carries files. Requests are processed concurrently by several
instances of the server, each of them single threaded. State is shared through
the databases, Redis and, inside one operation, through objects attached to the
GraphQL context.

    mutation ─► interceptors ─► transaction(s) ─► handler ─► database, S3
                    │                               │
                    │                               ├─ publish ──┐  deferred to
                    │                               └─ invalidate┤  afterCommit
                    └── afterCommit / afterRollback ◄────────────┘
                             │
                             ▼
          broadcast transports ─► subscriptions, live queries
                             └──► WebhookListener ─► processor queue
                                                       │
       consumer ◄── delivery worker ◄── delivery queue ◄── processor worker

### 1.1 Transactional mutations and deferred side effects

*Code:* `src/src/core/database/abstract-transactional-mutations.interceptor.ts`,
`transaction-hooks.ts`, `core/neo4j/transaction.ts`,
`core/gel/transaction.context.ts`, `core/drizzle/drizzle.service.ts`,
`core/broadcast/transaction-deferred.transport.ts`,
`core/live-query/live-query-store.impl.ts`, `core/timeout.interceptor.ts`, and
the upload of `components/file/file.service.ts`.

*State:* the two callback lists of the operation (`afterCommit`,
`afterRollback`), the cached list of identifiers to invalidate, the transactions
of one or two engines, the objects in temporary or permanent storage.

*Operations:* begin, run the handler, run again after a retryable error, commit,
roll back, run and clear the callbacks, publish, invalidate, create a file
version, answer or time out.

*Hard behaviours:* the lists belong to the operation while transactions belong
to one root field and one engine; the driver executes a handler several times;
a commit can take effect and be reported as failed; callbacks are added while the
list is drained; the response can be given while the transaction goes on.

*Correct when:* nothing is announced that was not committed; everything
committed is announced, in order and once; success is answered only for what
every engine committed; a committed file has its object; no live query stays
behind the data.

### 1.2 Webhook event listener

*Code:* `core/webhooks/processor/webhook.listener.ts`,
`core/broadcast/internal-marker.ts`.

*State:* pending batches by payload object, their 10 ms timers, a promise chain
of batches being added to the processor queue.

*Operations:* an event is published, a timer fires, the chain advances, Redis
accepts or rejects a job, the module is destroyed.

*Hard behaviours:* on shutdown a loop flushes batches while the chain may hold
the same ones; a slow add must not be overtaken; a process can end with batches
at each of these stages.

*Correct when:* an event is queued once, in order, and eventually; a shutdown
that finishes has flushed what was there.

### 1.3 Webhook processing and delivery

*Code:* `core/webhooks/processor/webhook-processor.worker.ts`,
`core/webhooks/executor/webhook.executor.ts`, `core/webhooks/delivery/*`, and
`obliterate` of `core/queue/management/resolvers/queue-modifier.resolver.ts`.

*State:* webhooks (saved version, valid or not), two BullMQ queues with their
attempts and id counters, what each worker has in hand.

*Operations:* list the webhooks of a broadcast, execute each subscription, mark
invalid, add deliveries, send, retry, stall, obliterate; owners save webhooks
and deployments change the schema meanwhile.

*Hard behaviours:* a job that fails half way starts over; webhooks change
between being listed and being executed; the consumer may have processed a
payload whose answer was lost.

*Correct when:* a job that is over has handed every payload over; the request id
identifies a payload; repeats have a cause; no operation that was replaced or found
invalid is executed for a later broadcast; everything settles.

### 1.4 Project workflow

*Code:* `components/project/workflow/*`, `components/workflow/workflow.service.ts`,
`components/engagement/handlers/update-engagement-status.handler.ts`,
`components/engagement/engagement.rules.ts`, and the handlers of the budget and
of engagements.

*State:* the project's step and the steps before it, the status of every
engagement and its past, the status of the budget.

*Operations:* execute a transition (read, check, write, then every handler),
bypass to any step, change the status of an engagement, create or delete one.

*Hard behaviours:* the destination of "back" depends on the past; engagements
follow the project by rules of their own that can refuse; two users act on what
both read.

*Correct when:* statuses of project, engagements and budget agree after any
sequence of moves; what is called off returns to where it came from; no
transition is taken that was not available.

### 1.5 Periodic reports

*Code:* `components/periodic-report/handlers/*`, `periodic-report.service.ts`,
`periodic-report.repository.ts`, the updates of `project.service.ts` and
`engagement.service.ts` that run the handlers, `common/temporal/date-interval.ts`,
and the finalizing of change requests (`apply-finalized-changeset-to-*.handler.ts`,
`components/changeset/*`).

*State:* the dates of a project and of its engagement, the reports of each type with
their intervals and what was filled in, a change request with proposed dates.

*Operations:* save a project or an engagement, directly or within a request; open,
approve, reject a request; fill a report in or skip it.

*Hard behaviours:* reports are changed by the difference between two saves; the final
report is a single day where the half-open deletion, the last period and the end meet;
a report that was filled in must survive; requests are synced only in part.

*Correct when:* every period of the dates has its report, empty reports lie within the
dates, one final report follows the end, and nothing filled in is lost.

### 1.6 Partnerships and budgets

*Code:* `components/partnership/*`, `components/budget/*`,
`components/project/handlers/apply-finalized-changeset-to-project.handler.ts`.

*State:* the partnerships of a project (funding or not, primary or not, date
overrides), the records of its budget by partner and fiscal year with their amounts,
the changes a request proposes.

*Operations:* create, update and delete a partnership, change the dates, enter an
amount, each directly or within a request; approve or reject.

*Hard behaviours:* records follow the difference of two lists of years; the same hooks
run within requests, against a view that merges proposed and live values; approving
and rejecting share their handlers.

*Correct when:* one partnership is primary; each funding partner has one record per
fiscal year and keeps its amounts; a request, once approved, has its records live.

### 1.7 Webhook registry and observed channels

*Code:* `core/webhooks/management/*`, `core/webhooks/channels/*`,
`core/neo4j/migration/migration-runner.service.ts`.

*State:* webhooks with their operation and validity, the channel nodes they share, when
each was evaluated, the schema version of the database.

*Operations:* save and delete webhooks; after a deployment list the stale ones,
re-evaluate them one by one, mark those whose operation is broken and tell the owner.

*Hard behaviours:* users save and delete what the migration has listed; two instances
may run it at once; it may fail between any two queries and be run again; old and new
servers answer side by side.

*Correct when:* channels exist as long as somebody observes them; after the migration a
valid webhook observes what the new code says; only broken operations are marked, and
their owners are told; the migration comes to its end.

### 1.8 Department ids

*Code:* `components/project/handlers/set-department-id.handler.ts`, the saves and
transitions that run it, `components/finance/department/neo4j.utils.ts`, and
`components/changeset/commit-changeset-props.query.ts`.

*State:* the department id of each project and whether its property has the label the
uniqueness constraint is on, the id its change request asks for, the ranges of accounts
and partners, the transactions that are open.

*Operations:* read the project, write the save, choose the first free id, write it, run
again after a conflict, set an id by hand, directly or in a change request, approve or
reject that request, delete a project, change ranges.

*Hard behaviours:* the choice is made from what is committed, so two transactions choose
the same id; the project may have been read before it was locked; ids of a change
request escape the constraint; ranges run out.

*Correct when:* no two projects share an id; a project that is due one has one and
keeps it; every save ends.

### 1.9 Everything else

Not modelled; each component of `PROJECT.json` says why.

| Components | State and operations | Why not |
|---|---|---|
| Authentication, sessions | tokens of sessions and password resets | a protocol with no ties to the rest; left out so far |
| Progress report workflow | status, static transitions | the engine of 1.4 without its dynamic parts |
| Authorization policies | grants merged from policies | pure; configuration decides them |
| Scheduler, locks | a lock in Redis for each task | no task is scheduled in this code |
| Files and media (beyond versions) | directories and names | plain records |
| Webhook validation, exceptions, configuration, tracing, HTTP, e-mail | none, or none a property is about | layout and plumbing |
| Data loaders, cache, hooks, GraphQL server, Redis stand-in | the state is in libraries | external |
| Query layers, indexes | build queries; run once at start | their transactions are in 1.1 and 1.8 |
| Users, languages, locations, partners, organizations, products, comments, ... | plain records | no protocol of their own |

## 2. The modules

| Module | Role |
|---|---|
| `MutationTx` | one mutation operation, its transactions and deferred effects (1.1) |
| `EventOutbox` | the abstract specification of 1.1: what deferring a broadcast promises |
| `WebhookListener` | from events to jobs (1.2) |
| `WebhookDelivery` | from jobs to the consumers (1.3) |
| `ProjectWorkflow` | a project, its engagements and budget (1.4) |
| `PeriodicReports` | reports and the dates they follow, change requests included (1.5) |
| `ProjectFunding` | partnerships, primary, budget records, change requests (1.6) |
| `WebhookRegistry` | webhooks, channels, deployment and migration (1.7) |
| `DepartmentIds` | concurrent assignment of department ids (1.8) |
| `...Proofs` | the theorems about each of these; those of `MutationTx` include that it implements `EventOutbox` |
| `MC...` | the sets of the instances that TLC checks |

The modules meet at these points. A callback that `MutationTx` publishes is an
`OnEventPublished` of `WebhookListener`. A job that `WebhookListener` adds is an
`Enqueue` of `WebhookDelivery`, where a broadcast stands for it. The `Record` of
`ProjectWorkflow`, and each save of `PeriodicReports` and `ProjectFunding`, is a
handler inside a `MutationTx` transaction, which is why it is one step.
`DepartmentIds` looks into such a transaction and makes each of its queries a step.
What `WebhookRegistry` leaves as valid webhooks and observed channels is what
`WebhookDelivery` lists. The request of `PeriodicReports` and that of
`ProjectFunding` are two views of one change request, whose handlers touch disjoint
state. They are not composed into one specification: each interface is one
action that can happen at any time, so the component is checked in every
environment and not only in the one its neighbour produces.

Conventions: an action is named after the method or the event; helper variables
that only properties read are declared apart as observations; bounds are
constants whose comment says "bound".

### 2.1 MutationTx

`pc` is the place of the interceptors: `handler`, then for the nested engine
`innerUndo` / `innerCommit` / `innerHooks`, then the same for Neo4j. `StartRun`
is the driver's new execution of the handler, `FailField` the rejection that ends
the operation (root fields of this schema are non-null). `Publish`,
`WriteAndInvalidate` and `CreateFileVersion` are what a handler does, any number
of times and in any order. `RunCommitHook` and `RunRollbackHook` are one
iteration of `CallbackManager.runAndClear`. `ResponseTimesOut` is the timeout
interceptor: it answers and stops nothing.

Points worth knowing when comparing with the code:

* The flush callback publishes its list through the same deferring transport, so
  it puts a further callback (`message`) at the end of the set being iterated,
  which the iteration reaches.
* The callbacks of a run that was rolled back stay in the list (`afterCommit` is
  cleared by running it, never by a rollback), so the run that commits also
  publishes what its abandoned predecessors broadcast. `PublishedOnlyAfterCommit`
  therefore speaks of the root field and not of the run.
* A nested interceptor runs all callbacks before the outer transaction commits.
  `PublishedOnlyAfterCommit` and `LiveQueriesFresh` are about Neo4j alone, where they are
  meant; the outbox asks only that some engine has
  committed.
* A commit that is reported as failed has happened or has not (`OuterCommitFails`,
  `InnerCommitFails`): the acknowledgement can be lost, and the driver then executes the
  handler once more or gives up. So two runs of a field may commit. `lostAck` and
  `lostNodes` are observations of it: `lostAck` says that such a commit has been made and
  no callback has run to its end since, `lostNodes` are its file versions. The
  properties hold across such commits, up to two things the code does not provide: a
  field that gives up after one announces nothing, and the retry of an upload finds its
  version, throws ("Already uploaded", `file.service.ts`), and its rollback moves the
  committed object back.

`EventOutbox` says the same with no interceptor, driver or callback list: units of
work (a run of a root field) ask for broadcasts, become durable, broadcasts leave in
order, a field is over when all that its durable units asked for has left. The mapping
takes `registered` for what was asked, `Durable` (committed in any engine) for what is
durable, `published` for what has left, and `Over` for what is over (fields that resolved or gave
up, but for one that gave up after a commit it was not told of, which still owes). `ImplementsOutbox` contains what `PublishedInOrderOnce` and
`NoCommittedEventLost` say one by one; these two are proved and no run repeats them.

### 2.2 WebhookListener

`timer`, `pendingBatches` and `draining` are the fields of the class. `DrainNext`
is `enqueueBatch` up to its `await`, `DrainAdded` the rest; `FlushNext` and
`FlushAdded` are the same two halves when the shutdown loop calls it. The two
interleave; what the second finds missing in `pendingBatches` it leaves alone.
A rejected add ends the process: nobody handles the rejection of the chain.

### 2.3 WebhookDelivery

A worker takes a job (`StartJob`, which is also `listForChannels`), executes the
snapshots it listed in any order, adds the payloads, and finishes. `AttemptFails`
is any error on the way, `WorkerDies` a stall that BullMQ gives to another
worker. Ids are those of BullMQ's counter, because the `options` the code passes
to `addBulk` are ignored by BullMQ, which reads `opts`.

Abstractions: a webhook is the version its owner saved; the GraphQL document, the
signature and the handshake of the sender are data no property is about. A
filter that drops a broadcast is the same as not observing it.

`outdated` is an observation: for each broadcast the versions of webhooks that were
replaced, or invalid, when it was made. `NothingOutdatedIsSent` is about these and not
about the webhook as it is: a job lists and executes later, so a webhook saved in between
gets the broadcast in its new version, which is meant to be, and the payload it gets in
the version that was listed before the save is one its owner had not yet replaced.

### 2.4 ProjectWorkflow

`DevelopmentTransitions` ... `ClosingTransitions` are the table of
`project-workflow.ts`, a line for each group; destinations that depend on the past
are lists from which `MostRecent` takes the one left last. `NextStatuses` is
`EngagementRules`, `NewStatus`, `Followers` and `Refused` the handler that lets
engagements follow, `NewBudget` that of the budget. `ResolveTransition` is
`executeTransition` up to the write, `Record` the write and the handlers.

Of the past only the values something can go back to are kept (`Homes`), each
once, most recent first, which is all that `MostRecent` can tell apart.
Which role may execute which transition is left out: the model lets staff do
whatever any role may, so what holds in it holds however rights are divided.
Skipping the rules, which administrators and Field Services may do, is counted
in `overrides`.

Users write in between each other: between one user's `ResolveTransition` and `Record`
others record transitions, and change, create and delete engagements. Nothing in the code
prevents it. `overtaken` are the users whose run was decided on something that has changed
since: another transition was recorded, or, if they are completing the project, an engagement
was created or moved (that none is open is required of the transition when it is resolved, and
not looked at again when it is written). `crossed` is set when such a run is recorded all the same. The properties speak
of projects that are `Regular`, that is, on which no rule was skipped and no overtaken run
was recorded; everything else users do at once is covered.

### 2.5 PeriodicReports

The three types of reports do not influence each other, so a behaviour follows one of
them (`type`). Days are numbers, months and quarters spans of them. `Synced` is
`AbstractPeriodicReportSync.sync`: `Deleted`, then `Merged`, then `WithFinal`. `DiffBy`
and `DiffFinancial` are the differences of two ranges, `SyncedToProject` and
`SyncedToEngagement` the two handlers. `UpdateProject`, `UpdateEngagement` and
`CreateEngagement` are saves with their hooks; `ProposeProject` and the other two
proposals are the same saves within the request, whose values stay in
`request.changes` until `Approve` or `Reject`. `Direct` says that no request was saved
in; `born` remembers the dates a project was created with, which nothing syncs.

### 2.6 ProjectFunding

A day is its fiscal year. A partnership is absent, proposed by the request, or live;
`Seen` is what a viewer within the request gets (`coalesce` of proposed and live
values), `Years` the fiscal years of its dates, `SyncedOf` the difference of these
years that `syncRecords` applies. `Finalized` and `Applied` are the handlers that both
`Approve` and `Reject` run; only the property values depend on which it was.
`crossed` notes that a request was rejected, was mixed with direct saves, or took a
date away, which `RequestsCoverDates` leaves out.

A change of dates reaches the records of the first page of partnerships only, because the
handler lists them with a filter and no page (`FirstPage`, `PageSize`; the default is 25).
`before` is the order of the list. `skipped` is an observation: the partners whose years
such a change altered beyond the first page, until a save of their partnership makes up
for it; the properties leave them out. A budget's records follow whether it is
pending or current: the comment in `sync-budget-records-to-funding-partners.handler.ts`
("only continue if it is pending") is contradicted by the query it introduces
(`currentBudgetForProject`), which takes the current budget first, then a pending one, then any.

### 2.7 WebhookRegistry

An operation is a model value, and `Meant` what executing it observes under the old and
the new code. `Save` and `Delete` are transactions; each query of the migration is one
as well: `ListStale`, `Reevaluate`, `MarkInvalid`, `Tell`, with `NotFound` and
`MigrationFails` for what ends it early. `Deploy` replaces the servers in two steps and
`DatePasses` is the version's date. `by` and `overtaken` are observations: the code each
evaluation was made with, and the webhooks that were saved while a runner had them
listed.

### 2.8 DepartmentIds

A saver's transaction goes through `Start`, `Read`, a write (`WriteUpdate`,
`SetByHand`, `WriteTransition`), the hook (`Leave`, or `ChooseNext` and `WriteId`), and
`Commit`; `Conflict` runs it again from the start, `Refuse` and `Fail` roll it back.
Neo4j is the two locks the code relies on: a write locks its project (`Locked`), a
constrained value is locked by who writes it (`Held`); reads see what is committed.
`hand` and `stale` are observations: ids last set by an administrator, directly or in a
request, and projects saved by an update that had read an older state.

`Propose` is `SetByHand` within a change request (`asked` is the id the request has),
`Approve` its commit and `Drop` its rejection, or the approval for a project whose property
never existed, which changes nothing. A value written in a request gets no label, and
`commitChangesetProps` adds none, although `create-property.ts` says that labels come "when
they are applied for real"; `unlabelled` are the projects whose live property has none
until it is written again (`Labels`). The constraint does not see these, and `NoTwoShare` and
`DueHasId` leave them out. Simplifications: a project has one open request, and an
approval is one step that waits for the project's lock like a save.

## 3. What is checked

### 3.1 Runs that pass

| Run | Instance | Shows |
|---|---|---|
| `mutation_single` | 1 root field, 3 runs, 2 broadcasts, 2 identifiers, 2 uploads, Neo4j alone, any commit may lose its acknowledgement, fair | files moved, moved back and moved again are in place once committed; no live query stale; nothing announced before its field committed; what was committed is published in the end |
| `mutation_gel` | 2 root fields, 3 runs, 2 broadcasts, Gel inside Neo4j, any commit of either may lose its acknowledgement | types; the operation implements `EventOutbox`; answers match commits |
| `listener` | 2 payloads, 2 external channels, 1 internal, fair | queued once, in order; shutdown flushes; events are queued unless the process ends |
| `delivery_safety` | 2 webhooks (symmetric) of 2 versions each, 1 broadcast, 1 worker, 1 attempt, 1 stall, 1 obliteration, 1 broken operation | a job that is over has handed over every payload; repeats are bounded by restarts |
| `delivery_live` | 1 webhook of 2 versions, 2 broadcasts, 2 workers, 2 attempts of jobs and of deliveries, 1 broken operation, fair | ids name payloads; nothing is sent that was replaced or invalid when its broadcast was made; every broadcast settles |
| `workflow` | 1 project, 2 engagements, 2 users who write in between each other, both symmetric | statuses of project and engagements agree; what is called off returns to where it came from |
| `reports` | dates in two quarters of two months, 1 report filled in or skipped, 2 saves within a request, any number of direct saves | types and unique reports; every period covered; no empty report outside; one final report, at the end; the right one is due; nothing filled in is lost |
| `funding` | 2 partners (symmetric), pages of 1 partnership, spans of no, one and three years, 4 saves, 2 of them within a request, 1 amount | one primary; a record for each partner and year; requests cover their dates; amounts are kept |
| `registry` | 2 webhooks, 3 operations, 2 channels, 3 changes by users, 2 runners, 1 failure, fair | channels live as long as their observers; re-evaluation is complete; only the broken are marked; owners are told; the migration completes |
| `department_ids` | 2 projects of 1 account, 3 ids of which 1 external, 2 savers, 3 saves, 2 runs each, 1 change of ranges, 1 change request for each project at a time, fair | ids the constraint sees are unique, given when due, kept; every save ends |

The proofs of section 4 remove the bounds for every safety and action property in this
table (one root field and one engine remain where 4.1 says so); what the instances still
carry is liveness, and that the models behave as meant.
Why their bounds are enough for the interesting cases:

* *MutationTx.* Everything shared between root fields, runs and engines is
  shared by two of them. Three runs let an upload be moved, undone and moved
  again, and let both drivers retry; they also let a commit that was not acknowledged be
  followed by one that is rolled back and by one that succeeds. Two broadcasts can be of
  one run, of two runs, or of two fields.
  `postgres` differs from `gel` by never retrying, so its behaviours are among
  those of the `gel` run.
* *WebhookListener.* The race is between one chain and one loop over a batch,
  with a second batch behind it. A third payload only lengthens the chain.
* *WebhookDelivery.* Two attempts distinguish "retried" from "given up"; the code
  has 3 and 10 and nothing depends on the number. In the run with one attempt it is the
  stall that starts a job again. Two webhooks let one fail while
  the other is invalid; two workers let one list what the other invalidates; a second
  version is a save at any moment, before or after the listing.
  One obliteration resets the counter; with one broadcast, ids are not asked about
  in that run.
* *ProjectWorkflow.* A rule about engagements speaks of one engagement and its
  project; the second is there for "every engagement" to differ from "some", and
  for a refusal by one to undo the other. Two users are enough for one to write in
  between what the other reads and records. `Homes` bounds the past by itself.
  `CONSTRAINT Explored` stops at an override, and when a run is overtaken: the properties
  do not speak of what follows when that run is recorded, and if it is refused the others
  are where they would be without it. Overrides are enabled so that the steps themselves
  are explored.

* *PeriodicReports.* `SomeDates` has an early day in one quarter and a late one in the
  next, so ranges grow, shrink, move, are cleared, and change their unit; saves are not
  bounded, as there are finitely many states. `SomeFirstDates` (bound) is where a
  project begins. Two proposals let a request set both dates, or a date and an
  engagement; one mark is enough for "filled in" and "skipped" to be told apart.
* *ProjectFunding.* An override that starts after a project of one year ends makes the
  years count down; four saves allow create, change, delete and a change of dates. A page
  of one makes the second partner the first one beyond the page.
* *WebhookRegistry.* One operation moves to another channel, one breaks, one begins to
  observe something; two webhooks can share a channel. Three changes are two saves and
  another one, or a deletion, while the migration goes on. A failure needs one rerun.
* *DepartmentIds.* Two savers conflict over an id or over a project; the third save
  finds what both left. Two runs distinguish "retried" from "given up". Projects of one
  account compete for its ids; accounts share nothing else. The external
  id is the first of its range, and `<<i2>>` is a range that is used up at once.

`CHECK_DEADLOCK FALSE` is used for `ProjectWorkflow`, where a closed project may stop
for good, and for `PeriodicReports`, where an approved request can leave the start
after the end, and every later save is refused. The other modules end in an explicit stutter (`Finished`,
`Exited`, `Stop`) so that being stuck anywhere else is an error.

### 3.2 Runs that refute what the code or its documentation says

| Run | Refuted | What happens |
|---|---|---|
| `mutation_upload_undone` | `CommittedFileInPlace` | Two root fields. The first commits a file version and leaves its undo callback registered; the second rolls back and runs it. The committed version's object is moved back to temporary holding. |
| `reports_rejected` | `RejectedIsNotApplied` | A request creates an engagement and is rejected. The handler that finalizes it activates the engagement all the same. |

`PROJECT.json` quotes the lines each contradicts. TLC also reached the following while
the models were written; a property is limited to what remains true, or the hazard's
note in `PROJECT.json` says so:

* two root fields: what the second invalidates is never flushed, because the cached
  list outlives its flush callback (`LiveQueriesFresh` is checked for one field);
* after a queue is obliterated, request ids are used again, because the random `jobId`
  never reaches BullMQ (`RequestIdNamesPayload` is checked without obliteration);
* a webhook is marked invalid and the attempt then fails: the next attempt lists valid
  webhooks only, and the owner is not told; so in the migration (`OwnersAreTold` holds
  without failures);
* two users resolve a transition each before either records it: the second step is
  written over the first although no transition leads there (`crossed`); so is a completion
  although an engagement was opened after it was resolved;
* the acknowledgement of a commit is lost: if the field then gives up, nothing announces
  what was committed (`lostAck`), and if an upload is retried, its committed object goes back
  to temporary holding (`lostNodes`);
* an approved request leaves an engagement without progress reports, can leave dates
  out of order, and applies neither the removal nor the new amount of a live record;
* a final report that was skipped is deleted and created anew by the next save;
* within a request, deleting a partnership deletes its live records, and a proposed
  primary takes primary from the live one (`Direct`); an override taken away still
  counts in the request's view (`crossed`); a current budget gains and loses records,
  which the handler's comment excludes and its query does not (2.6);
* a webhook saved while the migration has it listed gets the older operation's channels,
  or its invalidity (`overtaken`); deleting several webhooks at once can leave a channel
  behind;
* of two saves of one project that overlap, the later gives it a second department id,
  or takes away the one a transition has just given it (`stale`);
* a department id set in a change request is live without its label after the approval:
  two live projects can share one (`unlabelled`). Within a request that took the id away,
  each save gives the project itself another id, and an approval can leave a project
  without the id it is due.
* a change of a project's dates leaves the records of partners beyond the first page of
  partnerships as they were (`skipped`).

### 3.3 Fairness

* `MutationTx`: `WF_vars(Next)`. Node's event loop runs every continuation that is
  due; the drivers settle every query and commit within their timeouts; retries
  are bounded. Nothing says which step comes next, so a timeout or a retry is
  never forced, nor is success.
* `WebhookListener`: weak fairness of each timer, of the chain, and of an add being
  answered one way or the other. Nothing forces an event or a shutdown. The
  answer may always be a rejection, which is why `EventsQueued` admits that the
  process ends.
* `WebhookDelivery`: weak fairness of the processor workers as a whole and of the
  delivery workers as a whole: live workers keep taking jobs. The bounded number of
  attempts, not fairness, is what ends retries. Failures and stalls may always
  happen within their bounds.
* `WebhookRegistry`: weak fairness of each runner's next step (`Run`): a migration that
  runs goes on, and one that failed is started again. The code leaves that to
  operations: every deployment runs the pending migrations, by their command or, with
  `dbAutoMigrate`, when a server starts. Deployments,
  saves and failures are not forced.
* `DepartmentIds`: weak fairness of each open transaction's next query (`Step`): the
  database answers every query, and locks are released because who holds them goes
  on. Failures are possible and not fair.
* `ProjectWorkflow`, `PeriodicReports`, `ProjectFunding`: none. Users need not act.

## 4. What is proved

Every safety and action property that a passing run checks is proved for every value of
the constants: any number of root fields, webhooks, workers, engagements, projects, saves,
days and so on, of any sets, finite or not, except where the table names a condition.
`PROJECT.json` lists the theorems.

### 4.1 The theorems

| Module | Theorem | States |
|---|---|---|
| `MutationTxProofs` | `TypeCorrect` | `Spec => []TypeOK` |
| | `InOrderOnce`, `NothingLost` | `[]PublishedInOrderOnce`, `[]NoCommittedEventLost` |
| | `OkIsCommitted` | `[]ToldOkMeansCommitted` |
| | `OperationIsOutbox` | `Spec => ImplementsOutbox`, the refinement of `EventOutbox` |
| | `AnnouncedIsCommitted` | `[]PublishedOnlyAfterCommit`, if `Inner = "none"` |
| | `FilesStayInPlace` | `[]CommittedFileInPlace`, if `NumFields = 1` |
| | `LiveQueriesAreFresh` | `[]LiveQueriesFresh`, if both |
| `WebhookListenerProofs` | `TypeCorrect` | `[]TypeOK` |
| | `QueuedOnceAlways`, `JobsInOrderAlways` | `[]QueuedOnce`, `[]JobsInOrder` |
| | `ShutdownFlushesAlways` | `[]ShutdownFlushes` |
| `WebhookDeliveryProofs` | `TypeCorrect` | `[]TypeOK` |
| | `DoneMeansAddedAlways` | `[]DoneMeansAdded` |
| | `RepeatsNeedRestartsAlways` | `[]RepeatsNeedRestarts` |
| | `NothingOutdatedIsSentAlways` | `[]NothingOutdatedIsSent` |
| | `RequestIdsUntilObliterated` | `[]RequestIdNamesPayload` |
| `ProjectWorkflowProofs` | `ProjectsEndTogether` | `[]ClosedIsResolved` |
| | `ProjectsStartTogether` | `[]DevelopmentHasNotStarted` |
| | `PlansStayChanged` | `ChangedPlanIsKept` |
| | `ReactivationIsTheWayBack` | `ResumedByReactivation` |
| | `EngagementPlansAreKept` | what the last two say of engagements, also when an overtaken transition is recorded |
| `PeriodicReportsProofs` | `TypeCorrect` | `[]TypeOK` |
| | `FilledKept` | `FilledReportsAreKept` |
| | `PeriodsHaveReports` | `[]EveryPeriodHasReport` |
| | `EmptyReportsFit`, `FinalAtEnd` | `[]EmptyReportsWithinDates`, `[]FinalReportAtEnd` |
| | `LastCompletedIsDue` | `[]DueIsLastCompleted` |
| `ProjectFundingProofs` | `TypeCorrect` | `[]TypeOK` |
| | `OnlyOnePrimary` | `[]OnePrimary` |
| | `RecordsFollow`, `RequestsCovered` | `[]RecordsFollowDates`, `[]RequestsCoverDates` |
| | `AmountsKept` | `AmountsAreKept` |
| `WebhookRegistryProofs` | `TypeCorrect` | `[]TypeOK` |
| | `ObservedExistAlways`, `CleansUpAlways` | `[]ObservedExist`, `LastObserverCleansUp` |
| | `InvalidIsBrokenAlways`, `OwnersAreToldAlways` | `[]InvalidIsBroken`, `[]OwnersAreTold` |
| | `StaleAreReevaluatedAlways` | `[]StaleAreReevaluated` |
| `DepartmentIdsProofs` | `TypeCorrect` | `[]TypeOK` |
| | `IdsAreUnique` | `[]NoTwoShare` |
| | `DueHaveIds`, `IdsAreKept` | `[]DueHasId`, `IdIsKept` |

The two conditions are those under which the runs check the same properties, and where they
fail there is a reason in the code: with two root fields an undone upload moves a committed
file (a run refutes it), and with a nested engine the callbacks run before the outer commit.
What the properties themselves leave out is observed by `lostAck`, `lostNodes`, `Regular`,
`crossed`, `skipped`, `stale`, `unlabelled`, `hand` and `overtaken` (sections 2 and 3.2):
each marks an event after which the code breaks the property, and TLC has a behaviour for it.

### 4.2 The arguments

*MutationTx*, in the order of the module:

1. *Types.* `TypeStep`, one case per action.
2. *The queue.* That broadcasts leave in order is not inductive, as it depends on what is
   still in the callback list. `QueueInv` says that the event
   callbacks in the list are in increasing order, all above everything published
   and none above what is registered, and that each registered broadcast is
   published or in the list. Appending the next number keeps this (`AddEvent`),
   and so does taking the head (`DropEvent`) or anything that is no event
   (`AddNonEvent`, `DropNonEvent`). `InOrderOnce` follows.
3. *The fields.* `FieldInv`: whatever is registered belongs to the current field or to an earlier
   one, and everything the earlier ones registered is out, since a field resolves on an empty
   list.
4. *The phases.* `PhaseInv` says what each place of the interceptors implies of the
   engines' commits; success is answered only from `outerHooks`. `OkIsCommitted`
   follows.
5. *The announcements.* With one engine the list is drained in `outerHooks` only;
   by then the fields of everything registered have committed (`AnnounceInv`).
6. *The outbox.* Four more invariants: what has been published is a prefix of
   what was registered (`PrefixInv`), what is committed belongs to the
   current run of the current field or to something before it (`RunInv`), earlier fields
   have committed (`EarlierInv`), and outside of the hooks nothing durable waits, unless
   the acknowledgement of its commit was lost (`LeftInv`). The steps are first sorted by what
   the outbox can see of them (`OutboxSteps`): asking, persisting, sending, finishing, a commit
   that is taken for a failure (which persists too), and the ones that only restart, give up or
   move on, which are stutters or the finishing of a field. `NothingLost` follows from `FieldInv`
   and `LeftInv`.
7. *Files.* `FilesInv`: while a run may still commit, what it uploaded is in its permanent
   place; before `outerHooks` the only nodes are those of a commit taken for a failure
   (`lostNodes`), and from there on no undo callback runs any more. That last part is what a
   second root field breaks.
8. *Live queries.* `FreshInv`: what became stale with a commit is still in the cached list, and
   once the commit is acknowledged, its flush callback is queued or a message that it queued is.

*WebhookListener.* `PlaceInv` is the life of a batch: pending, then in the hand of the chain or
of the shutdown, then in the queue, and never in two of these; being on the chain says only that
its timer has fired. `OrderInv` adds that, as long as nothing shuts down, the batches opened are
those in the queue, the one in hand and those pending, in this order. `KeptInv` and
`FlushedInv` say that no channel of an event is lost on the way and what can be missing once the
loop is through: the batch that the shutdown awaits.

*WebhookDelivery.* `WorkInv`: an active job is in one worker's hands. On it rest `HeldInv` (what
a worker listed and has not added it still holds, unless the webhook was found invalid or was
saved), `OnceInv` and `CountInv` (it holds a webhook once, and has added it at most once for each
earlier start), `OutdatedInv` (the versions of webhooks that a broadcast
found invalid or replaced are so for good, have no delivery of it and are on their way to none)
and `IdInv` (ids are places in the queue until that is obliterated). The steps are sorted once
(`Steps`) and each invariant follows for each kind.

*ProjectWorkflow.* `LegalStep` and `LegalStatus` say, by groups of steps instead of some hundred
transitions, where a project or an engagement can go from a place and a past. `InPlace` is what
every such move keeps: in development nothing was left behind, a plain plan never follows a
changed one, and what is planned or finalized was left from work. `StepsInv` adds that what a
user has resolved is still legal as long as nobody has overtaken them; `Closed` and `NotStarted`
tie the engagements to the project. `WorkflowInv` is their conjunction, for projects that are
`Regular`; that no user's run is ever overtaken is not assumed. The engagements' part
(`EngagementsInv`) is inductive even when an overtaken run is recorded, because the code applies
their rules when it writes. "Most recent" is a least index, which exists by well-foundedness (`LeastOf`).

*PeriodicReports.* `FilledKept` needs no invariant: a filled report is not deletable,
merging only adds, and `WithFinal` moves the final report together with its mark. The others
follow from `ReportsInv`: reports are well formed (`WellFormed`), and as long as nothing was saved
within a request they match the dates (`Matches`): they cover its periods, empty ones lie within
it and are of its unit, one final report is at the end. The dates a project was created with are
exempt, since no hook ran for them. `DiffMeans` shows that applying a difference makes
reports match, whatever they were before, `ToProjectMatches` and `ToEngagementMatches`
that the handlers apply the right one; months and quarters are in the lemmas of the calendar.

*ProjectFunding.* `IInv` says that as long as nothing was saved within a request,
partnerships are live or absent, at most one is primary and one is if there are any
(`Single`), and the request has nothing kept back that approving it would add; the last part
is what makes it inductive across `Approve` and `Reject`. For the records every save is
reduced to one statement, `Outcome`: a partner's records were synced with the years that are due
now (`Due`), or neither they nor its years have changed, or its partnership is to go, or a change
of dates has just skipped it, which takes it out of the next two until a save of it.
`RecordsMatch` (exactly the years due, while nothing was saved within a request) and
`RecordsCover` (each of the years due, in the request's view and outside, unless it was crossed)
are then kept by each save, whatever the size of a page. An approval keeps `RecordsCover` because the years due outside of
the request become those of its view (`ApprovedDue`); that uses that no date was taken away
(`NoneTaken`), without which it is false.

*WebhookRegistry.* `IdsInv` and `DocsInv`: an id is given once, so what a runner finds under a
listed id is the webhook it listed, and unless that was saved meanwhile, its operation.
`RunInv`: runners run when the old servers are gone. `TellInv`: an invalid webhook's owner was
told or is in the list of a runner. `NewInv` and `OldInv`: what the new code evaluated is right,
and what only the old code did is still to do for every runner.

*DepartmentIds.* Uniqueness of committed ids is not inductive; `Reserved` says the same
of what open transactions have written: it is no other project's, and no two transactions
have written the same. A write establishes it because of the constraint and the lock, a
commit turns it into `NoTwoShare`. An approval makes an id live that nothing was checked for,
and so its project joins the `unlabelled` (`ApproveShares`, `ApproveKnows`), which these
statements leave out until it is written again. `KnowsItsProject` says what a transaction will leave its
project with, given what it read (`Consistent`), and that what it read is still true unless
another one was committed meanwhile (`Current`); `DueHasId` and `IdIsKept` are what its commit
makes of that.

### 4.3 The assumptions

They are the `ASSUME`s of the modules, and TLC evaluates each of them:

* at least one root field and one run, a natural number of broadcasts, a known inner engine;
* internal channels are channels; no broadcast is the mark for "none" (also in the delivery, the
  registry, the department ids, and for `NULL` dates);
* attempts are positive, bounds natural numbers;
* months are longer than a day and quarters are whole months (`CalendarAssumption`); dates are
  natural numbers or `NULL`;
* every project has an account, and ranges are sequences of ids;
* a page holds at least one partnership (`PageAssumption`).

### 4.4 Only model-checked

* Liveness (`CommittedEventsPublished`, `EventsQueued`, `BroadcastsSettle`,
  `MigrationCompletes`, `SavesEnd`): fairness and ENABLED are out of the proof system's reach.
* That `CommittedFileInPlace` fails with two root fields and `RejectedIsNotApplied` fails at all:
  a refutation is a behaviour, and TLC shows it.
* `ProjectWorkflow` has no type invariant of its own among the theorems; `EngagementsInv` and
  `StepsInv` contain its types for projects on which no rule was skipped.

## 5. Hazards no property covers

These are in `PROJECT.json` with their lines and the reason:

* two transitions of one project are resolved before either is recorded;
* progress reports are not synced for what happens within a change request;
* two saves of one project overlap, each with the differences of its own reading;
* hooks of a save within a request touch what is live.

Smaller ones that no property is about, each looked at while modelling: deliveries are not
ordered, and the fatal payload is not always the last; the hooks of a nested engine run before
the outer commit, which can still fail; calling off a discussion returns the project to Active
without its engagements; an engagement added while a change to plan is discussed refuses its
approval; the permission to create an engagement is checked before it is written; a project
created with dates has no reports until they change; saving an unchanged operation leaves an invalid webhook invalid; a
department id entered without padding escapes the constraint.

## 6. Plan

Proofs that could follow: of `ProjectWorkflow` its types also after a bypass; of the
delivery that a retry keeps its id across obliterations once BullMQ gets the `jobId`; and of
`WebhookListener`, an abstract queue of events that it implements until it shuts down.

Modules that could follow: `Sessions` (login, logout, password change and reset), and a
`WebhookPipeline` that composes the listener and the delivery.
