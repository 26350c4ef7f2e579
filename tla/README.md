# PrivacyOps: TLA+ models, model checking and proofs

PrivacyOps is a multi-tenant privacy-compliance platform: a NestJS API, a set of
worker processes, PostgreSQL (through Prisma), Redis, NATS JetStream and Temporal.
This directory holds TLA+ models of the parts of it in which several actors change
shared state, TLC configurations that check them on small instances, and proofs that
TLAPS checks for every value of the constants. All paths below are relative to the
repository; `core/` stands for `apps/api/src/core/`, `modules/` for `apps/api/src/modules/`
and `workers/` for `apps/api/src/workers/`.

To check a model: `tlc -config AuditChain.cfg MCAuditChain` (the table of runs names
the module of each configuration). To check the proofs: `tlapm AuditChainProofs.tla`.

## 1. The system

| component | state it keeps | operations | talks to | what makes it correct |
|---|---|---|---|---|
| Audit trail (`core/audit`) | `audit_logs`, `audit_chain_state` (one row per tenant), `lastHashByTenant` in memory | `log`, `verifyChain`, search, export | every service calls `log`; two event consumers write `audit_logs` directly | one gapless hash chain per tenant, append-only; verification accepts nothing but the whole chain |
| Event bus (`core/events/event-bus.service.ts`) | JetStream stream and durables, `processedEvents` map | `publish`, `subscribe` loop, retries, dead-letter queue, purge timer | producers are services, consumers are below | every way to lose an event is known; redelivery does not repeat a handler; the loop never blocks |
| Event consumers (`core/events/event-consumers.service.ts`) | none | one handler per event type | database, notifications, audit rows | as handlers of the bus |
| Workflow triggers (`core/workflow/event-trigger.service.ts`, `workers/scan-worker.ts`) | none | start a workflow when an event arrives | bus, Temporal | an event of a rule's type starts its workflow |
| Data deletion (`core/workflow/workflows/data-deletion.workflow.ts`, `workers/activity-implementations/approval.activities.impl.ts`) | workflow state in Temporal; `legal_holds`, `retention_policies`, `data_assets.deletedAt`, certificates in the audit trail | five activities with retries | holds and policies change meanwhile | nothing held or unapproved is deleted; certificates are true; every run ends |
| Metering (`core/metering`) | `usage_events`, `usage_aggregates` | insert by the consumer, roll-up, purge, quota check | bus, billing plan limits | usage is never overcounted, "exceeded" is true of its period, aggregates converge |
| Billing and licensing (`core/billing`, `core/licensing`) | `subscriptions`, `invoices`, `tenants.planId`, an entitlement cache in every process | checkout, webhooks, cancel, `getEntitlements`, `invalidate` | payment provider, tenants | row and tenant name the plan that was bought; a status belongs to the subscription it was reported of; an entitlement is stale for its TTL and the length of a read at most |
| Approval workflows (remediation, DPIA, vendor review) | workflow state, proposals and reviews in the database | decide by signal, or poll after a timeout | users, Temporal | the recorded decision is one that somebody took |
| Scheduled jobs (`core/workflow/scheduled-jobs.service.ts`) | Redis locks, one per job | breach monitor, retention scan, stale data review, reminders | notifications, bus, incidents, retention | one replica serves a cron time; nothing overdue is skipped for ever |
| Incidents (`modules/incidents`) | `incidents` | create, update; playbook and AI helpers | audit trail, breach monitor | a breach has its deadlines, a closed incident its `resolvedAt` |
| Consent (`modules/consent`) | `data_subjects`, `consent_records`, `consent_notices` | record a decision, revoke, edit a notice | bus, audit trail, a public endpoint | a withdrawal takes effect; the ledger only goes from granted to revoked; a version names one text |
| DSAR, breach, retention and scan workflows | workflow state, request rows | start, signals, activities | Temporal, users | deadlines are kept, states move forward |
| DSAR requests, remediation (`modules/*`) | their tables | life cycle of a record | bus, audit trail | unique reference numbers, legal status changes |
| Login, sessions, approval requests (`core/auth`) | Redis session sets, users, approval rows | login, refresh, revoke, approve | every request | a revoked session stays revoked; failures are counted |
| Tenant context (`core/prisma`, `core/tenant`) | tenant id of the current request | set, read | every query | a query runs under its own request's tenant |
| Connectors, classification, compliance content, crypto, notifications, dashboards, web application, consent SDK | tables of their own | I/O, pure functions, create/read/update/delete | external systems | outside these models |

Behaviours that are hard here: transactions whose isolation is READ COMMITTED and which
are serialised only by an advisory lock; state read before an `await` and used after it
(timestamp of an audit entry, the window of a roll-up, the legal-hold check); at-least-once
delivery with an in-memory idempotency map; activities that go on after Temporal gave them
up; several API processes running the same cron job under a lock that expires; caches that
one process invalidates and the others keep; webhooks that come late, twice or in another
order; services that write in several statements without a transaction; process restarts
between any two of these steps. `PROJECT.json` lists each hazard with its line and the property that covers it.

## 2. Modules

| module | models | composed with |
|---|---|---|
| `AppendOnlyLog` | abstract: what the audit trail promises each tenant | |
| `AuditChain` | `core/audit/audit.service.ts`, and the two direct inserts of `event-consumers.service.ts` | implements `AppendOnlyLog` (`INSTANCE ... WITH`) |
| `MCAuditChain` | lock keys of three tenants and the ranges asked for, for TLC | extends `AuditChain` |
| `EventBus` | `core/events/event-bus.service.ts`, its consumers as handlers; JetStream | |
| `MCEventBus` | subjects and event types of the consumers for TLC | extends `EventBus` |
| `DataDeletion` | the deletion workflow, its activities, holds and policies; Temporal | |
| `Metering` | usage consumer, aggregator, purge, quota check | |
| `Billing` | `core/billing/billing.service.ts`, `core/licensing/licensing.service.ts`; the provider | |
| `MCBilling` | two subscriptions, their plans, what is reported of them and of an invoice | extends `Billing` |
| `Consent` | `modules/consent/consent.service.ts`: recording, withdrawing, editing a notice | |
| `MCConsent` | one person with two spellings of an identifier; symmetry | extends `Consent` |
| `BreachMonitor` | `modules/incidents/incidents.service.ts` (`create`, `update`) with `acquireLock` and `monitorBreachSlas` of the scheduled jobs; Redis | |
| `MCBreachMonitor` | the updates that are asked for | extends `BreachMonitor` |
| `*Proofs` | theorems about the module of that name | extend it and `TLAPS` |

A step of a model is what the code does between two awaits, or one statement of the
database. Every cut between steps is a point at which another actor can run, the step can
fail or the process can stop.

### AuditChain

`log()` takes its timestamp on entry (`Begin`), opens a transaction and waits for
`pg_advisory_xact_lock` (`AcquireLock`), reads the chain state (`ReadChainState`), writes
the row, the chain state and, still inside the callback, the in-memory map
(`WriteRowAndState`), and commits (`Commit`, which frees the lock). `Rollback` is any
failure or timeout on the way, `Restart` the death of the process; both leave nothing of
the open transaction behind. Uncommitted writes live in `draft[c]`.
`tenantLockKey` is modelled by what it does to the digest: it flips every bit but the sign
bit, so a digest whose top bit is set gives a key that does not fit the `int8` parameter
(`FitsInt8`) and the call can only roll back; two tenants may share a key.
`log()` hashes the object it was given (`Given`), where a key whose value is `undefined` reads
`null`; the Json column drops such keys, and `verifyChain()` hashes what the column gives back
(`Kept`). `Lossy` are the entries for which the two differ.
`verifyChain()` is three steps: the row before the range (`VerifyStart`), the rows from `from` to
`to` in `(timestamp, id)` order (`VerifyScan`), the chain state, if no range was asked for
(`VerifyCompare`). Its loop is the pure operator `HashesMatch`. Rows are read in one batch: the
code reads at most 1000 at a time, each batch after the key of the last row.

Assumed: SHA-256 has no collisions, so a hash is the tuple of what it covers.

### EventBus

JetStream (external) owes each durable the events of its subject until the ack arrives
(`unacked`), and may deliver an owed event again at any time (`Deliver`), unless the limits of
the stream, a million messages and seven days, have dropped it (`Expire`; which event is the
oldest is left open, so every order is covered). `connected` says whether the process found NATS
when it started: without it, or without a tenant id, `publish()` writes a log line and returns,
and `subscribe()` subscribes to nothing.
The loop of `subscribe()` takes one delivery at a time: `SkipMessage` for a bad signature, for a
message that does not decode (acknowledged in the catch block, where `event` is undefined and
nothing goes to the dead-letter queue), or for an event in `processedEvents`; else
`StartHandler`, which marks the event *before* the handler runs.
A handler is its effect (`HandlerCommits`) and its end: `HandlerReturns`, `HandlerThrows`
then `Retry`, or `RetriesExhausted`, which acknowledges the message and only then publishes
to the dead-letter queue (`PublishToDlq`, `DlqPublishFails`). A throw can come after the
effect was committed. A handler can also return without an effect (`HandlerGivesUp`): consumers in
`Swallowing` catch the errors of their own work, and those of an event in `Ignored` return early
(no metric or a value of 0 or less, `usage-event.consumer.ts:46-54`; a malformed event or an unknown
tenant, `event-consumers.service.ts:461-476`; an unmet condition, `event-trigger.service.ts:82`).
`Ack` can be lost, `Restart` empties the memory of the process and connects again or not,
`PurgeProcessed` is the ten-minute clean-up. `dropped`, `expired`, `runs` and
`forgotten` are history variables; nothing in the model reads them.

Left out: a connection that breaks during the life of a process (the client reconnects; to the
model that is late deliveries and lost acks), and the dead-letter messages themselves, which are
in the same stream, have no consumer and expire like the rest.

Assumed: durables exist with explicit acknowledgement, as the options passed to the client
intend; no two durables of a process share a subject (`OneDurablePerSubject`, true of the
subscriptions in the code, and what an idempotency map without the durable in its key
needs); a handler and its retries take less than ten minutes.

### DataDeletion

`run[r]` is the workflow code, `tasks` the attempts of activities that run somewhere.
`Schedule` dispatches an attempt, `ActivityReturns` and `ActivityThrows` report it,
`AttemptTimesOut` gives it up: there is no heartbeat in the activities and
`heartbeatTimeout` is five minutes. An attempt that was given up stays in `tasks` while it
can still change something, and its answer is ignored (`Current`). `executeDisposal` is one
step per asset (`Dispose`, `DisposeFails`). `PlaceHold`, `EndHold` and `SetPolicyStatus`
happen at any time; the status of a policy moves more freely here than the API allows.
Audit entries written on the way, other than the certificate, are left out. `guarded`,
`deletedBy` and `repeated` are history variables.

### Metering

One tenant and one metric. The row is dated by the database when it is inserted
(`BeginInsert`) and visible when the transaction ends (`CommitInsert`). An execution of
`aggregate()` computes the daily window from the clock (`StartTick`), sums it (`SumWindow`),
replaces the aggregate (`Upsert`), then does the same with the month; several executions
overlap, since every API process has the cron. A failure ends the execution (`TickFails`).
An aggregate is the set of the rows it sums, which tells apart the sums that matter.
`check()` takes the time and computes the day or month of the limit (`LimitPeriod`, `CheckBegins`),
and reads the aggregate later (`CheckAnswers`); a limit for a lifetime asks for an aggregate that
nothing ever writes, and counts nothing (`Counted`). No limit or a failing database means unlimited
(`CheckUnlimited`). `quotaEnforced` is no part of the model because the code never reads it.

Assumed: raw rows outlive the longest window (`LengthAssumption`: 90 days against a month).

### Billing

One tenant. A webhook is a transaction: a completed checkout is looked up (`BeginCheckout`)
and upserted (`UpsertSubscription`); a subscription event finds the row by the subscription
(`FindSubscription`) and writes it by the tenant (`WriteStatus`). Each then clears the entry in
the cache of its own process, *before* it commits (`InvalidateInTransaction`, `CommitWebhook`),
or ends in `Rollback`. A write takes the lock of the row until the end, and under READ
COMMITTED sees what was committed last; the lookups before it lock nothing. `cancelSubscription`
has no transaction: it reads, asks the provider (`AskToCancel`) and writes (`WriteCanceled`).
An event that says no status writes back the one that was found (`Silent`).
An invoice event is one upsert, with the lookup of the tenant (`ApplyInvoice`); it takes the event's
status and amount, however old the event, and keeps only a date of payment (`InvoiceAfter`).
`getEntitlements` misses (`StartRead`), is answered (`DatabaseAnswers`, with `{}` if the query
fails) and fills the cache (`PutCache`) up to `Lag` ticks later; what happens in between is what
makes the cache stale. `stale` counts for how many ticks a value has differed from what is
committed, and `crossed` whether a status reached the row of another subscription: both are
history. An entitlement is abstracted to the plan of the row, which decides features and limits.

Assumed: the provider sends every event at least once, in any order.

### Consent

One tenant and one notice. No method has a transaction, so every await is a step.
`findOrCreateDataSubject` looks for the hash of the normalised identifier (`FindSubject`) and
inserts a row if there was none (`CreateSubject`); the schema has no unique index on tenant and
hash. DSAR requests have a copy of that function over the same table and with the same hash
(`dsar.service.ts:56-102`): they are the calls in `Requesters`, which go no further.
`recordConsent` reads the notice (`ReadNotice`), inserts a record for each purpose in parallel
(`InsertRecord`), and ends with audit entry and event (`FinishRecord`). `revokeConsent` lists the
granted records of the data subject it found (`FindActive`) and revokes what is granted when the
update runs (`RevokeAll`). `updateNotice` reads and writes (`ReadForUpdate`, `WriteNotice`), with
the version that follows the one it read. `purposes` stands for a notice's purposes and content
together; an edit of one of them leaves the other as it is by then, and the pair that results is
one of those `WriteNotice` chooses from. A row is named by the call that inserted it. `raced`,
`lost`, `person` and `before` are history: whose first contacts overlapped, whether a notice was
overwritten unseen, whose call it is, and what was granted when it came.

A call that fails or whose process dies is one that takes no more steps, at any point:
nothing is rolled back, so nothing else need be modelled.

### BreachMonitor

Time passes in ticks; `clock` counts them from one cron time to the next. Then the timers of all
replicas are due, and each goes off at most `MaxDelay` ticks late: it gets the lock (`Acquire`,
`SET NX EX`) or does not (`Skip`). An execution reads the breaches to watch and fixes what to send
(`ReadBreaches`), and sends the alerts one by one (`Send`), each of which may take any time: the
lock is neither extended nor released, and it expires after `LockTTL`. `Abort` is a failed
execution or a dead process, `MissTimer` a replica that is down at the cron time.
Updates of incidents go on meanwhile: `update()` reads the row (`ReadExisting`), decides from it
which columns belong to the change, and writes those columns over whatever the row is by then
(`WriteUpdate`). `deadlines` and `resolved` say whether the columns are set; the deadlines
themselves follow from `reportedAt`, which nothing changes. `executed`, `overran` and `late` are
history.

Assumed: no replica is later than the lock lasts, and the lock is shorter than the interval
(`TimeAssumption`: 14 minutes of 15).

## 3. Runs

| run (configuration, module) | properties | what it shows |
|---|---|---|
| `audit_chain` (`AuditChain.cfg`, `MCAuditChain`) | `TypeOK`, `ChainLinked`, `VerifyExact`, `RangeHasNoGap`, `VerdictCoversChain`, `LogRefinement` | chains never fork; of all sets of rows the whole verification accepts none but the whole chain, and it does accept that if timestamps are in order and payloads come back unaltered; a range that is accepted has no gap; a verdict never covers less than the chain; the trail is an append-only log |
| `event_bus` (`EventBus.cfg`, `MCEventBus`) | `TypeOK`, `EveryLossIsKnown`, `RunOncePerMemory`, `EffectsBounded`, `EventuallyAcked` | the ways to lose an event that the stream accepted, all without a dead letter: acknowledged unread (signature, decoding), given up by a handler that returns without its effect, dropped by the limits of the stream, or a crash or failed publish between ack and dead-letter queue; retries, redeliveries, lost acks and purges add none. Effects repeat (finding 2), but at most once an attempt in each life of the mark |
| `data_deletion` (`DataDeletion.cfg`, `DataDeletion`) | `TypeOK`, `EarlierHoldProtects`, `UnapprovedDeletesNothing`, `CertificatesTrue`, `RunsEnd` | a hold older than the run protects, approval comes first, certificates list deletions, runs end |
| `metering` (`Metering.cfg`, `Metering`) | `TypeOK`, `NeverOvercounts`, `ExceededMeansUsed`, `CurrentUsageConverges` | overlapping roll-ups, midnight and the purge never add usage to a window, "exceeded" is true of the period the call was made in, and the current month becomes exact |
| `billing` (`Billing.cfg`, `MCBilling`) | `TypeOK`, `StalenessBounded`, `PlanMatchesSubscription`, `StatusOfSubscription`, `ServesCurrentPlan` | an invalidation that comes too early, in one process only, and is undone by a read under way costs at most `TTL + Lag`; late, repeated and overlapping webhooks keep subscription, plan and status together |
| `consent` (`Consent.cfg`, `MCConsent`) | `TypeOK`, `WithdrawalTakesEffect`, `DuplicatesOnlyByRace`, `VersionNamesPurposes`, `EventsTrue`, `LedgerKept` | overlapping calls do not undo a withdrawal; two data subjects, or two texts of one version, need the races named |
| `breach_monitor` (`BreachMonitor.cfg`, `MCBreachMonitor`) | `TypeOK`, `OncePerCronTime`, `RunsAlone`, `WarningsComeFirst`, `BreachHasDeadlines`, `ClosedIsStamped`, `OverdueIsAlerted` | who runs the job, in which order alerts come, that overlapping updates keep a row consistent, and that an overdue breach is reported in the end |
| `audit_timestamps` (`AuditChainTimestamps.cfg`, `MCAuditChain`) | `UntamperedVerifies` violated | finding 1 |
| `usage_idempotent` (`UsageIdempotent.cfg`, `MCEventBus`) | `AppliedOnce` violated | finding 2 |
| `event_triggers` (`EventTriggers.cfg`, `MCEventBus`) | `TriggersFire` violated | finding 3 |
| `legal_hold` (`LegalHoldSupremacy.cfg`, `DataDeletion`) | `HeldNotDeleted` violated | finding 4 |
| `usage_buckets` (`UsageBuckets.cfg`, `Metering`) | `NothingMissed` violated | finding 5 |

Bounds, and why they reach the interesting cases:

- **audit_chain**: three `log()` calls and one consumer insert, two tenants with the same
  lock key, two instants. Three calls are the fewest in which a chain has a middle (a wrong
  link, a lost middle row and a lost last row differ); two instants give every order of
  timestamps, ties included; the shared key makes tenants wait for each other. One call is
  `Lossy`. Verification is asked for the whole trail, from the second instant, and up to the first.
  The key that does not fit is in `audit_timestamps` (tenant `t3`).
- **event_bus**: two durables; three events on one subject, one of which has a bad signature and
  one no tenant, and one on the other, which its handler ignores; one retry; one fault (lost ack,
  restart, purge, message dropped by the stream, or failed dead-letter publish); one waiting
  delivery per durable. A restart can hit every phase of the loop, and each other fault each step it
  can hit. A message that does not decode takes the step of one with a bad signature (`Refused`), and a
  handler that catches its error that of one that ignores its event (`GivesUp`), so `Undecodable` and
  `Swallowing` are empty here. `MaxFaults` bounds what happens more often; the theorems hold for any
  number, and for all choices of these sets.
- **data_deletion**: two assets (one held and one free, one deleted and one failed), two
  attempts (one given up that still runs beside its successor), one run. Holds and the policy
  change without bound.
- **metering**: days of one unit and months of two, so that four instants cross three
  midnights and a month; raw rows live for two; two inserts, two executions, one failure; a limit
  per month. That a limit per day or lifetime changes nothing is proved
  (`ExceededAlwaysMeansUsed`).

- **billing**: two subscriptions with different plans, of which one is cancelled and the other
  not, so that a plan or a status in the wrong place shows; two processes, whose webhooks
  overlap and of which only the first has readers (what invalidation elsewhere does not reach);
  two overlapping reads; entries that live two ticks, answers that are one late. Events arrive
  without bound. One invoice, whose events are named or found by its subscription. Events without
  a status (`Silent`) are left to the proofs, which allow them of any subscription.
- **consent**: two recordings, one withdrawal, two edits, two purposes, and one person with two
  spellings of an identifier. Two recordings and a withdrawal are the fewest calls in which first contacts
  race, and a decision is recorded before, during and after the withdrawal; two edits the
  fewest that overwrite one another. Each call runs at most once. A DSAR
  request is like a recording that goes no further than the data subject, which the run covers;
  `Requesters` is empty in it and any set in the proofs.
- **breach_monitor**: two replicas and two executions (a slow one beside its successor), two
  overlapping updates of one incident, one crash (`MaxCrashes`), a deadline as long as the
  interval, so that incidents turn overdue before, during and between executions. Incidents do not interact,
  except in the order of alerts, which `Send` leaves open.

Symmetry is used in `consent` only, where calls and purposes are
interchangeable and no property is a liveness property. `billing` and `breach_monitor` check for
deadlock; the other configurations say `CHECK_DEADLOCK FALSE`, because their calls, events,
assets and rows are finite and a system that has handled them all rightly stops.

Fairness, only where a liveness property needs it:

- `EventBus!FairSpec`: the loop of each durable goes on and handlers end (`WF` on `Loop`: a
  `for await` in a process that is restarted when it dies; it says nothing of whether
  handlers succeed), and JetStream keeps delivering what it owes (`SF` on `DeliverNew`: the
  ack timeout makes an unacknowledged message due again, and a full iterator only delays it). A
  process that started without NATS consumes nothing until it is started again, and nothing says
  that it is: `EventuallyAcked` leaves it out.
- `DataDeletion!FairSpec`: the Temporal server dispatches activities and enforces their
  timeouts (`WF` on `Schedule` and `AttemptTimesOut`). Workers owe nothing: `RunsEnd`
  holds even if every attempt hangs.
- `Metering!FairSpec`: the cron ticks and transactions end (`WF`). Failures are bounded by
  `MaxFailures`, without which a database that always fails would excuse everything.
- `Billing!FairSpec`: time passes (`WF` on `Tick`) and the continuation of a read that was
  answered runs (`WF` on `PutCache`, one turn of the event loop). Neither the provider nor the
  database owes anything.
- `BreachMonitor!FairSpec`: time passes, timers go off, and an execution that has started goes
  on (`WF` on `Tick`, `TimerGoesOff`, `Execute`: `send()` catches the errors of its channels).
  Crashes are bounded by `MaxCrashes`: a job that dies at every cron time reports nothing.

Every property of a passing run has a mutant in `PROJECT.json`: a changed action (a lock not
taken, an early release, an off-by-one, a skipped check) under which the property
fails. The mutated operators, named `<Action>_<What>`, stand in the modules before the actions
they change, and nothing else refers to them.

## 4. Proofs

For all values of the constants, from the assumptions named in the modules:

| theorem | statement | argument |
|---|---|---|
| `AuditChainProofs!TypeCorrect` | `Spec => []TypeOK` | part of the invariant below |
| `AuditChainProofs!ChainIntegrity` | `Spec => []ChainLinked` | `IInv` adds `LockHeld` (a call past the lock holds the lock of its tenant's key) and `DraftCurrent` (what it read is still the chain state). `ChainLinked` alone is not inductive: a commit of a stale draft would fork the chain. Two calls past the lock for one tenant would hold one lock, so a commit makes no other draft stale |
| `AuditChainProofs!VerifyIsExact` | `Spec => []VerifyExact` | no induction over rows: in the order of timestamps, the positions of n rows are at most 1 to n, so rows accepted are chained and all different (`AcceptedIsPrefix`); a chained subset with as many rows as the chain is the chain (`ChainLength`, from a bijection with 1..n). `RowsInv` adds that the table is finite. The converse is stated of a chain in the order of its timestamps whose payloads are unaltered, and needs both: there a row's position is its number (`PositionIsNumber`) |
| `AuditChainProofs!RangesHaveNoGap` | `Spec => []RangeHasNoGap` | `AcceptedIsPrefix` does not ask with which hash the scan began |
| `AuditChainProofs!VerdictsCoverChain` | `Spec => VerdictCoversChain` | `ScanInv`: a scan without `from` began at the genesis hash, and its rows are still there when the chain state is read; then as `VerifyIsExact` |
| `AuditChainProofs!Refinement` | `Spec => LogRefinement` | the log of a tenant is the ids of its chained rows by number (`ChainLog`); `Commit` appends an id that no row has (`RowsInv`), every other step leaves `ChainLog` alone |
| `AuditChainProofs!HalfTheTenantsUnlogged` | a tenant whose digest has the top bit set never has a chained row | `LockKeys`: the XOR keeps that bit, so the key is beyond int8; `KeyInv`: nobody gets past the lock with it |
| `EventBusProofs!TypeCorrect` | `Spec => []TypeOK` | |
| `EventBusProofs!LossesAreKnown` | `Spec => []EveryLossIsKnown` | strengthened to events that are marked as processed, because the loop acknowledges those unread; `WorkInv` says that a handler past its commit point had its effect, or is one that gives up |
| `EventBusProofs!NoSecondRun` | `Spec => []RunOncePerMemory` | `RunsInv`: entries are at most the times forgotten, plus one while the event is marked |
| `EventBusProofs!EffectsAreBounded` | `Spec => []EffectsBounded` | `EffectsInv`: the effects committed, and those the handler under way can still commit, are at most `1 + MaxRetries` for each time the handler was entered; with `RunsInv` |
| `EventBusProofs!TriggersNeverRun` | a durable that subscribes to a pattern with the prefix in place never runs its handler | `OwnInv`: a durable runs only what it receives; `DoubledPrefix`: it receives nothing, provided that no event type begins with `privacyops` (none does) |
| `DataDeletionProofs!TypeCorrect` | `Spec => []TypeOK` | |
| `DataDeletionProofs!EarlierHoldRespected` | `Spec => []EarlierHoldProtects` | once the holds are checked, no run, no running attempt and no answer contains a guarded asset (`RunUnguarded`, `TaskUnguarded`), and a run that has not started has done nothing (`Unstarted`) |
| `DataDeletionProofs!NothingUnapproved` | `Spec => []UnapprovedDeletesNothing` | `OrderInv`: no attempt, deletion or certificate is ahead of its run, and a run does not go back (`RunsGoOn`) |
| `DataDeletionProofs!CertificatesAreTrue` | `Spec => []CertificatesTrue` | `TrueInv`: what an attempt, a run or an entry reports as deleted was deleted; `CompleteInv`: while no attempt of the disposal was given up there is one such attempt, and what is deleted stands in its answer, then in the list of the run, the attempt to certify it and the certificate |
| `MeteringProofs!TypeCorrect` | `Spec => []TypeOK` | |
| `MeteringProofs!NoOvercount` | `Spec => []NeverOvercounts` | `SumsSound`: a sum not yet written covers rows of its window; rows only move from the table to the purged ones |
| `MeteringProofs!ExceededAlwaysMeansUsed` | `Spec => []ExceededMeansUsed` | from `NoOvercount` and the monotonicity of cardinality |
| `BillingProofs!TypeCorrect` | `Spec => []TypeOK` | with a conjunct that a row which was found is still there when it is written |
| `BillingProofs!Stale` | `Spec => []StalenessBounded` | `AgeInv`: an answer is as stale as it is late at most, an entry as stale as it is old and its answer was late. The bound on entries alone is not inductive, since `PutCache` makes an entry of an answer |
| `BillingProofs!PlanMatches` | `Spec => []PlanMatchesSubscription` | `HookInv`: what a transaction is about to commit matches too, and a change of status leaves the plan alone |
| `BillingProofs!StatusRight` | `Spec => []StatusOfSubscription` | `StatusInv`: statuses on their way were reported of the subscription they were found with, and unless one crossed so were those in rows and in open transactions |
| `ConsentProofs!TypeCorrect` | `Spec => []TypeOK` | |
| `ConsentProofs!Duplicates` | `Spec => []DuplicatesOnlyByRace` | `SubjectInv`: a row belongs to its call's person; `RaceInv`: the person of two calls that insert a data subject, or have, is in `raced` |
| `ConsentProofs!Withdrawal` | `Spec => []WithdrawalTakesEffect` | `WithdrawInv`: what was granted when the call came belongs to calls of that person, and so, by `RaceInv`, to the one data subject whose records the update revokes; `RecordInv` keeps what is revoked from being inserted again |
| `ConsentProofs!Events` | `Spec => []EventsTrue` | `RecordInv` again: of the purposes read, those no longer to be inserted have their record |
| `ConsentProofs!Versions` | `Spec => []VersionNamesPurposes` | `VersionInv`: without an overwritten notice, versions grow, and every notice read with the present version is the present notice |
| `ConsentProofs!Ledger` | `Spec => LedgerKept` | an insert meets no earlier record of its call and purpose |
| `BreachMonitorProofs!TypeCorrect` | `Spec => []TypeOK` | |
| `BreachMonitorProofs!ServedOnce` | `Spec => []OncePerCronTime` | `LockInv`: a lock got since the cron time lasts until `LockTTL` ticks after it at least, and no timer is due for so long |
| `BreachMonitorProofs!Alone` | `Spec => []RunsAlone` | `LockInv` again: while anybody is at work the lock has not expired, or an execution outlived it |
| `BreachMonitorProofs!WarnedFirst` | `Spec => []WarningsComeFirst` | `AlertInv`: who has been told that the deadline passed is at the deadline for good; a warning still to be sent is of an incident without that alert, or an execution overran |
| `BreachMonitorProofs!DeadlinesKept`, `ClosedStamped` | `Spec => []BreachHasDeadlines`, `Spec => []ClosedIsStamped` | `RowInv`: deadlines and `resolvedAt` are never taken back, so what an update read as set is set when it writes |

Every safety property of a passing run is proved. Only model-checked are the liveness properties
(`EventuallyAcked`, `RunsEnd`, `CurrentUsageConverges`, `ServesCurrentPlan`, `OverdueIsAlerted`):
they rest on fairness, and so on `ENABLED`, which is out of TLAPS's reach. What the other five
runs refute is refuted by a counterexample of TLC; two of them have a theorem beside them that
says what holds instead: `EffectsAreBounded` for `AppliedOnce`, and `EarlierHoldRespected` for
`HeldNotDeleted`. `VerifyIsExact` shows `UntamperedVerifies` for chains whose timestamps are in
order and whose payloads survive the Json column, and `TriggersNeverRun` extends finding 3 from
the run's two events to all.

Strengthenings that are also the reason why the system works stand in the component's module
(`AuditChain!LockHeld`, `DataDeletion!RunUnguarded`, `Metering!SumsSound`); those that only carry
a proof stand in the proof module.

## 5. Findings

1. **An untampered chain can be reported as broken.** `log()` takes its timestamp before it waits
   for the lock, and `verifyChain` reads in timestamp order. Two overlapping calls suffice, with
   different timestamps and nothing lost on the way to the column.
   `docs/policies/audit-logging-policy.md:231` takes every mismatch for tampering.
2. **A usage event can be counted twice.** The retries of `executeWithRetry` do not consult
   `processedEvents`; a handler that throws after its insert was committed inserts again.
   `usage-event.consumer.ts:10` says writes are idempotent.
3. **No event starts a workflow.** The rules of `event-trigger.service.ts` pass patterns that
   already begin with `privacyops.`, and `subscribe()` adds it again.
4. **A hold placed during a deletion run is ignored.** Holds are checked once, before the
   approval; `docs/policies/data-retention-policy.md:171` promises otherwise.
5. **Usage at the end of a day is in no daily aggregate.** The roll-up recomputes the window that
   is current when it runs; what was written after the last tick of a day is missed, against the
   comment at `usage-aggregator.service.ts:33`.

Without a run: an entry with an optional value left undefined (`reason: dto.reason`,
`consent.service.ts:388`) never verifies, since `audit.service.ts:204` hashes `null` for it and the
column has no such key: another untampered chain reported as broken, and one that needs no
overlap. `verifyChain` with `from` counts sequences from 1 again, so a range that leaves
the first entry out and is not empty never verifies (`audit.service.ts:438`), although the comment
at 441 says that the sequence before the range is fetched, too, "to start verification correctly";
the lock key of every second tenant is beyond int8, against the comment at
`audit.service.ts:367`, and `log()` fails for them (theorem `HalfTheTenantsUnlogged`); polling a DPIA that is
still pending records a rejection (`dpia-approval.workflow.ts:61`).

In metering: `quota-check.service.ts:78-82` calls a tenant within quota when enforcement is disabled
for the limit, and `schema.prisma:2058` says that the guard blocks if `quotaEnforced` is true; no code
reads that column, and in its strict mode `feature-gate.guard.ts:106-121` blocks on every limit that is used up.
`ExceededMeansUsed` therefore says what "exceeded" means and not that the refusal is due.
A limit for a lifetime is never reached, since nothing aggregates a lifetime.

In billing: a late or repeated `invoice.finalized` sets a paid invoice back to open, with its
amount, and leaves it its date of payment (`billing.service.ts:368-371`), and an invoice event
that comes before the checkout of its subscription is committed, and names no tenant, is dropped
and answered as done (343-346), where the comment at 192-195 says that delivering an event again
is a no-op. A replayed `checkout.session.completed` puts an old subscription back, as active
(`billing.service.ts:261`), against the same comment; the licence check that "fails open" by its
comment (`licensing.service.ts:168`) answers a failed query with no features at all, and caches
that for five minutes.

In consent: a call of the public endpoint (`consent-public.controller.ts:57`) has stored its
records when it fails, since the audit entry's `actorId` is a uuid column and gets
`system-public`; no `consent.granted` is published. A withdrawal reaches the records of one
data subject row, not of all the rows of a person who has two (`consent.service.ts:363` says all).
Two edits that overlap reuse a version number, against the comment at 138. A refusal after a
consent leaves the consent granted. `docs/architecture/04-core-data-model.md:326` calls the
ledger immutable; a revocation updates rows in place.

In incidents: the monitor watches `open`, `investigating` and `contained`; an incident begins
as `reported`, and one that was reopened keeps its `resolvedAt`, so neither is watched
(`scheduled-jobs.service.ts:229`). `detectBreach`, `calculateDeadline` and `recordNotification`
have no caller, so `incident.breach_detected` is never published.

## 6. Not modelled

Connectors, classification, content management, user administration, encryption,
notifications, dashboards, the web application and the consent SDK are I/O, pure functions
over one request, or single-row updates without a protocol between actors. They are most of the
repository's lines. Of the modelled components, the formatting and payload of events and
entries, the arithmetic of sums, search and export are left out; of billing, the periods of a
subscription, the billing account and feature overrides; of consent, listing and the creation of
purposes and notices; of incidents, playbooks and the AI helpers; of the scheduled jobs, all but
the breach monitor: they take the same lock and then publish an event or send a notification for
each row.

The approval workflows, DSAR, login and sessions, and the tenant context have protocols of
their own and are planned.

## 7. Plan

In this order:

1. `Approvals`: decision by signal, by timeout and poll, or both; remediation, DPIA and vendor
   review as instances of one protocol with their own polling step. Property: a recorded
   decision was taken by somebody.
2. The retention scan composed with `EventBus` and `DataDeletion` (a trigger handled twice
   starts two runs over the same assets; `EarlierHoldProtects` is proved for any number of runs,
   but checked for one).
3. `Sessions` (session set against revocation, refresh rotation, lock-out counter), `Dsar`
   (reference numbers, life cycle), the tenant context of concurrent requests.
4. Proofs: all safety properties checked so far are proved. What remains is to prove the new
   modules as they come, and to carry `EarlierHoldProtects` and `CertificatesTrue` over to the
   composition of 2.
