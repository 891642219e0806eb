# Kenchi: a TLA+ development of its queues, pipelines and shared state

Kenchi analyses failed CI checks, log windows and incident alerts. It is a set of
stateless Node services (`services/api`, `services/github-app`, `services/slack-bot`,
`services/incident-triage`) over one library (`packages/shared`), PostgreSQL and Redis.
Nothing in it uses a lock around a sequence of commands except the log buffer's flush:
what is correct depends on the order of single Redis and SQL commands sent by several
replicas, any of which may die, or see a command fail, between two of them. That is the
level the modules here are written at: **one action is one awaited command** (or the
commands one `Promise.all`, pipeline or multi-key `DEL` sends together), and between two
actions of one call anything else may happen.

All paths below are relative to the repository.

## 1. Inventory

### Modelled

**Reliable job queue** (`packages/shared/src/queue/messageQueue.ts`).
State: the Redis lists `<name>`, `<name>:processing` and the dead letter list; per worker
loop the locals of `process()`. Operations: `enqueue` (LPUSH), `process` (RPOPLPUSH,
handler, LREM), `handleJobFailure` (`retryJob` and `moveToDeadLetter`, each LREM then
LPUSH). Used by the Slack notification worker, the action queue worker, the triage worker
and, as the fallback list, the fair queue. Hard: crashes between LREM and LPUSH, commands
rejected inside the `try` block that are failed a second time by the `catch` block, commands
applied whose reply is lost, loops that a rejected RPOPLPUSH ends.
Correct when: a job is in one place; it is run by one worker at a time and a bounded number
of times; it is lost only to a fault; it is dead-lettered only for a reason; it ends.

**Fair queue scheduler** (`queue/fairScheduler.ts`, `aggregation/analysisQueueProcessor.ts`).
State: a list and a processing list per tenant, the set of active tenants, the base list.
Operations: `enqueueFair` (LPUSH and SADD), `processFair` (SRANDMEMBER, RPOPLPUSH, SREM and
retry with the next tenant, fallback to the base list), `processTenantJob` (LREM, LLEN, SREM
after a success; LREM, LPUSH, SADD after a failure). Hard: the SREM is decided on an earlier
reply; every command may fail inside the same `try`. Correct when: a tenant with work stays
in the rotation; a job is not forked; no tenant starves.

**Incident triage** (`services/incident-triage`: `routes/processWebhookAlert.ts`,
`workers/triageWorker.ts`, `services/deduplicationService.ts`).
State: `incident_alerts.status`, the dedup window row of each fingerprint, the triage queue,
one request and one job in progress per replica. Operations: the webhook handler (look up,
insert, enqueue, answer) and the pipeline (mark processing, check duplicate, register,
analyse, dispatch, record, finish; reset on error; settle with the queue). Hard: provider
redeliveries, replicas, retries that meet the traces of the first attempt, windows that
expire. Correct when: a delivery that is acknowledged is triaged; suppression never silences
an incident; an incident notifies once per window; every alert ends decided.

**CI failure aggregation** (`packages/shared/src/aggregation/*`,
`services/github-app/src/handlers/checkRunAnalysis.ts`, `services/aggregationReadiness.ts`).
State per commit: metadata hash, hash of failed checks, debounce key; the checks a poller has
read. Operations: `addToAggregation`, the poll (`isKeyReadyToFlush`, `checkAllRunsCompleted`,
`enqueuePendingAggregation`, delete), expiry. Hard: adds between a poller's read and its
delete, several pollers, reads whose error counts as "absent". Correct when: an added check
reaches exactly one job.

**Ingestion buffer** (`packages/shared/src/ingestion/bufferOperations.ts`, `bufferQueries.ts`,
`services/api/src/workers/flushTriggerWorker.ts`, `services/deployAnalysisService.ts`).
State per deployment: a sorted set of lines scored by time, a metadata hash with
`lastFlushAt`, the flush lock. Operations: `append` (add, read, write back, evict), `flush`
(lock, read, fetch, mark, trim, release), `close`. Hard: the read-modify-write of the hash,
time stamps of lines against the wall clock of the mark, lock deletion by whoever is there.
Correct when: a line is flushed once, by one flusher at a time; the lock is freed.

**Circuit breaker** (`packages/shared/src/http/circuitBreaker.ts`) and **resilient client**
(`http/resilientClient.ts`). State: a circuit per key (state, failures, successes, last
failure) in the memory of one process; calls in flight. Hard: a call records its outcome
against a state that other calls have changed since it began. Correct when: the circuit opens
and closes only on what was counted, and does not stay open for a healthy service.

**Team membership** (`services/api`: `routes/teamRoutes.ts`, `routes/invitationRoutes.ts`,
`services/authService.ts`, `services/accountDeletionService.ts`; `services/github-app`:
`routes/webhookRoutes.ts`; `packages/shared/src/database/userOrganization`, `invitation`,
`cache/userStatusCache.ts`).
State: the role of each user in an organization, accounts, the tenant's row, pending
invitations, the membership-revoked flags in Redis; calls in progress. Operations: change of a
role and removal by an admin, removal by a GitHub event or by the reconciliation of a login,
auto-linking of a login with its repair of missing rows, invitation and acceptance, deletion of
an account. Hard: every check (last owner, plan limit, last member) is a statement of its own
before the one that writes. Correct when: a team with members has an owner; it stays within its
plan; an organization is deleted only with its last member.

**Billing** (`packages/shared/src/billing/webhookHandler.ts`, `database/subscription`).
State: the subscription row of a tenant, `billing_events`. Operations: the webhook (duplicate
check, handler, record) for five kinds of events, plan changes by hand, the daily end of trials. Hard: Stripe delivers in
any order and again; the event is recorded after it was handled; a handler has several
statements. Correct when: the row says what Stripe says; a tenant that stopped paying is free.

**Actions** (`services/slack-bot/src/handlers/actionHandler.ts`, `packages/shared/src/actions`).
State: the payload store in the memory of a process, the action queue, the proposal's status.
Operations: approve (queued or executed at once), dismiss, the queue's handler, expiry, restart.
Hard: the payload is deleted at the end of the handler; executing and publishing share a `try`.
Correct when: an action that was approved is executed once, one that was dismissed never.

**Analysis jobs** (`services/api/src/workers/analysisWorker.ts`, `routes/analysisRoutes.ts`).
State: rows of `analysis_jobs`; each loop's batch, the jobs it started, `activeJobs`. Operations:
insert, select `FOR UPDATE SKIP LOCKED`, start, check of the subscription, mark, analyse,
complete or fail. Hard: the select commits at once, jobs are not awaited, a row being processed
is never selected again. Correct when: every row ends, and is not analysed without end.

**Analysis budget** (`packages/shared/src/queue/alertBudgetQuota.ts` with its two callers).
State: one counter per tenant and day with its time to live. Operations: check, analyse,
increment, expire. Hard: check and increment are an analysis apart; INCR and EXPIRE are two
commands. Correct when: the limit is overrun by the race only, and the counter ends.

**Webhook intake** (`services/github-app/src/routes/webhookRoutes.ts`, `gitlabWebhookRoutes.ts`,
`services/api/src/routes/deployWebhookRoutes.ts`, `packages/shared/src/cache/webhookDedup.ts`).
State: per delivery a key in Redis and rows of `webhook_activity`; attempts in progress and the
writes nobody waits for. Operations: look up (key, rows), handle, mark, log. Hard: both records
are written after the answer. Correct when: a delivery is handled once, and is called a duplicate
only of one that was handled.

### How they interact

- GitHub webhook → `processCIFailure` → CI aggregation → poller → `enqueueFair` (or the base
  queue when no tenant is found) → fair queue worker → consolidated analysis → comment, Slack
  message through the reliable queue.
- Alert webhook → `processWebhookAlert` → reliable queue → triage worker → dispatch.
- Log drain → `append` → flush triggers → `flush` → analysis of the window.
- Slack button → `executeStoredAction` → action queue (reliable queue) → action executor.
- `POST /analyze` → row → analysis worker; deployment and alert analyses count against the budget.
- Login, team routes, invitations and GitHub's organization events all write `user_organizations`;
  the plan that limits a team is the one billing writes.
- All outgoing HTTP goes through the resilient client; language model calls and some
  integrations through the circuit breaker.

The modules meet at these points by what one shows of the other: `IncidentTriage` uses the
queue as first in, first out, `MaxRetries` re-queues, then the dead letter list, with commands that fail; in
`CiAggregation` a job is enqueued or not; `FairQueue` contains its base queue in full;
`ActionPipeline` runs over the queue's abstract specification, `JobLifecycle`, which
`ReliableQueue` is proved to implement while no command fails.

### Not modelled yet, planned

| Part | Source | What is hard in it |
|---|---|---|
| Investigation worker | `services/incident-triage/src/workers/investigationWorker.ts` | four stages over the queue, a row that may say "completed" and be run again |
| Posting of results | `services/github-app/src/services/aggregation/consolidatedPoster.ts` | retries of partial effects |
| Graceful shutdown | `packages/shared/src/shutdown/gracefulShutdown.ts` | handlers against the force-exit timer |
| Rate limiting failover | `packages/shared/src/rateLimit` | counters over a store that comes and goes |

`tenantSemaphore` and `singleflight` run each operation to its end without an `await`: a call
interleaves with nothing, and `coalesce` has no caller.

### Not planned, and why

Repositories and schema (storage: the statements that matter are modelled as their effect),
caches (no state depends on them), language model and integration clients (external calls),
retrieval, chunking, scoring, redaction and formatting (pure text and numbers), chat,
fine-tuning, the web dashboard, the Slack commands and modals, observability, and deployment
configuration. `tenantQuota.ts` and parts of `alertBudgetQuota.ts` have no caller.
`PROJECT.json` lists every component with its status.

## 2. Modules

| Module | Role |
|---|---|
| `ReliableQueue` | the queue, its producers, worker loops, crashes and failing commands |
| `JobLifecycle` | what the queue promises a producer about one job; `ReliableQueue` implements it |
| `ReliableQueueProofs` | proofs about `ReliableQueue`: where a job is, how often it runs, how it is lost, why it is dead, and that the queue implements `JobLifecycle` |
| `FairQueue`, `FairQueueProofs` | the fair scheduler with its base queue, and proofs about it |
| `IncidentTriage`, `IncidentTriageProofs` | intake, queue and pipeline of incident triage, and proofs about it |
| `CiAggregation` | the aggregation of one commit |
| `IngestionBuffer`, `IngestionBufferProofs` | the buffer of one deployment, and proofs about it |
| `CircuitBreaker` | one circuit |
| `ResilientClient` | the retry loop of requests that share one circuit |
| `Membership`, `MembershipProofs` | who belongs to one organization and who owns it, and proofs about it |
| `Billing` | the subscription row of one tenant under Stripe's events |
| `ActionPipeline` | one proposed action from its buttons to its execution, over `JobLifecycle` |
| `AnalysisJobs` | the rows of `analysis_jobs` and the loops that drain them |
| `AnalysisBudget` | the daily counter of one tenant |
| `WebhookIntake` | the replay protection of one delivery |
| `MC*` | instances for TLC: symmetry sets and functions a `.cfg` cannot write |
| `MCSmallParts` | `CircuitBreaker`, `ResilientClient`, `CiAggregation`, `AnalysisJobs`, `AnalysisBudget`, `WebhookIntake`, one of them per behaviour |
| `WorkPartsProofs` | proofs about the parts `CiAggregation` and `AnalysisJobs` of `MCSmallParts` |
| `SmallPartsProofs` | proofs about its other parts, and the conclusions about the sum |
| `MCTenants` | `Membership`, `Billing`, `ActionPipeline`, one of them per behaviour |
| `TenantsProofs` | proofs about the parts `Billing` and `ActionPipeline` of `MCTenants`, and the conclusions about the sum |

The two sums do not compose anything: their parts share constants and no state,
`part` is chosen at the start, and every other part's variables keep their first values. They let one run check several small systems. Each part's fairness is restated for the
sum: a step of the part that is not running is never enabled.

Conventions. Constants that start with `Max` are either settings of the code
(`MaxRetries`, `MaxLines`, `MaxTenantsPerRound`) or bounds of the model, and the declaration
says which. A failing command is `Replies`: `"ok"`, `"rejected"` (never reached the server:
the client has its offline queue off) and `"unconfirmed"` (applied, its reply lost; also a
`withTimeout` that fired). Variables marked *history* are written and never read by an action
guard. An operator under a "Mutant" comment is a deliberately wrong variant of the
definition after it; no specification uses it.

### State and actions against the code

**ReliableQueue.** `pending`, `processing`, `dead` are the three lists. `pending` keeps its
order (its `Head` is the right end, next out); the others are bags, since LREM removes by
value. An entry is a message id and its `retryCount`. `worker[w]` is where the loop awaits
(`handling`, `ack`, `remove`, `push`), the message, the plan of `handleJobFailure` and whether
it is inside the `catch` block. `Enqueue` = `enqueue`; `Fetch`/`FetchFails` = RPOPLPUSH;
`Handle` = the handler's result (success, failure, `shouldRetry: false`, throw); `Ack`,
`Remove`, `Push` = the LREM of a success and the LREM and LPUSH of a retry or burial. A
rejection in the `try` goes to the `catch`, which fails the job with the full limit
(`Rejected`); a rejection in the `catch` ends the loop, which has no `catch` of its own.
`Crash`/`Restart` = the container dies with all the loops of its process (`Processes`) and starts them
anew; `cutOff` counts the loops a crash stopped between LREM and LPUSH.

**FairQueue.** The same per tenant, plus `active` and the two-step registration: `EnqueueFair`
is the LPUSH, `Register` the SADD. `Pick` = SRANDMEMBER, `Pop` = RPOPLPUSH, `Unregister` = SREM
on an empty list, `Count`/`Clear` = LLEN and SREM after a success, `Activate` = SADD after a
retry; `left` is `attemptsRemaining`. Here the worker loop survives a rejection (`PollFails`).
`dead` counts the entries of the dead letter list: what is pushed twice is there twice.
A job id that is gone may be submitted again, so a tenant can submit without end.

**IncidentTriage.** `request[r]`: `Receive` (look up by idempotency key), `Insert`, `Enqueue`, with
the replica that answers it: a replica answers many, and `Crash` ends them all.
`worker[p]`: `Take` (RPOPLPUSH) and `Handle` (parse, load), `Mark`, `Check`, `Skip`, `Register`, `Analyse`,
`Dispatch`, `RecordDispatch`, `Finish`, `Reset`; `Ack` = the LREM of a handled job, `Settle` =
`handleJobFailure`, LREM and LPUSH in one step since the processing list is left out. They fail like
the commands of the database: an unconfirmed LPUSH leaves the job in the queue and the `catch` block
pushes it again, so two replicas may come to hold it. The upsert of the dedup row lets the last writer
own it (`Register`); a failed target is recorded, never raised (`Dispatch`). `races` counts
registrations over an entry that came after the check, `dropped` the alerts a job of which was lost,
`cutOff` the requests a crash ended between INSERT and enqueue.

**CiAggregation.** `meta` is whether the metadata exists and whether `firstFailureAt` is older
than `maxWaitMs`; `stored` the checks; `debounce` the key. `ReadState`/`Write` = an add.
`Scan`, `CheckReady`, `CheckRuns`, `ReadMeta`, `ReadChecks`, `Enqueue`, `Delete` = a poll.
`Unreadable` is the path where a failed read becomes `null` and `null` is deleted.
`Expire` = the keys' time to live, which begins after `maxWaitMs` and lasts many polls.

**IngestionBuffer.** `score[l]` is the line's score in the sorted set; `meta` its
`lastFlushAt` and whether the hash has its identity fields (`close` deletes them, a mark alone
does not restore them). `marked` is the last instant marked, `rollbacks` counts the marks that were
lost: set back by the write of an append, deleted by a close, or written to a hash without identity. A line's time is the provider's, which no
code compares with the clock of the replicas (`bufferOperations.ts:83`, `vercelLogAdapter.ts:297`): it
may be behind or ahead, and `ahead[l]` counts the marks made before the time of a line they fetched.
`Add`, `ReadBuffer`, `WriteMeta`, `Evict` = `append`; `Trigger`, `Lock`,
`ReadMeta`, `Fetch`, `Mark`, `Trim`, `Unlock` = `flush`; `Close`; `LockExpires`; `Tick`.

**CircuitBreaker, ResilientClient.** The counters saturate at their thresholds, since only the
comparison is used. `elapsed` is whether the reset timeout has passed since the last failure.
`Begin` = the check, `Succeed`/`Fail` = the record of the outcome, `Evict` = idle eviction.
In `ResilientClient` the circuit is checked before the first attempt only and recorded to
after the last one; `again` is the status of the last response, which `shouldRetry` consults
even for a network error.

**Membership.** `role` is the table `user_organizations` for one tenant (`staff` stands for every
role below owner), `pending` the invitations, `revoked` the flags in Redis. `call[c]` is a request,
webhook or login: its await (`at`), its user, the role it will write, and what it read (`found`,
`seen`). `Find`, `CountOwners`, `Write`, `Flag` = a change or removal; `Look`, `Limit`, `Add`,
`Clear`, `Check` = a login and its repair; `Consume`, `Limit`, `Add` = an acceptance; `Insert`,
`Close` = the life of an invitation; `Orgs`, `CountMembers`, `Erase`, `Drop` = `deleteAccount`.
The transaction of an owner of a shared team always fails (`Erase`): PostgreSQL does not allow
`FOR UPDATE` with an aggregate, so owners of shared teams cannot delete their account.

**Billing.** `stripe` is the status and the plan Stripe has of each subscription, `sent` the events in
the order they were made: `Subscribe`, `Charge`, `Change` (of the status or of the plan, with or without
the plan in the event's metadata), `End`. `row` is the subscription, `recorded` the processed events,
`handling[h]` a webhook: `Check`, then per kind `Link` (checkout), `Find` and `Apply` (payment and
update), `Cancel` and `Downgrade` (deletion), `Record`. `Apply` converts as the code does: an update with
any status but `active` writes `past_due`, one without a plan and a paid invoice without its period
write nothing and are recorded all the same. `Ensure`, `ChangePlan` and `ExpireTrial` are the other
statements that write the row. History: `orderly` (received in order, one at a time, handled to the end),
`untold` (what changed in an event that does not carry it), `missed` (the last checkout found no row).

**ActionPipeline.** `click[c]` is the await of a press: `Approve`, `Prepare`, `Enqueue` or
`ExecuteNow`, `Persist`, `Delete`; `Reject`, `Dismiss`. `phase` and `tries` are `JobLifecycle`'s,
`job[c]` the step of `processActionJob`: `Start`, `Execute`, `Publish`. A worker's process dies with all
the messages it has in hand (`Lose`).

**AnalysisJobs.** `fetched[l]` is a SELECT's result, `tasks[l]` the jobs the loop started, in as
many slots as it runs at a time: one loop may have started a row twice. `struck` are jobs that a fault hit.

**AnalysisBudget.** `Check`, `Analyse`, `Increment`, `Expire` = the four awaits; `ttl` whether the
key expires. The day does not end in a behaviour: the counter is never reset in it.

**WebhookIntake.** `attempt[h].at` is the await before the answer, `writes` the `void` promises after
it. `FindKey` = `isWebhookDuplicate`, `FindActivity` = the query by delivery id, `Mark` and `Write` =
the two records. `Expire` ends the key, `Purge` deletes the rows with their tenant
(`hardDeleteTenant`, `030_fix_orphaned_data_cascading.sql:152`); `forgotten` counts the losses of the last
record the route looks up (`Known`). GitLab's "ignored" events log like processed ones (`Succeed`).

## 3. Runs

| Run | Instance | What it shows |
|---|---|---|
| `queue` | 2 jobs, 2 processes with 3 worker loops, 1 retry, 2 crashes of a process, 1 failing command | `OnePlace`, `NoConcurrentRuns`, `NeverRunAgain`; the queue implements `JobLifecycle` until a command fails (`ImplementsLifecycle`); `DeadJustified`; `LossBound`: a failed command loses at most one accepted job, a crash one per loop it stops between LREM and LPUSH; `EventuallySettled` |
| `fair_safety` | 1 tenant and the base list, 2 jobs, 2 workers, 2 crashes, 2 failing commands | `WorkIsRegistered`, `CopyBound` |
| `fair_starvation` | 2 tenants, 3 jobs submitted again and again without end, 1 worker, no fault | `NoStarvation` |
| `triage` | 3 alerts of one fingerprint (one without a tenant), 2 replicas, 2 requests at a time, 3 receipts, 1 expiry, 1 failing command (of the database or the queue), 1 crash | `SkippedIsQueued`, `SuppressedIsCovered`, `OneDispatchPerWindow`, `EventuallySettled` |
| `buffer` | 2 lines, 2 appends, 2 flushes, 1 close, 1 fault, 2 instants, lines of either instant at any time | `OneFlusher`, `BoundedDuplicates`, `OnlyLateLinesSkipped`, `LockFreed` |
| `small_parts` | 3 overlapping calls, thresholds 3 and 2; 2 requests, 2 retries; 2 checks, 2 pollers, a limit of 1 per commit; 2 jobs, 2 loops of 1 slot; 3 calls over a budget of 2; 3 attempts at a delivery, 2 at a time; 2 faults | `TransitionsEarned`, `CircuitsClose`, `EveryRequestEnds`; `OnlyKnownLosses`, `BoundedDuplicates`, `EventuallyEnqueued`; `JobsAccounted`, `EventuallyFinished`; `QuotaSound`; `ReplaysSound` |
| `tenants` | 3 users, a plan for 2, 4 calls of which 2 overlap; 2 subscriptions, 2 plans, 3 events, 3 deliveries, 2 at a time; 3 presses, 1 retry; 1 fault in each | `LastOwnerKept`, `TeamWithinPlan`, `TakesOnlyNewcomers`; `InSync`, `CanceledIsFree`; `ExecutedOnce` |
| `queue_visibility` | 1 job, a crash | **violated**: `VisibleAgain` |
| `triage_self_dedup` | 1 alert, 1 failing command | **violated**: `OnlyFutureAlerts` |
| `ci_late` | 2 checks, 1 poller, no fault | **violated**: `DeletesOnlyEnqueued` |
| `membership_login` | one login that finds the team full, no fault | **violated**: `SkippedWhenFull` |
| `action_dismissed` | two presses, no fault | **violated**: `DismissedStays` |

Every run also checks the type invariants of its modules (`TypesOK` in the sums), except `fair_starvation` and the violated ones.
Deadlock is not an error in any of them: producers and faults are bounded, so each system may
come to rest.

### The five disagreements

- `queue_visibility`. `packages/shared/src/queue/types.ts:69` documents "Visibility timeout in
  seconds (how long a job is hidden while processing)". `createQueue` never reads the option and
  nothing looks at the processing list, so a job whose worker dies stays there for ever.
- `triage_self_dedup`. `deduplicationService.ts:89` says the registration is so that "future
  alerts with the same fingerprint are flagged as duplicates". An attempt that fails after
  registering is retried, finds its own entry and sets its own alert aside.
- `ci_late`. A poller reads the checks, enqueues, and deletes the three keys whatever they hold
  by then; a check added in between is in no job, where `constants/redis.ts:277` says that a new
  failure resets the timer.
- `membership_login`. `docs/SUBSCRIPTION_PLAN_LIMITS.md:450` says of a login that finds the team full
  that "the membership is silently skipped". It is, and `autoLinkOrganizations` then takes the
  missing row for an orphan, and adds it as admin without looking at the limit.
- `action_dismissed`. `actionHandler.ts:395` says of a dismissal that it "cleans up stored payload".
  Nothing deletes it, so the button of a dismissed action still approves it.

### What the passing invariants bound rather than forbid

These are behaviours of the code that a reader should know of; the properties state how much
of each there can be.

- A container that dies loses the job of every loop of its process that is between LREM and LPUSH
  (`cutOff` in `LossBound`).
- A rejected RPOPLPUSH ends a worker loop of the reliable queue (`EventuallySettled` excuses
  the case where every loop has ended), while the fair queue's loop goes on.
- A SREM decided on an empty list may overtake a LPUSH and SADD, and a crash or a failed command
  may leave the SADD of a pushed job out (`unsent`); the tenant is then out of the
  rotation until its next job (`overtaken` in `WorkIsRegistered` and `NoStarvation`).
- A crash or error between the INSERT of an alert and its enqueue makes the redelivery a
  "duplicate" of an alert nobody triages: one per failed command and one per request the crash ended
  there (`SkippedIsQueued`).
- Two replicas that check before either registers both dispatch, be it two alerts or one whose job an
  unconfirmed LPUSH left in the queue twice: one more round per such registration (`races` in
  `OneDispatchPerWindow`).
- A failed read deletes an aggregation, a run in progress defers one past `maxWaitMs` until it
  expires, and a check over the limit is not stored (`OnlyKnownLosses`, whose `excused` set
  names the first two; the last never becomes `added`).
- A close deletes the lock of a running flush, which lets one more flush run beside the first; an
  append writes back the `lastFlushAt` it read before a flush, and a close deletes the one there is,
  which lets every such flush return the lines again; so does each mark made while a line's time is ahead
  of it: `(1 + closes) * (1 + rollbacks + ahead[l])` copies of a line (`BoundedDuplicates`, `OneFlusher`).
  A provider whose clock is ahead of the replicas' has its lines returned by every flush until then.
- A line that arrives with a time before the last mark, between fetch and mark, or into a flush that
  fails after its mark, is skipped (`OnlyLateLinesSkipped`).
- Two calls that count two owners each, or read a role before another changed it, leave a team
  without one (`LastOwnerKept`, whose `Outdated` is exactly that); overlapping logins and
  acceptances exceed the plan (`TeamWithinPlan`).
- A deletion that was cancelled in the row but not downgraded is not found by its retry, since the
  lookup leaves canceled rows out: the tenant keeps its paid plan (`cut` in `CanceledIsFree`).
- An event that overtakes the checkout of its subscription finds no row, is recorded and
  forgotten (`orderly` in `InSync`). A checkout for a tenant without a subscription row, which
  `createCheckout` does not make sure of, updates nothing and is recorded as processed (`missed`).
- An update without `metadata.planId` is recorded and not applied, a paid invoice without a period does
  not make the row active (`untold`); a trial at Stripe is shown as `past_due` after an update and as
  `active` after an invoice (`Shown`).
- A press handled while another is in hand queues the action again, and a result that cannot be
  published runs it again (`overlapped` and `faults` in `ExecutedOnce`).
- A row is analysed as often as loops have slots, since the SELECT's locks end with it
  (`AnalysedOncePerSlot`); a process that stops leaves its rows in `processing` (`struck`).
- The budget is overrun by the calls that read the counter before one of them incremented it
  (`OverrunBounded`); after a lost EXPIRE the counter stays (`CounterExpires`).
- A webhook whose handler failed is logged with the status "failed", any row makes a redelivery a
  duplicate, and GitHub's route then even sets the key: redelivering a failed webhook does nothing
  (`failed` in `DuplicateWasHandled`; the deployments' route marks successes only). A delivery whose last
  record expired, or went with its tenant, is handled again (`forgotten` in `HandledOnce`).

Met while reading and not the subject of a run:

- `clearMembershipRevokedFlag` is called for a member who already has a row only, so one who was removed
  and joins again stays blocked until the flag expires.
- The rows of `webhook_activity` are documented to be purged after 90 days
  (`028_tenant_retention_policies.sql:7` and `:73`, `constants/retention.ts:14`), by the task that
  `services/api/src/index.ts:281` runs every day. `PURGE_WEBHOOK_ACTIVITY` (`constants/retention.ts:58`)
  deletes from `webhook_activity_log`, which no migration creates (`024_row_level_security.sql:51` gives
  `webhook_activity` as the actual table). The statement is always rejected, and with it the
  `Promise.all` of `enforceRetentionForTenant` (`retention/repository.ts:111`): the other three purges
  take place, the task logs a failure for every tenant, and the rows stay. A purge that worked would be
  one more way to take `Purge`.
- `cleanupOldBillingEvents` is exported and called by nothing; a caller would let an event that Stripe
  sends again be applied again.

What the properties leave out, by choice:

- `OnePlace`, `NoConcurrentRuns`, `NeverRunAgain` and `ImplementsLifecycle` speak of the time before a
  command fails. After one a job may be in the queue twice; what that does to an incident is
  `OneDispatchPerWindow`'s, what it does to a fair queue `CopyBound`'s.
- `OnlyLateLinesSkipped` sees buffered lines, not the ones that an eviction dropped unread.
- `JobsAccounted` and `EventuallyFinished` excuse the rows that a fault struck: a row left in
  `processing` is never selected again, and nothing in the repository says that it should be.
- `ExecutedOnce` counts executions that were reported as successes; a request that took effect and timed
  out is retried uncounted.
- `TeamWithinPlan` has a plan of constant size, and not the login that creates the tenant
  (`authService.ts:682`).
- In `Billing`, a change at Stripe is one of the status or of the plan, not of both, the plan an event
  names is the one Stripe has then, and a trial is put into the row by hand, as no code writes one.

### Why the bounds are enough

Two workers, replicas, pollers or flushers show every pairwise interleaving; the races above
all need two parties. The queue's third loop shares a process with one of them, and a replica may answer
both requests, so that one crash takes two. One retry separates the first, a middle and the last attempt
(`retryCount` 0 and 1, with the dead letter after 1). Two jobs of one tenant let a job be
pushed while the list of the other is found empty. Two failing commands reach the second
failure inside the `catch` block. Three jobs let one tenant keep its list filled while another
tenant's job waits. Three alerts of one kind let one be dispatched, one be set
aside and one arrive after the window expired. Three users make a team of a plan for two that can
be full, exceeded by one, and have two owners; four calls begin so that two overlap and others
come before or after. Two subscriptions let the events of an old one meet the row of a new one, two plans let one
change to another, and three events let one overtake its checkout and another follow.
Two slots in all are enough for a row to be selected twice. Times are abstracted to what is compared:
before or after a limit, or two instants. In `FairQueueSafety.cfg` jobs and workers are
interchangeable, in `Tenants.cfg` users (who press the buttons), calls (as many webhooks are
handled at a time), subscriptions and plans, so symmetry is used; neither has a liveness property. The
other cfgs use none.

## 4. Fairness

- Worker loops, pollers and flushes in progress: weak fairness on the next command of each. An
  `await` of a Redis or SQL command settles (a lost connection rejects what is pending after
  `maxRetriesPerRequest`; aggregation and buffer wrap theirs in `withTimeout`), the loops poll
  without end. A crash disables the command; `Restart` is weakly fair because
  `docker-compose` restarts the containers (`restart: unless-stopped`).
- Handlers return (weak fairness on *some* outcome, never on success).
- `Pick` is strongly fair per tenant: SRANDMEMBER asked without end returns every member. A
  deterministic pick would starve tenants, which is the mutant of that run.
- Redis expires keys: weak fairness on `DebounceExpires` and `LockExpires`. Reset timeouts pass:
  weak fairness on `Elapse`.
- GitHub completes every check run (`Complete`), for `EventuallyEnqueued` only.
- The analysis loops select, start and go on, and each statement and analysis ends (`Process`); a
  SELECT that finds nothing it may take is no step, so nothing is assumed about which rows it takes.
- Nothing is assumed of producers, redeliveries, crashes, failing commands, and the health of a
  remote service; `ClosesForGood` is conditional on the service staying up.

Replicas share one clock in the models that have one (`IngestionBuffer`): their skew is taken to be
below what the code tells apart. The clocks of providers are free.

## 5. Proofs

Each theorem holds for every value of the constants that the assumption of its module allows. The
assumptions ask that limits and bounds are naturals (and not 0 where the code's configuration is
not), that the actors that are counted (workers, replicas, flushers, calls) are finitely many, and
that `None` and `Base` are not values of the data. TLC evaluates every one of them on its instance.

### Reliable queue

`ReliableQueueProofs` proves, for every set of jobs, loops and processes and every value of the limits:

| Theorem | Statement |
|---|---|
| `TypeCorrect` | `Spec => []TypeOK` |
| `StaysInOnePlace` | `Spec => []OnePlace` |
| `NeverRunTwiceAtOnce` | `Spec => []NoConcurrentRuns` |
| `RunsAreBounded` | `Spec => []RunBudget` |
| `DoneIsDone` | `Spec => NeverRunAgain` |
| `DeadIsJustified` | `Spec => []DeadJustified` |
| `LossIsBounded` | `Spec => []LossBound` |
| `QueueImplementsLifecycle` | `Spec => ImplementsLifecycle` |

The assumptions are `QueueAssumption` (the limits are naturals and `None` is not an entry) and
`ProcessAssumption` (finitely many loops, a process is a set of them).
`JobLifecycle` has no phase for a job that a failed command left in two places, so its promise
holds until a command fails (`faulty`, mapped to `redisErrors > 0`); the number of crashes is any.

*Types.* `TypeOK` is not inductive: LPUSH writes `retryCount + 1`, which is within the type
only if the plan `"retry"` was chosen for a message below the limit. `PlanInv` says so, and
`TypeInv == TypeOK /\ PlanInv` is inductive (`TypeInit`, `TypeStep`). The point is the second
failure in the `catch` block, which plans again with the full limit: `FailedType` and
`RejectedType` show that it plans for the same message.

*Place.* `OnePlace` speaks of lists only; what keeps a job single is the relation of lists and
hands. `PlaceInv` adds: no list holds two entries of a job, the three lists are apart (`Apart`), a
job in any of them was submitted (`Known`), a worker before its LREM holds exactly the entry in
the processing list and a worker between LREM and LPUSH holds a job that is in no list
(`HeldInv`), and no two workers hold the same job (`Alone`). It is inductive while
`redisErrors = 0`; as the counter never decreases, `redisErrors' = 0` gives `redisErrors = 0`,
so the invariant carried is `redisErrors = 0 => PlaceInv` (`PlaceCorrect`). A crash only empties
a hand, which weakens every conjunct. `TailJobs`, `AppendJobs`, `PushedJobs` and `LRemJobs`
state what each Redis command does to the set of jobs in a list; the steps cite them.

*Runs.* The code keeps no count of runs; `retryCount` travels with the message. `RunInv` relates
the two: a waiting entry's `retryCount` is at least the runs of its job, a held entry's at least
all but the present run. `PlanInv` then bounds the runs by `maxRetries + 1`. `DoneInv` says that
a job that succeeded or was declined is in no list a worker reads, and that whoever holds it is
`Leaving`: waiting for the acknowledgment or planning the dead letter list. Both need `PlaceInv`,
without which a second copy could be anywhere; `LifeInv` carries the three together.

*Dead letters.* Nothing in the list says why an entry is there. `DeadInv` carries the reason with the
worker: whoever plans the dead letter list (`Dying`) holds an entry without an attempt left, or of
a job whose handler declined. It holds under failed commands too, since the catch block plans again
with the full limit (`FailedEarned`, `RejectedEarned`). `WonInv`, while Redis answers, says that the
worker of a job that succeeded only acknowledges it; it needs `PlaceInv` and `DoneInv`.

*Losses.* `LossInv` counts what `LossBound` counts, for failing commands and crashes together. Each
step loses nothing, or is a failed command and loses one job, or is a crash and loses as many as it
adds to `cutOff` (`LossStep`): a rejected LREM or LPUSH strands the job of one worker, a crash the
jobs in the hands of its loops between LREM and LPUSH, and a command that was applied before its
reply was lost loses none.

*Refinement.* `Phase` maps the lists and hands to one phase per job; `PhaseFacts` restates it
by membership, where `Apart` makes the cases exclusive. `LifeStep` shows for each action that
one job makes a move of `JobLifecycle` and the others stay (`MoveOne`, `SamePhase`), or that none
moves: LREM before a push is a stutter, since the job goes from the processing list to the
worker's hands. `Start` and `Retry` need their bound from `RunInv`; that a `Retry` never revives a
settled job needs `DoneInv` with `SettledInv` (what is acknowledged succeeded).

### Fair queue

`FairQueueProofs` proves `TypesHold` (`[]TypeOK`), `WorkStaysRegistered` (`[]WorkIsRegistered`) and
`CopiesAreBounded` (`[]CopyBound`) for any number of tenants, jobs and workers.

*Types.* The locals of a loop say which command it sends next; `Locals` relates them to the list and
entry it holds.

*Registration.* Only a SREM over a list with a job can undo the registration, and that is what
`overtaken` records; the steps that fill a list are followed by a SADD of the same caller, or the
caller was struck and the list is in `unsent`.

*Copies.* The copies in lists are not inductive: a LREM that was applied and not confirmed leaves a
worker that will remove the entry again, from nothing, and then push it. So a list counts, for each
entry, the larger of what its processing list holds and of the workers that still owe it a removal
(`Marks`). With that, no answered command adds a copy, and a failed one adds at most one (`CopyInv`).

### Incident triage

`IncidentTriageProofs` proves `TriageTypeCorrect` (`[]TypeOK`), `DuplicatesWereQueued`
(`[]SkippedIsQueued`), `SetAsideIsCovered` (`[]SuppressedIsCovered`) and `NotifiesOncePerWindow`
(`[]OneDispatchPerWindow`) for any number of alerts, fingerprints and replicas.

- `Known`: whatever a job in the queue or in a hand names has been queued, and a request past its INSERT
  has an alert with a row.
- `LostInv`: the alerts stored and neither queued nor about to be are at most as many as failed commands
  and requests cut off. A step makes no such alert, or one and a fault (`LosesNone`, `LosesOne`), or is a
  crash and makes those of its requests (`LosesOnly`).
- `CoverInv`: while nothing fails, the entry of a window belongs to an alert that was
  dispatched or whose worker is on its way to it, so whoever finds it may set its own alert aside.
- `RoundInv`: an entry that is free, the workers that owe a dispatch, and the rounds there were are
  together at most `1 + expiries + races`. It does not ask who has which job: a registration over an
  entry is a race, whoever made the entry, and over none it takes the free one.

### Ingestion buffer

`IngestionBufferProofs` proves `BufferTypeCorrect` (`[]TypeOK`), `FlushesExclude` (`[]OneFlusher`),
`OnlyLateLinesAreSkipped` (`[]OnlyLateLinesSkipped`) and `DuplicatesAreBounded`
(`[]BoundedDuplicates`), for any number of lines, instants, appends and flushes.

- `LockInv`: the flushes past the lock are at most one if the lock is held, and one per close.
- `SkipInv`: before any close, a buffered line behind the last mark is late, was returned, or is in
  the hands of the one flush there is, which has all other lines when it is about to mark.
- `DupInv`: a line before the `lastFlushAt` of the hash can be returned by flushes that hold it or
  that read the metadata before; a line after it will be fetched once more by each flush that runs, which
  only a lost mark, or one made before the line's time, allows again (`Lags`, `Share`, `Limit`). No order
  of the line's time and the clock is used.

The proofs corrected the model's own bounds. With the hash's `lastFlushAt` as "the last mark", and
one copy counted for each close and each write back, both properties held on the small instance and
were false in general: a write back can hide a line from the very comparison, a mark on a hash
without identity fields is lost too, and a lost mark lets *each* flush beside the first return the
line again. Hence `marked`, the third kind of `rollbacks`, and the product as the bound.

### The small parts

`WorkPartsProofs` and `SmallPartsProofs` are about `MCSmallParts` under `PartsAssumption`, for any
finite sets of pollers, jobs, loops, calls and handlers. A step of the sum is a step of one part or
none, so `AllSpec` implies each part's `Spec` (`CircuitPart` to `IntakePart`); the theorems on
`AllSpec` follow from one on each part.

| Theorem | Statement |
|---|---|
| `PartsTypeCorrect` | `AllSpec => []TypesOK` |
| `PartsTransitionsEarned` | `AllSpec => TransitionsEarned` |
| `SuccessesAreFresh` | `Spec => []NoLeftoverSuccesses` |
| `LossesAreKnown` | `AllSpec => []OnlyKnownLosses` |
| `DuplicatesAreBounded` | `AllSpec => []BoundedDuplicates` |
| `RowsAreAccounted` | `AllSpec => []JobsAccounted` |
| `BudgetHolds` | `AllSpec => []QuotaSound` |
| `ReplaysAreSound` | `AllSpec => []ReplaysSound` |

*Circuit.* The invariant relates the counters of the circuit to the runs of equal outcomes that were
recorded (`Counted`): in a closed circuit the failures counted are the failures in a row, and the
successes counted never exceed the successes in a row, whatever calls overlap.

*CI aggregation.* `KeptInv`: what a poller is about to delete it has read and enqueued, or the check
is excused. The property was weaker before (a check in a poller's hands counted as safe too); the
proof showed that a check is always in the hash or in a job. `CopiesInv`: a stored check was enqueued
by the pollers that have yet to delete it, or by faults; a deleted one can only be enqueued by those
that read it before (`Holders`). `FreshInv`: a check is nowhere before its run completes.

*Analysis jobs.* `RowsInHand` is inductive with the types. For the number of analyses, `ClaimInv` adds
to the analyses of a job the slots that will still start one (`Claims`) and the batches that have it
(`FetchedBy`): they never exceed the slots of all loops, as a batch has room in its loop's free slots
(`ClaimsFit`). The sum grows only while the row waits, when no analysis has begun. A loop's tasks are
kept by slot for this proof; before, they were counts by row and statement, and what a sum over a
function does cannot be proved without induction over data.

*Budget.* `AllCounted` relates the counter to the analyses: those it lacks are about to be counted or
were lost to a failed command. A check that passes reads a counter below the limit, and the calls
that have still to count are not among those that analyse, so both together are at most all calls
(`DisjointCalls`); that gives `Overrun`.

*Webhook intake.* Whatever a redelivery can find (`Trace`: the key, a row, a write under way) was left
by an attempt that handled the delivery or failed (`Cause`). While attempts do not overlap, one that
is past the look-up found nothing, so nothing was handled but for the faults and the records that were
lost (`Causes`, `Guarded`).

### Tenants

`MembershipProofs` is about `Membership` alone, for any finite set of users and any number of
overlapping calls and failed commands (`MembershipAssumption`); `TenantsProofs` is about the other
two parts of `MCTenants` (`TenantsAssumption`: no subscription is named as the NULL of a row, no paid
plan is the free one, retries are counted) and about the sum, whose steps are steps of one part or none (`TeamPart`, `BillPart`,
`ActionPart`).

| Theorem | Statement |
|---|---|
| `MembershipTypeCorrect` | `Spec => []TypeOK` |
| `LastOwnerProtected` | `Spec => LastOwnerKept` |
| `TeamStaysWithinPlan` | `Spec => TeamWithinPlan` |
| `OnlyNewcomersLose` | `Spec => TakesOnlyNewcomers` |
| `AllTyped` | `AllSpec => []TypesOK` |
| `RowFollowsStripe` | `AllSpec => []InSync` |
| `EndedIsFree` | `AllSpec => []CanceledIsFree` |
| `ActionsRunOnce` | `AllSpec => []ExecutedOnce` |
| `TeamStepsKept` | `AllSpec =>` the three action properties of `Membership` |

*Membership.* What a handler read is in `call[c]`, not in the rows, so the invariants are about the
calls. `CallOK`: one that is about to demote or remove a user it found to be an owner has counted
more than one owner. `WriteOrphans` and `EraseOrphans` compare that count with the rows at the write:
if it removes the last owner, the rows hold fewer owners or members than the call counted, or a
membership it did not see, which is `Outdated`. `OthersKeepOwners` shows that no other step removes an
owner while members remain.

*The plan and the end of a tenant.* `ReadOK` says what a call has counted when it gets to the
statement that relies on it: fewer members than the plan allows before it adds a user it found
outside the team, unless it repairs, and one member at most before it deletes the tenant. `Gone` says
that the account of a call that is about to delete the tenant is deleted already, so its user is no
member then. With these (`PlanInv`) the properties follow at the one step that can break each: `Add`
is the only one after which the team is not a part of what it was (`OthersDoNotGrow`), `Drop` the only
one that ends a tenant.

*Billing.* The types carry what the later statements of a webhook rely on: Stripe says `canceled` in a
deletion and nowhere else (`Told`), and a handler past its look-up is at a statement of its event's
kind (`PlaceOK`). With them `CanceledIsFree` is inductive. `InSync` speaks of the end of an orderly
history only; its invariant has to say what the row is in the middle of one, when Stripe is several
events ahead. `SyncInv` therefore asks for a past `p`: what Stripe had of every subscription after
each event (`Books`: status, plan and what was left untold), one of them live at most (`Past`). The row
then agrees with `p[turn]`, or with `p[turn - 1]` while the handler of the event whose turn it is has not
written (`Follows`, `HandOK`), and at the end `p[turn]` is what Stripe has. That an event delivered again
changes nothing is the case of a handler that finds its event on record, or that finds no row for it: an
event of a subscription the row does not have is not recorded, and is `Strange` for good. After a checkout
that found no row (`missed`) the row has no subscription at all, until the next one. A deletion is in
agreement as soon as its first statement took the subscription from the row: what the second does to the
plan is the other property's.

*Actions.* The measure is `Charged`: executions made and approvals still `Open`, which may execute
without another fault. Each approval opens one, each fault at most one, and an execution closes what
it uses. While approvals do not overlap, `Budget` adds that nothing is charged beyond the faults when
the payload is stored and no handler is at work: a handler ends by deleting the payload, by refusing,
which closes the approval, or by a fault, which pays for the next one (`Steady`, `Free`, `OnFault`).
The messages are those of `JobLifecycle`, so the theorem rests on the queue only through what
`QueueImplementsLifecycle` proves of it, before a command of Redis fails.

### What is only model-checked

Every invariant and every action property of the passing runs is proved. Liveness stays with TLC
(`EventuallySettled`, `NoStarvation`, `LockFreed`, `CircuitsClose`, `EveryRequestEnds`,
`EventuallyEnqueued`, `EventuallyFinished`), as fairness and ENABLED are beyond the prover, and so do
the five disagreements, which are counterexamples.

## 6. Plan

1. Written and checked: all modules of section 2; proved: every invariant and action property of the
   runs `queue`, `fair_safety`, `triage`, `buffer`, `small_parts` and `tenants`.
2. The investigation worker over `JobLifecycle`; the posting of results; graceful shutdown.
3. Composition: `CiAggregation` over `FairQueue`, one check from webhook to analysis.
