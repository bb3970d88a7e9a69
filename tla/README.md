# Verification of Sub2API

Sub2API (`src/backend`, Go) is a gateway that sells access to upstream AI
accounts: users pay for a balance or a subscription, send requests with API
keys, and the gateway picks an upstream account, forwards the request and
charges for it.  It runs as one or several server processes over one PostgreSQL
and one Redis.

This directory holds TLA+ models of the parts whose correctness depends on the
order in which several requests, jobs and processes touch the same row or key:
payment fulfillment, refunds, concurrency slots, idempotent requests, the lock of
system operations, the reservation and billing of gateway requests, batch image
jobs, the prompt audit queue, the authentication cache and the refresh of OAuth
tokens.  TLC checks each on small instances.  Every safety property of a passing run,
and the two refinements, are also proved with TLAPS, for any number of requests,
workers and processes and, with three exceptions that section 6 states, any number of
faults.

    tlc -workers 2 -config PaymentFulfillment_safety.cfg MCPaymentFulfillment
    tlapm PaymentFulfillment_proofs.tla

`PROJECT.json` lists the components, the runs, the mutants that show each
property can fail, the source lines each definition models, the hazards the
properties are aimed at, and the findings.

## 1. Inventory

Paths are below `src/backend/internal` unless they start with `src/`.

| Component | State | Operations | What is hard | What makes it correct |
|---|---|---|---|---|
| Payment orders (`service/payment_order*.go`, `payment_fulfillment.go`, `handler/payment_webhook_handler.go`) | `payment_orders` row, redeem code, audit rows, the provider's record | create, notify, cancel, expire, verify, reconcile, fulfil, retry | duplicate and late webhooks, a lease that is taken over, a crash between the credit and the status, reads that fail and are answered with success | credited exactly once, only for a payment, a recognised payment never lost |
| Refunds (`service/payment_refund.go`, `handler/admin/payment_handler.go`) | the order's row, balance or subscription, audit rows with a unique index, the provider's refunds | request, prepare, execute, roll back, leave pending, query and finalize | two administrators at once, a gateway that answers later, an answer that never arrives, a rollback that fails, a crash between deduction and gateway | money paid back once, deducted once, given back when the gateway refuses |
| Concurrency slots (`service/concurrency_service.go`, `repository/concurrency_cache.go`, `handler/gateway_helper.go`) | Redis: slot set, wait counter, active index | acquire, wait, poll, release, refresh the index, reconcile, clean up at start | answers lost after the script ran, several calls per operation, processes that die and restart next to live ones | the limit holds, nobody is counted for ever |
| Idempotent requests (`service/idempotency*.go`, `repository/idempotency_repo.go`) | `idempotency_records` row per scope and key | create, read, reclaim, extend, mark, delete | leases that lapse, records that expire while they are read, a COMMIT whose answer is lost | one execution at a time, one effect per key within the TTL, answers that took effect |
| System operation lock (`service/system_operation_lock_service.go`) | one row of the same table | acquire, renew, release | takeover of an old row, renewal beside the operation, operations longer than the lease | one update, rollback or restart at a time |
| In-flight reservations, usage billing and the cached balance (`service/billing_inflight_reservation.go`, `billing_cache_service.go`, `usage_billing.go`, `usage_record_worker_pool.go`, `gateway_usage_billing.go`, `repository/usage_billing_repo.go`) | `users.balance`, deduplication rows, Redis reservations and cached balance, task pool, queue of cache writes, reference counts in memory | check, reserve, renew, hand over, charge, deduct, invalidate, release | the balance is read before the reservation; the handler returns before it is billed; queued cache writes; a full pool | covered from admission to the deduction, reservations end, what must be billed is |
| Batch image jobs (`service/batch_image_*.go`, `repository/batch_image_{queue,repo}.go`) | job row, hold on the user's balance, Redis queue with lock and heartbeat, the provider's batch | submit, repeat, cancel, hide, recover, poll, index, settle, release | four stores without a common transaction; workers whose lock lapses; cancellation and recovery during submission | frozen money is that of open holds, charged exactly when completed, every hold ends |
| User message queue (`service/user_msg_queue*`) | Redis lock per account and its index | acquire, release, clean up | locks without a TTL, fail-open paths | one message of a user at a time |
| OAuth refresh (`service/oauth_refresh_api.go`, `token_refresh_service.go`, the token providers, `repository/gemini_token_cache.go`) | credentials and status on the account's row, refresh lock and access token in Redis, a mutex per process | refresh, re-read, store, quarantine, cache, wait; edit, re-authorise and refresh by hand | two processes refresh one rotating token, locks that lapse, answers about credentials that have been replaced | the successor of a spent token is stored, a usable account is not quarantined, no outdated token stays cached |
| Prompt audit queue (`securityaudit/prompt_{enqueue,worker,repository,payload_store,event_repository}.go`) | job rows with a claim version, events, payload in Redis | stage, publish, claim, refresh, complete, retry, fail, reclaim, delete | a worker that outlives its lease, a process that dies while staging, a payload that expires | one verdict per job, every job ends, capacity kept |
| Authentication cache (`service/api_key_auth_cache_impl.go`, `auth_cache_invalidation_outbox.go`, `repository/auth_cache_invalidation_outbox_repo.go`) | snapshot in Redis, one per process, outbox rows | look up, change, delete at once, claim, deliver in two passes, publish | lookups that have read before the change; messages that arrive at most once; claims that lapse | an outdated snapshot is always still to be removed, and is in the end |
| Scheduler snapshot and its outbox | outbox rows, watermark, versioned snapshot in Redis | write, deliver, rebuild | delivery against concurrent changes | every change is visible eventually |
| Leader lock, quota flusher | Redis lock, counters | claim, lease, flush | a leader that stalls | one leader, each counter added once |
| Account selection, protocol conversion, pricing, WebSocket pool, frontend, generated code | see section 9 | | | |

How they interact: fulfillment grants through the redeem service (balance) or
the subscription service, in a transaction that also carries the guard against
repetition; refunds start from the COMPLETED orders fulfillment leaves and take
the same balance or subscription back; every gateway request passes the
concurrency slots of its user and of the selected account, finds its key in the
authentication cache, reserves its estimate and is charged by usage billing, while
its prompt may be queued for an audit; a batch of images freezes part of the same
balance and is charged by its workers; administrative writes pass the idempotency
coordinator, and the system operations in addition the lock, which is kept in the
coordinator's table.  `IdempotencyRecords` is therefore a module of its own that both
`Idempotency` and `SystemOperationLock` extend.

## 2. Modules

| Module | Models | Extends |
|---|---|---|
| `PaymentOrder` | the abstract promise: Receive, Recognise, Grant, Complete | |
| `PaymentFulfillment` | one order and everybody who touches it | refines `PaymentOrder` |
| `PaymentRefund` | the refunds of one completed order | |
| `ConcurrencySlots` | the limit of one user or account | |
| `IdempotencyRecords` | the statements on one row of `idempotency_records` | |
| `Idempotency` | `IdempotencyCoordinator.Execute` | `IdempotencyRecords` |
| `SystemOperationLock` | Acquire, renewLoop, Release | `IdempotencyRecords` |
| `GatewayBilling` | the requests of one user: reservations, charges and the cached balance together | |
| `BalanceHolds` | the hold of a batch on its user's balance | |
| `BatchQueue` | one batch in the Redis queue | |
| `BatchImageJobs` | one batch and everybody who touches it | `BalanceHolds`, `BatchQueue` |
| `AuditJobs` | the abstract promise: Admit, Done, Fail, Delete | |
| `PromptAuditQueue` | the jobs, their enqueues and the workers | refines `AuditJobs` |
| `AuthCache` | what processes remember of one key, and the outbox | |
| `OAuthRefresh` | the credentials of one account and everybody who refreshes them | |
| `MC*` | instances for TLC: model values and symmetry | the module |
| `PaymentFulfillment_proofs`, `PaymentRefund_proofs`, `ConcurrencySlots_proofs`, `BatchImageJobs_proofs`, `PromptAuditQueue_proofs`, `OAuthRefresh_proofs` | the inductive invariant and the theorems (section 6) | the module, TLAPS |
| `IdempotencyRecords_proofs` | the same, of the two users of the table | `Idempotency`, `SystemOperationLock`, TLAPS |
| `GatewayRequest_proofs` | the same, of what a request to the gateway depends on | `GatewayBilling`, `AuthCache`, TLAPS |

Conventions.  A step is one statement on PostgreSQL, one Lua script or pipeline
on Redis, one call of the provider, or one transaction when its first statement
locks the row all the others contend for.  A process variable holds where a
request is (`pc`) and the values it read and still uses.  Faults are named kinds
(`AllFaults`), a `.cfg` chooses kinds and the number allowed (`MaxFaults`), so
that a run says exactly under which faults its properties hold.  "Fails, perhaps
after it was done" models an error whose statement may have been executed.
`SystemOperationLock` and `AuthCache` share a module of proofs with another component,
so their names carry a prefix where both would use the same (`LockSpec`,
`MaxLockFaults`, `AuthSpec`, `AuthTypeOK`).
Definitions whose name ends in a suffix such as `_unconditional` stand before
the definition they vary: they are the mutants.

### 2.1 PaymentFulfillment

State.  `order` is the row (status, `paidAt`, trade number); `code` the redeem
code `createCode` inserts; `audit` the audit rows that later code reads;
`upstream` the provider's view; `webhook` whether the provider still owes an
acknowledged notification; `worker[w]` the goroutines.  `updated_at` is only
compared with a lease's version and with "five minutes ago", so it is kept as
`owners` (the workers whose `lease.version` equals the row's) and `order.stale`;
every UPDATE of the row falsifies both, because ent stamps it.  `granted`,
`rebates` and `notices` count the effects; `claimant` is history.

Actions.  `CreatePayment`, `SavePaymentDetails` and `CreateOrderFailed` are the
end of CreateOrder.  `handleNotify`, `CancelOrder`, `ExpireTimedOutOrder`,
`VerifyOrder`, `ReconcilePendingOrder` and `RetryFulfillment` start a request;
`QueryOrder`, `PersistTradeNo`, `CancelPayment` and `MarkCancelled` are
checkPaid and cancelCore; `toPaid`, `alreadyProcessed` and
`confirmPaymentRejects` are confirmPayment; `acquireLease`, `leaseContended` and
`reloadLease` the lease; `lookupCode`, `createCode`, `redeemCheck` and
`redeemUse` the balance credit; `ensureSubscriptionAssigned` the subscription;
then `applyAffiliateRebate`, `markCompleted`, `recheckCompleted`,
`checkAnnounced` and `announceCompleted`, or `markFailed`.  `RefundMoves` moves
a completed order into and out of the refund statuses, which fulfillment does not
tell apart.

Abstracted: the checks of amount, currency, merchant and provider are one
outcome (`upstream = "mispaid"` is a payment confirmPayment rejects); the order
types are balance, subscription and one that fulfillment does not support.

### 2.2 PaymentRefund

State.  `order` (type, whether it has a trade number, status, refund amount),
`funds` (the balance, or the days left), `active` (the subscription is not
deleted), `audit` and `pending` (the actions logged, and the detail of the
REFUND_PENDING row, under the unique index on order and action), `gateway` (the
provider's refunds), `admin[a]` (a handler and its RefundPlan), `taken`
(history: taken and not given back), `unheard` (history: refunds the provider
accepted while the handler got an error).  Orders left by an earlier release, pending
without a detail, are initial states, as the code handles them.

Actions follow `ProcessRefund` (`PrepareRefund`, `Claim`, `Deduct`, `GwRefund`,
then `MarkRefundOk`, `MarkRefundPending`, or `RollbackRefund`, `RestoreStatus`,
`MarkRollbackFailed`, `MarkRefundFailed`, `LogRefundFailed`) and
`QueryAndFinalizeRefund` (`ReadPendingDetail`, `QueryRefund`,
`FinalizePendingRefundSuccess`, `FinalizeRefundFailed`, `FinalizeUnreturned`).
A call of the gateway may be done, in process or refused, and the handler hears of it,
or (fault `answer`) it is done or in process and the handler hears an error, which the
code takes for a refusal.  `Settle` is the provider, `Spend` the user.  Amounts are numbers of units; the
fee arithmetic that turns an amount into the gateway's amount is left out.

### 2.3 ConcurrencySlots

State.  `slots` are the slots some running request will release, `lost` counts
those nobody will; `wait` is the wait counter, `indexed` the active index's
entry; `req`, `job` and `proc` are requests, the reconciliation and the
processes.  Time is not kept: what waits for a TTL may happen at any moment,
which includes every real timing.  A request that outlives its slot is a fault of
its own, since the TTL is configured to exceed the longest request.

### 2.4 IdempotencyRecords, Idempotency, SystemOperationLock

State.  `row` is the record (id, fingerprint, status, `lockedUntil`,
`expiresAt`, stored response), `clock` the time.  A request keeps the time it
started, the id and the status it read.  `mode` is how the route executes: plain
(execute, then record), atomic (both in one transaction, with `Recover` after an
ambiguous COMMIT) and renewed (a goroutine extends the lease).  A stored response
is known by the request whose execution produced it.  In `SystemOperationLock`
`renewAt` is the ticker of renewLoop, and `overran` records that an operation went on
when its lease had lapsed.  Each of the two has a lease and a TTL of its own, as in
the code; they share the table and never a row, so `MCIdempotency` checks both as one
table whose row belongs to either (`scope`).

Assumptions about time, each a conjunct of `Tick` or `LockTick`: an execution ends
before its record's TTL (minutes against 24 hours; `systemUpdateTimeout`, 15 minutes,
against one hour for the lock); a renewal happens at its tick; a request claims
its row before its lease is over unless it takes a `stall` fault; an Acquire, and a
release (2 s), takes less than a renewal interval (10 s).  Nothing bounds a system
operation by its lease.

### 2.5 GatewayBilling

State.  `balance` and `charged` are the user's row and the deduplication rows,
`cache` the balance in Redis, `writes` the cache writes that wait in the queue of
`BillingCacheService`, `live` the reservations whose TTL runs, `req[r]` the handler
with the balance it saw and its handle (references, renewal, pending release),
`task[r]` the billing task.  Three components are one module because what matters
lies between them: a reservation has to cover the time until the cached balance
has taken the charge.

Actions.  A handler reads the cached balance (or loads it, and queues the write),
reads it again and runs the reserve script, which admits when the reservations
and the own estimate are covered or when nothing else is in flight; `Submit` is
the answer of the upstream and the hand-over to the pool (queued, inline, or
dropped); then the charge, the deduction or invalidation of the cache, `Release`
at the last reference, `Lapse` of what nobody renews.  `slipped` records that a
step let the accounting slip in a way the code accepts (fail-open answers, a read
that another charge has overtaken, a queued write after a deduction, a lost call);
the properties that need it name it, and section 4 lists the ways.  A sum over
requests (`Total`: the reserve script's SUM, the charges not yet deducted) is the
cardinality of the set of their units, so that the proofs need no induction over the
set of requests.

### 2.6 BalanceHolds, BatchQueue, BatchImageJobs

State.  `purse`, `claims` and `moved`: the user's row, the deduplication rows and
which of hold, capture and release moved money.  `ready`, `delayed`, `active`,
`inflight` and `lock`: the batch in Redis.  `job` and `upstream`: the row and the
provider's batch.  `sub`, `can`, `rec`, `wk[w]`: the handlers of Submit and Cancel,
the recovery, and the workers.  `Other` is what the user's other batches have
frozen, so that a release or a capture of the wrong hold shows.

Actions follow Submit (reserve, insert, upload, create at the provider, store its
name, enqueue, with the compensation of each failure), its repetition and
heartbeat, `Cancel`, `DeleteRecord`, `ReleaseStaleUnsubmittedOnce`, and the worker
(`RunOnce`: reserve an entry, lock, read the row, poll, index, settle, capture,
complete, or exhaust the retries and give back).  A hand-over between
stores is a step of its own, so everything may happen in between.

### 2.7 AuditJobs, PromptAuditQueue

State.  `job` are the rows (status, attempts, claim version, and whether the lease
or the staging time is past the reclaimer's cutoff), `events` the verdicts,
`payload` the prompts in Redis, `admission` the transaction that holds the advisory
lock, `enq[j]` and `wk[w]` the callers.  `AuditJobs` knows only which jobs are
pending, done, failed or deleted and how many events each has; the refinement maps
the four active statuses to pending.

Actions.  `TryAdmission`, the insert, the payload and `PublishQueued` are Enqueue,
with its two undo paths; claiming, reading the payload, refreshing the lease,
scanning chunk by chunk, and `CompleteJob`, `RetryJob`, `FailJob` are the worker;
`ReclaimStale` takes stale jobs back or fails them; `RecordBlocking` is the record
of a synchronous audit and `DeleteEvent` the administrator's.

### 2.8 AuthCache

State.  A snapshot is the number of changes it has seen: `db`, `l2`, `l1[p]`.
`outbox[v]` is the row of change `v` with its stage, claim and lease; `reader[p]` a
lookup between its read and its write; `direct[p]` the invalidation after the
change; `work[p]` a worker's batch; `conn` and `inbox` the subscriptions and the
messages on their way, which may be lost.  `waits` of a row are the lookups that
were under way when its second pass was scheduled: that the pass comes 30 s later
means that they are over, unless one is slow (`late`).

### 2.9 OAuthRefresh

State.  Credentials are numbered in the order in which the provider issued them:
`db` is the row of the account (credentials, a revision of what else is in their
document, status), `tokens` their `_token_version`, `usable` the refresh tokens the
provider still accepts, `due` those near their expiry, `lock` what is left of the
lock in Redis, `local` the mutex of each process, `cache` the access token in Redis.
`ref[r]` is a caller, the background cycle of a process or a request, with the
account it came with (`acct`), the document its attempt read (`from`, `rev`) and
what is left of its limit; `admin` an operation of the administrator.  `lost`,
`missed` and `unlocked` are history: credentials whose successor nobody can store
any more, a clean-up of the cache that was cut short, a refresh without the lock.

Actions.  `Lock`, `Read`, `Call`, `Persist`, `Reload`, `Recover` and `Release` are
RefreshIfNeeded; `Take`, `Quarantine` and `Sync` the cycle around it; `Lookup`,
`Wait`, `Check` and `Set` GetAccessToken of a provider.  `grok` chooses between the
two shapes the code has: a Grok account, whose updates compare the whole document
and whose requests have a limit, and one whose updates compare nothing and whose
requests have none (the code of Claude).  `Open` to `Drop` are the administrator:
UpdateAccount, which reads the row and saves all of it, ApplyOAuthCredentials, and
refreshSingleAccount, which calls the provider without any lock.

Assumptions: the provider issues a new refresh token with each refresh and refuses
the old one; its client honours the context, so that the end of a limit ends what is
under way before time goes on (the margin of the lock covers the clean-up, 5 s
against timeouts of 2 s); the administrator's statements do not fail; an access token
that is near its expiry and one that is past it are not told apart.

## 3. Runs and bounds

Passing runs:

| Run | Checks | Bounds, and why they are enough |
|---|---|---|
| `fulfillment_safety` | `GrantedAtMostOnce`, `NoGrantWithoutPayment`, `CompletedIsGranted`, `StatusNeverRegresses`, `ImplementsPaymentOrder`, `TypeOK` | two workers, who serve any number of requests one after the other, so a stalled owner and its successor meet; two faults of all five kinds: a crash and a stall, or an error and its retry. The theorems lift both bounds. 1.4 million states |
| `fulfillment_liveness` | `PaidIsCompleted` | one fault, balance orders: with the lease, the longest path. Fairness below |
| `refund_safety` | `BooksBalance`, `PaidBackOnce`, `TypeOK` | two administrators (a third only repeats the conditional claim), `Credit` 2 so that partial refunds exist, one unit beyond the credit or a debt, two gateway calls, one fault of all five kinds. 4.0 million states |
| `slots_safety` | `CapRespected`, `WaitersAreCounted`, `QuiescentIsClean`, `TypeOK` | four requests against two slots and a queue of two, so that acquiring, waiting and refusal happen at once; three faults of all seven kinds. 0.9 million states |
| `idempotency_safety` | `AppliedOnce`, `ExecutesAlone`, `AnswersAreApplied`, `OverlapNeedsOverrun` | the row of a key: four requests, one with another payload; lease 2 < TTL 3, time up to 4: a lock lapses, also that of a request that took a failed record over, the record expires, two requests race for it, and a third meets what they leave; one fault of all three kinds. The row of the lock: three operations; lease 6 = three renewal intervals of 2 as in the code, TTL 8, time up to 10: release, takeover, an operation that outlives its lease and a takeover beside it, a renewal that fails and the next ones, a row that expires after a crash and a new one; one fault of both kinds. 1.6 million states |
| `gateway_billing` | `OverdrawnByOneAtMost`, `CachedIsCovered`, `ReservedIffInUse`, `EveryReservationEnds`, `MandatoryIsCharged` | two requests with estimates 1 and 2, of which one must be billed, a balance of 1 (covers one of them) or 3 (covers both), a pool with room for one task so that it is full when the other comes, one fault of all five kinds. 0.13 million states |
| `batch_jobs` | `FrozenIsOpenHolds`, `ChargedIffCompleted`, `RunningIsNotRefunded`, `EveryHoldEnds`, `TypeOK` | two workers, so that one may lose its lock to the other; a hold of 2 beside another of 2, a balance that is or is not used up by it, a cost within or beyond the hold; two copies in the ready list; one fault of all eight kinds, starting from nothing or from what a dead Submit left, so that the recovery meets a second fault. 0.41 million states |
| `prompt_audit` | `PayloadOutlivesJob`, `OnlyTheHolderEnds`, `ImplementsAuditJobs`, `EveryJobEnds`, `TypeOK` | two prompts for a queue with room for one, two workers, two attempts and two chunks, so that a lease ages between chunks and the last attempt is reached; one fault of all six kinds. 0.17 million states |
| `auth_cache` | `StaleIsPending`, `ChangesReachAll` | two processes, one of which changes the key once, any number of lookups and deliveries, one fault of all six kinds. 0.40 million states |
| `oauth_refresh` | `RefreshesAreExclusive`, `SuccessorIsStored`, `QuarantineIsDeserved`, `RefreshCleansTheCache`, `TypeOK` | the cycle in one process and a request in the other, each repeated at will; a lock of 2 units with a margin of 1 and a configured attempt of 2, so that the clamp matters; three credentials, one operation of the administrator, one fault of all five kinds. 3.95 million states |

`OAuthRefresh` was also checked with the other pairs of callers: both in one process
(2.3 million states), two requests in two processes (7.5 million), the cycles of two
processes (0.9 million). `ConcurrencySlots` was also checked with two processes,
three requests and two faults under the condition `QuietStarts` of section 6 (0.64
million states). The type invariants of `Idempotency`, `SystemOperationLock`,
`GatewayBilling` and `AuthCache` (`TypeOK`, `LockTypeOK`, `AuthTypeOK`) hold under
the same configurations, and so does every inductive invariant of section 6.

What the properties say:

- `GrantedAtMostOnce`: one credit, rebate and e-mail per order.
  `NoGrantWithoutPayment`: a grant implies the provider holds the order's own
  amount and `paid_at` is set.  `CompletedIsGranted`: COMPLETED or refunding
  implies credited, with the rebate settled.  `StatusNeverRegresses` (action
  property): a recognised payment is never cancelled or expired away and a
  completed order never fulfilled again.  `ImplementsPaymentOrder`: refinement of
  `PaymentOrder`.  `PaidIsCompleted`: a recognised payment whose notification is
  still redelivered ends completed.
- `BooksBalance`: what refunds took and did not give back is never negative and
  never exceeds the order's credit; an order that may be refunded again holds
  nothing; a pending one holds what its audit row says.  Excepted are orders marked
  REFUND_ROLLBACK_FAILED and refunds whose log row, or whose subscription after a
  COMMIT, could not be written or read (`faults.lost`, section 4).
  `PaidBackOnce`: at most one refund is done or in process at the provider, and a
  refunded status implies it paid.  Excepted are refunds the provider accepted while
  the handler got an error (`unheard`): they may pay once more (section 4).
- `CapRespected`: the requests that believe to hold a slot pass the limit by no
  more than the requests that outlived their slot.  `WaitersAreCounted`: the wait
  counter covers everybody who waits, up to the increments that failed and let
  the request wait.  `QuiescentIsClean`: without faults, idle means no slot and
  nobody counted.
- `AppliedOnce`: one effect per key before a record can expire.  `ExecutesAlone`:
  one request executes at a time, unless a request needed longer than the lease to
  claim its record.  `AnswersAreApplied`: a result that is returned, or replayed,
  took effect for the same payload.
- `OverlapNeedsOverrun`: two system operations run at a time only after one of them,
  or one before them, went on past its lease, and the operation that made the row is
  never one of the two.  That no two run at a time does not hold (below).
- `OverdrawnByOneAtMost`: concurrent requests overdraw a balance by less than the
  costliest one, which was let in alone.  `CachedIsCovered`: the cached balance is
  ahead of the database by the charges still to be deducted, not by more.
  `ReservedIffInUse`: a request is reserved as long as its handler or its billing
  task is under way and, without faults, no longer.  `EveryReservationEnds`, even
  after a crash.  `MandatoryIsCharged`: a task that must be billed is, whatever the
  pool does.
- `FrozenIsOpenHolds`: the user's frozen balance is what open holds account for.
  `ChargedIffCompleted`: completed jobs are captured, failed and cancelled ones
  not, although status and money are written by different transactions.  Both hold
  while `Calm`: no COMMIT was lost, no heartbeat lapsed, and no more calls failed
  than a settlement is retried (section 4).
  `RunningIsNotRefunded`: no hold is given back for a batch the provider works on,
  except by Cancel (section 4).  `EveryHoldEnds`: every hold is captured or given
  back in the end, under failing statements, providers and workers.
- `PayloadOutlivesJob`: a job that may still be scanned has its prompt.
  `OnlyTheHolderEnds` (action property): a job with a fresh lease is ended by its
  holder only.  `ImplementsAuditJobs`: refinement, which includes the capacity and
  one verdict per job.  `EveryJobEnds`: an admitted job is done or failed in the
  end.
- `StaleIsPending`: a snapshot that misses a change, in Redis or in a process, is
  still to be removed by the outbox row or by a message.  `ChangesReachAll`: after
  the last change every outdated copy goes and none comes back.
- `RefreshesAreExclusive`: of the callers that have the lock of a Grok account one at
  a time is inside RefreshIfNeeded: none outlives its lease, none deletes another's
  lock.  `SuccessorIsStored`: when the provider no longer accepts the stored refresh
  token, a caller is about to store its successor, or it was lost in a way the code
  leaves open (a crash, a departed client, a failed statement, an ambiguous answer,
  and the two ways (a) and (b) of section 4).  `QuarantineIsDeserved`: a Grok account
  is in error only if its refresh token is dead, whatever the administrator stored
  while a refresh of the old credentials failed, unless a refresh ran without the
  lock.  `RefreshCleansTheCache`: an access token that was current when it was cached
  does not stay there after a refresh or a re-authorisation.

Runs that end in a counterexample and show a disagreement between the code and
a comment or a message (quoted in `PROJECT.json`, `findings`):

| Run | Property | What happens |
|---|---|---|
| `refund_stranded` | `HeldDeductionIsFinalizable` | a second pending refund of an order violates the unique index on the audit rows; the order stays REFUNDING, which no operation accepts |
| `system_lock_overlap` | `OperationsAreExclusive` | without a fault, the second operation on a row loses its renewal at the first tick, and when it outlives its lease the third starts beside it (section 4). Three operations, a lease of two renewal intervals, TTL 6, time up to 6: the shortest such history |

Deadlock checking is off where the system may stop: an order, a refund, a batch, a
job or a request that is finished, a bounded clock that has run out, or a fault
budget and a bound on attempts that are used up.  `ConcurrencySlots` never stops
and is checked for deadlock.

## 4. Further observations

What follows was met while modelling and holds of the code; no run is kept for it
unless one is named.
Where a definition or a `.cfg` shows it, it is named.

Payments:

- `DelayedPaymentIsReconciled` of `PaymentFulfillment` fails under
  `FairSpecWithJob`: the payer pays between the expiry job's query and its UPDATE
  and the callback comes after five minutes; no job looks at EXPIRED orders.
- `LeaseIsExclusive` of `PaymentFulfillment` fails under the constants of
  `PaymentFulfillment_safety.cfg`.  `acquirePaymentFulfillmentLease` reads the
  lease's version (`payment_fulfillment.go:356`) after the UPDATE that won it; a
  worker that stalls in between adopts the version of its successor, although line
  915 says that the version prevents a stale worker from overwriting a newer
  owner.  No double credit follows: `GrantedAtMostOnce` rests on the redeem code
  and the audit row, not on the lease.
- `RefusedPendingConverges` of `PaymentRefund` fails under `FairSpec` with one
  administrator, balance orders, `Credit` 1, `MaxExtra` 0, `MaxAttempts` 2 and one
  `error` fault: after one failed refund, a later pending refund the gateway
  refuses is never finalized, because REFUND_FAILED is already logged
  (`payment_refund.go:649`).
- `BooksBalance` needs its exception `faults.lost`: a subscription is shortened,
  reading it back fails (`subscription_service.go:787`), and the retry shortens it
  again; or an audit row is lost unnoticed, and with it what was deducted.
- A refund may be paid twice.  gwRefund takes every error of `prov.Refund` that comes
  without a pending response for a refusal (`payment_refund.go:386-390`), also a lost
  answer or a timeout after the provider accepted; handleGwFail gives the deduction
  back and the order may be refunded again, although the comment at line 213 forbids
  exactly this of a refund that is pending: a new request would pay twice at the
  gateway.  `alipay.go:351` sends a new `out_request_no` with each call; the other
  providers may recognise a repeated request by order and amount, which the model
  leaves out: it counts every call as a new refund.  What bounds the loss is only what
  the provider itself allows to be refunded of a payment.  `PaidBackOnce` excepts these
  refunds, and fails without the exception (`Refs` for `Refs \ unheard`) under one
  fault `answer`.
- `restoreStatus` (`payment_refund.go:885`) writes the status PrepareRefund saw: a
  refund request the user made in between is forgotten, and REFUND_FAILED becomes
  COMPLETED.

Slots, idempotency:

- `CapRespected` fails with `Instances = {i1, i2}` and `Home <- TwoServers` (two
  requests, one slot, one `crash`): `cleanupStaleProcessSlotsForIndex`
  (`concurrency_cache.go:1238`) removes every slot whose id lacks the starting
  process's prefix, those of live peers included, and deletes the wait counter,
  although `src/docs/ARCHITECTURE_AND_OPS_HANDBOOK.md:197` has peers run side by
  side.
  This is why the theorems about the limit assume `QuietStarts` or `OneProcess`.
- `StartupReclaims` of `ConcurrencySlots` fails with two requests, one process,
  one slot and one `crash`: a process that dies between the acquisition and the
  index update (`concurrency_cache.go:717`) leaves a slot the start-up clean-up
  does not find.  It expires with its TTL.
- `NoRepeatWithinTTL` of `Idempotency` fails with expiring records: two requests
  read the same expired record, the first takes it over and succeeds, and
  `TryReclaim` (`idempotency_repo.go:149`) lets the second take over the fresh
  success.
- Run `system_lock_overlap`: Acquire takes an old row over with `TryReclaim`
  (`system_operation_lock_service.go:105`), which does not write
  `request_fingerprint` (`idempotency_repo.go:140-145`), while renewLoop extends the
  row `WHERE request_fingerprint` is its own operation's id (line 181).  Every holder
  but the one that inserted the row loses its renewal at the first tick; an update may
  take 15 minutes against a lease of 30 s, and the next operation then starts beside it,
  although the lock promises "another system operation is in progress" (line 20 of the
  service).  `TestSystemOperationLockService_RenewLease` starts from an empty table.
  The release of the one that overran, which asks for the id only
  (`idempotency_repo.go:213`), then ends the lock of its successor as well.
- The lease of 30 s is three renewal intervals.  renewLoop goes on after an error
  (line 183), but when two renewals in a row fail, the third tick may find the lease
  over and another operation started; the operation is not told.
  `OverlapNeedsOverrun` fails under its constants with `MaxLockFaults = 2`, even for
  the operation that made the row; `LeaseOutlastsErrors` (section 6) says how many
  errors a lease outlasts.

Gateway billing (the ways in which `slipped` becomes true without a fault):

- The balance is read before the reserve script runs
  (`billing_inflight_reservation.go:319`), and the eligibility check earlier still:
  a request that saw a balance another one has used up since may be admitted alone.
- A balance loaded after a miss is written by a queue; the write may overwrite a
  later deduction, contrary to the comment at `gateway_usage_billing.go:484-487`,
  and since each deduction renews the TTL, the cache of a busy user stays too high
  until the database's balance is used up, which invalidates it.
- A load between the COMMIT of the charge and the deduction subtracts twice; that
  only refuses early.
- The bound of `OverdrawnByOneAtMost` takes the cost to be within the estimate; the
  cap `MaxReservationUSD` undermines that for expensive requests.  A charge whose
  transaction fails is logged and lost.  A rejected request with cached content
  (Gemini) is billed a fixed amount after its reservation was released.

Batch image jobs:

- Cancel (`batch_image_public.go:754`) decides on a row it read before Submit stored
  the provider's name: the row goes from submitted to cancelled, which
  `CanTransitionBatchImageJob` allows, and the hold is given back while the
  provider's batch runs on and is never charged.  `RunningIsNotRefunded` excepts
  this case, and fails without the exception under no fault at all.
- A Cancel between the insertion of the row and the reservation claims the release
  before there is a hold: the hold reserved then is never given back (`early`).
- A COMMIT of the reservation whose answer is lost fails and hides the job and
  leaves its hold open.  So does a process that dies between the transition and the
  release, in Cancel or in the recovery; one that dies between storing the name and
  enqueueing leaves a batch that only a repeated Submit brings back.
- After a COMMIT of the last capture whose answer is lost, the exhausted settlement
  gives the hold back too: capture and release are both paid, from other holds.
- Without any lost COMMIT, enough failing calls do the same: the capture succeeds,
  marking the job settled fails, and each further settlement fails again at a statement
  of its own.  At `batchImageSettlementMaxRetries` (5) failExhaustedSettlement
  (`batch_image_settlement.go:216`) releases the hold, and the release only checks that
  the hold was claimed, not whether it was captured (`usage_billing_repo.go:336`).  A
  failed enqueue in between overwrites the settlement's error code as well.  `Calm`
  therefore allows no more failing calls than retries.
- A worker whose lock has lapsed and whose second read finds `settling`
  acknowledges, and takes a job out of the queue that another is settling.

Prompt audit, authentication cache:

- Every error of Redis on reading a prompt counts as a missing payload, which fails
  the job for good.  A publication whose answer is lost deletes the prompt of a
  queued job, whose audit then fails.  The two seconds of Enqueue also end its own
  clean-up, so the staged job counts until it is reclaimed.
- A lookup that copied an old snapshot from Redis and writes it to its process
  after the second message stays outdated for the TTL of that copy (15 s).  A new
  subscription does not empty the copies of a process, so what was missed while it
  was cut off stays for that time as well.
- A batch of 100 rows, 16 at a time, each of which may take six seconds, can be
  slower than its lease of 30 s; that is harmless because delivery may be repeated.

OAuth refresh:

- (a) UpdateAccount reads the row, merges what was sent and saves all of it
  (`admin_account.go:586`, `account_repo.go:527`): an edit that began before a refresh
  was stored writes the spent refresh token back.
- (b) `UpdateGrokOAuthCredentialsIfUnchanged` compares the whole document
  (`account_repo.go:1653`): an edit of a model mapping while a refresh is under way
  makes it miss, and the rotated token is dropped although the old one is spent.
- refreshSingleAccount calls the provider without the lock
  (`account_handler.go:1505`), and neither it nor a re-authorisation writes
  `_token_version`, so CheckTokenVersion takes the old credentials for current; only
  the deletion of the cached token at the end helps.
- CheckTokenVersion and SetAccessToken are two steps (`claude_token_provider.go:128`,
  155): a request whose account was current at the first may cache a token that is
  outdated at the second, until its TTL.  `RefreshCleansTheCache` is therefore about
  tokens that were current when they were written.
- A client that disconnects during a refresh of its request cancels it
  (`oauth_refresh_api.go:259`): the token the provider rotated meanwhile is lost.
- Requests of other platforms have no limit of their own and may outlive the lock of
  60 s, whose release deletes it whoever has it; there, the credentials and the error
  status are written without a comparison.  `RefreshesAreExclusive` and
  `QuarantineIsDeserved` are therefore about Grok accounts.
- Without an answer of Redis, or beside a manual refresh, two refreshes run at once,
  and a usable account may end in error: the one whose token was refused looks before
  the other has stored its successor (`unlocked`).
- A Grok account is also put into error when it lost its entitlement, when access is
  denied or when its proxy is invalid (`grok_credential_failure.go`).  The model does
  not tell these answers apart from a refused refresh token, or leaves them out;
  `QuarantineIsDeserved` is about the refused token.
- InvalidateToken returns no error of Redis (`token_cache_invalidator.go:72`).

## 5. Fairness

`PaymentFulfillment!Fairness`: weak fairness of each worker's steps (a goroutine
that is running goes on; a crash ends it by a fault, and the process that
restarts serves again), strong fairness of `Redeliver` (providers repeat a
notification until it is answered with success, and one of the repetitions finds
a free worker), weak fairness of `Tick` (time passes, so a lease becomes stale).
`FairSpecWithJob` adds strong fairness of the ticker of
PaymentOrderExpiryService.  Nothing is assumed of payers, users and
administrators.  `PaidIsCompleted` is claimed only while the provider still owes
a notification: once a failed read was answered with success (`read` faults)
nobody is obliged to come back, as no job retries PAID, RECHARGING or FAILED
orders.

`PaymentRefund!Fairness`: the provider settles what it accepted, handlers finish,
and an administrator keeps querying a pending refund; it is only used to show
that even such an administrator cannot end the refund of section 4.

`GatewayBilling!Fairness`: handlers and billing tasks go on, the release of a
handle whose count is 0 is sent, a reservation nobody renews expires, the queue of
cache writes is served.  `BatchImageJobs!Fairness`: handlers that started go on,
the four loops of the worker runtime run, a row nobody touches and a lock nobody
renews age, and the provider ends every batch it accepted; nobody has to submit,
repeat or cancel.  `PromptAuditQueue!Fairness`: Enqueue and the workers go on, the
reclaimer's ticker ticks, time passes; prompts need not expire.
`AuthCache!AuthFairness`: lookups and workers go on, claims of workers that died lapse,
entries of a process expire; no message need ever arrive, and neither the entry in
Redis need expire.  Weak fairness suffices everywhere: each of these steps stays
possible until it is taken.

## 6. Proofs

The theorems hold for every value of the constants that the module's assumption
allows (the ranges of the constants; sets of requests, jobs and callers are finite
where they are counted): any number of requests, workers and processes, any limits,
any fault kinds and any `MaxFaults`.  Hypotheses beyond that are in the statement.
In the two modules about two components (`Spec` is that of `Idempotency` and of
`GatewayBilling`), each part uses the definitions and the assumption of its own
component only.

| Module | Theorem | Statement |
|---|---|---|
| `PaymentFulfillment_proofs` | `TypeCorrect` | `Spec => []TypeOK` |
| | `GrantedOnce` | `Spec => []GrantedAtMostOnce` |
| | `GrantNeedsPayment` | `Spec => []NoGrantWithoutPayment` |
| | `CompletedMeansGranted` | `Spec => []CompletedIsGranted` |
| | `NoRegression` | `Spec => StatusNeverRegresses` |
| | `Refinement` | `Spec => ImplementsPaymentOrder` |
| `PaymentRefund_proofs` | `TypeCorrect` | `Spec => []TypeOK` |
| | `HeardRefundPaysOnce` | `Spec => []PaidBackOnce` |
| | `Balanced` | `Spec => []BooksBalance` |
| `ConcurrencySlots_proofs` | `TypeCorrect` | `Spec => []TypeOK` |
| | `Clean` | `Spec => []QuiescentIsClean` |
| | `Capped` | `Spec => ([]QuietStarts => []CapRespected)` |
| | `QueueCounted` | `Spec => ([]QuietStarts => []WaitersAreCounted)` |
| | `CappedAlone` | `OneProcess => (Spec => []CapRespected)` |
| | `QueueCountedAlone` | `OneProcess => (Spec => []WaitersAreCounted)` |
| `IdempotencyRecords_proofs` | `Once` | `Spec => []AppliedOnce` |
| | `Alone` | `Spec => []ExecutesAlone` |
| | `Answered` | `Spec => []AnswersAreApplied` |
| | `OverlapIsLate` | `LeaseOutlastsErrors => (LockSpec => []OverlapNeedsOverrun)` |
| `GatewayRequest_proofs` | `TypeCorrect` | `Spec => []TypeOK` |
| | `OverdraftBounded` | `Spec => []OverdrawnByOneAtMost` |
| | `CacheCovered` | `Spec => []CachedIsCovered` |
| | `ReservationKept` | `Spec => []ReservedIffInUse` |
| | `AuthCacheTypeCorrect` | `AuthSpec => []AuthTypeOK` |
| | `StaleCopiesAreSwept` | `AuthSpec => []StaleIsPending` |
| `BatchImageJobs_proofs` | `TypeCorrect` | `Spec => []TypeOK` |
| | `Frozen` | `Spec => []FrozenIsOpenHolds` |
| | `Charged` | `Spec => []ChargedIffCompleted` |
| | `Refunded` | `Spec => []RunningIsNotRefunded` |
| `PromptAuditQueue_proofs` | `TypeCorrect` | `Spec => []TypeOK` |
| | `PayloadKept` | `Spec => []PayloadOutlivesJob` |
| | `HolderEnds` | `Spec => OnlyTheHolderEnds` |
| | `Refinement` | `Spec => ImplementsAuditJobs` |
| `OAuthRefresh_proofs` | `TypeCorrect` | `Spec => []TypeOK` |
| | `Exclusive` | `Spec => []RefreshesAreExclusive` |
| | `Stored` | `Spec => []SuccessorIsStored` |
| | `Deserved` | `Spec => []QuarantineIsDeserved` |
| | `Clean` | `Spec => []RefreshCleansTheCache` |

Three statements are narrower than "any number of processes and faults", because the
code is:

- `QuietStarts`: a process that starts removes the slots and the wait counts of live
  peers (section 4), so the limit of several processes holds as long as none cleans up
  while a request of another is under way.  `OneProcess` (one server process) implies
  it: nobody serves before its own clean-up is through.
- `LeaseOutlastsErrors`: the lease outlasts an Acquire, one renewal and as many failing
  ones as there may be errors, `(MaxErrors + 2) * RenewInterval <= LockLease`.  The
  code's 30 s and 10 s, and the run's 6 and 2, allow for one error; crashes are not
  limited, and neither is the length of an operation by its lease.
- `Calm`, inside `FrozenIsOpenHolds` and `ChargedIffCompleted`: it is a condition on
  the history of a behaviour and leaves the number of workers, and failing calls up to
  `MaxRetries`, free.  `RunningIsNotRefunded` needs no such condition.

No property is inductive.  Each module states its invariant at the top of its proofs,
as a conjunction of named parts; there is one lemma per action or group of actions,
with one step per action and conjunct.  Why each is needed:

- `PaymentFulfillment`: `TypeOK /\ PaymentInv /\ GrantInv /\ NoticeInv`.
  `PaymentInv` ties `paid_at`, the statuses and the positions of workers to the
  provider's record.  A FAILED order without `paid_at` is one whose creation failed,
  and nobody can have paid it: this keeps the retry, which accepts FAILED orders, from
  crediting an unpaid one.  `GrantInv` says that the guard against a second credit is
  written together with the credit, that a worker past the credit, or past the rebate,
  stands on a recorded one, and that completed orders have both; it does not mention the
  lease, whose exclusive ownership does not hold (section 4) and is not needed.
  `NoticeInv` says at most one worker gets past `markCompleted`.  `ShapeStep` states
  what a step may do to the row; `NoRegression` and `Refinement` follow from it.
- `PaymentRefund`: `OwnerInv` (one claim, and the order is REFUNDING while it lasts),
  `GateInv` and `AttemptInv` (at most one refund is live at the provider, none while
  the order may be refunded again, not counting `unheard` ones), and `FinalizerOf`: a finalizer that has read the
  pending row either still agrees with it, or the order is refunded, or its refund was
  refused and logged as failed, so that the unique index stops it.  The last case is
  what the interleaving of two finalizers with a new refund comes down to.  `BookInv`
  and `BookOf` follow the money through the plan of the owner and the pending row.
- `ConcurrencySlots`: `SlotInv` (slots belong to requests that hold them, and with
  those nobody will release they fit the limit), `QuietInv` (without a fault Redis
  agrees with the requests), `ReqInv` (what a request has at each step) and `OpenInv`:
  requests without a slot, and uncounted waiters, are at most as many as outlived their
  slot and as increments that failed.  A crash moves slots to `lost` and leaves the
  count unchanged (`FS_Difference`); a process that is not up has no requests, so under
  `QuietStarts` its clean-up takes nothing from anybody.
- `Idempotency`: `RecordInv` (ids are not reused, a stored result took effect for the
  record's payload), `OwnerInv` and `OnceInv`.  The delicate conjunct of `OwnerInv` is
  about a request that has found the record expired before another took it over: the
  time it started is before the new lease's end, so that `TryReclaim` refuses it.  That
  only holds unless someone stalled (`ExecutesAlone`) or while no record has expired
  (`AppliedOnce`).
- `SystemOperationLock`: `HolderInv` (who runs, or is about to release, has the id of
  the row, which has not expired, so no new row is made beside it), `InserterInv` (while
  the operation that made the row runs it has it alone, and the lease outlasts the next
  renewal and the renewals that the errors left can make fail) and `LeaseInv` (until one
  overruns, whoever holds the row holds it alone).
- `GatewayBilling`: `Typed /\ Kept /\ Cached /\ Covered`.  `Typed` includes that the
  references of a handle are one of the handler and one of its task, and that a charge
  is made once and is within the estimate.  `Kept` adds to `ReservedIffInUse` that
  whoever may still be charged (`Out`) has its reservation: this is what the sum of the
  reserve script must not miss.  `Cached` adds to `CachedIsCovered` the queue of cache
  writes: a load that waits there and has not been overtaken is covered too.
  `Covered` replaces `OverdrawnByOneAtMost`, which is not inductive, since a request is
  charged long after it was let in: what is left when all that were let in cost their
  estimates is not negative, or short by less than one estimate.  An admission either
  finds its estimate and all reservations covered by a balance the database covers
  (with the charges still to be deducted), or finds nothing reserved, and then nobody
  else is `Out`.
- `AuthCache`: `AuthTyped /\ Swept`.  `AuthTyped` includes that a snapshot is never of
  the future, and that a worker whose claim has not lapsed knows the stage of its row,
  which is due.  `Swept` is about behaviours without a slow lookup (`~late`).
  `LoadsWait`: a load that has read before a change, and may still write to Redis, is
  waited for by the second pass of that change.  `PassOK` follows the second pass:
  once it has deleted, Redis has no snapshot that misses the change, as no such load is
  left; once it has published, every subscriber has the message or no longer misses the
  change.  That is why the row may be deleted, although any other worker, or the same
  after its claim lapsed, may repeat the pass.  `CopiesPending` extends
  `StaleIsPending` to what a lookup has found and not written yet.
- `BatchImageJobs`: `JobInv`, `SubInv` and `WkInv` hold under all faults and say what
  the row, the provider and the steps of Submit and of the workers have to do with each
  other: a job is named only after its hold was reserved, and the hold of an
  unsubmitted job is not given back while Submit may still store the name.  That proves `Refunded`.  `MoneyInv` and
  `WkCalm` hold while `Calm`: the worker has the lock, and
  `Load + faults <= MaxFaults`: each retry, and each capture that is not recorded in
  the status yet, took a failed call.  With no more failures than retries a settlement
  cannot be exhausted after its capture.
- `PromptAuditQueue`: `JobInv` (the version counts claims, a job that can be claimed
  has an attempt left, an event belongs to a done job), `EnqInv` and `AdmissionInv`
  (the transaction with the advisory lock has counted a queue with room), and
  `PayloadInv`.  `Refinement` maps each action to an action of `AuditJobs` or to a
  stutter.
- `OAuthRefresh`: `LeaseInv` (a caller's limit ends with a margin before its lock),
  `SecretInv` (new credentials are known to nobody but the caller that received them
  until it stores them), `ErrorInv` (a refused token stays dead: nobody is about to
  store a successor of it) and `CacheInv` (whoever stored the credentials of the row
  cleans the cache, up to a clean-up that was cut short).

## 7. What is only model-checked

- Liveness (`PaidIsCompleted`, `RefusedPendingConverges`,
  `DelayedPaymentIsReconciled`, `EveryReservationEnds`, `MandatoryIsCharged`,
  `EveryHoldEnds`, `EveryJobEnds`, `ChangesReachAll`): temporal reasoning under
  fairness and ENABLED is outside the prover's reach.
- `TypeOK` of `Idempotency` and `LockTypeOK`: they bound ids and times by what their
  runs can reach.  The invariants of their proofs state the types without the bounds.
- What the hypotheses and exceptions of section 6 exclude fails: a clean-up beside a
  peer's requests, leases that are too short, refunds with a lost answer, batches beyond `Calm` (the counterexamples of section 4).

No model uses a RECURSIVE operator.

## 8. Plan

Models still to write:

1. `UserMsgQueue`: a lock with a TTL that may lapse under its holder, and a clean-up
   of locks without one; who fails open.
2. `SchedulerOutbox`: every committed change becomes visible; the watermark never
   passes an undelivered row.
3. Leader lock with the jobs that run under it; the quota flusher; live-session
   leases, which count against the limit of `ConcurrencySlots`.
4. Compositions: `PaymentFulfillment` with `PaymentRefund` (`RefundMoves` is
   implemented by `PaymentRefund`), and an abstract idempotent cell that
   `Idempotency` implements.

## 9. Not modelled

- Pricing, fees, bonus and currency arithmetic (floating point and decimals), the
  selection of payment providers, limits on pending and daily orders, and the
  WeChat OAuth detour of CreateOrder: they decide whether and for how much an
  order is created, before its row exists.
- Public redemption of codes, listing and administration; promotions, affiliates
  and user accounts beyond the balance and the rebate.
- The account wait plan of the gateway (the same scripts as the user's), API-key
  slots (statistics), live sessions and the WebSocket ingress lease; the one-off
  sweep of wait keys of releases before the index.
- Requests without an idempotency key and the coordinator's metrics.
- Reservations per subscription and API key, subscription usage, rate-limit windows
  and platform quotas (the same scripts and queues with other keys and sums); the
  estimate itself (pricing).
- The content of a batch beyond whether its items and its output could be stored;
  the clean-up of its files; download and listing.  The content of prompts and
  verdicts, and the classifier.
- The snapshots of unknown keys in the authentication cache, which stay in one
  process, and the counters of abuse.
- Of the refresh of tokens: the variants of Gemini, Antigravity and OpenAI, retries
  and cooldowns after a transient failure, proxies, the rate and concurrency gates
  and the breaker of a provider, the manual test of a Grok account, and the switch
  that makes an account schedulable.
- The user message queue, the scheduler's snapshot, the leader lock
  and the quota flusher: within reach, see section 8.
- Account selection and failover (heuristic scoring over floating-point load),
  protocol conversion (stateless, tested by golden files), model prices (tables),
  the WebSocket pool, the administration of the prompt audit, backups, plugins, clean-up tasks
  (external programs), the code ent generates (modelled by the statements the
  services issue), the web frontend and deployment files.
