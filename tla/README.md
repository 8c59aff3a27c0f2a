# TLA+ models of the Hosted Agents SaaS Platform

This directory holds specifications of the platform's concurrent core, the TLC
configurations that check them on small instances, and proofs that TLAPS checks
for every instance. Source paths are relative to `src/src/saas_platform/`.

## The system

An API process (FastAPI, synchronous handlers in a thread pool) serves
administrators and tenants; worker processes provision tenants; all of them share
a Postgres database, and optionally Redis, Azure queues and a Foundry project.

| Component | State | Operations | What makes it correct |
|---|---|---|---|
| Tenant creation (`api/main.py`) | tenant row, job row | `POST /v1/tenants`: save the pending tenant, then queue its job | a tenant that was accepted is eventually provisioned or visibly given up |
| Provisioning queue (`adapters/postgres.py`) | `provisioning_jobs` | `enqueue`, `claim_next`, `mark_done`, `mark_retry`, `mark_dead_letter` | one worker per job, counted attempts, final states |
| Provisioning worker (`provisioning/worker.py`, `runner.py`) | the claimed job and tenant, between transactions | `process_next_job` | done means active; failures are retried with backoff, then dead-lettered |
| Plan change (`api/main.py`) | the tenant read, between transactions | `PATCH .../plan` | does not undo provisioning |
| Run execution (`api/main.py`, `policies/quota.py`) | what a request has read | tenant, plan, entitlement, rate and quota gates, gateway, usage record | monthly limits; only entitled runs |
| Entitlements and agents (`api/main.py`, `adapters/postgres.py`) | `tenant_agents`, `customer_agent_entitlements` | register, grant, revoke, check; `ops/entitlement_rollout.py` apply | at most `max_agents` active; a revoked grant counts |
| Rate limiters (`policies/rate_limit.py`) | counters per key and minute, in memory or in Redis | `allow` | at most `requests_per_minute` admitted, none refused without cause |
| JWKS cache (`policies/auth.py`) | key set and expiry | `_get_jwks_payload`, `_resolve_jwks_signing_key` | keys withdrawn by the provider stop counting, and new ones are known, after the time to live |
| Queue backends (`adapters/queue.py`, `adapters/storage.py`, `_resolve_queue_backend`) | jobs in memory or in the database, signals in Azure queues, `_inflight` | the queue's operations plus a signal | lost, late and doubled signals never harm a job: none is lost, all come to rest |
| Foundry gateway (`adapters/foundry.py`) | one thread per run at the provider | `execute` | the thread is deleted, and failing to delete it costs neither the answer nor the charge |
| Tenant authentication (`policies/auth.py`) | none but the JWKS cache | API keys and tokens against path and headers | nobody acts for another tenant or, with a token, for another user |
| Admin authorization (`policies/auth.py`, `api/main.py`) | none | roles, scopes and tenants of a token against the endpoint's policy | the rules of `docs/ENTRA_ADMIN_RBAC_CONTRACT.md`, but for two kinds of token |

Components interact through the database and, for signals, through the Azure
queues: a handler is a series of short transactions and calls, and whatever it
read in one is possibly stale in the next. That, the exceptions and process deaths
between two calls, the clock (minutes, months, backoff, time to live), redelivered
messages and the two non-transactional Redis commands are the hard part. `PROJECT.json` lists the hazards line by line, with the properties
that cover them.

## Modules

| Module | Models | Actions and code |
|---|---|---|
| `JobLifecycle` | what the queue promises about a job | abstract: queued once, attempted, finished, retried or buried, every failure counted |
| `Provisioning` | onboarding on Postgres | `CreateTenant*` = `create_tenant`; `ClaimSelect`/`ClaimCommit` = the SELECT ... FOR UPDATE SKIP LOCKED and the commit of `claim_next`; `GetTenant` ... `MarkDone` = the try block of `process_next_job`, `Raise`, `RaiseAfterCommit`, `MarkRetry`, `MarkDeadLetter` = its except block; `Crash` = a death, or an exception outside the try block; `Patch*` = `update_tenant_plan` |
| `FixedWindowRateLimiter` | the in-memory limiter | `ReadClock` before the lock, `Admit`/`Refuse` under it |
| `RedisRateLimiter` | the Redis limiter | `IncrKey`, `ExpireKey`, `FailOpen`, `FailClosed`, `Crash`; `Tick` also expires keys |
| `RunExecution` | `execute_run` for one tenant, and the writes it races with | one action per database read or write; `Fail` ends a request anywhere |
| `AgentRegistry` | `upsert_tenant_agent` for one tenant | `GetTenant`, `GetPlan`, `CountAgents`, `LoadAgent`, `CommitAgent` |
| `JwksCache` | `_get_jwks_payload` and the check of the token against it | `ReadClock`, `Hit`, `Miss`, `Fetch`, `FetchFails`, `Store` |
| `QueueBackends` | the queue behind each backend that the settings may choose | `ResolveQueueBackend`; `EnqueueInsert`, `EnqueueSignal`; `ReceiveFrom*` and `Claim*` = `claim_next` of the wrapper and of the delegate; `Write`, or `Mark` and `Count` without a lock = the delegate's half of `mark_*`, `AckSignal`, `SendAfter` = the transport's; `*Fails` = a call that raises, with or without effect |
| `Authentication` | `policies/auth.py` as operators | `Authenticates` = `TenantAuthService.authenticate`; `AdminPrincipal`, `Authorizes` = `AdminAuthService` |
| `AdminApi` | who may call which admin endpoint; granting and revoking access | one policy per `_authorize_admin` call; `AuthorizeCall`, `GrantCustomerAgent`, `RevokeCustomerAgent`, `CallFails` |
| `RunRequest` | one run from its credentials to its charge | `Arrive` = authentication, `PassGates` = the gates (see `RunExecution`), `ExecuteStart` ... `DeleteThread` = `FoundryAgentGateway.execute` call by call, `RecordUsage`, `Die` |
| `*Proofs` | the theorems about a module | |
| `MC*` | symmetry sets and record-valued constants for TLC | |

`Provisioning` instantiates `JobLifecycle` (`ImplementsLifecycle`); `RunExecution`
leaves the answer of the limiter open, so that it holds with either limiter.
`RunRequest` composes `Authentication` and `AdminApi` (EXTENDS) with the gateway:
administrators change access while requests run. It and `RunExecution` look at
`execute_run` from two sides: `RunExecution` has the database reads and the quota
in full and takes the gateway for one call; `RunRequest` has the credentials and
the provider in full and takes the gates in between for one step that may refuse.
In the same way `QueueBackends` takes the work on a tenant, which `Provisioning`
models, for an outcome, and shows what the backends add to it.

Modelling decisions:

- A transaction is one step. `upsert_tenant` is two: `session.get`, then a flush
  that writes only the columns that differ from the ones loaded (`Merge`); at
  Postgres's READ COMMITTED the row may have changed in between. The same holds
  for `upsert_tenant_agent`, where a lost race to insert is an error.
- `claim_next` is two steps, because the row is locked, not yet `running`, between
  them. A lock ends with its transaction, that is with the commit or the death.
- A tenant has one job (`<tenant_id>:bootstrap`), so jobs are named by tenants.
  Orphan tenants have a job and no catalog row, as in
  `tests/test_provisioning_worker.py`.
- `LostCommitAcks` lets a call take effect and raise: a connection lost before the
  server's answer, or `adapters/queue.py` failing to delete a signal after the
  store has committed.
- `Crash` stands for a worker's death and for an exception that leaves
  `process_next_job`: one of `claim_next`, or of `mark_retry` and `mark_dead_letter`
  in the except block. In the worker process such an exception ends the process; in
  `POST /v1/provisioning/jobs/run-next` only the request ends. The rows are the same
  either way, so `crashes` counts both, and `StrandedBound` speaks of both.
- The threads of `QueueBackends` are those of one process and share its `_inflight`.
  Several processes have a map each; over a database a job has one holder at a time,
  so they differ only in whose receipt for it is overwritten by a later claim or used
  up by an acknowledgement.
- The Storage Queue is external. A message that is received is hidden for 30
  seconds and then delivered again; the receipt of the earlier delivery no longer
  deletes it. Messages are alike, because nothing reads the job id in them, so they
  are counted: those that nobody holds (`unheld`) and those whose holder has a valid
  receipt, in a thread's local or in `_inflight`. Service Bus is used in
  RECEIVE_AND_DELETE mode, where a received message is gone. Times are left out
  there: hidden messages may come back, and retries become due, at any moment.
- A token is a record of what it was signed with and of its claims. A claim that
  lists names has a form (a list, or a string with spaces or commas), because the
  code reads roles, tenants and scopes differently.
- Settings are part of the state where they decide: every deployment in
  `MCDeployments` is an initial state, and settings the process refuses to start
  with are none.
- A token of text is four characters and at least one (`Tokens`), as in the code; texts
  are their lengths. Usage events are summed per month when they are recorded.
- Names beginning with a description of a slip (`IgnoreLock`, `NoBackoff`,
  `ExhaustedOneLate`, ...) are deliberately wrong variants of the definition that
  follows them. Putting one in its place must break the property that
  `PROJECT.json` pairs it with, which shows that the property depends on the code.

## Runs

| Run | Shows | Bounds |
|---|---|---|
| `provisioning` | types, exclusive claims, one stranded job at most per worker death and per exception outside the try block, done means active, pending tenants have a cause, bounded attempts, all of it also when calls raise after their commit | 2 workers, a tenant and an orphan, 3 attempts, 1 death, creations within 1 second |
| `provisioning_patch` | attempts and backoff as promised, refinement of `JobLifecycle`, a provisioned tenant stays so and keeps the plans it is given from then on under overlapping plan changes, every accepted tenant's job is settled | 2 workers, 2 administrators, 2 plans, 1 tenant, 3 attempts, no deaths |
| `provisioning_patch_race` | violated: a stale plan change takes a provisioned tenant back to pending | 1 worker, 1 administrator |
| `provisioning_crash` | violated: after a worker's death a job stays `running` | 2 workers, 1 death |
| `fixed_window` | what a minute may admit, and that refusals are earned | 3 threads, 2 keys, 2 minutes, limit 2 |
| `fixed_window_overshoot` | violated: a minute may admit more than the limit | 2 threads, 1 key |
| `redis` | the limit of a window, earned refusals, bounded key leaks | 3 threads (one fail-open), 2 windows of 2 seconds, limit 2, 2 failures |
| `run_execution` | how far messages and tokens may exceed their limits; entitlement since arrival | 2 requests, 2 months, limits that move between 1 message and 4 tokens and 2 messages and 6 tokens, outputs as long as estimated (1 token) and longer (5) |
| `agent_registry` | by how much `max_agents` may be exceeded | 2 administrators, 3 agents, 2 plans, limits 0 and 1 |
| `jwks_cache` | freshness of the keys by which tokens are accepted and refused | 3 threads, 2 keys, 2 rotations, time to live 2 of 4 seconds |
| `queue_backends` | a running job is always in somebody's hands, retries stay bounded, every job comes to rest | all settings over a database, in memory those without a transport; 2 jobs, 2 threads, 2 attempts, 1 failing transport call and any number of redeliveries |
| `run_request` | bounded thread leaks and uncharged runs, charges only for completed runs, senders act for themselves, the admin contract with the two exceptions below, warranted changes of access | 2 requests, 2 senders of 2 tenants with 288 inputs in all (no key, the right one and a wrong one), 9 admin tokens, 6 deployments, 2 failures |

Why the bounds are enough: every race here is between two actors, so two of each
kind reach it, and a third (threads, callers) shows that the stated bounds, which
grow with the number of actors or failures, are not met by accident. Three
attempts reach first, middle and last attempt; two months or minutes reach one
turn. `MaxClock` bounds only when tenants are created: `Tick` goes on as long as a
queued job waits. `MaxCount` bounds how many callers arrive at a Redis key, one
above the limit; the run may stop there, so deadlock is not checked. Workers,
threads, keys, agents and requests are symmetric; the runs with liveness use no
symmetry. In `queue_backends` one failure is enough to cut an enqueue, a claim or a
settling at any call, and redelivery, which makes acknowledgements raise, is not
counted. An in-memory queue behind a transport, which nobody deploys (the wrappers
call themselves transports "over a durable queue store"), has more than 16 million
states and is not in the instance. In `run_request` one customer may be granted
access, by a name that users of both tenants may claim; two failures, because the
bounds add up failures of different calls. Requests end, so deadlock is not checked
there.

Fairness (`FairSpec`): `run_worker_forever` calls `process_next_job` in a loop, and
every step of it runs on until it returns or raises, so each worker is weakly fair;
a request that has saved its tenant goes on or fails; time passes. No fairness is
assumed of arriving requests, administrators or deaths. `Raise` is part of the fair
action, so a job may fail each time; the attempts then run out. In `QueueBackends`
the threads are fair in the same way, and a job that is asked for again and again
is due at some time (strong fairness of the delegate's claim), because delays are
finite. No fairness is assumed of the transport: messages may never arrive.

## What the violations say

- `provisioning_patch_race`: PATCH reads a pending tenant, the worker activates it
  and finishes the job, PATCH writes the whole row back. The tenant is pending, its
  job is done, and `execute_run` answers 409 from then on.
- `provisioning_crash`: nothing ever returns a `running` job to the queue.
- `fixed_window_overshoot`: the clock is read before the lock, so a late thread of
  the old minute resets the counter of the new one. `AdmissionBound` says exactly
  what that costs.

The admin authorization parts from `docs/ENTRA_ADMIN_RBAC_CONTRACT.md:34` ("Otherwise
token must include `tenant_ids` containing path tenant id (or `*`), or
`tenant_id`/`tid` matching it.") at two points. `InTenant` is written from these words,
and `AuthorizationFollowsContract` sets both points apart by name; without either
exception TLC finds the property violated in the first state.

- `ClaimsEveryTenant`: a token with `*` in `tenant_id`, or in `tid` without a
  `tenant_id`, is admitted for every tenant (`policies/auth.py:33-34` and `261-267`
  put all three claims in one set). The contract has `*` in `tenant_ids` only.
- `ShadowsTenant`: a token with one tenant in `tenant_id` and another in `tid` is
  refused for the second. The contract does not say which of the two counts.

`AccessIsWarranted`, about endpoints that the contract does not list, makes the first
exception too.

Two hazards are facts of the code rather than something a property rules out. A plan
change is lost when the worker that activates the tenant had read it before;
`PlanChangesStick` begins when the job is done. A tenant whose enqueue failed stays
pending without a job; `PendingIsExplained` says that there is no other way there.

Two more limits of the code are stated as bounds that hold. The sum of the usage is
read before the gateway call and the event written after it: `MessagesBound` says
that each other request in flight costs one message at most, and `TokensBound` does
the same for tokens, where even a single run may overrun the cap, as its estimate
takes the output to be as long as the message. And in `QueueBackends` a job whose
signal cannot be deleted is settled twice: `RetriesBound` says what that costs.

## Theorems

Proved by TLAPS for every number of tenants, workers, administrators, callers,
keys, threads and requests, every limit, every set of tokens and every deployment.
The only assumptions are the ones named in the modules: constants have their types,
sets are finite where they are counted, `NoTenant` and the like are no members. TLC
evaluates them in every run. Four say more:

- `PowersAssumption` (`Provisioning`) is the recurrence of the powers of two up to
  the last backoff; the provers have no exponentials.
- `LengthsAssumption` and `LimitsAssumption` (`RunExecution`): there are a longest
  message and a longest output, and `MaxTokenCap` and `MaxMessages` bound the limits.
- `CredentialsAssumption` (`RunRequest`) says what a sender is: keys and tokens that
  are good were issued to the tenant and the user that send them.
- `AdminAssumption` (`AdminApi`): a claim that lists names is a list or a string,
  and the empty name is no tenant.

Each proof has one lemma or step per action; where many actions differ little (the
calls of `RunRequest`, `QueueBackends` and `RedisRateLimiter`), lemmas first reduce
each action to one of a few effects, and every invariant is shown to survive the
effects.

`ProvisioningProofs`:

- `TypeCorrect`: `Spec => []TypeOK`.
- `ClaimsAreExclusive`. Not inductive alone: nothing but the job's state and the
  row lock stop a second claim. The invariant adds that the job of a worker before
  the commit is queued and, after it, not queued (`Lease`), so that a selected
  job belongs to nobody else.
- `DoneTenantsAreActive` (for `Admins = {}`; with administrators
  `provisioning_patch_race` refutes it). The invariant adds what a worker knows
  at each place of the try block: the copy it writes is active, the tenant of a job
  in `finishing` is active already, and active tenants stay active (`Activation`).
- `PendingTenantsAreExplained` (for `Admins = {}`): from the theorem before it, and
  that a finished creation has queued a job (`Recorded`) that never disappears.
- `StrandedJobsAreBounded`. A step other than `Crash` strands no job, which needs
  `Lease`; a crash strands at most the job that was in the worker's hands.
- `RetriesStayInBudget` (for `~LostCommitAcks`). The copy of `retries` that the
  worker judges by equals the row's (`Counted`), which needs exclusiveness.
- `RetriesHaveACeiling`, without that hypothesis. The copy may now be behind the
  row: the invariant says by how much at each place of the try and of the except
  block (`Tallied`), and which counts a row may have in each state (`RowCeiling`).
- `AttemptsAreNotEarly` (for `~LostCommitAcks`). The invariant says of a queued job
  that its `available_at` lies behind all delays so far (`PunctualRow`), and of a
  claim that the clock has reached it (`PunctualClaim`); each retry adds one delay,
  by the recurrence.
- `QueueImplementsLifecycle` (for `~LostCommitAcks`): the refinement. Initial
  states map to initial states, and each step, described by the row it changes
  (`RowBecomes`), is a step of one job of `JobLifecycle` or a stutter; that a bury
  comes only with the last attempt and a retry only before it is `RetriesStayInBudget`.
- `ProvisionedForGood` (for `~LostCommitAcks`) and `PlansAreChangedByPatch`: the
  action properties `ProvisionedIsFinal` and `PlanChangesStick`, from `Lease`: no
  worker still writes the tenant of a job that is done.

With `LostCommitAcks` a failure may be counted twice and a job that was settled be
attempted again, which the theorems that assume it away rule out;
`RetriesHaveACeiling` says what remains.

`RunExecutionProofs`:

- `TypeCorrect`. Needs to know what each request has read by each call (`Located`).
- `EntitledRunsOnly`. The property speaks of requests past the gates; the invariant
  adds that the histories miss no activation and no grant, and which of the two a
  request has behind it at each call (`Tracked`).
- `MessagesAreBounded`, `TokensAreBounded`. The usage alone is not inductive: a run
  may be admitted by the usage of one month and recorded in the next. The invariant
  reserves a message, and the tokens of the largest run, for each request that may
  still add to a month without being judged by it (`MayAdd`, `Unjudged`,
  `Reserved`): a request judged by the month itself finds a free message and two
  free tokens, and one that was judged by an earlier month was counted when the
  month began.

`FixedWindowRateLimiterProofs`:

- `TypeCorrect`, `AdmissionsAreBounded`, `NoEarlyRefusal`. The inductive invariant
  relates each counter to the history: the counter of a minute never exceeds what
  was admitted in it, and the rest was admitted in rations ended by a set-back.

`RedisRateLimiterProofs`:

- `TypeCorrect`, together with `Timely`: however slow a caller is after it read the
  clock, the time to live that it sets lasts to the end of its window, so no counter
  expires earlier. This is what the two commands could have broken.
- `WindowLimitHolds`, `NoEarlyRefusal`. The callers admitted and those still in
  EXPIRE are, while the window lasts, within what the counter counted and within the
  limit, but for those let through by failures (`Rationed`); a counter below the
  limit counted only them and callers lost to failures (`Earned`).
- `LeaksAreBounded`. A counter without expiry has a caller in EXPIRE or has cost a
  failure, one each.

`AgentRegistryProofs`:

- `TypeCorrect`, `ActiveAgentsAreBounded`. Not inductive alone: an administrator past
  the count may add an agent without looking again. The bound is shown of the active
  agents and those about to be activated together (`PlannedBound`).

`JwksCacheProofs`:

- `TypeCorrect`, `FreshKeysOnly`. The property speaks of a judged token; the
  invariant dates the key sets on the way there: a fetched set was current after the
  thread read the clock (`Fetched`), a cached one within the time to live before its
  expiry (`Cached`), and no reading of the clock is from the future (`Timely`).

`QueueBackendsProofs`:

- `TypeCorrect`. A thread's list of calls to make is one of the lists that settling
  a job starts, or a tail of one (`WellFormed`).
- `RunningJobsAreHeld`. Holding a job is not enough for the step to go through: the
  thread must have the delegate's write still ahead of it (`RunningIsAhead`).
- `RetriesAreBounded`. Over a database a job has one owner until it is settled
  (`Owned`); what the owner may still add to the count at each place is `Budget`,
  and the count itself is bounded by state (`RowBudget`).

`RunRequestProofs`:

- `TypeCorrect`, `ChargesAreWarranted`, `SendersAreThemselves`: a request past
  authentication acts for its sender at every call (`Consistent`).
- `ThreadsAreBounded`, `UnchargedRunsAreBounded`: every request that joins the set
  that is counted does so in a step that counts a failure (`LossBound`).
- `ContractIsFollowed`: the policies in the handlers against the contract's table,
  and what the code extracts from the claims against the contract's words, for every
  token and form of claim; `TenantIsRead` shows that the two exceptions above are the
  only ones. `AccessChangesAreWarranted`, an action property: a call under way was
  authorized, by role or scope and by tenant, when it came in (`CallsAreWarranted`).

Only model-checked: the two liveness properties, `AcceptedTenantSettles` and
`JobsSettle`, because fairness and `ENABLED` are beyond the prover. Every invariant
and action property of a passing run has a theorem. The invariants the inductions
rest on were checked by TLC on the runs' instances before they were proved.

The definitions use IF rather than CASE, and explicit functions rather than nested
`@`, where the provers need it.

## Plan

Done, in this order: `JobLifecycle` and `Provisioning`, the in-memory limiter, run
execution, the Redis limiter, the agent registry, the JWKS cache, the queue
backends, authentication and the admin policies, the run request with the gateway,
and the proofs of all their safety properties. Left:

1. What holds of `Provisioning` with administrators and with `LostCommitAcks` beyond
   the theorems above: for instance, that `DoneMeansActive` fails only for tenants
   with a plan change under way at activation.
2. An abstract limiter that both rate limiters implement up to their bounds.

## Not modelled

- Telemetry and secrets: no influence on the program's state.
- The parsing of environment variables and the construction of clients; schema
  migrations and infrastructure.
- Read-only endpoints (listings, usage export, audit), except for who may call them.
- The in-memory catalogs: dictionaries for local development, one assignment per
  operation. In the in-memory queue, the RuntimeError of an iteration over the jobs
  while another thread enqueues: it ends one request before it has changed anything.
- The seeding of the default plans at start: to `RunExecution`, where plans change
  at any time, it is one more `upsert_plan`.
- Two enqueues with one idempotency key: `create_tenant` makes a fresh tenant id,
  and with it a fresh key, for every call.
- Signatures, issuers, audiences and expiry of tokens, which PyJWT checks, and the
  contents of texts and names. Clock skew between processes and Redis evictions are
  outside the code's control.
