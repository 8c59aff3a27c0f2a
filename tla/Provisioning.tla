---------------------------- MODULE Provisioning ----------------------------
(***************************************************************************)
(* Tenant onboarding on the Postgres deployment: POST /v1/tenants saves a  *)
(* pending tenant and queues its bootstrap job; worker processes (and      *)
(* POST /v1/provisioning/jobs/run-next) claim a job, activate the tenant   *)
(* and settle the job, with retries, backoff and a dead-letter state;      *)
(* PATCH /v1/admin/tenants/{id}/plan rewrites the same tenant rows.        *)
(*                                                                         *)
(* A database transaction is one step; the program's own state between two *)
(* transactions (the claimed job, a tenant read earlier) is in worker and  *)
(* patch.  A tenant has one job, under the idempotency key                 *)
(* "<tenant_id>:bootstrap", so a job is named by its tenant.               *)
(***************************************************************************)
EXTENDS Integers, FiniteSets

CONSTANTS
    Tenants,             \* tenant ids, each with the job that bootstraps it
    OrphanTenants,       \* those whose job is queued without a catalog row
    NoTenant,            \* a worker's job when it has none
    Workers,             \* threads that call process_next_job
    Admins,              \* threads that serve PATCH .../plan
    Plans,               \* ids of the active plans
    JobMaxAttempts,      \* max_attempts as passed to enqueue
    DefaultMaxAttempts,  \* default_max_attempts of process_next_job
    RetryBase,           \* retry_base_seconds of process_next_job
    LostCommitAcks,      \* may a commit take effect and still raise?
    MaxClock,            \* bound: tenants are created no later than this
    MaxCrashes           \* bound: how many times a worker dies

ASSUME TenantsAssumption ==
    /\ IsFiniteSet(Tenants)
    /\ OrphanTenants \subseteq Tenants
    /\ NoTenant \notin Tenants

ASSUME PlansAssumption == "" \notin Plans

ASSUME NumbersAssumption ==
    /\ JobMaxAttempts \in Int
    /\ DefaultMaxAttempts \in Int
    /\ RetryBase \in Int
    /\ MaxClock \in Nat
    /\ MaxCrashes \in Nat
    /\ LostCommitAcks \in BOOLEAN

VARIABLES
    tenants,     \* the tenants table
    jobs,        \* the provisioning_jobs table
    worker,      \* each worker's place in process_next_job and its locals
    patch,       \* each admin request's place in update_tenant_plan
    creation,    \* how far POST /v1/tenants has come for each tenant
    clock,       \* datetime.now(), in seconds
    crashes      \* how many times a worker has died or given up, see Crash

vars == <<tenants, jobs, worker, patch, creation, clock, crashes>>

-----------------------------------------------------------------------------
(* Rows and locals.                                                        *)

TenantRow == [plan : Plans \cup {""}, status : {"absent", "pending", "active"}]

NoTenantRow == [plan |-> "", status |-> "absent"]

JobStates == {"absent", "queued", "running", "done", "dead_letter"}

ProvisioningJobRow ==
    [state : JobStates, retries : Nat, available_at : Nat, created_at : Nat]

NoJobRow == [state |-> "absent", retries |-> 0, available_at |-> 0, created_at |-> 0]

\* The steps of process_next_job inside its try block.
TryBlock == {"claimed", "activating", "upserting", "finishing", "not_found"}

WorkerState ==
    [pc : {"idle", "claiming", "failing"} \cup TryBlock,
     job : Tenants \cup {NoTenant}, retries : Nat,
     tenant : TenantRow, loaded : TenantRow]

IdleWorker ==
    [pc |-> "idle", job |-> NoTenant, retries |-> 0,
     tenant |-> NoTenantRow, loaded |-> NoTenantRow]

PatchState ==
    [pc : {"idle", "updating", "upserting"}, tenant_id : Tenants \cup {NoTenant},
     tenant : TenantRow, loaded : TenantRow]

IdlePatch ==
    [pc |-> "idle", tenant_id |-> NoTenant,
     tenant |-> NoTenantRow, loaded |-> NoTenantRow]

Larger(a, b) == IF a >= b THEN a ELSE b

\* max(job.max_attempts, default_max_attempts, 1); enqueue stores max(.., 1).
MaxAttempts == Larger(Larger(Larger(JobMaxAttempts, 1), DefaultMaxAttempts), 1)

NoBackoff(retries) == Larger(RetryBase, 0)

\* max(retry_base_seconds, 0) * 2 ** max(job.retries, 0)
RetryDelay(retries) == Larger(RetryBase, 0) * 2^retries

\* What TLC evaluates and the provers, which know no exponentials, are told.
ASSUME PowersAssumption ==
    \A r \in 0..MaxAttempts + 2 : 2^r \in Nat \ {0} /\ 2^(r + 1) = 2 * 2^r

Init ==
    /\ tenants = [t \in Tenants |-> NoTenantRow]
    /\ jobs = [t \in Tenants |-> NoJobRow]
    /\ worker = [w \in Workers |-> IdleWorker]
    /\ patch = [a \in Admins |-> IdlePatch]
    /\ creation = [t \in Tenants |-> "unused"]
    /\ clock = 0
    /\ crashes = 0

-----------------------------------------------------------------------------
(* The tables' write operations.                                           *)

StatusNotSaved(row, loaded, copy) == [row EXCEPT !.plan = copy.plan]

\* The UPDATE that upsert_tenant's flush emits: SQLAlchemy writes the columns
\* whose value differs from the one the session loaded, and no others.
Merge(row, loaded, copy) ==
    [plan   |-> IF copy.plan # loaded.plan THEN copy.plan ELSE row.plan,
     status |-> IF copy.status # loaded.status THEN copy.status ELSE row.status]

EnqueueJob(t) ==
    jobs' = [jobs EXCEPT ![t] =
                IF @.state = "absent"
                THEN [state |-> "queued", retries |-> 0,
                      available_at |-> clock, created_at |-> clock]
                ELSE @]

MisspeltDeadLetter(j) ==
    jobs' = [jobs EXCEPT ![j] = [@ EXCEPT !.state = "dead-letter", !.retries = jobs[j].retries + 1]]

UncountedRetry(j, delay) ==
    jobs' = [jobs EXCEPT ![j] = [@ EXCEPT !.state = "queued",
                                          !.available_at = clock + delay]]

SetDone(j) == jobs' = [jobs EXCEPT ![j].state = "done"]

SetDeadLetter(j) ==
    jobs' = [jobs EXCEPT ![j] = [@ EXCEPT !.state = "dead_letter", !.retries = jobs[j].retries + 1]]

SetQueued(j, delay) ==
    jobs' = [jobs EXCEPT ![j] = [@ EXCEPT !.state = "queued",
                                          !.retries = jobs[j].retries + 1,
                                          !.available_at = clock + delay]]

-----------------------------------------------------------------------------
(* POST /v1/tenants: two transactions, either of which may fail.  A plan   *)
(* that is not active is refused before the first and changes nothing.     *)

CreateTenantSave(t, plan) ==
    /\ t \notin OrphanTenants
    /\ creation[t] = "unused"
    /\ clock <= MaxClock
    /\ tenants' = [tenants EXCEPT ![t] = [plan |-> plan, status |-> "pending"]]
    /\ creation' = [creation EXCEPT ![t] = "saved"]
    /\ UNCHANGED <<jobs, worker, patch, clock, crashes>>

CreateTenantUnqueued(t) ==
    /\ creation[t] = "saved"
    /\ creation' = [creation EXCEPT ![t] = "created"]
    /\ UNCHANGED <<tenants, jobs, worker, patch, clock, crashes>>

CreateTenantEnqueue(t) ==
    /\ creation[t] = "saved"
    /\ EnqueueJob(t)
    /\ creation' = [creation EXCEPT ![t] = "created"]
    /\ UNCHANGED <<tenants, worker, patch, clock, crashes>>

\* The second call raises: 500 to the client, the pending tenant stays.
CreateTenantFails(t) ==
    /\ creation[t] = "saved"
    /\ creation' = [creation EXCEPT ![t] = "failed"]
    /\ UNCHANGED <<tenants, jobs, worker, patch, clock, crashes>>

\* A job queued for a tenant that the catalog does not hold, the situation
\* that process_next_job's "tenant not found" branch is there for.
EnqueueOrphan(t) ==
    /\ t \in OrphanTenants
    /\ creation[t] = "unused"
    /\ clock <= MaxClock
    /\ EnqueueJob(t)
    /\ creation' = [creation EXCEPT ![t] = "created"]
    /\ UNCHANGED <<tenants, worker, patch, clock, crashes>>

-----------------------------------------------------------------------------
(* claim_next: SELECT ... FOR UPDATE SKIP LOCKED, then COMMIT.             *)

IgnoreDueTime(j) == jobs[j].state = "queued"

Due(j) == jobs[j].state = "queued" /\ jobs[j].available_at <= clock

IgnoreLock(j) == TRUE

\* No other transaction between its SELECT ... FOR UPDATE and its COMMIT
\* holds the row: what SKIP LOCKED passes over.
Unlocked(j) == \A w \in Workers : ~(worker[w].pc = "claiming" /\ worker[w].job = j)

Claimable == {j \in Tenants : Due(j) /\ Unlocked(j)}

\* ORDER BY available_at, created_at
NoLaterThan(j, k) ==
    \/ jobs[j].available_at < jobs[k].available_at
    \/ /\ jobs[j].available_at = jobs[k].available_at
       /\ jobs[j].created_at <= jobs[k].created_at

ClaimSelect(w) ==
    /\ worker[w].pc = "idle"
    /\ \E j \in Claimable :
          /\ \A k \in Claimable : NoLaterThan(j, k)
          /\ worker' = [worker EXCEPT ![w] =
                          [@ EXCEPT !.pc = "claiming", !.job = j,
                                    !.retries = jobs[j].retries]]
    /\ UNCHANGED <<tenants, jobs, patch, creation, clock, crashes>>

ClaimCommit(w) ==
    /\ worker[w].pc = "claiming"
    /\ jobs' = [jobs EXCEPT ![worker[w].job].state = "running"]
    /\ worker' = [worker EXCEPT ![w].pc = "claimed"]
    /\ UNCHANGED <<tenants, patch, creation, clock, crashes>>

\* claim_next finds nothing, process_next_job returns False, the loop sleeps.
Poll(w) ==
    /\ worker[w].pc = "idle"
    /\ Claimable = {}
    /\ UNCHANGED vars

-----------------------------------------------------------------------------
(* process_next_job, the try block.                                        *)

\* get_tenant, and the branch taken on what it returned.
GetTenant(w) ==
    /\ worker[w].pc = "claimed"
    /\ LET row == tenants[worker[w].job]
       IN  worker' =
             [worker EXCEPT ![w] =
                [@ EXCEPT !.pc = CASE row.status = "absent" -> "not_found"
                                   [] row.status = "pending" -> "activating"
                                   [] OTHER -> "finishing",
                          !.tenant = IF row.status = "pending"
                                     THEN [row EXCEPT !.status = "active"]
                                     ELSE row]]
    /\ UNCHANGED <<tenants, jobs, patch, creation, clock, crashes>>

\* upsert_tenant: session.get ...
UpsertLoad(w) ==
    /\ worker[w].pc = "activating"
    /\ worker' = [worker EXCEPT ![w] =
                    [@ EXCEPT !.pc = "upserting", !.loaded = tenants[worker[w].job]]]
    /\ UNCHANGED <<tenants, jobs, patch, creation, clock, crashes>>

WriteTenant(w) ==
    LET j == worker[w].job
    IN  tenants' = [tenants EXCEPT ![j] = Merge(@, worker[w].loaded, worker[w].tenant)]

\* ... and the columns set, flushed and committed.
UpsertCommit(w) ==
    /\ worker[w].pc = "upserting"
    /\ WriteTenant(w)
    /\ worker' = [worker EXCEPT ![w].pc = "finishing"]
    /\ UNCHANGED <<jobs, patch, creation, clock, crashes>>

MarkDone(w) ==
    /\ worker[w].pc = "finishing"
    /\ SetDone(worker[w].job)
    /\ worker' = [worker EXCEPT ![w] = IdleWorker]
    /\ UNCHANGED <<tenants, patch, creation, clock, crashes>>

MarkNotFound(w) ==
    /\ worker[w].pc = "not_found"
    /\ SetDeadLetter(worker[w].job)
    /\ worker' = [worker EXCEPT ![w] = IdleWorker]
    /\ UNCHANGED <<tenants, patch, creation, clock, crashes>>

-----------------------------------------------------------------------------
(* process_next_job, the except block.                                     *)

\* A plausible slip: the exception is swallowed and the job is left as it is.
RaiseSwallowed(w) ==
    /\ worker[w].pc \in TryBlock
    /\ worker' = [worker EXCEPT ![w] = IdleWorker]
    /\ UNCHANGED <<tenants, jobs, patch, creation, clock, crashes>>

\* The call that comes next raises without effect.
Raise(w) ==
    /\ worker[w].pc \in TryBlock
    /\ worker' = [worker EXCEPT ![w].pc = "failing"]
    /\ UNCHANGED <<tenants, jobs, patch, creation, clock, crashes>>

\* The call that comes next commits and raises all the same: the connection
\* is lost before the server's answer, or the transport wrapper of queue.py
\* fails to delete the message after the store has committed.
RaiseAfterCommit(w) ==
    /\ LostCommitAcks
    /\ \/ /\ worker[w].pc = "upserting"
          /\ WriteTenant(w)
          /\ UNCHANGED jobs
       \/ /\ worker[w].pc = "finishing"
          /\ SetDone(worker[w].job)
          /\ UNCHANGED tenants
       \/ /\ worker[w].pc = "not_found"
          /\ SetDeadLetter(worker[w].job)
          /\ UNCHANGED tenants
    /\ worker' = [worker EXCEPT ![w].pc = "failing"]
    /\ UNCHANGED <<patch, creation, clock, crashes>>

ExhaustedOneLate(retries) == retries >= MaxAttempts

Exhausted(retries) == retries + 1 >= MaxAttempts

MarkRetry(w) ==
    /\ worker[w].pc = "failing"
    /\ ~Exhausted(worker[w].retries)
    /\ SetQueued(worker[w].job, RetryDelay(worker[w].retries))
    /\ worker' = [worker EXCEPT ![w] = IdleWorker]
    /\ UNCHANGED <<tenants, patch, creation, clock, crashes>>

MarkDeadLetter(w) ==
    /\ worker[w].pc = "failing"
    /\ Exhausted(worker[w].retries)
    /\ SetDeadLetter(worker[w].job)
    /\ worker' = [worker EXCEPT ![w] = IdleWorker]
    /\ UNCHANGED <<tenants, patch, creation, clock, crashes>>

\* The worker gives up what it was doing: its process dies, or a call outside
\* the try block (claim_next's COMMIT or the refresh after it, or in the except
\* block mark_retry and mark_dead_letter) raises.  Such an exception ends the
\* process through run_worker_forever; through POST run-next it ends only the
\* request, and the next one finds the same rows.  Whoever comes next starts
\* idle; an open transaction is rolled back, and a row already committed stays
\* as it is.  crashes counts all of these.
Crash(w) ==
    /\ crashes < MaxCrashes
    /\ worker[w].pc # "idle"
    /\ worker' = [worker EXCEPT ![w] = IdleWorker]
    /\ crashes' = crashes + 1
    /\ UNCHANGED <<tenants, jobs, patch, creation, clock>>

-----------------------------------------------------------------------------
(* PATCH /v1/admin/tenants/{tenant_id}/plan.  An unknown tenant or plan is *)
(* refused and changes nothing.                                            *)

\* A plausible slip: the tenant is built afresh, with Tenant's default status.
PatchFreshTenant(a, t, plan) ==
    /\ patch[a].pc = "idle"
    /\ tenants[t].status # "absent"
    /\ patch' = [patch EXCEPT ![a] =
                    [@ EXCEPT !.pc = "updating", !.tenant_id = t,
                              !.tenant = [plan |-> plan, status |-> "pending"]]]
    /\ UNCHANGED <<tenants, jobs, worker, creation, clock, crashes>>

PatchGetTenant(a, t, plan) ==
    /\ patch[a].pc = "idle"
    /\ tenants[t].status # "absent"
    /\ patch' = [patch EXCEPT ![a] =
                    [@ EXCEPT !.pc = "updating", !.tenant_id = t,
                              !.tenant = [tenants[t] EXCEPT !.plan = plan]]]
    /\ UNCHANGED <<tenants, jobs, worker, creation, clock, crashes>>

PatchLoad(a) ==
    /\ patch[a].pc = "updating"
    /\ patch' = [patch EXCEPT ![a] =
                    [@ EXCEPT !.pc = "upserting",
                              !.loaded = tenants[patch[a].tenant_id]]]
    /\ UNCHANGED <<tenants, jobs, worker, creation, clock, crashes>>

PatchCommit(a) ==
    /\ patch[a].pc = "upserting"
    /\ tenants' = [tenants EXCEPT ![patch[a].tenant_id] =
                      Merge(@, patch[a].loaded, patch[a].tenant)]
    /\ patch' = [patch EXCEPT ![a] = IdlePatch]
    /\ UNCHANGED <<jobs, worker, creation, clock, crashes>>

PatchFails(a) ==
    /\ patch[a].pc # "idle"
    /\ patch' = [patch EXCEPT ![a] = IdlePatch]
    /\ UNCHANGED <<tenants, jobs, worker, creation, clock, crashes>>

-----------------------------------------------------------------------------

\* Time passes, up to MaxClock or as long as a queued job waits for its turn.
Tick ==
    /\ \/ clock < MaxClock
       \/ \E j \in Tenants : jobs[j].state = "queued" /\ jobs[j].available_at > clock
    /\ clock' = clock + 1
    /\ UNCHANGED <<tenants, jobs, worker, patch, creation, crashes>>

CreateTenant(t) ==
    \/ \E plan \in Plans : CreateTenantSave(t, plan)
    \/ CreateTenantEnqueue(t)
    \/ CreateTenantFails(t)
    \/ EnqueueOrphan(t)

ProcessNextJob(w) ==
    \/ ClaimSelect(w) \/ ClaimCommit(w)
    \/ GetTenant(w) \/ UpsertLoad(w) \/ UpsertCommit(w)
    \/ MarkDone(w) \/ MarkNotFound(w)
    \/ Raise(w) \/ RaiseAfterCommit(w)
    \/ MarkRetry(w) \/ MarkDeadLetter(w)

UpdateTenantPlan(a) ==
    \/ \E t \in Tenants, plan \in Plans : PatchGetTenant(a, t, plan)
    \/ PatchLoad(a) \/ PatchCommit(a) \/ PatchFails(a)

Next ==
    \/ \E t \in Tenants : CreateTenant(t)
    \/ \E w \in Workers : ProcessNextJob(w) \/ Poll(w) \/ Crash(w)
    \/ \E a \in Admins : UpdateTenantPlan(a)
    \/ Tick

Spec == Init /\ [][Next]_vars

\* run_worker_forever calls process_next_job again and again, and a call runs
\* on until it returns or raises; time passes.  Nothing obliges a request to
\* arrive or a worker to die.
FairSpec ==
    /\ Spec
    /\ \A w \in Workers : WF_vars(ProcessNextJob(w))
    /\ \A t \in Tenants : WF_vars(CreateTenantEnqueue(t) \/ CreateTenantFails(t))
    /\ WF_vars(Tick)

-----------------------------------------------------------------------------
(* Properties.                                                             *)

InFlight(w, j) == worker[w].pc # "idle" /\ worker[w].job = j

\* The values each table, local and counter may have.
TypeOK ==
    /\ tenants \in [Tenants -> TenantRow]
    /\ jobs \in [Tenants -> ProvisioningJobRow]
    /\ worker \in [Workers -> WorkerState]
    /\ \A w \in Workers : worker[w].pc # "idle" => worker[w].job \in Tenants
    /\ patch \in [Admins -> PatchState]
    /\ \A a \in Admins : patch[a].pc # "idle" => patch[a].tenant_id \in Tenants
    /\ creation \in [Tenants -> {"unused", "saved", "created", "failed"}]
    /\ clock \in Nat
    /\ crashes \in 0..MaxCrashes

\* No two workers are ever between claiming and settling the same job: the
\* row lock of claim_next and the "running" state together stand for a lease,
\* although mark_done, mark_retry and mark_dead_letter never look at either.
ExclusiveClaim ==
    \A v, w \in Workers, j \in Tenants :
        InFlight(v, j) /\ InFlight(w, j) => v = w

Stranded ==
    {j \in Tenants : /\ jobs[j].state = "running"
                     /\ \A w \in Workers : ~InFlight(w, j)}

\* A job is left "running" with nobody to settle it only where a worker dies
\* or where claim_next or the except block of process_next_job raises (see
\* Crash), each time one job at most: no return of process_next_job and no
\* exception in its try block does.
StrandedBound == Cardinality(Stranded) <= crashes

\* A job that is done left its tenant active, however the attempts at it,
\* the exceptions and the crashes were interleaved.
DoneMeansActive ==
    \A t \in Tenants : jobs[t].state = "done" => tenants[t].status = "active"

\* A tenant that is pending has a job that is queued, running (or stranded in
\* that state, see StrandedBound) or dead-lettered, but for the creations whose
\* enqueue has not been made or has failed.  These alone are left pending
\* without any trace in the queue.
PendingIsExplained ==
    \A t \in Tenants :
        tenants[t].status = "pending" =>
            \/ creation[t] \in {"saved", "failed"}
            \/ jobs[t].state \in {"queued", "running", "dead_letter"}

\* retries counts the failed attempts of a job: a job that may still run has
\* an attempt left, and none has failed more often than MaxAttempts.
RetryBudget ==
    \A t \in Tenants :
        /\ jobs[t].state \in {"queued", "running"} => jobs[t].retries < MaxAttempts
        /\ jobs[t].retries <= MaxAttempts

\* The attempts are bounded even when a commit may take effect and raise: a
\* job dead-lettered inside the try block and then again, or put back in the
\* queue, by the except block counts one failure twice, at most two times.
RetryCeiling == \A t \in Tenants : jobs[t].retries <= MaxAttempts + 2

\* An attempt that follows k failures starts no earlier than the k delays
\* between them, RetryBase * (1 + 2 + ... + 2^(k-1)), after the job was queued.
EarliestAttempt ==
    \A t \in Tenants :
        jobs[t].state = "running" =>
            clock >= jobs[t].created_at + Larger(RetryBase, 0) * (2^jobs[t].retries - 1)

Provisioned(t) ==
    /\ jobs[t].state = "done"
    /\ tenants[t].status = "active"
    /\ \A a \in Admins :
          patch[a].pc # "idle" /\ patch[a].tenant_id = t => patch[a].tenant.status = "active"

\* The window of the race between the worker and PATCH .../plan: once a tenant
\* is provisioned and no PATCH that read it before its activation is still
\* under way, no later PATCH, however many overlap, takes it back to pending.
ProvisionedIsFinal ==
    [][\A t \in Tenants : Provisioned(t) => Provisioned(t)']_vars

\* The plan of a provisioned tenant changes only to what a PATCH that commits in
\* that step was asked for: the worker, which writes back the plan that it read
\* with the status, may take a plan change back while it activates the tenant,
\* but not once the job is done.
PlanChangesStick ==
    [][\A t \in Tenants :
          Provisioned(t) /\ tenants'[t].plan # tenants[t].plan =>
             \E a \in Admins :
                /\ patch[a].tenant_id = t /\ patch[a].tenant.plan = tenants'[t].plan
                /\ patch'[a] = IdlePatch]_vars

\* Each job is queued once, attempted by one worker at a time, and its state
\* and failure count follow the lifecycle that the queue promises.
Lifecycle == INSTANCE JobLifecycle
                WITH Jobs <- Tenants,
                     state <- [t \in Tenants |-> jobs[t].state],
                     failures <- [t \in Tenants |-> jobs[t].retries]

ImplementsLifecycle == Lifecycle!JobSpec

\* The job of a tenant whose creation was answered with 201 ends, for good, done
\* or in the dead-letter state, whatever fails on the way: no job is left
\* running, and none waits in the queue for ever.
AcceptedTenantSettles ==
    \A t \in Tenants :
        creation[t] = "created" ~> [](jobs[t].state \in {"done", "dead_letter"})

=============================================================================
