------------------------- MODULE ProvisioningProofs -------------------------
(***************************************************************************)
(* Proofs about Provisioning for every set of tenants, workers, admin      *)
(* requests and plans, and every value of the numeric parameters.          *)
(***************************************************************************)
EXTENDS Provisioning, FiniteSetTheorems, TLAPS

USE DEF TryBlock, WorkerState, PatchState

LEMMA RowTypes ==
  /\ NoTenantRow \in TenantRow
  /\ NoJobRow \in ProvisioningJobRow
  /\ \A plan \in Plans : [plan |-> plan, status |-> "pending"] \in TenantRow
  /\ \A row \in TenantRow : [row EXCEPT !.status = "active"] \in TenantRow
  /\ \A row \in TenantRow, plan \in Plans : [row EXCEPT !.plan = plan] \in TenantRow
  BY DEF NoTenantRow, NoJobRow, TenantRow, ProvisioningJobRow, JobStates

LEMMA JobRowUpdates ==
  ASSUME NEW row \in ProvisioningJobRow, NEW s \in JobStates, NEW n \in Nat, NEW m \in Nat
  PROVE  /\ [row EXCEPT !.state = s] \in ProvisioningJobRow
         /\ [row EXCEPT !.state = s, !.retries = n] \in ProvisioningJobRow
         /\ [row EXCEPT !.state = s, !.retries = n, !.available_at = m] \in ProvisioningJobRow
  BY DEF ProvisioningJobRow

LEMMA IdleTypes == IdleWorker \in WorkerState /\ IdlePatch \in PatchState
  BY RowTypes DEF IdleWorker, IdlePatch

LEMMA MaxAttemptsType == MaxAttempts \in Nat /\ MaxAttempts >= 1
  BY NumbersAssumption DEF MaxAttempts, Larger

\* A row that upsert_tenant writes is a row.
LEMMA MergeType ==
  ASSUME NEW row \in TenantRow, NEW loaded \in TenantRow, NEW copy \in TenantRow
  PROVE  Merge(row, loaded, copy) \in TenantRow
  BY DEF Merge, TenantRow

\* The delay computed from a count that has not exhausted the job.
LEMMA DelayType ==
  ASSUME NEW r \in Nat, ~Exhausted(r)
  PROVE  RetryDelay(r) \in Nat
<1>1. r \in 0..MaxAttempts + 2
  BY MaxAttemptsType DEF Exhausted
<1> SUFFICES ASSUME NEW p, p = 2^r PROVE Larger(RetryBase, 0) * p \in Nat
  BY DEF RetryDelay
<1>2. p \in Nat
  BY <1>1, PowersAssumption
<1> QED
  BY <1>2, NumbersAssumption DEF Larger

-----------------------------------------------------------------------------
(* Type correctness.                                                       *)

LEMMA InitTypeOK == Init => TypeOK
  BY NumbersAssumption, RowTypes, IdleTypes DEF Init, TypeOK, IdleWorker, IdlePatch

\* What the write operations on the jobs table leave in it.
LEMMA JobWrites ==
  ASSUME TypeOK, NEW j \in Tenants
  PROVE  /\ EnqueueJob(j) => jobs' \in [Tenants -> ProvisioningJobRow]
         /\ SetDone(j) => jobs' \in [Tenants -> ProvisioningJobRow]
         /\ SetDeadLetter(j) => jobs' \in [Tenants -> ProvisioningJobRow]
         /\ \A d \in Nat : SetQueued(j, d) => jobs' \in [Tenants -> ProvisioningJobRow]
<1>1. EnqueueJob(j) => jobs' \in [Tenants -> ProvisioningJobRow]
  BY DEF TypeOK, EnqueueJob, ProvisioningJobRow, JobStates
<1>2. SetDone(j) => jobs' \in [Tenants -> ProvisioningJobRow]
  BY DEF TypeOK, SetDone, ProvisioningJobRow, JobStates
<1>0. jobs[j] \in ProvisioningJobRow
  BY DEF TypeOK
<1>3. SetDeadLetter(j) => jobs' \in [Tenants -> ProvisioningJobRow]
  <2>1. jobs[j].retries + 1 \in Nat /\ "dead_letter" \in JobStates
    BY <1>0 DEF ProvisioningJobRow, JobStates
  <2>2. [jobs[j] EXCEPT !.state = "dead_letter", !.retries = jobs[j].retries + 1]
           \in ProvisioningJobRow
    BY <1>0, <2>1, JobRowUpdates
  <2> QED
    BY <2>2 DEF TypeOK, SetDeadLetter
<1>4. ASSUME NEW d \in Nat, SetQueued(j, d) PROVE jobs' \in [Tenants -> ProvisioningJobRow]
  <2>1. clock + d \in Nat /\ jobs[j].retries + 1 \in Nat /\ "queued" \in JobStates
    BY <1>0 DEF TypeOK, ProvisioningJobRow, JobStates
  <2>2. [jobs[j] EXCEPT !.state = "queued", !.retries = jobs[j].retries + 1,
                        !.available_at = clock + d] \in ProvisioningJobRow
    BY <1>0, <2>1, JobRowUpdates
  <2> QED
    BY <1>4, <2>2 DEF TypeOK, SetQueued
<1> QED
  BY <1>1, <1>2, <1>3, <1>4

LEMMA JobWriteEffects ==
  ASSUME TypeOK, NEW j \in Tenants
  PROVE  /\ SetDone(j) => jobs'[j].state = "done" /\ jobs'[j].retries = jobs[j].retries
         /\ SetDeadLetter(j) =>
               jobs'[j].state = "dead_letter" /\ jobs'[j].retries = jobs[j].retries + 1
         /\ \A d : SetQueued(j, d) =>
               jobs'[j].state = "queued" /\ jobs'[j].retries = jobs[j].retries + 1
         /\ jobs' = [jobs EXCEPT ![j].state = "running"] =>
               jobs'[j].state = "running" /\ jobs'[j].retries = jobs[j].retries
<1>1. SetDone(j) => jobs'[j].state = "done" /\ jobs'[j].retries = jobs[j].retries
  BY DEF TypeOK, ProvisioningJobRow, SetDone
<1>2. SetDeadLetter(j) =>
        jobs'[j].state = "dead_letter" /\ jobs'[j].retries = jobs[j].retries + 1
  BY DEF TypeOK, ProvisioningJobRow, SetDeadLetter
<1>3. ASSUME NEW d, SetQueued(j, d)
      PROVE  jobs'[j].state = "queued" /\ jobs'[j].retries = jobs[j].retries + 1
  BY <1>3 DEF TypeOK, ProvisioningJobRow, SetQueued
<1>4. jobs' = [jobs EXCEPT ![j].state = "running"] =>
        jobs'[j].state = "running" /\ jobs'[j].retries = jobs[j].retries
  BY DEF TypeOK, ProvisioningJobRow
<1> QED
  BY <1>1, <1>2, <1>3, <1>4

LEMMA TenantWrites ==
  ASSUME TypeOK, NEW w \in Workers, worker[w].pc # "idle", WriteTenant(w)
  PROVE  tenants' \in [Tenants -> TenantRow]
<1>1. worker[w].loaded \in TenantRow /\ worker[w].tenant \in TenantRow
  BY DEF TypeOK
<1>2. Merge(tenants[worker[w].job], worker[w].loaded, worker[w].tenant) \in TenantRow
  BY <1>1, MergeType DEF TypeOK
<1> QED
  BY <1>2 DEF TypeOK, WriteTenant

LEMMA CreateTenantTypeOK ==
  ASSUME TypeOK, NEW t \in Tenants, CreateTenant(t)
  PROVE  TypeOK'
<1>1. ASSUME NEW plan \in Plans, CreateTenantSave(t, plan) PROVE TypeOK'
  BY <1>1, RowTypes DEF TypeOK, CreateTenantSave
<1>2. CASE CreateTenantEnqueue(t)
  BY <1>2, JobWrites DEF TypeOK, CreateTenantEnqueue
<1>3. CASE CreateTenantFails(t)
  BY <1>3 DEF TypeOK, CreateTenantFails
<1>4. CASE EnqueueOrphan(t)
  BY <1>4, JobWrites DEF TypeOK, EnqueueOrphan
<1> QED
  BY <1>1, <1>2, <1>3, <1>4 DEF CreateTenant

\* A worker that leaves process_next_job, or stays in it with its job.
LEMMA WorkerWrites ==
  ASSUME TypeOK, NEW w \in Workers,
         NEW s \in WorkerState, s.pc # "idle" => s.job \in Tenants,
         worker' = [worker EXCEPT ![w] = s]
  PROVE  /\ worker' \in [Workers -> WorkerState]
         /\ \A v \in Workers : worker'[v].pc # "idle" => worker'[v].job \in Tenants
  BY DEF TypeOK

LEMMA WorkerReturns ==
  ASSUME TypeOK, NEW w \in Workers, worker' = [worker EXCEPT ![w] = IdleWorker]
  PROVE  /\ worker' \in [Workers -> WorkerState]
         /\ \A v \in Workers : worker'[v].pc # "idle" => worker'[v].job \in Tenants
<1>1. IdleWorker.pc = "idle"
  BY DEF IdleWorker
<1> QED
  BY <1>1, IdleTypes, WorkerWrites

LEMMA WorkerMoves ==
  ASSUME TypeOK, NEW w \in Workers, worker[w].pc # "idle",
         NEW pc \in TryBlock \cup {"failing"},
         worker' = [worker EXCEPT ![w].pc = pc]
  PROVE  /\ worker' \in [Workers -> WorkerState]
         /\ \A v \in Workers : worker'[v].pc # "idle" => worker'[v].job \in Tenants
<1>1. [worker[w] EXCEPT !.pc = pc] \in WorkerState
  BY DEF TypeOK
<1>2. [worker[w] EXCEPT !.pc = pc].job \in Tenants
  BY DEF TypeOK
<1>3. worker' = [worker EXCEPT ![w] = [worker[w] EXCEPT !.pc = pc]]
  BY DEF TypeOK
<1> QED
  BY <1>1, <1>2, <1>3, WorkerWrites

LEMMA ProcessNextJobTypeOK ==
  ASSUME TypeOK, NEW w \in Workers, ProcessNextJob(w)
  PROVE  TypeOK'
<1>1. CASE ClaimSelect(w)
  <2>1. PICK j \in Claimable :
           worker' = [worker EXCEPT ![w] = [@ EXCEPT !.pc = "claiming", !.job = j,
                                                     !.retries = jobs[j].retries]]
    BY <1>1 DEF ClaimSelect
  <2>2. j \in Tenants /\ jobs[j].retries \in Nat
    BY DEF TypeOK, Claimable, ProvisioningJobRow
  <2> DEFINE s == [worker[w] EXCEPT !.pc = "claiming", !.job = j, !.retries = jobs[j].retries]
  <2>3. s \in WorkerState /\ s.job \in Tenants
    BY ZenonT(60), <2>2 DEF TypeOK
  <2>4. worker' = [worker EXCEPT ![w] = s]
    BY <2>1
  <2> HIDE DEF s
  <2>5. /\ worker' \in [Workers -> WorkerState]
        /\ \A v \in Workers : worker'[v].pc # "idle" => worker'[v].job \in Tenants
    BY <2>3, <2>4, WorkerWrites
  <2> QED
    BY <1>1, <2>5 DEF TypeOK, ClaimSelect
<1>2. CASE ClaimCommit(w)
  <2>1. jobs' \in [Tenants -> ProvisioningJobRow]
    BY <1>2 DEF TypeOK, ClaimCommit, ProvisioningJobRow, JobStates
  <2> QED
    BY <1>2, <2>1, WorkerMoves DEF TypeOK, ClaimCommit
<1>3. CASE GetTenant(w)
  <2> DEFINE row == tenants[worker[w].job]
             next == CASE row.status = "absent" -> "not_found"
                       [] row.status = "pending" -> "activating"
                       [] OTHER -> "finishing"
             copy == IF row.status = "pending" THEN [row EXCEPT !.status = "active"] ELSE row
  <2>1. row \in TenantRow
    BY <1>3 DEF TypeOK, GetTenant
  <2>2. next \in TryBlock /\ copy \in TenantRow
    BY <2>1, RowTypes
  <2>3. worker' = [worker EXCEPT ![w] = [@ EXCEPT !.pc = next, !.tenant = copy]]
    BY <1>3 DEF GetTenant
  <2> HIDE DEF next, copy
  <2> DEFINE s == [worker[w] EXCEPT !.pc = next, !.tenant = copy]
  <2>4. s \in WorkerState /\ s.job \in Tenants
    BY <1>3, <2>2 DEF TypeOK, GetTenant
  <2>5. worker' = [worker EXCEPT ![w] = s]
    BY <2>3
  <2> HIDE DEF s
  <2>6. /\ worker' \in [Workers -> WorkerState]
        /\ \A v \in Workers : worker'[v].pc # "idle" => worker'[v].job \in Tenants
    BY <2>4, <2>5, WorkerWrites
  <2> QED
    BY <1>3, <2>6 DEF TypeOK, GetTenant
<1>4. CASE UpsertLoad(w)
  <2>1. tenants[worker[w].job] \in TenantRow
    BY <1>4 DEF TypeOK, UpsertLoad
  <2> DEFINE s == [worker[w] EXCEPT !.pc = "upserting", !.loaded = tenants[worker[w].job]]
  <2>2. s \in WorkerState /\ s.job \in Tenants
    BY <1>4, <2>1 DEF TypeOK, UpsertLoad
  <2>3. worker' = [worker EXCEPT ![w] = s]
    BY <1>4 DEF UpsertLoad
  <2> HIDE DEF s
  <2>4. /\ worker' \in [Workers -> WorkerState]
        /\ \A v \in Workers : worker'[v].pc # "idle" => worker'[v].job \in Tenants
    BY <2>2, <2>3, WorkerWrites
  <2> QED
    BY <1>4, <2>4 DEF TypeOK, UpsertLoad
<1>5. CASE UpsertCommit(w)
  BY <1>5, TenantWrites, WorkerMoves DEF TypeOK, UpsertCommit
<1>6. CASE MarkDone(w)
  BY <1>6, JobWrites, WorkerReturns DEF TypeOK, MarkDone
<1>7. CASE MarkNotFound(w)
  BY <1>7, JobWrites, WorkerReturns DEF TypeOK, MarkNotFound
<1>8. CASE Raise(w)
  BY <1>8, WorkerMoves DEF TypeOK, Raise
<1>9. CASE RaiseAfterCommit(w)
  <2>1. jobs' \in [Tenants -> ProvisioningJobRow]
    BY <1>9, JobWrites DEF TypeOK, RaiseAfterCommit
  <2>2. tenants' \in [Tenants -> TenantRow]
    BY <1>9, TenantWrites DEF TypeOK, RaiseAfterCommit
  <2> QED
    BY <1>9, <2>1, <2>2, WorkerMoves DEF TypeOK, RaiseAfterCommit
<1>10. CASE MarkRetry(w)
  <2>1. RetryDelay(worker[w].retries) \in Nat
    BY <1>10, DelayType DEF TypeOK, MarkRetry
  <2> QED
    BY <1>10, <2>1, JobWrites, WorkerReturns DEF TypeOK, MarkRetry
<1>11. CASE MarkDeadLetter(w)
  BY <1>11, JobWrites, WorkerReturns DEF TypeOK, MarkDeadLetter
<1> QED
  BY <1>1, <1>2, <1>3, <1>4, <1>5, <1>6, <1>7, <1>8, <1>9, <1>10, <1>11
  DEF ProcessNextJob

LEMMA UpdateTenantPlanTypeOK ==
  ASSUME TypeOK, NEW a \in Admins, UpdateTenantPlan(a)
  PROVE  TypeOK'
<1>1. ASSUME NEW t \in Tenants, NEW plan \in Plans, PatchGetTenant(a, t, plan)
      PROVE  TypeOK'
  <2>1. [tenants[t] EXCEPT !.plan = plan] \in TenantRow
    BY RowTypes DEF TypeOK
  <2>2. patch' \in [Admins -> PatchState]
    BY ZenonT(60), <1>1, <2>1 DEF TypeOK, PatchGetTenant
  <2> QED
    BY <1>1, <2>2 DEF TypeOK, PatchGetTenant
<1>2. CASE PatchLoad(a)
  <2>1. tenants[patch[a].tenant_id] \in TenantRow
    BY <1>2 DEF TypeOK, PatchLoad
  <2>2. patch' \in [Admins -> PatchState]
    BY ZenonT(60), <1>2, <2>1 DEF TypeOK, PatchLoad
  <2> QED
    BY <1>2, <2>2 DEF TypeOK, PatchLoad
<1>3. ASSUME patch' = [patch EXCEPT ![a] = IdlePatch]
      PROVE  /\ patch' \in [Admins -> PatchState]
             /\ \A b \in Admins : patch'[b].pc # "idle" => patch'[b].tenant_id \in Tenants
  <2>1. IdlePatch.pc = "idle"
    BY DEF IdlePatch
  <2> QED
    BY <1>3, <2>1, IdleTypes DEF TypeOK
<1>4. CASE PatchCommit(a)
  <2>1. Merge(tenants[patch[a].tenant_id], patch[a].loaded, patch[a].tenant) \in TenantRow
    BY <1>4, MergeType DEF TypeOK, PatchCommit
  <2>2. tenants' \in [Tenants -> TenantRow]
    BY <1>4, <2>1 DEF TypeOK, PatchCommit
  <2> QED
    BY <1>3, <1>4, <2>2 DEF TypeOK, PatchCommit
<1>5. CASE PatchFails(a)
  BY <1>3, <1>5 DEF TypeOK, PatchFails
<1> QED
  BY <1>1, <1>2, <1>4, <1>5 DEF UpdateTenantPlan

\* The tables, the locals of every request and the counters keep their types.
THEOREM TypeCorrect == Spec => []TypeOK
<1>1. TypeOK /\ [Next]_vars => TypeOK'
  <2> SUFFICES ASSUME TypeOK, [Next]_vars PROVE TypeOK'
    OBVIOUS
  <2>1. ASSUME NEW t \in Tenants, CreateTenant(t) PROVE TypeOK'
    BY <2>1, CreateTenantTypeOK
  <2>2. ASSUME NEW w \in Workers, ProcessNextJob(w) PROVE TypeOK'
    BY <2>2, ProcessNextJobTypeOK
  <2>3. ASSUME NEW w \in Workers, Crash(w) PROVE TypeOK'
    <3>1. crashes' \in 0..MaxCrashes
      BY <2>3, NumbersAssumption DEF TypeOK, Crash
    <3> QED
      BY <2>3, <3>1, WorkerReturns DEF TypeOK, Crash
  <2>4. ASSUME NEW a \in Admins, UpdateTenantPlan(a) PROVE TypeOK'
    BY <2>4, UpdateTenantPlanTypeOK
  <2>5. CASE Tick
    BY <2>5 DEF TypeOK, Tick
  <2>6. CASE UNCHANGED vars
    BY <2>6 DEF TypeOK, vars
  <2> QED
    BY <2>1, <2>2, <2>3, <2>4, <2>5, <2>6 DEF Next, Poll
<1> QED
  BY InitTypeOK, <1>1, PTL DEF Spec

-----------------------------------------------------------------------------
(* A job has one holder.                                                   *)

\* What the state of a job says about the worker that holds it: the row lock
\* is held on a queued job, and from the COMMIT of claim_next to the write that
\* settles it a held job is not queued, so no other SELECT finds it.
Lease ==
    \A w \in Workers :
        /\ worker[w].pc = "claiming" => jobs[worker[w].job].state = "queued"
        /\ worker[w].pc \in TryBlock => jobs[worker[w].job].state = "running"
        /\ worker[w].pc = "failing" =>
              IF LostCommitAcks
              THEN jobs[worker[w].job].state \in {"running", "done", "dead_letter"}
              ELSE jobs[worker[w].job].state = "running"

LeaseInv == TypeOK /\ ExclusiveClaim /\ Lease

\* A step of process_next_job touches its own worker and its own job only.
LEMMA StepIsLocal ==
  ASSUME TypeOK, NEW w \in Workers, ProcessNextJob(w) \/ Crash(w)
  PROVE  /\ \A v \in Workers : v # w => worker'[v] = worker[v]
         /\ \A k \in Tenants : k # worker[w].job => jobs'[k] = jobs[k]
<1>1. CASE ClaimSelect(w)
  BY <1>1 DEF TypeOK, ClaimSelect
<1>2. CASE ClaimCommit(w)
  BY <1>2 DEF TypeOK, ClaimCommit
<1>3. CASE GetTenant(w)
  <2>1. \A v \in Workers : v # w => worker'[v] = worker[v]
    <3>1. PICK s : worker' = [worker EXCEPT ![w] = s]
      BY <1>3 DEF GetTenant
    <3> QED
      BY <3>1 DEF TypeOK
  <2> QED
    BY <1>3, <2>1 DEF GetTenant
<1>4. CASE UpsertLoad(w)
  BY <1>4 DEF TypeOK, UpsertLoad
<1>5. CASE UpsertCommit(w)
  BY <1>5 DEF TypeOK, UpsertCommit
<1>6. CASE MarkDone(w)
  BY <1>6 DEF TypeOK, MarkDone, SetDone
<1>7. CASE MarkNotFound(w)
  BY <1>7 DEF TypeOK, MarkNotFound, SetDeadLetter
<1>8. CASE Raise(w)
  BY <1>8 DEF TypeOK, Raise
<1>9. CASE RaiseAfterCommit(w)
  BY <1>9 DEF TypeOK, RaiseAfterCommit, SetDone, SetDeadLetter
<1>10. CASE MarkRetry(w)
  BY <1>10 DEF TypeOK, MarkRetry, SetQueued
<1>11. CASE MarkDeadLetter(w)
  BY <1>11 DEF TypeOK, MarkDeadLetter, SetDeadLetter
<1>12. CASE Crash(w)
  BY <1>12 DEF TypeOK, Crash
<1> QED
  BY <1>1, <1>2, <1>3, <1>4, <1>5, <1>6, <1>7, <1>8, <1>9, <1>10, <1>11, <1>12
  DEF ProcessNextJob

\* What a step of process_next_job does to the worker that takes it.
LEMMA HolderStep ==
  ASSUME LeaseInv, NEW w \in Workers, ProcessNextJob(w) \/ Crash(w)
  PROVE  \/ worker[w].pc # "idle" /\ worker'[w].pc = "idle"
         \/ /\ worker[w].pc = "idle"
            /\ worker'[w].pc = "claiming"
            /\ worker'[w].job \in Claimable
            /\ jobs' = jobs
         \/ /\ worker[w].pc # "idle"
            /\ worker'[w].pc \in TryBlock \cup {"failing"}
            /\ worker'[w].job = worker[w].job
            /\ worker'[w].pc \in TryBlock => jobs'[worker[w].job].state = "running"
            /\ worker'[w].pc = "failing" =>
                  IF LostCommitAcks
                  THEN jobs'[worker[w].job].state \in {"running", "done", "dead_letter"}
                  ELSE jobs'[worker[w].job].state = "running"
<1> USE DEF LeaseInv
<1>1. CASE ClaimSelect(w)
  BY <1>1 DEF TypeOK, ClaimSelect
<1>2. CASE ClaimCommit(w)
  BY <1>2 DEF TypeOK, ClaimCommit, ProvisioningJobRow
<1>3. CASE GetTenant(w)
  <2>1. PICK pc \in TryBlock : \E copy :
            worker' = [worker EXCEPT ![w] = [@ EXCEPT !.pc = pc, !.tenant = copy]]
    BY <1>3 DEF GetTenant
  <2>2. worker'[w].pc = pc /\ worker'[w].job = worker[w].job
    BY <2>1 DEF TypeOK
  <2> QED
    BY <1>3, <2>2 DEF GetTenant, Lease
<1>4. CASE UpsertLoad(w)
  BY <1>4 DEF TypeOK, UpsertLoad, Lease
<1>5. CASE UpsertCommit(w)
  BY <1>5 DEF TypeOK, UpsertCommit, Lease
<1>6. CASE MarkDone(w) \/ MarkNotFound(w) \/ MarkRetry(w) \/ MarkDeadLetter(w) \/ Crash(w)
  <2>1. worker' = [worker EXCEPT ![w] = IdleWorker]
    BY <1>6 DEF MarkDone, MarkNotFound, MarkRetry, MarkDeadLetter, Crash
  <2>2. worker[w].pc # "idle"
    BY <1>6 DEF MarkDone, MarkNotFound, MarkRetry, MarkDeadLetter, Crash
  <2> QED
    BY <2>1, <2>2 DEF TypeOK, IdleWorker
<1>7. CASE Raise(w)
  BY <1>7 DEF TypeOK, Raise, Lease
<1>8. CASE RaiseAfterCommit(w)
  <2>1. jobs'[worker[w].job].state \in {"running", "done", "dead_letter"}
    <3>1. worker[w].job \in Tenants /\ jobs[worker[w].job].state = "running"
      BY <1>8 DEF TypeOK, RaiseAfterCommit, Lease
    <3>2. \/ jobs' = jobs
          \/ SetDone(worker[w].job)
          \/ SetDeadLetter(worker[w].job)
      BY <1>8 DEF RaiseAfterCommit
    <3>3. SetDone(worker[w].job) => jobs'[worker[w].job].state = "done"
      BY <3>1 DEF SetDone, TypeOK, ProvisioningJobRow
    <3>4. SetDeadLetter(worker[w].job) => jobs'[worker[w].job].state = "dead_letter"
      BY <3>1 DEF SetDeadLetter, TypeOK, ProvisioningJobRow
    <3> QED
      BY <3>1, <3>2, <3>3, <3>4
  <2> QED
    BY <1>8, <2>1 DEF TypeOK, RaiseAfterCommit
<1> QED
  BY <1>1, <1>2, <1>3, <1>4, <1>5, <1>6, <1>7, <1>8 DEF ProcessNextJob

LEMMA ProcessNextJobLease ==
  ASSUME LeaseInv, NEW w \in Workers, ProcessNextJob(w) \/ Crash(w)
  PROVE  (ExclusiveClaim /\ Lease)'
<1> USE DEF LeaseInv
<1>1. /\ \A v \in Workers : v # w => worker'[v] = worker[v]
      /\ \A k \in Tenants : k # worker[w].job => jobs'[k] = jobs[k]
  BY StepIsLocal
<1>0. ASSUME worker[w].pc # "idle", NEW v \in Workers, v # w, worker[v].pc # "idle"
      PROVE  jobs'[worker[v].job] = jobs[worker[v].job]
  <2>1. worker[v].job \in Tenants /\ worker[v].job # worker[w].job
    BY <1>0 DEF ExclusiveClaim, InFlight, TypeOK
  <2> QED
    BY <1>1, <2>1
<1>2. CASE worker[w].pc # "idle" /\ worker'[w].pc = "idle"
  <2>1. ExclusiveClaim'
    BY <1>1, <1>2 DEF ExclusiveClaim, InFlight
  <2>2. Lease'
    BY <1>0, <1>1, <1>2 DEF Lease
  <2> QED
    BY <2>1, <2>2
<1>3. CASE /\ worker[w].pc = "idle"
           /\ worker'[w].pc = "claiming"
           /\ worker'[w].job \in Claimable
           /\ jobs' = jobs
  <2>1. \A v \in Workers : v # w => ~InFlight(v, worker'[w].job)
    BY <1>3 DEF Claimable, Due, Unlocked, Lease, InFlight, TypeOK
  <2>2. ExclusiveClaim'
    BY <1>1, <1>3, <2>1 DEF ExclusiveClaim, InFlight
  <2>3. Lease'
    BY <1>1, <1>3 DEF Lease, Claimable, Due
  <2> QED
    BY <2>2, <2>3
<1>4. CASE /\ worker[w].pc # "idle"
           /\ worker'[w].pc \in TryBlock \cup {"failing"}
           /\ worker'[w].job = worker[w].job
           /\ worker'[w].pc \in TryBlock => jobs'[worker[w].job].state = "running"
           /\ worker'[w].pc = "failing" =>
                 IF LostCommitAcks
                 THEN jobs'[worker[w].job].state \in {"running", "done", "dead_letter"}
                 ELSE jobs'[worker[w].job].state = "running"
  <2>1. ExclusiveClaim'
    BY <1>1, <1>4 DEF ExclusiveClaim, InFlight
  <2>2. Lease'
    BY <1>0, <1>1, <1>4 DEF Lease
  <2> QED
    BY <2>1, <2>2
<1> QED
  BY <1>2, <1>3, <1>4, HolderStep

LEMMA CreateTenantLease ==
  ASSUME LeaseInv, NEW t \in Tenants, CreateTenant(t)
  PROVE  (ExclusiveClaim /\ Lease)'
<1>1. worker' = worker
  BY DEF CreateTenant, CreateTenantSave, CreateTenantEnqueue, CreateTenantFails, EnqueueOrphan
<1>2. \A k \in Tenants : jobs[k].state # "absent" => jobs'[k] = jobs[k]
  BY DEF CreateTenant, CreateTenantSave, CreateTenantEnqueue, CreateTenantFails, EnqueueOrphan,
         EnqueueJob, LeaseInv, TypeOK
<1>3. ExclusiveClaim'
  BY <1>1 DEF LeaseInv, ExclusiveClaim, InFlight
<1>4. ASSUME NEW w \in Workers, worker[w].pc # "idle"
      PROVE  jobs'[worker[w].job] = jobs[worker[w].job]
  <2>1. worker[w].job \in Tenants
    BY <1>4 DEF LeaseInv, TypeOK
  <2>2. jobs[worker[w].job].state # "absent"
    BY <1>4 DEF LeaseInv, Lease, TypeOK
  <2> QED
    BY <1>2, <2>1, <2>2
<1>5. Lease'
  BY <1>1, <1>4 DEF LeaseInv, Lease
<1> QED
  BY <1>3, <1>5

LEMMA LeaseInvariant == Spec => []LeaseInv
<1>1. Init => ExclusiveClaim /\ Lease
  BY DEF Init, ExclusiveClaim, Lease, InFlight, IdleWorker
<1>2. LeaseInv /\ TypeOK' /\ [Next]_vars => LeaseInv'
  <2> SUFFICES ASSUME LeaseInv, TypeOK', [Next]_vars PROVE (ExclusiveClaim /\ Lease)'
    BY DEF LeaseInv
  <2>1. ASSUME NEW t \in Tenants, CreateTenant(t) PROVE (ExclusiveClaim /\ Lease)'
    BY <2>1, CreateTenantLease
  <2>2. ASSUME NEW w \in Workers, ProcessNextJob(w) \/ Crash(w) PROVE (ExclusiveClaim /\ Lease)'
    BY <2>2, ProcessNextJobLease
  <2>3. CASE worker' = worker /\ jobs' = jobs
    BY <2>3 DEF LeaseInv, Lease, ExclusiveClaim, InFlight
  <2>4. ASSUME NEW a \in Admins, UpdateTenantPlan(a) PROVE worker' = worker /\ jobs' = jobs
    BY <2>4 DEF UpdateTenantPlan, PatchGetTenant, PatchLoad, PatchCommit, PatchFails
  <2>5. Tick \/ UNCHANGED vars => worker' = worker /\ jobs' = jobs
    BY DEF Tick, vars
  <2> QED
    BY <2>1, <2>2, <2>3, <2>4, <2>5 DEF Next, Poll
<1> QED
  BY <1>1, <1>2, TypeCorrect, InitTypeOK, PTL DEF Spec, LeaseInv

\* However many workers, tenants, exceptions, crashes and lost answers there
\* are, two workers never hold the same job.
THEOREM ClaimsAreExclusive == Spec => []ExclusiveClaim
  BY LeaseInvariant, PTL DEF LeaseInv

-----------------------------------------------------------------------------
(* A job that is done has an active tenant.                                *)

\* A tenant id that no request has used yet is in no table and in no request.
Fresh ==
    /\ \A t \in Tenants :
          creation[t] = "unused" => tenants[t].status = "absent" /\ jobs[t].state = "absent"
    /\ \A a \in Admins : patch[a].pc # "idle" => creation[patch[a].tenant_id] # "unused"

\* A worker writes the tenant row of its own job, in UpsertCommit or in an
\* UpsertCommit whose answer is lost, and no other.
LEMMA WorkerTenantWrites ==
  ASSUME TypeOK, NEW w \in Workers, ProcessNextJob(w) \/ Crash(w)
  PROVE  \/ tenants' = tenants
         \/ worker[w].pc = "upserting" /\ WriteTenant(w)
  BY DEF ProcessNextJob, ClaimSelect, ClaimCommit, GetTenant, UpsertLoad, UpsertCommit,
         MarkDone, MarkNotFound, Raise, RaiseAfterCommit, MarkRetry, MarkDeadLetter, Crash

LEMMA WorkerFrame ==
  ASSUME NEW w \in Workers, ProcessNextJob(w) \/ Crash(w)
  PROVE  patch' = patch /\ creation' = creation
  BY DEF ProcessNextJob, ClaimSelect, ClaimCommit, GetTenant, UpsertLoad, UpsertCommit,
         MarkDone, MarkNotFound, Raise, RaiseAfterCommit, MarkRetry, MarkDeadLetter, Crash

LEMMA WorkerFresh ==
  ASSUME LeaseInv, Fresh, NEW w \in Workers, ProcessNextJob(w) \/ Crash(w)
  PROVE  Fresh'
<1>1. patch' = patch /\ creation' = creation
  BY WorkerFrame
<1>2. ASSUME NEW t \in Tenants, creation[t] = "unused"
      PROVE  tenants'[t] = tenants[t] /\ jobs'[t] = jobs[t]
  <2>1. jobs[t].state = "absent"
    BY <1>2 DEF Fresh
  <2>2. worker[w].pc # "idle" => worker[w].job # t
    BY <2>1 DEF LeaseInv, Lease, TypeOK
  <2>3. tenants'[t] = tenants[t]
    BY <2>2, WorkerTenantWrites DEF WriteTenant, LeaseInv, TypeOK
  <2>4. jobs'[t] = jobs[t]
    <3>1. CASE worker[w].pc = "idle"
      BY <3>1 DEF ProcessNextJob, ClaimSelect, ClaimCommit, GetTenant, UpsertLoad, UpsertCommit,
                  MarkDone, MarkNotFound, Raise, RaiseAfterCommit, MarkRetry, MarkDeadLetter, Crash
    <3>2. CASE worker[w].pc # "idle"
      BY <3>2, <2>2, StepIsLocal DEF LeaseInv
    <3> QED
      BY <3>1, <3>2
  <2> QED
    BY <2>3, <2>4
<1> QED
  BY <1>1, <1>2 DEF Fresh

LEMMA CreateTenantFresh ==
  ASSUME TypeOK, Fresh, NEW t \in Tenants, CreateTenant(t)
  PROVE  Fresh'
<1>1. /\ patch' = patch
      /\ creation'[t] # "unused"
      /\ \A k \in Tenants : k # t => /\ creation'[k] = creation[k]
                                     /\ tenants'[k] = tenants[k]
                                     /\ jobs'[k] = jobs[k]
  BY DEF TypeOK, CreateTenant, CreateTenantSave, CreateTenantEnqueue, CreateTenantFails,
         EnqueueOrphan, EnqueueJob
<1>2. ASSUME NEW a \in Admins, patch[a].pc # "idle"
      PROVE  creation'[patch[a].tenant_id] # "unused"
  <2>1. patch[a].tenant_id \in Tenants /\ creation[patch[a].tenant_id] # "unused"
    BY <1>2 DEF Fresh, TypeOK
  <2> QED
    BY <1>1, <2>1
<1> QED
  BY <1>1, <1>2 DEF Fresh

LEMMA UpdateTenantPlanFresh ==
  ASSUME TypeOK, Fresh, NEW a \in Admins, UpdateTenantPlan(a)
  PROVE  Fresh'
<1>0. creation' = creation /\ jobs' = jobs
  BY DEF UpdateTenantPlan, PatchGetTenant, PatchLoad, PatchCommit, PatchFails
<1>1. ASSUME NEW t \in Tenants, NEW plan \in Plans, PatchGetTenant(a, t, plan)
      PROVE  Fresh'
  BY <1>0, <1>1 DEF PatchGetTenant, Fresh, TypeOK
<1>2. CASE PatchLoad(a)
  BY <1>0, <1>2 DEF PatchLoad, Fresh, TypeOK
<1>3. CASE PatchCommit(a)
  BY <1>0, <1>3 DEF PatchCommit, Fresh, TypeOK, IdlePatch
<1>4. CASE PatchFails(a)
  BY <1>0, <1>4 DEF PatchFails, Fresh, TypeOK, IdlePatch
<1> QED
  BY <1>1, <1>2, <1>3, <1>4 DEF UpdateTenantPlan

LEMMA FreshInvariant == Spec => []Fresh
<1>1. Init => Fresh
  <2> SUFFICES ASSUME Init PROVE Fresh
    OBVIOUS
  <2>1. \A t \in Tenants : tenants[t].status = "absent" /\ jobs[t].state = "absent"
    BY DEF Init, NoTenantRow, NoJobRow
  <2>2. \A a \in Admins : patch[a].pc = "idle"
    BY DEF Init, IdlePatch
  <2> QED
    BY <2>1, <2>2 DEF Fresh
<1>2. Fresh /\ LeaseInv /\ [Next]_vars => Fresh'
  <2> SUFFICES ASSUME Fresh, LeaseInv, [Next]_vars PROVE Fresh'
    OBVIOUS
  <2>0. TypeOK
    BY DEF LeaseInv
  <2>1. CASE UNCHANGED <<tenants, jobs, patch, creation>>
    BY <2>1 DEF Fresh
  <2>2. Tick \/ UNCHANGED vars => UNCHANGED <<tenants, jobs, patch, creation>>
    BY DEF Tick, vars
  <2> QED
    BY <2>0, <2>1, <2>2, WorkerFresh, CreateTenantFresh, UpdateTenantPlanFresh DEF Next, Poll
<1> QED
  BY <1>1, <1>2, LeaseInvariant, PTL DEF Spec

\* What a worker knows of its tenant: its copy is active from get_tenant to
\* COMMIT, a row it saw active is still active, and it is active once
\* mark_done is the next call.
Activation ==
    \A w \in Workers :
        /\ worker[w].pc \in {"activating", "upserting"} => worker[w].tenant.status = "active"
        /\ worker[w].pc = "upserting" /\ worker[w].loaded.status = "active" =>
              tenants[worker[w].job].status = "active"
        /\ worker[w].pc = "finishing" => tenants[worker[w].job].status = "active"

ActiveInv == Activation /\ DoneMeansActive

LEMMA WriteActivates ==
  ASSUME TypeOK, Activation, NEW w \in Workers, worker[w].pc = "upserting", WriteTenant(w)
  PROVE  /\ tenants'[worker[w].job].status = "active"
         /\ \A t \in Tenants : t # worker[w].job => tenants'[t] = tenants[t]
<1>1. /\ worker[w].job \in Tenants
      /\ worker[w].tenant.status = "active"
      /\ worker[w].loaded.status = "active" => tenants[worker[w].job].status = "active"
  BY DEF TypeOK, Activation
<1>2. Merge(tenants[worker[w].job], worker[w].loaded, worker[w].tenant).status = "active"
  BY <1>1 DEF Merge
<1> QED
  BY <1>1, <1>2 DEF WriteTenant, TypeOK

\* Without PATCH requests an active tenant stays active.
LEMMA WorkerKeepsActive ==
  ASSUME TypeOK, Activation, NEW w \in Workers, ProcessNextJob(w) \/ Crash(w),
         NEW t \in Tenants, tenants[t].status = "active"
  PROVE  tenants'[t].status = "active"
  BY WriteActivates, WorkerTenantWrites

LEMMA WorkerActive ==
  ASSUME LeaseInv, ActiveInv, NEW w \in Workers, ProcessNextJob(w) \/ Crash(w)
  PROVE  ActiveInv'
<1>0. TypeOK /\ Activation /\ DoneMeansActive
  BY DEF LeaseInv, ActiveInv
<1>1. \A t \in Tenants : tenants[t].status = "active" => tenants'[t].status = "active"
  BY <1>0, WorkerKeepsActive
<1>2. \A v \in Workers : v # w => worker'[v] = worker[v]
  BY <1>0, StepIsLocal
<1>3. /\ worker'[w].pc \in {"activating", "upserting"} => worker'[w].tenant.status = "active"
      /\ worker'[w].pc = "upserting" /\ worker'[w].loaded.status = "active" =>
            tenants'[worker'[w].job].status = "active"
      /\ worker'[w].pc = "finishing" => tenants'[worker'[w].job].status = "active"
  <2>1. CASE ClaimSelect(w)
    BY <2>1, <1>0 DEF ClaimSelect, TypeOK
  <2>2. CASE ClaimCommit(w)
    BY <2>2, <1>0 DEF ClaimCommit, TypeOK
  <2>3. CASE GetTenant(w)
    <3> DEFINE row == tenants[worker[w].job]
               next == CASE row.status = "absent" -> "not_found"
                         [] row.status = "pending" -> "activating"
                         [] OTHER -> "finishing"
               copy == IF row.status = "pending" THEN [row EXCEPT !.status = "active"] ELSE row
    <3>1. worker' = [worker EXCEPT ![w] = [@ EXCEPT !.pc = next, !.tenant = copy]]
      BY <2>3 DEF GetTenant
    <3>2. row \in TenantRow
      BY <1>0, <2>3 DEF TypeOK, GetTenant
    <3>3. /\ next = "finishing" => row.status = "active"
          /\ next = "activating" => copy.status = "active"
          /\ next # "upserting"
      BY <3>2 DEF TenantRow
    <3> HIDE DEF next, copy
    <3>4. /\ worker'[w].pc = next
          /\ worker'[w].tenant = copy
          /\ worker'[w].job = worker[w].job
      BY <1>0, <3>1 DEF TypeOK
    <3> QED
      BY <2>3, <3>3, <3>4 DEF GetTenant
  <2>4. CASE UpsertLoad(w)
    BY <2>4, <1>0 DEF UpsertLoad, TypeOK, Activation
  <2>5. CASE UpsertCommit(w)
    BY <2>5, <1>0, WriteActivates DEF UpsertCommit, TypeOK
  <2>6. CASE Raise(w)
    BY <2>6, <1>0 DEF Raise, TypeOK
  <2>7. CASE RaiseAfterCommit(w)
    BY <2>7, <1>0 DEF RaiseAfterCommit, TypeOK
  <2>8. CASE worker' = [worker EXCEPT ![w] = IdleWorker]
    BY <2>8, <1>0 DEF IdleWorker, TypeOK
  <2> QED
    BY <2>1, <2>2, <2>3, <2>4, <2>5, <2>6, <2>7, <2>8
    DEF ProcessNextJob, MarkDone, MarkNotFound, MarkRetry, MarkDeadLetter, Crash
<1>4. Activation'
  <2> SUFFICES ASSUME NEW v \in Workers, v # w, worker[v].pc # "idle"
               PROVE  worker[v].job \in Tenants
    BY <1>1, <1>2, <1>3 DEF Activation, ActiveInv
  <2> QED
    BY <1>0 DEF TypeOK
<1>5. ASSUME NEW t \in Tenants, jobs'[t].state = "done", jobs[t].state # "done"
      PROVE  tenants[t].status = "active"
  <2>1. t = worker[w].job
    BY <1>0, <1>5, StepIsLocal
  <2>2. jobs' # jobs
    BY <1>5
  <2>3. worker[w].pc = "finishing"
    BY <1>0, <1>5, <2>1, <2>2, JobWriteEffects
    DEF ProcessNextJob, ClaimSelect, ClaimCommit, GetTenant, UpsertLoad, UpsertCommit,
        MarkDone, MarkNotFound, Raise, RaiseAfterCommit, MarkRetry, MarkDeadLetter, Crash
  <2> QED
    BY <2>1, <2>3, <1>0 DEF Activation
<1>6. DoneMeansActive'
  BY <1>0, <1>1, <1>5 DEF DoneMeansActive
<1> QED
  BY <1>4, <1>6 DEF ActiveInv

LEMMA CreateTenantActive ==
  ASSUME TypeOK, Fresh, ActiveInv, NEW t \in Tenants, CreateTenant(t)
  PROVE  ActiveInv'
<1>1. worker' = worker
  BY DEF CreateTenant, CreateTenantSave, CreateTenantEnqueue, CreateTenantFails, EnqueueOrphan
<1>2. \A k \in Tenants : tenants[k].status = "active" => tenants'[k] = tenants[k]
  BY DEF CreateTenant, CreateTenantSave, CreateTenantEnqueue, CreateTenantFails, EnqueueOrphan,
         Fresh, TypeOK
<1>3. \A k \in Tenants : jobs'[k].state = "done" => jobs[k].state = "done"
  BY DEF CreateTenant, CreateTenantSave, CreateTenantEnqueue, CreateTenantFails, EnqueueOrphan,
         EnqueueJob, TypeOK
<1>4. Activation'
  BY <1>1, <1>2 DEF ActiveInv, Activation, TypeOK
<1> QED
  BY <1>2, <1>3, <1>4 DEF ActiveInv, DoneMeansActive

\* Where no PATCH .../plan request is served, a job that is done has an active
\* tenant, however attempts, exceptions, crashes and lost answers interleave.
THEOREM DoneTenantsAreActive ==
  ASSUME Admins = {}
  PROVE  Spec => []DoneMeansActive
<1>1. Init => ActiveInv
  BY DEF Init, ActiveInv, Activation, DoneMeansActive, IdleWorker, NoJobRow
<1>2. ActiveInv /\ LeaseInv /\ Fresh /\ [Next]_vars => ActiveInv'
  <2> SUFFICES ASSUME ActiveInv, LeaseInv, Fresh, [Next]_vars PROVE ActiveInv'
    OBVIOUS
  <2>0. TypeOK
    BY DEF LeaseInv
  <2>1. CASE UNCHANGED <<tenants, jobs, worker>>
    BY <2>1 DEF ActiveInv, Activation, DoneMeansActive
  <2>2. Tick \/ UNCHANGED vars => UNCHANGED <<tenants, jobs, worker>>
    BY DEF Tick, vars
  <2> QED
    BY <2>0, <2>1, <2>2, WorkerActive, CreateTenantActive DEF Next, Poll
<1> QED
  BY <1>1, <1>2, LeaseInvariant, FreshInvariant, PTL DEF Spec, ActiveInv

-----------------------------------------------------------------------------
(* The retry budget.                                                       *)

\* The count that process_next_job decides by is the one in the row.
Counted ==
    \A w \in Workers :
        worker[w].pc # "idle" => worker[w].retries = jobs[worker[w].job].retries

BudgetInv == Counted /\ RetryBudget

LEMMA HolderCounts ==
  ASSUME LeaseInv, Counted, ~LostCommitAcks, NEW w \in Workers,
         ProcessNextJob(w) \/ Crash(w), worker'[w].pc # "idle"
  PROVE  worker'[w].retries = jobs'[worker'[w].job].retries
<1> USE DEF LeaseInv
<1>1. CASE ClaimSelect(w)
  BY <1>1 DEF ClaimSelect, TypeOK
<1>2. CASE ClaimCommit(w)
  <2>1. jobs'[worker[w].job].retries = jobs[worker[w].job].retries
    BY <1>2, JobWriteEffects DEF ClaimCommit, TypeOK
  <2> QED
    BY <1>2, <2>1 DEF ClaimCommit, TypeOK, Counted
<1>3. CASE GetTenant(w)
  <2>1. PICK pc, copy :
            worker' = [worker EXCEPT ![w] = [@ EXCEPT !.pc = pc, !.tenant = copy]]
    BY <1>3 DEF GetTenant
  <2>2. worker'[w].retries = worker[w].retries /\ worker'[w].job = worker[w].job
    BY <2>1 DEF TypeOK
  <2> QED
    BY <1>3, <2>2 DEF GetTenant, Counted
<1>4. CASE UpsertLoad(w)
  BY <1>4 DEF UpsertLoad, TypeOK, Counted
<1>5. CASE UpsertCommit(w)
  BY <1>5 DEF UpsertCommit, TypeOK, Counted
<1>6. CASE Raise(w)
  BY <1>6 DEF Raise, TypeOK, Counted
<1>7. CASE worker' = [worker EXCEPT ![w] = IdleWorker]
  BY <1>7 DEF IdleWorker, TypeOK
<1> QED
  BY <1>1, <1>2, <1>3, <1>4, <1>5, <1>6, <1>7
  DEF ProcessNextJob, MarkDone, MarkNotFound, RaiseAfterCommit, MarkRetry, MarkDeadLetter, Crash

LEMMA WorkerBudget ==
  ASSUME LeaseInv, BudgetInv, ~LostCommitAcks, NEW w \in Workers, ProcessNextJob(w) \/ Crash(w)
  PROVE  BudgetInv'
<1>0. TypeOK /\ Lease /\ ExclusiveClaim /\ Counted /\ RetryBudget
  BY DEF LeaseInv, BudgetInv
<1>1. CASE worker[w].pc = "idle"
  <2>1. jobs' = jobs
    BY <1>1 DEF ProcessNextJob, ClaimSelect, ClaimCommit, GetTenant, UpsertLoad, UpsertCommit,
                MarkDone, MarkNotFound, Raise, RaiseAfterCommit, MarkRetry, MarkDeadLetter, Crash
  <2> QED
    BY <1>0, <2>1, HolderCounts, StepIsLocal DEF BudgetInv, Counted, RetryBudget
<1>2. CASE worker[w].pc # "idle"
  <2> DEFINE j == worker[w].job
  <2>1. j \in Tenants
    BY <1>0, <1>2 DEF TypeOK
  <2>2. Counted'
    <3>1. ASSUME NEW v \in Workers, v # w, worker[v].pc # "idle"
          PROVE  jobs'[worker[v].job] = jobs[worker[v].job]
      <4>1. worker[v].job \in Tenants /\ worker[v].job # j
        BY <1>0, <1>2, <3>1 DEF ExclusiveClaim, InFlight, TypeOK
      <4> QED
        BY <1>0, <4>1, StepIsLocal
    <3> QED
      BY <1>0, <3>1, HolderCounts, StepIsLocal DEF Counted
  <2>3. /\ jobs[j].state \in {"queued", "running"}
        /\ jobs[j].retries \in Nat
        /\ jobs[j].retries < MaxAttempts
        /\ worker[w].retries = jobs[j].retries
    BY <1>0, <1>2, <2>1 DEF Lease, TypeOK, RetryBudget, Counted, ProvisioningJobRow
  <2>4. /\ jobs'[j].state \in {"queued", "running"} => jobs'[j].retries < MaxAttempts
        /\ jobs'[j].retries <= MaxAttempts
    <3>1. CASE jobs' = jobs
      BY <3>1, <2>3, MaxAttemptsType
    <3>2. CASE ClaimCommit(w)
      BY <3>2, <2>1, <2>3, <1>0, JobWriteEffects, MaxAttemptsType DEF ClaimCommit
    <3>3. CASE MarkDone(w)
      BY <3>3, <2>1, <2>3, <1>0, JobWriteEffects, MaxAttemptsType DEF MarkDone
    <3>4. CASE MarkNotFound(w)
      BY <3>4, <2>1, <2>3, <1>0, JobWriteEffects, MaxAttemptsType DEF MarkNotFound
    <3>5. CASE MarkRetry(w)
      BY <3>5, <2>1, <2>3, <1>0, JobWriteEffects, MaxAttemptsType DEF MarkRetry, Exhausted
    <3>6. CASE MarkDeadLetter(w)
      BY <3>6, <2>1, <2>3, <1>0, JobWriteEffects, MaxAttemptsType DEF MarkDeadLetter
    <3> QED
      BY <3>1, <3>2, <3>3, <3>4, <3>5, <3>6
      DEF ProcessNextJob, ClaimSelect, GetTenant, UpsertLoad, UpsertCommit, Raise,
          RaiseAfterCommit, Crash
  <2>5. RetryBudget'
    BY <1>0, <2>4, StepIsLocal DEF RetryBudget
  <2> QED
    BY <2>2, <2>5 DEF BudgetInv
<1> QED
  BY <1>1, <1>2

LEMMA CreateTenantBudget ==
  ASSUME LeaseInv, BudgetInv, NEW t \in Tenants, CreateTenant(t)
  PROVE  BudgetInv'
<1>1. worker' = worker
  BY DEF CreateTenant, CreateTenantSave, CreateTenantEnqueue, CreateTenantFails, EnqueueOrphan
<1>2. \A k \in Tenants : \/ jobs'[k] = jobs[k]
                         \/ jobs[k].state = "absent" /\ jobs'[k].retries = 0
  BY DEF CreateTenant, CreateTenantSave, CreateTenantEnqueue, CreateTenantFails, EnqueueOrphan,
         EnqueueJob, LeaseInv, TypeOK
<1>3. ASSUME NEW w \in Workers, worker[w].pc # "idle"
      PROVE  jobs'[worker[w].job] = jobs[worker[w].job]
  <2>1. worker[w].job \in Tenants
    BY <1>3 DEF LeaseInv, TypeOK
  <2>2. jobs[worker[w].job].state # "absent"
    BY <1>3 DEF LeaseInv, Lease, TypeOK
  <2> QED
    BY <1>2, <2>1, <2>2
<1>4. Counted'
  BY <1>1, <1>3 DEF BudgetInv, Counted
<1>5. RetryBudget'
  BY <1>2, MaxAttemptsType DEF BudgetInv, RetryBudget
<1> QED
  BY <1>4, <1>5 DEF BudgetInv

LEMMA BudgetInvariant ==
  ASSUME ~LostCommitAcks
  PROVE  Spec => []BudgetInv
<1>1. Init => BudgetInv
  BY MaxAttemptsType DEF Init, BudgetInv, Counted, RetryBudget, IdleWorker, NoJobRow
<1>2. BudgetInv /\ LeaseInv /\ [Next]_vars => BudgetInv'
  <2> SUFFICES ASSUME BudgetInv, LeaseInv, [Next]_vars PROVE BudgetInv'
    OBVIOUS
  <2>1. CASE UNCHANGED <<jobs, worker>>
    BY <2>1 DEF BudgetInv, Counted, RetryBudget
  <2>2. ASSUME NEW a \in Admins, UpdateTenantPlan(a) PROVE UNCHANGED <<jobs, worker>>
    BY <2>2 DEF UpdateTenantPlan, PatchGetTenant, PatchLoad, PatchCommit, PatchFails
  <2>3. Tick \/ UNCHANGED vars => UNCHANGED <<jobs, worker>>
    BY DEF Tick, vars
  <2> QED
    BY <2>1, <2>2, <2>3, WorkerBudget, CreateTenantBudget DEF Next, Poll
<1> QED
  BY <1>1, <1>2, LeaseInvariant, PTL DEF Spec

\* Where a commit that takes effect is always answered, retries counts the
\* failed attempts of a job and no job is attempted more than MaxAttempts times.
THEOREM RetriesStayInBudget ==
  ASSUME ~LostCommitAcks
  PROVE  Spec => []RetryBudget
<1>1. BudgetInv => RetryBudget
  BY DEF BudgetInv
<1> QED
  BY <1>1, BudgetInvariant, PTL

-----------------------------------------------------------------------------
(* The race with PATCH .../plan has a bounded window.                      *)

LEMMA ProvisionedStep ==
  ASSUME LeaseInv, Fresh, ~LostCommitAcks, [Next]_vars,
         NEW t \in Tenants, Provisioned(t)
  PROVE  Provisioned(t)'
<1>0. /\ TypeOK
      /\ jobs[t].state = "done"
      /\ tenants[t].status = "active"
      /\ \A a \in Admins : patch[a].pc # "idle" /\ patch[a].tenant_id = t
                              => patch[a].tenant.status = "active"
  BY DEF LeaseInv, Provisioned
<1>1. ASSUME NEW k \in Tenants, CreateTenant(k) PROVE Provisioned(t)'
  <2>1. tenants'[t] = tenants[t] /\ jobs'[t] = jobs[t] /\ patch' = patch
    BY <1>0, <1>1 DEF CreateTenant, CreateTenantSave, CreateTenantEnqueue, CreateTenantFails,
                      EnqueueOrphan, EnqueueJob, Fresh, TypeOK
  <2> QED
    BY <1>0, <2>1 DEF Provisioned
<1>2. ASSUME NEW w \in Workers, ProcessNextJob(w) \/ Crash(w) PROVE Provisioned(t)'
  <2>1. worker[w].pc # "idle" => worker[w].job # t
    BY <1>0 DEF LeaseInv, Lease, TypeOK
  <2>2. tenants'[t] = tenants[t]
    BY <1>0, <1>2, <2>1, WorkerTenantWrites DEF WriteTenant, TypeOK
  <2>3. jobs'[t] = jobs[t]
    <3>1. CASE worker[w].pc = "idle"
      BY <1>2, <3>1
      DEF ProcessNextJob, ClaimSelect, ClaimCommit, GetTenant, UpsertLoad, UpsertCommit,
          MarkDone, MarkNotFound, Raise, RaiseAfterCommit, MarkRetry, MarkDeadLetter, Crash
    <3>2. CASE worker[w].pc # "idle"
      BY <1>0, <1>2, <3>2, <2>1, StepIsLocal
    <3> QED
      BY <3>1, <3>2
  <2> QED
    BY <1>0, <1>2, <2>2, <2>3, WorkerFrame DEF Provisioned
<1>3. ASSUME NEW a \in Admins, UpdateTenantPlan(a) PROVE Provisioned(t)'
  <2>0. jobs' = jobs
    BY <1>3 DEF UpdateTenantPlan, PatchGetTenant, PatchLoad, PatchCommit, PatchFails
  <2>1. ASSUME NEW k \in Tenants, NEW plan \in Plans, PatchGetTenant(a, k, plan)
        PROVE  Provisioned(t)'
    <3>1. [tenants[t] EXCEPT !.plan = plan].status = "active"
      <4>1. tenants[t] \in TenantRow
        BY <1>0 DEF TypeOK
      <4> QED
        BY <1>0, <4>1 DEF TenantRow
    <3>2. \A b \in Admins : b # a => patch'[b] = patch[b]
      BY <1>0, <2>1 DEF PatchGetTenant, TypeOK
    <3>3. patch'[a].tenant_id = k /\ patch'[a].tenant = [tenants[k] EXCEPT !.plan = plan]
      BY <1>0, <2>1 DEF PatchGetTenant, TypeOK
    <3>4. tenants' = tenants
      BY <2>1 DEF PatchGetTenant
    <3> QED
      BY ZenonT(60), <1>0, <2>0, <3>1, <3>2, <3>3, <3>4 DEF Provisioned
  <2>2. CASE PatchLoad(a)
    BY <1>0, <2>0, <2>2 DEF PatchLoad, Provisioned, TypeOK
  <2>3. CASE PatchCommit(a)
    <3>1. tenants'[t].status = "active"
      <4>1. CASE patch[a].tenant_id = t
        <5>1. patch[a].tenant.status = "active"
          BY <1>0, <2>3, <4>1 DEF PatchCommit
        <5>2. Merge(tenants[t], patch[a].loaded, patch[a].tenant).status = "active"
          BY <1>0, <5>1 DEF Merge
        <5> QED
          BY <1>0, <2>3, <4>1, <5>2 DEF PatchCommit, TypeOK
      <4>2. CASE patch[a].tenant_id # t
        BY <1>0, <2>3, <4>2 DEF PatchCommit, TypeOK
      <4> QED
        BY <4>1, <4>2
    <3>2. /\ \A b \in Admins : b # a => patch'[b] = patch[b]
          /\ patch'[a].pc = "idle"
      BY <1>0, <2>3 DEF PatchCommit, TypeOK, IdlePatch
    <3> QED
      BY <1>0, <2>0, <3>1, <3>2 DEF Provisioned
  <2>4. CASE PatchFails(a)
    <3>1. /\ \A b \in Admins : b # a => patch'[b] = patch[b]
          /\ patch'[a].pc = "idle"
          /\ tenants' = tenants
      BY <1>0, <2>4 DEF PatchFails, TypeOK, IdlePatch
    <3> QED
      BY <1>0, <2>0, <3>1 DEF Provisioned
  <2> QED
    BY <1>3, <2>1, <2>2, <2>3, <2>4 DEF UpdateTenantPlan
<1>4. CASE Tick \/ UNCHANGED vars
  BY <1>0, <1>4 DEF Tick, vars, Provisioned
<1> QED
  BY <1>1, <1>2, <1>3, <1>4 DEF Next, Poll

\* A tenant that is provisioned, with no PATCH in flight that read it while it
\* was pending, stays so, whatever requests and workers do.
THEOREM ProvisionedForGood ==
  ASSUME ~LostCommitAcks
  PROVE  Spec => ProvisionedIsFinal
<1>1. LeaseInv /\ Fresh /\ [Next]_vars =>
        [\A t \in Tenants : Provisioned(t) => Provisioned(t)']_vars
  BY ProvisionedStep
<1> QED
  BY <1>1, LeaseInvariant, FreshInvariant, PTL DEF Spec, ProvisionedIsFinal

\* Once a tenant is provisioned its plan changes only to what a PATCH asked for:
\* no worker that still holds an older plan writes it back.
THEOREM PlansAreChangedByPatch == Spec => PlanChangesStick
<1> DEFINE Asked(t) ==
             \E a \in Admins :
                /\ patch[a].tenant_id = t /\ patch[a].tenant.plan = tenants'[t].plan
                /\ patch'[a] = IdlePatch
<1>1. ASSUME LeaseInv, Fresh, [Next]_vars, NEW t \in Tenants, Provisioned(t),
             tenants'[t].plan # tenants[t].plan
      PROVE  Asked(t)
  <2>0. TypeOK /\ jobs[t].state = "done" /\ tenants[t].status = "active"
    BY <1>1 DEF LeaseInv, Provisioned
  <2>1. ASSUME NEW k \in Tenants, CreateTenant(k) PROVE FALSE
    BY <1>1, <2>0, <2>1 DEF CreateTenant, CreateTenantSave, CreateTenantEnqueue, CreateTenantFails,
                            EnqueueOrphan, Fresh, TypeOK
  <2>2. ASSUME NEW w \in Workers, ProcessNextJob(w) \/ Crash(w) PROVE FALSE
    <3>1. worker[w].pc = "upserting" => worker[w].job # t
      BY <1>1, <2>0 DEF LeaseInv, Lease
    <3> QED
      BY <1>1, <2>0, <2>2, <3>1, WorkerTenantWrites DEF WriteTenant, TypeOK
  <2>3. ASSUME NEW a \in Admins, UpdateTenantPlan(a) PROVE Asked(t)
    <3>1. PatchCommit(a)
      BY <1>1, <2>3 DEF UpdateTenantPlan, PatchGetTenant, PatchLoad, PatchFails
    <3>2. patch[a].tenant_id = t
      BY <1>1, <2>0, <3>1 DEF PatchCommit, TypeOK
    <3>3. tenants'[t] = Merge(tenants[t], patch[a].loaded, patch[a].tenant)
      BY <2>0, <3>1, <3>2 DEF PatchCommit, TypeOK
    <3>4. tenants'[t].plan = patch[a].tenant.plan
      BY <1>1, <3>3 DEF Merge
    <3>5. patch'[a] = IdlePatch
      BY <2>0, <3>1 DEF PatchCommit, TypeOK
    <3> QED
      BY <3>2, <3>4, <3>5
  <2>4. CASE Tick \/ UNCHANGED vars
    BY <1>1, <2>4 DEF Tick, vars
  <2> QED
    BY <1>1, <2>1, <2>2, <2>3, <2>4 DEF Next, Poll
<1>2. LeaseInv /\ Fresh /\ [Next]_vars =>
        [\A t \in Tenants :
            Provisioned(t) /\ tenants'[t].plan # tenants[t].plan => Asked(t)]_vars
  BY <1>1
<1> QED
  BY <1>2, LeaseInvariant, FreshInvariant, PTL DEF Spec, PlanChangesStick

-----------------------------------------------------------------------------
(* The writes to the jobs table.                                           *)

RowBecomes(j, state, retries) ==
    /\ jobs'[j].state = state
    /\ jobs'[j].retries = retries
    /\ \A k \in Tenants : k # j => jobs'[k] = jobs[k]

\* What a worker writes to the row of the job it holds, and where.
WorkerRow(w, j) ==
    \/ worker[w].pc = "claiming" /\ RowBecomes(j, "running", jobs[j].retries)
    \/ worker[w].pc = "finishing" /\ RowBecomes(j, "done", jobs[j].retries)
    \/ worker[w].pc = "not_found" /\ RowBecomes(j, "dead_letter", jobs[j].retries + 1)
    \/ /\ worker[w].pc = "failing" /\ Exhausted(worker[w].retries)
       /\ RowBecomes(j, "dead_letter", jobs[j].retries + 1)
    \/ /\ worker[w].pc = "failing" /\ ~Exhausted(worker[w].retries)
       /\ RowBecomes(j, "queued", jobs[j].retries + 1)

LEMMA WorkerJobStep ==
  ASSUME TypeOK, NEW w \in Workers, ProcessNextJob(w) \/ Crash(w)
  PROVE  \/ jobs' = jobs
         \/ \E j \in Tenants : worker[w].pc # "idle" /\ j = worker[w].job /\ WorkerRow(w, j)
<1> SUFFICES ASSUME NEW j, j = worker[w].job, jobs' # jobs
             PROVE  j \in Tenants /\ worker[w].pc # "idle" /\ WorkerRow(w, j)
  OBVIOUS
<1>1. j \in Tenants /\ worker[w].pc # "idle"
  BY DEF ProcessNextJob, ClaimSelect, ClaimCommit, GetTenant, UpsertLoad, UpsertCommit,
         MarkDone, MarkNotFound, Raise, RaiseAfterCommit, MarkRetry, MarkDeadLetter, Crash, TypeOK
<1>2. \A k \in Tenants : k # j => jobs'[k] = jobs[k]
  BY StepIsLocal
<1>3. CASE ClaimCommit(w)
  BY <1>1, <1>2, <1>3, JobWriteEffects DEF ClaimCommit, WorkerRow, RowBecomes
<1>4. CASE worker[w].pc = "finishing" /\ SetDone(j)
  BY <1>1, <1>2, <1>4, JobWriteEffects DEF WorkerRow, RowBecomes
<1>5. CASE worker[w].pc = "not_found" /\ SetDeadLetter(j)
  BY <1>1, <1>2, <1>5, JobWriteEffects DEF WorkerRow, RowBecomes
<1>6. CASE MarkRetry(w)
  BY <1>1, <1>2, <1>6, JobWriteEffects DEF MarkRetry, WorkerRow, RowBecomes
<1>7. CASE MarkDeadLetter(w)
  BY <1>1, <1>2, <1>7, JobWriteEffects DEF MarkDeadLetter, WorkerRow, RowBecomes
<1>8. \/ ClaimCommit(w) \/ MarkRetry(w) \/ MarkDeadLetter(w)
      \/ worker[w].pc = "finishing" /\ SetDone(j)
      \/ worker[w].pc = "not_found" /\ SetDeadLetter(j)
  BY DEF ProcessNextJob, ClaimSelect, GetTenant, UpsertLoad, UpsertCommit,
         MarkDone, MarkNotFound, Raise, RaiseAfterCommit, Crash
<1> QED
  BY <1>1, <1>3, <1>4, <1>5, <1>6, <1>7, <1>8

LEMMA CreateTenantJobStep ==
  ASSUME TypeOK, NEW t \in Tenants, CreateTenant(t)
  PROVE  /\ worker' = worker
         /\ \/ jobs' = jobs
            \/ /\ jobs[t].state = "absent" /\ RowBecomes(t, "queued", 0)
               /\ jobs'[t].created_at = clock /\ jobs'[t].available_at = clock
<1>1. worker' = worker /\ (EnqueueJob(t) \/ jobs' = jobs)
  BY DEF CreateTenant, CreateTenantSave, CreateTenantEnqueue, CreateTenantFails, EnqueueOrphan
<1>2. CASE EnqueueJob(t) /\ jobs[t].state = "absent"
  BY <1>1, <1>2 DEF EnqueueJob, RowBecomes, TypeOK
<1>3. CASE EnqueueJob(t) /\ jobs[t].state # "absent"
  BY <1>1, <1>3 DEF EnqueueJob, TypeOK
<1> QED
  BY <1>1, <1>2, <1>3

LEMMA OtherJobStep ==
  ASSUME (\E a \in Admins : UpdateTenantPlan(a)) \/ Tick \/ UNCHANGED vars
  PROVE  jobs' = jobs /\ worker' = worker /\ creation' = creation
  BY DEF UpdateTenantPlan, PatchGetTenant, PatchLoad, PatchCommit, PatchFails, Tick, vars

-----------------------------------------------------------------------------
(* Every pending tenant can be accounted for.                              *)

\* The job of a tenant whose creation was answered is in the table for good.
Recorded == \A t \in Tenants : creation[t] = "created" => jobs[t].state # "absent"

LEMMA JobsStay ==
  ASSUME TypeOK, [Next]_vars, NEW t \in Tenants, jobs[t].state # "absent"
  PROVE  jobs'[t].state # "absent"
<1>1. ASSUME NEW k \in Tenants, CreateTenant(k) PROVE jobs'[t].state # "absent"
  BY <1>1, CreateTenantJobStep DEF RowBecomes
<1>2. ASSUME NEW w \in Workers, ProcessNextJob(w) \/ Crash(w) PROVE jobs'[t].state # "absent"
  BY <1>2, WorkerJobStep DEF WorkerRow, RowBecomes
<1> QED
  BY <1>1, <1>2, OtherJobStep DEF Next, Poll

LEMMA RecordedInvariant == Spec => []Recorded
<1>1. Init => Recorded
  BY DEF Init, Recorded
<1>2. ASSUME TypeOK, Recorded, [Next]_vars PROVE Recorded'
  <2> SUFFICES ASSUME NEW t \in Tenants, creation'[t] = "created", creation[t] # "created"
               PROVE  jobs'[t].state # "absent"
    BY <1>2, JobsStay DEF Recorded
  <2>1. ASSUME NEW k \in Tenants, CreateTenant(k) PROVE EnqueueJob(t)
    BY <1>2, <2>1 DEF CreateTenant, CreateTenantSave, CreateTenantEnqueue, CreateTenantFails,
                      EnqueueOrphan, TypeOK
  <2>2. EnqueueJob(t) => jobs'[t].state # "absent"
    <3>1. CASE jobs[t].state = "absent"
      BY <1>2, <3>1 DEF EnqueueJob, TypeOK
    <3>2. CASE jobs[t].state # "absent"
      BY <1>2, <3>2 DEF EnqueueJob, TypeOK
    <3> QED
      BY <3>1, <3>2
  <2> QED
    BY <1>2, <2>1, <2>2, WorkerFrame, OtherJobStep DEF Next, Poll
<1> QED
  BY <1>1, <1>2, TypeCorrect, PTL DEF Spec

\* Where no PATCH .../plan request is served, a tenant that stays pending and
\* whose creation was answered has a job in the table that is not done.
THEOREM PendingTenantsAreExplained ==
  ASSUME Admins = {}
  PROVE  Spec => []PendingIsExplained
<1>1. ASSUME TypeOK, Fresh, Recorded, DoneMeansActive PROVE PendingIsExplained
  <2> SUFFICES ASSUME NEW t \in Tenants, tenants[t].status = "pending",
                      creation[t] \notin {"saved", "failed"}
               PROVE  jobs[t].state \in {"queued", "running", "dead_letter"}
    BY DEF PendingIsExplained
  <2>1. creation[t] = "created"
    BY <1>1 DEF TypeOK, Fresh
  <2>2. jobs[t].state \in JobStates \ {"absent", "done"}
    BY <1>1, <2>1 DEF TypeOK, ProvisioningJobRow, Recorded, DoneMeansActive
  <2> QED
    BY <2>2 DEF JobStates
<1> QED
  BY <1>1, TypeCorrect, FreshInvariant, RecordedInvariant, DoneTenantsAreActive, PTL

-----------------------------------------------------------------------------
(* Jobs that nobody will settle.                                           *)

LEMMA StrandedKept ==
  ASSUME Stranded' \subseteq Stranded, StrandedBound, crashes' = crashes, crashes \in Nat
  PROVE  StrandedBound'
<1>1. IsFiniteSet(Stranded)
  BY TenantsAssumption, FS_Subset DEF Stranded
<1> QED
  BY <1>1, FS_Subset, FS_CardinalityType DEF StrandedBound

LEMMA StrandedAdded ==
  ASSUME NEW j, Stranded' \subseteq Stranded \cup {j}, StrandedBound, crashes' = crashes + 1,
         crashes \in Nat
  PROVE  StrandedBound'
<1>1. IsFiniteSet(Stranded) /\ Cardinality(Stranded) \in Nat
  BY TenantsAssumption, FS_Subset, FS_CardinalityType DEF Stranded
<1>2. /\ IsFiniteSet(Stranded \cup {j})
      /\ \/ Cardinality(Stranded \cup {j}) = Cardinality(Stranded)
         \/ Cardinality(Stranded \cup {j}) = Cardinality(Stranded) + 1
  BY <1>1, FS_AddElement
<1>3. Cardinality(Stranded') \in Nat /\ Cardinality(Stranded') <= Cardinality(Stranded \cup {j})
  BY <1>2, FS_Subset, FS_CardinalityType
<1> QED
  BY <1>1, <1>2, <1>3 DEF StrandedBound

\* A worker that returns from process_next_job has settled its job, and the
\* other jobs and their holders are as they were.
LEMMA WorkerStranded ==
  ASSUME LeaseInv, NEW w \in Workers, ProcessNextJob(w)
  PROVE  Stranded' \subseteq Stranded
<1> SUFFICES ASSUME NEW j \in Tenants, jobs'[j].state = "running",
                    \A v \in Workers : ~InFlight(v, j)'
             PROVE  jobs[j].state = "running" /\ \A v \in Workers : ~InFlight(v, j)
  BY DEF Stranded
<1>1. TypeOK /\ \A v \in Workers : v # w => worker'[v] = worker[v]
  BY StepIsLocal DEF LeaseInv
<1>2. \A v \in Workers : v # w => ~InFlight(v, j)
  BY <1>1 DEF InFlight
<1>3. CASE InFlight(w, j)
  <2>1. worker'[w].pc = "idle"
    BY <1>3, HolderStep DEF InFlight
  <2>2. MarkDone(w) \/ MarkNotFound(w) \/ MarkRetry(w) \/ MarkDeadLetter(w)
    <3>1. ~GetTenant(w)
      <4>1. ASSUME GetTenant(w) PROVE FALSE
        <5>1. PICK pc \in TryBlock : \E copy :
                  worker' = [worker EXCEPT ![w] = [@ EXCEPT !.pc = pc, !.tenant = copy]]
          BY <4>1 DEF GetTenant
        <5>2. worker'[w].pc = pc
          BY <1>1, <5>1 DEF TypeOK
        <5> QED
          BY <2>1, <5>2
      <4> QED
        BY <4>1
    <3>2. ~ClaimSelect(w)
      BY <1>3 DEF ClaimSelect, InFlight
    <3>3. ~ClaimCommit(w)
      BY <1>1, <2>1 DEF ClaimCommit, TypeOK
    <3>4. ~UpsertLoad(w)
      BY <1>1, <2>1 DEF UpsertLoad, TypeOK
    <3>5. ~UpsertCommit(w)
      BY <1>1, <2>1 DEF UpsertCommit, TypeOK
    <3>6. ~Raise(w) /\ ~RaiseAfterCommit(w)
      BY <1>1, <2>1 DEF Raise, RaiseAfterCommit, TypeOK
    <3> QED
      BY <3>1, <3>2, <3>3, <3>4, <3>5, <3>6 DEF ProcessNextJob
  <2>3. jobs'[j].state \in {"done", "dead_letter", "queued"}
    BY <1>1, <1>3, <2>2, JobWriteEffects DEF MarkDone, MarkNotFound, MarkRetry, MarkDeadLetter, InFlight
  <2> QED
    BY <2>3
<1>4. CASE ~InFlight(w, j)
  <2>1. jobs'[j] = jobs[j]
    BY <1>1, <1>4, WorkerJobStep DEF WorkerRow, RowBecomes, InFlight
  <2> QED
    BY <1>2, <1>4, <2>1
<1> QED
  BY <1>3, <1>4

\* A job is left "running" without a worker only by the death of one or by an
\* exception outside the try block of process_next_job, each time one job at
\* most: no return and no exception inside the try block strands a job.
THEOREM StrandedJobsAreBounded == Spec => []StrandedBound
<1>1. Init => StrandedBound
  <2> SUFFICES ASSUME Init PROVE StrandedBound
    OBVIOUS
  <2>1. Stranded = {}
    BY DEF Init, Stranded, NoJobRow
  <2> QED
    BY <2>1, FS_EmptySet DEF Init, StrandedBound
<1>2. ASSUME LeaseInv, StrandedBound, [Next]_vars PROVE StrandedBound'
  <2>0. TypeOK /\ crashes \in Nat
    BY <1>2, NumbersAssumption DEF LeaseInv, TypeOK
  <2>1. ASSUME NEW t \in Tenants, CreateTenant(t) PROVE StrandedBound'
    <3>1. worker' = worker /\ crashes' = crashes
      BY <2>1 DEF CreateTenant, CreateTenantSave, CreateTenantEnqueue, CreateTenantFails, EnqueueOrphan
    <3>2. \A j \in Tenants : jobs'[j].state = "running" => jobs[j].state = "running"
      BY <2>0, <2>1, CreateTenantJobStep DEF RowBecomes
    <3>3. Stranded' \subseteq Stranded
      BY <3>1, <3>2 DEF Stranded, InFlight
    <3> QED
      BY <1>2, <2>0, <3>1, <3>3, StrandedKept
  <2>2. ASSUME NEW w \in Workers, ProcessNextJob(w) PROVE StrandedBound'
    <3>1. crashes' = crashes
      BY <2>2 DEF ProcessNextJob, ClaimSelect, ClaimCommit, GetTenant, UpsertLoad, UpsertCommit,
                  MarkDone, MarkNotFound, Raise, RaiseAfterCommit, MarkRetry, MarkDeadLetter
    <3> QED
      BY <1>2, <2>0, <2>2, <3>1, WorkerStranded, StrandedKept
  <2>3. ASSUME NEW w \in Workers, Crash(w) PROVE StrandedBound'
    <3>1. jobs' = jobs /\ crashes' = crashes + 1
      BY <2>3 DEF Crash
    <3>2. \A v \in Workers : v # w => worker'[v] = worker[v]
      BY <2>0, <2>3, StepIsLocal
    <3>3. Stranded' \subseteq Stranded \cup {worker[w].job}
      BY <3>1, <3>2 DEF Stranded, InFlight
    <3> QED
      BY <1>2, <2>0, <3>1, <3>3, StrandedAdded
  <2>4. CASE (\E a \in Admins : UpdateTenantPlan(a)) \/ Tick \/ UNCHANGED vars
    <3>1. jobs' = jobs /\ worker' = worker
      BY <2>4, OtherJobStep
    <3>2. crashes' = crashes
      BY <2>4 DEF UpdateTenantPlan, PatchGetTenant, PatchLoad, PatchCommit, PatchFails, Tick, vars
    <3> QED
      BY <1>2, <3>1, <3>2 DEF StrandedBound, Stranded, InFlight
  <2> QED
    BY <1>2, <2>1, <2>2, <2>3, <2>4 DEF Next, Poll
<1> QED
  BY <1>1, <1>2, LeaseInvariant, PTL DEF Spec

-----------------------------------------------------------------------------
(* The ceiling of retries where commits may raise.                         *)

\* The count in a worker's locals is the one in the row, until the except
\* block: a dead letter whose answer was lost has already been counted there.
Tallied(w) ==
    worker[w].pc # "idle" =>
        /\ worker[w].retries <= MaxAttempts
        /\ worker[w].pc # "failing" => jobs[worker[w].job].retries = worker[w].retries
        /\ worker[w].pc = "failing" => jobs[worker[w].job].retries <= worker[w].retries + 1

RowCeiling(t) ==
    /\ jobs[t].state \in {"queued", "running"} => jobs[t].retries <= MaxAttempts
    /\ jobs[t].retries <= MaxAttempts + 2

CeilingInv ==
    /\ \A w \in Workers : Tallied(w)
    /\ \A t \in Tenants : RowCeiling(t)

LEMMA HolderTallied ==
  ASSUME LeaseInv, CeilingInv, NEW w \in Workers, ProcessNextJob(w) \/ Crash(w)
  PROVE  Tallied(w)'
<1>0. TypeOK /\ MaxAttempts \in Nat
  BY MaxAttemptsType DEF LeaseInv
<1>1. worker[w].pc # "idle" =>
        /\ worker[w].job \in Tenants /\ worker[w].retries \in Nat
        /\ jobs[worker[w].job].retries \in Nat
        /\ worker[w].retries <= MaxAttempts
        /\ worker[w].pc # "failing" => jobs[worker[w].job].retries = worker[w].retries
  BY <1>0 DEF TypeOK, ProvisioningJobRow, CeilingInv, Tallied
<1>2. CASE ClaimSelect(w)
  <2>1. PICK j \in Claimable :
           worker' = [worker EXCEPT ![w] = [@ EXCEPT !.pc = "claiming", !.job = j,
                                                     !.retries = jobs[j].retries]]
    BY <1>2 DEF ClaimSelect
  <2>2. j \in Tenants /\ jobs[j].state = "queued" /\ jobs' = jobs
    BY <1>2 DEF Claimable, Due, ClaimSelect
  <2>3. worker'[w].pc = "claiming" /\ worker'[w].job = j /\ worker'[w].retries = jobs[j].retries
    BY <1>0, <2>1 DEF TypeOK
  <2> QED
    BY <2>2, <2>3 DEF CeilingInv, RowCeiling, Tallied
<1>3. CASE ClaimCommit(w)
  <2>1. jobs'[worker[w].job].retries = jobs[worker[w].job].retries
    BY <1>0, <1>1, <1>3, JobWriteEffects DEF ClaimCommit
  <2> QED
    BY <1>0, <1>1, <1>3, <2>1 DEF ClaimCommit, TypeOK, Tallied
<1>4. CASE GetTenant(w)
  <2>1. PICK pc \in TryBlock : \E copy :
            worker' = [worker EXCEPT ![w] = [@ EXCEPT !.pc = pc, !.tenant = copy]]
    BY <1>4 DEF GetTenant
  <2>2. worker'[w].pc = pc /\ worker'[w].retries = worker[w].retries /\ worker'[w].job = worker[w].job
    BY <1>0, <2>1 DEF TypeOK
  <2> QED
    BY <1>1, <1>4, <2>2 DEF GetTenant, Tallied
<1>5. CASE UpsertLoad(w)
  BY <1>0, <1>1, <1>5 DEF UpsertLoad, TypeOK, Tallied
<1>6. CASE UpsertCommit(w)
  BY <1>0, <1>1, <1>6 DEF UpsertCommit, TypeOK, Tallied
<1>7. CASE Raise(w)
  BY <1>0, <1>1, <1>7 DEF Raise, TypeOK, Tallied
<1>8. CASE RaiseAfterCommit(w)
  <2>1. /\ worker'[w].pc = "failing" /\ worker'[w].job = worker[w].job
        /\ worker'[w].retries = worker[w].retries /\ worker[w].pc \in TryBlock
    BY <1>0, <1>8 DEF RaiseAfterCommit, TypeOK
  <2>2. \/ jobs' = jobs
        \/ SetDone(worker[w].job)
        \/ SetDeadLetter(worker[w].job)
    BY <1>8 DEF RaiseAfterCommit
  <2>3. jobs'[worker[w].job].retries \in {jobs[worker[w].job].retries, jobs[worker[w].job].retries + 1}
    BY <1>0, <1>1, <2>1, <2>2, JobWriteEffects
  <2> QED
    BY <1>1, <2>1, <2>3 DEF Tallied
<1>9. CASE worker' = [worker EXCEPT ![w] = IdleWorker]
  BY <1>0, <1>9 DEF IdleWorker, TypeOK, Tallied
<1> QED
  BY <1>2, <1>3, <1>4, <1>5, <1>6, <1>7, <1>8, <1>9
  DEF ProcessNextJob, MarkDone, MarkNotFound, MarkRetry, MarkDeadLetter, Crash

LEMMA WorkerCeiling ==
  ASSUME LeaseInv, CeilingInv, NEW w \in Workers, ProcessNextJob(w) \/ Crash(w)
  PROVE  CeilingInv'
<1>0. TypeOK /\ ExclusiveClaim /\ MaxAttempts \in Nat
  BY MaxAttemptsType DEF LeaseInv
<1>1. \A v \in Workers : v # w => worker'[v] = worker[v]
  BY <1>0, StepIsLocal
<1>2. CASE jobs' = jobs
  BY <1>1, <1>2, HolderTallied DEF CeilingInv, Tallied, RowCeiling
<1>3. ASSUME NEW j \in Tenants, worker[w].pc # "idle", j = worker[w].job, WorkerRow(w, j)
      PROVE  CeilingInv'
  <2>1. \A k \in Tenants : k # j => jobs'[k] = jobs[k]
    BY <1>3 DEF WorkerRow, RowBecomes
  <2>2. ASSUME NEW v \in Workers, v # w PROVE Tallied(v)'
    <3>1. worker[v].pc # "idle" => worker[v].job \in Tenants /\ worker[v].job # j
      BY <1>0, <1>3, <2>2 DEF ExclusiveClaim, InFlight, TypeOK
    <3> QED
      BY <1>1, <2>1, <2>2, <3>1 DEF CeilingInv, Tallied
  <2>3. /\ jobs[j].retries \in Nat /\ worker[w].retries \in Nat
        /\ worker[w].retries <= MaxAttempts
        /\ worker[w].pc # "failing" => jobs[j].retries = worker[w].retries
        /\ worker[w].pc = "failing" => jobs[j].retries <= worker[w].retries + 1
    BY <1>0, <1>3 DEF TypeOK, ProvisioningJobRow, CeilingInv, Tallied
  <2>4. RowCeiling(j)'
    <3>1. CASE worker[w].pc # "failing"
      BY <1>0, <1>3, <2>3, <3>1 DEF WorkerRow, RowBecomes, RowCeiling
    <3>2. CASE worker[w].pc = "failing" /\ Exhausted(worker[w].retries)
      BY <1>0, <1>3, <2>3, <3>2 DEF WorkerRow, RowBecomes, RowCeiling
    <3>3. CASE worker[w].pc = "failing" /\ ~Exhausted(worker[w].retries)
      <4>1. worker[w].retries + 1 < MaxAttempts
        BY <1>0, <2>3, <3>3 DEF Exhausted
      <4> QED
        BY <1>0, <1>3, <2>3, <3>3, <4>1 DEF WorkerRow, RowBecomes, RowCeiling
    <3> QED
      BY <3>1, <3>2, <3>3
  <2>5. \A k \in Tenants : RowCeiling(k)'
    BY <2>1, <2>4 DEF CeilingInv, RowCeiling
  <2> QED
    BY <2>2, <2>5, HolderTallied DEF CeilingInv
<1> QED
  BY <1>0, <1>2, <1>3, WorkerJobStep

\* Even where a commit may take effect and raise, so that a failure is counted
\* twice, no job counts more than MaxAttempts + 2 failures.
THEOREM RetriesHaveACeiling == Spec => []RetryCeiling
<1>1. Init => CeilingInv
  BY MaxAttemptsType DEF Init, CeilingInv, Tallied, RowCeiling, IdleWorker, NoJobRow
<1>2. ASSUME LeaseInv, CeilingInv, [Next]_vars PROVE CeilingInv'
  <2>0. TypeOK
    BY <1>2 DEF LeaseInv
  <2>1. ASSUME NEW t \in Tenants, CreateTenant(t) PROVE CeilingInv'
    <3>1. \A k \in Tenants : \/ jobs'[k] = jobs[k]
                             \/ jobs[k].state = "absent" /\ jobs'[k].retries = 0
      BY <2>0, <2>1, CreateTenantJobStep DEF RowBecomes
    <3>2. ASSUME NEW w \in Workers PROVE Tallied(w)'
      <4>1. worker[w].pc # "idle" =>
               worker[w].job \in Tenants /\ jobs[worker[w].job].state # "absent"
        BY <1>2 DEF LeaseInv, TypeOK, Lease
      <4> QED
        BY <1>2, <2>0, <2>1, <3>1, <4>1, CreateTenantJobStep DEF CeilingInv, Tallied
    <3>3. \A k \in Tenants : RowCeiling(k)'
      BY <1>2, <3>1, MaxAttemptsType DEF CeilingInv, RowCeiling
    <3> QED
      BY <3>2, <3>3 DEF CeilingInv
  <2>2. CASE (\E a \in Admins : UpdateTenantPlan(a)) \/ Tick \/ UNCHANGED vars
    <3>1. jobs' = jobs /\ worker' = worker
      BY <2>2, OtherJobStep
    <3> QED
      BY <1>2, <3>1 DEF CeilingInv, Tallied, RowCeiling
  <2> QED
    BY <1>2, <2>1, <2>2, WorkerCeiling DEF Next, Poll
<1>3. CeilingInv => RetryCeiling
  BY DEF CeilingInv, RowCeiling, RetryCeiling
<1> QED
  BY <1>1, <1>2, <1>3, LeaseInvariant, PTL DEF Spec

-----------------------------------------------------------------------------
(* The queue implements JobLifecycle.                                      *)

\* A change of one row is a change of one job of the lifecycle.
LEMMA RowIsJob ==
  ASSUME NEW j \in Tenants, NEW s, NEW r, RowBecomes(j, s, r)
  PROVE  /\ [t \in Tenants |-> jobs'[t].state] = [[t \in Tenants |-> jobs[t].state] EXCEPT ![j] = s]
         /\ [t \in Tenants |-> jobs'[t].retries] = [[t \in Tenants |-> jobs[t].retries] EXCEPT ![j] = r]
  BY DEF RowBecomes

\* A job that was never queued has not failed.
Untouched == \A t \in Tenants : jobs[t].state = "absent" => jobs[t].retries = 0

LEMMA UntouchedInvariant == Spec => []Untouched
<1>1. Init => Untouched
  BY DEF Init, Untouched, NoJobRow
<1>2. ASSUME TypeOK, Untouched, [Next]_vars PROVE Untouched'
  <2>1. ASSUME NEW t \in Tenants, CreateTenant(t) PROVE Untouched'
    BY <1>2, <2>1, CreateTenantJobStep DEF RowBecomes, Untouched
  <2>2. ASSUME NEW w \in Workers, ProcessNextJob(w) \/ Crash(w) PROVE Untouched'
    BY <1>2, <2>2, WorkerJobStep DEF WorkerRow, RowBecomes, Untouched
  <2>3. CASE jobs' = jobs
    BY <1>2, <2>3 DEF Untouched
  <2> QED
    BY <1>2, <2>1, <2>2, <2>3, OtherJobStep DEF Next, Poll
<1> QED
  BY <1>1, <1>2, TypeCorrect, PTL DEF Spec

LEMMA LifecycleStep ==
  ASSUME LeaseInv, BudgetInv, Untouched, ~LostCommitAcks, [Next]_vars
  PROVE  [Lifecycle!JobNext]_Lifecycle!jobVars
<1> USE DEF Lifecycle!Move, Lifecycle!CountFailure
<1>0. TypeOK /\ Lease /\ MaxAttempts \in Nat
  BY MaxAttemptsType DEF LeaseInv
<1>1. CASE jobs' = jobs
  BY <1>1 DEF Lifecycle!jobVars
<1>2. ASSUME NEW t \in Tenants, jobs[t].state = "absent", RowBecomes(t, "queued", 0)
      PROVE  Lifecycle!JobNext
  <2>1. [k \in Tenants |-> jobs'[k].retries] = [k \in Tenants |-> jobs[k].retries]
    BY <1>2 DEF RowBecomes, Untouched
  <2>2. Lifecycle!Enqueue(t)
    BY <1>2, <2>1, RowIsJob DEF Lifecycle!Enqueue
  <2> QED
    BY <2>2 DEF Lifecycle!JobNext
<1>3. ASSUME NEW w \in Workers, NEW j \in Tenants, worker[w].pc # "idle", j = worker[w].job,
             WorkerRow(w, j)
      PROVE  Lifecycle!JobNext
  <2>1. /\ worker[w].pc = "claiming" => jobs[j].state = "queued"
        /\ worker[w].pc \in TryBlock \cup {"failing"} => jobs[j].state = "running"
    BY <1>0, <1>3 DEF Lease
  <2>2. /\ jobs[j].retries \in Nat /\ worker[w].retries = jobs[j].retries
        /\ jobs[j].state \in {"queued", "running"} => jobs[j].retries < MaxAttempts
    BY <1>0, <1>3 DEF TypeOK, ProvisioningJobRow, BudgetInv, Counted, RetryBudget
  <2>3. RowBecomes(j, "running", jobs[j].retries) \/ RowBecomes(j, "done", jobs[j].retries) =>
          [k \in Tenants |-> jobs'[k].retries] = [k \in Tenants |-> jobs[k].retries]
    BY DEF RowBecomes
  <2>4. CASE worker[w].pc = "claiming" /\ RowBecomes(j, "running", jobs[j].retries)
    <3>1. Lifecycle!Claim(j)
      BY <2>1, <2>3, <2>4, RowIsJob DEF Lifecycle!Claim
    <3> QED
      BY <3>1 DEF Lifecycle!JobNext
  <2>5. CASE worker[w].pc = "finishing" /\ RowBecomes(j, "done", jobs[j].retries)
    <3>1. Lifecycle!Finish(j)
      BY <2>1, <2>3, <2>5, RowIsJob DEF Lifecycle!Finish
    <3> QED
      BY <3>1 DEF Lifecycle!JobNext
  <2>6. CASE worker[w].pc \in {"not_found", "failing"} /\ RowBecomes(j, "dead_letter", jobs[j].retries + 1)
    <3>1. Lifecycle!Bury(j)
      BY <2>1, <2>2, <2>6, RowIsJob DEF Lifecycle!Bury
    <3> QED
      BY <3>1 DEF Lifecycle!JobNext
  <2>7. CASE /\ worker[w].pc = "failing" /\ ~Exhausted(worker[w].retries)
             /\ RowBecomes(j, "queued", jobs[j].retries + 1)
    <3>1. jobs[j].retries + 1 < MaxAttempts
      BY <1>0, <2>2, <2>7 DEF Exhausted
    <3>2. Lifecycle!Retry(j)
      BY <2>1, <2>2, <2>7, <3>1, RowIsJob DEF Lifecycle!Retry
    <3> QED
      BY <3>2 DEF Lifecycle!JobNext
  <2> QED
    BY <1>3, <2>4, <2>5, <2>6, <2>7 DEF WorkerRow
<1> QED
  BY <1>0, <1>1, <1>2, <1>3, CreateTenantJobStep, WorkerJobStep, OtherJobStep DEF Next, Poll

\* Where a commit that takes effect is always answered, the table of jobs that
\* any number of workers read and write behaves as the lifecycle says.
THEOREM QueueImplementsLifecycle ==
  ASSUME ~LostCommitAcks
  PROVE  Spec => ImplementsLifecycle
<1>1. Init => Lifecycle!JobInit
  BY DEF Init, Lifecycle!JobInit, NoJobRow
<1>2. LeaseInv /\ BudgetInv /\ Untouched /\ [Next]_vars => [Lifecycle!JobNext]_Lifecycle!jobVars
  BY LifecycleStep
<1> QED
  BY <1>1, <1>2, LeaseInvariant, BudgetInvariant, UntouchedInvariant, PTL
  DEF Spec, ImplementsLifecycle, Lifecycle!JobSpec

-----------------------------------------------------------------------------
(* Backoff.                                                                *)

\* The delays that come before the attempt that follows r failures.
Waited(r) == Larger(RetryBase, 0) * (2^r - 1)

LEMMA WaitedSum ==
  ASSUME NEW r \in Nat, r < MaxAttempts
  PROVE  /\ Waited(r) \in Nat /\ RetryDelay(r) \in Nat
         /\ Waited(r + 1) = Waited(r) + RetryDelay(r)
         /\ Waited(0) = 0
<1>1. r \in 0..MaxAttempts + 2 /\ 0 \in 0..MaxAttempts + 2
  BY MaxAttemptsType
<1> SUFFICES ASSUME NEW b, NEW p, NEW q, b = Larger(RetryBase, 0), p = 2^r, q = 2^(r + 1)
             PROVE  /\ b * (p - 1) \in Nat /\ b * p \in Nat
                    /\ b * (q - 1) = b * (p - 1) + b * p
                    /\ b * (2^0 - 1) = 0
  BY DEF Waited, RetryDelay
<1>2. b \in Nat
  BY NumbersAssumption DEF Larger
<1>3. p \in Nat \ {0} /\ q = 2 * p
  BY <1>1, PowersAssumption
<1>4. \A m \in Nat, n \in Nat \ {0} :
         /\ m * (n - 1) \in Nat /\ m * n \in Nat
         /\ m * (2 * n - 1) = m * (n - 1) + m * n
  OBVIOUS
<1>5. 2^0 = 1
  OBVIOUS
<1>6. b * (2^0 - 1) = 0
  <2>1. 2^0 - 1 = 0
    BY <1>5
  <2> QED
    BY <1>2, <2>1
<1>7. b * (p - 1) \in Nat /\ b * p \in Nat /\ b * (q - 1) = b * (p - 1) + b * p
  BY <1>2, <1>3, <1>4
<1> QED
  BY <1>6, <1>7

\* A job waits in the queue, and a job at work has waited, for all the delays
\* of its failures.
PunctualRow(t) ==
    /\ jobs[t].state = "queued" => jobs[t].available_at >= jobs[t].created_at + Waited(jobs[t].retries)
    /\ jobs[t].state = "running" => clock >= jobs[t].created_at + Waited(jobs[t].retries)

\* The job that a worker is about to claim is due and, its row being locked,
\* stays due.
PunctualClaim(w) ==
    worker[w].pc = "claiming" => jobs[worker[w].job].available_at <= clock

BackoffInv ==
    /\ \A t \in Tenants : PunctualRow(t)
    /\ \A w \in Workers : PunctualClaim(w)

\* No write but the one that queues a job again changes the times in its row.
LEMMA WorkerTimes ==
  ASSUME TypeOK, NEW w \in Workers, ProcessNextJob(w) \/ Crash(w), NEW j, j = worker[w].job,
         worker[w].pc # "idle"
  PROVE  /\ jobs'[j].created_at = jobs[j].created_at
         /\ \/ jobs'[j].available_at = jobs[j].available_at
            \/ /\ worker[w].pc = "failing" /\ ~Exhausted(worker[w].retries)
               /\ jobs'[j].available_at = clock + RetryDelay(worker[w].retries)
<1>1. j \in Tenants /\ jobs[j] \in ProvisioningJobRow
  BY DEF TypeOK
<1>2. CASE ClaimCommit(w)
  <2>1. jobs' = [jobs EXCEPT ![j].state = "running"]
    BY <1>2 DEF ClaimCommit
  <2> QED
    BY <1>1, <2>1 DEF TypeOK, ProvisioningJobRow
<1>3. CASE SetDone(j)
  BY <1>1, <1>3 DEF SetDone, TypeOK, ProvisioningJobRow
<1>4. CASE SetDeadLetter(j)
  BY <1>1, <1>4 DEF SetDeadLetter, TypeOK, ProvisioningJobRow
<1>5. ASSUME NEW d, SetQueued(j, d)
      PROVE  jobs'[j].created_at = jobs[j].created_at /\ jobs'[j].available_at = clock + d
  BY <1>1, <1>5 DEF SetQueued, TypeOK, ProvisioningJobRow
<1>6. CASE MarkRetry(w)
  BY <1>5, <1>6 DEF MarkRetry
<1>7. CASE jobs' = jobs
  BY <1>7
<1> QED
  BY <1>2, <1>3, <1>4, <1>6, <1>7
  DEF ProcessNextJob, ClaimSelect, GetTenant, UpsertLoad, UpsertCommit,
      MarkDone, MarkNotFound, Raise, RaiseAfterCommit, MarkDeadLetter, Crash

\* A worker comes to the COMMIT of claim_next by selecting a job that is due.
LEMMA ClaimIsDue ==
  ASSUME LeaseInv, NEW w \in Workers, ProcessNextJob(w) \/ Crash(w), worker'[w].pc = "claiming"
  PROVE  worker'[w].job \in Claimable /\ jobs' = jobs
  BY HolderStep

LEMMA WorkerBackoff ==
  ASSUME LeaseInv, BudgetInv, BackoffInv, ~LostCommitAcks, NEW w \in Workers,
         ProcessNextJob(w) \/ Crash(w)
  PROVE  BackoffInv'
<1>0. TypeOK /\ Lease /\ ExclusiveClaim /\ clock' = clock /\ clock \in Nat
  BY DEF LeaseInv, TypeOK, ProcessNextJob, ClaimSelect, ClaimCommit, GetTenant, UpsertLoad,
         UpsertCommit, MarkDone, MarkNotFound, Raise, RaiseAfterCommit, MarkRetry, MarkDeadLetter,
         Crash
<1>1. \A v \in Workers : v # w => worker'[v] = worker[v]
  BY <1>0, StepIsLocal
<1>2. PunctualClaim(w)'
  BY <1>0, ClaimIsDue DEF PunctualClaim, Claimable, Due
<1>3. CASE jobs' = jobs
  BY <1>0, <1>1, <1>2, <1>3 DEF BackoffInv, PunctualRow, PunctualClaim
<1>4. ASSUME NEW j \in Tenants, worker[w].pc # "idle", j = worker[w].job, WorkerRow(w, j)
      PROVE  BackoffInv'
  <2>1. \A k \in Tenants : k # j => jobs'[k] = jobs[k]
    BY <1>4 DEF WorkerRow, RowBecomes
  <2>2. ASSUME NEW v \in Workers, v # w PROVE PunctualClaim(v)'
    <3>1. worker[v].pc = "claiming" => worker[v].job \in Tenants /\ worker[v].job # j
      BY <1>0, <1>4, <2>2 DEF ExclusiveClaim, InFlight, TypeOK
    <3> QED
      BY <1>0, <1>1, <2>1, <2>2, <3>1 DEF BackoffInv, PunctualClaim
  <2>3. /\ jobs[j].retries \in Nat /\ jobs[j].available_at \in Nat /\ jobs[j].created_at \in Nat
        /\ worker[w].retries = jobs[j].retries
        /\ worker[w].pc = "claiming" => jobs[j].state = "queued"
        /\ worker[w].pc # "claiming" => jobs[j].state = "running"
        /\ jobs[j].retries < MaxAttempts
    BY <1>0, <1>4 DEF TypeOK, ProvisioningJobRow, BudgetInv, Counted, RetryBudget, Lease
  <2>4. /\ Waited(jobs[j].retries) \in Nat /\ RetryDelay(jobs[j].retries) \in Nat
        /\ Waited(jobs[j].retries + 1) = Waited(jobs[j].retries) + RetryDelay(jobs[j].retries)
    BY <2>3, WaitedSum
  <2>5. /\ jobs'[j].created_at = jobs[j].created_at
        /\ \/ jobs'[j].available_at = jobs[j].available_at
           \/ /\ worker[w].pc = "failing" /\ ~Exhausted(worker[w].retries)
              /\ jobs'[j].available_at = clock + RetryDelay(worker[w].retries)
    BY <1>0, <1>4, WorkerTimes
  <2>6. PunctualRow(j) /\ PunctualClaim(w)
    BY DEF BackoffInv
  <2>7. PunctualRow(j)'
    <3>1. CASE worker[w].pc = "claiming" /\ RowBecomes(j, "running", jobs[j].retries)
      BY <1>0, <1>4, <2>3, <2>4, <2>5, <2>6, <3>1 DEF RowBecomes, PunctualRow, PunctualClaim
    <3>2. CASE RowBecomes(j, "done", jobs[j].retries) \/ RowBecomes(j, "dead_letter", jobs[j].retries + 1)
      BY <3>2 DEF RowBecomes, PunctualRow
    <3>3. CASE MarkRetry(w)
      <4>1. /\ jobs'[j].state = "queued" /\ jobs'[j].retries = jobs[j].retries + 1
        BY <1>0, <1>4, <3>3, JobWriteEffects DEF MarkRetry
      <4>2. jobs'[j].available_at = clock + RetryDelay(jobs[j].retries)
        BY <1>0, <1>4, <2>3, <3>3 DEF MarkRetry, SetQueued, TypeOK, ProvisioningJobRow
      <4>3. clock >= jobs[j].created_at + Waited(jobs[j].retries)
        BY <2>3, <2>6, <3>3 DEF PunctualRow, MarkRetry
      <4> QED
        BY <1>0, <2>3, <2>4, <2>5, <4>1, <4>2, <4>3 DEF PunctualRow
    <3>4. ASSUME worker[w].pc = "failing", ~Exhausted(worker[w].retries),
                 RowBecomes(j, "queued", jobs[j].retries + 1)
          PROVE  MarkRetry(w)
      <4>1. jobs[j].state = "running"
        BY <2>3, <3>4
      <4> QED
        BY <3>4, <4>1
        DEF RowBecomes, ProcessNextJob, ClaimSelect, ClaimCommit, GetTenant, UpsertLoad,
            UpsertCommit, MarkDone, MarkNotFound, Raise, RaiseAfterCommit, MarkDeadLetter, Crash
    <3> QED
      BY <1>4, <3>1, <3>2, <3>3, <3>4 DEF WorkerRow
  <2>8. ASSUME NEW k \in Tenants, k # j PROVE PunctualRow(k)'
    BY <1>0, <2>1, <2>8 DEF BackoffInv, PunctualRow
  <2> QED
    BY <1>2, <2>2, <2>7, <2>8 DEF BackoffInv
<1> QED
  BY <1>0, <1>3, <1>4, WorkerJobStep

LEMMA BackoffInvariant ==
  ASSUME ~LostCommitAcks
  PROVE  Spec => []BackoffInv
<1>1. Init => BackoffInv
  BY DEF Init, BackoffInv, PunctualRow, PunctualClaim, IdleWorker, NoJobRow
<1>2. ASSUME LeaseInv, BudgetInv, BackoffInv, [Next]_vars PROVE BackoffInv'
  <2>0. TypeOK /\ clock \in Nat
    BY <1>2 DEF LeaseInv, TypeOK
  <2>1. ASSUME NEW t \in Tenants, CreateTenant(t) PROVE BackoffInv'
    <3>1. /\ worker' = worker /\ clock' = clock
      BY <2>1 DEF CreateTenant, CreateTenantSave, CreateTenantEnqueue, CreateTenantFails, EnqueueOrphan
    <3>2. \A k \in Tenants : jobs[k].state # "absent" => jobs'[k] = jobs[k]
      BY <2>0, <2>1, CreateTenantJobStep DEF RowBecomes
    <3>3. ASSUME NEW k \in Tenants PROVE PunctualRow(k)'
      <4>1. CASE jobs'[k] = jobs[k]
        BY <1>2, <3>1, <4>1 DEF BackoffInv, PunctualRow
      <4>2. CASE jobs'[k] # jobs[k]
        <5>1. /\ jobs'[k].state = "queued" /\ jobs'[k].retries = 0
              /\ jobs'[k].created_at = clock /\ jobs'[k].available_at = clock
          BY <2>0, <2>1, <4>2, CreateTenantJobStep DEF RowBecomes
        <5>2. Waited(0) = 0
          BY MaxAttemptsType, WaitedSum
        <5> QED
          BY <2>0, <5>1, <5>2 DEF PunctualRow
      <4> QED
        BY <4>1, <4>2
    <3>4. ASSUME NEW w \in Workers PROVE PunctualClaim(w)'
      <4>1. worker[w].pc = "claiming" =>
               worker[w].job \in Tenants /\ jobs[worker[w].job].state # "absent"
        BY <1>2 DEF LeaseInv, TypeOK, Lease
      <4> QED
        BY <1>2, <3>1, <3>2, <4>1 DEF BackoffInv, PunctualClaim
    <3> QED
      BY <3>3, <3>4 DEF BackoffInv
  <2>2. CASE UNCHANGED <<jobs, worker, clock>>
    BY <1>2, <2>2 DEF BackoffInv, PunctualRow, PunctualClaim
  <2>3. ASSUME NEW a \in Admins, UpdateTenantPlan(a) PROVE UNCHANGED <<jobs, worker, clock>>
    BY <2>3 DEF UpdateTenantPlan, PatchGetTenant, PatchLoad, PatchCommit, PatchFails
  <2>4. CASE Tick
    <3>1. clock' = clock + 1 /\ UNCHANGED <<jobs, worker>>
      BY <2>4 DEF Tick
    <3>2. ASSUME NEW t \in Tenants PROVE PunctualRow(t)'
      <4>1. jobs[t].state = "running" =>
               /\ jobs[t].retries \in Nat /\ jobs[t].retries < MaxAttempts
               /\ jobs[t].created_at \in Nat
        BY <1>2, <2>0 DEF TypeOK, ProvisioningJobRow, BudgetInv, RetryBudget
      <4>2. jobs[t].state = "running" => Waited(jobs[t].retries) \in Nat
        BY <4>1, WaitedSum
      <4> QED
        BY <1>2, <2>0, <3>1, <4>1, <4>2 DEF BackoffInv, PunctualRow
    <3>3. ASSUME NEW w \in Workers PROVE PunctualClaim(w)'
      <4>1. worker[w].pc = "claiming" => jobs[worker[w].job].available_at \in Nat
        BY <2>0 DEF TypeOK, ProvisioningJobRow
      <4> QED
        BY <1>2, <2>0, <3>1, <4>1 DEF BackoffInv, PunctualClaim
    <3> QED
      BY <3>2, <3>3 DEF BackoffInv
  <2> QED
    BY <1>2, <2>1, <2>2, <2>3, <2>4, WorkerBackoff DEF Next, Poll, vars
<1> QED
  BY <1>1, <1>2, LeaseInvariant, BudgetInvariant, PTL DEF Spec

\* Where a commit that takes effect is always answered, no attempt that
\* follows k failures starts before the k delays between them have passed.
THEOREM AttemptsAreNotEarly ==
  ASSUME ~LostCommitAcks
  PROVE  Spec => []EarliestAttempt
<1>1. BackoffInv => EarliestAttempt
  BY DEF BackoffInv, PunctualRow, EarliestAttempt, Waited
<1> QED
  BY <1>1, BackoffInvariant, PTL

=============================================================================
