--------------------------- MODULE QueueBackends ---------------------------
(***************************************************************************)
(* The provisioning queue behind its backends.  The jobs are kept by a     *)
(* delegate: the Postgres queue, or the in-memory queue whose operations   *)
(* take no lock.  Around it there may be a transport that sends a signal   *)
(* for each job: a Storage Queue, whose messages come back unless they are *)
(* deleted with the receipt of their last delivery, or a Service Bus that  *)
(* forgets a message once it is received.                                  *)
(*                                                                         *)
(* Threads of one process, which share _inflight, call process_next_job.   *)
(* What it does to tenants is modelled by Provisioning, as are failures of *)
(* the database and the deaths of workers, and is here only an outcome.    *)
(* Times are left out: a message that is hidden for a while may be         *)
(* received again at any time, and a job to be retried, whose delay may be *)
(* 0, may be due at any time.                                              *)
(***************************************************************************)
EXTENDS Integers, FiniteSets, Sequences

CONSTANTS
    Deployments,   \* the settings that processes are started with
    Jobs,          \* job ids
    Threads,       \* threads that call process_next_job
    NoJob,         \* a thread's job when it has none
    MaxAttempts,   \* attempts given to a job
    MaxFaults      \* bound: how many calls of the transport fail

VARIABLES
    backend,    \* the delegate and the transport chosen when the process started
    jobs,       \* the delegate's jobs
    creation,   \* how far the enqueue of each job has come
    thread,     \* each thread's place in process_next_job and its locals
    unheld,     \* messages in the transport's queue without a valid receipt
    inflight,   \* _inflight: the receipt noted when each job was claimed
    faults      \* how many calls of the transport have failed

vars == <<backend, jobs, creation, thread, unheld, inflight, faults>>

-----------------------------------------------------------------------------
(* The choice of the backend from the settings, in _build_context.         *)

Settings ==
    [dsn : BOOLEAN, backend : {"database", "storage_queue", "service_bus", "other"},
     managed_identity : BOOLEAN, endpoint : BOOLEAN,
     allow_api_key_fallback : BOOLEAN, connection_string : BOOLEAN]

Delegate(s) == IF s.dsn THEN "database" ELSE "memory"

\* "refused" is a RuntimeError: the process does not start.
ResolveQueueBackend(s) ==
    IF s.backend = "database" THEN "none"
    ELSE IF s.backend = "other" \/ ~(s.managed_identity \/ s.allow_api_key_fallback) THEN "refused"
    ELSE IF IF s.managed_identity THEN s.endpoint ELSE s.connection_string THEN s.backend
    ELSE "none"

Backends ==
    {[delegate |-> Delegate(s), transport |-> ResolveQueueBackend(s)] :
        s \in {x \in Deployments : ResolveQueueBackend(x) # "refused"}}

-----------------------------------------------------------------------------
(* State.                                                                  *)

ASSUME BackendsAssumption ==
    /\ Deployments \subseteq Settings
    /\ IsFiniteSet(Jobs) /\ NoJob \notin Jobs
    /\ IsFiniteSet(Threads)
    /\ MaxAttempts \in Nat \ {0}
    /\ MaxFaults \in Nat

NoJobRow == [state |-> "absent", retries |-> 0]

IdleThread ==
    [pc |-> "idle", job |-> NoJob, retries |-> 0, receipt |-> "none",
     op |-> "none", todo |-> <<>>, read |-> 0]

\* A receipt is valid until its message is delivered once more.
Receipts == {"none", "valid", "stale"}

Init ==
    /\ backend \in Backends
    /\ jobs = [j \in Jobs |-> NoJobRow]
    /\ creation = [j \in Jobs |-> "new"]
    /\ thread = [t \in Threads |-> IdleThread]
    /\ unheld = 0
    /\ inflight = [j \in Jobs |-> "none"]
    /\ faults = 0

-----------------------------------------------------------------------------
(* The transport.  Messages are alike, as nothing looks at the job id in   *)
(* them: what counts is how many there are and who holds a valid receipt.  *)

SendSignal == unheld' = unheld + 1

\* A message is left behind by the holder of its receipt.
LeftBehind(receipt) == IF receipt = "valid" THEN unheld + 1 ELSE unheld

Fault ==
    /\ faults < MaxFaults
    /\ faults' = faults + 1

-----------------------------------------------------------------------------
(* enqueue: the delegate inserts the job, then the signal goes out.  The   *)
(* idempotency key holds a fresh tenant id, so it is never taken.          *)

EnqueueInsert(j) ==
    /\ creation[j] = "new"
    /\ jobs' = [jobs EXCEPT ![j].state = "queued"]
    /\ creation' = [creation EXCEPT ![j] = IF backend.transport = "none" THEN "ended" ELSE "sending"]
    /\ UNCHANGED <<backend, thread, unheld, inflight, faults>>

EnqueueSignal(j) ==
    /\ creation[j] = "sending"
    /\ SendSignal
    /\ creation' = [creation EXCEPT ![j] = "ended"]
    /\ UNCHANGED <<backend, jobs, thread, inflight, faults>>

\* send_message raises: the client is told of an error, and the job is queued.
EnqueueSignalFails(j) ==
    /\ creation[j] = "sending"
    /\ Fault
    /\ SendSignal \/ UNCHANGED unheld
    /\ creation' = [creation EXCEPT ![j] = "ended"]
    /\ UNCHANGED <<backend, jobs, thread, inflight>>

-----------------------------------------------------------------------------
(* claim_next: a signal is received, if there is one, and then the         *)
(* delegate is asked for a job, whether there was a signal or not and      *)
(* whatever job it was sent for.                                           *)

Claiming(t, receipt) == [thread EXCEPT ![t].pc = "claiming", ![t].receipt = receipt]

\* A message that nobody holds, one whose receipt becomes stale because its
\* time of being hidden has passed, or none.
ReceiveFromStorageQueue(t) ==
    /\ thread[t].pc = "idle"
    /\ backend.transport = "storage_queue"
    /\ \/ /\ unheld > 0 /\ unheld' = unheld - 1
          /\ thread' = Claiming(t, "valid")
          /\ UNCHANGED inflight
       \/ /\ \E u \in Threads : /\ thread[u].receipt = "valid"
                               /\ thread' = [Claiming(t, "valid") EXCEPT ![u].receipt = "stale"]
          /\ UNCHANGED <<unheld, inflight>>
       \/ /\ \E j \in Jobs : inflight[j] = "valid" /\ inflight' = [inflight EXCEPT ![j] = "stale"]
          /\ thread' = Claiming(t, "valid")
          /\ UNCHANGED unheld
       \/ thread' = Claiming(t, "none") /\ UNCHANGED <<unheld, inflight>>
    /\ UNCHANGED <<backend, jobs, creation, faults>>

\* Without a message the delegate is not asked.
ClaimOnSignalOnly(t) ==
    /\ thread[t].pc = "idle"
    /\ backend.transport = "service_bus"
    /\ IF unheld > 0
       THEN unheld' = unheld - 1 /\ thread' = Claiming(t, "none")
       ELSE UNCHANGED <<unheld, thread>>
    /\ UNCHANGED <<backend, jobs, creation, inflight, faults>>

\* RECEIVE_AND_DELETE: the message is gone, whatever comes of it.
ReceiveFromServiceBus(t) ==
    /\ thread[t].pc = "idle"
    /\ backend.transport = "service_bus"
    /\ \/ unheld > 0 /\ unheld' = unheld - 1
       \/ UNCHANGED unheld
    /\ thread' = Claiming(t, "none")
    /\ UNCHANGED <<backend, jobs, creation, inflight, faults>>

\* The call raises out of process_next_job; Service Bus may have handed out,
\* and so forgotten, a message.
ReceiveSignalFails(t) ==
    /\ thread[t].pc = "idle"
    /\ backend.transport # "none"
    /\ Fault
    /\ \/ UNCHANGED unheld
       \/ backend.transport = "service_bus" /\ unheld > 0 /\ unheld' = unheld - 1
    /\ UNCHANGED <<backend, jobs, creation, thread, inflight>>

ReadyToClaim(t) == thread[t].pc = IF backend.transport = "none" THEN "idle" ELSE "claiming"

Claimable == {j \in Jobs : jobs[j].state = "queued"}

\* The job is running, its copy is with the thread and the receipt is noted
\* in _inflight, over whatever was there.
Claim(t, j) ==
    LET receipt == thread[t].receipt
        noted == backend.transport = "storage_queue" /\ receipt # "none"
    IN  /\ jobs' = [jobs EXCEPT ![j].state = "running"]
        /\ thread' = [thread EXCEPT ![t] =
                        [@ EXCEPT !.pc = "working", !.job = j, !.retries = jobs[j].retries,
                                  !.receipt = "none"]]
        /\ inflight' = IF noted THEN [inflight EXCEPT ![j] = receipt] ELSE inflight
        /\ unheld' = IF noted THEN LeftBehind(inflight[j]) ELSE unheld
        /\ UNCHANGED <<backend, creation, faults>>

\* One transaction, with the row locked: see Provisioning.
ClaimInDatabase(t) ==
    /\ ReadyToClaim(t)
    /\ backend.delegate = "database"
    /\ \E j \in Claimable : Claim(t, j)

\* The in-memory queue finds a job that is queued ...
PickInMemory(t) ==
    /\ ReadyToClaim(t)
    /\ backend.delegate = "memory"
    /\ \E j \in Claimable :
          thread' = [thread EXCEPT ![t] = [@ EXCEPT !.pc = "picked", !.job = j]]
    /\ UNCHANGED <<backend, jobs, creation, unheld, inflight, faults>>

\* ... and sets it running, whatever it is by then.
ClaimInMemory(t) ==
    /\ thread[t].pc = "picked"
    /\ Claim(t, thread[t].job)

\* No job, or only jobs to be retried that are not due yet: a message that was
\* received stays in the Storage Queue.
ClaimNothing(t) ==
    /\ ReadyToClaim(t)
    /\ \A j \in Claimable : jobs[j].retries > 0
    /\ thread' = [thread EXCEPT ![t] = IdleThread]
    /\ unheld' = IF backend.transport = "storage_queue" THEN LeftBehind(thread[t].receipt) ELSE unheld
    /\ UNCHANGED <<backend, jobs, creation, inflight, faults>>

-----------------------------------------------------------------------------
(* Settling a job: the delegate's write first, then the deletion of the    *)
(* message, then the signal for the retry or the dead-letter message.      *)

\* The calls inside the try block of process_next_job.
TryBlock == {"done", "not_found"}

\* The database writes a row in one transaction.  The in-memory queue assigns
\* the state, then the count.
StoreSteps(op) ==
    IF backend.delegate = "memory" /\ op # "done" THEN <<"marking", "counting">> ELSE <<"writing">>

StorageQueueSteps(op) == IF op = "done" THEN <<"acking">> ELSE <<"acking", "sending">>

ServiceBusSteps(op) == IF op = "done" THEN <<>> ELSE <<"sending">>

TransportSteps(op) ==
    IF backend.transport = "storage_queue" THEN StorageQueueSteps(op)
    ELSE IF backend.transport = "service_bus" THEN ServiceBusSteps(op) ELSE <<>>

AckFirst(op) == TransportSteps(op) \o StoreSteps(op)

Steps(op) == StoreSteps(op) \o TransportSteps(op)

Settle(t, op) ==
    thread' = [thread EXCEPT ![t] = [@ EXCEPT !.pc = "settling", !.op = op, !.todo = Steps(op)]]

Doing(t, step) == thread[t].pc = "settling" /\ Head(thread[t].todo) = step

Advance(t) ==
    thread' = [thread EXCEPT ![t] =
                 IF Len(@.todo) = 1 THEN IdleThread ELSE [@ EXCEPT !.todo = Tail(thread[t].todo)]]

OneAttemptMore(t) == IF thread[t].retries >= MaxAttempts THEN "dead_letter" ELSE "retry"

AfterException(t) == IF thread[t].retries + 1 >= MaxAttempts THEN "dead_letter" ELSE "retry"

\* The attempt succeeds, does not find its tenant, or raises.
Work(t) ==
    /\ thread[t].pc = "working"
    /\ \E op \in TryBlock \cup {AfterException(t)} : Settle(t, op)
    /\ UNCHANGED <<backend, jobs, creation, unheld, inflight, faults>>

\* A transport call raises.  In the try block the except block takes over; in
\* the except block the exception ends the request, or the worker.
Raise(t) ==
    IF thread[t].op \in TryBlock
    THEN Settle(t, AfterException(t))
    ELSE thread' = [thread EXCEPT ![t] = IdleThread]

MisspeltState(op) ==
    IF op = "done" THEN "done" ELSE IF op = "retry" THEN "Queued" ELSE "dead_letter"

StateAfter(op) ==
    IF op = "done" THEN "done" ELSE IF op = "retry" THEN "queued" ELSE "dead_letter"

Write(t) ==
    LET op == thread[t].op
    IN  /\ Doing(t, "writing")
        /\ jobs' = [jobs EXCEPT ![thread[t].job] =
                      [state |-> StateAfter(op),
                       retries |-> IF op = "done" THEN @.retries ELSE @.retries + 1]]
        /\ Advance(t)
        /\ UNCHANGED <<backend, creation, unheld, inflight, faults>>

Mark(t) ==
    LET j == thread[t].job
    IN  /\ Doing(t, "marking")
        /\ jobs' = [jobs EXCEPT ![j].state = StateAfter(thread[t].op)]
        /\ thread' = [thread EXCEPT ![t] =
                        [@ EXCEPT !.todo = Tail(thread[t].todo), !.read = jobs[j].retries]]
        /\ UNCHANGED <<backend, creation, unheld, inflight, faults>>

\* retries += 1, its value read at any time since the state was assigned.
Count(t) ==
    LET j == thread[t].job
    IN  /\ Doing(t, "counting")
        /\ \E read \in {thread[t].read, jobs[j].retries} :
              jobs' = [jobs EXCEPT ![j].retries = read + 1]
        /\ Advance(t)
        /\ UNCHANGED <<backend, creation, unheld, inflight, faults>>

\* A message is deleted with a valid receipt; a stale one makes the call raise.
AckSignal(t) ==
    LET j == thread[t].job
    IN  /\ Doing(t, "acking")
        /\ inflight' = [inflight EXCEPT ![j] = "none"]
        /\ IF inflight[j] = "stale" THEN Raise(t) ELSE Advance(t)
        /\ UNCHANGED <<backend, jobs, creation, unheld, faults>>

\* delete_message fails, perhaps after it has deleted the message.
AckSignalFails(t) ==
    LET j == thread[t].job
    IN  /\ Doing(t, "acking")
        /\ inflight[j] = "valid"
        /\ Fault
        /\ inflight' = [inflight EXCEPT ![j] = "none"]
        /\ unheld' = unheld + 1 \/ UNCHANGED unheld
        /\ Raise(t)
        /\ UNCHANGED <<backend, jobs, creation>>

\* The signal for a retry; a dead-letter message goes to a queue of its own,
\* which nobody here reads.
Sent(t) == IF thread[t].op = "retry" THEN SendSignal ELSE UNCHANGED unheld

SendAfter(t) ==
    /\ Doing(t, "sending")
    /\ Sent(t)
    /\ Advance(t)
    /\ UNCHANGED <<backend, jobs, creation, inflight, faults>>

SendAfterFails(t) ==
    /\ Doing(t, "sending")
    /\ Fault
    /\ Sent(t) \/ UNCHANGED unheld
    /\ Raise(t)
    /\ UNCHANGED <<backend, jobs, creation, inflight>>

-----------------------------------------------------------------------------

Enqueue(j) ==
    EnqueueInsert(j) \/ EnqueueSignal(j) \/ EnqueueSignalFails(j)

ClaimNext(t) ==
    \/ ReceiveFromStorageQueue(t) \/ ReceiveFromServiceBus(t) \/ ReceiveSignalFails(t)
    \/ ClaimInDatabase(t) \/ PickInMemory(t) \/ ClaimInMemory(t) \/ ClaimNothing(t)

SettleJob(t) ==
    \/ Work(t) \/ Write(t) \/ Mark(t) \/ Count(t)
    \/ AckSignal(t) \/ AckSignalFails(t) \/ SendAfter(t) \/ SendAfterFails(t)

Next ==
    \/ \E j \in Jobs : Enqueue(j)
    \/ \E t \in Threads : ClaimNext(t) \/ SettleJob(t)

Spec == Init /\ [][Next]_vars

\* Every thread goes on calling process_next_job, a request that has begun to
\* enqueue a job ends, and a job's delay passes while it is being asked for.
\* Nothing obliges a message to be received.
FairSpec ==
    /\ Spec
    /\ \A t \in Threads : WF_vars(ClaimNext(t) \/ SettleJob(t))
    /\ \A j \in Jobs : WF_vars(creation[j] # "new" /\ Enqueue(j))
    /\ SF_vars(\E t \in Threads : ClaimInDatabase(t) \/ PickInMemory(t))

-----------------------------------------------------------------------------
(* Properties.                                                             *)

\* The values that the jobs, the messages, the threads' locals and the
\* counters may have.
TypeOK ==
    /\ backend \in [delegate : {"database", "memory"},
                    transport : {"none", "storage_queue", "service_bus"}]
    /\ jobs \in [Jobs -> [state : {"absent", "queued", "running", "done", "dead_letter"},
                          retries : Nat]]
    /\ creation \in [Jobs -> {"new", "sending", "ended"}]
    /\ \A t \in Threads :
          /\ thread[t].pc \in {"idle", "claiming", "picked", "working", "settling"}
          /\ thread[t].job \in Jobs \cup {NoJob}
          /\ thread[t].pc = "settling" => thread[t].todo # <<>> /\ thread[t].job \in Jobs
    /\ unheld \in Nat
    /\ inflight \in [Jobs -> Receipts]
    /\ faults \in 0..MaxFaults

\* A job that is running is in the hands of a thread: whichever call of the
\* transport raises while a job is being settled, and whether the exception
\* goes to the except block or out of process_next_job, the delegate has been
\* written before and the job can be claimed again or has come to rest.
RunningIsHeld ==
    \A j \in Jobs : jobs[j].state = "running" => \E t \in Threads : thread[t].job = j

\* Over a database a job's retries go beyond its attempts only where a call of
\* the transport raises after the job was dead-lettered: the except block then
\* counts the attempt again, and may queue the job once more.  This happens to
\* one attempt below the limit and to the last one at most.
RetriesBound ==
    backend.delegate = "database" =>
        \A j \in Jobs :
            jobs[j].retries <= MaxAttempts + (IF backend.transport = "none" THEN 0
                                              ELSE IF backend.transport = "service_bus" THEN faults
                                              ELSE 2)

\* Every job that is enqueued comes to rest, done or dead-lettered, and stays
\* so, behind each backend of the deployments: without a signal, with a signal
\* meant for another job, with signals lost or delivered twice over a database,
\* and with threads that claim one in-memory job together.
JobsSettle == <>[](\A j \in Jobs : jobs[j].state \in {"absent", "done", "dead_letter"})

=============================================================================
