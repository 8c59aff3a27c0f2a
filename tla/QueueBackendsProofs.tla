------------------------ MODULE QueueBackendsProofs ------------------------
(***************************************************************************)
(* Proofs about the provisioning queue behind any of its backends, for any *)
(* number of jobs, threads, attempts and failures of the transport.        *)
(***************************************************************************)
EXTENDS QueueBackends, SequenceTheorems, TLAPS

-----------------------------------------------------------------------------
(* The steps of settling a job.                                            *)

Ops == {"done", "not_found", "retry", "dead_letter"}

\* The calls that the chosen backend makes.
Allowed ==
    (IF backend.delegate = "memory" THEN {"writing", "marking", "counting"} ELSE {"writing"})
      \cup (IF backend.transport = "storage_queue" THEN {"acking", "sending"}
            ELSE IF backend.transport = "service_bus" THEN {"sending"} ELSE {})

\* The delegate's state is written first and once, a count follows a mark.
WellFormed(todo) ==
    /\ todo \in Seq(Allowed)
    /\ todo # <<>>
    /\ \A i \in 1..Len(todo) : todo[i] \in {"writing", "marking"} => i = 1
    /\ todo[1] = "marking" => Len(todo) > 1

BackendType ==
    backend \in [delegate : {"database", "memory"},
                 transport : {"none", "storage_queue", "service_bus"}]

LEMMA HeadIsFirst ==
  ASSUME NEW S, NEW s \in Seq(S), s # <<>>
  PROVE  Head(s) = s[1]
  OBVIOUS

LEMMA StepsWellFormed ==
  ASSUME BackendType, NEW op \in Ops
  PROVE  WellFormed(Steps(op)) /\ Head(Steps(op)) \in {"writing", "marking"}
<1> DEFINE s == StoreSteps(op)
           t == TransportSteps(op)
<1>1. /\ s \in Seq(Allowed) /\ Len(s) \in {1, 2} /\ s[1] \in {"writing", "marking"}
      /\ s[1] = "marking" => Len(s) = 2
      /\ Len(s) = 2 => s[2] = "counting"
  <2>1. CASE backend.delegate = "memory" /\ op # "done"
    BY <2>1 DEF StoreSteps, Allowed
  <2>2. CASE ~(backend.delegate = "memory" /\ op # "done")
    BY <2>2 DEF StoreSteps, Allowed
  <2> QED
    BY <2>1, <2>2
<1>2. t \in Seq(Allowed) /\ \A i \in 1..Len(t) : t[i] \in {"acking", "sending"}
  <2>1. CASE backend.transport = "storage_queue"
    <3>1. t \in {<<"acking">>, <<"acking", "sending">>} /\ {"acking", "sending"} \subseteq Allowed
      BY <2>1 DEF TransportSteps, StorageQueueSteps, Allowed
    <3> HIDE DEF t
    <3>2. CASE t = <<"acking">>
      BY <3>1, <3>2
    <3>3. CASE t = <<"acking", "sending">>
      BY <3>1, <3>3
    <3> QED
      BY <3>1, <3>2, <3>3
  <2>2. CASE backend.transport = "service_bus"
    <3>1. t \in {<<>>, <<"sending">>} /\ "sending" \in Allowed
      BY <2>2 DEF TransportSteps, ServiceBusSteps, Allowed
    <3> HIDE DEF t
    <3>2. CASE t = <<>>
      BY <3>2, EmptySeq
    <3>3. CASE t = <<"sending">>
      BY <3>1, <3>3
    <3> QED
      BY <3>1, <3>2, <3>3
  <2>3. CASE backend.transport = "none"
    BY <2>3 DEF TransportSteps, Allowed
  <2> QED
    BY <2>1, <2>2, <2>3 DEF BackendType
<1>3. Steps(op) = s \o t
  BY DEF Steps
<1> HIDE DEF s, t
<1>4. /\ s \o t \in Seq(Allowed) /\ Len(s \o t) = Len(s) + Len(t) /\ Len(t) \in Nat
      /\ \A i \in 1..(Len(s) + Len(t)) : (s \o t)[i] = IF i <= Len(s) THEN s[i] ELSE t[i - Len(s)]
  BY <1>1, <1>2, ConcatProperties, LenProperties
<1>5. ASSUME NEW i \in 1..Len(s \o t), (s \o t)[i] \in {"writing", "marking"} PROVE i = 1
  <2>1. CASE i <= Len(s)
    BY <1>1, <1>4, <1>5, <2>1
  <2>2. CASE i > Len(s)
    <3>1. i - Len(s) \in 1..Len(t) /\ (s \o t)[i] = t[i - Len(s)]
      BY <1>1, <1>4, <2>2
    <3> QED
      BY <1>2, <1>5, <3>1
  <2> QED
    BY <1>1, <2>1, <2>2
<1>6. (s \o t)[1] = s[1] /\ s \o t # <<>>
  BY <1>1, <1>4
<1>7. Head(s \o t) = s[1]
  BY <1>4, <1>6
<1> QED
  BY <1>1, <1>3, <1>4, <1>5, <1>6, <1>7 DEF WellFormed

\* What is left after a step is well formed again and writes no state.
LEMMA TailWellFormed ==
  ASSUME NEW todo \in Seq(Allowed), WellFormed(todo), Len(todo) # 1
  PROVE  WellFormed(Tail(todo)) /\ Head(Tail(todo)) \notin {"writing", "marking"}
<1>1. /\ todo \in Seq(Allowed) /\ Len(todo) \in Nat /\ Len(todo) > 1
  <2>1. todo \in Seq(Allowed) /\ todo # <<>>
    BY DEF WellFormed
  <2>2. Len(todo) \in Nat \ {0}
    BY <2>1, EmptySeq
  <2>3. \A n \in Nat \ {0} : n # 1 => n > 1
    OBVIOUS
  <2> QED
    BY <2>1, <2>2, <2>3
<1>2. /\ Tail(todo) \in Seq(Allowed) /\ Len(Tail(todo)) = Len(todo) - 1
      /\ \A i \in 1..Len(Tail(todo)) : Tail(todo)[i] = todo[i + 1]
  BY <1>1, HeadTailProperties
<1>3. \A i \in 1..Len(Tail(todo)) : Tail(todo)[i] \notin {"writing", "marking"}
  BY <1>1, <1>2 DEF WellFormed
<1>4. Tail(todo) # <<>> /\ Head(Tail(todo)) = Tail(todo)[1]
  <2>1. Len(Tail(todo)) # 0 /\ Len(<<>>) = 0
    BY <1>1, <1>2
  <2>2. Tail(todo) \in Seq(Allowed)
    BY <1>2
  <2>3. Tail(todo) # <<>>
    BY <2>1, Zenon
  <2> QED
    BY <2>2, <2>3, HeadIsFirst
<1>5. 1 \in 1..Len(Tail(todo))
  BY <1>1, <1>2
<1> QED
  BY <1>1, <1>2, <1>3, <1>4, <1>5 DEF WellFormed

-----------------------------------------------------------------------------
(* Types.                                                                  *)

ThreadState ==
    [pc : {"idle", "claiming", "picked", "working", "settling"}, job : Jobs \cup {NoJob},
     retries : Nat, receipt : Receipts, op : Ops \cup {"none"}, todo : Seq(Allowed), read : Nat]

JobRow == [state : {"absent", "queued", "running", "done", "dead_letter"}, retries : Nat]

\* A thread that has a job, and one that settles it.
Busy(t) ==
    /\ thread[t].pc \in {"picked", "working", "settling"} => thread[t].job \in Jobs
    /\ thread[t].pc = "picked" => backend.delegate = "memory"
    /\ thread[t].pc = "settling" => WellFormed(thread[t].todo) /\ thread[t].op \in Ops

Types ==
    /\ BackendType
    /\ jobs \in [Jobs -> JobRow]
    /\ creation \in [Jobs -> {"new", "sending", "ended"}]
    /\ thread \in [Threads -> ThreadState]
    /\ \A t \in Threads : Busy(t)
    /\ unheld \in Nat
    /\ inflight \in [Jobs -> Receipts]
    /\ faults \in 0..MaxFaults

LEMMA IdleType == IdleThread \in ThreadState /\ IdleThread.pc = "idle" /\ IdleThread.job = NoJob
  BY EmptySeq DEF IdleThread, ThreadState, Receipts

\* A step that replaces the locals of one thread.
LEMMA ThreadSet ==
  ASSUME thread \in [Threads -> ThreadState], NEW t \in Threads, NEW new \in ThreadState,
         thread' = [thread EXCEPT ![t] = new]
  PROVE  /\ thread' \in [Threads -> ThreadState]
         /\ thread'[t] = new
         /\ \A q \in Threads \ {t} : thread'[q] = thread[q]
  OBVIOUS

\* The locals that matter but for the receipt.
Keeps(q) ==
    /\ thread'[q].pc = thread[q].pc /\ thread'[q].job = thread[q].job
    /\ thread'[q].retries = thread[q].retries /\ thread'[q].op = thread[q].op
    /\ thread'[q].todo = thread[q].todo

\* The other threads keep theirs, and the tables of the transport their types.
Frame(t) ==
    /\ thread' \in [Threads -> ThreadState]
    /\ \A q \in Threads \ {t} : Keeps(q)
    /\ UNCHANGED <<backend, creation>>
    /\ unheld' \in Nat /\ inflight' \in [Jobs -> Receipts]
    /\ faults' \in 0..MaxFaults /\ faults <= faults'

\* The row of one job changes.
RowChanges(j, state, retries) ==
    /\ jobs' \in [Jobs -> JobRow]
    /\ jobs'[j].state = state /\ jobs'[j].retries = retries
    /\ \A k \in Jobs \ {j} : jobs'[k] = jobs[k]

\* What the steps of a thread are to the jobs and to its locals.
Waits(t) ==
    /\ thread[t].pc \in {"idle", "claiming"} /\ thread'[t].pc \in {"idle", "claiming"}
    /\ UNCHANGED jobs

Picks(t) ==
    /\ backend.delegate = "memory" /\ thread[t].pc \in {"idle", "claiming"}
    /\ thread'[t].pc = "picked" /\ thread'[t].job \in Jobs
    /\ UNCHANGED jobs

Claims(t, j) ==
    /\ \/ thread[t].pc = "picked" /\ thread[t].job = j
       \/ thread[t].pc \in {"idle", "claiming"} /\ j \in Claimable
    /\ thread'[t].pc = "working" /\ thread'[t].job = j /\ thread'[t].retries = jobs[j].retries
    /\ RowChanges(j, "running", jobs[j].retries)

Settles(t, op) ==
    /\ thread'[t].pc = "settling" /\ thread'[t].op = op /\ thread'[t].todo = Steps(op)
    /\ thread'[t].job = thread[t].job /\ thread'[t].retries = thread[t].retries

Advances(t) ==
    \/ thread'[t] = IdleThread
    \/ /\ Len(thread[t].todo) # 1
       /\ thread'[t].pc = "settling" /\ thread'[t].op = thread[t].op
       /\ thread'[t].todo = Tail(thread[t].todo)
       /\ thread'[t].job = thread[t].job /\ thread'[t].retries = thread[t].retries

Works(t, op) ==
    /\ thread[t].pc = "working" /\ op \in TryBlock \cup {AfterException(t)}
    /\ Settles(t, op) /\ UNCHANGED jobs

Writes(t) ==
    /\ Doing(t, "writing") /\ Advances(t)
    /\ RowChanges(thread[t].job, StateAfter(thread[t].op),
                  IF thread[t].op = "done" THEN jobs[thread[t].job].retries
                  ELSE jobs[thread[t].job].retries + 1)

Marks(t) ==
    /\ Doing(t, "marking") /\ Advances(t)
    /\ RowChanges(thread[t].job, StateAfter(thread[t].op), jobs[thread[t].job].retries)

Counts(t) ==
    /\ Doing(t, "counting") /\ Advances(t)
    /\ \E n \in Nat : RowChanges(thread[t].job, jobs[thread[t].job].state, n)

Calls(t) ==
    /\ Doing(t, "acking") \/ Doing(t, "sending")
    /\ UNCHANGED jobs
    /\ \/ Advances(t)
       \/ /\ Doing(t, "acking") \/ faults' = faults + 1
          /\ IF thread[t].op \in TryBlock THEN Settles(t, AfterException(t)) ELSE thread'[t] = IdleThread

Effect(t) ==
    \/ Waits(t) \/ Picks(t) \/ Writes(t) \/ Marks(t) \/ Counts(t) \/ Calls(t)
    \/ \E j \in Jobs : Claims(t, j)
    \/ \E op \in Ops : Works(t, op)

LEMMA FaultCounts ==
  ASSUME faults \in 0..MaxFaults, Fault
  PROVE  faults' \in 0..MaxFaults /\ faults <= faults' /\ faults' = faults + 1
  BY BackendsAssumption DEF Fault

LEMMA AdvanceEffect ==
  ASSUME Types, NEW t \in Threads, thread[t].pc = "settling", Advance(t)
  PROVE  /\ thread' \in [Threads -> ThreadState] /\ \A q \in Threads \ {t} : Keeps(q)
         /\ Advances(t)
<1>1. thread[t] \in ThreadState /\ WellFormed(thread[t].todo)
  BY DEF Types, Busy
<1>2. CASE Len(thread[t].todo) = 1
  <2>1. thread' = [thread EXCEPT ![t] = IdleThread]
    BY <1>2 DEF Advance
  <2> QED
    BY <2>1, IdleType, ThreadSet DEF Types, Advances, Keeps
<1>3. CASE Len(thread[t].todo) # 1
  <2> DEFINE new == [thread[t] EXCEPT !.todo = Tail(thread[t].todo)]
  <2>1. thread' = [thread EXCEPT ![t] = new]
    BY <1>3 DEF Advance
  <2>2. Tail(thread[t].todo) \in Seq(Allowed)
    BY <1>1, <1>3, TailWellFormed DEF WellFormed
  <2>3. /\ new \in ThreadState /\ new.pc = "settling" /\ new.op = thread[t].op
        /\ new.todo = Tail(thread[t].todo) /\ new.job = thread[t].job /\ new.retries = thread[t].retries
    BY <1>1, <2>2 DEF ThreadState
  <2> HIDE DEF new
  <2> QED
    BY <1>3, <2>1, <2>3, ThreadSet DEF Types, Advances, Keeps
<1> QED
  BY <1>2, <1>3

LEMMA SettleEffect ==
  ASSUME Types, NEW t \in Threads, NEW op \in Ops, Settle(t, op)
  PROVE  /\ thread' \in [Threads -> ThreadState] /\ \A q \in Threads \ {t} : Keeps(q)
         /\ Settles(t, op)
<1>1. thread[t] \in ThreadState
  BY DEF Types
<1> DEFINE new == [thread[t] EXCEPT !.pc = "settling", !.op = op, !.todo = Steps(op)]
<1>2. thread' = [thread EXCEPT ![t] = new]
  BY DEF Settle
<1>3. Steps(op) \in Seq(Allowed)
  BY StepsWellFormed DEF Types, WellFormed
<1>4. /\ new \in ThreadState /\ new.pc = "settling" /\ new.op = op
      /\ new.todo = Steps(op) /\ new.job = thread[t].job /\ new.retries = thread[t].retries
  BY <1>1, <1>3 DEF ThreadState
<1> HIDE DEF new
<1> QED
  BY <1>2, <1>4, ThreadSet DEF Types, Settles, Keeps

LEMMA AfterExceptionOp == \A t \in Threads : AfterException(t) \in Ops \ TryBlock
  BY DEF AfterException, Ops, TryBlock

LEMMA RaiseEffect ==
  ASSUME Types, NEW t \in Threads, Raise(t)
  PROVE  /\ thread' \in [Threads -> ThreadState] /\ \A q \in Threads \ {t} : Keeps(q)
         /\ IF thread[t].op \in TryBlock THEN Settles(t, AfterException(t)) ELSE thread'[t] = IdleThread
<1>1. CASE thread[t].op \in TryBlock
  BY <1>1, SettleEffect, AfterExceptionOp DEF Raise
<1>2. CASE thread[t].op \notin TryBlock
  <2>1. thread' = [thread EXCEPT ![t] = IdleThread]
    BY <1>2 DEF Raise
  <2> QED
    BY <1>2, <2>1, IdleType, ThreadSet DEF Types, Keeps
<1> QED
  BY <1>1, <1>2

LEMMA RowSet ==
  ASSUME jobs \in [Jobs -> JobRow], NEW j \in Jobs, NEW row \in JobRow,
         jobs' = [jobs EXCEPT ![j] = row]
  PROVE  RowChanges(j, row.state, row.retries)
  BY DEF RowChanges

LEMMA StateSet ==
  ASSUME jobs \in [Jobs -> JobRow], NEW j \in Jobs,
         NEW state \in {"queued", "running", "done", "dead_letter"},
         jobs' = [jobs EXCEPT ![j].state = state]
  PROVE  RowChanges(j, state, jobs[j].retries)
<1>1. jobs[j] \in JobRow
  OBVIOUS
<1> DEFINE row == [jobs[j] EXCEPT !.state = state]
<1>2. row \in JobRow /\ row.state = state /\ row.retries = jobs[j].retries
  BY <1>1 DEF JobRow
<1>3. jobs' = [jobs EXCEPT ![j] = row]
  OBVIOUS
<1> HIDE DEF row
<1> QED
  BY <1>2, <1>3, RowSet

LEMMA RetriesSet ==
  ASSUME jobs \in [Jobs -> JobRow], NEW j \in Jobs, NEW n \in Nat,
         jobs' = [jobs EXCEPT ![j].retries = n]
  PROVE  RowChanges(j, jobs[j].state, n)
<1>1. jobs[j] \in JobRow
  OBVIOUS
<1> DEFINE row == [jobs[j] EXCEPT !.retries = n]
<1>2. row \in JobRow /\ row.state = jobs[j].state /\ row.retries = n
  BY <1>1 DEF JobRow
<1>3. jobs' = [jobs EXCEPT ![j] = row]
  OBVIOUS
<1> HIDE DEF row
<1> QED
  BY <1>2, <1>3, RowSet

LEMMA ClaimingEffect ==
  ASSUME Types, NEW t \in Threads, NEW receipt \in Receipts
  PROVE  /\ Claiming(t, receipt) \in [Threads -> ThreadState]
         /\ Claiming(t, receipt)[t].pc = "claiming"
         /\ \A q \in Threads \ {t} : Claiming(t, receipt)[q] = thread[q]
<1>1. thread[t] \in ThreadState
  BY DEF Types
<1> DEFINE new == [thread[t] EXCEPT !.pc = "claiming", !.receipt = receipt]
<1>2. new \in ThreadState /\ new.pc = "claiming"
  BY <1>1 DEF ThreadState
<1>3. Claiming(t, receipt) = [thread EXCEPT ![t] = new]
  BY DEF Claiming, Types
<1> HIDE DEF new
<1> QED
  BY <1>2, <1>3 DEF Types

LEMMA ReceiveEffect ==
  ASSUME Types, NEW t \in Threads,
         ReceiveFromStorageQueue(t) \/ ReceiveFromServiceBus(t) \/ ReceiveSignalFails(t)
  PROVE  Frame(t) /\ Waits(t)
<1>0. {"none", "valid", "stale"} = Receipts
  BY DEF Receipts
<1>1. ASSUME NEW receipt \in Receipts, thread' = Claiming(t, receipt)
      PROVE  /\ thread' \in [Threads -> ThreadState]
             /\ \A q \in Threads \ {t} : Keeps(q)
             /\ thread'[t].pc = "claiming"
  BY <1>1, ClaimingEffect DEF Keeps
<1>2. unheld > 0 => unheld - 1 \in Nat
  BY DEF Types
<1>3. faults <= faults
  BY DEF Types
<1>4. CASE ReceiveFromStorageQueue(t)
  <2>0. thread[t].pc = "idle" /\ UNCHANGED <<backend, jobs, creation, faults>>
    BY <1>4 DEF ReceiveFromStorageQueue
  <2>1. CASE unheld > 0 /\ unheld' = unheld - 1 /\ thread' = Claiming(t, "valid") /\ UNCHANGED inflight
    BY <1>0, <1>1, <1>2, <1>3, <2>0, <2>1 DEF Types, Frame, Waits
  <2>2. ASSUME NEW u \in Threads, thread[u].receipt = "valid",
               thread' = [Claiming(t, "valid") EXCEPT ![u].receipt = "stale"],
               UNCHANGED <<unheld, inflight>>
        PROVE  Frame(t) /\ Waits(t)
    <3> DEFINE old == Claiming(t, "valid")
    <3>1. /\ old \in [Threads -> ThreadState] /\ old[t].pc = "claiming"
          /\ \A q \in Threads \ {t} : old[q] = thread[q]
      BY <1>0, ClaimingEffect
    <3> HIDE DEF old
    <3> DEFINE new == [old[u] EXCEPT !.receipt = "stale"]
    <3>2. old[u] \in ThreadState
      BY <3>1
    <3>3. /\ new \in ThreadState /\ new.pc = old[u].pc /\ new.job = old[u].job /\ new.op = old[u].op
          /\ new.retries = old[u].retries /\ new.todo = old[u].todo
      BY <1>0, <3>2 DEF ThreadState
    <3>4. thread' = [old EXCEPT ![u] = new]
      BY <2>2 DEF old
    <3> HIDE DEF new
    <3>5. thread' \in [Threads -> ThreadState] /\ thread'[t].pc = "claiming"
      BY <3>1, <3>3, <3>4
    <3>6. \A q \in Threads \ {t} : Keeps(q)
      BY <3>1, <3>3, <3>4 DEF Keeps
    <3> QED
      BY <1>3, <2>0, <2>2, <3>5, <3>6 DEF Types, Frame, Waits
  <2>3. ASSUME NEW j \in Jobs, inflight' = [inflight EXCEPT ![j] = "stale"],
               thread' = Claiming(t, "valid"), UNCHANGED unheld
        PROVE  Frame(t) /\ Waits(t)
    BY <1>0, <1>1, <1>3, <2>0, <2>3 DEF Types, Frame, Waits
  <2>4. CASE thread' = Claiming(t, "none") /\ UNCHANGED <<unheld, inflight>>
    BY <1>0, <1>1, <1>3, <2>0, <2>4 DEF Types, Frame, Waits
  <2> QED
    BY <1>4, <2>1, <2>2, <2>3, <2>4 DEF ReceiveFromStorageQueue
<1>5. CASE ReceiveFromServiceBus(t)
  BY <1>0, <1>1, <1>2, <1>3, <1>5 DEF ReceiveFromServiceBus, Types, Frame, Waits
<1>6. CASE ReceiveSignalFails(t)
  BY <1>2, <1>6, FaultCounts DEF ReceiveSignalFails, Types, Frame, Waits, Keeps
<1> QED
  BY <1>4, <1>5, <1>6

LEMMA LeftBehindType ==
  ASSUME Types, NEW receipt \in Receipts
  PROVE  LeftBehind(receipt) \in Nat
  BY DEF Types, LeftBehind

LEMMA ClaimEffect ==
  ASSUME Types, NEW t \in Threads, NEW j \in Jobs, Claim(t, j),
         \/ thread[t].pc = "picked" /\ thread[t].job = j
         \/ thread[t].pc \in {"idle", "claiming"} /\ j \in Claimable
  PROVE  Frame(t) /\ Claims(t, j)
<1>0. thread[t] \in ThreadState /\ jobs[j] \in JobRow
  BY DEF Types
<1> DEFINE new == [thread[t] EXCEPT !.pc = "working", !.job = j, !.retries = jobs[j].retries,
                                    !.receipt = "none"]
<1>1. thread' = [thread EXCEPT ![t] = new]
  BY DEF Claim
<1>2. jobs[j].retries \in Nat /\ "none" \in Receipts
  BY <1>0 DEF JobRow, Receipts
<1>3. new \in ThreadState /\ new.pc = "working" /\ new.job = j /\ new.retries = jobs[j].retries
  BY <1>0, <1>2 DEF ThreadState
<1> HIDE DEF new
<1>4. /\ thread' \in [Threads -> ThreadState] /\ thread'[t] = new
      /\ \A q \in Threads \ {t} : Keeps(q)
  BY <1>1, <1>3, ThreadSet DEF Types, Keeps
<1>5. RowChanges(j, "running", jobs[j].retries)
  BY StateSet DEF Claim, Types
<1>6. thread[t].receipt \in Receipts /\ inflight[j] \in Receipts
  BY <1>0 DEF ThreadState, Types
<1>7. unheld' \in Nat /\ inflight' \in [Jobs -> Receipts]
  BY <1>6, LeftBehindType DEF Claim, Types
<1>8. UNCHANGED <<backend, creation, faults>> /\ faults <= faults
  BY DEF Claim, Types
<1> QED
  BY <1>3, <1>4, <1>5, <1>7, <1>8 DEF Types, Frame, Claims

LEMMA ClaimNextEffect ==
  ASSUME Types, NEW t \in Threads, ClaimNext(t)
  PROVE  Frame(t) /\ Effect(t)
<1>0. thread[t] \in ThreadState /\ faults <= faults
  BY DEF Types
<1>1. ReadyToClaim(t) => thread[t].pc \in {"idle", "claiming"}
  BY DEF ReadyToClaim
<1>2. CASE ReceiveFromStorageQueue(t) \/ ReceiveFromServiceBus(t) \/ ReceiveSignalFails(t)
  BY <1>2, ReceiveEffect DEF Effect
<1>3. CASE ClaimInDatabase(t)
  <2>1. PICK j \in Claimable : Claim(t, j)
    BY <1>3 DEF ClaimInDatabase
  <2> QED
    BY <1>1, <1>3, <2>1, ClaimEffect DEF ClaimInDatabase, Claimable, Effect
<1>4. CASE PickInMemory(t)
  <2>1. PICK j \in Claimable :
           thread' = [thread EXCEPT ![t] = [thread[t] EXCEPT !.pc = "picked", !.job = j]]
    BY <1>4 DEF PickInMemory
  <2> DEFINE new == [thread[t] EXCEPT !.pc = "picked", !.job = j]
  <2>2. new \in ThreadState /\ new.pc = "picked" /\ new.job = j /\ j \in Jobs
    BY <1>0 DEF ThreadState, Claimable
  <2>3. thread' = [thread EXCEPT ![t] = new]
    BY <2>1
  <2> HIDE DEF new
  <2>4. /\ thread' \in [Threads -> ThreadState] /\ thread'[t] = new
        /\ \A q \in Threads \ {t} : Keeps(q)
    BY <2>2, <2>3, ThreadSet DEF Types, Keeps
  <2> QED
    BY <1>0, <1>1, <1>4, <2>2, <2>4 DEF PickInMemory, Types, Frame, Picks, Effect
<1>5. CASE ClaimInMemory(t)
  <2>1. thread[t].job \in Jobs /\ thread[t].pc = "picked"
    BY <1>5 DEF ClaimInMemory, Types, Busy
  <2> QED
    BY <1>5, <2>1, ClaimEffect DEF ClaimInMemory, Effect
<1>6. CASE ClaimNothing(t)
  <2>1. thread[t].receipt \in Receipts
    BY <1>0 DEF ThreadState
  <2>2. unheld' \in Nat
    BY <1>6, <2>1, LeftBehindType DEF ClaimNothing, Types
  <2>3. /\ thread' \in [Threads -> ThreadState] /\ thread'[t] = IdleThread
        /\ \A q \in Threads \ {t} : Keeps(q)
    BY <1>6, IdleType, ThreadSet DEF ClaimNothing, Types, Keeps
  <2> QED
    BY <1>0, <1>1, <1>6, <2>2, <2>3, IdleType DEF ClaimNothing, Types, Frame, Waits, Effect
<1> QED
  BY <1>2, <1>3, <1>4, <1>5, <1>6 DEF ClaimNext

LEMMA SettleJobEffect ==
  ASSUME Types, NEW t \in Threads, SettleJob(t)
  PROVE  Frame(t) /\ Effect(t)
<1> DEFINE j == thread[t].job
<1>0. thread[t] \in ThreadState /\ faults <= faults
  BY DEF Types
<1>1. ASSUME thread[t].pc = "settling"
      PROVE  j \in Jobs /\ jobs[j] \in JobRow /\ WellFormed(thread[t].todo) /\ thread[t].op \in Ops
  BY <1>1 DEF Types, Busy
<1>2. ASSUME j \in Jobs, jobs[j] \in JobRow
      PROVE  /\ jobs[j].retries \in Nat /\ jobs[j].retries + 1 \in Nat
             /\ StateAfter(thread[t].op) \in {"queued", "done", "dead_letter"}
  BY <1>2 DEF JobRow, StateAfter
<1>3. CASE Work(t)
  <2>1. PICK op \in TryBlock \cup {AfterException(t)} : Settle(t, op)
    BY <1>3 DEF Work
  <2>2. op \in Ops
    BY AfterExceptionOp DEF TryBlock, Ops
  <2> QED
    BY <1>0, <1>3, <2>1, <2>2, SettleEffect DEF Work, Types, Frame, Works, Effect
<1>4. CASE Write(t)
  <2>1. thread[t].pc = "settling" /\ Doing(t, "writing")
    BY <1>4 DEF Write, Doing
  <2> DEFINE row == [state |-> StateAfter(thread[t].op),
                     retries |-> IF thread[t].op = "done" THEN jobs[j].retries ELSE jobs[j].retries + 1]
  <2>2. jobs' = [jobs EXCEPT ![j] = row]
    BY <1>4 DEF Write
  <2>3. row \in JobRow
    BY <1>1, <1>2, <2>1 DEF JobRow
  <2>4. RowChanges(j, row.state, row.retries)
    BY <1>1, <2>1, <2>2, <2>3, RowSet DEF Types
  <2>5. Frame(t) /\ Advances(t)
    BY <1>0, <1>4, <2>1, AdvanceEffect DEF Write, Types, Frame
  <2> QED
    BY <2>1, <2>4, <2>5 DEF Writes, Effect
<1>5. CASE Mark(t)
  <2>1. thread[t].pc = "settling" /\ Doing(t, "marking")
    BY <1>5 DEF Mark, Doing
  <2>2. RowChanges(j, StateAfter(thread[t].op), jobs[j].retries)
    BY <1>1, <1>2, <1>5, <2>1, StateSet DEF Mark, Types
  <2> DEFINE new == [thread[t] EXCEPT !.todo = Tail(thread[t].todo), !.read = jobs[j].retries]
  <2>3. thread' = [thread EXCEPT ![t] = new]
    BY <1>5 DEF Mark
  <2>4. Len(thread[t].todo) # 1
    <3>1. thread[t].todo[1] = "marking" /\ thread[t].todo \in Seq(Allowed)
      BY <1>1, <2>1, HeadIsFirst DEF Doing, WellFormed
    <3>2. Len(thread[t].todo) > 1 /\ Len(thread[t].todo) \in Nat
      BY <1>1, <2>1, <3>1 DEF WellFormed
    <3>3. \A n \in Nat : n > 1 => n # 1
      OBVIOUS
    <3> QED
      BY <3>2, <3>3
  <2>5. Tail(thread[t].todo) \in Seq(Allowed)
    BY <1>1, <2>1, <2>4, TailWellFormed DEF WellFormed
  <2>6. /\ new \in ThreadState /\ new.pc = "settling" /\ new.op = thread[t].op
        /\ new.todo = Tail(thread[t].todo) /\ new.job = j /\ new.retries = thread[t].retries
    BY <1>0, <1>1, <1>2, <2>1, <2>5 DEF ThreadState
  <2> HIDE DEF new
  <2>7. /\ thread' \in [Threads -> ThreadState] /\ thread'[t] = new
        /\ \A q \in Threads \ {t} : Keeps(q)
    BY <2>3, <2>6, ThreadSet DEF Types, Keeps
  <2> QED
    BY <1>0, <1>5, <2>1, <2>2, <2>4, <2>6, <2>7 DEF Mark, Types, Frame, Advances, Marks, Effect
<1>6. CASE Count(t)
  <2>1. thread[t].pc = "settling" /\ Doing(t, "counting")
    BY <1>6 DEF Count, Doing
  <2>2. PICK read \in {thread[t].read, jobs[j].retries} : jobs' = [jobs EXCEPT ![j].retries = read + 1]
    BY <1>6 DEF Count
  <2>3. read + 1 \in Nat
    BY <1>0, <1>1, <1>2, <2>1 DEF ThreadState
  <2>4. RowChanges(j, jobs[j].state, read + 1)
    BY <1>1, <2>1, <2>2, <2>3, RetriesSet DEF Types
  <2>5. Frame(t) /\ Advances(t)
    BY <1>0, <1>6, <2>1, AdvanceEffect DEF Count, Types, Frame
  <2> QED
    BY <2>1, <2>3, <2>4, <2>5 DEF Counts, Effect
<1>7. CASE AckSignal(t)
  <2>1. thread[t].pc = "settling" /\ Doing(t, "acking")
    BY <1>7 DEF AckSignal, Doing
  <2>2. inflight' \in [Jobs -> Receipts]
    BY <1>7 DEF AckSignal, Types, Receipts
  <2>3. CASE inflight[j] = "stale"
    BY <1>0, <1>7, <2>1, <2>2, <2>3, RaiseEffect DEF AckSignal, Types, Frame, Calls, Effect
  <2>4. CASE inflight[j] # "stale"
    BY <1>0, <1>7, <2>1, <2>2, <2>4, AdvanceEffect DEF AckSignal, Types, Frame, Calls, Effect
  <2> QED
    BY <2>3, <2>4
<1>8. CASE AckSignalFails(t)
  <2>1. thread[t].pc = "settling" /\ Doing(t, "acking")
    BY <1>8 DEF AckSignalFails, Doing
  <2>2. inflight' \in [Jobs -> Receipts]
    BY <1>8 DEF AckSignalFails, Types, Receipts
  <2>3. unheld' \in Nat
    BY <1>8 DEF AckSignalFails, Types
  <2> QED
    BY <1>8, <2>1, <2>2, <2>3, RaiseEffect, FaultCounts DEF AckSignalFails, Types, Frame, Calls, Effect
<1>9. CASE SendAfter(t)
  <2>1. thread[t].pc = "settling" /\ Doing(t, "sending")
    BY <1>9 DEF SendAfter, Doing
  <2>2. unheld' \in Nat
    BY <1>9 DEF SendAfter, Sent, SendSignal, Types
  <2> QED
    BY <1>0, <1>9, <2>1, <2>2, AdvanceEffect DEF SendAfter, Types, Frame, Calls, Effect
<1>10. CASE SendAfterFails(t)
  <2>1. thread[t].pc = "settling" /\ Doing(t, "sending")
    BY <1>10 DEF SendAfterFails, Doing
  <2>2. unheld' \in Nat
    BY <1>10 DEF SendAfterFails, Sent, SendSignal, Types
  <2> QED
    BY <1>10, <2>1, <2>2, RaiseEffect, FaultCounts DEF SendAfterFails, Types, Frame, Calls, Effect
<1> QED
  BY <1>3, <1>4, <1>5, <1>6, <1>7, <1>8, <1>9, <1>10 DEF SettleJob

LEMMA ThreadStepTypes ==
  ASSUME Types, NEW t \in Threads, Frame(t), Effect(t)
  PROVE  Types'
<1>0. Allowed' = Allowed /\ BackendType' /\ ThreadState' = ThreadState
  BY DEF Frame, Types, BackendType, Allowed, ThreadState
<1>1. jobs' \in [Jobs -> JobRow]
  BY DEF Types, Effect, Waits, Picks, Writes, Marks, Counts, Calls, Claims, Works, RowChanges
<1>2. ASSUME NEW q \in Threads, q # t PROVE Busy(q)'
  <2>1. Busy(q) /\ Keeps(q) /\ backend' = backend
    BY <1>2 DEF Types, Frame
  <2> QED
    BY <1>0, <2>1 DEF Busy, Keeps, WellFormed
<1>3. Busy(t)'
  <2>1. ASSUME thread'[t].pc \in {"idle", "claiming"} PROVE Busy(t)'
    BY <2>1 DEF Busy
  <2>2. CASE Waits(t)
    BY <2>1, <2>2 DEF Waits
  <2>3. CASE Picks(t)
    BY <2>3 DEF Picks, Busy, Frame
  <2>4. ASSUME NEW j \in Jobs, Claims(t, j) PROVE Busy(t)'
    BY <2>4 DEF Claims, Busy
  <2>5. ASSUME NEW op \in Ops, Settles(t, op), thread[t].job \in Jobs PROVE Busy(t)'
    <3>1. WellFormed(Steps(op))
      BY StepsWellFormed DEF Types
    <3> QED
      BY <1>0, <2>5, <3>1 DEF Settles, Busy, WellFormed
  <2>6. ASSUME thread[t].pc = "settling", Advances(t) PROVE Busy(t)'
    <3>1. WellFormed(thread[t].todo) /\ thread[t].job \in Jobs /\ thread[t].op \in Ops
      BY <2>6 DEF Types, Busy
    <3>2. CASE thread'[t] = IdleThread
      BY <2>1, <3>2, IdleType
    <3>3. CASE thread'[t] # IdleThread
      <4>1. WellFormed(Tail(thread[t].todo))
        BY <2>6, <3>1, <3>3, TailWellFormed DEF Advances, WellFormed
      <4> QED
        BY <1>0, <2>6, <3>1, <3>3, <4>1 DEF Advances, Busy, WellFormed
    <3> QED
      BY <3>2, <3>3
  <2>7. ASSUME NEW op \in Ops, Works(t, op) PROVE Busy(t)'
    BY <2>5, <2>7 DEF Works, Types, Busy
  <2>8. CASE Writes(t) \/ Marks(t) \/ Counts(t)
    BY <2>6, <2>8 DEF Writes, Marks, Counts, Doing
  <2>9. CASE Calls(t)
    <3>1. thread[t].pc = "settling" /\ thread[t].job \in Jobs
      BY <2>9 DEF Calls, Doing, Types, Busy
    <3> QED
      BY <2>1, <2>5, <2>6, <2>9, <3>1, AfterExceptionOp, IdleType DEF Calls
  <2> QED
    BY <2>2, <2>3, <2>4, <2>7, <2>8, <2>9 DEF Effect
<1> QED
  BY <1>0, <1>1, <1>2, <1>3 DEF Types, Frame

\* What the steps of enqueue do.
Creates(j) ==
    /\ UNCHANGED <<backend, thread, inflight>>
    /\ unheld' \in Nat /\ faults' \in 0..MaxFaults /\ faults <= faults'
    /\ creation' \in [Jobs -> {"new", "sending", "ended"}]
    /\ creation'[j] # "new" /\ \A k \in Jobs \ {j} : creation'[k] = creation[k]
    /\ \/ creation[j] = "new" /\ RowChanges(j, "queued", jobs[j].retries)
       \/ creation[j] # "new" /\ UNCHANGED jobs

LEMMA EnqueueEffect ==
  ASSUME Types, NEW j \in Jobs, Enqueue(j)
  PROVE  Creates(j)
<1>0. faults <= faults
  BY DEF Types
<1>1. CASE EnqueueInsert(j)
  <2>1. RowChanges(j, "queued", jobs[j].retries)
    BY <1>1, StateSet DEF EnqueueInsert, Types
  <2> QED
    BY <1>0, <1>1, <2>1 DEF EnqueueInsert, Types, Creates
<1>2. CASE EnqueueSignal(j)
  BY <1>0, <1>2 DEF EnqueueSignal, SendSignal, Types, Creates
<1>3. CASE EnqueueSignalFails(j)
  <2>1. unheld' \in Nat
    BY <1>3 DEF EnqueueSignalFails, SendSignal, Types
  <2> QED
    BY <1>3, <2>1, FaultCounts DEF EnqueueSignalFails, Types, Creates
<1> QED
  BY <1>1, <1>2, <1>3 DEF Enqueue

LEMMA EnqueueTypes ==
  ASSUME Types, NEW j \in Jobs, Creates(j)
  PROVE  Types'
<1>0. Allowed' = Allowed /\ BackendType' /\ ThreadState' = ThreadState
  BY DEF Creates, Types, BackendType, Allowed, ThreadState
<1>1. jobs' \in [Jobs -> JobRow]
  BY DEF Creates, Types, RowChanges
<1>2. \A t \in Threads : Busy(t)'
  BY <1>0 DEF Creates, Types, Busy, WellFormed
<1> QED
  BY <1>0, <1>1, <1>2 DEF Creates, Types

LEMMA ResolvedTransport ==
  ASSUME NEW s \in Deployments, ResolveQueueBackend(s) # "refused"
  PROVE  ResolveQueueBackend(s) \in {"none", "storage_queue", "service_bus"}
<1>1. s.backend \in {"database", "storage_queue", "service_bus", "other"}
  BY BackendsAssumption DEF Settings
<1> QED
  BY <1>1 DEF ResolveQueueBackend

LEMMA InitTypes == Init => Types
<1> SUFFICES ASSUME Init PROVE Types
  OBVIOUS
<1>1. BackendType
  BY ResolvedTransport DEF Init, Backends, Delegate, BackendType
<1>2. jobs \in [Jobs -> JobRow]
  BY DEF Init, NoJobRow, JobRow
<1>3. thread \in [Threads -> ThreadState] /\ \A t \in Threads : Busy(t)
  BY IdleType DEF Init, Busy
<1>4. inflight \in [Jobs -> Receipts] /\ unheld \in Nat /\ faults \in 0..MaxFaults
  BY BackendsAssumption DEF Init, Receipts
<1>5. creation \in [Jobs -> {"new", "sending", "ended"}]
  BY DEF Init
<1> QED
  BY <1>1, <1>2, <1>3, <1>4, <1>5 DEF Types

\* Every step is one of these.
LEMMA StepEffect ==
  ASSUME Types, [Next]_vars
  PROVE  \/ \E t \in Threads : Frame(t) /\ Effect(t)
         \/ \E j \in Jobs : Creates(j)
         \/ UNCHANGED vars
  BY ClaimNextEffect, SettleJobEffect, EnqueueEffect DEF Next

LEMMA StepTypes ==
  ASSUME Types, [Next]_vars
  PROVE  Types'
<1>1. CASE UNCHANGED vars
  BY <1>1 DEF vars, Types, BackendType, Busy, WellFormed, Allowed, ThreadState
<1> QED
  BY <1>1, StepEffect, ThreadStepTypes, EnqueueTypes

LEMMA TypesInvariant == Spec => []Types
  BY InitTypes, StepTypes, PTL DEF Spec

\* The jobs, the messages, the threads' locals and the counters keep their
\* types with every backend: in particular a thread that settles a job always
\* has a step left to do.
THEOREM TypeCorrect == Spec => []TypeOK
<1>1. Types => TypeOK
  <2> SUFFICES ASSUME Types PROVE TypeOK
    OBVIOUS
  <2>1. ASSUME NEW t \in Threads
        PROVE  /\ thread[t].pc \in {"idle", "claiming", "picked", "working", "settling"}
               /\ thread[t].job \in Jobs \cup {NoJob}
               /\ thread[t].pc = "settling" => thread[t].todo # <<>> /\ thread[t].job \in Jobs
    <3>1. thread[t] \in ThreadState /\ Busy(t)
      BY DEF Types
    <3> QED
      BY <3>1 DEF ThreadState, Busy, WellFormed
  <2> QED
    BY <2>1 DEF Types, TypeOK, BackendType, JobRow
<1> QED
  BY <1>1, TypesInvariant, PTL

-----------------------------------------------------------------------------
(* A running job is held.                                                  *)

\* A thread that has yet to write the state of its job.
Ahead(t) ==
    \/ thread[t].pc = "working"
    \/ thread[t].pc = "settling" /\ Head(thread[t].todo) \in {"writing", "marking"}

RunningIsAhead ==
    \A j \in Jobs : jobs[j].state = "running" => \E t \in Threads : thread[t].job = j /\ Ahead(t)

LEMMA KeptAhead ==
  ASSUME NEW q, Keeps(q)
  PROVE  Ahead(q)' <=> Ahead(q)
  BY DEF Keeps, Ahead

LEMMA ThreadStepAhead ==
  ASSUME Types, RunningIsAhead, NEW t \in Threads, Frame(t), Effect(t)
  PROVE  RunningIsAhead'
<1> SUFFICES ASSUME NEW j \in Jobs, jobs'[j].state = "running"
             PROVE  \E q \in Threads : thread'[q].job = j /\ Ahead(q)'
  BY DEF RunningIsAhead
<1>1. ASSUME NEW q \in Threads, q # t, thread[q].job = j, Ahead(q)
      PROVE  thread'[q].job = j /\ Ahead(q)'
  BY <1>1, KeptAhead DEF Frame, Keeps
<1>2. ASSUME jobs[j].state = "running", ~Ahead(t) PROVE \E q \in Threads : thread'[q].job = j /\ Ahead(q)'
  BY <1>1, <1>2 DEF RunningIsAhead
<1>3. CASE Waits(t) \/ Picks(t)
  BY <1>2, <1>3 DEF Waits, Picks, Ahead
<1>4. ASSUME NEW k \in Jobs, Claims(t, k) PROVE \E q \in Threads : thread'[q].job = j /\ Ahead(q)'
  <2>1. CASE j = k
    BY <1>4, <2>1 DEF Claims, Ahead
  <2>2. CASE j # k
    BY <1>2, <1>4, <2>2 DEF Claims, RowChanges, Ahead
  <2> QED
    BY <2>1, <2>2
<1>5. ASSUME NEW op \in Ops, Works(t, op) PROVE \E q \in Threads : thread'[q].job = j /\ Ahead(q)'
  <2>1. Ahead(t)' /\ thread'[t].job = thread[t].job /\ jobs[j].state = "running"
    BY <1>5, StepsWellFormed DEF Works, Settles, Ahead, Types
  <2> QED
    BY <1>1, <2>1 DEF RunningIsAhead
<1>6. CASE Writes(t) \/ Marks(t)
  <2>1. j # thread[t].job /\ jobs[j].state = "running"
    BY <1>6 DEF Writes, Marks, RowChanges, StateAfter
  <2> QED
    BY <1>1, <2>1 DEF RunningIsAhead
<1>7. CASE Counts(t)
  <2>1. jobs[j].state = "running"
    BY <1>7 DEF Counts, RowChanges
  <2> QED
    BY <1>2, <1>7, <2>1 DEF Counts, Doing, Ahead
<1>8. CASE Calls(t)
  BY <1>2, <1>8 DEF Calls, Doing, Ahead
<1> QED
  BY <1>3, <1>4, <1>5, <1>6, <1>7, <1>8 DEF Effect

LEMMA StepAhead ==
  ASSUME Types, RunningIsAhead, [Next]_vars
  PROVE  RunningIsAhead'
<1>1. ASSUME NEW j \in Jobs, Creates(j) PROVE RunningIsAhead'
  <2>1. \A k \in Jobs : jobs'[k].state = "running" => jobs[k].state = "running"
    BY <1>1 DEF Creates, RowChanges
  <2> QED
    BY <1>1, <2>1 DEF Creates, RunningIsAhead, Ahead
<1>2. CASE UNCHANGED vars
  BY <1>2 DEF vars, RunningIsAhead, Ahead
<1> QED
  BY <1>1, <1>2, StepEffect, ThreadStepAhead

\* A running job is always in the hands of a thread, for every delegate and
\* transport, whichever calls of the transport raise and however threads that
\* picked one in-memory job interleave.
THEOREM RunningJobsAreHeld == Spec => []RunningIsHeld
<1>1. Init => RunningIsAhead
  BY DEF Init, NoJobRow, RunningIsAhead
<1>2. RunningIsAhead => RunningIsHeld
  BY DEF RunningIsAhead, RunningIsHeld
<1> QED
  BY <1>1, <1>2, StepAhead, TypesInvariant, PTL DEF Spec

-----------------------------------------------------------------------------
(* How often a job is retried over a database.                             *)

\* What a transport may add to the retries of a job that is queued, and to
\* those of any job.
Extra ==
    IF backend.transport = "none" THEN 0
    ELSE IF backend.transport = "service_bus" THEN (IF faults = 0 THEN 0 ELSE 1) ELSE 1

Cap ==
    IF backend.transport = "none" THEN 0
    ELSE IF backend.transport = "service_bus" THEN faults ELSE 2

\* A thread before its first write, one whose write in the try block is done,
\* and one that is to write in the except block.
Attempting(t) ==
    \/ thread[t].pc = "working"
    \/ thread[t].pc = "settling" /\ thread[t].op \in TryBlock /\ Head(thread[t].todo) = "writing"

Settled(t) ==
    thread[t].pc = "settling" /\ thread[t].op \in TryBlock /\ Head(thread[t].todo) # "writing"

Excepting(t) ==
    thread[t].pc = "settling" /\ thread[t].op \notin TryBlock /\ Head(thread[t].todo) = "writing"

MayWrite(t) == Attempting(t) \/ Settled(t) \/ Excepting(t)

\* What the job of a thread that may write has been counted.
Budget(t) ==
    LET counted == jobs[thread[t].job].retries
    IN  /\ Attempting(t) => counted = thread[t].retries /\ counted <= MaxAttempts - 1 + Extra
        /\ Settled(t) => counted <= thread[t].retries + 1 /\ thread[t].retries <= MaxAttempts - 1 + Extra
        /\ Excepting(t) =>
              /\ counted + 1 <= MaxAttempts + Cap
              /\ thread[t].op = "retry" => counted + 1 <= MaxAttempts - 1 + Extra

\* Nobody else may write the job, and nobody can claim it.
Owned(t) ==
    MayWrite(t) =>
        /\ jobs[thread[t].job].state \notin {"absent", "queued"}
        /\ \A u \in Threads \ {t} : MayWrite(u) => thread[u].job # thread[t].job

RowBudget(j) ==
    /\ creation[j] = "new" => jobs[j].state = "absent" /\ jobs[j].retries = 0
    /\ jobs[j].state = "queued" => jobs[j].retries <= MaxAttempts - 1 + Extra
    /\ jobs[j].retries <= MaxAttempts + Cap

DatabaseInv ==
    backend.delegate = "database" =>
        /\ \A j \in Jobs : RowBudget(j)
        /\ \A t \in Threads : Owned(t) /\ Budget(t)

LEMMA Numbers ==
  ASSUME Types
  PROVE  /\ Extra \in Nat /\ Cap \in Nat /\ Extra <= Cap /\ faults \in Nat
         /\ MaxAttempts \in Nat /\ MaxAttempts >= 1
         /\ \A j \in Jobs : jobs[j].retries \in Nat
         /\ \A t \in Threads : thread[t].retries \in Nat
<1>1. /\ faults \in Nat /\ MaxAttempts \in Nat /\ MaxAttempts >= 1
  BY BackendsAssumption DEF Types
<1>2. \A j \in Jobs : jobs[j].retries \in Nat
  BY DEF Types, JobRow
<1>3. \A t \in Threads : thread[t].retries \in Nat
  <2> TAKE t \in Threads
  <2>1. thread[t] \in ThreadState
    BY DEF Types
  <2> QED
    BY <2>1 DEF ThreadState
<1>4. Extra \in Nat /\ Cap \in Nat /\ Extra <= Cap
  BY <1>1 DEF Extra, Cap
<1> QED
  BY <1>1, <1>2, <1>3, <1>4

LEMMA Monotone ==
  ASSUME Types, UNCHANGED backend, faults' \in Nat, faults <= faults'
  PROVE  Extra' \in Nat /\ Cap' \in Nat /\ Extra <= Extra' /\ Cap <= Cap' /\ Extra' <= Cap'
<1>1. faults \in Nat
  BY Numbers
<1> QED
  BY <1>1 DEF Extra, Cap

\* A row that is not written keeps within its bounds.
LEMMA RowKept ==
  ASSUME Types, NEW j \in Jobs, RowBudget(j), UNCHANGED backend, faults' \in Nat, faults <= faults',
         jobs'[j] = jobs[j], creation'[j] = "new" => creation[j] = "new"
  PROVE  RowBudget(j)'
  BY Numbers, Monotone DEF RowBudget

\* So does a thread that does not move and whose row is not written.
LEMMA ThreadKept ==
  ASSUME Types, NEW q \in Threads, Budget(q), Keeps(q), UNCHANGED backend,
         faults' \in Nat, faults <= faults',
         MayWrite(q) => thread[q].job \in Jobs /\ jobs'[thread[q].job] = jobs[thread[q].job]
  PROVE  Budget(q)' /\ (MayWrite(q)' <=> MayWrite(q))
<1>1. /\ Attempting(q)' <=> Attempting(q)
      /\ Settled(q)' <=> Settled(q)
      /\ Excepting(q)' <=> Excepting(q)
  BY DEF Keeps, Attempting, Settled, Excepting
<1>2. MayWrite(q)' <=> MayWrite(q)
  BY <1>1 DEF MayWrite
<1>3. CASE ~MayWrite(q)
  BY <1>1, <1>2, <1>3 DEF Budget, MayWrite
<1>4. CASE MayWrite(q)
  <2>1. /\ thread'[q].job = thread[q].job /\ thread'[q].retries = thread[q].retries
        /\ thread'[q].op = thread[q].op /\ jobs'[thread[q].job] = jobs[thread[q].job]
        /\ jobs[thread[q].job].retries \in Nat /\ thread[q].retries \in Nat
    BY <1>4, Numbers DEF Keeps
  <2> QED
    BY <1>1, <1>2, <2>1, Numbers, Monotone DEF Budget
<1> QED
  BY <1>3, <1>4

LEMMA MayWriteHasJob ==
  ASSUME Types, NEW t \in Threads, MayWrite(t)
  PROVE  thread[t].job \in Jobs
  BY DEF Types, Busy, MayWrite, Attempting, Settled, Excepting

\* The step of a settling thread is one that its backend knows.
LEMMA HeadAllowed ==
  ASSUME Types, NEW t \in Threads, thread[t].pc = "settling"
  PROVE  Head(thread[t].todo) \in Allowed
<1>1. thread[t].todo \in Seq(Allowed) /\ thread[t].todo # <<>>
  BY DEF Types, Busy, WellFormed
<1> QED
  BY <1>1, HeadTailProperties

\* A thread's step that writes no row.
LEMMA UnwrittenStep ==
  ASSUME Types, DatabaseInv, backend.delegate = "database", NEW t \in Threads, Frame(t),
         UNCHANGED jobs, Budget(t)',
         MayWrite(t)' => MayWrite(t) /\ thread'[t].job = thread[t].job
  PROVE  DatabaseInv'
<1>0. UNCHANGED <<backend, creation>> /\ faults' \in Nat /\ faults <= faults'
  BY BackendsAssumption DEF Frame
<1>1. \A j \in Jobs : RowBudget(j)'
  BY <1>0, RowKept DEF DatabaseInv
<1>2. ASSUME NEW q \in Threads, q # t
      PROVE  Budget(q)' /\ (MayWrite(q)' <=> MayWrite(q)) /\ thread'[q].job = thread[q].job
  BY <1>0, <1>2, ThreadKept, MayWriteHasJob DEF DatabaseInv, Frame, Keeps
<1>3. ASSUME NEW q \in Threads PROVE Owned(q)'
  <2>1. /\ MayWrite(q)' => MayWrite(q) /\ thread'[q].job = thread[q].job
        /\ \A u \in Threads \ {q} : MayWrite(u)' => MayWrite(u) /\ thread'[u].job = thread[u].job
    BY <1>2
  <2> QED
    BY <2>1 DEF DatabaseInv, Owned
<1> QED
  BY <1>0, <1>1, <1>2, <1>3 DEF DatabaseInv

\* A thread's step that writes one row, which no other thread may write.
LEMMA WrittenStep ==
  ASSUME Types, DatabaseInv, backend.delegate = "database", NEW t \in Threads, Frame(t),
         NEW j \in Jobs, \A k \in Jobs \ {j} : jobs'[k] = jobs[k],
         \A u \in Threads \ {t} : MayWrite(u) => thread[u].job # j,
         RowBudget(j)', Budget(t)',
         MayWrite(t)' => thread'[t].job = j /\ jobs'[j].state \notin {"absent", "queued"}
  PROVE  DatabaseInv'
<1>0. UNCHANGED <<backend, creation>> /\ faults' \in Nat /\ faults <= faults'
  BY BackendsAssumption DEF Frame
<1>1. \A k \in Jobs : RowBudget(k)'
  BY <1>0, RowKept DEF DatabaseInv
<1>2. ASSUME NEW q \in Threads, q # t
      PROVE  /\ Budget(q)' /\ (MayWrite(q)' <=> MayWrite(q)) /\ thread'[q].job = thread[q].job
             /\ MayWrite(q) => thread[q].job \in Jobs \ {j}
  <2>1. MayWrite(q) => thread[q].job \in Jobs \ {j}
    BY <1>2, MayWriteHasJob
  <2> QED
    BY <1>0, <1>2, <2>1, ThreadKept DEF DatabaseInv, Frame, Keeps
<1>3. Owned(t)'
  <2>1. \A u \in Threads \ {t} : MayWrite(u)' => thread'[u].job # j
    BY <1>2
  <2> QED
    BY <2>1 DEF Owned
<1>4. ASSUME NEW q \in Threads, q # t PROVE Owned(q)'
  <2> SUFFICES ASSUME MayWrite(q)'
               PROVE  /\ jobs'[thread'[q].job].state \notin {"absent", "queued"}
                      /\ \A u \in Threads \ {q} : MayWrite(u)' => thread'[u].job # thread'[q].job
    BY DEF Owned
  <2>1. MayWrite(q) /\ thread'[q].job = thread[q].job /\ thread[q].job \in Jobs \ {j}
    BY <1>2, <1>4
  <2>2. /\ jobs[thread[q].job].state \notin {"absent", "queued"}
        /\ \A u \in Threads \ {q} : MayWrite(u) => thread[u].job # thread[q].job
    BY <2>1 DEF DatabaseInv, Owned
  <2>3. \A u \in Threads \ {q} : MayWrite(u)' => thread'[u].job # thread'[q].job
    <3> TAKE u \in Threads \ {q}
    <3>1. CASE u = t
      BY <2>1, <3>1
    <3>2. CASE u # t
      BY <1>2, <2>1, <2>2, <3>2
    <3> QED
      BY <3>1, <3>2
  <2> QED
    BY <2>1, <2>2, <2>3
<1> QED
  BY <1>0, <1>1, <1>2, <1>3, <1>4 DEF DatabaseInv

LEMMA NotWriting ==
  ASSUME NEW t, thread'[t].pc \in {"idle", "claiming"}
  PROVE  ~MayWrite(t)' /\ Budget(t)'
  BY DEF MayWrite, Budget, Attempting, Settled, Excepting

LEMMA ClaimsInDatabase ==
  ASSUME Types, DatabaseInv, backend.delegate = "database", NEW t \in Threads, Frame(t),
         NEW j \in Jobs, Claims(t, j)
  PROVE  DatabaseInv'
<1>0. UNCHANGED <<backend, creation>> /\ faults' \in Nat /\ faults <= faults'
  BY BackendsAssumption DEF Frame
<1>1. j \in Jobs /\ jobs[j].state = "queued"
  BY DEF Claims, Types, Busy, Claimable
<1>2. RowBudget(j) /\ jobs[j].retries <= MaxAttempts - 1 + Extra
  BY <1>1 DEF DatabaseInv, RowBudget
<1>3. /\ thread'[t].pc = "working" /\ thread'[t].job = j /\ thread'[t].retries = jobs[j].retries
      /\ jobs'[j].state = "running" /\ jobs'[j].retries = jobs[j].retries
      /\ \A k \in Jobs \ {j} : jobs'[k] = jobs[k]
  BY DEF Claims, RowChanges
<1>4. \A u \in Threads \ {t} : MayWrite(u) => thread[u].job # j
  BY <1>1 DEF DatabaseInv, Owned
<1>5. RowBudget(j)'
  BY <1>0, <1>1, <1>2, <1>3, Numbers, Monotone DEF RowBudget
<1>6. Budget(t)'
  <2>1. ~Settled(t)' /\ ~Excepting(t)'
    BY <1>3 DEF Settled, Excepting
  <2> QED
    BY <1>0, <1>2, <1>3, <2>1, Numbers, Monotone DEF Budget
<1> QED
  BY <1>3, <1>4, <1>5, <1>6, WrittenStep

\* Settling begins with a write.
LEMMA StepsBeginWithWrite ==
  ASSUME Types, backend.delegate = "database", NEW op \in Ops
  PROVE  Head(Steps(op)) = "writing"
<1>1. Head(Steps(op)) \in {"writing", "marking"}
  BY StepsWellFormed DEF Types
<1>2. Head(Steps(op)) \in Allowed
  BY StepsWellFormed, HeadTailProperties DEF Types, WellFormed
<1>3. "marking" \notin Allowed
  BY DEF Allowed
<1> QED
  BY <1>1, <1>2, <1>3

LEMMA WorksInDatabase ==
  ASSUME Types, DatabaseInv, backend.delegate = "database", NEW t \in Threads, Frame(t),
         NEW op \in Ops, Works(t, op)
  PROVE  DatabaseInv'
<1>0. UNCHANGED <<backend, creation, jobs>> /\ faults' \in Nat /\ faults <= faults'
  BY BackendsAssumption DEF Frame, Works
<1>1. /\ thread'[t].pc = "settling" /\ thread'[t].op = op /\ Head(thread'[t].todo) = "writing"
      /\ thread'[t].job = thread[t].job /\ thread'[t].retries = thread[t].retries
  BY StepsBeginWithWrite DEF Works, Settles
<1>2. /\ Attempting(t) /\ MayWrite(t)
      /\ jobs[thread[t].job].retries = thread[t].retries
      /\ thread[t].retries <= MaxAttempts - 1 + Extra /\ thread[t].retries \in Nat
  BY Numbers DEF Works, Attempting, MayWrite, DatabaseInv, Budget
<1>3. op \notin TryBlock => op = AfterException(t)
  BY DEF Works
<1>4. Budget(t)'
  <2>1. CASE op \in TryBlock
    <3>1. ~Settled(t)' /\ ~Excepting(t)'
      BY <1>1, <2>1 DEF Settled, Excepting
    <3> QED
      BY <1>0, <1>1, <1>2, <3>1, Numbers, Monotone DEF Budget
  <2>2. CASE op \notin TryBlock
    <3>1. ~Settled(t)' /\ ~Attempting(t)'
      BY <1>1, <2>2 DEF Settled, Attempting
    <3>2. op = "retry" => thread[t].retries + 1 < MaxAttempts
      BY <1>2, <1>3, <2>2, Numbers DEF AfterException
    <3>3. /\ thread[t].retries + 1 <= MaxAttempts + Cap'
          /\ op = "retry" => thread[t].retries + 1 <= MaxAttempts - 1 + Extra'
      BY <1>0, <1>2, <3>2, Numbers, Monotone
    <3> QED
      BY <1>0, <1>1, <1>2, <3>1, <3>3 DEF Budget
  <2> QED
    BY <2>1, <2>2
<1> QED
  BY <1>0, <1>1, <1>2, <1>4, UnwrittenStep

\* After a step that does not raise, a thread is done or has no write left but
\* the one of an except block that it may come to.
LEMMA AdvancedThread ==
  ASSUME Types, NEW t \in Threads, thread[t].pc = "settling", Advances(t)
  PROVE  /\ ~Attempting(t)' /\ ~Excepting(t)'
         /\ Settled(t)' => /\ thread[t].op \in TryBlock
                           /\ thread'[t].job = thread[t].job /\ thread'[t].retries = thread[t].retries
<1>1. WellFormed(thread[t].todo)
  BY DEF Types, Busy
<1>2. CASE thread'[t] = IdleThread
  BY <1>2, IdleType DEF Attempting, Excepting, Settled
<1>3. CASE thread'[t] # IdleThread
  <2>1. Len(thread[t].todo) # 1 /\ thread'[t].todo = Tail(thread[t].todo)
    BY <1>3 DEF Advances
  <2>2. Head(thread'[t].todo) # "writing"
    BY <1>1, <2>1, TailWellFormed DEF WellFormed
  <2> QED
    BY <1>3, <2>2 DEF Advances, Attempting, Excepting, Settled
<1> QED
  BY <1>2, <1>3

LEMMA WritesInDatabase ==
  ASSUME Types, DatabaseInv, backend.delegate = "database", NEW t \in Threads, Frame(t), Writes(t)
  PROVE  DatabaseInv'
<1> SUFFICES ASSUME NEW j, NEW op, j = thread[t].job, op = thread[t].op
             PROVE  DatabaseInv'
  OBVIOUS
<1>0. UNCHANGED <<backend, creation>> /\ faults' \in Nat /\ faults <= faults'
  BY BackendsAssumption DEF Frame
<1>1. thread[t].pc = "settling" /\ Head(thread[t].todo) = "writing" /\ Advances(t) /\ op \in Ops
  BY DEF Writes, Doing, Types, Busy
<1>2. MayWrite(t) /\ j \in Jobs /\ (op \in TryBlock => Attempting(t)) /\ (op \notin TryBlock => Excepting(t))
  BY <1>1, MayWriteHasJob DEF MayWrite, Attempting, Excepting
<1>3. /\ jobs'[j].state = StateAfter(op)
      /\ jobs'[j].retries = IF op = "done" THEN jobs[j].retries ELSE jobs[j].retries + 1
      /\ \A k \in Jobs \ {j} : jobs'[k] = jobs[k]
  BY DEF Writes, RowChanges
<1>4. /\ jobs[j].state \notin {"absent", "queued"}
      /\ \A u \in Threads \ {t} : MayWrite(u) => thread[u].job # j
  BY <1>2 DEF DatabaseInv, Owned
<1>5. Budget(t) /\ RowBudget(j)
  BY <1>2 DEF DatabaseInv
<1>6. jobs[j].retries \in Nat /\ thread[t].retries \in Nat
  BY <1>2, Numbers
<1>7. creation'[j] # "new"
  BY <1>0, <1>4, <1>5 DEF RowBudget
<1>8. ~Attempting(t)' /\ ~Excepting(t)' /\ (MayWrite(t)' => Settled(t)')
  BY <1>1, AdvancedThread DEF MayWrite
<1>9. CASE op \in TryBlock
  <2>1. /\ jobs[j].retries = thread[t].retries /\ jobs[j].retries <= MaxAttempts - 1 + Extra
    BY <1>2, <1>5, <1>9 DEF Budget
  <2>2. StateAfter(op) \in {"done", "dead_letter"}
    BY <1>9 DEF StateAfter, TryBlock
  <2>3. jobs'[j].retries <= thread[t].retries + 1 /\ jobs'[j].retries \in Nat
    BY <1>3, <1>6, <2>1
  <2>4. RowBudget(j)'
    BY <1>0, <1>3, <1>6, <1>7, <2>1, <2>2, <2>3, Numbers, Monotone DEF RowBudget
  <2>5. Budget(t)'
    <3>1. Settled(t)' => thread'[t].job = j /\ thread'[t].retries = thread[t].retries
      BY <1>1, AdvancedThread
    <3>2. thread[t].retries <= MaxAttempts - 1 + Extra'
      BY <1>0, <1>6, <2>1, Numbers, Monotone
    <3> QED
      BY <1>8, <2>3, <3>1, <3>2 DEF Budget
  <2>6. MayWrite(t)' => thread'[t].job = j /\ jobs'[j].state \notin {"absent", "queued"}
    BY <1>1, <1>3, <1>8, <2>2, AdvancedThread
  <2> QED
    BY <1>2, <1>3, <1>4, <2>4, <2>5, <2>6, WrittenStep
<1>10. CASE op \notin TryBlock
  <2>1. /\ jobs[j].retries + 1 <= MaxAttempts + Cap
        /\ op = "retry" => jobs[j].retries + 1 <= MaxAttempts - 1 + Extra
    BY <1>2, <1>5, <1>10 DEF Budget
  <2>2. jobs'[j].retries = jobs[j].retries + 1 /\ (jobs'[j].state = "queued" => op = "retry")
    BY <1>3, <1>10 DEF TryBlock, StateAfter
  <2>3. RowBudget(j)'
    BY <1>0, <1>6, <1>7, <2>1, <2>2, Numbers, Monotone DEF RowBudget
  <2>4. ~MayWrite(t)' /\ Budget(t)'
    BY <1>1, <1>8, <1>10, AdvancedThread DEF Budget
  <2> QED
    BY <1>2, <1>3, <1>4, <2>3, <2>4, WrittenStep
<1> QED
  BY <1>9, <1>10

\* Where a call of the transport raises in the try block, the except block
\* counts the attempt a second time.
LEMMA RaisesInDatabase ==
  ASSUME Types, DatabaseInv, backend.delegate = "database", NEW t \in Threads, Frame(t), UNCHANGED jobs,
         Doing(t, "acking") \/ Doing(t, "sending"),
         Doing(t, "acking") \/ faults' = faults + 1,
         thread[t].op \in TryBlock, Settles(t, AfterException(t))
  PROVE  DatabaseInv'
<1> DEFINE j == thread[t].job
           r == thread[t].retries
<1>0. UNCHANGED <<backend, creation>> /\ faults' \in Nat /\ faults <= faults' /\ faults \in Nat
  BY BackendsAssumption, Numbers DEF Frame
<1>1. thread[t].pc = "settling" /\ Head(thread[t].todo) \in {"acking", "sending"}
  BY DEF Doing
<1>2. Settled(t) /\ MayWrite(t) /\ j \in Jobs
  BY <1>1, MayWriteHasJob DEF Settled, MayWrite
<1>3. jobs[j].retries <= r + 1 /\ r <= MaxAttempts - 1 + Extra /\ jobs[j].retries \in Nat /\ r \in Nat
  BY <1>2, Numbers DEF DatabaseInv, Budget
<1>4. AfterException(t) \in Ops \ TryBlock
  BY AfterExceptionOp
<1>5. /\ thread'[t].pc = "settling" /\ thread'[t].op = AfterException(t)
      /\ Head(thread'[t].todo) = "writing"
      /\ thread'[t].job = j /\ thread'[t].retries = r
  BY <1>4, StepsBeginWithWrite DEF Settles
<1>6. /\ backend.transport \in {"storage_queue", "service_bus"}
      /\ backend.transport = "service_bus" => faults' = faults + 1
  <2>1. Head(thread[t].todo) \in Allowed
    BY <1>1, HeadAllowed
  <2>2. backend.transport \in {"none", "storage_queue", "service_bus"}
    BY DEF Types, BackendType
  <2> QED
    BY <1>1, <2>1, <2>2 DEF Allowed, Doing
<1>7. AfterException(t) = "retry" => r + 1 < MaxAttempts
  BY <1>3, Numbers DEF AfterException
<1>8. Extra' = 1 /\ MaxAttempts \in Nat
  BY <1>0, <1>6, Numbers DEF Extra
<1>9. r + 2 <= MaxAttempts + Cap'
  <2>1. CASE backend.transport = "storage_queue"
    BY <1>0, <1>3, <1>8, <2>1 DEF Cap, Extra
  <2>2. CASE backend.transport = "service_bus"
    BY <1>0, <1>3, <1>6, <1>8, <2>2 DEF Cap, Extra
  <2> QED
    BY <1>6, <2>1, <2>2
<1>10. Budget(t)'
  <2>1. ~Attempting(t)' /\ ~Settled(t)'
    BY <1>4, <1>5 DEF Attempting, Settled
  <2>2. /\ jobs[j].retries + 1 <= MaxAttempts + Cap'
        /\ AfterException(t) = "retry" => jobs[j].retries + 1 <= MaxAttempts - 1 + Extra'
    <3>1. Cap' \in Nat
      BY <1>0, Monotone
    <3> QED
      BY <1>3, <1>7, <1>8, <1>9, <3>1
  <2> QED
    BY <1>5, <2>1, <2>2 DEF Budget
<1> QED
  BY <1>2, <1>5, <1>10, UnwrittenStep

LEMMA CallsInDatabase ==
  ASSUME Types, DatabaseInv, backend.delegate = "database", NEW t \in Threads, Frame(t), Calls(t)
  PROVE  DatabaseInv'
<1>0. UNCHANGED <<backend, creation, jobs>> /\ faults' \in Nat /\ faults <= faults'
  BY BackendsAssumption DEF Frame, Calls
<1>1. thread[t].pc = "settling" /\ Head(thread[t].todo) \in {"acking", "sending"}
  BY DEF Calls, Doing
<1>2. CASE Advances(t)
  <2>1. thread[t].op \in TryBlock => Settled(t) /\ MayWrite(t)
    BY <1>1 DEF Settled, MayWrite
  <2>2. MayWrite(t)' => MayWrite(t) /\ thread'[t].job = thread[t].job
    BY <1>1, <1>2, <2>1, AdvancedThread DEF MayWrite
  <2>3. Budget(t)'
    <3>1. CASE ~Settled(t)'
      BY <1>1, <1>2, <3>1, AdvancedThread DEF Budget
    <3>2. CASE Settled(t)'
      <4>1. /\ Settled(t) /\ MayWrite(t)
            /\ thread'[t].job = thread[t].job /\ thread'[t].retries = thread[t].retries
        BY <1>1, <1>2, <2>1, <3>2, AdvancedThread
      <4>2. /\ jobs[thread[t].job].retries <= thread[t].retries + 1
            /\ thread[t].retries <= MaxAttempts - 1 + Extra /\ thread[t].retries \in Nat
        BY <4>1, Numbers DEF DatabaseInv, Budget
      <4>3. thread[t].retries <= MaxAttempts - 1 + Extra'
        BY <1>0, <4>2, Numbers, Monotone
      <4> QED
        BY <1>0, <1>1, <1>2, <4>1, <4>2, <4>3, AdvancedThread DEF Budget
    <3> QED
      BY <3>1, <3>2
  <2> QED
    BY <1>0, <2>2, <2>3, UnwrittenStep
<1>3. CASE /\ Doing(t, "acking") \/ faults' = faults + 1
           /\ thread[t].op \in TryBlock /\ Settles(t, AfterException(t))
  BY <1>0, <1>3, RaisesInDatabase DEF Calls
<1>4. CASE thread'[t] = IdleThread
  BY <1>0, <1>4, NotWriting, IdleType, UnwrittenStep
<1> QED
  BY <1>2, <1>3, <1>4 DEF Calls

LEMMA StepInDatabase ==
  ASSUME Types, DatabaseInv, [Next]_vars
  PROVE  DatabaseInv'
<1>1. ASSUME NEW t \in Threads, Frame(t), Effect(t) PROVE DatabaseInv'
  <2>0. CASE backend.delegate # "database"
    BY <1>1, <2>0 DEF Frame, DatabaseInv
  <2> SUFFICES ASSUME backend.delegate = "database" PROVE DatabaseInv'
    BY <2>0
  <2>1. CASE Waits(t)
    BY <1>1, <2>1, NotWriting, UnwrittenStep DEF Waits
  <2>2. ~Picks(t)
    BY DEF Picks
  <2>3. ~Marks(t) /\ ~Counts(t)
    BY HeadAllowed DEF Marks, Counts, Doing, Allowed
  <2> QED
    BY <1>1, <2>1, <2>2, <2>3, ClaimsInDatabase, WorksInDatabase, WritesInDatabase, CallsInDatabase
       DEF Effect
<1>2. ASSUME NEW j \in Jobs, Creates(j) PROVE DatabaseInv'
  <2> SUFFICES ASSUME backend.delegate = "database"
               PROVE  /\ \A k \in Jobs : RowBudget(k)'
                      /\ \A t \in Threads : Owned(t)' /\ Budget(t)'
    BY <1>2 DEF Creates, DatabaseInv
  <2>0. UNCHANGED <<backend, thread>> /\ faults' \in Nat /\ faults <= faults'
    BY <1>2, BackendsAssumption DEF Creates
  <2>1. \A k \in Jobs \ {j} : jobs'[k] = jobs[k] /\ creation'[k] = creation[k]
    BY <1>2 DEF Creates, RowChanges
  <2>2. RowBudget(j)'
    <3>1. CASE creation[j] = "new" /\ RowChanges(j, "queued", jobs[j].retries)
      <4>1. jobs[j].retries = 0 /\ jobs'[j].retries = 0 /\ creation'[j] # "new"
        BY <1>2, <3>1 DEF DatabaseInv, RowBudget, RowChanges, Creates
      <4> QED
        BY <2>0, <4>1, Numbers, Monotone DEF RowBudget
    <3>2. CASE creation[j] # "new" /\ UNCHANGED jobs
      BY <1>2, <2>0, <3>2, RowKept DEF Creates, DatabaseInv
    <3> QED
      BY <1>2, <3>1, <3>2 DEF Creates
  <2>3. \A k \in Jobs : RowBudget(k)'
    BY <2>0, <2>1, <2>2, RowKept DEF DatabaseInv
  <2>4. ASSUME NEW t \in Threads, MayWrite(t) PROVE jobs'[thread[t].job] = jobs[thread[t].job]
    <3>1. jobs[thread[t].job].state # "absent" /\ thread[t].job \in Jobs
      BY <2>4, MayWriteHasJob DEF DatabaseInv, Owned
    <3>2. CASE thread[t].job = j
      <4>1. creation[j] # "new"
        BY <3>1, <3>2 DEF DatabaseInv, RowBudget
      <4> QED
        BY <1>2, <4>1 DEF Creates
    <3>3. CASE thread[t].job # j
      BY <2>1, <3>1, <3>3
    <3> QED
      BY <3>2, <3>3
  <2>5. \A t \in Threads : Keeps(t)
    BY <2>0 DEF Keeps
  <2>6. ASSUME NEW t \in Threads PROVE Budget(t)' /\ (MayWrite(t)' <=> MayWrite(t))
    BY <2>0, <2>4, <2>5, ThreadKept, MayWriteHasJob DEF DatabaseInv
  <2>7. ASSUME NEW t \in Threads PROVE Owned(t)'
    BY <2>0, <2>4, <2>6 DEF DatabaseInv, Owned
  <2> QED
    BY <2>3, <2>6, <2>7
<1>3. CASE UNCHANGED vars
  <2>1. UNCHANGED <<backend, jobs, creation, thread, faults>>
    BY <1>3 DEF vars
  <2> QED
    BY <2>1 DEF DatabaseInv, RowBudget, Owned, Budget, MayWrite, Attempting, Settled, Excepting, Extra, Cap
<1> QED
  BY <1>1, <1>2, <1>3, StepEffect

\* Over a database a job is retried at most MaxAttempts times without a
\* transport, twice more over the Storage Queue and once more for each failed
\* call over the Service Bus, for any number of jobs, threads and attempts: only
\* a call that raises in the try block counts an attempt twice.
THEOREM RetriesAreBounded == Spec => []RetriesBound
<1>1. Init => DatabaseInv
  <2> SUFFICES ASSUME Init PROVE DatabaseInv
    OBVIOUS
  <2>0. Types
    BY InitTypes
  <2>1. ASSUME NEW t \in Threads PROVE ~MayWrite(t) /\ Budget(t)
    BY IdleType DEF Init, MayWrite, Budget, Attempting, Settled, Excepting
  <2>2. \A j \in Jobs : jobs[j].state = "absent" /\ jobs[j].retries = 0
    BY DEF Init, NoJobRow
  <2>3. \A j \in Jobs : RowBudget(j)
    BY <2>0, <2>2, Numbers DEF RowBudget
  <2> QED
    BY <2>1, <2>3 DEF DatabaseInv, Owned
<1>2. DatabaseInv => RetriesBound
  BY DEF DatabaseInv, RowBudget, RetriesBound, Cap
<1> QED
  BY <1>1, <1>2, StepInDatabase, TypesInvariant, PTL DEF Spec

=============================================================================
