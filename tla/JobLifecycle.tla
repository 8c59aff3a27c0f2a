---------------------------- MODULE JobLifecycle ----------------------------
(***************************************************************************)
(* What the provisioning queue promises about one job, whoever runs it:    *)
(* it is queued once, one attempt at a time takes it, an attempt ends in   *)
(* "done", in a new turn in the queue or in the dead-letter state, every   *)
(* failed attempt is counted, the count never passes MaxAttempts, and      *)
(* "done" and "dead_letter" are final.                                     *)
(*                                                                         *)
(* Nothing is said about workers, leases, clocks or tenants: Provisioning  *)
(* is shown to implement this specification.                               *)
(***************************************************************************)
EXTENDS Naturals

CONSTANTS
    Jobs,          \* the jobs that may ever be queued
    MaxAttempts    \* the number of attempts a job is given

VARIABLES
    state,         \* the state of each job
    failures       \* how many attempts at each job have failed

jobVars == <<state, failures>>

JobInit ==
    /\ state = [j \in Jobs |-> "absent"]
    /\ failures = [j \in Jobs |-> 0]

Move(j, from, to) ==
    /\ state[j] = from
    /\ state' = [state EXCEPT ![j] = to]

CountFailure(j) == failures' = [failures EXCEPT ![j] = @ + 1]

Enqueue(j) ==
    /\ Move(j, "absent", "queued")
    /\ UNCHANGED failures

Claim(j) ==
    /\ Move(j, "queued", "running")
    /\ UNCHANGED failures

Finish(j) ==
    /\ Move(j, "running", "done")
    /\ UNCHANGED failures

Retry(j) ==
    /\ failures[j] + 1 < MaxAttempts
    /\ Move(j, "running", "queued")
    /\ CountFailure(j)

Bury(j) ==
    /\ failures[j] < MaxAttempts
    /\ Move(j, "running", "dead_letter")
    /\ CountFailure(j)

JobNext ==
    \E j \in Jobs : Enqueue(j) \/ Claim(j) \/ Finish(j) \/ Retry(j) \/ Bury(j)

JobSpec == JobInit /\ [][JobNext]_jobVars

=============================================================================
