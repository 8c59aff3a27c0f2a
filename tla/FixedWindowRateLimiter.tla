----------------------- MODULE FixedWindowRateLimiter -----------------------
(***************************************************************************)
(* The in-memory limiter that gates POST /v1/tenants/{id}/runs: one        *)
(* counter per key "<tenant>:<agent>", restarted when a caller comes with  *)
(* another minute.  allow() reads the clock before it takes the lock, so   *)
(* a caller may hold a minute that is over by the time it decides.         *)
(***************************************************************************)
EXTENDS Integers

CONSTANTS
    Callers,               \* request threads of one API process
    Keys,                  \* rate keys
    NoKey,                 \* a caller's key when it has none
    requests_per_minute,   \* as passed to the constructor
    MaxWindow              \* bound: the last minute of a run

ASSUME LimiterAssumption ==
    /\ NoKey \notin Keys
    /\ requests_per_minute \in Int
    /\ MaxWindow \in Nat

VARIABLES
    minute,      \* int(time.time() // 60)
    counters,    \* self._counters
    caller,      \* each caller's place in allow() and its now_window
    admitted,    \* history: how many callers each key admitted in each minute
    refused,     \* history: the keys and minutes for which a caller was refused
    late         \* history: how often a counter was set back to an older minute

vars == <<minute, counters, caller, admitted, refused, late>>

Windows == 0..MaxWindow

\* max(requests_per_minute, 1)
Limit == IF requests_per_minute >= 1 THEN requests_per_minute ELSE 1

\* A key that _counters does not hold yet: get() then yields (now_window, 0).
NoCounter == [window |-> -1, count |-> 0]

IdleCaller == [pc |-> "idle", key |-> NoKey, now_window |-> 0]

Init ==
    /\ minute = 0
    /\ counters = [k \in Keys |-> NoCounter]
    /\ caller = [c \in Callers |-> IdleCaller]
    /\ admitted = [k \in Keys |-> [n \in Windows |-> 0]]
    /\ refused = {}
    /\ late = [k \in Keys |-> 0]

CarriedOver(k, n) == counters[k].count

\* The count that a caller of minute n finds: 0 if the counter is of another.
CountFor(k, n) == IF counters[k].window = n THEN counters[k].count ELSE 0

FullOneLate(count) == count > Limit

Full(count) == count >= Limit

\* A plausible slip: the minute is rounded up, into one that has not begun.
ReadClockRoundedUp(c, k) ==
    /\ caller[c].pc = "idle"
    /\ caller' = [caller EXCEPT ![c] = [pc |-> "deciding", key |-> k, now_window |-> minute + 1]]
    /\ UNCHANGED <<minute, counters, admitted, refused, late>>

\* The clock is read outside the lock.
ReadClock(c, k) ==
    /\ caller[c].pc = "idle"
    /\ caller' = [caller EXCEPT ![c] = [pc |-> "deciding", key |-> k, now_window |-> minute]]
    /\ UNCHANGED <<minute, counters, admitted, refused, late>>

SetCounter(k, n, count) ==
    /\ counters' = [counters EXCEPT ![k] = [window |-> n, count |-> count]]
    /\ late' = [late EXCEPT ![k] = IF n < counters[k].window THEN @ + 1 ELSE @]

\* Under the lock: return False.
Refuse(c) ==
    LET k == caller[c].key
        n == caller[c].now_window
    IN  /\ caller[c].pc = "deciding"
        /\ Full(CountFor(k, n))
        /\ SetCounter(k, n, CountFor(k, n))
        /\ refused' = refused \cup {<<k, n>>}
        /\ caller' = [caller EXCEPT ![c] = IdleCaller]
        /\ UNCHANGED <<minute, admitted>>

\* Under the lock: return True.
Admit(c) ==
    LET k == caller[c].key
        n == caller[c].now_window
    IN  /\ caller[c].pc = "deciding"
        /\ ~Full(CountFor(k, n))
        /\ SetCounter(k, n, CountFor(k, n) + 1)
        /\ admitted' = [admitted EXCEPT ![k] = [@ EXCEPT ![n] = admitted[k][n] + 1]]
        /\ caller' = [caller EXCEPT ![c] = IdleCaller]
        /\ UNCHANGED <<minute, refused>>

NextMinute ==
    /\ minute < MaxWindow
    /\ minute' = minute + 1
    /\ UNCHANGED <<counters, caller, admitted, refused, late>>

Next ==
    \/ \E c \in Callers :
          \/ \E k \in Keys : ReadClock(c, k)
          \/ Refuse(c)
          \/ Admit(c)
    \/ NextMinute

Spec == Init /\ [][Next]_vars

-----------------------------------------------------------------------------

\* The values that the counters, the callers' locals and the histories have.
TypeOK ==
    /\ minute \in Windows
    /\ counters \in [Keys -> [window : Windows \cup {-1}, count : Nat]]
    /\ caller \in [Callers -> [pc : {"idle", "deciding"}, key : Keys \cup {NoKey},
                               now_window : Windows]]
    /\ \A c \in Callers : caller[c].pc = "deciding" => caller[c].key \in Keys
    /\ admitted \in [Keys -> [Windows -> Nat]]
    /\ refused \subseteq Keys \X Windows
    /\ late \in [Keys -> Nat]

\* What the limiter guarantees although the clock is read outside the lock:
\* every set-back of a counter by a caller of an older minute costs at most
\* one more ration of Limit requests in a minute, and nothing else does.
AdmissionBound ==
    \A k \in Keys, n \in Windows : admitted[k][n] <= Limit * (1 + late[k])

\* A caller is refused only in a minute in which its key really had its full
\* ration: counts of another minute or another key are never held against it.
RefusalsAreEarned ==
    \A k \in Keys, n \in Windows : <<k, n>> \in refused => admitted[k][n] >= Limit

\* In no minute are more than requests_per_minute requests admitted among
\* those that arrived and were decided in that same minute.
WindowLimit == \A k \in Keys : admitted[k][minute] <= Limit

=============================================================================
