-------------------------- MODULE RedisRateLimiter --------------------------
(***************************************************************************)
(* The distributed limiter: every API process counts the requests of a     *)
(* window in one Redis key "<prefix>:<now_window>:<key>", INCR first and   *)
(* EXPIRE by the caller that made the key.  The two commands are not a     *)
(* transaction, each may fail with or without effect, and the process may  *)
(* die between them.                                                       *)
(***************************************************************************)
EXTENDS Integers, FiniteSets

CONSTANTS
    Callers,               \* request threads of all the API processes
    Keys,                  \* rate keys "<tenant>:<agent>"
    NoKey,                 \* a caller's key when it has none
    requests_per_minute,   \* as passed to the constructor
    WindowSeconds,         \* 60 in the code
    FailOpenCallers,       \* those whose process is set to fail_open
    MaxWindow,             \* bound: the last window of a run
    MaxCount,              \* bound: callers arrive while a counter is below it
    MaxFailures            \* bound: failed commands and deaths of a run

ASSUME RedisAssumption ==
    /\ IsFiniteSet(Callers)
    /\ NoKey \notin Keys
    /\ requests_per_minute \in Int
    /\ WindowSeconds \in Nat \ {0}
    /\ FailOpenCallers \subseteq Callers
    /\ MaxWindow \in Nat
    /\ MaxCount \in Nat
    /\ MaxFailures \in Nat

VARIABLES
    clock,       \* time.time(), in seconds
    redis,       \* the counter of each key and window, and when it expires
    caller,      \* each caller's place in allow() and its locals
    admitted,    \* history: the callers admitted for each key and window
    refused,     \* history: the keys and windows for which one was refused
    opened,      \* history: those of them that a failure admitted
    failures     \* how many commands failed and callers died

vars == <<clock, redis, caller, admitted, refused, opened, failures>>

Windows == 0..MaxWindow
Window == clock \div WindowSeconds

\* max(requests_per_minute, 1)
Limit == IF requests_per_minute >= 1 THEN requests_per_minute ELSE 1

NeverExpires == -1
NoEntry == [count |-> 0, expires |-> NeverExpires]

IdleCaller == [pc |-> "idle", key |-> NoKey, now_window |-> 0, ttl |-> 0]

Init ==
    /\ clock = 0
    /\ redis = [k \in Keys |-> [n \in Windows |-> NoEntry]]
    /\ caller = [c \in Callers |-> IdleCaller]
    /\ admitted = [k \in Keys |-> [n \in Windows |-> 0]]
    /\ refused = {}
    /\ opened = [k \in Keys |-> [n \in Windows |-> 0]]
    /\ failures = 0

-----------------------------------------------------------------------------
(* The two Redis commands.                                                 *)

Incr(k, n) ==
    redis' = [redis EXCEPT ![k][n].count = @ + 1]

\* EXPIRE of a key that is gone has no effect.
ExpireIn(k, n, ttl) ==
    redis' = [redis EXCEPT ![k][n].expires = IF redis[k][n].count > 0 THEN clock + ttl ELSE @]

-----------------------------------------------------------------------------
(* allow().                                                                *)

TtlOneShort(now) == WindowSeconds - (now % WindowSeconds) - 1

\* max(1, 60 - int(now % 60))
Ttl(now) == WindowSeconds - (now % WindowSeconds)

\* A plausible slip: the window is rounded up, into one that has not begun.
ReadClockRoundedUp(c, k) ==
    /\ caller[c].pc = "idle"
    /\ redis[k][Window].count < MaxCount
    /\ caller' = [caller EXCEPT ![c] =
                    [pc |-> "incr", key |-> k, now_window |-> Window + 1, ttl |-> Ttl(clock)]]
    /\ UNCHANGED <<clock, redis, admitted, refused, opened, failures>>

ReadClock(c, k) ==
    /\ caller[c].pc = "idle"
    /\ redis[k][Window].count < MaxCount
    /\ caller' = [caller EXCEPT ![c] =
                    [pc |-> "incr", key |-> k, now_window |-> Window, ttl |-> Ttl(clock)]]
    /\ UNCHANGED <<clock, redis, admitted, refused, opened, failures>>

Answer(c, allowed) ==
    LET k == caller[c].key
        n == caller[c].now_window
    IN  /\ admitted' = IF allowed THEN [admitted EXCEPT ![k][n] = @ + 1] ELSE admitted
        /\ refused' = IF allowed THEN refused ELSE refused \cup {<<k, n>>}
        /\ caller' = [caller EXCEPT ![c] = IdleCaller]

FirstIsZero(count) == count = 0

\* The caller that found no counter sets the time to live.
FirstOfWindow(count) == count = 1

WithinLimitOneShort(count) == count < Limit

WithinLimit(count) == count <= Limit

\* INCR, and the answer unless EXPIRE comes first.
IncrKey(c) ==
    LET k == caller[c].key
        n == caller[c].now_window
        count == redis[k][n].count + 1
    IN  /\ caller[c].pc = "incr"
        /\ Incr(k, n)
        /\ \/ /\ FirstOfWindow(count)
              /\ caller' = [caller EXCEPT ![c].pc = "expire"]
              /\ UNCHANGED <<admitted, refused>>
           \/ /\ ~FirstOfWindow(count)
              /\ Answer(c, WithinLimit(count))
        /\ UNCHANGED <<clock, opened, failures>>

\* EXPIRE; the count of 1 is within every limit.
ExpireKey(c) ==
    /\ caller[c].pc = "expire"
    /\ ExpireIn(caller[c].key, caller[c].now_window, caller[c].ttl)
    /\ Answer(c, TRUE)
    /\ UNCHANGED <<clock, opened, failures>>

\* The command that comes next raises: without effect, or with its effect and
\* only its answer lost.
CommandFails(c) ==
    LET k == caller[c].key
        n == caller[c].now_window
    IN  /\ failures < MaxFailures
        /\ failures' = failures + 1
        /\ \/ caller[c].pc \in {"incr", "expire"} /\ UNCHANGED redis
           \/ caller[c].pc = "incr" /\ Incr(k, n)
           \/ caller[c].pc = "expire" /\ ExpireIn(k, n, caller[c].ttl)
        /\ UNCHANGED clock

FailOpen(c) ==
    /\ c \in FailOpenCallers
    /\ CommandFails(c)
    /\ Answer(c, TRUE)
    /\ opened' = [opened EXCEPT ![caller[c].key][caller[c].now_window] = @ + 1]

\* The exception goes to the client.
FailClosed(c) ==
    /\ c \notin FailOpenCallers
    /\ CommandFails(c)
    /\ caller' = [caller EXCEPT ![c] = IdleCaller]
    /\ UNCHANGED <<admitted, refused, opened>>

\* The API process dies within allow().
Crash(c) ==
    /\ failures < MaxFailures
    /\ failures' = failures + 1
    /\ caller[c].pc # "idle"
    /\ caller' = [caller EXCEPT ![c] = IdleCaller]
    /\ UNCHANGED <<clock, redis, admitted, refused, opened>>

\* A second passes, and Redis drops the keys whose time has come.
Tick ==
    /\ clock + 1 < (MaxWindow + 1) * WindowSeconds
    /\ clock' = clock + 1
    /\ redis' = [k \in Keys |-> [n \in Windows |->
                    IF redis[k][n].expires = clock + 1 THEN NoEntry ELSE redis[k][n]]]
    /\ UNCHANGED <<caller, admitted, refused, opened, failures>>

Next ==
    \/ \E c \in Callers :
          \/ \E k \in Keys : ReadClock(c, k)
          \/ IncrKey(c) \/ ExpireKey(c)
          \/ FailOpen(c) \/ FailClosed(c) \/ Crash(c)
    \/ Tick

Spec == Init /\ [][Next]_vars

-----------------------------------------------------------------------------

\* The values that Redis, the callers' locals and the histories have.
TypeOK ==
    /\ clock \in Nat
    /\ redis \in [Keys -> [Windows -> [count : Nat, expires : Nat \cup {NeverExpires}]]]
    /\ caller \in [Callers -> [pc : {"idle", "incr", "expire"}, key : Keys \cup {NoKey},
                               now_window : Windows, ttl : Nat]]
    /\ \A c \in Callers : caller[c].pc # "idle" => caller[c].key \in Keys
    /\ admitted \in [Keys -> [Windows -> Nat]]
    /\ refused \subseteq Keys \X Windows
    /\ opened \in [Keys -> [Windows -> Nat]]
    /\ failures \in 0..MaxFailures

\* While a window lasts, no more callers are admitted in it than the limit and
\* the failures in it that fail_open turned into admissions: the counter outlives its
\* window, whoever is slow between reading the clock, INCR and EXPIRE.  Without
\* such admissions the limit is strict, which the in-memory limiter's is not.
WindowLimit ==
    \A k \in Keys : admitted[k][Window] <= Limit + opened[k][Window]

Expiring(k, n) ==
    {c \in Callers : caller[c].pc = "expire" /\ caller[c].key = k /\ caller[c].now_window = n}

\* A caller is refused only if its key had a full ration in its window, made up
\* of callers admitted, callers still in EXPIRE and callers lost to a failure.
RefusalsAreEarned ==
    \A k \in Keys, n \in Windows :
        <<k, n>> \in refused =>
            admitted[k][n] + Cardinality(Expiring(k, n)) + failures >= Limit

Leaked ==
    {kn \in Keys \X Windows : /\ redis[kn[1]][kn[2]].count > 0
                              /\ redis[kn[1]][kn[2]].expires = NeverExpires
                              /\ Expiring(kn[1], kn[2]) = {}}

\* A counter that will never expire is left behind only by a failed command or
\* a death between INCR and EXPIRE, and one at most by each.
LeakBound == Cardinality(Leaked) <= failures

=============================================================================
