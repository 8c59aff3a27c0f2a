----------------------------- MODULE JwksCache -----------------------------
(***************************************************************************)
(* The check of a bearer token against the signing keys of the identity    *)
(* provider, which _get_jwks_payload caches for cache_ttl_seconds behind a *)
(* lock that is not held during the fetch.  Several request threads may    *)
(* find the entry expired, fetch different versions of the key set while   *)
(* the provider rotates it, and store them in any order, the older over    *)
(* the newer too.                                                          *)
(***************************************************************************)
EXTENDS Integers

CONSTANTS
    Threads,             \* request threads of one API process
    Kids,                \* the key ids that tokens name
    KeySets,             \* the keys in each version of the key set
    cache_ttl_seconds,   \* JWT_JWKS_CACHE_TTL_SECONDS
    MaxClock,            \* bound: the last second of a run
    MaxVersion           \* bound: how often the provider rotates its keys

ASSUME CacheAssumption ==
    /\ cache_ttl_seconds \in Int
    /\ MaxClock \in Nat
    /\ MaxVersion \in Nat
    /\ KeySets \in [0..MaxVersion -> SUBSET Kids]

VARIABLES
    clock,      \* time.time(), in seconds
    published,  \* the version of the key set that the provider serves
    retired,    \* history: when each earlier version was replaced
    cache,      \* _JWKS_CACHE[jwks_url]
    thread,     \* each thread's place in _get_jwks_payload and its locals
    served      \* history: the last token judged, when, by which keys and how

vars == <<clock, published, retired, cache, thread, served>>

Versions == 0..MaxVersion

\* max(cache_ttl_seconds, 0)
Ttl == IF cache_ttl_seconds >= 0 THEN cache_ttl_seconds ELSE 0

\* An entry that no clock reading finds alive: nothing is cached yet.
NoPayload == [expires_at |-> 0, payload |-> 0]

IdleThread == [pc |-> "idle", now |-> 0, payload |-> 0]

Init ==
    /\ clock = 0
    /\ published = 0
    /\ retired = [v \in Versions |-> MaxClock + 1]
    /\ cache = NoPayload
    /\ thread = [t \in Threads |-> IdleThread]
    /\ served = [now |-> 0, kid |-> "none", payload |-> 0, answer |-> "none"]

-----------------------------------------------------------------------------

\* A token with a kid in its header is to be judged; now = time.time(), before
\* the lock is taken.
ReadClock(t) ==
    /\ thread[t].pc = "idle"
    /\ thread' = [thread EXCEPT ![t] = [pc |-> "lookup", now |-> clock, payload |-> 0]]
    /\ UNCHANGED <<clock, published, retired, cache, served>>

\* The loop over the keys of the payload; a payload without a list of keys is
\* one without keys.
SigningKeyFound(kid, payload) == kid \in KeySets[payload]

\* With the key at hand jwt.decode accepts the token or raises; without it the
\* answer is 401 whatever the token says.
Answers(kid, payload) ==
    IF SigningKeyFound(kid, payload) THEN {"accepted", "invalid"} ELSE {"key_not_found"}

\* The payload is returned and the token judged by it.  The kid, which the
\* thread holds from the start, is chosen where it is first used.
Return(t, payload) ==
    /\ \E kid \in Kids : \E answer \in Answers(kid, payload) :
          served' = [now |-> thread[t].now, kid |-> kid, payload |-> payload, answer |-> answer]
    /\ thread' = [thread EXCEPT ![t] = IdleThread]

\* cached and cached[0] > now
Alive(now) == cache.expires_at > now

Hit(t) ==
    /\ thread[t].pc = "lookup"
    /\ Alive(thread[t].now)
    /\ Return(t, cache.payload)
    /\ UNCHANGED <<clock, published, retired, cache>>

Miss(t) ==
    /\ thread[t].pc = "lookup"
    /\ ~Alive(thread[t].now)
    /\ thread' = [thread EXCEPT ![t] = [@ EXCEPT !.pc = "fetch"]]
    /\ UNCHANGED <<clock, published, retired, cache, served>>

\* The provider answers with the key set it serves at that moment.
Fetch(t) ==
    /\ thread[t].pc = "fetch"
    /\ thread' = [thread EXCEPT ![t] = [@ EXCEPT !.pc = "store", !.payload = published]]
    /\ UNCHANGED <<clock, published, retired, cache, served>>

\* A timeout, a refused connection or an answer that is no JSON object: 401,
\* and the cache keeps what it has.
FetchFails(t) ==
    /\ thread[t].pc \in {"fetch", "store"}
    /\ thread' = [thread EXCEPT ![t] = IdleThread]
    /\ UNCHANGED <<clock, published, retired, cache, served>>

AgeFromStore(now) == clock + Ttl

TtlInMilliseconds(now) == now + 1000 * Ttl

\* The entry ages from the reading of the clock before the fetch.
ExpiresAt(now) == now + Ttl

Store(t) ==
    /\ thread[t].pc = "store"
    /\ cache' = [expires_at |-> ExpiresAt(thread[t].now), payload |-> thread[t].payload]
    /\ Return(t, thread[t].payload)
    /\ UNCHANGED <<clock, published, retired>>

-----------------------------------------------------------------------------
(* The provider and the clock.                                             *)

Rotate ==
    /\ published < MaxVersion
    /\ published' = published + 1
    /\ retired' = [retired EXCEPT ![published] = clock]
    /\ UNCHANGED <<clock, cache, thread, served>>

Tick ==
    /\ clock < MaxClock
    /\ clock' = clock + 1
    /\ UNCHANGED <<published, retired, cache, thread, served>>

GetJwksPayload(t) ==
    ReadClock(t) \/ Hit(t) \/ Miss(t) \/ Fetch(t) \/ FetchFails(t) \/ Store(t)

Next == (\E t \in Threads : GetJwksPayload(t)) \/ Rotate \/ Tick

Spec == Init /\ [][Next]_vars

-----------------------------------------------------------------------------

\* The values that the cache, the threads' locals and the histories have.
TypeOK ==
    /\ clock \in 0..MaxClock
    /\ published \in Versions
    /\ retired \in [Versions -> 0..MaxClock + 1]
    /\ cache \in [expires_at : 0..MaxClock + Ttl, payload : Versions]
    /\ thread \in [Threads -> [pc : {"idle", "lookup", "fetch", "store"},
                               now : 0..MaxClock, payload : Versions]]
    /\ served \in [now : 0..MaxClock, kid : Kids \cup {"none"}, payload : Versions,
                   answer : {"none", "accepted", "invalid", "key_not_found"}]

\* A version of the key set that the provider served within the time to live
\* before the last request was judged, or later.
Recent(v) == v <= published /\ retired[v] >= served.now - Ttl

\* However fetches overlap with each other and with rotations, a token is
\* accepted only with a key that the provider served within the time to live
\* before the request, and refused for its key only if the provider was without
\* that key at some time since then.  A withdrawn key is refused and a new one
\* known from then on, even after an older key set was stored over a newer one.
KeysAreFresh ==
    /\ served.answer = "accepted" =>
          \E v \in Versions : Recent(v) /\ served.kid \in KeySets[v]
    /\ served.answer = "key_not_found" =>
          \E v \in Versions : Recent(v) /\ served.kid \notin KeySets[v]

=============================================================================
