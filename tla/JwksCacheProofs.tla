-------------------------- MODULE JwksCacheProofs --------------------------
(***************************************************************************)
(* Proofs that the JWKS cache keeps its types and judges tokens by fresh   *)
(* keys, for any number of threads, any key sets and any time to live.     *)
(***************************************************************************)
EXTENDS JwksCache, TLAPS

LEMMA TtlType == Ttl \in Nat
  BY CacheAssumption DEF Ttl

-----------------------------------------------------------------------------
(* Types.                                                                  *)

LEMMA InitTypeOK == Init => TypeOK
  BY CacheAssumption, TtlType DEF Init, TypeOK, NoPayload, IdleThread, Versions

\* The token judged when a thread returns with a payload.
LEMMA ReturnTypeOK ==
  ASSUME TypeOK, NEW t \in Threads, NEW v \in Versions, Return(t, v)
  PROVE  /\ thread' \in [Threads -> [pc : {"idle", "lookup", "fetch", "store"},
                                     now : 0..MaxClock, payload : Versions]]
         /\ served' \in [now : 0..MaxClock, kid : Kids \cup {"none"}, payload : Versions,
                         answer : {"none", "accepted", "invalid", "key_not_found"}]
<1>1. IdleThread \in [pc : {"idle", "lookup", "fetch", "store"}, now : 0..MaxClock, payload : Versions]
  BY CacheAssumption DEF IdleThread, Versions
<1>2. thread[t].now \in 0..MaxClock
  BY DEF TypeOK
<1> QED
  BY <1>1, <1>2 DEF Return, Answers, TypeOK

\* The history of rotations says when each version was replaced, or that it is
\* still to come; nobody holds a reading of the clock from the future.
Timely ==
    /\ \A v \in Versions : v >= published => retired[v] = MaxClock + 1
    /\ \A t \in Threads : thread[t].now <= clock
    /\ cache.expires_at <= clock + Ttl
    /\ served.now <= clock

\* Why the payloads are recent: a payload that was fetched was served after its
\* thread read the clock; the cached one within the time to live before the
\* entry expires; the last token was judged by a recent one.
Fetched ==
    \A t \in Threads :
        thread[t].pc = "store" =>
            thread[t].payload <= published /\ retired[thread[t].payload] >= thread[t].now

Cached == cache.payload <= published /\ retired[cache.payload] >= cache.expires_at - Ttl

Judged ==
    /\ Recent(served.payload)
    /\ served.answer = "accepted" => served.kid \in KeySets[served.payload]
    /\ served.answer = "key_not_found" => served.kid \notin KeySets[served.payload]

CacheInv == TypeOK /\ Timely /\ Fetched /\ Cached /\ Judged

LEMMA InitCacheInv == Init => CacheInv
  BY InitTypeOK, CacheAssumption, TtlType
  DEF Init, CacheInv, Timely, Fetched, Cached, Judged, Recent, NoPayload, IdleThread, Versions

LEMMA ReadClockStep ==
  ASSUME CacheInv, NEW t \in Threads, ReadClock(t)
  PROVE  CacheInv'
<1>1. TypeOK'
  BY CacheAssumption DEF CacheInv, TypeOK, ReadClock, Versions
<1>2. Timely' /\ Fetched'
  BY CacheAssumption DEF CacheInv, TypeOK, ReadClock, Timely, Fetched
<1>3. Cached' /\ Judged'
  BY DEF CacheInv, ReadClock, Cached, Judged, Recent
<1> QED
  BY <1>1, <1>2, <1>3 DEF CacheInv

LEMMA MissStep ==
  ASSUME CacheInv, NEW t \in Threads, Miss(t)
  PROVE  CacheInv'
<1>1. TypeOK'
  BY DEF CacheInv, TypeOK, Miss
<1>2. Timely' /\ Fetched'
  BY DEF CacheInv, TypeOK, Miss, Timely, Fetched
<1>3. Cached' /\ Judged'
  BY DEF CacheInv, Miss, Cached, Judged, Recent
<1> QED
  BY <1>1, <1>2, <1>3 DEF CacheInv

LEMMA FetchFailsStep ==
  ASSUME CacheInv, NEW t \in Threads, FetchFails(t)
  PROVE  CacheInv'
<1>1. TypeOK'
  BY CacheAssumption DEF CacheInv, TypeOK, FetchFails, IdleThread, Versions
<1>2. Timely' /\ Fetched'
  BY CacheAssumption DEF CacheInv, TypeOK, FetchFails, IdleThread, Timely, Fetched
<1>3. Cached' /\ Judged'
  BY DEF CacheInv, FetchFails, Cached, Judged, Recent
<1> QED
  BY <1>1, <1>2, <1>3 DEF CacheInv

LEMMA FetchStep ==
  ASSUME CacheInv, NEW t \in Threads, Fetch(t)
  PROVE  CacheInv'
<1>1. TypeOK'
  BY DEF CacheInv, TypeOK, Fetch
<1>2. retired[published] >= thread[t].now
  BY CacheAssumption DEF CacheInv, TypeOK, Timely, Versions
<1>3. Timely' /\ Fetched'
  BY SMTT(30), <1>2 DEF CacheInv, TypeOK, Fetch, Timely, Fetched, Versions
<1>4. Cached' /\ Judged'
  BY DEF CacheInv, Fetch, Cached, Judged, Recent
<1> QED
  BY <1>1, <1>3, <1>4 DEF CacheInv

\* A thread that returns with a payload that is recent for its reading of the
\* clock, and has found the cache good, leaves everything in order.
LEMMA ReturnStep ==
  ASSUME CacheInv, NEW t \in Threads, NEW v \in Versions, Return(t, v),
         v <= published, retired[v] >= thread[t].now - Ttl,
         UNCHANGED <<clock, published, retired>>
  PROVE  /\ Fetched' /\ Judged'
         /\ \A u \in Threads : thread'[u].now <= clock
         /\ served'.now <= clock
<1>0. PICK kid \in Kids : \E answer \in Answers(kid, v) :
        served' = [now |-> thread[t].now, kid |-> kid, payload |-> v, answer |-> answer]
  BY DEF Return
<1>1. PICK answer \in Answers(kid, v) :
        served' = [now |-> thread[t].now, kid |-> kid, payload |-> v, answer |-> answer]
  BY <1>0
<1>2. thread' = [thread EXCEPT ![t] = IdleThread] /\ IdleThread.pc = "idle" /\ IdleThread.now = 0
  BY DEF Return, IdleThread
<1>3. Fetched' /\ \A u \in Threads : thread'[u].now <= clock
  BY <1>2 DEF CacheInv, TypeOK, Fetched, Timely
<1>4. Judged' /\ served'.now <= clock
  BY <1>1 DEF CacheInv, TypeOK, Timely, Judged, Recent, Answers, SigningKeyFound
<1> QED
  BY <1>3, <1>4

LEMMA HitStep ==
  ASSUME CacheInv, NEW t \in Threads, Hit(t)
  PROVE  CacheInv'
<1>1. /\ cache.payload \in Versions /\ Return(t, cache.payload)
      /\ UNCHANGED <<clock, published, retired, cache>>
  BY DEF CacheInv, TypeOK, Hit
<1>2. cache.payload <= published /\ retired[cache.payload] >= thread[t].now - Ttl
  BY SMTT(30), TtlType, CacheAssumption DEF CacheInv, TypeOK, Cached, Hit, Alive, Versions
<1>3. /\ Fetched' /\ Judged'
      /\ \A u \in Threads : thread'[u].now <= clock
      /\ served'.now <= clock
  BY <1>1, <1>2, ReturnStep
<1>4. TypeOK'
  BY <1>1, ReturnTypeOK DEF CacheInv, TypeOK
<1> QED
  BY <1>1, <1>3, <1>4 DEF CacheInv, Timely, Cached

LEMMA StoreStep ==
  ASSUME CacheInv, NEW t \in Threads, Store(t)
  PROVE  CacheInv'
<1>1. /\ thread[t].payload \in Versions /\ Return(t, thread[t].payload)
      /\ cache' = [expires_at |-> thread[t].now + Ttl, payload |-> thread[t].payload]
      /\ UNCHANGED <<clock, published, retired>>
  BY DEF CacheInv, TypeOK, Store, ExpiresAt
<1>2. /\ thread[t].payload <= published
      /\ retired[thread[t].payload] >= thread[t].now
      /\ thread[t].now \in 0..MaxClock /\ thread[t].now <= clock
      /\ retired[thread[t].payload] \in Nat
  BY CacheAssumption DEF CacheInv, TypeOK, Fetched, Timely, Store
<1>3. retired[thread[t].payload] >= thread[t].now - Ttl
  BY <1>2, TtlType
<1>4. /\ Fetched' /\ Judged'
      /\ \A u \in Threads : thread'[u].now <= clock
      /\ served'.now <= clock
  BY <1>1, <1>2, <1>3, ReturnStep
<1>5. cache' \in [expires_at : 0..MaxClock + Ttl, payload : Versions]
  BY <1>1, <1>2, TtlType, CacheAssumption
<1>6. TypeOK'
  BY <1>1, <1>5, ReturnTypeOK DEF CacheInv, TypeOK
<1>7. Cached' /\ cache'.expires_at <= clock + Ttl
  BY <1>1, <1>2, TtlType, CacheAssumption DEF CacheInv, TypeOK, Cached
<1> QED
  BY <1>1, <1>4, <1>6, <1>7 DEF CacheInv, Timely

\* A rotation retires the version that was served until now: no reading of the
\* clock is later, so whatever was fresh stays so.
LEMMA RotateStep ==
  ASSUME CacheInv, Rotate
  PROVE  CacheInv'
<1>1. TypeOK'
  BY CacheAssumption DEF CacheInv, TypeOK, Rotate, Versions
<1>2. /\ published \in Nat /\ published' = published + 1
      /\ \A v \in Versions : retired'[v] = IF v = published THEN clock ELSE retired[v]
  BY DEF CacheInv, TypeOK, Rotate, Versions
<1>3. Timely'
  BY <1>2 DEF CacheInv, TypeOK, Timely, Rotate, Versions
<1>4. Fetched'
  BY <1>2 DEF CacheInv, TypeOK, Timely, Fetched, Rotate, Versions
<1>5. Cached' /\ Judged'
  BY SMTT(30), <1>2, TtlType, CacheAssumption DEF CacheInv, TypeOK, Timely, Cached, Judged, Recent, Rotate, Versions
<1> QED
  BY <1>1, <1>3, <1>4, <1>5 DEF CacheInv

LEMMA TickStep ==
  ASSUME CacheInv, Tick
  PROVE  CacheInv'
<1>1. TypeOK'
  BY CacheAssumption DEF CacheInv, TypeOK, Tick
<1>2. Timely'
  BY TtlType, CacheAssumption DEF CacheInv, TypeOK, Timely, Tick
<1>3. Fetched' /\ Cached' /\ Judged'
  BY DEF CacheInv, Fetched, Cached, Judged, Recent, Tick
<1> QED
  BY <1>1, <1>2, <1>3 DEF CacheInv

LEMMA CacheInvariant == Spec => []CacheInv
<1>1. CacheInv /\ [Next]_vars => CacheInv'
  <2> SUFFICES ASSUME CacheInv, [Next]_vars PROVE CacheInv'
    OBVIOUS
  <2>1. ASSUME NEW t \in Threads, GetJwksPayload(t) PROVE CacheInv'
    BY <2>1, ReadClockStep, HitStep, MissStep, FetchFailsStep, FetchStep, StoreStep DEF GetJwksPayload
  <2>2. CASE UNCHANGED vars
    BY <2>2 DEF vars, CacheInv, TypeOK, Timely, Fetched, Cached, Judged, Recent
  <2> QED
    BY <2>1, <2>2, RotateStep, TickStep DEF Next
<1> QED
  BY <1>1, InitCacheInv, PTL DEF Spec

\* The cache, the threads' locals and the histories keep their types, for any
\* number of threads that fetch and store concurrently.
THEOREM TypeCorrect == Spec => []TypeOK
  BY CacheInvariant, PTL DEF CacheInv

\* No thread of _get_jwks_payload judges a token by keys that were withdrawn, or
\* without keys that were published, longer than the time to live before the
\* request, whichever fetch is stored last.
THEOREM FreshKeysOnly == Spec => []KeysAreFresh
<1>1. CacheInv => KeysAreFresh
  BY DEF CacheInv, TypeOK, Judged, KeysAreFresh
<1> QED
  BY <1>1, CacheInvariant, PTL

=============================================================================
