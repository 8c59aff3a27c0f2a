----------------------- MODULE RedisRateLimiterProofs -----------------------
(***************************************************************************)
(* Proofs about RedisRateLimiter for every finite set of callers, every    *)
(* set of keys, every limit and every length of a window.                  *)
(***************************************************************************)
EXTENDS RedisRateLimiter, FiniteSetTheorems, TLAPS

LEMMA LimitType == Limit \in Nat /\ Limit >= 1
  BY RedisAssumption DEF Limit

-----------------------------------------------------------------------------
(* The windows of the clock.                                               *)

\* The second in which window n is over.
EndOf(n) == (n + 1) * WindowSeconds

LEMMA Division ==
  ASSUME NEW a \in Nat, NEW w \in Nat \ {0}
  PROVE  /\ a \div w \in Nat /\ a % w \in Nat
         /\ a % w < w
         /\ a = w * (a \div w) + (a % w)
  OBVIOUS

LEMMA Ends ==
  ASSUME NEW n \in Nat
  PROVE  /\ EndOf(n) \in Nat
         /\ EndOf(n) = WindowSeconds * n + WindowSeconds
  BY RedisAssumption DEF EndOf

LEMMA EndsInOrder ==
  ASSUME NEW m \in Nat, NEW n \in Nat, m < n
  PROVE  EndOf(m) <= WindowSeconds * n
<1>1. WindowSeconds \in Nat
  BY RedisAssumption
<1>2. \A a, b, c \in Nat : a <= b => a * c <= c * b
  OBVIOUS
<1>3. m + 1 <= n /\ m + 1 \in Nat
  OBVIOUS
<1> QED
  BY <1>1, <1>2, <1>3 DEF EndOf

\* The window of the clock is the one that has not ended and whose end the
\* time to live reaches.
LEMMA ClockWindow ==
  ASSUME clock \in Nat
  PROVE  /\ Window \in Nat
         /\ clock < EndOf(Window)
         /\ Ttl(clock) \in Nat
         /\ clock + Ttl(clock) = EndOf(Window)
         /\ \A n \in Nat : clock < EndOf(n) => Window <= n
<1>1. /\ Window \in Nat /\ clock % WindowSeconds \in Nat
      /\ clock % WindowSeconds < WindowSeconds
      /\ clock = WindowSeconds * Window + (clock % WindowSeconds)
  BY RedisAssumption, Division DEF Window
<1>2. WindowSeconds \in Nat /\ WindowSeconds * Window \in Nat
  BY <1>1, RedisAssumption
<1>3. EndOf(Window) = WindowSeconds * Window + WindowSeconds
  BY <1>1, Ends
<1>4. ASSUME NEW n \in Nat, clock < EndOf(n), n < Window PROVE FALSE
  BY <1>1, <1>2, <1>4, Ends, EndsInOrder
<1> HIDE DEF Window
<1>5. \A n \in Nat : clock < EndOf(n) => Window <= n
  BY <1>1, <1>4
<1> QED
  BY <1>1, <1>2, <1>3, <1>5 DEF Ttl

\* A caller that has read the clock is given, with its time to live, until the
\* end of its window at least, however slow it is.
TimelyCaller(c) ==
    caller[c].pc # "idle" => EndOf(caller[c].now_window) <= clock + caller[c].ttl

\* A counter does not expire before its window has ended.
TimelyEntry(k, n) ==
    redis[k][n].expires # NeverExpires => EndOf(n) <= redis[k][n].expires

Timely ==
    /\ clock < EndOf(MaxWindow)
    /\ \A c \in Callers : TimelyCaller(c)
    /\ \A k \in Keys, n \in Windows : TimelyEntry(k, n)

ClockInv == TypeOK /\ Timely

LEMMA WindowType ==
  ASSUME ClockInv
  PROVE  Window \in Windows
<1>1. clock \in Nat /\ MaxWindow \in Nat /\ clock < EndOf(MaxWindow)
  BY RedisAssumption DEF ClockInv, TypeOK, Timely
<1>2. Window \in Nat /\ Window <= MaxWindow
  BY <1>1, ClockWindow
<1> HIDE DEF Window
<1> QED
  BY <1>1, <1>2 DEF Windows

-----------------------------------------------------------------------------
(* What the commands and the answer change.                                *)

Entry == [count : Nat, expires : Nat \cup {NeverExpires}]

LEMMA IncrEffect ==
  ASSUME NEW k \in Keys, NEW n \in Windows, Incr(k, n),
         redis \in [Keys -> [Windows -> Entry]]
  PROVE  /\ redis' \in [Keys -> [Windows -> Entry]]
         /\ redis'[k][n].count = redis[k][n].count + 1
         /\ redis'[k][n].expires = redis[k][n].expires
         /\ \A l \in Keys, m \in Windows : l # k \/ m # n => redis'[l][m] = redis[l][m]
<1> DEFINE new == [redis[k][n] EXCEPT !.count = redis[k][n].count + 1]
<1>1. redis' = [redis EXCEPT ![k][n] = new]
  BY DEF Incr
<1>2. redis[k][n] \in Entry
  OBVIOUS
<1>3. /\ new \in Entry
      /\ new.count = redis[k][n].count + 1 /\ new.expires = redis[k][n].expires
  BY <1>2 DEF Entry
<1> HIDE DEF new
<1> QED
  BY <1>1, <1>3

LEMMA ExpireEffect ==
  ASSUME NEW k \in Keys, NEW n \in Windows, NEW ttl \in Nat, ExpireIn(k, n, ttl), clock \in Nat,
         redis \in [Keys -> [Windows -> Entry]]
  PROVE  /\ redis' \in [Keys -> [Windows -> Entry]]
         /\ redis'[k][n].count = redis[k][n].count
         /\ redis'[k][n].expires =
               IF redis[k][n].count > 0 THEN clock + ttl ELSE redis[k][n].expires
         /\ \A l \in Keys, m \in Windows : l # k \/ m # n => redis'[l][m] = redis[l][m]
<1> DEFINE new == [redis[k][n] EXCEPT !.expires =
                     IF redis[k][n].count > 0 THEN clock + ttl ELSE redis[k][n].expires]
<1>1. redis' = [redis EXCEPT ![k][n] = new]
  BY DEF ExpireIn
<1>2. redis[k][n] \in Entry
  OBVIOUS
<1>3. /\ new \in Entry
      /\ new.count = redis[k][n].count
      /\ new.expires = IF redis[k][n].count > 0 THEN clock + ttl ELSE redis[k][n].expires
  BY <1>2 DEF Entry
<1> HIDE DEF new
<1> QED
  BY <1>1, <1>3

\* Nothing changes but for the key and window (k, n).
Elsewhere(k, n) ==
    \A l \in Keys, m \in Windows : l # k \/ m # n =>
        /\ redis'[l][m] = redis[l][m]
        /\ admitted'[l][m] = admitted[l][m]
        /\ opened'[l][m] = opened[l][m]
        /\ <<l, m>> \in refused' <=> <<l, m>> \in refused
        /\ Expiring(l, m)' = Expiring(l, m)

\* Caller c is at work for (k, n).
For(c, k, n) ==
    /\ caller[c].pc # "idle"
    /\ k \in Keys /\ k = caller[c].key
    /\ n \in Windows /\ n = caller[c].now_window

Returns(c) == caller' = [caller EXCEPT ![c] = IdleCaller]

CallerType ==
    [pc : {"idle", "incr", "expire"}, key : Keys \cup {NoKey}, now_window : Windows, ttl : Nat]

LEMMA ReturnEffect ==
  ASSUME TypeOK, NEW c \in Callers, NEW k \in Keys, NEW n \in Windows, For(c, k, n), Returns(c)
  PROVE  /\ caller' \in [Callers -> CallerType]
         /\ \A d \in Callers : caller'[d].pc # "idle" => d # c /\ caller'[d] = caller[d]
         /\ \A d \in Callers : caller'[d].pc # "idle" => caller'[d].key \in Keys
         /\ Expiring(k, n)' = Expiring(k, n) \ {c}
         /\ \A l \in Keys, m \in Windows : l # k \/ m # n => Expiring(l, m)' = Expiring(l, m)
<1>1. IdleCaller \in CallerType /\ IdleCaller.pc = "idle"
  BY RedisAssumption DEF IdleCaller, CallerType, Windows
<1>2. caller \in [Callers -> CallerType]
  BY DEF TypeOK, CallerType
<1>3. /\ caller' \in [Callers -> CallerType] /\ caller'[c] = IdleCaller
      /\ \A d \in Callers \ {c} : caller'[d] = caller[d]
  BY <1>1, <1>2 DEF Returns
<1>4. \A d \in Callers : caller'[d].pc # "idle" => d # c /\ caller'[d] = caller[d]
  BY <1>1, <1>3
<1>5. \A d \in Callers : caller'[d].pc # "idle" => caller'[d].key \in Keys
  BY <1>4 DEF TypeOK
<1>6. ASSUME NEW l, NEW m PROVE Expiring(l, m)' = Expiring(l, m) \ {c}
  BY <1>1, <1>3 DEF Expiring
<1>7. \A l \in Keys, m \in Windows : l # k \/ m # n => c \notin Expiring(l, m)
  BY DEF Expiring, For
<1> QED
  BY <1>3, <1>4, <1>5, <1>6, <1>7

LEMMA AnswerEffect ==
  ASSUME TypeOK, NEW c \in Callers, NEW k \in Keys, NEW n \in Windows, For(c, k, n),
         NEW allowed \in BOOLEAN, Answer(c, allowed)
  PROVE  /\ Returns(c)
         /\ admitted' \in [Keys -> [Windows -> Nat]]
         /\ admitted'[k][n] = IF allowed THEN admitted[k][n] + 1 ELSE admitted[k][n]
         /\ refused' \subseteq Keys \X Windows
         /\ \A l \in Keys, m \in Windows : l # k \/ m # n =>
               /\ admitted'[l][m] = admitted[l][m]
               /\ <<l, m>> \in refused' <=> <<l, m>> \in refused
         /\ allowed => refused' = refused
<1>1. CASE allowed
  <2>1. /\ admitted' = [admitted EXCEPT ![k][n] = admitted[k][n] + 1]
        /\ refused' = refused /\ Returns(c)
    BY <1>1 DEF Answer, For, Returns
  <2> QED
    BY <1>1, <2>1 DEF TypeOK, For
<1>2. CASE ~allowed
  <2>1. /\ admitted' = admitted
        /\ refused' = refused \cup {<<k, n>>} /\ Returns(c)
    BY <1>2 DEF Answer, For, Returns
  <2> QED
    BY <1>2, <2>1 DEF TypeOK, For
<1> QED
  BY <1>1, <1>2

Admits(c) == Answer(c, TRUE)

LEMMA AdmitEffect ==
  ASSUME TypeOK, NEW c \in Callers, NEW k \in Keys, NEW n \in Windows, For(c, k, n), Admits(c)
  PROVE  /\ Returns(c) /\ refused' = refused
         /\ admitted' \in [Keys -> [Windows -> Nat]]
         /\ admitted'[k][n] = admitted[k][n] + 1
         /\ \A l \in Keys, m \in Windows : l # k \/ m # n => admitted'[l][m] = admitted[l][m]
<1>1. /\ admitted' = [admitted EXCEPT ![k][n] = admitted[k][n] + 1]
      /\ refused' = refused /\ Returns(c)
  BY DEF Admits, Answer, For, Returns
<1> QED
  BY <1>1 DEF TypeOK, For

-----------------------------------------------------------------------------
(* What each step of a caller within allow() does.                         *)

LEMMA TimelyStep ==
  ASSUME ClockInv, NEW c \in Callers, NEW k \in Keys, NEW n \in Windows, For(c, k, n), clock' = clock,
         \A d \in Callers : caller'[d].pc # "idle" =>
            /\ caller[d].pc # "idle" /\ caller'[d].ttl = caller[d].ttl
            /\ caller'[d].now_window = caller[d].now_window,
         \A l \in Keys, m \in Windows : l # k \/ m # n => redis'[l][m] = redis[l][m],
         redis'[k][n].expires \in {redis[k][n].expires, clock + caller[c].ttl}
  PROVE  Timely'
<1>1. clock' < EndOf(MaxWindow)
  BY DEF ClockInv, Timely
<1>2. ASSUME NEW d \in Callers PROVE TimelyCaller(d)'
  BY <1>2 DEF ClockInv, Timely, TimelyCaller
<1>3. ASSUME NEW l \in Keys, NEW m \in Windows, l # k \/ m # n PROVE TimelyEntry(l, m)'
  BY <1>3 DEF ClockInv, Timely, TimelyEntry
<1>4. TimelyEntry(k, n)'
  BY DEF ClockInv, Timely, TimelyEntry, TimelyCaller, For
<1> QED
  BY <1>1, <1>2, <1>3, <1>4 DEF Timely

\* Caller c takes a step for (k, n).
Step(c, k, n) ==
    /\ For(c, k, n)
    /\ Elsewhere(k, n)
    /\ clock' = clock
    /\ ClockInv'

Counts(c, k, n) ==
    /\ Step(c, k, n)
    /\ failures' = failures
    /\ opened'[k][n] = opened[k][n]
    /\ redis'[k][n].count = redis[k][n].count + 1
    /\ redis'[k][n].expires = redis[k][n].expires
    /\ c \notin Expiring(k, n)

\* The caller is the first of the window, and goes on to EXPIRE.
CountsFirst(c, k, n) ==
    /\ Counts(c, k, n)
    /\ redis[k][n].count = 0
    /\ admitted'[k][n] = admitted[k][n]
    /\ refused' = refused
    /\ Expiring(k, n)' = Expiring(k, n) \cup {c}

CountsWithin(c, k, n) ==
    /\ Counts(c, k, n)
    /\ redis[k][n].count + 1 <= Limit
    /\ redis[k][n].count # 0
    /\ admitted'[k][n] = admitted[k][n] + 1
    /\ refused' = refused
    /\ Expiring(k, n)' = Expiring(k, n)

CountsBeyond(c, k, n) ==
    /\ Counts(c, k, n)
    /\ redis[k][n].count + 1 > Limit
    /\ redis[k][n].count # 0
    /\ admitted'[k][n] = admitted[k][n]
    /\ Expiring(k, n)' = Expiring(k, n)

LEMMA IncrKeyEffect ==
  ASSUME ClockInv, NEW c \in Callers, IncrKey(c)
  PROVE  \E k \in Keys, n \in Windows :
            CountsFirst(c, k, n) \/ CountsWithin(c, k, n) \/ CountsBeyond(c, k, n)
<1> SUFFICES ASSUME NEW k, NEW n, k = caller[c].key, n = caller[c].now_window
             PROVE  /\ k \in Keys /\ n \in Windows
                    /\ CountsFirst(c, k, n) \/ CountsWithin(c, k, n) \/ CountsBeyond(c, k, n)
  OBVIOUS
<1>1. TypeOK /\ For(c, k, n) /\ k \in Keys /\ n \in Windows /\ caller[c].pc = "incr"
  BY DEF ClockInv, TypeOK, For, IncrKey
<1>2. /\ Incr(k, n) /\ UNCHANGED <<clock, opened, failures>>
      /\ redis \in [Keys -> [Windows -> Entry]]
  BY DEF ClockInv, TypeOK, Entry, IncrKey
<1>3. /\ redis' \in [Keys -> [Windows -> Entry]]
      /\ redis'[k][n].count = redis[k][n].count + 1
      /\ redis'[k][n].expires = redis[k][n].expires
      /\ \A l \in Keys, m \in Windows : l # k \/ m # n => redis'[l][m] = redis[l][m]
  BY <1>1, <1>2, IncrEffect
<1>4. c \notin Expiring(k, n) /\ redis[k][n].count \in Nat
  BY <1>1 DEF Expiring, TypeOK
<1>5. CASE redis[k][n].count = 0
  <2>1. caller' = [caller EXCEPT ![c].pc = "expire"] /\ admitted' = admitted /\ refused' = refused
    BY <1>5 DEF IncrKey, FirstOfWindow
  <2> DEFINE new == [caller[c] EXCEPT !.pc = "expire"]
  <2>2. caller \in [Callers -> CallerType]
    BY <1>1 DEF TypeOK, CallerType
  <2>3. /\ new \in CallerType /\ new.pc = "expire" /\ new.key = k /\ new.now_window = n
        /\ new.ttl = caller[c].ttl
    BY <2>2 DEF CallerType
  <2>4. caller' = [caller EXCEPT ![c] = new]
    BY <2>1
  <2> HIDE DEF new
  <2>5. /\ caller' \in [Callers -> CallerType] /\ caller'[c] = new
        /\ \A d \in Callers \ {c} : caller'[d] = caller[d]
    BY <2>2, <2>3, <2>4
  <2>6. \A d \in Callers : caller'[d].pc # "idle" =>
            /\ caller[d].pc # "idle" /\ caller'[d].ttl = caller[d].ttl
            /\ caller'[d].now_window = caller[d].now_window
    BY <1>1, <2>3, <2>5 DEF For
  <2>7. \A d \in Callers : caller'[d].pc # "idle" => caller'[d].key \in Keys
    BY <1>1, <2>3, <2>5 DEF TypeOK
  <2>8. Expiring(k, n)' = Expiring(k, n) \cup {c}
    BY <2>3, <2>5 DEF Expiring
  <2>9. \A l \in Keys, m \in Windows : l # k \/ m # n => Expiring(l, m)' = Expiring(l, m)
    BY <1>1, <2>3, <2>5 DEF Expiring, For
  <2>10. Timely'
    <3>1. redis'[k][n].expires \in {redis[k][n].expires, clock + caller[c].ttl} /\ clock' = clock
      BY <1>2, <1>3
    <3> QED
      BY <1>1, <1>3, <2>6, <3>1, TimelyStep
  <2>11. TypeOK'
    BY <1>1, <1>2, <1>3, <2>1, <2>5, <2>7 DEF TypeOK, Entry, CallerType
  <2>12. Elsewhere(k, n)
    BY <1>2, <1>3, <2>1, <2>9 DEF Elsewhere
  <2> QED
    BY <1>1, <1>2, <1>3, <1>4, <1>5, <2>1, <2>8, <2>10, <2>11, <2>12
    DEF CountsFirst, Counts, Step, ClockInv
<1>6. CASE redis[k][n].count # 0
  <2>1. ~FirstOfWindow(redis[k][n].count + 1)
    BY <1>4, <1>6 DEF FirstOfWindow
  <2>2. Answer(c, WithinLimit(redis[k][n].count + 1))
    BY <2>1 DEF IncrKey
  <2>3. PICK allowed \in BOOLEAN : Answer(c, allowed) /\ (allowed <=> redis[k][n].count + 1 <= Limit)
    <3>1. CASE redis[k][n].count + 1 <= Limit
      BY <2>2, <3>1 DEF WithinLimit, Answer
    <3>2. CASE ~(redis[k][n].count + 1 <= Limit)
      BY <2>2, <3>2 DEF WithinLimit, Answer
    <3> QED
      BY <3>1, <3>2
  <2>4. /\ Returns(c)
        /\ admitted' \in [Keys -> [Windows -> Nat]]
        /\ admitted'[k][n] = IF allowed THEN admitted[k][n] + 1 ELSE admitted[k][n]
        /\ refused' \subseteq Keys \X Windows
        /\ \A l \in Keys, m \in Windows : l # k \/ m # n =>
              /\ admitted'[l][m] = admitted[l][m]
              /\ <<l, m>> \in refused' <=> <<l, m>> \in refused
        /\ allowed => refused' = refused
    BY <1>1, <2>3, AnswerEffect
  <2>5. /\ caller' \in [Callers -> CallerType]
        /\ \A d \in Callers : caller'[d].pc # "idle" => d # c /\ caller'[d] = caller[d]
        /\ \A d \in Callers : caller'[d].pc # "idle" => caller'[d].key \in Keys
        /\ Expiring(k, n)' = Expiring(k, n) \ {c}
        /\ \A l \in Keys, m \in Windows : l # k \/ m # n => Expiring(l, m)' = Expiring(l, m)
    BY <1>1, <2>4, ReturnEffect
  <2>6. Timely'
    <3>1. redis'[k][n].expires \in {redis[k][n].expires, clock + caller[c].ttl} /\ clock' = clock
      BY <1>2, <1>3
    <3>2. \A d \in Callers : caller'[d].pc # "idle" =>
             /\ caller[d].pc # "idle" /\ caller'[d].ttl = caller[d].ttl
             /\ caller'[d].now_window = caller[d].now_window
      BY <2>5
    <3> QED
      BY <1>1, <1>3, <3>1, <3>2, TimelyStep
  <2>7. TypeOK'
    BY <1>1, <1>2, <1>3, <2>4, <2>5 DEF TypeOK, Entry, CallerType
  <2>8. Elsewhere(k, n)
    BY <1>2, <1>3, <2>4, <2>5 DEF Elsewhere
  <2>9. Counts(c, k, n) /\ Expiring(k, n)' = Expiring(k, n)
    BY <1>1, <1>2, <1>3, <1>4, <2>5, <2>6, <2>7, <2>8 DEF Counts, Step, ClockInv
  <2> QED
    BY <1>1, <1>4, <1>6, <2>3, <2>4, <2>9, LimitType DEF CountsWithin, CountsBeyond
<1> QED
  BY <1>1, <1>5, <1>6

\* The first caller of the window has set the time to live and is admitted.
Expires(c, k, n) ==
    /\ Step(c, k, n)
    /\ failures' = failures
    /\ opened'[k][n] = opened[k][n]
    /\ redis'[k][n].count = redis[k][n].count
    /\ redis[k][n].count > 0 => redis'[k][n].expires # NeverExpires
    /\ admitted'[k][n] = admitted[k][n] + 1
    /\ refused' = refused
    /\ c \in Expiring(k, n)
    /\ Expiring(k, n)' = Expiring(k, n) \ {c}

LEMMA ExpireKeyEffect ==
  ASSUME ClockInv, NEW c \in Callers, ExpireKey(c)
  PROVE  \E k \in Keys, n \in Windows : Expires(c, k, n)
<1> SUFFICES ASSUME NEW k, NEW n, NEW ttl, k = caller[c].key, n = caller[c].now_window,
                    ttl = caller[c].ttl
             PROVE  k \in Keys /\ n \in Windows /\ Expires(c, k, n)
  OBVIOUS
<1>1. /\ TypeOK /\ For(c, k, n) /\ k \in Keys /\ n \in Windows /\ caller[c].pc = "expire"
      /\ ttl \in Nat /\ clock \in Nat
  BY DEF ClockInv, TypeOK, For, ExpireKey
<1>2. /\ ExpireIn(k, n, ttl) /\ UNCHANGED <<clock, opened, failures>>
      /\ redis \in [Keys -> [Windows -> Entry]]
  BY DEF ClockInv, TypeOK, Entry, ExpireKey
<1>3. /\ redis' \in [Keys -> [Windows -> Entry]]
      /\ redis'[k][n].count = redis[k][n].count
      /\ redis'[k][n].expires =
            IF redis[k][n].count > 0 THEN clock + ttl ELSE redis[k][n].expires
      /\ \A l \in Keys, m \in Windows : l # k \/ m # n => redis'[l][m] = redis[l][m]
  BY <1>1, <1>2, ExpireEffect
<1>4. Admits(c)
  BY DEF ExpireKey, Admits
<1>5. /\ Returns(c)
      /\ admitted' \in [Keys -> [Windows -> Nat]]
      /\ admitted'[k][n] = admitted[k][n] + 1
      /\ refused' = refused
      /\ \A l \in Keys, m \in Windows : l # k \/ m # n => admitted'[l][m] = admitted[l][m]
  BY <1>1, <1>4, AdmitEffect
<1>6. /\ caller' \in [Callers -> CallerType]
      /\ \A d \in Callers : caller'[d].pc # "idle" => d # c /\ caller'[d] = caller[d]
      /\ \A d \in Callers : caller'[d].pc # "idle" => caller'[d].key \in Keys
      /\ Expiring(k, n)' = Expiring(k, n) \ {c}
      /\ \A l \in Keys, m \in Windows : l # k \/ m # n => Expiring(l, m)' = Expiring(l, m)
  BY <1>1, <1>5, ReturnEffect
<1>7. Timely'
  <2>1. redis'[k][n].expires \in {redis[k][n].expires, clock + caller[c].ttl} /\ clock' = clock
    BY <1>2, <1>3
  <2>2. \A d \in Callers : caller'[d].pc # "idle" =>
           /\ caller[d].pc # "idle" /\ caller'[d].ttl = caller[d].ttl
           /\ caller'[d].now_window = caller[d].now_window
    BY <1>6
  <2> QED
    BY <1>1, <1>3, <2>1, <2>2, TimelyStep
<1>8. TypeOK'
  BY <1>1, <1>2, <1>3, <1>5, <1>6 DEF TypeOK, Entry, CallerType
<1>9. Elsewhere(k, n)
  BY <1>2, <1>3, <1>5, <1>6 DEF Elsewhere
<1>10. c \in Expiring(k, n)
  BY <1>1 DEF Expiring, For
<1>11. redis[k][n].count > 0 => redis'[k][n].expires # NeverExpires
  BY <1>1, <1>3 DEF NeverExpires
<1> QED
  BY <1>1, <1>2, <1>3, <1>5, <1>6, <1>7, <1>8, <1>9, <1>10, <1>11 DEF Expires, Step, ClockInv

\* A command fails or the process dies: at most an INCR has been counted, and an
\* admission there may be is one of fail_open's.
Loses(c, k, n) ==
    /\ Step(c, k, n)
    /\ failures' = failures + 1
    /\ redis'[k][n].count \in {redis[k][n].count, redis[k][n].count + 1}
    /\ c \in Expiring(k, n) => redis'[k][n].count = redis[k][n].count
    /\ \/ admitted'[k][n] = admitted[k][n] + 1 /\ opened'[k][n] = opened[k][n] + 1
       \/ admitted'[k][n] = admitted[k][n] /\ opened'[k][n] = opened[k][n]
    /\ refused' = refused
    /\ Expiring(k, n)' = Expiring(k, n) \ {c}

\* What the command that fails leaves in Redis.
LEMMA CommandFailsEffect ==
  ASSUME TypeOK, NEW c \in Callers, NEW k \in Keys, NEW n \in Windows,
         k = caller[c].key, n = caller[c].now_window, CommandFails(c)
  PROVE  /\ For(c, k, n)
         /\ failures' = failures + 1 /\ failures' \in 0..MaxFailures /\ clock' = clock
         /\ redis' \in [Keys -> [Windows -> Entry]]
         /\ redis'[k][n].count \in {redis[k][n].count, redis[k][n].count + 1}
         /\ c \in Expiring(k, n) => redis'[k][n].count = redis[k][n].count
         /\ redis'[k][n].expires \in {redis[k][n].expires, clock + caller[c].ttl}
         /\ \A l \in Keys, m \in Windows : l # k \/ m # n => redis'[l][m] = redis[l][m]
<1>1. caller[c].pc \in {"incr", "expire"} /\ For(c, k, n) /\ caller[c].ttl \in Nat /\ clock \in Nat
  BY DEF CommandFails, TypeOK, For
<1>2. failures' = failures + 1 /\ failures' \in 0..MaxFailures /\ clock' = clock
  BY RedisAssumption DEF CommandFails, TypeOK
<1>3. k \in Keys /\ n \in Windows /\ redis \in [Keys -> [Windows -> Entry]]
  BY <1>1 DEF For, TypeOK, Entry
<1>4. c \in Expiring(k, n) => caller[c].pc = "expire"
  BY DEF Expiring
<1>5. CASE UNCHANGED redis
  BY <1>1, <1>2, <1>3, <1>5
<1>6. CASE caller[c].pc = "incr" /\ Incr(k, n)
  BY <1>1, <1>2, <1>3, <1>4, <1>6, IncrEffect
<1>7. CASE caller[c].pc = "expire" /\ ExpireIn(k, n, caller[c].ttl)
  <2> SUFFICES ASSUME NEW ttl, ttl = caller[c].ttl
               PROVE  /\ redis' \in [Keys -> [Windows -> Entry]]
                      /\ redis'[k][n].count = redis[k][n].count
                      /\ redis'[k][n].expires \in {redis[k][n].expires, clock + ttl}
                      /\ \A l \in Keys, m \in Windows :
                            l # k \/ m # n => redis'[l][m] = redis[l][m]
    BY <1>1, <1>2
  <2>1. ExpireIn(k, n, ttl) /\ ttl \in Nat
    BY <1>1, <1>7
  <2> QED
    BY <1>1, <1>3, <2>1, ExpireEffect
<1> QED
  BY <1>5, <1>6, <1>7 DEF CommandFails

LEMMA LosesEffect ==
  ASSUME ClockInv, NEW c \in Callers, FailOpen(c) \/ FailClosed(c) \/ Crash(c)
  PROVE  \E k \in Keys, n \in Windows : Loses(c, k, n)
<1> SUFFICES ASSUME NEW k, NEW n, k = caller[c].key, n = caller[c].now_window
             PROVE  k \in Keys /\ n \in Windows /\ Loses(c, k, n)
  OBVIOUS
<1>1. TypeOK /\ k \in Keys /\ n \in Windows
  BY DEF ClockInv, TypeOK, FailOpen, FailClosed, CommandFails, Crash
<1>2. /\ For(c, k, n)
      /\ failures' = failures + 1 /\ failures' \in 0..MaxFailures /\ clock' = clock
      /\ redis' \in [Keys -> [Windows -> Entry]]
      /\ redis'[k][n].count \in {redis[k][n].count, redis[k][n].count + 1}
      /\ c \in Expiring(k, n) => redis'[k][n].count = redis[k][n].count
      /\ redis'[k][n].expires \in {redis[k][n].expires, clock + caller[c].ttl}
      /\ \A l \in Keys, m \in Windows : l # k \/ m # n => redis'[l][m] = redis[l][m]
  <2>1. CASE Crash(c)
    <3>1. failures' = failures + 1 /\ failures' \in 0..MaxFailures
      BY <1>1, <2>1, RedisAssumption DEF Crash, TypeOK
    <3> QED
      BY <1>1, <2>1, <3>1 DEF Crash, TypeOK, For, Entry
  <2>2. CASE CommandFails(c)
    BY <1>1, <2>2, CommandFailsEffect
  <2> QED
    BY <2>1, <2>2 DEF FailOpen, FailClosed
<1>3. k \in Keys /\ n \in Windows
  BY <1>2 DEF For
<1>4. /\ Returns(c) /\ refused' = refused
      /\ admitted' \in [Keys -> [Windows -> Nat]] /\ opened' \in [Keys -> [Windows -> Nat]]
      /\ \A l \in Keys, m \in Windows : l # k \/ m # n =>
            admitted'[l][m] = admitted[l][m] /\ opened'[l][m] = opened[l][m]
      /\ \/ admitted'[k][n] = admitted[k][n] + 1 /\ opened'[k][n] = opened[k][n] + 1
         \/ admitted'[k][n] = admitted[k][n] /\ opened'[k][n] = opened[k][n]
  <2>1. CASE FailOpen(c)
    <3>1. Admits(c) /\ opened' = [opened EXCEPT ![k][n] = opened[k][n] + 1]
      BY <2>1 DEF FailOpen, Admits
    <3>2. /\ Returns(c) /\ refused' = refused /\ admitted' \in [Keys -> [Windows -> Nat]]
          /\ admitted'[k][n] = admitted[k][n] + 1
          /\ \A l \in Keys, m \in Windows : l # k \/ m # n => admitted'[l][m] = admitted[l][m]
      BY <1>1, <1>2, <3>1, AdmitEffect
    <3>3. /\ opened' \in [Keys -> [Windows -> Nat]] /\ opened'[k][n] = opened[k][n] + 1
          /\ \A l \in Keys, m \in Windows : l # k \/ m # n => opened'[l][m] = opened[l][m]
      BY <1>1, <1>3, <3>1 DEF TypeOK
    <3> QED
      BY <3>2, <3>3
  <2>2. CASE FailClosed(c) \/ Crash(c)
    BY <1>1, <2>2 DEF FailClosed, Crash, Returns, TypeOK
  <2> QED
    BY <2>1, <2>2
<1>5. /\ caller' \in [Callers -> CallerType]
      /\ \A d \in Callers : caller'[d].pc # "idle" => d # c /\ caller'[d] = caller[d]
      /\ \A d \in Callers : caller'[d].pc # "idle" => caller'[d].key \in Keys
      /\ Expiring(k, n)' = Expiring(k, n) \ {c}
      /\ \A l \in Keys, m \in Windows : l # k \/ m # n => Expiring(l, m)' = Expiring(l, m)
  <2>1. For(c, k, n) /\ Returns(c)
    BY <1>2, <1>4
  <2> QED
    BY <1>1, <2>1, ReturnEffect
<1>6. Timely'
  <2>1. \A d \in Callers : caller'[d].pc # "idle" =>
           /\ caller[d].pc # "idle" /\ caller'[d].ttl = caller[d].ttl
           /\ caller'[d].now_window = caller[d].now_window
    BY <1>5
  <2> QED
    BY <1>1, <1>2, <2>1, TimelyStep
<1>7. TypeOK'
  BY <1>1, <1>2, <1>4, <1>5 DEF TypeOK, Entry, CallerType
<1>8. Elsewhere(k, n)
  BY <1>2, <1>4, <1>5 DEF Elsewhere
<1> QED
  BY <1>2, <1>3, <1>4, <1>5, <1>6, <1>7, <1>8 DEF Loses, Step, ClockInv

\* A caller reads the clock.
LEMMA ReadClockEffect ==
  ASSUME ClockInv, NEW c \in Callers, NEW k \in Keys, ReadClock(c, k)
  PROVE  /\ ClockInv'
         /\ UNCHANGED <<clock, redis, admitted, refused, opened, failures>>
         /\ \A l \in Keys, m \in Windows : Expiring(l, m)' = Expiring(l, m)
<1> SUFFICES ASSUME NEW w, w = Window
             PROVE  /\ ClockInv'
                    /\ UNCHANGED <<clock, redis, admitted, refused, opened, failures>>
                    /\ \A l \in Keys, m \in Windows : Expiring(l, m)' = Expiring(l, m)
  OBVIOUS
<1>1. TypeOK /\ clock \in Nat /\ w \in Windows /\ Ttl(clock) \in Nat /\ clock + Ttl(clock) = EndOf(w)
  BY WindowType, ClockWindow DEF ClockInv, TypeOK
<1> DEFINE new == [pc |-> "incr", key |-> k, now_window |-> w, ttl |-> Ttl(clock)]
<1>2. /\ new \in CallerType /\ new.pc = "incr" /\ new.key = k /\ new.now_window = w
      /\ new.ttl = Ttl(clock)
  BY <1>1 DEF CallerType
<1>3. /\ caller' = [caller EXCEPT ![c] = new] /\ caller[c].pc = "idle"
      /\ UNCHANGED <<clock, redis, admitted, refused, opened, failures>>
  BY DEF ReadClock
<1> HIDE DEF new
<1>4. /\ caller' \in [Callers -> CallerType] /\ caller'[c] = new
      /\ \A d \in Callers \ {c} : caller'[d] = caller[d]
  BY <1>1, <1>2, <1>3 DEF TypeOK, CallerType
<1>5. \A l \in Keys, m \in Windows : Expiring(l, m)' = Expiring(l, m)
  BY <1>2, <1>3, <1>4 DEF Expiring
<1>6. TypeOK'
  BY <1>1, <1>2, <1>3, <1>4 DEF TypeOK, CallerType
<1>7. ASSUME NEW d \in Callers PROVE TimelyCaller(d)'
  <2>1. CASE d = c
    BY <1>1, <1>2, <1>3, <1>4, <2>1, Ends DEF TimelyCaller, Windows
  <2>2. CASE d # c
    BY <1>3, <1>4, <2>2 DEF TimelyCaller, ClockInv, Timely
  <2> QED
    BY <2>1, <2>2
<1>8. Timely'
  BY <1>3, <1>7 DEF ClockInv, Timely, TimelyEntry
<1> QED
  BY <1>3, <1>5, <1>6, <1>8 DEF ClockInv

\* A second passes: a counter that Redis drops is one of a window that is over.
LEMMA TickEffect ==
  ASSUME ClockInv, Tick
  PROVE  /\ ClockInv' /\ clock' = clock + 1
         /\ UNCHANGED <<caller, admitted, refused, opened, failures>>
         /\ \A k \in Keys, n \in Windows :
               \/ redis'[k][n] = redis[k][n]
               \/ redis'[k][n] = NoEntry /\ EndOf(n) <= clock'
<1>1. TypeOK /\ clock \in Nat /\ clock' = clock + 1 /\ clock' \in Nat
  BY DEF ClockInv, TypeOK, Tick
<1>2. UNCHANGED <<caller, admitted, refused, opened, failures>>
  BY DEF Tick
<1>3. NoEntry \in Entry /\ NoEntry.expires = NeverExpires
  BY DEF NoEntry, Entry
<1>4. redis \in [Keys -> [Windows -> Entry]]
  BY <1>1 DEF TypeOK, Entry
<1>5. /\ redis' \in [Keys -> [Windows -> Entry]]
      /\ \A k \in Keys, n \in Windows :
            \/ redis'[k][n] = redis[k][n]
            \/ redis'[k][n] = NoEntry /\ redis[k][n].expires = clock'
  BY <1>1, <1>3, <1>4 DEF Tick
<1>6. \A k \in Keys, n \in Windows : redis[k][n].expires = clock' => EndOf(n) <= clock'
  BY <1>1 DEF ClockInv, Timely, TimelyEntry, NeverExpires
<1>7. TypeOK'
  BY <1>1, <1>2, <1>5 DEF TypeOK, Entry
<1>8. clock' < EndOf(MaxWindow)
  BY <1>1 DEF Tick, EndOf
<1>9. ASSUME NEW c \in Callers PROVE TimelyCaller(c)'
  <2>1. /\ caller[c].ttl \in Nat /\ caller[c].now_window \in Nat
    BY <1>1 DEF TypeOK, Windows
  <2>2. EndOf(caller[c].now_window) \in Nat
    BY <2>1, Ends
  <2> QED
    BY <1>1, <1>2, <2>1, <2>2 DEF ClockInv, Timely, TimelyCaller
<1>10. ASSUME NEW k \in Keys, NEW n \in Windows PROVE TimelyEntry(k, n)'
  BY <1>3, <1>5 DEF ClockInv, Timely, TimelyEntry
<1>11. Timely'
  BY <1>8, <1>9, <1>10 DEF Timely
<1> QED
  BY <1>1, <1>2, <1>5, <1>6, <1>7, <1>11 DEF ClockInv

-----------------------------------------------------------------------------
(* Type correctness, and that counters outlive their windows.              *)

\* A step of the system is one of those above.
LEMMA Steps ==
  ASSUME ClockInv, Next
  PROVE  \/ \E c \in Callers, k \in Keys : ReadClock(c, k)
         \/ \E c \in Callers, k \in Keys, n \in Windows :
               \/ CountsFirst(c, k, n) \/ CountsWithin(c, k, n) \/ CountsBeyond(c, k, n)
               \/ Expires(c, k, n) \/ Loses(c, k, n)
         \/ Tick
  BY IncrKeyEffect, ExpireKeyEffect, LosesEffect DEF Next

LEMMA InitClock == Init => ClockInv
<1> SUFFICES ASSUME Init PROVE ClockInv
  OBVIOUS
<1>1. 0 \in Windows /\ MaxWindow \in Nat /\ WindowSeconds \in Nat \ {0} /\ MaxFailures \in Nat
  BY RedisAssumption DEF Windows
<1>2. TypeOK
  BY <1>1 DEF Init, TypeOK, IdleCaller, NoEntry
<1>3. 0 < EndOf(MaxWindow)
  BY <1>1, ClockWindow, Ends
<1> QED
  BY <1>1, <1>2, <1>3 DEF Init, ClockInv, Timely, TimelyCaller, TimelyEntry, IdleCaller, NoEntry

LEMMA StepClock ==
  ASSUME ClockInv, [Next]_vars
  PROVE  ClockInv'
<1>1. CASE Next
  BY <1>1, Steps, ReadClockEffect, TickEffect
     DEF CountsFirst, CountsWithin, CountsBeyond, Counts, Expires, Loses, Step
<1>2. CASE UNCHANGED vars
  BY <1>2 DEF vars, ClockInv, TypeOK, Timely, TimelyCaller, TimelyEntry
<1> QED
  BY <1>1, <1>2

LEMMA ClockInvariant == Spec => []ClockInv
  BY InitClock, StepClock, PTL DEF Spec

\* Redis, the callers' locals and the histories keep their types; in particular
\* a caller's window is one that has begun.
THEOREM TypeCorrect == Spec => []TypeOK
<1>1. ClockInv => TypeOK
  BY DEF ClockInv
<1> QED
  BY <1>1, ClockInvariant, PTL

-----------------------------------------------------------------------------
(* The ration of a window.                                                 *)

\* The callers admitted for (k, n), and those that will be after EXPIRE.
Ration(k, n) == admitted[k][n] + Cardinality(Expiring(k, n))

\* Until its window ends, a counter has counted everyone whom it let in.
Rationed(k, n) ==
    clock < EndOf(n) =>
        /\ Ration(k, n) <= redis[k][n].count + opened[k][n]
        /\ Ration(k, n) <= Limit + opened[k][n]

\* A counter that falls short of the limit has counted only callers who were
\* let in or lost, even one that was dropped and made anew.
Earned(k, n) ==
    /\ \/ redis[k][n].count <= Ration(k, n) + failures
       \/ Limit <= Ration(k, n) + failures
    /\ <<k, n>> \in refused => Limit <= Ration(k, n) + failures

RationInv == \A k \in Keys, n \in Windows : Rationed(k, n) /\ Earned(k, n)

LEMMA ExpiringFinite ==
  ASSUME NEW k, NEW n
  PROVE  /\ IsFiniteSet(Expiring(k, n)) /\ Cardinality(Expiring(k, n)) \in Nat
         /\ Cardinality(Expiring(k, n)') \in Nat
<1>1. Expiring(k, n) \subseteq Callers /\ Expiring(k, n)' \subseteq Callers
  BY DEF Expiring
<1> QED
  BY <1>1, RedisAssumption, FS_Subset, FS_CardinalityType

LEMMA Numbers ==
  ASSUME TypeOK, NEW k \in Keys, NEW n \in Windows
  PROVE  /\ admitted[k][n] \in Nat /\ opened[k][n] \in Nat /\ failures \in Nat
         /\ redis[k][n].count \in Nat /\ Ration(k, n) \in Nat
         /\ clock \in Nat /\ EndOf(n) \in Nat
<1>1. admitted[k][n] \in Nat /\ opened[k][n] \in Nat /\ failures \in Nat /\ redis[k][n].count \in Nat
  BY RedisAssumption DEF TypeOK
<1>2. Ration(k, n) \in Nat
  BY <1>1, ExpiringFinite DEF Ration
<1>3. clock \in Nat /\ EndOf(n) \in Nat
  BY Ends DEF TypeOK, Windows
<1> QED
  BY <1>1, <1>2, <1>3

\* A step for one key and window leaves the rations of the others alone.
LEMMA RationElsewhere ==
  ASSUME TypeOK, RationInv, NEW c \in Callers, NEW k \in Keys, NEW n \in Windows, Step(c, k, n),
         failures' \in Nat, failures <= failures',
         Rationed(k, n)', Earned(k, n)'
  PROVE  RationInv'
<1> SUFFICES ASSUME NEW l \in Keys, NEW m \in Windows, l # k \/ m # n
             PROVE  Rationed(l, m)' /\ Earned(l, m)'
  BY DEF RationInv
<1>1. /\ redis'[l][m] = redis[l][m] /\ admitted'[l][m] = admitted[l][m]
      /\ opened'[l][m] = opened[l][m]
      /\ <<l, m>> \in refused' <=> <<l, m>> \in refused
      /\ Expiring(l, m)' = Expiring(l, m) /\ clock' = clock
  BY DEF Step, Elsewhere
<1>2. Rationed(l, m) /\ Earned(l, m)
  BY DEF RationInv
<1>3. Ration(l, m)' = Ration(l, m)
  BY <1>1 DEF Ration
<1>4. Rationed(l, m)'
  BY <1>1, <1>2, <1>3 DEF Rationed
<1>5. Earned(l, m)'
  <2>1. /\ redis[l][m].count \in Nat /\ Ration(l, m) \in Nat /\ Limit \in Nat
        /\ failures \in Nat
    BY Numbers, LimitType
  <2> QED
    BY <1>1, <1>2, <1>3, <2>1 DEF Earned
<1> QED
  BY <1>4, <1>5

LEMMA RationOfCounts ==
  ASSUME TypeOK, RationInv, NEW c \in Callers, NEW k \in Keys, NEW n \in Windows,
         CountsFirst(c, k, n) \/ CountsWithin(c, k, n) \/ CountsBeyond(c, k, n)
  PROVE  RationInv'
<1>1. /\ Step(c, k, n) /\ failures' = failures /\ opened'[k][n] = opened[k][n] /\ clock' = clock
      /\ redis'[k][n].count = redis[k][n].count + 1
  BY DEF CountsFirst, CountsWithin, CountsBeyond, Counts, Step
<1>2. /\ admitted[k][n] \in Nat /\ opened[k][n] \in Nat /\ failures \in Nat
      /\ redis[k][n].count \in Nat /\ Ration(k, n) \in Nat
      /\ Limit \in Nat /\ Limit >= 1
  BY Numbers, LimitType
<1>3. Rationed(k, n) /\ Earned(k, n)
  BY DEF RationInv
<1>4. CASE CountsFirst(c, k, n) \/ CountsWithin(c, k, n)
  <2>1. Ration(k, n)' = Ration(k, n) + 1 /\ redis[k][n].count + 1 <= Limit /\ refused' = refused
    <3>1. CASE CountsFirst(c, k, n)
      <4>1. Cardinality(Expiring(k, n)') = Cardinality(Expiring(k, n)) + 1
        BY <3>1, ExpiringFinite, FS_AddElement DEF CountsFirst, Counts
      <4> QED
        BY <1>2, <3>1, <4>1, ExpiringFinite DEF CountsFirst, Ration
    <3>2. CASE CountsWithin(c, k, n)
      BY <1>2, <3>2, ExpiringFinite DEF CountsWithin, Ration
    <3> QED
      BY <1>4, <3>1, <3>2
  <2>2. Rationed(k, n)'
    BY <1>1, <1>2, <1>3, <2>1 DEF Rationed
  <2>3. Earned(k, n)'
    BY <1>1, <1>2, <1>3, <2>1 DEF Earned
  <2> QED
    BY <1>1, <1>2, <2>2, <2>3, RationElsewhere
<1>5. CASE CountsBeyond(c, k, n)
  <2>1. Ration(k, n)' = Ration(k, n) /\ redis[k][n].count + 1 > Limit
    BY <1>5 DEF CountsBeyond, Ration
  <2>2. Rationed(k, n)'
    BY <1>1, <1>2, <1>3, <2>1 DEF Rationed
  <2>3. Earned(k, n)'
    BY <1>1, <1>2, <1>3, <2>1 DEF Earned
  <2> QED
    BY <1>1, <1>2, <2>2, <2>3, RationElsewhere
<1> QED
  BY <1>4, <1>5

LEMMA RationOfExpires ==
  ASSUME TypeOK, RationInv, NEW c \in Callers, NEW k \in Keys, NEW n \in Windows, Expires(c, k, n)
  PROVE  RationInv'
<1>1. /\ Step(c, k, n) /\ failures' = failures /\ opened'[k][n] = opened[k][n] /\ clock' = clock
      /\ redis'[k][n].count = redis[k][n].count /\ refused' = refused
  BY DEF Expires, Step
<1>2. failures \in Nat /\ admitted[k][n] \in Nat
  BY Numbers
<1>3. Ration(k, n)' = Ration(k, n)
  <2>1. Cardinality(Expiring(k, n)') = Cardinality(Expiring(k, n)) - 1
    BY ExpiringFinite, FS_RemoveElement DEF Expires
  <2> QED
    BY <1>2, <2>1, ExpiringFinite DEF Expires, Ration
<1>4. Rationed(k, n)' /\ Earned(k, n)'
  BY <1>1, <1>3 DEF RationInv, Rationed, Earned
<1> QED
  BY <1>1, <1>2, <1>4, RationElsewhere

LEMMA RationOfLoses ==
  ASSUME TypeOK, RationInv, NEW c \in Callers, NEW k \in Keys, NEW n \in Windows, Loses(c, k, n)
  PROVE  RationInv'
<1>1. /\ Step(c, k, n) /\ failures' = failures + 1 /\ clock' = clock /\ refused' = refused
  BY DEF Loses, Step
<1>2. /\ admitted[k][n] \in Nat /\ opened[k][n] \in Nat /\ failures \in Nat
      /\ redis[k][n].count \in Nat /\ Ration(k, n) \in Nat /\ Limit \in Nat
  BY Numbers, LimitType
<1>3. Rationed(k, n) /\ Earned(k, n)
  BY DEF RationInv
<1>4. redis'[k][n].count \in {redis[k][n].count, redis[k][n].count + 1}
  BY DEF Loses
<1>5. \/ Expiring(k, n)' = Expiring(k, n)
      \/ /\ Cardinality(Expiring(k, n)') = Cardinality(Expiring(k, n)) - 1
         /\ redis'[k][n].count = redis[k][n].count
  <2>1. CASE c \in Expiring(k, n)
    BY <2>1, ExpiringFinite, FS_RemoveElement DEF Loses
  <2>2. CASE c \notin Expiring(k, n)
    <3>1. Expiring(k, n) \ {c} = Expiring(k, n)
      BY <2>2
    <3> QED
      BY <3>1 DEF Loses
  <2> QED
    BY <2>1, <2>2
<1>6. /\ Ration(k, n)' \in Nat
      /\ Ration(k, n)' - opened'[k][n] <= Ration(k, n) - opened[k][n]
      /\ opened'[k][n] \in Nat
      /\ Ration(k, n)' + failures' >= Ration(k, n) + failures
      /\ redis'[k][n].count + Ration(k, n) + failures
            <= redis[k][n].count + Ration(k, n)' + failures'
  <2>1. /\ Cardinality(Expiring(k, n)) \in Nat /\ Cardinality(Expiring(k, n)') \in Nat
        /\ \/ Cardinality(Expiring(k, n)') = Cardinality(Expiring(k, n))
           \/ /\ Cardinality(Expiring(k, n)') = Cardinality(Expiring(k, n)) - 1
              /\ redis'[k][n].count = redis[k][n].count
    BY <1>5, ExpiringFinite
  <2>2. \/ admitted'[k][n] = admitted[k][n] + 1 /\ opened'[k][n] = opened[k][n] + 1
        \/ admitted'[k][n] = admitted[k][n] /\ opened'[k][n] = opened[k][n]
    BY DEF Loses
  <2>3. redis'[k][n].count \in Nat
    BY <1>2, <1>4
  <2> QED
    BY <1>1, <1>2, <1>4, <2>1, <2>2, <2>3 DEF Ration
<1>7. Rationed(k, n)'
  BY <1>1, <1>2, <1>3, <1>4, <1>6 DEF Rationed
<1>8. Earned(k, n)'
  BY <1>1, <1>2, <1>3, <1>4, <1>6 DEF Earned
<1> QED
  BY <1>1, <1>2, <1>7, <1>8, RationElsewhere

\* Nothing but a caller's place before INCR changes.
LEMMA RationOfRest ==
  ASSUME RationInv, UNCHANGED <<clock, redis, admitted, refused, opened, failures>>,
         \A l \in Keys, m \in Windows : Expiring(l, m)' = Expiring(l, m)
  PROVE  RationInv'
<1> SUFFICES ASSUME NEW k \in Keys, NEW n \in Windows
             PROVE  Rationed(k, n)' /\ Earned(k, n)'
  BY DEF RationInv
<1>1. Ration(k, n)' = Ration(k, n)
  BY DEF Ration
<1> QED
  BY <1>1 DEF RationInv, Rationed, Earned

LEMMA RationOfTick ==
  ASSUME ClockInv, RationInv, Tick
  PROVE  RationInv'
<1> SUFFICES ASSUME NEW k \in Keys, NEW n \in Windows
             PROVE  Rationed(k, n)' /\ Earned(k, n)'
  BY DEF RationInv
<1>1. /\ clock' = clock + 1 /\ UNCHANGED <<caller, admitted, refused, opened, failures>>
      /\ \/ redis'[k][n] = redis[k][n]
         \/ redis'[k][n] = NoEntry /\ EndOf(n) <= clock'
  BY TickEffect
<1>2. /\ clock \in Nat /\ EndOf(n) \in Nat /\ Ration(k, n) \in Nat /\ failures \in Nat
  BY Numbers DEF ClockInv
<1>3. Ration(k, n)' = Ration(k, n)
  BY <1>1 DEF Ration, Expiring
<1>4. Rationed(k, n) /\ Earned(k, n)
  BY DEF RationInv
<1>5. Rationed(k, n)'
  BY <1>1, <1>2, <1>3, <1>4 DEF Rationed
<1>6. Earned(k, n)'
  BY <1>1, <1>2, <1>3, <1>4 DEF Earned, NoEntry
<1> QED
  BY <1>5, <1>6

LEMMA RationInvariant == Spec => []RationInv
<1>1. Init => RationInv
  <2> SUFFICES ASSUME Init, NEW k \in Keys, NEW n \in Windows
               PROVE  Rationed(k, n) /\ Earned(k, n)
    BY DEF RationInv
  <2>1. Expiring(k, n) = {}
    BY DEF Init, Expiring, IdleCaller
  <2>2. Ration(k, n) = 0
    BY <2>1, FS_EmptySet DEF Init, Ration
  <2> QED
    BY <2>2, LimitType DEF Init, Rationed, Earned, NoEntry
<1>2. ASSUME ClockInv, RationInv, [Next]_vars PROVE RationInv'
  <2>1. CASE Next
    <3>1. TypeOK
      BY <1>2 DEF ClockInv
    <3>2. ASSUME NEW c \in Callers, NEW k \in Keys, ReadClock(c, k) PROVE RationInv'
      BY <1>2, <3>2, ReadClockEffect, RationOfRest
    <3> QED
      BY <1>2, <2>1, <3>1, <3>2, Steps, RationOfCounts, RationOfExpires, RationOfLoses, RationOfTick
  <2>2. CASE UNCHANGED vars
    <3>1. \A l \in Keys, m \in Windows : Expiring(l, m)' = Expiring(l, m)
      BY <2>2 DEF vars, Expiring
    <3> QED
      BY <1>2, <2>2, <3>1, RationOfRest DEF vars
  <2> QED
    BY <1>2, <2>1, <2>2
<1> QED
  BY <1>1, <1>2, ClockInvariant, PTL DEF Spec

\* While a window lasts, no more callers are admitted for a key than the limit
\* and the failures that fail_open lets through: EXPIRE never shortens the life of a
\* counter to less than its window, whichever caller is slow or dies.
THEOREM WindowLimitHolds == Spec => []WindowLimit
<1>1. ASSUME ClockInv, RationInv PROVE WindowLimit
  <2> SUFFICES ASSUME NEW k \in Keys, NEW n, n = Window
               PROVE  admitted[k][n] <= Limit + opened[k][n]
    BY DEF WindowLimit
  <2>1. n \in Windows /\ clock < EndOf(n) /\ TypeOK
    BY <1>1, WindowType, ClockWindow DEF ClockInv, TypeOK
  <2>2. Ration(k, n) <= Limit + opened[k][n]
    BY <1>1, <2>1 DEF RationInv, Rationed
  <2> QED
    BY <2>1, <2>2, Numbers, LimitType, ExpiringFinite DEF Ration
<1> QED
  BY <1>1, ClockInvariant, RationInvariant, PTL

\* A caller is refused only where the ration of its window has been used up by
\* callers admitted, callers about to be and callers lost to failures.
THEOREM NoEarlyRefusal == Spec => []RefusalsAreEarned
<1>1. ASSUME ClockInv, RationInv PROVE RefusalsAreEarned
  <2> SUFFICES ASSUME NEW k \in Keys, NEW n \in Windows, <<k, n>> \in refused
               PROVE  admitted[k][n] + Cardinality(Expiring(k, n)) + failures >= Limit
    BY DEF RefusalsAreEarned
  <2>1. TypeOK
    BY <1>1 DEF ClockInv
  <2> QED
    BY <1>1, <2>1, Numbers, LimitType, ExpiringFinite DEF RationInv, Earned, Ration
<1> QED
  BY <1>1, ClockInvariant, RationInvariant, PTL

-----------------------------------------------------------------------------
(* Counters that never expire.                                             *)

Leaky(k, n) ==
    /\ redis[k][n].count > 0
    /\ redis[k][n].expires = NeverExpires
    /\ Expiring(k, n) = {}

LeakInv == IsFiniteSet(Leaked) /\ Cardinality(Leaked) <= failures

LEMMA LeakedIsLeaky ==
  /\ Leaked = {kn \in Keys \X Windows : Leaky(kn[1], kn[2])}
  /\ Leaked' = {kn \in Keys \X Windows : Leaky(kn[1], kn[2])'}
  BY DEF Leaked, Leaky

\* A step that makes no counter leak keeps the bound.
LEMMA LeakKept ==
  ASSUME LeakInv, failures' = failures, failures \in Nat,
         \A k \in Keys, n \in Windows : Leaky(k, n)' => Leaky(k, n)
  PROVE  LeakInv'
<1>1. Leaked' \subseteq Leaked
  BY LeakedIsLeaky
<1> QED
  BY <1>1, FS_Subset, FS_CardinalityType DEF LeakInv

\* One that fails makes one leak at most.
LEMMA LeakAdded ==
  ASSUME LeakInv, failures' = failures + 1, failures \in Nat, NEW k \in Keys, NEW n \in Windows,
         \A l \in Keys, m \in Windows : l # k \/ m # n => (Leaky(l, m)' => Leaky(l, m))
  PROVE  LeakInv'
<1>1. Leaked' \subseteq Leaked \cup {<<k, n>>}
  <2> SUFFICES ASSUME NEW l \in Keys, NEW m \in Windows, <<l, m>> \in Leaked', l # k \/ m # n
               PROVE  <<l, m>> \in Leaked
    BY LeakedIsLeaky
  <2> QED
    BY LeakedIsLeaky
<1>2. /\ IsFiniteSet(Leaked \cup {<<k, n>>}) /\ Cardinality(Leaked \cup {<<k, n>>}) \in Nat
      /\ Cardinality(Leaked \cup {<<k, n>>}) <= Cardinality(Leaked) + 1
      /\ Cardinality(Leaked) \in Nat
  <2>1. IsFiniteSet(Leaked) /\ Cardinality(Leaked) \in Nat
    BY FS_CardinalityType DEF LeakInv
  <2>2. /\ IsFiniteSet(Leaked \cup {<<k, n>>})
        /\ \/ Cardinality(Leaked \cup {<<k, n>>}) = Cardinality(Leaked)
           \/ Cardinality(Leaked \cup {<<k, n>>}) = Cardinality(Leaked) + 1
    BY <2>1, FS_AddElement
  <2> QED
    BY <2>1, <2>2
<1>3. /\ IsFiniteSet(Leaked') /\ Cardinality(Leaked') <= Cardinality(Leaked \cup {<<k, n>>})
      /\ Cardinality(Leaked') \in Nat
  BY <1>1, <1>2, FS_Subset, FS_CardinalityType
<1> QED
  BY <1>2, <1>3 DEF LeakInv

LEMMA LeakElsewhere ==
  ASSUME NEW c, NEW k, NEW n, Step(c, k, n), NEW l \in Keys, NEW m \in Windows, l # k \/ m # n
  PROVE  Leaky(l, m)' => Leaky(l, m)
  BY DEF Step, Elsewhere, Leaky

LEMMA LeakStep ==
  ASSUME ClockInv, LeakInv, Next
  PROVE  LeakInv'
<1>1. failures \in Nat /\ TypeOK
  BY RedisAssumption DEF ClockInv, TypeOK
<1>2. ASSUME NEW c \in Callers, NEW k \in Keys, ReadClock(c, k) PROVE LeakInv'
  <2>1. \A l \in Keys, m \in Windows : Leaky(l, m)' => Leaky(l, m)
    BY <1>2, ReadClockEffect DEF Leaky
  <2> QED
    BY <1>1, <1>2, <2>1, ReadClockEffect, LeakKept
<1>3. ASSUME NEW c \in Callers, NEW k \in Keys, NEW n \in Windows,
             \/ CountsFirst(c, k, n) \/ CountsWithin(c, k, n) \/ CountsBeyond(c, k, n)
             \/ Expires(c, k, n)
      PROVE  LeakInv'
  <2>1. redis[k][n].count \in Nat
    BY <1>1 DEF TypeOK
  <2>2. Step(c, k, n) /\ failures' = failures
    BY <1>3 DEF CountsFirst, CountsWithin, CountsBeyond, Counts, Expires
  <2>3. Leaky(k, n)' => Leaky(k, n)
    BY <1>3, <2>1 DEF CountsFirst, CountsWithin, CountsBeyond, Counts, Expires, Leaky
  <2> QED
    BY <1>1, <2>2, <2>3, LeakElsewhere, LeakKept
<1>4. ASSUME NEW c \in Callers, NEW k \in Keys, NEW n \in Windows, Loses(c, k, n) PROVE LeakInv'
  <2>1. Step(c, k, n) /\ failures' = failures + 1
    BY <1>4 DEF Loses
  <2> QED
    BY <1>1, <2>1, LeakElsewhere, LeakAdded
<1>5. CASE Tick
  <2>1. \A l \in Keys, m \in Windows : Leaky(l, m)' => Leaky(l, m)
    BY <1>5, TickEffect DEF Leaky, Expiring, NoEntry
  <2> QED
    BY <1>1, <1>5, <2>1, TickEffect, LeakKept
<1> QED
  BY <1>2, <1>3, <1>4, <1>5, Steps

\* A counter without a time to live is left behind by a failed command or by a
\* death between INCR and EXPIRE, and one at most by each.
THEOREM LeaksAreBounded == Spec => []LeakBound
<1>1. Init => LeakInv
  <2> SUFFICES ASSUME Init PROVE LeakInv
    OBVIOUS
  <2>1. Leaked = {}
    BY DEF Init, Leaked, NoEntry
  <2> QED
    BY <2>1, FS_EmptySet DEF Init, LeakInv
<1>2. ASSUME ClockInv, LeakInv, [Next]_vars PROVE LeakInv'
  <2>1. CASE UNCHANGED vars
    BY <1>2, <2>1 DEF vars, LeakInv, Leaked, Expiring
  <2> QED
    BY <1>2, <2>1, LeakStep
<1>3. LeakInv => LeakBound
  BY DEF LeakInv, LeakBound
<1> QED
  BY <1>1, <1>2, <1>3, ClockInvariant, PTL DEF Spec

=============================================================================
