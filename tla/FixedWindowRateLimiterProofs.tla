-------------------- MODULE FixedWindowRateLimiterProofs --------------------
(***************************************************************************)
(* Proofs about FixedWindowRateLimiter for every set of callers and keys,  *)
(* every limit and every number of minutes.                                *)
(***************************************************************************)
EXTENDS FixedWindowRateLimiter, TLAPS

LEMMA LimitType == Limit \in Nat /\ Limit >= 1
  BY LimiterAssumption DEF Limit

LEMMA Rations ==
  ASSUME NEW l \in Nat
  PROVE  /\ Limit * l \in Nat
         /\ Limit * (1 + l) = Limit * l + Limit
         /\ Limit * (l + 1) = Limit * l + Limit
  BY LimitType

-----------------------------------------------------------------------------
(* Type correctness.                                                       *)

LEMMA CountType ==
  ASSUME TypeOK, NEW k \in Keys, NEW n \in Windows
  PROVE  CountFor(k, n) \in Nat
  BY DEF TypeOK, CountFor

LEMMA CounterTypes ==
  ASSUME TypeOK, NEW k \in Keys, NEW n \in Windows, NEW count \in Nat,
         SetCounter(k, n, count)
  PROVE  /\ counters' \in [Keys -> [window : Windows \cup {-1}, count : Nat]]
         /\ late' \in [Keys -> Nat]
<1>1. [window |-> n, count |-> count] \in [window : Windows \cup {-1}, count : Nat]
  OBVIOUS
<1>2. counters' \in [Keys -> [window : Windows \cup {-1}, count : Nat]]
  BY <1>1 DEF TypeOK, SetCounter
<1>3. late' \in [Keys -> Nat]
  BY DEF TypeOK, SetCounter
<1> QED
  BY <1>2, <1>3

LEMMA CallerReturns ==
  ASSUME TypeOK, NEW c \in Callers, caller' = [caller EXCEPT ![c] = IdleCaller]
  PROVE  /\ caller' \in [Callers -> [pc : {"idle", "deciding"}, key : Keys \cup {NoKey},
                                     now_window : Windows]]
         /\ \A d \in Callers : caller'[d].pc = "deciding" => caller'[d].key \in Keys
<1>1. 0 \in Windows
  BY LimiterAssumption DEF Windows
<1> QED
  BY <1>1 DEF TypeOK, IdleCaller

\* A caller about to decide has a key and a minute.
LEMMA Deciding ==
  ASSUME TypeOK, NEW c \in Callers, caller[c].pc = "deciding"
  PROVE  caller[c].key \in Keys /\ caller[c].now_window \in Windows
  BY DEF TypeOK

LEMMA StepTypeOK ==
  ASSUME TypeOK, [Next]_vars
  PROVE  TypeOK'
<1>1. ASSUME NEW c \in Callers, NEW k \in Keys, ReadClock(c, k) PROVE TypeOK'
  BY <1>1 DEF TypeOK, ReadClock
<1>2. ASSUME NEW c \in Callers, Refuse(c) PROVE TypeOK'
  <2>1. caller[c].key \in Keys /\ caller[c].now_window \in Windows
    BY <1>2, Deciding DEF Refuse
  <2>2. /\ counters' \in [Keys -> [window : Windows \cup {-1}, count : Nat]]
        /\ late' \in [Keys -> Nat]
    BY <1>2, <2>1, CountType, CounterTypes DEF Refuse
  <2>3. refused' \subseteq Keys \X Windows
    BY <1>2, <2>1 DEF TypeOK, Refuse
  <2> QED
    BY <1>2, <2>2, <2>3, CallerReturns DEF TypeOK, Refuse
<1>3. ASSUME NEW c \in Callers, Admit(c) PROVE TypeOK'
  <2>1. caller[c].key \in Keys /\ caller[c].now_window \in Windows
    BY <1>3, Deciding DEF Admit
  <2>2. CountFor(caller[c].key, caller[c].now_window) + 1 \in Nat
    BY <2>1, CountType
  <2>3. /\ counters' \in [Keys -> [window : Windows \cup {-1}, count : Nat]]
        /\ late' \in [Keys -> Nat]
    BY <1>3, <2>1, <2>2, CounterTypes DEF Admit
  <2>4. admitted' \in [Keys -> [Windows -> Nat]]
    BY <1>3, <2>1 DEF TypeOK, Admit
  <2> QED
    BY <1>3, <2>3, <2>4, CallerReturns DEF TypeOK, Admit
<1>4. CASE NextMinute
  BY <1>4, LimiterAssumption DEF TypeOK, NextMinute, Windows
<1>5. CASE UNCHANGED vars
  BY <1>5 DEF TypeOK, vars
<1> QED
  BY <1>1, <1>2, <1>3, <1>4, <1>5 DEF Next

\* The counters, the callers' locals and the histories keep their types.
THEOREM TypeCorrect == Spec => []TypeOK
<1>1. Init => TypeOK
  BY LimiterAssumption DEF Init, TypeOK, Windows, NoCounter, IdleCaller
<1> QED
  BY <1>1, StepTypeOK, PTL DEF Spec

-----------------------------------------------------------------------------
(* The bound on what a minute admits.                                      *)

\* admissions in minute n, when the counter counts minute w and set-backs have
\* given back L: a minute after the counter's has at most L, the counter's own
\* has what it counts on top of that, and an older minute one full ration more.
RationOf(admissions, n, w, count, L) ==
    /\ n < w => admissions <= L + Limit
    /\ n = w => admissions <= L + count
    /\ n > w => admissions <= L

Ration(k, n) ==
    RationOf(admitted[k][n], n, counters[k].window, counters[k].count, Limit * late[k])

\* How an admission by a caller of minute n, which leaves its counter at that
\* minute, changes the rations: of its own minute and of any other minute m.
LEMMA RationArithmetic ==
  ASSUME NEW a \in Nat, NEW m \in Int, NEW n \in Int, NEW w \in Int,
         NEW count \in Nat, count <= Limit, NEW L \in Nat,
         RationOf(a, m, w, count, L)
  PROVE  /\ n < w /\ m = n => RationOf(a + 1, m, n, 1, L + Limit)
         /\ n < w /\ m # n => RationOf(a, m, n, 1, L + Limit)
         /\ n = w /\ m = n => RationOf(a + 1, m, n, count + 1, L)
         /\ n = w /\ m # n => RationOf(a, m, n, count + 1, L)
         /\ n > w /\ m = n => RationOf(a + 1, m, n, 1, L)
         /\ n > w /\ m # n => RationOf(a, m, n, 1, L)
  BY LimitType DEF RationOf

\* The counter never passes the limit, and counts admissions of its minute only.
Counts(k) ==
    /\ counters[k].count <= Limit
    /\ counters[k].window \in Windows =>
          counters[k].count <= admitted[k][counters[k].window]

LimiterInv ==
    /\ \A k \in Keys, n \in Windows : Ration(k, n)
    /\ \A k \in Keys : Counts(k)
    /\ RefusalsAreEarned

LEMMA FieldTypes ==
  ASSUME TypeOK, NEW k \in Keys, NEW n \in Windows
  PROVE  /\ late[k] \in Nat
         /\ admitted[k][n] \in Nat
         /\ counters[k].window \in Int
         /\ counters[k].count \in Nat
         /\ n \in Int
<1>1. counters[k] \in [window : Windows \cup {-1}, count : Nat]
  BY DEF TypeOK
<1>2. counters[k].window \in Windows \cup {-1} /\ counters[k].count \in Nat
  BY <1>1
<1>3. \A m \in Windows : m \in Int
  BY LimiterAssumption DEF Windows
<1>4. counters[k].window \in Int
  BY <1>2, <1>3
<1>5. late[k] \in Nat /\ admitted[k][n] \in Nat
  BY DEF TypeOK
<1> QED
  BY <1>2, <1>3, <1>4, <1>5

LEMMA LimiterBound == TypeOK /\ LimiterInv => AdmissionBound
<1> SUFFICES ASSUME TypeOK, LimiterInv, NEW k \in Keys, NEW n \in Windows
             PROVE  admitted[k][n] <= Limit * (1 + late[k])
  BY DEF AdmissionBound
<1>1. /\ late[k] \in Nat
      /\ admitted[k][n] \in Nat
      /\ counters[k].window \in Int
      /\ counters[k].count \in Nat
      /\ n \in Int
  BY FieldTypes
<1>2. Ration(k, n) /\ counters[k].count <= Limit
  BY DEF LimiterInv, Counts
<1>3. /\ Limit * late[k] \in Nat
      /\ Limit * (1 + late[k]) = Limit * late[k] + Limit
  BY <1>1, Rations
<1> DEFINE L == Limit * late[k]
<1>4. L \in Nat /\ RationOf(admitted[k][n], n, counters[k].window, counters[k].count, L)
  BY <1>2, <1>3 DEF Ration
<1>5. Limit * (1 + late[k]) = L + Limit
  BY <1>3
<1> HIDE DEF L
<1>6. admitted[k][n] <= L + Limit
  BY <1>1, <1>2, <1>4, LimitType DEF RationOf
<1> QED
  BY <1>5, <1>6

\* A decision leaves every other key alone, and its own key as described.
LEMMA DecisionEffect ==
  ASSUME TypeOK, NEW c \in Callers, caller[c].pc = "deciding",
         NEW count \in Nat, SetCounter(caller[c].key, caller[c].now_window, count)
  PROVE  LET k == caller[c].key
             n == caller[c].now_window
         IN  /\ counters'[k].window = n
             /\ counters'[k].count = count
             /\ late'[k] = IF n < counters[k].window THEN late[k] + 1 ELSE late[k]
             /\ \A j \in Keys : j # k => counters'[j] = counters[j] /\ late'[j] = late[j]
  BY Deciding DEF SetCounter, TypeOK

LEMMA RefuseStep ==
  ASSUME TypeOK, LimiterInv, NEW c \in Callers, Refuse(c)
  PROVE  LimiterInv'
<1> DEFINE k == caller[c].key
           n == caller[c].now_window
<1>0. caller[c].pc = "deciding"
  BY DEF Refuse
<1>1. k \in Keys /\ n \in Windows
  BY <1>0, Deciding
\* The counter is already of this minute: a full count is not zero.
<1>2. counters[k].window = n /\ counters[k].count >= Limit
  BY <1>1, LimitType DEF Refuse, Full, CountFor, TypeOK
<1>3. counters' = counters /\ late' = late
  <2>1. [window |-> n, count |-> CountFor(k, n)] = counters[k]
    BY <1>1, <1>2 DEF CountFor, TypeOK
  <2>2. counters' = counters
    BY <2>1, <1>1 DEF Refuse, SetCounter, TypeOK
  <2>3. ~(n < counters[k].window)
    BY <1>1, <1>2 DEF Windows
  <2>4. late' = late
    BY <2>3, <1>1 DEF Refuse, SetCounter, TypeOK
  <2> QED
    BY <2>2, <2>4
<1>4. admitted' = admitted /\ refused' = refused \cup {<<k, n>>}
  BY DEF Refuse
<1>5. admitted[k][n] >= Limit
  <2>1. counters[k].count <= admitted[k][n]
    BY <1>1, <1>2 DEF LimiterInv, Counts
  <2> QED
    BY <2>1, <1>1, <1>2, LimitType DEF TypeOK
<1>6. RefusalsAreEarned'
  BY <1>4, <1>5 DEF LimiterInv, RefusalsAreEarned
<1> QED
  BY <1>3, <1>4, <1>6 DEF LimiterInv, Ration, Counts

LEMMA AdmitStep ==
  ASSUME TypeOK, LimiterInv, NEW c \in Callers, Admit(c)
  PROVE  LimiterInv'
<1>0. caller[c].pc = "deciding"
  BY DEF Admit
<1>a. PICK k \in Keys, n \in Windows : k = caller[c].key /\ n = caller[c].now_window
  BY <1>0, Deciding
<1>1. PICK old \in Nat : old = CountFor(k, n)
  BY CountType
<1>2. /\ counters'[k].window = n
      /\ counters'[k].count = old + 1
      /\ late'[k] = IF n < counters[k].window THEN late[k] + 1 ELSE late[k]
      /\ \A j \in Keys : j # k => counters'[j] = counters[j] /\ late'[j] = late[j]
  <2>1. SetCounter(caller[c].key, caller[c].now_window, old + 1) /\ old + 1 \in Nat
    BY <1>a, <1>1 DEF Admit
  <2> QED
    BY <1>0, <1>a, <2>1, DecisionEffect
<1>3. /\ admitted'[k][n] = admitted[k][n] + 1
      /\ \A m \in Windows : m # n => admitted'[k][m] = admitted[k][m]
      /\ \A j \in Keys : j # k => admitted'[j] = admitted[j]
  BY <1>a DEF Admit, TypeOK
<1>4. old + 1 <= Limit
  BY <1>a, <1>1, LimitType DEF Admit, Full
<1>5. old = IF counters[k].window = n THEN counters[k].count ELSE 0
  BY <1>1 DEF CountFor
<1>6. /\ counters[k].window \in Int
      /\ counters[k].count \in Nat
      /\ counters[k].count <= Limit
      /\ late[k] \in Nat
      /\ n \in Int
      /\ admitted[k][n] \in Nat
  BY <1>1, FieldTypes DEF LimiterInv, Counts
<1>7. ASSUME NEW m \in Windows PROVE Ration(k, m)'
  <2> DEFINE L == Limit * late[k]
             w == counters[k].window
             a == admitted[k][m]
  <2>1. L \in Nat /\ Limit * (late[k] + 1) = L + Limit
    BY <1>6, Rations
  <2>2. a \in Nat /\ m \in Int
    BY <1>1, FieldTypes
  <2>3. RationOf(a, m, w, counters[k].count, L)
    BY <1>1 DEF LimiterInv, Ration
  <2>4. admitted'[k][m] = IF m = n THEN a + 1 ELSE a
    BY <1>3
  <2>5. SUFFICES RationOf(admitted'[k][m], m, n, old + 1, Limit * late'[k])
    BY <1>2 DEF Ration
  <2> HIDE DEF L, a, w
  <2>6. /\ n < w /\ m = n => RationOf(a + 1, m, n, 1, L + Limit)
        /\ n < w /\ m # n => RationOf(a, m, n, 1, L + Limit)
        /\ n = w /\ m = n => RationOf(a + 1, m, n, counters[k].count + 1, L)
        /\ n = w /\ m # n => RationOf(a, m, n, counters[k].count + 1, L)
        /\ n > w /\ m = n => RationOf(a + 1, m, n, 1, L)
        /\ n > w /\ m # n => RationOf(a, m, n, 1, L)
    BY <1>6, <2>1, <2>2, <2>3, RationArithmetic DEF w
  <2>7. CASE n < w
    <3>1. old + 1 = 1 /\ Limit * late'[k] = L + Limit
      BY <1>2, <1>5, <1>6, <2>1, <2>7 DEF w
    <3> QED
      BY <2>4, <2>6, <2>7, <3>1
  <2>8. CASE n = w
    <3>1. old + 1 = counters[k].count + 1 /\ Limit * late'[k] = L
      BY <1>2, <1>5, <1>6, <2>8 DEF w, L
    <3> QED
      BY <2>4, <2>6, <2>8, <3>1
  <2>9. CASE n > w
    <3>1. old + 1 = 1 /\ Limit * late'[k] = L
      BY <1>2, <1>5, <1>6, <2>9 DEF w, L
    <3> QED
      BY <2>4, <2>6, <2>9, <3>1
  <2> QED
    BY <1>6, <2>7, <2>8, <2>9 DEF w
<1>8. ASSUME NEW j \in Keys, NEW m \in Windows PROVE Ration(j, m)'
  <2>1. CASE j = k
    BY <1>7, <2>1
  <2>2. CASE j # k
    <3>1. Ration(j, m)
      BY DEF LimiterInv
    <3>2. counters'[j] = counters[j] /\ late'[j] = late[j] /\ admitted'[j] = admitted[j]
      BY <1>2, <1>3, <2>2
    <3> QED
      BY <3>1, <3>2 DEF Ration
  <2> QED
    BY <2>1, <2>2
<1>9. Counts(k)'
  <2>1. old <= admitted[k][n]
    <3>1. counters[k].window = n => counters[k].count <= admitted[k][n]
      BY <1>1 DEF LimiterInv, Counts
    <3> QED
      BY <3>1, <1>1, <1>5, <1>6
  <2>2. old + 1 <= admitted[k][n] + 1
    BY <2>1, <1>1, <1>6
  <2> QED
    BY <2>2, <1>2, <1>3, <1>4 DEF Counts
<1>10. \A j \in Keys : Counts(j)'
  <2> SUFFICES ASSUME NEW j \in Keys, j # k PROVE Counts(j)'
    BY <1>9
  <2>1. Counts(j)
    BY DEF LimiterInv
  <2>2. counters'[j] = counters[j] /\ admitted'[j] = admitted[j]
    BY <1>2, <1>3
  <2> QED
    BY <2>1, <2>2 DEF Counts
<1>11. RefusalsAreEarned'
  <2>1. refused' = refused
    BY DEF Admit
  <2>2. ASSUME NEW j \in Keys, NEW m \in Windows PROVE admitted'[j][m] >= admitted[j][m]
    BY SMTT(30), <1>1, <1>3 DEF TypeOK
  <2>3. ASSUME NEW j \in Keys, NEW m \in Windows, <<j, m>> \in refused
        PROVE  admitted'[j][m] >= Limit
    <3>1. /\ admitted[j][m] >= Limit
          /\ admitted[j][m] \in Nat
      BY <2>3 DEF LimiterInv, RefusalsAreEarned, TypeOK
    <3>2. admitted'[j][m] \in Nat
      BY <1>1, <1>3, <3>1 DEF TypeOK
    <3> QED
      BY <2>2, <3>1, <3>2, LimitType
  <2> QED
    BY <2>1, <2>3 DEF RefusalsAreEarned
<1> QED
  BY <1>8, <1>10, <1>11 DEF LimiterInv

LEMMA LimiterInvariant == Spec => []LimiterInv
<1>1. Init => LimiterInv
  <2> SUFFICES ASSUME Init PROVE LimiterInv
    OBVIOUS
  <2>1. ASSUME NEW k \in Keys, NEW n \in Windows PROVE Ration(k, n)
    <3>1. admitted[k][n] = 0 /\ Limit * late[k] = 0 /\ counters[k].window = -1 /\ n \in Nat
      BY LimitType, LimiterAssumption DEF Init, NoCounter, Windows
    <3> QED
      BY <3>1 DEF Ration, RationOf
  <2>2. ASSUME NEW k \in Keys PROVE Counts(k)
    <3>1. counters[k].window = -1 /\ counters[k].count = 0 /\ -1 \notin Windows
      BY LimiterAssumption DEF Init, NoCounter, Windows
    <3> QED
      BY <3>1, LimitType DEF Counts
  <2>3. RefusalsAreEarned
    BY DEF Init, RefusalsAreEarned
  <2> QED
    BY <2>1, <2>2, <2>3 DEF LimiterInv
<1>2. TypeOK /\ LimiterInv /\ [Next]_vars => LimiterInv'
  <2> SUFFICES ASSUME TypeOK, LimiterInv, [Next]_vars PROVE LimiterInv'
    OBVIOUS
  <2>1. CASE UNCHANGED <<counters, admitted, refused, late>>
    BY <2>1 DEF LimiterInv, Ration, Counts, RefusalsAreEarned
  <2>2. ASSUME NEW c \in Callers, NEW k \in Keys, ReadClock(c, k)
        PROVE  UNCHANGED <<counters, admitted, refused, late>>
    BY <2>2 DEF ReadClock
  <2>3. NextMinute \/ UNCHANGED vars => UNCHANGED <<counters, admitted, refused, late>>
    BY DEF NextMinute, vars
  <2> QED
    BY <2>1, <2>2, <2>3, RefuseStep, AdmitStep DEF Next
<1> QED
  BY <1>1, <1>2, TypeCorrect, PTL DEF Spec

\* However callers, clock reads and minutes interleave, a minute admits at most
\* one ration more than there were set-backs of the key's counter.
THEOREM AdmissionsAreBounded == Spec => []AdmissionBound
  BY LimiterBound, LimiterInvariant, TypeCorrect, PTL

\* Nobody is refused in a minute whose ration was not used up.
THEOREM NoEarlyRefusal == Spec => []RefusalsAreEarned
<1>1. LimiterInv => RefusalsAreEarned
  BY DEF LimiterInv
<1> QED
  BY <1>1, LimiterInvariant, PTL

=============================================================================
