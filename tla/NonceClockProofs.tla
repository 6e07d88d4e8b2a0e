-------------------------- MODULE NonceClockProofs --------------------------
(***************************************************************************)
(* Proofs about NonceClock, for every length of the period, of the safe     *)
(* time, of the lifespan and of the clock skew.                             *)
(***************************************************************************)
EXTENDS NonceClock, TLAPS

\* All that rounding needs to know of the constants.
LEMMA QuantumType == Quantum \in Nat \ {0}
  BY NonceClockAssumption

USE QuantumType

\* The start of some period.
Whole(t) == \E k \in Int : t = k * Quantum

\* Two starts of periods that are less than a period apart are in order.
LEMMA WholeOrder ==
    ASSUME NEW s \in Int, NEW t \in Int, Whole(s), Whole(t), s < t + Quantum
    PROVE  s <= t
<1>1. PICK k \in Int : s = k * Quantum
  BY DEF Whole
<1>2. PICK m \in Int : t = m * Quantum
  BY DEF Whole
<1>3. (m + 1) * Quantum = t + Quantum
  BY <1>2
<1>4. k < m + 1
  <2> SUFFICES ASSUME k >= m + 1 PROVE FALSE
    OBVIOUS
  <2>1. (k - (m + 1)) * Quantum >= 0
    OBVIOUS
  <2>2. (k - (m + 1)) * Quantum = k * Quantum - (m + 1) * Quantum
    OBVIOUS
  <2> QED
    BY <1>1, <1>3, <2>1, <2>2
<1>5. (m - k) * Quantum >= 0
  BY <1>4
<1>6. (m - k) * Quantum = m * Quantum - k * Quantum
  OBVIOUS
<1> QED
  BY <1>1, <1>2, <1>5, <1>6

\* The next period is a period, and the remainder of a whole period is zero.
LEMMA WholeNext ==
    ASSUME NEW t \in Int, Whole(t)
    PROVE  Whole(t + Quantum) /\ t % Quantum = 0
<1>1. PICK k \in Int : t = k * Quantum
  BY DEF Whole
<1>2. (k + 1) * Quantum = t + Quantum
  BY <1>1
<1>3. t % Quantum = 0
  BY <1>1
<1> QED
  BY <1>2, <1>3 DEF Whole

\* Rounding down gives the start of the period the instant is in.
LEMMA RoundedDown ==
    ASSUME NEW t \in Int
    PROVE  LET r == RoundDownNonceTimestamp(t) IN
           r \in Int /\ Whole(r) /\ r <= t /\ t < r + Quantum
<1> DEFINE k == t \div Quantum
<1>1. k \in Int
  OBVIOUS
<1>2. k * Quantum <= t /\ t < k * Quantum + Quantum
  OBVIOUS
<1>3. k * Quantum \in Int /\ RoundDownNonceTimestamp(t) = k * Quantum
  BY <1>1 DEF RoundDownNonceTimestamp
<1> HIDE DEF k
<1>4. Whole(k * Quantum)
  BY <1>1 DEF Whole
<1> QED
  BY <1>2, <1>3, <1>4

\* A later instant is in the same or a later period.
LEMMA RoundMonotone ==
    ASSUME NEW s \in Int, NEW t \in Int, s <= t
    PROVE  RoundDownNonceTimestamp(s) <= RoundDownNonceTimestamp(t)
<1> DEFINE r == RoundDownNonceTimestamp(s)
           q == RoundDownNonceTimestamp(t)
<1>1. r \in Int /\ Whole(r) /\ r <= s /\ q \in Int /\ Whole(q) /\ t < q + Quantum
  BY RoundedDown
<1>2. r < q + Quantum
  BY <1>1
<1> QED
  BY <1>1, <1>2, WholeOrder

\* After a second it is the same period or the next one.
LEMMA NextSecond ==
    ASSUME NEW t \in Int
    PROVE  RoundDownNonceTimestamp(t + 1) \in
             {RoundDownNonceTimestamp(t), RoundDownNonceTimestamp(t) + Quantum}
<1> DEFINE r == RoundDownNonceTimestamp(t)
           q == RoundDownNonceTimestamp(t + 1)
<1>1. r \in Int /\ Whole(r) /\ t < r + Quantum /\ q \in Int /\ Whole(q) /\ q <= t + 1
  BY RoundedDown
<1>2. r <= q
  BY RoundMonotone
<1>3. q < r + Quantum => q <= r
  BY <1>1, WholeOrder
<1> QED
  BY <1>1, <1>2, <1>3

\* Two periods on, the period is at least the next one.
LEMMA TwoPeriodsOn ==
    ASSUME NEW s \in Int, NEW t \in Int, t >= s + 2 * Quantum
    PROVE  RoundDownNonceTimestamp(t) >= RoundDownNonceTimestamp(s) + Quantum
<1> DEFINE r == RoundDownNonceTimestamp(s)
           q == RoundDownNonceTimestamp(t)
<1>1. r \in Int /\ r <= s /\ q \in Int /\ t < q + Quantum
  BY RoundedDown
<1> QED
  BY <1>1
-----------------------------------------------------------------------------
\* Why NotIdentifiable is inductive.  A timestamp is that of the period of its
\* creation or of the next, so it is ahead of the clock only within the period
\* in which it was made; and as long as it is, the credit is not unsafe any
\* more, or sleeps to the safe time of that period.
Ahead == timestamp > RoundDownNonceTimestamp(now)
Safe  == now - RoundDownNonceTimestamp(now) >= SafeTime

Inv ==
    /\ now \in 0 .. MaxTime
    /\ credit \in {"none", "unsigned", "sleeping", "held", "accepted", "expired", "returned"}
    /\ timestamp \in Nat /\ Whole(timestamp)
    /\ wakeAt \in Nat
    /\ unsafe \in BOOLEAN
    /\ timestamp <= RoundDownNonceTimestamp(now) + Quantum
    /\ credit = "unsigned" /\ ~unsafe /\ Ahead => Safe
    /\ credit = "sleeping" /\ Ahead => wakeAt >= RoundDownNonceTimestamp(now) + SafeTime
    /\ credit = "held" /\ Ahead => Safe

\* Time starts with a period.
LEMMA WholeZero == Whole(0)
<1>1. 0 = 0 * Quantum
  OBVIOUS
<1> QED
  BY <1>1 DEF Whole

USE NonceClockAssumption

\* There is no credit yet.
LEMMA InitInv == Init => Inv
<1> SUFFICES ASSUME Init PROVE Inv
  OBVIOUS
<1>1. now \in 0 .. MaxTime
  BY DEF Init
<1>2. timestamp \in Nat /\ Whole(timestamp) /\ wakeAt \in Nat /\ unsafe \in BOOLEAN /\ credit = "none"
  BY WholeZero DEF Init
<1>3. RoundDownNonceTimestamp(now) \in Int /\ now < RoundDownNonceTimestamp(now) + Quantum
  BY <1>1, RoundedDown
<1>4. timestamp <= RoundDownNonceTimestamp(now) + Quantum
  BY <1>1, <1>3 DEF Init
<1> QED
  BY <1>1, <1>2, <1>4 DEF Inv

\* Every step keeps the invariant.
LEMMA NextInv == Inv /\ [Next]_vars => Inv'
<1> SUFFICES ASSUME Inv, [Next]_vars PROVE Inv'
  OBVIOUS
<1> DEFINE r == RoundDownNonceTimestamp(now)
<1>0. now \in Int /\ r \in Int /\ Whole(r) /\ 0 <= r /\ r <= now /\ now < r + Quantum /\ timestamp \in Int
  <2>1. now \in Int /\ r \in Int /\ Whole(r) /\ r <= now /\ now < r + Quantum /\ now >= 0
    <3>1. now \in Int /\ now >= 0
      BY DEF Inv
    <3> QED
      BY <3>1, RoundedDown
  <2>2. 0 <= r
    <3>1. 0 < r + Quantum
      BY <2>1
    <3> QED
      BY <2>1, <3>1, WholeZero, WholeOrder
  <2> QED
    BY <2>1, <2>2 DEF Inv
<1>1. CASE Tick
  <2> DEFINE q == RoundDownNonceTimestamp(now')
  <2>1. now' = now + 1 /\ now' \in 0 .. MaxTime /\ UNCHANGED <<credit, timestamp, unsafe, wakeAt>>
    BY <1>1 DEF Tick, Inv
  <2>2. q = r \/ q = r + Quantum
    BY <1>0, <2>1, NextSecond
  <2>3. timestamp <= q + Quantum /\ (timestamp > q => q = r)
    BY <1>0, <2>2 DEF Inv
  <2>4. Ahead' => q = r /\ Ahead
    BY <2>1, <2>3 DEF Ahead
  <2>5. q = r /\ Safe => Safe'
    BY <1>0, <2>1 DEF Safe
  <2> QED
    BY <2>1, <2>3, <2>4, <2>5 DEF Inv
<1>2. CASE Create
  <2>1. PICK next \in BOOLEAN : SafeNonceTimestamp(next)
    BY <1>2 DEF Create
  <2>2. timestamp' = (IF next THEN r + Quantum ELSE r) /\ unsafe' = (next /\ now - r < SafeTime)
    BY <2>1 DEF SafeNonceTimestamp
  <2>3. timestamp' \in Nat /\ Whole(timestamp') /\ timestamp' <= r + Quantum
    BY <1>0, <2>2, WholeNext
  <2>4. unsafe' \in BOOLEAN
    BY <2>2
  <2>5. timestamp' > r /\ ~unsafe' => now - r >= SafeTime
    BY <1>0, <2>2
  <2> QED
    BY <1>2, <2>3, <2>4, <2>5 DEF Create, Inv, Ahead, Safe
<1>3. CASE Finalize
  <2>1. wakeAt' \in Nat
    BY <1>0, <1>3 DEF Finalize, Inv
  <2>2. CASE unsafe
    BY <1>0, <1>3, <2>1, <2>2 DEF Finalize, Inv, Ahead, Safe
  <2>3. CASE ~unsafe
    BY <1>0, <1>3, <2>1, <2>3 DEF Finalize, Inv, Ahead, Safe
  <2> QED
    BY <2>2, <2>3
<1>4. CASE Wake
  BY <1>0, <1>4 DEF Wake, Inv, Ahead, Safe
<1>5. CASE Return
  BY <1>5 DEF Return, Inv, Ahead, Safe
<1>6. ASSUME NEW skew \in -Skew .. Skew, Present(skew) PROVE Inv'
  BY <1>6 DEF Present, Inv, Ahead, Safe
<1>7. CASE UNCHANGED vars
  BY <1>7 DEF vars, Inv, Ahead, Safe
<1> QED
  BY <1>1, <1>2, <1>3, <1>4, <1>5, <1>6, <1>7 DEF Next

\* The invariant holds in every state.
THEOREM ClockInvariance == Spec => []Inv
<1> QED
  BY InitInv, NextInv, PTL DEF Spec

\* StampIsSafe (SafeNonceTimestamp, finalize): every timestamp is the start of a
\* period, and a credit stamped with the next one is not used in the first
\* seconds of the period, for every choice of the lengths.
THEOREM StampsAreSafe == Spec => []StampIsSafe
<1>1. Inv => TypeOK
  BY WholeNext DEF Inv, TypeOK
<1>2. Inv => NotIdentifiable
  BY DEF Inv, NotIdentifiable, Ahead, Safe
<1>3. Inv => StampIsSafe
  BY <1>1, <1>2 DEF StampIsSafe
<1> QED
  BY <1>3, ClockInvariance, PTL

\* AcceptedInItsPeriod (IsExpiredAt): a locker whose clock is off by at most the
\* skew accepts a credit to the end of the period in its timestamp.
THEOREM AcceptedToTheEnd == Spec => []AcceptedInItsPeriod
<1>1. ASSUME Inv PROVE AcceptedInItsPeriod
  <2> SUFFICES ASSUME NEW skew \in -Skew .. Skew, now < timestamp + Quantum
               PROVE  ~IsExpiredAt(timestamp, now + skew)
    BY DEF AcceptedInItsPeriod
  <2> DEFINE r == RoundDownNonceTimestamp(now)
             low == RoundDownNonceTimestamp((now + skew) - Skew)
             high == RoundDownNonceTimestamp((now + skew) + Lifespan + Skew)
  <2>1. now \in Int /\ timestamp \in Int /\ skew \in Int /\ -Skew <= skew /\ skew <= Skew
    BY <1>1 DEF Inv
  <2>2. r \in Int /\ Whole(r) /\ r <= now
    BY <2>1, RoundedDown
  <2>3. r <= timestamp
    BY <1>1, <2>1, <2>2, WholeOrder DEF Inv
  <2>4. (now + skew) - Skew \in Int /\ (now + skew) - Skew <= now
    BY <2>1
  <2>5. low <= r /\ low \in Int
    BY <2>1, <2>4, RoundMonotone, RoundedDown
  <2>6. (now + skew) + Lifespan + Skew \in Int /\ (now + skew) + Lifespan + Skew >= now + 2 * Quantum
    BY <2>1
  <2>7. high >= r + Quantum /\ high \in Int
    BY <2>1, <2>6, TwoPeriodsOn, RoundedDown
  <2>8. ~(timestamp < low) /\ ~(timestamp > high)
    BY <1>1, <2>1, <2>2, <2>3, <2>5, <2>7 DEF Inv
  <2> QED
    BY <2>8 DEF IsExpiredAt
<1> QED
  BY <1>1, ClockInvariance, PTL
=============================================================================
