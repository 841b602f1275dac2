----------------------------- MODULE NodeProofs -----------------------------
(***************************************************************************)
(* Proofs about Node: no two frames under one key carry the same counter;  *)
(* beacons keep their distance however late the loop; a silent peer leaves *)
(* the table in time, and expiry drops no other but one heard after the    *)
(* iteration read the clock.  They hold for every number of radios, slots  *)
(* and nodes, and across the wrap of the clock.                            *)
(***************************************************************************)
EXTENDS Node, TLAPS, FiniteSetTheorems, WellFoundedInduction

CounterInRange == counter \in 0 .. MaxCounter
-----------------------------------------------------------------------------
(***************************************************************************)
(* Counting modulo m: k steps from a, and back.                            *)
(***************************************************************************)
LEMMA StepsForward ==
    ASSUME NEW m \in Nat \ {0}, NEW a \in 0 .. m - 1, NEW k \in 0 .. m - 1
    PROVE  /\ (a + k) % m = IF a + k < m THEN a + k ELSE a + k - m
           /\ (a + k) % m \in 0 .. m - 1
<1>1. CASE a + k < m
  BY <1>1
<1>2. CASE a + k >= m
  <2>1. a + k = m * 1 + (a + k - m) /\ a + k - m \in 0 .. m - 1
    BY <1>2
  <2> QED BY <1>2, <2>1
<1> QED BY <1>1, <1>2

LEMMA StepsBack ==
    ASSUME NEW m \in Nat \ {0}, NEW a \in 0 .. m - 1, NEW k \in 0 .. m - 1
    PROVE  (((a + k) % m) - a) % m = k
<1>1. CASE a + k < m
  BY <1>1, StepsForward
<1>2. CASE a + k >= m
  <2>1. ((a + k) % m) - a = k - m
    BY <1>2, StepsForward
  <2>2. k - m = m * (-1) + k
    OBVIOUS
  <2>3. (k - m) % m = k
    BY <2>2
  <2> QED BY <2>1, <2>3
<1> QED BY <1>1, <1>2
-----------------------------------------------------------------------------
(***************************************************************************)
(* The place of a radio among those a frame goes out on.                   *)
(***************************************************************************)
UpTo(r, to) == {q \in to : q <= r}

LEMMA RadioNumbers ==
    IsFiniteSet(Radio) /\ Cardinality(Radio) \in Nat /\ Radio \subseteq Nat
<1>1. IsFiniteSet(Radio) /\ Radio = 0 .. Cardinality(Radio) - 1
  BY NodeAssumption
<1>2. Cardinality(Radio) \in Nat
  BY <1>1, FS_CardinalityType
<1> QED BY <1>1, <1>2

LEMMA Places ==
    ASSUME NEW to \in SUBSET Radio
    PROVE  /\ Cardinality(to) \in 0 .. Cardinality(Radio)
           /\ \A r \in to : Cardinality(UpTo(r, to)) \in 1 .. Cardinality(Radio)
           /\ \A r, s \in to : r < s => Cardinality(UpTo(r, to)) < Cardinality(UpTo(s, to))
<1>1. IsFiniteSet(to) /\ Cardinality(to) \in Nat /\ Cardinality(to) <= Cardinality(Radio)
  BY RadioNumbers, FS_Subset, FS_CardinalityType
<1>2. ASSUME NEW r \in to
      PROVE  IsFiniteSet(UpTo(r, to)) /\ Cardinality(UpTo(r, to)) \in 1 .. Cardinality(Radio)
  <2>1. UpTo(r, to) \in SUBSET to /\ r \in UpTo(r, to)
    BY RadioNumbers DEF UpTo
  <2>2. /\ IsFiniteSet(UpTo(r, to)) /\ Cardinality(UpTo(r, to)) \in Nat
        /\ Cardinality(UpTo(r, to)) <= Cardinality(to)
    BY <1>1, <2>1, FS_Subset, FS_CardinalityType
  <2>3. Cardinality(UpTo(r, to)) # 0
    BY <2>1, <2>2, FS_EmptySet
  <2> QED BY <1>1, <2>2, <2>3, RadioNumbers
<1>3. ASSUME NEW r \in to, NEW s \in to, r < s
      PROVE  Cardinality(UpTo(r, to)) < Cardinality(UpTo(s, to))
  <2>1. UpTo(r, to) \in SUBSET UpTo(s, to) /\ s \in UpTo(s, to) /\ s \notin UpTo(r, to)
    <3>1. to \subseteq Nat
      BY RadioNumbers
    <3>2. \A q \in to : q <= r => q <= s
      BY <1>3, <3>1
    <3>3. s <= s /\ ~(s <= r)
      BY <1>3, <3>1
    <3> QED BY <3>2, <3>3 DEF UpTo
  <2>2. IsFiniteSet(UpTo(s, to)) /\ UpTo(r, to) # UpTo(s, to)
    BY <1>2, <2>1
  <2>3. /\ Cardinality(UpTo(r, to)) <= Cardinality(UpTo(s, to))
        /\ Cardinality(UpTo(s, to)) = Cardinality(UpTo(r, to)) => UpTo(s, to) = UpTo(r, to)
    BY <2>1, <2>2, FS_Subset
  <2> QED BY <1>2, <2>2, <2>3
<1> QED BY <1>1, <1>2, <1>3, RadioNumbers
-----------------------------------------------------------------------------
(***************************************************************************)
(* One frame sealed for each of the radios in to.                          *)
(***************************************************************************)
Fresh ==
    \A f \in air' :
        /\ (f.counter - counter) % (MaxCounter + 1) \in 1 .. Cardinality(Radio)
        /\ \A g \in air' : f.counter = g.counter => f = g

LEMMA SentIsFresh ==
    ASSUME NEW to \in SUBSET Radio, NEW kind, CounterInRange, Cardinality(Radio) <= MaxCounter,
           Sent(kind, to)
    PROVE  CounterInRange' /\ (setup.encrypted => Fresh)
<1> DEFINE m == MaxCounter + 1
<1>1. m \in Nat \ {0} /\ counter \in 0 .. m - 1 /\ Cardinality(Radio) \in 0 .. m - 1
  BY NodeAssumption, RadioNumbers DEF CounterInRange
<1>2. CounterInRange'
  <2>1. (counter + Cardinality(to)) % m \in 0 .. MaxCounter
    <3>1. Cardinality(to) \in 0 .. m - 1
      BY <1>1, Places
    <3> HIDE DEF m
    <3>2. (counter + Cardinality(to)) % m \in 0 .. m - 1
      BY <1>1, <3>1, StepsForward
    <3> QED BY <3>2, NodeAssumption DEF m
  <2> QED BY <2>1 DEF Sent, CounterInRange
<1>3. ASSUME setup.encrypted PROVE Fresh
  <2>1. air' = {[radio |-> r, kind |-> kind, counter |-> SealedFor(r, to)] : r \in to}
    BY <1>3 DEF Sent
  <2>2. \A r \in to : SealedFor(r, to) = (counter + Cardinality(UpTo(r, to))) % m
    BY DEF SealedFor, UpTo
  <2>3. ASSUME NEW r \in to
        PROVE  /\ Cardinality(UpTo(r, to)) \in 1 .. Cardinality(Radio)
               /\ (SealedFor(r, to) - counter) % m = Cardinality(UpTo(r, to))
    <3>1. Cardinality(UpTo(r, to)) \in 1 .. Cardinality(Radio)
      BY Places
    <3>2. Cardinality(UpTo(r, to)) \in 0 .. m - 1
      BY <1>1, <3>1
    <3> HIDE DEF m
    <3> QED BY <1>1, <2>2, <3>1, <3>2, StepsBack
  <2>4. \A r, s \in to : SealedFor(r, to) = SealedFor(s, to) => r = s
    <3> SUFFICES ASSUME NEW r \in to, NEW s \in to, SealedFor(r, to) = SealedFor(s, to)
                 PROVE  r = s
      OBVIOUS
    <3>1. Cardinality(UpTo(r, to)) = Cardinality(UpTo(s, to))
      BY <2>3
    <3>2. /\ r < s => Cardinality(UpTo(r, to)) < Cardinality(UpTo(s, to))
          /\ s < r => Cardinality(UpTo(s, to)) < Cardinality(UpTo(r, to))
      BY Places
    <3>3. ~(r < s) /\ ~(s < r)
      <4>1. Cardinality(UpTo(r, to)) \in Nat
        BY <2>3, RadioNumbers
      <4> QED BY <3>1, <3>2, <4>1
    <3>4. r \in Nat /\ s \in Nat
      BY RadioNumbers
    <3> QED BY <3>3, <3>4
  <2> QED BY <2>1, <2>3, <2>4 DEF Fresh
<1> QED BY <1>2, <1>3

(***************************************************************************)
(* All other steps put nothing on the air and leave the counter alone.     *)
(***************************************************************************)
LEMMA StepIsFresh ==
    ASSUME CounterInRange, Cardinality(Radio) <= MaxCounter, Next
    PROVE  CounterInRange' /\ (setup.encrypted => Fresh)
<1>1. ASSUME NEW r \in Radio, Beacon(r) PROVE CounterInRange' /\ (setup.encrypted => Fresh)
  <2>1. CASE Sent("position", {r})
    BY <2>1, SentIsFresh
  <2>2. CASE air' = {} /\ UNCHANGED counter
    BY <2>2 DEF Fresh, CounterInRange
  <2> QED BY <1>1, <2>1, <2>2 DEF Beacon
<1>2. CASE Announce
  <2>1. AnnouncedOn \in SUBSET Radio
    BY DEF AnnouncedOn
  <2> QED BY <1>2, <2>1, SentIsFresh DEF Announce
<1>3. CASE air' = {} /\ UNCHANGED counter
  BY <1>3 DEF Fresh, CounterInRange
<1>4. CASE \/ StartIteration \/ ServiceRx \/ Drained \/ Receive \/ Expire \/ Radar \/ EndIteration
           \/ \E r \in Radio, f \in Frame : Arrive(r, f)
           \/ \E e \in SUBSET Radio : Configure(e)
           \/ \E d \in 1 .. MaxLag : Advance(d)
  BY <1>3, <1>4
     DEF StartIteration, ServiceRx, Drained, Receive, Expire, Radar, EndIteration, Arrive, Configure,
         Advance
<1> QED BY <1>1, <1>2, <1>4 DEF Next, Loop

(***************************************************************************)
(* No two frames on the air, whichever radios they go out on, are sealed   *)
(* under one counter, and none under the counter of the last one.          *)
(***************************************************************************)
THEOREM NoCounterTwice ==
    ASSUME Cardinality(Radio) <= MaxCounter
    PROVE  Spec => CountersFresh
<1>1. Init => CounterInRange
  BY NodeAssumption DEF Init, CounterInRange
<1>2. CounterInRange /\ [Next]_vars => CounterInRange'
  BY StepIsFresh DEF CounterInRange, vars
<1>3. CounterInRange /\ [Next]_vars => [setup.encrypted => Fresh]_vars
  BY StepIsFresh
<1> QED BY <1>1, <1>2, <1>3, PTL DEF Spec, CountersFresh, Fresh
-----------------------------------------------------------------------------
(***************************************************************************)
(* Time, as ages: how long ago a stamp was taken, seen from the clock.     *)
(***************************************************************************)
LEMMA TimeFacts ==
    TimeHalf \in Nat /\ TimeMod \in Nat /\ TimeMod = TimeHalf + TimeHalf /\ TimeHalf > 0 /\ 0 \in Time
  BY TimeHalfAssumption DEF TimeMod, Time

LEMMA LaterType == ASSUME NEW a \in Time, NEW d \in 0 .. TimeHalf PROVE Later(a, d) \in Time
<1> PICK b \in Nat : b = a + d
  BY TimeFacts DEF Time
<1>1. a \in Nat /\ a < TimeMod /\ d \in Nat /\ b < TimeMod + TimeMod
  BY TimeFacts DEF Time
<1>2. CASE b < TimeMod
  BY <1>1, <1>2, TimeFacts DEF Later, Time
<1>3. CASE ~(b < TimeMod)
  BY <1>1, <1>3, TimeFacts DEF Later, Time
<1> QED BY <1>2, <1>3

LEMMA LaterElapsed ==
    ASSUME NEW a \in Time, NEW b \in Time, NEW d \in Nat, Elapsed(a, b) + d < TimeMod
    PROVE  Later(a, d) \in Time /\ Elapsed(Later(a, d), b) = Elapsed(a, b) + d
  BY TimeHalfAssumption DEF Elapsed, Later, Time, TimeMod

LEMMA BetweenStamps ==
    ASSUME NEW a \in Time, NEW b \in Time, NEW t \in Time
    PROVE  /\ Elapsed(a, t) \in 0 .. TimeMod - 1
           /\ Elapsed(a, a) = 0
           /\ Elapsed(a, b) <= Elapsed(a, t) => Elapsed(b, t) = Elapsed(a, t) - Elapsed(a, b)
           /\ Elapsed(a, t) <= Elapsed(a, b) => Elapsed(t, b) = Elapsed(a, b) - Elapsed(a, t)
  BY TimeHalfAssumption DEF Elapsed, Later, Time, TimeMod

(***************************************************************************)
(* A deadline t is looked at as the time since it was set for the longest  *)
(* delay D: whether it is reached, and what rearming it makes of it, with  *)
(* the clock c at most lag past the time n the loop goes by.               *)
(***************************************************************************)
LEMMA DeadlineReached ==
    ASSUME NEW c \in Time, NEW n \in Time, NEW t \in Time, NEW D \in 0 .. TimeHalf, NEW lag \in Nat,
           lag < TimeHalf, D + 2 * lag < TimeMod,
           Elapsed(c, n) <= lag,
           Elapsed(c, n) <= Elapsed(Later(c, D), t),
           Elapsed(Later(c, D), t) <= Elapsed(c, n) + D + lag
    PROVE  Reached(n, t) <=> Elapsed(Later(c, D), t) >= Elapsed(c, n) + D
  BY TimeHalfAssumption DEF Elapsed, Later, Time, TimeMod, Reached

LEMMA DeadlineFromNow ==
    ASSUME NEW c \in Time, NEW n \in Time, NEW D \in 0 .. TimeHalf, NEW d \in 0 .. D,
           Elapsed(c, n) + D < TimeMod
    PROVE  Later(n, d) \in Time /\ Elapsed(Later(c, D), Later(n, d)) = Elapsed(c, n) + D - d
  BY TimeHalfAssumption DEF Elapsed, Later, Time, TimeMod

LEMMA DeadlineFromDeadline ==
    ASSUME NEW c \in Time, NEW t \in Time, NEW D \in 0 .. TimeHalf,
           D <= Elapsed(Later(c, D), t)
    PROVE  Later(t, D) \in Time /\ Elapsed(Later(c, D), Later(t, D)) = Elapsed(Later(c, D), t) - D
  BY TimeHalfAssumption DEF Elapsed, Later, Time, TimeMod

LEMMA DeadlineLater ==
    ASSUME NEW c \in Time, NEW t \in Time, NEW D \in 0 .. TimeHalf, NEW d \in 0 .. TimeMod - 1,
           Elapsed(Later(c, D), t) + d < TimeMod
    PROVE  Elapsed(Later(Later(c, d), D), t) = Elapsed(Later(c, D), t) + d
  BY TimeHalfAssumption DEF Elapsed, Later, Time, TimeMod
-----------------------------------------------------------------------------
(***************************************************************************)
(* The rate controller: its delays are in order, the shortest with no peer *)
(* about, and never beyond the longest.                                    *)
(***************************************************************************)
LEMMA QuotientBounds ==
    ASSUME NEW a \in Int, NEW m \in Nat \ {0}
    PROVE  a \div m \in Int /\ m * (a \div m) <= a /\ a < m * (a \div m) + m
  BY Z3

LEMMA QuotientMonotone ==
    ASSUME NEW a \in Int, NEW b \in Int, NEW m \in Nat \ {0}, a <= b
    PROVE  a \div m <= b \div m
<1> DEFINE x == a \div m
           y == b \div m
<1>1. x \in Int /\ y \in Int /\ m * x <= a /\ b < m * y + m
  BY QuotientBounds
<1> HIDE DEF x, y
<1>2. m * x < m * (y + 1)
  BY <1>1
<1>3. x < y + 1
  BY <1>1, <1>2
<1> QED BY <1>1, <1>3 DEF x, y

LEMMA RoundedMonotone ==
    ASSUME NEW a \in Nat, NEW b \in Nat, NEW m \in Nat \ {0}, a <= b
    PROVE  /\ RoundedQuotient(a, m) \in Nat /\ RoundedQuotient(b, m) \in Nat
           /\ RoundedQuotient(a, m) <= RoundedQuotient(b, m)
<1>1. /\ 2 * a + m \in Int /\ 2 * b + m \in Int /\ 2 * m \in Nat \ {0}
      /\ 0 <= 2 * a + m /\ 2 * a + m <= 2 * b + m
  OBVIOUS
<1>2. /\ 0 \div (2 * m) <= (2 * a + m) \div (2 * m)
      /\ (2 * a + m) \div (2 * m) <= (2 * b + m) \div (2 * m)
      /\ (2 * a + m) \div (2 * m) \in Int /\ (2 * b + m) \div (2 * m) \in Int
  BY <1>1, QuotientMonotone, QuotientBounds
<1>3. 0 \div (2 * m) = 0
  BY <1>1
<1> QED BY <1>2, <1>3 DEF RoundedQuotient

LEMMA RoundedProduct ==
    ASSUME NEW k \in Nat, NEW m \in Nat \ {0}
    PROVE  RoundedQuotient(k * m, m) = k
<1> DEFINE p == k * m
           x == (2 * p + m) \div (2 * m)
<1>1. p \in Nat /\ 2 * p = (2 * m) * k /\ 2 * m \in Nat \ {0} /\ 2 * p + m \in Int
  OBVIOUS
<1>2. x \in Int /\ (2 * m) * x <= 2 * p + m /\ 2 * p + m < (2 * m) * x + 2 * m
  BY <1>1, QuotientBounds
<1> HIDE DEF p, x
<1>3. (2 * m) * x < (2 * m) * (k + 1) /\ (2 * m) * k < (2 * m) * (x + 1)
  BY <1>1, <1>2
<1>4. x < k + 1 /\ k < x + 1
  BY <1>2, <1>3
<1> QED BY <1>2, <1>4 DEF RoundedQuotient, p, x

LEMMA LoadIntervals ==
    ASSUME NEW n \in Nat, NEW airtime \in Nat
    PROVE  /\ LoadInterval(n, airtime) \in Nat
           /\ LoadInterval(0, airtime) <= LoadInterval(n, airtime)
           /\ LoadInterval(n, airtime) <= MaxInterval
<1> DEFINE raw == (n + 1) * airtime * 100
           alone == (0 + 1) * airtime * 100
<1>1. raw \in Nat /\ alone \in Nat /\ alone <= raw
  <2>1. (n + 1) * airtime = n * airtime + airtime /\ n * airtime \in Nat
    OBVIOUS
  <2> QED BY <2>1
<1>2. /\ MinInterval \in Nat /\ MaxInterval \in Nat /\ LoadPct \in Nat \ {0}
      /\ MinInterval <= MaxInterval /\ MinInterval * LoadPct \in Nat /\ MaxInterval * LoadPct \in Nat
  BY RatesAssumption
<1> DEFINE q(a) == IF a < MinInterval * LoadPct THEN MinInterval
                   ELSE IF a > MaxInterval * LoadPct THEN MaxInterval
                   ELSE RoundedQuotient(a, LoadPct)
<1>3. LoadInterval(n, airtime) = q(raw) /\ LoadInterval(0, airtime) = q(alone)
  BY DEF LoadInterval
<1> HIDE DEF raw, alone
<1>4. ASSUME NEW a \in Nat
      PROVE  q(a) \in Nat /\ MinInterval <= q(a) /\ q(a) <= MaxInterval
  <2>1. CASE a >= MinInterval * LoadPct /\ a <= MaxInterval * LoadPct
    <3>1. /\ RoundedQuotient(a, LoadPct) \in Nat
          /\ RoundedQuotient(MinInterval * LoadPct, LoadPct) <= RoundedQuotient(a, LoadPct)
          /\ RoundedQuotient(a, LoadPct) <= RoundedQuotient(MaxInterval * LoadPct, LoadPct)
      BY <1>2, <2>1, RoundedMonotone
    <3> QED BY <1>2, <2>1, <3>1, RoundedProduct
  <2> QED BY <1>2, <2>1
<1>5. q(alone) <= q(raw)
  <2>1. CASE alone >= MinInterval * LoadPct /\ raw <= MaxInterval * LoadPct
    BY <1>1, <1>2, <2>1, RoundedMonotone
  <2>2. CASE alone < MinInterval * LoadPct
    BY <1>1, <1>4, <2>2
  <2>3. CASE raw > MaxInterval * LoadPct
    <3>1. raw >= MinInterval * LoadPct
      BY <1>1, <1>2, <2>3
    <3>2. q(raw) = MaxInterval
      BY <1>1, <1>2, <2>3, <3>1
    <3> QED BY <1>1, <1>4, <3>2
  <2> QED BY <1>1, <1>2, <2>1, <2>2, <2>3
<1> QED BY <1>1, <1>3, <1>4, <1>5

LEMMA DelaysBounded ==
    ASSUME NEW n \in Nat, NEW airtime \in Nat
    PROVE  /\ LongestDelay(airtime) \in Nat
           /\ Min(NextDelays(0, airtime)) \in Nat
           /\ \A d \in NextDelays(n, airtime) :
                /\ d \in 0 .. LongestDelay(airtime)
                /\ Min(NextDelays(0, airtime)) <= d
<1> DEFINE lo(b) == RoundedQuotient(b * (100 - JitterPct), 100)
           hi(b) == RoundedQuotient(b * (100 + JitterPct), 100)
           alone == BaseInterval(0, airtime)
           base == BaseInterval(n, airtime)
           top == LongestInterval(airtime)
<1>1. DutyFloor(airtime) \in Nat
  <2>1. DutyPct \in Nat
    BY RatesAssumption
  <2>2. DutyPct # 0 => RoundedQuotient(airtime * 100, DutyPct) \in Nat
    BY <2>1, RoundedMonotone
  <2> QED BY <2>2 DEF DutyFloor
<1>2. alone \in Nat /\ base \in Nat /\ top \in Nat /\ alone <= base /\ base <= top
  <2>1. /\ LoadInterval(n, airtime) \in Nat /\ LoadInterval(0, airtime) \in Nat
        /\ LoadInterval(0, airtime) <= LoadInterval(n, airtime)
        /\ LoadInterval(n, airtime) <= MaxInterval
    BY LoadIntervals
  <2> QED BY <1>1, <2>1, RatesAssumption DEF BaseInterval, LongestInterval
<1>3. /\ NextDelays(n, airtime) = lo(base) .. hi(base)
      /\ NextDelays(0, airtime) = lo(alone) .. hi(alone)
      /\ LongestDelay(airtime) = hi(top)
  BY DEF NextDelays, LongestDelay
<1> HIDE DEF alone, base, top
<1>4. 100 - JitterPct \in Nat /\ 100 + JitterPct \in Nat /\ 100 - JitterPct <= 100 + JitterPct
  BY RatesAssumption
<1>5. \A a, b, j, k \in Nat : a <= b /\ j <= k =>
        /\ a * j \in Nat /\ b * k \in Nat /\ a * j <= b * k
  <2> TAKE a, b, j, k \in Nat
  <2> HAVE a <= b /\ j <= k
  <2>1. a * j <= b * j /\ b * j <= b * k
    OBVIOUS
  <2> QED BY <2>1
<1>6. lo(alone) \in Nat /\ lo(base) \in Nat /\ lo(alone) <= lo(base)
  BY <1>2, <1>4, <1>5, RoundedMonotone
<1>7. hi(base) \in Nat /\ hi(top) \in Nat /\ hi(base) <= hi(top)
  BY <1>2, <1>4, <1>5, RoundedMonotone
<1>8. hi(alone) \in Nat /\ lo(alone) <= hi(alone)
  BY <1>2, <1>4, <1>5, RoundedMonotone
<1> HIDE DEF lo, hi
<1>9. Min(lo(alone) .. hi(alone)) = lo(alone)
  <2>1. lo(alone) \in lo(alone) .. hi(alone) /\ \A y \in lo(alone) .. hi(alone) : lo(alone) <= y
    BY <1>6, <1>8
  <2>2. \A x \in lo(alone) .. hi(alone) :
            (\A y \in lo(alone) .. hi(alone) : x <= y) => x = lo(alone)
    BY <1>6, <1>8
  <2> QED BY <2>1, <2>2 DEF Min
<1> QED BY <1>3, <1>6, <1>7, <1>8, <1>9
-----------------------------------------------------------------------------
(***************************************************************************)
(* The table: a packet goes to the sender's own entry, or to another slot  *)
(* if it has none.                                                         *)
(***************************************************************************)
Below == {ij \in Nat \X Nat : ij[1] < ij[2]}

LEMMA LeastExists ==
    ASSUME NEW T, T \subseteq Nat, T # {}
    PROVE  \E i \in T : \A j \in T : i <= j
<1>1. Below = OpToRel(<, Nat)
  BY DEF Below, OpToRel
<1>2. PICK i \in T : \A j \in T : ~(<<j, i>> \in Below)
  BY <1>1, NatLessThanWellFounded, WFMin
<1>3. ASSUME NEW j \in T PROVE i <= j
  <2>1. i \in Nat /\ j \in Nat
    OBVIOUS
  <2>2. <<j, i>> \in Below <=> j < i
    BY <2>1 DEF Below
  <2> QED BY <1>2, <2>1, <2>2
<1> QED BY <1>3

LEMMA PresentIsFound ==
    ASSUME NEW u, Present(peers, u)
    PROVE  \E i \in Slot : IsFound(peers, u, i)
<1> DEFINE T == {i \in Slot : Holds(peers, i, u)}
<1>1. T # {} /\ T \subseteq Nat
  BY PeersAssumption DEF Present, Slot
<1>2. PICK i \in T : \A j \in T : i <= j
  BY <1>1, LeastExists
<1>3. \A j \in 0 .. i - 1 : j \in Slot /\ ~(i <= j)
  BY PeersAssumption, <1>1 DEF Slot
<1>4. \A j \in 0 .. i - 1 : ~Holds(peers, j, u)
  BY <1>2, <1>3
<1> QED BY <1>2, <1>4 DEF IsFound

Written(u, t, i, p) ==
    /\ p.valid /\ p.uid = u /\ p.update = t
    /\ peers' = [peers EXCEPT ![i] = p]
    /\ Holds(peers, i, u) \/ ~Present(peers, u)

LEMMA PacketWritten ==
    ASSUME peers \in [Slot -> Peer],
           NEW f \in Frame, f.uid \in Uid, NEW t \in Time, NEW r \in Radio, TableUpdated(f, t, r)
    PROVE  \E i \in Slot, p \in Peer : Written(f.uid, t, i, p)
<1> DEFINE u == f.uid
<1>1. PICK i \in Slot :
        /\ IsSlotFor(peers, u, i)
        /\ peers' = IF f.kind = "position" THEN PositionUpdated(peers, u, i, t, r)
                                           ELSE AnnounceUpdated(peers, u, i, t, r)
  BY DEF TableUpdated
<1> DEFINE o == Occupant(peers, u, i)
           a == HeardOn([o EXCEPT !.place = u, !.update = t, !.position = t], r, t)
           b == HeardOn([o EXCEPT !.name = u, !.update = t], r, t)
           p == IF f.kind = "position" THEN a ELSE b
<1>2. o \in Peer /\ o.valid /\ o.uid = u
  <2>1. CASE Holds(peers, i, u)
    BY <2>1 DEF Occupant, Holds
  <2>2. CASE ~Holds(peers, i, u)
    <3>1. EmptyPeer \in Peer
      BY TimeFacts DEF EmptyPeer, Peer
    <3> QED BY <2>2, <3>1 DEF Occupant, EmptyPeer, Peer
  <2> QED BY <2>1, <2>2
<1>3. a \in Peer /\ a.valid /\ a.uid = u /\ a.update = t
  <2> DEFINE q == [o EXCEPT !.place = u, !.update = t, !.position = t]
  <2>1. q \in Peer /\ q.valid /\ q.uid = u /\ q.update = t
    BY <1>2 DEF Peer
  <2> QED BY <2>1 DEF Peer, HeardOn
<1>4. b \in Peer /\ b.valid /\ b.uid = u /\ b.update = t
  <2> DEFINE q == [o EXCEPT !.name = u, !.update = t]
  <2>1. q \in Peer /\ q.valid /\ q.uid = u /\ q.update = t
    BY <1>2 DEF Peer
  <2> QED BY <2>1 DEF Peer, HeardOn
<1>5. peers' = [peers EXCEPT ![i] = p]
  BY <1>1 DEF PositionUpdated, AnnounceUpdated
<1>6. Holds(peers, i, u) \/ ~Present(peers, u)
  BY <1>1, PresentIsFound DEF IsSlotFor, IsFound
<1> QED BY <1>3, <1>4, <1>5, <1>6 DEF Written
-----------------------------------------------------------------------------
(***************************************************************************)
(* Types, and what goes with them: an entry is some node's, the expiry     *)
(* timer is armed from the start, and the radio being serviced is one.     *)
(***************************************************************************)
Typed ==
    /\ TypeOK
    /\ \A i \in Slot : peers[i].valid => peers[i].uid \in Uid
    /\ due[ExpireTimer] \in Time
    /\ pc \in {"read", "drain"} => at \in Radio

LEMMA Timers ==
    /\ Radio \subseteq Job /\ {AnnounceTimer, ExpireTimer, RadarTimer} \subseteq Job
    /\ ExpireTimer \notin Radio /\ AnnounceTimer \notin Radio /\ RadarTimer \notin Radio
    /\ AnnounceTimer # ExpireTimer /\ AnnounceTimer # RadarTimer /\ ExpireTimer # RadarTimer
    /\ Job = Radio \cup {AnnounceTimer, ExpireTimer, RadarTimer}
    /\ \A j \in Job : j \in Nat /\ j + 1 \in Job \cup {RadarTimer + 1}
    /\ 0 \in Radio /\ Radio \subseteq Nat
    /\ Unarmed \notin Time
<1>1. Cardinality(Radio) \in Nat /\ Radio = 0 .. Cardinality(Radio) - 1 /\ Radio # {}
  BY RadioNumbers, NodeAssumption
<1> DEFINE N == Cardinality(Radio)
<1>2. N >= 1
  BY <1>1
<1>3. AnnounceTimer = N /\ ExpireTimer = N + 1 /\ RadarTimer = N + 2 /\ Job = 0 .. N + 2
  BY <1>1 DEF Job, AnnounceTimer, ExpireTimer, RadarTimer
<1>4. Unarmed \notin Time
  BY TimeFacts DEF Unarmed, Time
<1> HIDE DEF N
<1>5. Radio = 0 .. N - 1 /\ N \in Nat
  BY <1>1 DEF N
<1> QED BY <1>2, <1>3, <1>4, <1>5

LEMMA LagBound == MaxLag \in Nat /\ MaxLag >= 1 /\ MaxLag < TimeHalf
<1>1. MaxLag \in 1 .. TimeHalf - 1
  BY NodeAssumption
<1> QED BY <1>1, TimeFacts

Longest(j) == IF j \in Radio THEN LongestDelay(Airtime[j]) ELSE Period[j]

LEMMA LongestBounds ==
    ASSUME NEW j \in Job
    PROVE  /\ Longest(j) \in 0 .. TimeHalf /\ Longest(j) + 2 * MaxLag < TimeMod
           /\ MaxLag \in 1 .. TimeHalf - 1
<1> MaxLag \in 1 .. TimeHalf - 1
  BY NodeAssumption
<1>1. CASE j \in Radio
  <2>1. Airtime[j] \in Nat
    BY <1>1, NodeAssumption
  <2>2. LongestDelay(Airtime[j]) \in Nat
    BY <2>1, DelaysBounded
  <2> QED BY <1>1, <2>2, NodeAssumption, NodeTimeAssumption, TimeFacts DEF Longest
<1>2. CASE j \notin Radio
  <2>1. j \in {AnnounceTimer, ExpireTimer, RadarTimer}
    BY <1>2, Timers
  <2>2. Longest(j) \in {AnnounceEvery, ExpireEvery, RadarEvery}
    BY <1>2, <2>1 DEF Longest, Period
  <2>3. \A every \in {AnnounceEvery, ExpireEvery, RadarEvery} :
            every \in 0 .. TimeHalf /\ every + 2 * MaxLag < TimeMod
    <3>1. \A every \in {AnnounceEvery, ExpireEvery, RadarEvery} : every \in 1 .. TimeHalf - 1
      BY NodeAssumption
    <3>2. AnnounceEvery + 2 * MaxLag < TimeMod /\ RadarEvery + 2 * MaxLag < TimeMod
      BY NodeTimeAssumption
    <3>3. (PeerTimeout + ExpireEvery) + 2 * MaxLag < TimeMod
      BY NodeTimeAssumption
    <3>4. ExpireEvery + 2 * MaxLag < TimeMod
      BY <3>1, <3>3, PeersAssumption, TimeFacts
    <3>5. \A n \in 1 .. TimeHalf - 1 : n \in 0 .. TimeHalf
      BY TimeFacts
    <3>6. \A every \in {AnnounceEvery, ExpireEvery, RadarEvery} : every \in 0 .. TimeHalf
      BY <3>1, <3>5
    <3> QED BY <3>2, <3>4, <3>6
  <2> QED BY <2>2, <2>3
<1> QED BY <1>1, <1>2

LEMMA ActiveIsNumber ==
    ASSUME NEW r
    PROVE  CountActiveOn(peers, r, now) \in Nat
<1>1. IsFiniteSet(Slot)
  BY PeersAssumption, FS_Interval DEF Slot
<1>2. {i \in Slot : /\ peers[i].valid
                    /\ r \in peers[i].radios
                    /\ Elapsed(now, peers[i].seen[r]) <= PeerTimeout} \in SUBSET Slot
  OBVIOUS
<1> QED BY <1>1, <1>2, FS_Subset, FS_CardinalityType DEF CountActiveOn

LEMMA SentTyped ==
    ASSUME NEW to \in SUBSET Radio, NEW kind \in {"position", "announce"}, CounterInRange,
           Sent(kind, to)
    PROVE  /\ CounterInRange'
           /\ air' \subseteq [radio : Radio, kind : {"position", "announce"}, counter : 0 .. MaxCounter]
<1>1. MaxCounter + 1 \in Nat \ {0} /\ counter \in Nat
  BY NodeAssumption DEF CounterInRange
<1>2. \A k \in Nat : (counter + k) % (MaxCounter + 1) \in 0 .. MaxCounter
  BY <1>1, NodeAssumption
<1>3. Cardinality(to) \in Nat
  BY Places
<1>4. \A r \in to : SealedFor(r, to) \in 0 .. MaxCounter
  <2>1. \A r \in to : Cardinality({q \in to : q <= r}) \in Nat
    BY Places, RadioNumbers DEF UpTo
  <2> QED BY <1>2, <2>1 DEF SealedFor
<1>5. 0 \in 0 .. MaxCounter
  BY NodeAssumption
<1> QED BY <1>2, <1>3, <1>4, <1>5 DEF Sent, CounterInRange

LEMMA SlotsTyped ==
    ASSUME Typed, NEW f \in Frame, NEW t \in Time, Opened(f, t)
    PROVE  slots' \in [Replay!ReplayIndex -> Replay!ReplaySlot]
<1>1. slots \in [Replay!ReplayIndex -> Replay!ReplaySlot] /\ f.uid \in Uid
      /\ f.counter \in 0 .. MaxCounter
  BY NodeAssumption DEF Typed, TypeOK
<1>2. CASE UNCHANGED slots
  BY <1>1, <1>2
<1>4. Replay!Time = Time
  BY DEF Replay!Time, Replay!TimeMod, Time, TimeMod
<1>3. ASSUME NEW i \in Replay!ReplayIndex,
             Replay!Accepts(slots, f.uid, i, f.counter, t),
             slots' = [slots EXCEPT ![i] = Replay!Recorded(slots, f.uid, i, f.counter, t)]
      PROVE  slots' \in [Replay!ReplayIndex -> Replay!ReplaySlot]
  <2> DEFINE s == slots[i]
             c == f.counter
  <2>1. s \in Replay!ReplaySlot /\ s.high \in 0 .. MaxCounter /\ s.window \subseteq 1 .. WindowBits
    BY <1>1 DEF Replay!ReplaySlot, Replay!Counter
  <2>2. Replay!Recorded(slots, f.uid, i, f.counter, t) \in Replay!ReplaySlot
    <3>1. CASE Replay!IsReset(slots, f.uid, i, t)
      BY <1>1, <1>4, <3>1 DEF Replay!Recorded, Replay!ReplaySlot, Replay!Counter
    <3>2. CASE ~Replay!IsReset(slots, f.uid, i, t) /\ c > s.high
      <4>1. c - s.high \in Nat /\ c - s.high >= 1 /\ WindowBits \in Nat
        BY <1>1, <2>1, <3>2, NodeAssumption
      <4>2. Replay!Slid(s.window, c - s.high) \subseteq 1 .. WindowBits
        BY <4>1 DEF Replay!Slid
      <4> QED BY <1>1, <1>4, <2>1, <3>2, <4>2 DEF Replay!Recorded, Replay!ReplaySlot, Replay!Counter
    <3>3. CASE ~Replay!IsReset(slots, f.uid, i, t) /\ ~(c > s.high)
      <4>1. s.high - c \in 1 .. WindowBits
        BY <1>3, <3>3 DEF Replay!Accepts, Replay!IsNew
      <4> QED BY <1>1, <1>4, <2>1, <3>3, <4>1 DEF Replay!Recorded, Replay!ReplaySlot, Replay!Counter
    <3> QED BY <3>1, <3>2, <3>3
  <2> QED BY <1>1, <1>3, <2>2
<1> QED BY <1>2, <1>3 DEF Opened

LEMMA InitTyped == Init => Typed
<1> SUFFICES ASSUME Init PROVE Typed
  OBVIOUS
<1>1. EmptyPeer \in Peer /\ ~EmptyPeer.valid
  BY TimeFacts DEF EmptyPeer, Peer
<1>2. Replay!EmptySlot \in Replay!ReplaySlot
  <2>1. 0 \in Replay!Time /\ 0 \in 0 .. MaxCounter
    BY TimeFacts, NodeAssumption DEF Replay!Time, Replay!TimeMod
  <2> QED BY <2>1 DEF Replay!EmptySlot, Replay!ReplaySlot, Replay!Counter
<1>3. 0 \in Slot /\ 0 \in 0 .. MaxCounter /\ MaxAge \in 0 .. MaxAge /\ MaxQuiet \in 0 .. MaxQuiet
  BY PeersAssumption, NodeAssumption DEF Slot
<1>4. \A r \in Radio : <<>> \in Seq(Queued) /\ Len(<<>>) <= RingUsable
  BY NodeAssumption
<1>5. due[ExpireTimer] \in Time
  <2>1. due[ExpireTimer] = Later(now, ExpireEvery)
    BY Timers DEF Init, IsRegistered, Period
  <2> QED BY <2>1, NodeAssumption, TimeFacts DEF Init, Later, Time
<1>6. TypeOK
  BY <1>1, <1>2, <1>3, <1>4, Timers, TimeFacts DEF Init, TypeOK, EmptyTable
<1> QED BY <1>1, <1>5, <1>6 DEF Typed, Init, EmptyTable

LEMMA ReceiveTyped ==
    ASSUME Typed, Receive
    PROVE  Typed'
<1> USE DEF Typed, TypeOK
<1>1. at \in Radio /\ ring[at] \in Seq(Queued) /\ ring[at] # <<>> /\ Len(ring[at]) <= RingUsable
  BY DEF Receive
<1> DEFINE f == Head(ring[at]).frame
           t == Head(ring[at]).stamp
<1>2. /\ OnReceive(f, t, at)
      /\ ring' = [ring EXCEPT ![at] = Tail(@)]
      /\ air' = {} /\ shown' = {}
      /\ UNCHANGED <<setup, clock, now, quiet, loopVars, enabled, counter, due, cursor>>
  BY DEF Receive
<1>3. Head(ring[at]) \in Queued
  BY <1>1
<1>4. f \in Frame /\ t \in Time /\ f.uid \in Uid
  BY <1>3, NodeAssumption DEF Queued
<1>5. Tail(ring[at]) \in Seq(Queued) /\ Len(Tail(ring[at])) = Len(ring[at]) - 1
      /\ Len(ring[at]) \in Nat /\ RingUsable \in Nat
  BY <1>1, NodeAssumption
<1>6. ring' \in [Radio -> Seq(Queued)] /\ \A r \in Radio : Len(ring'[r]) <= RingUsable
  BY <1>2, <1>1, <1>5
<1> HIDE DEF f, t
<1>7. slots' \in [Replay!ReplayIndex -> Replay!ReplaySlot]
  BY <1>2, <1>4, SlotsTyped DEF OnReceive
<1> DEFINE Kept == /\ peers' \in [Slot -> Peer]
                   /\ \A i \in Slot : peers'[i].valid => peers'[i].uid \in Uid
                   /\ age' \in [Uid -> 0 .. MaxAge]
<1>8. Kept
  <2>1. CASE Ignored
    BY <2>1 DEF Ignored
  <2>2. ASSUME TableUpdated(f, t, at),
               age' = [age EXCEPT ![f.uid] = IF Elapsed(clock, t) < @ THEN Elapsed(clock, t) ELSE @]
        PROVE  Kept
    <3>1. PICK i \in Slot, p \in Peer : Written(f.uid, t, i, p)
      BY <1>1, <1>4, <2>2, PacketWritten
    <3>2. Elapsed(clock, t) \in Nat /\ MaxAge \in Nat /\ age[f.uid] \in 0 .. MaxAge
      <4>1. Elapsed(clock, t) \in 0 .. TimeMod - 1
        BY <1>4, BetweenStamps
      <4> QED BY <1>4, <4>1, NodeAssumption
    <3>3. (IF Elapsed(clock, t) < age[f.uid] THEN Elapsed(clock, t) ELSE age[f.uid]) \in 0 .. MaxAge
      BY <3>2
    <3>4. age' \in [Uid -> 0 .. MaxAge]
      BY <2>2, <3>3
    <3> QED BY <1>4, <3>1, <3>4 DEF Written
  <2> QED BY <1>2, <2>1, <2>2 DEF OnReceive
<1> QED BY <1>2, <1>6, <1>7, <1>8 DEF loopVars

LEMMA NextDueTyped ==
    ASSUME Typed, NEW j \in {AnnounceTimer, ExpireTimer, RadarTimer}, due[j] # Unarmed
    PROVE  NextDue(j) \in Time
<1>1. due[j] \in Time /\ now \in Time
  BY Timers DEF Typed, TypeOK
<1>2. Period[j] \in 0 .. TimeHalf
  BY LongestBounds, Timers DEF Longest
<1> QED BY <1>1, <1>2, TimeFacts DEF NextDue, Later, Time

LEMMA RunsTyped ==
    ASSUME Typed, NEW j \in Job, Runs(j)
    PROVE  /\ due[j] # Unarmed /\ due[j] \in Time /\ Reached(now, due[j]) /\ at <= j
           /\ at' \in Job \cup {RadarTimer + 1} /\ at' = j + 1 /\ pc = "poll" /\ pc' = "poll"
  BY Timers DEF Runs, IsNextJob, Waiting, Typed, TypeOK

LEMMA BeaconTyped ==
    ASSUME Typed, NEW r \in Radio, Beacon(r)
    PROVE  Typed'
<1> USE DEF Typed, TypeOK
<1>1. due[r] # Unarmed /\ at' \in Job \cup {RadarTimer + 1} /\ pc' = "poll"
  BY RunsTyped, Timers DEF Beacon
<1>2. /\ counter' \in 0 .. MaxCounter
      /\ air' \subseteq [radio : Radio, kind : {"position", "announce"}, counter : 0 .. MaxCounter]
  BY SentTyped DEF Beacon, CounterInRange
<1>3. quiet' \in [Radio -> 0 .. MaxQuiet]
  <2>1. quiet' = [quiet EXCEPT ![r] = 0] \/ quiet' = quiet
    BY DEF Beacon
  <2>2. 0 \in 0 .. MaxQuiet
    BY NodeAssumption
  <2> QED BY <2>1, <2>2
<1>4. due' \in [Job -> Time \cup {Unarmed}] /\ due'[ExpireTimer] = due[ExpireTimer]
  <2>1. PICK d \in NextDelays(CountActiveOn(peers, r, now), Airtime[r]) :
            due' = [due EXCEPT ![r] = Later(now, d)]
    BY DEF Beacon, Rearmed, BeaconDue
  <2>2. d \in 0 .. LongestDelay(Airtime[r]) /\ LongestDelay(Airtime[r]) \in 0 .. TimeHalf
    BY ActiveIsNumber, DelaysBounded, NodeAssumption, LongestBounds, Timers DEF Longest
  <2>3. d \in 0 .. TimeHalf /\ now \in Time
    BY <2>2, TimeFacts
  <2>4. Later(now, d) \in Time
    BY <2>3, LaterType
  <2> QED BY <2>1, <2>4, Timers
<1> QED BY <1>1, <1>2, <1>3, <1>4 DEF Beacon, rxVars

LEMMA PeriodicTyped ==
    ASSUME Typed, Announce \/ Expire \/ Radar
    PROVE  Typed'
<1> USE DEF Typed, TypeOK
<1>1. CASE Announce
  <2>1. due[AnnounceTimer] # Unarmed /\ at' \in Job \cup {RadarTimer + 1} /\ pc' = "poll"
    BY <1>1, RunsTyped, Timers DEF Announce
  <2>2. /\ counter' \in 0 .. MaxCounter
        /\ air' \subseteq [radio : Radio, kind : {"position", "announce"}, counter : 0 .. MaxCounter]
    BY <1>1, SentTyped DEF Announce, CounterInRange, AnnouncedOn
  <2> QED BY <1>1, <2>1, <2>2, NextDueTyped, Timers DEF Announce, timeVars, rxVars
<1>2. CASE Expire
  <2>1. due[ExpireTimer] # Unarmed /\ at' \in Job \cup {RadarTimer + 1} /\ pc' = "poll"
    BY <1>2, RunsTyped, Timers DEF Expire
  <2>2. EmptyPeer \in Peer /\ ~EmptyPeer.valid
    BY TimeFacts DEF EmptyPeer, Peer
  <2> QED BY <1>2, <2>1, <2>2, NextDueTyped, Timers DEF Expire, Expired, timeVars, rxVars
<1>3. CASE Radar
  <2>1. due[RadarTimer] # Unarmed /\ at' \in Job \cup {RadarTimer + 1} /\ pc' = "poll"
    BY <1>3, RunsTyped, Timers DEF Radar
  <2>2. \A i \in Slot, k \in Slot : After(i, k) \in Slot
    BY PeersAssumption DEF After, Slot
  <2>3. \A i \in Slot : CursorPast(i) \in Slot
    BY PeersAssumption DEF CursorPast, After, Slot
  <2> QED BY <1>3, <2>1, <2>2, <2>3, NextDueTyped, Timers DEF Radar, timeVars, rxVars
<1> QED BY <1>1, <1>2, <1>3

LEMMA AdvanceTyped ==
    ASSUME Typed, NEW d \in 1 .. MaxLag, Advance(d)
    PROVE  Typed'
<1> USE DEF Typed, TypeOK
<1>1. d \in Nat /\ Elapsed(clock, now) + d < TimeMod
  <2>1. MaxLag \in 1 .. TimeHalf - 1
    BY NodeAssumption
  <2>2. Elapsed(clock, now) + d <= MaxLag
    BY DEF Advance
  <2>3. clock \in Time /\ now \in Time
    OBVIOUS
  <2>4. Elapsed(clock, now) \in 0 .. TimeMod - 1
    BY <2>3, BetweenStamps
  <2> HIDE DEF Typed, TypeOK
  <2>5. Elapsed(clock, now) \in Nat /\ d \in Nat /\ MaxLag < TimeHalf /\ MaxLag \in Nat
    BY <2>1, <2>4, TimeFacts
  <2>6. MaxLag < TimeMod
    BY <2>5, TimeFacts
  <2> QED BY <2>2, <2>5, <2>6, TimeFacts
<1>2. clock' \in Time
  BY <1>1, LaterElapsed DEF Advance
<1>3. \A n \in Nat, b \in Nat : Upto(n, b) \in 0 .. b
  BY DEF Upto
<1>4. age' \in [Uid -> 0 .. MaxAge] /\ quiet' \in [Radio -> 0 .. MaxQuiet]
  <2>1. /\ age' = [u \in Uid |-> Upto(age[u] + d, MaxAge)]
        /\ quiet' = [r \in Radio |-> Upto(quiet[r] + d, MaxQuiet)]
    BY DEF Advance
  <2>2. MaxAge \in Nat /\ MaxQuiet \in Nat
    BY NodeAssumption
  <2>3. \A u \in Uid : age[u] + d \in Nat
    BY <1>1, <2>2
  <2>4. \A r \in Radio : quiet[r] + d \in Nat
    BY <1>1, <2>2
  <2> QED BY <1>3, <2>1, <2>2, <2>3, <2>4
<1> QED BY <1>2, <1>4 DEF Advance, loopVars, rxVars

LEMMA NextTyped == Typed /\ [Next]_vars => Typed'
<1> SUFFICES ASSUME Typed, [Next]_vars PROVE Typed'
  OBVIOUS
<1>1. CASE UNCHANGED vars
  BY <1>1 DEF Typed, TypeOK, vars, timeVars, loopVars, rxVars
<1>2. ASSUME NEW r \in Radio, NEW f \in Frame, Arrive(r, f) PROVE Typed'
  <2>1. Received(f) \in Queued /\ Len(ring[r]) \in Nat /\ RingUsable \in Nat
    BY NodeAssumption DEF Typed, TypeOK, Received, Queued
  <2> QED BY <1>2, <2>1 DEF Arrive, Typed, TypeOK, timeVars, loopVars
<1>3. ASSUME NEW e \in SUBSET Radio, Configure(e) PROVE Typed'
  BY <1>3 DEF Configure, Typed, TypeOK, timeVars, loopVars, rxVars
<1>4. CASE StartIteration
  BY <1>4, Timers DEF StartIteration, Typed, TypeOK, rxVars
<1>5. CASE ServiceRx
  <2>1. at \in Radio /\ Len(ring[at]) \in Nat /\ RingUsable \in Nat
    BY <1>5, NodeAssumption DEF ServiceRx, Typed, TypeOK
  <2>2. \A f \in setup.frames : Received(f) \in Queued
    BY DEF Typed, TypeOK, Received, Queued, Frame
  <2>3. ring' \in [Radio -> Seq(Queued)] /\ \A r \in Radio : Len(ring'[r]) <= RingUsable
    <3>1. CASE UNCHANGED ring
      BY <3>1 DEF Typed, TypeOK
    <3>2. ASSUME NEW f \in setup.frames, Len(ring[at]) < RingUsable,
                 ring' = [ring EXCEPT ![at] = Append(@, Received(f))]
          PROVE  ring' \in [Radio -> Seq(Queued)] /\ \A r \in Radio : Len(ring'[r]) <= RingUsable
      <4>1. /\ Append(ring[at], Received(f)) \in Seq(Queued)
            /\ Len(Append(ring[at], Received(f))) = Len(ring[at]) + 1
        BY <2>1, <2>2 DEF Typed, TypeOK
      <4> QED BY <2>1, <3>2, <4>1 DEF Typed, TypeOK
    <3> QED BY <1>5, <3>1, <3>2 DEF ServiceRx
  <2> QED BY <1>5, <2>1, <2>3 DEF ServiceRx, Typed, TypeOK, timeVars
<1>6. CASE Drained
  BY <1>6, Timers DEF Drained, Typed, TypeOK, timeVars, rxVars
<1>7. CASE EndIteration
  BY <1>7, Timers DEF EndIteration, Typed, TypeOK, timeVars, rxVars
<1> QED BY <1>1, <1>2, <1>3, <1>4, <1>5, <1>6, <1>7, ReceiveTyped, BeaconTyped, PeriodicTyped,
           AdvanceTyped DEF Next, Loop

(***************************************************************************)
(* The node's table, rings, timers and counters keep their types, whatever *)
(* arrives and however the loop and the other tasks interleave.            *)
(***************************************************************************)
THEOREM TypeCorrect == Spec => []TypeOK
<1>1. Typed => TypeOK
  BY DEF Typed
<1> QED BY <1>1, InitTyped, NextTyped, PTL DEF Spec
-----------------------------------------------------------------------------
(***************************************************************************)
(* The timers keep to the loop.  A timer is looked at as the time since it *)
(* was last set for its longest delay: never less than the iteration has   *)
(* taken so far, and beyond that delay by no more than an iteration, and   *)
(* not at all once this iteration's poll has passed it.                    *)
(***************************************************************************)
Since(t) == Elapsed(clock, t)
Lag == Since(now)
SinceRun(j) == Elapsed(Later(clock, Longest(j)), due[j])

Polled(j) == pc = "top" \/ (pc = "poll" /\ at > j)

TimerKept(j) ==
    due[j] # Unarmed =>
        /\ Lag <= SinceRun(j)
        /\ SinceRun(j) <= Lag + Longest(j) + (IF Polled(j) THEN 0 ELSE MaxLag)

Timing == Typed /\ Lag <= MaxLag /\ \A j \in Job : TimerKept(j)

LEMMA LagType ==
    ASSUME Typed
    PROVE  /\ clock \in Time /\ now \in Time
           /\ Lag \in 0 .. TimeMod - 1
           /\ \A t \in Time : Since(t) \in 0 .. TimeMod - 1
           /\ \A j \in Job : due[j] # Unarmed =>
                due[j] \in Time /\ SinceRun(j) \in 0 .. TimeMod - 1
<1>1. clock \in Time /\ now \in Time
  BY DEF Typed, TypeOK
<1>2. \A t \in Time : Since(t) \in 0 .. TimeMod - 1
  BY <1>1, BetweenStamps DEF Since
<1>3. ASSUME NEW j \in Job, due[j] # Unarmed
      PROVE  due[j] \in Time /\ SinceRun(j) \in 0 .. TimeMod - 1
  <2>1. due[j] \in Time
    BY <1>3 DEF Typed, TypeOK
  <2>2. Longest(j) \in 0 .. TimeHalf
    BY LongestBounds
  <2>3. Later(clock, Longest(j)) \in Time
    BY <1>1, <2>2, TimeFacts DEF Later, Time
  <2> QED BY <2>1, <2>3, BetweenStamps DEF SinceRun
<1> QED BY <1>1, <1>2, <1>3 DEF Lag

(***************************************************************************)
(* A timer at or past the one the poll has reached is called exactly if    *)
(* its longest delay is over.                                              *)
(***************************************************************************)
LEMMA WhenReached ==
    ASSUME Timing, NEW j \in Job, due[j] # Unarmed
    PROVE  Reached(now, due[j]) <=> SinceRun(j) >= Lag + Longest(j)
<1>1. /\ Lag <= MaxLag /\ Lag <= SinceRun(j) /\ Longest(j) \in Nat /\ MaxLag \in Nat
      /\ SinceRun(j) <= Lag + Longest(j) + (IF Polled(j) THEN 0 ELSE MaxLag)
  BY LongestBounds DEF Timing, TimerKept
<1>2. Lag \in Nat /\ clock \in Time /\ now \in Time /\ due[j] \in Time /\ SinceRun(j) \in Nat
  BY LagType DEF Timing
<1>3. SinceRun(j) <= Lag + Longest(j) + MaxLag
  BY <1>1, <1>2
<1>4. /\ Longest(j) \in 0 .. TimeHalf /\ MaxLag < TimeHalf /\ Longest(j) + 2 * MaxLag < TimeMod
  BY LongestBounds, TimeFacts
<1> QED BY <1>1, <1>2, <1>3, <1>4, DeadlineReached DEF Lag, Since, SinceRun

LEMMA PassedOver ==
    ASSUME Timing, pc = "poll", NEW j \in Job, due[j] # Unarmed, j \notin Waiting
    PROVE  SinceRun(j) <= Lag + Longest(j)
<1>1. /\ Lag \in Nat /\ Longest(j) \in Nat /\ SinceRun(j) \in Nat
      /\ SinceRun(j) <= Lag + Longest(j) + (IF Polled(j) THEN 0 ELSE MaxLag)
  BY LagType, LongestBounds DEF Timing, TimerKept
<1>2. CASE at > j
  <2>1. Polled(j)
    BY <1>2 DEF Polled
  <2> QED BY <1>1, <2>1
<1>3. CASE ~(at > j)
  <2>1. j >= at
    BY <1>3, Timers DEF Timing, Typed, TypeOK
  <2>2. ~Reached(now, due[j])
    BY <2>1 DEF Waiting
  <2> QED BY <1>1, <2>2, WhenReached
<1> QED BY <1>2, <1>3

LEMMA SameTimers ==
    ASSUME Timing, Typed', UNCHANGED <<clock, now, due>>,
           \A j \in Job : Polled(j)' => Polled(j)
    PROVE  Timing'
<1>1. Lag' = Lag /\ \A j \in Job : SinceRun(j)' = SinceRun(j)
  BY DEF Lag, Since, SinceRun
<1>2. ASSUME NEW j \in Job PROVE TimerKept(j)'
  <2>1. /\ Lag \in Nat /\ Longest(j) \in Nat /\ MaxLag \in Nat
        /\ due[j] # Unarmed => SinceRun(j) \in Nat
    BY LagType, LongestBounds DEF Timing
  <2>2. TimerKept(j) /\ (Polled(j)' => Polled(j))
    BY DEF Timing
  <2>3. CASE Polled(j)
    <3>1. due[j] # Unarmed => Lag <= SinceRun(j) /\ SinceRun(j) <= Lag + Longest(j)
      BY <2>1, <2>2, <2>3 DEF TimerKept
    <3> QED BY <1>1, <2>1, <3>1 DEF TimerKept
  <2>4. CASE ~Polled(j)
    BY <1>1, <2>2, <2>4 DEF TimerKept
  <2> QED BY <2>3, <2>4
<1> QED BY <1>1, <1>2 DEF Timing

(***************************************************************************)
(* One timer is called and rearmed.                                        *)
(***************************************************************************)
LEMMA RunsTiming ==
    ASSUME Timing, Typed', NEW j \in Job, Runs(j), NEW t \in Time,
           due' = [due EXCEPT ![j] = t], UNCHANGED <<clock, now>>,
           Lag <= Elapsed(Later(clock, Longest(j)), t),
           Elapsed(Later(clock, Longest(j)), t) <= Lag + Longest(j)
    PROVE  Timing'
<1>1. /\ Lag' = Lag /\ at' = j + 1 /\ pc = "poll" /\ pc' = "poll" /\ at <= j
  BY RunsTyped DEF Lag, Since, Timing
<1>2. ASSUME NEW k \in Job PROVE TimerKept(k)'
  <2>1. /\ Lag \in Nat /\ Longest(k) \in Nat /\ MaxLag \in Nat /\ k \in Nat /\ j \in Nat
        /\ due[k] # Unarmed => SinceRun(k) \in Nat
    BY LagType, LongestBounds, Timers DEF Timing
  <2>2. CASE k = j
    <3>1. due'[k] = t /\ SinceRun(k)' = Elapsed(Later(clock, Longest(j)), t)
      BY <2>2 DEF SinceRun, Timing, Typed, TypeOK
    <3>2. Polled(k)'
      BY <1>1, <2>1, <2>2 DEF Polled
    <3>3. Lag <= SinceRun(k)' /\ SinceRun(k)' <= Lag + Longest(k)
      BY <2>2, <3>1
    <3>4. SinceRun(k)' \in Nat
      <4>1. Longest(k) \in 0 .. TimeHalf /\ clock \in Time
        BY LongestBounds, LagType DEF Timing
      <4>2. Later(clock, Longest(k)) \in Time
        BY <4>1, TimeFacts DEF Later, Time
      <4>3. Elapsed(Later(clock, Longest(k)), t) \in 0 .. TimeMod - 1
        BY <4>2, BetweenStamps
      <4> QED BY <2>2, <3>1, <4>3
    <3> QED BY <1>1, <2>1, <3>2, <3>3, <3>4 DEF TimerKept
  <2>3. CASE k # j
    <3>1. due'[k] = due[k] /\ SinceRun(k)' = SinceRun(k)
      BY <2>3 DEF SinceRun, Timing, Typed, TypeOK
    <3>2. CASE k > j
      <4>1. ~Polled(k) /\ ~Polled(k)'
        BY <1>1, <2>1, <3>2, Timers DEF Polled, Timing, Typed, TypeOK
      <4> QED BY <1>1, <3>1, <4>1 DEF TimerKept, Timing
    <3>3. CASE k < j
      <4>1. k \notin Waiting
        BY <2>1, <3>3 DEF Runs, IsNextJob
      <4>2. due[k] # Unarmed => Lag <= SinceRun(k) /\ SinceRun(k) <= Lag + Longest(k)
        BY <1>1, <4>1, PassedOver DEF TimerKept, Timing
      <4> QED BY <1>1, <2>1, <3>1, <4>2 DEF TimerKept
    <3> QED BY <2>1, <2>3, <3>2, <3>3
  <2> QED BY <2>2, <2>3
<1> QED BY <1>1, <1>2 DEF Timing

LEMMA BeaconTiming ==
    ASSUME Timing, Typed', NEW r \in Radio, NEW d \in NextDelays(CountActiveOn(peers, r, now), Airtime[r]),
           Runs(r), Rearmed(r, d), UNCHANGED <<clock, now>>
    PROVE  /\ Timing' /\ SinceRun(r)' = Lag + Longest(r) - d
           /\ d \in 0 .. Longest(r) /\ d >= ShortestDelay(r) /\ ShortestDelay(r) \in Nat
           /\ due'[r] # Unarmed /\ \A j \in Job \ {r} : due'[j] = due[j]
<1>1. r \in Job /\ Longest(r) = LongestDelay(Airtime[r]) /\ Airtime[r] \in Nat
  BY Timers, NodeAssumption DEF Longest
<1>2. d \in 0 .. Longest(r) /\ d >= ShortestDelay(r) /\ ShortestDelay(r) \in Nat
  BY <1>1, DelaysBounded, ActiveIsNumber DEF ShortestDelay
<1>3. /\ clock \in Time /\ now \in Time /\ Lag \in Nat /\ Lag <= MaxLag
      /\ Longest(r) \in 0 .. TimeHalf /\ Longest(r) + 2 * MaxLag < TimeMod /\ MaxLag \in Nat
  BY <1>1, LagType, LongestBounds DEF Timing
<1>4. Lag + Longest(r) < TimeMod
  BY <1>3, TimeFacts
<1>5. /\ Later(now, d) \in Time
      /\ Elapsed(Later(clock, Longest(r)), Later(now, d)) = Lag + Longest(r) - d
  BY <1>2, <1>3, <1>4, DeadlineFromNow DEF Lag, Since
<1>6. /\ Lag <= Elapsed(Later(clock, Longest(r)), Later(now, d))
      /\ Elapsed(Later(clock, Longest(r)), Later(now, d)) <= Lag + Longest(r)
  BY <1>2, <1>3, <1>5
<1>7. due' = [due EXCEPT ![r] = Later(now, d)]
  BY DEF Rearmed, BeaconDue
<1>8. due'[r] = Later(now, d) /\ \A j \in Job \ {r} : due'[j] = due[j]
  BY <1>1, <1>7 DEF Timing, Typed, TypeOK
<1>9. Timing'
  BY <1>1, <1>5, <1>6, <1>7, RunsTiming
<1> QED BY <1>2, <1>5, <1>8, <1>9, Timers DEF SinceRun

LEMMA PeriodicTiming ==
    ASSUME Timing, Typed', NEW j \in {AnnounceTimer, ExpireTimer, RadarTimer}, Runs(j),
           due' = [due EXCEPT ![j] = NextDue(j)], UNCHANGED <<clock, now>>
    PROVE  Timing' /\ \A k \in Job \ {j} : due'[k] = due[k]
<1> DEFINE D == Longest(j)
<1>1. j \in Job /\ D = Period[j]
  BY Timers DEF Longest
<1>2. due[j] # Unarmed /\ due[j] \in Time /\ Reached(now, due[j])
  BY <1>1, RunsTyped DEF Timing
<1>3. /\ clock \in Time /\ now \in Time /\ Lag \in Nat /\ Lag <= MaxLag /\ SinceRun(j) \in Nat
      /\ D \in 0 .. TimeHalf /\ D + 2 * MaxLag < TimeMod /\ MaxLag \in Nat /\ MaxLag < TimeHalf
  BY <1>1, <1>2, LagType, LongestBounds, TimeFacts DEF Timing
<1>4. SinceRun(j) >= Lag + D
  BY <1>1, <1>2, WhenReached
<1>5. SinceRun(j) <= Lag + D + MaxLag
  BY <1>1, <1>2, <1>3 DEF Timing, TimerKept
<1>6. /\ NextDue(j) \in Time
      /\ Lag <= Elapsed(Later(clock, D), NextDue(j))
      /\ Elapsed(Later(clock, D), NextDue(j)) <= Lag + D
  <2> HIDE DEF D
  <2>1. CASE Reached(now, Later(due[j], D))
    <3>1. NextDue(j) = Later(now, D)
      BY <1>1, <2>1 DEF NextDue
    <3>2. Lag + D < TimeMod
      BY <1>3, TimeFacts
    <3>3. /\ Later(now, D) \in Time
          /\ Elapsed(Later(clock, D), Later(now, D)) = Lag + D - D
      <4>1. D \in 0 .. D
        BY <1>3
      <4> QED BY <1>3, <3>2, <4>1, DeadlineFromNow DEF Lag, Since
    <3> QED BY <1>3, <3>1, <3>3
  <2>2. CASE ~Reached(now, Later(due[j], D))
    <3>1. NextDue(j) = Later(due[j], D)
      BY <1>1, <2>2 DEF NextDue
    <3>2. D <= SinceRun(j) /\ SinceRun(j) = Elapsed(Later(clock, D), due[j])
      BY <1>3, <1>4 DEF SinceRun, D
    <3>3. /\ Later(due[j], D) \in Time
          /\ Elapsed(Later(clock, D), Later(due[j], D)) = SinceRun(j) - D
      BY <1>2, <1>3, <3>2, DeadlineFromDeadline
    <3>4. Lag <= SinceRun(j) - D /\ SinceRun(j) - D <= Lag + D + MaxLag
      BY <1>3, <1>4, <1>5
    <3>5. ~(SinceRun(j) - D >= Lag + D)
      BY <1>3, <2>2, <3>3, <3>4, DeadlineReached DEF Lag, Since
    <3> QED BY <1>3, <3>1, <3>3, <3>4, <3>5
  <2> QED BY <2>1, <2>2
<1> QED BY <1>1, <1>6, RunsTiming DEF Timing, Typed, TypeOK

LEMMA AdvanceTiming ==
    ASSUME Timing, Typed', NEW d \in 1 .. MaxLag, Advance(d)
    PROVE  /\ Timing' /\ Lag' = Lag + d
           /\ \A j \in Job : due[j] # Unarmed => SinceRun(j)' = SinceRun(j) + d
<1>1. /\ clock \in Time /\ now \in Time /\ Lag \in Nat /\ d \in Nat /\ d \in 0 .. TimeMod - 1
      /\ Lag + d <= MaxLag /\ MaxLag \in Nat /\ MaxLag < TimeHalf
      /\ clock' = Later(clock, d) /\ now' = now /\ due' = due /\ pc' = pc /\ at' = at
  <2>1. MaxLag \in Nat /\ MaxLag < TimeHalf
    BY LagBound
  <2> QED BY <2>1, LagType, TimeFacts DEF Advance, Timing, Lag, Since, loopVars
<1>2. Lag' = Lag + d
  BY <1>1, LaterElapsed, TimeFacts DEF Lag, Since
<1>3. ASSUME NEW j \in Job, due[j] # Unarmed
      PROVE  SinceRun(j)' = SinceRun(j) + d
  <2>1. /\ Longest(j) \in 0 .. TimeHalf /\ Longest(j) + 2 * MaxLag < TimeMod
        /\ SinceRun(j) \in Nat /\ due[j] \in Time
    BY <1>3, LagType, LongestBounds DEF Timing
  <2>2. SinceRun(j) <= Lag + Longest(j) + MaxLag
    BY <1>1, <1>3, <2>1 DEF Timing, TimerKept
  <2>3. SinceRun(j) + d < TimeMod
    BY <1>1, <2>1, <2>2, TimeFacts
  <2>4. Elapsed(Later(Later(clock, d), Longest(j)), due[j]) = SinceRun(j) + d
    BY <1>1, <2>1, <2>3, DeadlineLater DEF SinceRun
  <2> QED BY <1>1, <2>4 DEF SinceRun
<1>4. ASSUME NEW j \in Job PROVE TimerKept(j)'
  <2>1. Polled(j)' = Polled(j)
    BY <1>1 DEF Polled
  <2>2. Longest(j) \in Nat /\ (due[j] # Unarmed => SinceRun(j) \in Nat)
    BY LongestBounds, LagType DEF Timing
  <2>3. TimerKept(j)
    BY DEF Timing
  <2> QED BY <1>1, <1>2, <1>3, <2>1, <2>2, <2>3 DEF TimerKept
<1> QED BY <1>1, <1>2, <1>3, <1>4 DEF Timing

LEMMA InitTiming == Init => Timing
<1> SUFFICES ASSUME Init PROVE Timing
  OBVIOUS
<1>1. /\ clock = 0 /\ now = 0 /\ pc = "top" /\ Typed /\ 0 \in Time /\ MaxLag \in Nat
  BY InitTyped, TimeFacts, LagBound DEF Init
<1>2. Lag = 0
  BY <1>1, BetweenStamps DEF Lag, Since
<1>3. ASSUME NEW j \in Job, due[j] # Unarmed
      PROVE  Lag <= SinceRun(j) /\ SinceRun(j) <= Lag + Longest(j)
  <2>1. \E d \in 0 .. Longest(j) : due[j] = Later(now, d)
    <3>1. CASE j \in Radio
      <4>1. PICK d \in NextDelays(0, Airtime[j]) : due[j] = Later(now, d)
        BY <1>3, <3>1 DEF Init
      <4>2. d \in 0 .. LongestDelay(Airtime[j])
        BY <3>1, DelaysBounded, NodeAssumption
      <4> QED BY <3>1, <4>1, <4>2 DEF Longest
    <3>2. CASE j \notin Radio
      <4>1. due[j] = Later(now, Longest(j))
        BY <1>3, <3>2 DEF Init, Longest
      <4>2. Longest(j) \in 0 .. Longest(j)
        BY LongestBounds
      <4> QED BY <4>1, <4>2
    <3> QED BY <3>1, <3>2
  <2>2. PICK d \in 0 .. Longest(j) : due[j] = Later(now, d)
    BY <2>1
  <2>3. Longest(j) \in 0 .. TimeHalf
    BY LongestBounds
  <2>4. SinceRun(j) = Longest(j) - d
    <3>1. Elapsed(clock, now) = 0 /\ Elapsed(clock, now) + Longest(j) < TimeMod
      BY <1>2, <2>3, TimeFacts DEF Lag, Since
    <3>2. Elapsed(Later(clock, Longest(j)), Later(now, d)) = 0 + Longest(j) - d
      BY <1>1, <2>3, <3>1, DeadlineFromNow
    <3> QED BY <2>2, <2>3, <3>2 DEF SinceRun
  <2> QED BY <1>2, <2>3, <2>4
<1>4. \A j \in Job : Polled(j)
  BY <1>1 DEF Polled
<1>5. \A j \in Job : TimerKept(j)
  <2>1. \A j \in Job : Lag + Longest(j) + 0 = Lag + Longest(j)
    BY <1>2, LongestBounds
  <2> QED BY <1>3, <1>4, <2>1 DEF TimerKept
<1> QED BY <1>1, <1>2, <1>5 DEF Timing

LEMMA StartTiming ==
    ASSUME Timing, Typed', StartIteration
    PROVE  Timing' /\ Lag' = 0 /\ \A j \in Job : SinceRun(j)' = SinceRun(j)
<1>1. /\ now' = clock /\ clock' = clock /\ due' = due /\ pc = "top" /\ pc' = "read"
      /\ clock \in Time /\ MaxLag \in Nat
  BY LagType, LagBound DEF StartIteration, Timing
<1>2. Lag' = 0 /\ \A j \in Job : SinceRun(j)' = SinceRun(j)
  BY <1>1, BetweenStamps DEF Lag, Since, SinceRun
<1>3. ASSUME NEW j \in Job PROVE TimerKept(j)'
  <2>1. /\ Lag \in Nat /\ Lag <= MaxLag /\ Longest(j) \in Nat
        /\ due[j] # Unarmed => SinceRun(j) \in Nat
    BY LagType, LongestBounds DEF Timing
  <2>2. Polled(j) /\ ~Polled(j)' /\ TimerKept(j)
    BY <1>1 DEF Polled, Timing
  <2>3. due[j] # Unarmed => SinceRun(j) <= Lag + Longest(j)
    BY <2>1, <2>2 DEF TimerKept
  <2> QED BY <1>1, <1>2, <2>1, <2>2, <2>3 DEF TimerKept
<1> QED BY <1>1, <1>2, <1>3 DEF Timing

LEMMA EndTiming ==
    ASSUME Timing, Typed', EndIteration
    PROVE  Timing'
<1>1. /\ now' = now /\ clock' = clock /\ due' = due /\ pc = "poll" /\ pc' = "top" /\ Waiting = {}
  BY DEF EndIteration, timeVars
<1>2. Lag' = Lag /\ \A j \in Job : SinceRun(j)' = SinceRun(j)
  BY <1>1 DEF Lag, Since, SinceRun
<1>3. ASSUME NEW j \in Job PROVE TimerKept(j)'
  <2>1. Lag \in Nat /\ Longest(j) \in Nat
    BY LagType, LongestBounds DEF Timing
  <2>2. due[j] # Unarmed => Lag <= SinceRun(j) /\ SinceRun(j) <= Lag + Longest(j)
    BY <1>1, PassedOver DEF TimerKept, Timing
  <2>3. Polled(j)'
    BY <1>1 DEF Polled
  <2> QED BY <1>1, <1>2, <2>1, <2>2, <2>3 DEF TimerKept
<1> QED BY <1>1, <1>2, <1>3 DEF Timing

(***************************************************************************)
(* A step of another kind, while the loop looks at no timer.               *)
(***************************************************************************)
OtherStep ==
    \/ \E r \in Radio, f \in Frame : Arrive(r, f)
    \/ \E e \in SUBSET Radio : Configure(e)
    \/ ServiceRx \/ Drained \/ Receive
    \/ UNCHANGED vars

LEMMA OtherTiming ==
    ASSUME Timing, Typed', OtherStep
    PROVE  Timing' /\ UNCHANGED <<clock, now, due>>
<1>1. UNCHANGED <<clock, now, due>>
  BY DEF OtherStep, Arrive, Configure, ServiceRx, Drained, Receive, vars, timeVars
<1>2. (pc' = pc /\ at' = at) \/ pc' \in {"read", "drain"} \/ (pc' = "poll" /\ at' = 0)
  BY DEF OtherStep, Arrive, Configure, ServiceRx, Drained, Receive, vars, loopVars
<1>3. \A j \in Job : j \in Nat
  BY Timers
<1>4. \A j \in Job : Polled(j)' => Polled(j)
  BY <1>2, <1>3 DEF Polled
<1> QED BY <1>1, <1>4, SameTimers

LEMMA NextTiming == Timing /\ [Next]_vars => Timing'
<1> SUFFICES ASSUME Timing, [Next]_vars PROVE Timing'
  OBVIOUS
<1>1. Typed'
  BY NextTyped DEF Timing
<1>2. ASSUME NEW r \in Radio, Beacon(r) PROVE Timing'
  BY <1>1, <1>2, BeaconTiming DEF Beacon
<1>3. CASE Announce
  BY <1>1, <1>3, PeriodicTiming DEF Announce, timeVars
<1>4. CASE Expire
  BY <1>1, <1>4, PeriodicTiming DEF Expire, timeVars
<1>5. CASE Radar
  BY <1>1, <1>5, PeriodicTiming DEF Radar, timeVars
<1>6. CASE OtherStep
  BY <1>1, <1>6, OtherTiming
<1> QED BY <1>1, <1>2, <1>3, <1>4, <1>5, <1>6, AdvanceTiming, StartTiming, EndTiming
        DEF Next, Loop, OtherStep
-----------------------------------------------------------------------------
(***************************************************************************)
(* Beacons.  What a radio's timer has run past the shortest delay, less    *)
(* the lag, was also spent in silence.                                     *)
(***************************************************************************)
QuietKept(r) ==
    due[r] # Unarmed =>
        quiet[r] = MaxQuiet \/ quiet[r] + Longest(r) + MaxLag >= SinceRun(r) + ShortestDelay(r)

BeaconInv == Timing /\ \A r \in Radio : QuietKept(r)

LEMMA ShortestType == \A r \in Radio : ShortestDelay(r) \in Nat
  BY DelaysBounded, NodeAssumption DEF ShortestDelay

LEMMA RadioTypes ==
    ASSUME Typed, NEW r \in Radio
    PROVE  /\ r \in Job /\ Longest(r) \in Nat /\ ShortestDelay(r) \in Nat
           /\ quiet[r] \in Nat
           /\ due[r] # Unarmed => SinceRun(r) \in Nat
<1>1. r \in Job
  BY Timers
<1>2. Longest(r) \in Nat
  BY <1>1, LongestBounds
<1>3. due[r] # Unarmed => SinceRun(r) \in Nat
  BY <1>1, LagType
<1>4. quiet[r] \in 0 .. MaxQuiet
  BY DEF Typed, TypeOK
<1>5. MaxQuiet \in Nat
  BY NodeAssumption
<1> QED BY <1>1, <1>2, <1>3, <1>4, <1>5, ShortestType

LEMMA BeaconInvNext == BeaconInv /\ [Next]_vars => BeaconInv'
<1> SUFFICES ASSUME BeaconInv, [Next]_vars PROVE BeaconInv'
  OBVIOUS
<1>1. Timing /\ Timing' /\ Typed /\ Typed' /\ MaxLag \in Nat /\ MaxQuiet \in Nat
  BY NextTiming, LagBound, NodeAssumption DEF BeaconInv, Timing
<1>2. \A r \in Radio : /\ r \in Job /\ Longest(r) \in Nat /\ ShortestDelay(r) \in Nat
                       /\ quiet[r] \in Nat /\ quiet'[r] \in Nat
                       /\ due[r] # Unarmed => SinceRun(r) \in Nat
  <2>1. \A r \in Radio : quiet'[r] \in 0 .. MaxQuiet
    BY <1>1 DEF Typed, TypeOK
  <2> QED BY <1>1, <2>1, RadioTypes
<1>3. ASSUME NEW r \in Radio, due'[r] = due[r], quiet'[r] = quiet[r], clock' = clock
      PROVE  QuietKept(r)'
  BY <1>3 DEF BeaconInv, QuietKept, SinceRun
<1>4. ASSUME NEW r \in Radio, Beacon(r) PROVE BeaconInv'
  <2>1. PICK d \in NextDelays(CountActiveOn(peers, r, now), Airtime[r]) : Rearmed(r, d)
    BY <1>4 DEF Beacon
  <2>2. Runs(r) /\ clock' = clock /\ now' = now
    BY <1>4 DEF Beacon
  <2>3. /\ SinceRun(r)' = Lag + Longest(r) - d /\ d \in Nat /\ d >= ShortestDelay(r)
        /\ \A q \in Job \ {r} : due'[q] = due[q]
    BY <1>1, <2>1, <2>2, BeaconTiming
  <2>4. Lag \in Nat /\ Lag <= MaxLag
    BY <1>1, LagType DEF Timing
  <2>5. QuietKept(r)'
    BY <1>1, <1>2, <2>3, <2>4 DEF QuietKept
  <2>6. \A q \in Radio \ {r} : quiet'[q] = quiet[q]
    BY <1>1, <1>4 DEF Beacon, Typed, TypeOK
  <2>7. \A q \in Radio \ {r} : QuietKept(q)'
    BY <1>2, <1>3, <2>2, <2>3, <2>6
  <2> QED BY <1>1, <2>5, <2>7 DEF BeaconInv
<1>5. ASSUME NEW d \in 1 .. MaxLag, Advance(d) PROVE BeaconInv'
  <2> SUFFICES ASSUME NEW r \in Radio PROVE QuietKept(r)'
    BY <1>1 DEF BeaconInv
  <2>1. quiet'[r] = Upto(quiet[r] + d, MaxQuiet) /\ due' = due
    BY <1>5 DEF Advance
  <2>2. due[r] # Unarmed => SinceRun(r)' = SinceRun(r) + d
    BY <1>1, <1>2, <1>5, AdvanceTiming
  <2>3. QuietKept(r)
    BY DEF BeaconInv
  <2> QED BY <1>1, <1>2, <2>1, <2>2, <2>3 DEF QuietKept, Upto
<1>6. CASE \/ Announce \/ Expire \/ Radar
  <2>1. clock' = clock /\ quiet' = quiet
    BY <1>6 DEF Announce, Expire, Radar, timeVars
  <2>2. \A r \in Radio : due'[r] = due[r]
    BY <1>1, <1>6, Timers DEF Announce, Expire, Radar, Typed, TypeOK
  <2> QED BY <1>1, <1>3, <2>1, <2>2 DEF BeaconInv
<1>7. CASE OtherStep \/ StartIteration \/ EndIteration
  <2>1. clock' = clock /\ quiet' = quiet /\ due' = due
    BY <1>7 DEF OtherStep, StartIteration, EndIteration, Arrive, Configure, ServiceRx, Drained,
         Receive, vars, timeVars
  <2> QED BY <1>1, <1>3, <2>1 DEF BeaconInv
<1> QED BY <1>4, <1>5, <1>6, <1>7 DEF Next, Loop, OtherStep

SpacedBeacons ==
    \A f \in air' : f.kind = "position" => quiet[f.radio] >= ShortestDelay(f.radio) - MaxLag

LEMMA BeaconSpaced ==
    ASSUME BeaconInv, NEW r \in Radio, Beacon(r)
    PROVE  SpacedBeacons
<1>1. /\ MaxLag \in Nat /\ r \in Job /\ Longest(r) \in Nat /\ ShortestDelay(r) \in Nat
      /\ quiet[r] \in Nat /\ Lag \in Nat /\ MaxQuiet \in Nat
  <2>1. Typed /\ MaxQuiet \in Nat
    BY NodeAssumption DEF BeaconInv, Timing
  <2> QED BY <2>1, LagBound, LagType, RadioTypes
<1>2. due[r] # Unarmed /\ Reached(now, due[r])
  BY <1>1, RunsTyped DEF Beacon, BeaconInv, Timing
<1>3. SinceRun(r) >= Lag + Longest(r) /\ SinceRun(r) \in Nat
  BY <1>1, <1>2, WhenReached, LagType DEF BeaconInv, Timing
<1>4. quiet[r] >= ShortestDelay(r) - MaxLag
  <2>1. QuietKept(r)
    BY DEF BeaconInv
  <2>2. MaxQuiet + MaxLag >= ShortestDelay(r)
    BY NodeTimeAssumption
  <2> QED BY <1>1, <1>2, <1>3, <2>1, <2>2 DEF QuietKept
<1>5. \A f \in air' : f.radio = r
  BY DEF Beacon, Sent
<1> QED BY <1>4, <1>5 DEF SpacedBeacons

(***************************************************************************)
(* However late the loop, two beacons of a radio are at least the shortest *)
(* delay apart, less that lag.                                             *)
(***************************************************************************)
THEOREM BeaconsSpaced == Spec => BeaconSpacing
<1>1. Init => BeaconInv
  <2>1. Init => \A r \in Radio : quiet[r] = MaxQuiet
    BY DEF Init
  <2> QED BY <2>1, InitTiming DEF BeaconInv, QuietKept
<1>2. ASSUME BeaconInv, [Next]_vars PROVE [SpacedBeacons]_vars
  <2>1. CASE \E r \in Radio : Beacon(r)
    BY <1>2, <2>1, BeaconSpaced
  <2>2. CASE Announce
    <3>1. \A f \in air' : f.kind = "announce"
      BY <2>2 DEF Announce, Sent
    <3> QED BY <3>1 DEF SpacedBeacons
  <2>3. CASE air' = {}
    BY <2>3 DEF SpacedBeacons
  <2>4. CASE \/ StartIteration \/ ServiceRx \/ Drained \/ Receive \/ Expire \/ Radar \/ EndIteration
             \/ \E r \in Radio, f \in Frame : Arrive(r, f)
             \/ \E e \in SUBSET Radio : Configure(e)
             \/ \E d \in 1 .. MaxLag : Advance(d)
    BY <2>3, <2>4
       DEF StartIteration, ServiceRx, Drained, Receive, Expire, Radar, EndIteration, Arrive,
           Configure, Advance
  <2> QED BY <1>2, <2>1, <2>2, <2>4 DEF Next, Loop
<1>3. BeaconInv /\ [Next]_vars => [SpacedBeacons]_vars
  BY <1>2
<1> QED BY <1>1, <1>3, BeaconInvNext, PTL DEF Spec, BeaconSpacing, SpacedBeacons
-----------------------------------------------------------------------------
(***************************************************************************)
(* The table and the rings.  What waits in a ring the poll has been past   *)
(* came in this iteration; nothing waits longer than since expiry last     *)
(* ran, and no entry is older than that by more than the timeout.  A ring  *)
(* hands its frames on in the order they came, and only that of the radio  *)
(* being serviced holds any of a radio that has no task, so that a frame   *)
(* can be older than the newest of its sender by no more than the lag.     *)
(***************************************************************************)
Waits(r, k) == Since(ring[r][k].stamp)

Serviced(r) == pc \in {"top", "poll"} \/ r < at

FrameKept(r, k) ==
    /\ Waits(r, k) <= SinceRun(ExpireTimer)
    /\ Serviced(r) => Waits(r, k) <= Lag
    /\ \A u \in Uid : age[u] = MaxAge \/ Waits(r, k) <= age[u] + MaxLag

RingKept(r) ==
    /\ \A k \in 1 .. Len(ring[r]) : FrameKept(r, k)
    /\ \A k, l \in 1 .. Len(ring[r]) : k < l => Waits(r, l) <= Waits(r, k)
    /\ r \notin TaskFed /\ ring[r] # <<>> => pc = "drain" /\ at = r

EntryKept(i) ==
    peers[i].valid =>
        LET heard == Since(peers[i].update)
            truth == age[peers[i].uid]
        IN  /\ heard <= SinceRun(ExpireTimer) + PeerTimeout
            /\ truth <= heard
            /\ truth = MaxAge \/ heard <= truth + MaxLag

EntriesOnce ==
    \A i, j \in Slot : peers[i].valid /\ peers[j].valid /\ peers[i].uid = peers[j].uid => i = j

NodeInv ==
    /\ Timing
    /\ EntriesOnce
    /\ \A i \in Slot : EntryKept(i)
    /\ \A r \in Radio : RingKept(r)

(***************************************************************************)
(* The types of all that is compared.                                      *)
(***************************************************************************)
LEMMA NodeTypes ==
    ASSUME Timing
    PROVE  /\ clock \in Time /\ now \in Time /\ Lag \in Nat /\ Lag <= MaxLag
           /\ MaxLag \in Nat /\ PeerTimeout \in Nat /\ MaxAge \in Nat
           /\ SinceRun(ExpireTimer) \in Nat
           /\ Lag <= SinceRun(ExpireTimer)
           /\ SinceRun(ExpireTimer) <= Lag + ExpireEvery + MaxLag
           /\ PeerTimeout + ExpireEvery + 2 * MaxLag < TimeMod
           /\ ExpireEvery \in Nat /\ TimeMod \in Nat
<1>1. ExpireTimer \in Job /\ due[ExpireTimer] # Unarmed /\ Longest(ExpireTimer) = ExpireEvery
  BY Timers DEF Timing, Typed, Longest, Period
<1>2. ExpireEvery \in Nat
  <2>1. ExpireEvery \in 1 .. TimeHalf - 1
    BY NodeAssumption
  <2> QED BY <2>1, TimeFacts
<1>3. clock \in Time /\ now \in Time /\ Lag \in Nat /\ SinceRun(ExpireTimer) \in Nat
  BY <1>1, LagType DEF Timing
<1>4. /\ Lag <= MaxLag /\ Lag <= SinceRun(ExpireTimer)
      /\ SinceRun(ExpireTimer) <= Lag + ExpireEvery + (IF Polled(ExpireTimer) THEN 0 ELSE MaxLag)
  BY <1>1 DEF Timing, TimerKept
<1>5. SinceRun(ExpireTimer) <= Lag + ExpireEvery + MaxLag
  BY <1>2, <1>3, <1>4, LagBound
<1>6. PeerTimeout + ExpireEvery + 2 * MaxLag < TimeMod
  BY NodeTimeAssumption
<1>7. MaxAge \in Nat /\ PeerTimeout \in Nat
  BY NodeAssumption, PeersAssumption
<1> QED BY <1>2, <1>3, <1>4, <1>5, <1>6, <1>7, LagBound, TimeFacts

LEMMA FrameTypes ==
    ASSUME Typed, NEW r \in Radio, NEW k \in 1 .. Len(ring[r])
    PROVE  ring[r][k] \in Queued /\ ring[r][k].stamp \in Time /\ Waits(r, k) \in Nat
<1>1. ring[r][k] \in Queued
  BY DEF Typed, TypeOK
<1>2. ring[r][k].stamp \in Time
  BY <1>1 DEF Queued
<1> QED BY <1>1, <1>2, LagType DEF Waits

LEMMA EntryTypes ==
    ASSUME Typed, NEW i \in Slot, peers[i].valid
    PROVE  /\ peers[i].uid \in Uid /\ peers[i].update \in Time /\ Since(peers[i].update) \in Nat
           /\ age[peers[i].uid] \in 0 .. MaxAge
  BY LagType DEF Typed, TypeOK, Peer

(***************************************************************************)
(* Time passes for all alike.                                              *)
(***************************************************************************)
LEMMA StampLater ==
    ASSUME Timing, Typed', NEW d \in 1 .. MaxLag, Advance(d), NEW t \in Time,
           Since(t) <= SinceRun(ExpireTimer) + PeerTimeout
    PROVE  Since(t)' = Since(t) + d
<1>1. /\ SinceRun(ExpireTimer) <= Lag + ExpireEvery + MaxLag
      /\ PeerTimeout + ExpireEvery + 2 * MaxLag < TimeMod
      /\ Lag \in Nat /\ MaxLag \in Nat /\ ExpireEvery \in Nat /\ PeerTimeout \in Nat
      /\ SinceRun(ExpireTimer) \in Nat /\ clock \in Time
  BY NodeTypes
<1>2. Lag + d <= MaxLag /\ clock' = Later(clock, d)
  BY DEF Advance, Lag, Since
<1>3. Since(t) \in Nat
  BY LagType DEF Timing
<1>4. Since(t) + d < TimeMod
  BY <1>1, <1>2, <1>3, TimeFacts
<1> QED BY <1>1, <1>2, <1>4, LaterElapsed DEF Since

LEMMA AdvanceKeeps ==
    ASSUME NodeInv, Typed', NEW d \in 1 .. MaxLag, Advance(d)
    PROVE  NodeInv'
<1> DEFINE e == SinceRun(ExpireTimer)
<1>1. /\ peers' = peers /\ ring' = ring /\ pc' = pc /\ at' = at /\ d \in Nat
      /\ \A u \in Uid : age'[u] = Upto(age[u] + d, MaxAge)
  BY LagBound DEF Advance, loopVars, rxVars
<1>2. Timing' /\ Lag' = Lag + d /\ e' = e + d
  BY AdvanceTiming, Timers DEF NodeInv, Timing, Typed
<1>3. e \in Nat /\ PeerTimeout \in Nat /\ MaxAge \in Nat /\ MaxLag \in Nat /\ Lag \in Nat
  BY NodeTypes DEF NodeInv
<1>4. \A u \in Uid : age[u] \in 0 .. MaxAge
  BY DEF NodeInv, Timing, Typed, TypeOK
<1> HIDE DEF e
<1>5. ASSUME NEW i \in Slot, peers[i].valid PROVE EntryKept(i)'
  <2> DEFINE h == Since(peers[i].update)
             a == age[peers[i].uid]
  <2>1. /\ h <= e + PeerTimeout /\ a <= h /\ (a = MaxAge \/ h <= a + MaxLag)
    BY <1>5 DEF NodeInv, EntryKept, e
  <2>2. /\ peers[i].uid \in Uid /\ h \in Nat /\ a \in Nat /\ peers[i].update \in Time
    BY <1>3, <1>5, EntryTypes DEF NodeInv, Timing
  <2>3. h' = h + d /\ a' = Upto(a + d, MaxAge)
    BY <1>1, <2>1, <2>2, StampLater DEF NodeInv, e
  <2> HIDE DEF h, a
  <2>4. h' <= e' + PeerTimeout /\ a' <= h' /\ (a' = MaxAge \/ h' <= a' + MaxLag)
    BY <1>1, <1>2, <1>3, <2>1, <2>2, <2>3 DEF Upto
  <2> QED BY <1>1, <2>4 DEF EntryKept, e, h, a
<1>6. ASSUME NEW r \in Radio PROVE RingKept(r)'
  <2>1. ASSUME NEW k \in 1 .. Len(ring[r])
        PROVE  Waits(r, k) \in Nat /\ Waits(r, k)' = Waits(r, k) + d /\ FrameKept(r, k)'
    <3>1. FrameKept(r, k) /\ ring[r][k].stamp \in Time /\ Waits(r, k) \in Nat
      BY <2>1, FrameTypes DEF NodeInv, RingKept, Timing
    <3>2. Since(ring[r][k].stamp) <= e + PeerTimeout
      BY <1>3, <3>1 DEF FrameKept, Waits, e
    <3>3. Waits(r, k)' = Waits(r, k) + d
      BY <1>1, <3>1, <3>2, StampLater DEF NodeInv, e, Waits
    <3>4. Serviced(r)' = Serviced(r)
      BY <1>1 DEF Serviced
    <3>5. /\ Waits(r, k)' <= e'
          /\ Serviced(r)' => Waits(r, k)' <= Lag'
      BY <1>2, <1>3, <1>1, <3>1, <3>3, <3>4 DEF FrameKept, e
    <3>6. ASSUME NEW u \in Uid PROVE age'[u] = MaxAge \/ Waits(r, k)' <= age'[u] + MaxLag
      <4>1. age[u] = MaxAge \/ Waits(r, k) <= age[u] + MaxLag
        BY <3>1 DEF FrameKept
      <4> QED BY <1>1, <1>3, <1>4, <3>1, <3>3, <4>1 DEF Upto
    <3> QED BY <3>1, <3>3, <3>5, <3>6 DEF FrameKept, e
  <2>2. RingKept(r)
    BY DEF NodeInv
  <2>3. \A k, l \in 1 .. Len(ring[r]) : k < l => Waits(r, l)' <= Waits(r, k)'
    BY <1>1, <2>1, <2>2 DEF RingKept
  <2> QED BY <1>1, <2>1, <2>2, <2>3 DEF RingKept
<1>7. EntriesOnce' /\ \A i \in Slot : EntryKept(i)'
  BY <1>1, <1>5 DEF NodeInv, EntriesOnce, EntryKept
<1> QED BY <1>2, <1>6, <1>7 DEF NodeInv

(***************************************************************************)
(* A frame comes in: it is new, and the last of its ring.                  *)
(***************************************************************************)
LEMMA AppendKeeps ==
    ASSUME NodeInv, Timing', NEW r \in Radio, NEW f \in Frame,
           ring' = [ring EXCEPT ![r] = Append(@, Received(f))],
           UNCHANGED <<clock, now, due, peers, age, at>>,
           pc \in {"top", "poll"} <=> pc' \in {"top", "poll"},
           r \notin TaskFed => pc' = "drain" /\ at = r,
           pc = "drain" => pc' = "drain"
    PROVE  NodeInv'
<1>1. /\ Lag' = Lag /\ SinceRun(ExpireTimer)' = SinceRun(ExpireTimer)
      /\ \A t : Since(t)' = Since(t)
      /\ \A q \in Radio : Serviced(q)' = Serviced(q)
  BY DEF Lag, Since, SinceRun, Serviced
<1>2. EntriesOnce' /\ \A i \in Slot : EntryKept(i)'
  BY <1>1 DEF NodeInv, EntriesOnce, EntryKept
<1>3. \A q \in Radio \ {r} : ring'[q] = ring[q]
  BY DEF NodeInv, Timing, Typed, TypeOK
<1>4. ASSUME NEW q \in Radio \ {r} PROVE RingKept(q)'
  <2>1. RingKept(q) /\ ring'[q] = ring[q]
    BY <1>3 DEF NodeInv
  <2> QED BY <1>1, <2>1 DEF RingKept, FrameKept, Waits
<1>5. RingKept(r)'
  <2>0. Len(ring[r]) \in Nat
    BY DEF NodeInv, Timing, Typed, TypeOK
  <2> PICK n \in Nat : n = Len(ring[r])
    BY <2>0
  <2>1. /\ ring[r] \in Seq(Queued) /\ Received(f) \in Queued
        /\ ring'[r] = Append(ring[r], Received(f)) /\ Received(f).stamp = clock
    BY DEF NodeInv, Timing, Typed, TypeOK, Queued, Received
  <2>2. /\ Len(ring'[r]) = n + 1 /\ ring'[r][n + 1] = Received(f)
        /\ \A k \in 1 .. n : ring'[r][k] = ring[r][k]
    BY <2>1
  <2>3. /\ Waits(r, n + 1)' = 0
        /\ \A k \in 1 .. n : Waits(r, k)' = Waits(r, k)
    <3>1. Since(clock) = 0
      BY BetweenStamps, LagType DEF Since, NodeInv, Timing
    <3> QED BY <1>1, <2>1, <2>2, <3>1 DEF Waits
  <2>4. RingKept(r)
    BY DEF NodeInv
  <2>5. \A k \in 1 .. n : Waits(r, k) \in Nat
    BY FrameTypes DEF NodeInv, Timing
  <2>6. /\ Lag \in Nat /\ SinceRun(ExpireTimer) \in Nat
        /\ \A u \in Uid : age[u] + MaxLag >= 0
    <3>1. \A u \in Uid : age[u] \in 0 .. MaxAge
      BY DEF NodeInv, Timing, Typed, TypeOK
    <3>2. /\ Lag \in Nat /\ SinceRun(ExpireTimer) \in Nat /\ MaxLag \in Nat /\ MaxAge \in Nat
      BY NodeTypes DEF NodeInv
    <3> QED BY <3>1, <3>2
  <2>7. FrameKept(r, n + 1)'
    BY <1>1, <2>3, <2>6 DEF FrameKept
  <2>8. \A k \in 1 .. n : FrameKept(r, k)'
    BY <1>1, <2>3, <2>4 DEF RingKept, FrameKept
  <2>9. \A k \in 1 .. n + 1 : FrameKept(r, k)'
    <3>1. \A k \in 1 .. n + 1 : k \in 1 .. n \/ k = n + 1
      OBVIOUS
    <3> QED BY <2>7, <2>8, <3>1
  <2>10. ASSUME NEW k \in 1 .. n + 1, NEW l \in 1 .. n + 1, k < l
         PROVE  Waits(r, l)' <= Waits(r, k)'
    <3>1. k \in 1 .. n /\ (l \in 1 .. n \/ l = n + 1)
      BY <2>1, <2>10
    <3>2. Waits(r, k)' = Waits(r, k) /\ Waits(r, k) \in Nat
      BY <2>3, <2>5, <3>1
    <3>3. CASE l = n + 1
      BY <2>3, <3>2, <3>3
    <3>4. CASE l \in 1 .. n
      <4>1. Waits(r, l) <= Waits(r, k)
        BY <2>4, <2>10, <3>1, <3>4 DEF RingKept
      <4> QED BY <2>3, <3>2, <3>4, <4>1
    <3> QED BY <3>1, <3>3, <3>4
  <2> QED BY <2>2, <2>9, <2>10 DEF RingKept
<1> QED BY <1>2, <1>4, <1>5 DEF NodeInv

(***************************************************************************)
(* Steps that touch neither the table nor the rings.                       *)
(***************************************************************************)
LEMMA SameKeeps ==
    ASSUME NodeInv, Timing', UNCHANGED <<peers, ring, age, clock>>,
           SinceRun(ExpireTimer)' = SinceRun(ExpireTimer),
           \A r \in Radio : Serviced(r)' => Lag' = Lag /\ (Serviced(r) \/ ring[r] = <<>>),
           \A r \in Radio \ TaskFed : ring[r] = <<>> \/ (pc' = "drain" /\ at' = r)
    PROVE  NodeInv'
<1>1. \A t : Since(t)' = Since(t)
  BY DEF Since
<1>2. EntriesOnce' /\ \A i \in Slot : EntryKept(i)'
  BY <1>1 DEF NodeInv, EntriesOnce, EntryKept
<1>3. ASSUME NEW r \in Radio PROVE RingKept(r)'
  <2>1. RingKept(r) /\ \A k \in 1 .. Len(ring[r]) : Waits(r, k)' = Waits(r, k)
    BY <1>1 DEF NodeInv, Waits
  <2>2. \A k \in 1 .. Len(ring[r]) : ring[r] # <<>>
    BY DEF NodeInv, Timing, Typed, TypeOK
  <2>3. \A k \in 1 .. Len(ring[r]) : FrameKept(r, k)'
    BY <2>1, <2>2 DEF RingKept, FrameKept
  <2> QED BY <2>1, <2>3 DEF RingKept
<1> QED BY <1>2, <1>3 DEF NodeInv

LEMMA QuietStepKeeps ==
    ASSUME NodeInv, Timing',
           \/ \E e \in SUBSET Radio : Configure(e)
           \/ StartIteration \/ Drained \/ EndIteration
           \/ \E r \in Radio : Beacon(r)
           \/ Announce \/ Radar
           \/ UNCHANGED vars
    PROVE  NodeInv'
<1>1. Typed /\ \A r \in Radio : RingKept(r)
  BY DEF NodeInv, Timing
<1>2. \A r \in Radio \ TaskFed : ring[r] = <<>> \/ (pc = "drain" /\ at = r)
  BY <1>1 DEF RingKept
<1>3. CASE (\E e \in SUBSET Radio : Configure(e)) \/ UNCHANGED vars
  <2>1. UNCHANGED <<peers, ring, age, clock, now, due, pc, at>>
    BY <1>3 DEF Configure, vars, timeVars, loopVars, rxVars
  <2> QED BY <1>2, <2>1, SameKeeps DEF SinceRun, Serviced, Lag, Since
<1>4. CASE StartIteration
  <2>1. UNCHANGED <<peers, ring, age, clock, due>> /\ pc = "top" /\ pc' = "read" /\ at' = 0
    BY <1>4 DEF StartIteration, rxVars
  <2>2. \A r \in Radio : ~Serviced(r)'
    BY <2>1, Timers DEF Serviced
  <2> QED BY <1>2, <2>1, <2>2, SameKeeps DEF SinceRun
<1>5. CASE Drained
  <2>1. /\ UNCHANGED <<peers, ring, age, clock, now, due>> /\ pc = "drain" /\ ring[at] = <<>>
        /\ IF at + 1 \in Radio THEN pc' = "read" /\ at' = at + 1 ELSE pc' = "poll" /\ at' = 0
    BY <1>5 DEF Drained, timeVars, rxVars
  <2>2. at \in Radio /\ \A r \in Radio : r < at + 1 => r < at \/ r = at
    <3>1. at \in Radio /\ Radio \subseteq Nat
      BY <1>1, <2>1, Timers DEF Typed
    <3> QED BY <3>1
  <2>3. \A r \in Radio : Serviced(r)' => Serviced(r) \/ ring[r] = <<>>
    <3>1. CASE at + 1 \in Radio
      BY <2>1, <2>2, <3>1 DEF Serviced
    <3>2. CASE at + 1 \notin Radio
      <4>1. \A r \in Radio : r < at + 1
        BY <2>2, <3>2, NodeAssumption, RadioNumbers
      <4> QED BY <2>1, <2>2, <4>1 DEF Serviced
    <3> QED BY <3>1, <3>2
  <2>4. \A r \in Radio \ TaskFed : ring[r] = <<>>
    BY <1>2, <2>1
  <2> QED BY <2>1, <2>3, <2>4, SameKeeps DEF SinceRun, Lag, Since
<1>6. CASE EndIteration \/ Announce \/ Radar \/ \E r \in Radio : Beacon(r)
  <2>1. /\ UNCHANGED <<peers, ring, age, clock, now>> /\ pc = "poll" /\ pc' \in {"top", "poll"}
    BY <1>6 DEF EndIteration, Announce, Radar, Beacon, Runs, IsNextJob, timeVars, rxVars
  <2>2. due'[ExpireTimer] = due[ExpireTimer]
    BY <1>1, <1>6, Timers DEF EndIteration, Announce, Radar, Beacon, Rearmed, Typed, TypeOK
  <2>3. \A r \in Radio : Serviced(r)
    BY <2>1 DEF Serviced
  <2>4. \A r \in Radio \ TaskFed : ring[r] = <<>>
    BY <1>2, <2>1
  <2> QED BY <2>1, <2>2, <2>3, <2>4, SameKeeps DEF SinceRun, Lag, Since
<1> QED BY <1>3, <1>4, <1>5, <1>6

(***************************************************************************)
(* A frame is taken from the ring of the radio at hand.  No other frame    *)
(* that still waits is older by more than the lag: of this ring it was the *)
(* first, the rings serviced before hold what came in this iteration, and  *)
(* those of the radios after it are not fed by a task, so they are empty.  *)
(***************************************************************************)
LEMMA WaitingBehind ==
    ASSUME NodeInv, pc = "drain", ring[at] # <<>>,
           NEW r \in Radio, NEW k \in 1 .. Len(ring[r])
    PROVE  /\ at \in Radio /\ 1 \in 1 .. Len(ring[at])
           /\ Waits(at, 1) \in Nat /\ Waits(r, k) \in Nat
           /\ Waits(r, k) <= Waits(at, 1) + MaxLag
<1>1. at \in Radio /\ ring[at] \in Seq(Queued) /\ Typed
  BY DEF NodeInv, Timing, Typed, TypeOK
<1>2. 1 \in 1 .. Len(ring[at]) /\ k \in Nat
  BY <1>1
<1>3. Waits(at, 1) \in Nat /\ Waits(r, k) \in Nat /\ MaxLag \in Nat /\ Lag \in Nat /\ Lag <= MaxLag
  BY <1>1, <1>2, FrameTypes, NodeTypes DEF NodeInv
<1>4. RingKept(r)
  BY DEF NodeInv
<1>5. CASE r = at
  <2>1. k = 1 \/ Waits(at, k) <= Waits(at, 1)
    BY <1>2, <1>4, <1>5 DEF RingKept
  <2> QED BY <1>1, <1>2, <1>3, <1>5, <2>1
<1>6. CASE r # at
  <2>1. ring[r] # <<>> /\ r \in TaskFed
    BY <1>1, <1>4, <1>6 DEF RingKept, Typed, TypeOK
  <2>2. r = 0 /\ r < at
    BY <1>1, <1>6, <2>1, NodeAssumption, Timers
  <2>3. Waits(r, k) <= Lag
    BY <1>4, <2>2 DEF RingKept, FrameKept, Serviced
  <2> QED BY <1>1, <1>2, <1>3, <2>3
<1> QED BY <1>5, <1>6

LEMMA ReceiveKeeps ==
    ASSUME NodeInv, Timing', Receive
    PROVE  NodeInv'
<1> DEFINE f == Head(ring[at]).frame
           t == Head(ring[at]).stamp
<1>1. /\ pc = "drain" /\ ring[at] # <<>> /\ pc' = pc /\ at' = at
      /\ OnReceive(f, t, at)
      /\ ring' = [ring EXCEPT ![at] = Tail(@)]
      /\ UNCHANGED <<clock, now, due>>
  BY DEF Receive, loopVars
<1>2. /\ at \in Radio /\ ring[at] \in Seq(Queued) /\ Typed
      /\ f = ring[at][1].frame /\ t = ring[at][1].stamp /\ ring[at][1] \in Queued
  <2>1. at \in Radio /\ ring[at] \in Seq(Queued) /\ Typed
    BY <1>1 DEF NodeInv, Timing, Typed, TypeOK
  <2> QED BY <1>1, <2>1
<1>3. f \in Frame /\ t \in Time /\ f.uid \in Uid
  BY <1>2, NodeAssumption DEF Queued
<1> DEFINE w == Waits(at, 1)
<1>4. w = Since(t) /\ 1 \in 1 .. Len(ring[at])
  BY <1>1, <1>2 DEF Waits
<1>5. w \in Nat /\ w <= SinceRun(ExpireTimer) /\ \A u \in Uid : age[u] = MaxAge \/ w <= age[u] + MaxLag
  BY <1>2, <1>4, FrameTypes DEF NodeInv, RingKept, FrameKept
<1> HIDE DEF f, t, w
<1>6. /\ Lag' = Lag /\ SinceRun(ExpireTimer)' = SinceRun(ExpireTimer) /\ \A q : Since(q)' = Since(q)
      /\ \A r \in Radio : Serviced(r)' = Serviced(r)
  BY <1>1 DEF Lag, Since, SinceRun, Serviced
<1>7. /\ MaxLag \in Nat /\ MaxAge \in Nat /\ PeerTimeout \in Nat /\ SinceRun(ExpireTimer) \in Nat
      /\ \A u \in Uid : age[u] \in 0 .. MaxAge
  <2>1. \A u \in Uid : age[u] \in 0 .. MaxAge
    BY <1>2 DEF Typed, TypeOK
  <2> QED BY <2>1, NodeTypes DEF NodeInv
(***************************************************************************)
(* What the frame does to the true ages, and to the table.                 *)
(***************************************************************************)
<1> DEFINE Newer == /\ TableUpdated(f, t, at)
                    /\ age' = [age EXCEPT ![f.uid] = IF w < @ THEN w ELSE @]
<1>8. Ignored \/ Newer
  BY <1>1, <1>4 DEF OnReceive, Since
<1>9. \A u \in Uid : age'[u] = age[u] \/ (age'[u] = w /\ w <= age[u])
  <2>1. CASE Ignored
    BY <2>1 DEF Ignored
  <2>2. CASE Newer
    <3>1. age \in [Uid -> 0 .. MaxAge]
      BY <1>2 DEF Typed, TypeOK
    <3> QED BY <1>5, <1>7, <2>2, <3>1
  <2> QED BY <1>8, <2>1, <2>2
<1>10. EntriesOnce' /\ \A i \in Slot : EntryKept(i)'
  <2>1. CASE Ignored
    BY <1>6, <2>1 DEF Ignored, NodeInv, EntriesOnce, EntryKept
  <2>2. CASE Newer
    <3>1. PICK i \in Slot, p \in Peer : Written(f.uid, t, i, p)
      BY <1>2, <1>3, <2>2, PacketWritten DEF Typed, TypeOK
    <3>2. /\ peers'[i] = p /\ p.valid /\ p.uid = f.uid /\ p.update = t
          /\ \A j \in Slot \ {i} : peers'[j] = peers[j]
      BY <1>2, <3>1 DEF Written, Typed, TypeOK
    <3>3. \A j \in Slot \ {i} : peers[j].valid => peers[j].uid # f.uid
      <4>1. CASE Holds(peers, i, f.uid)
        BY <4>1 DEF Holds, NodeInv, EntriesOnce
      <4>2. CASE ~Present(peers, f.uid)
        BY <4>2 DEF Holds, Present
      <4> QED BY <3>1, <4>1, <4>2 DEF Written
    <3>4. EntriesOnce'
      BY <3>2, <3>3 DEF NodeInv, EntriesOnce
    <3>5. EntryKept(i)'
      <4>1. age'[f.uid] = IF w < age[f.uid] THEN w ELSE age[f.uid]
        BY <1>2, <1>3, <2>2 DEF Typed, TypeOK
      <4>2. Since(t) = w /\ age[f.uid] \in Nat /\ age[f.uid] <= MaxAge
        BY <1>3, <1>4, <1>7
      <4>3. /\ w <= SinceRun(ExpireTimer) + PeerTimeout /\ age'[f.uid] <= w
            /\ age'[f.uid] = MaxAge \/ w <= age'[f.uid] + MaxLag
        BY <1>3, <1>5, <1>7, <4>1, <4>2
      <4> QED BY <1>6, <3>2, <4>2, <4>3 DEF EntryKept
    <3>6. ASSUME NEW j \in Slot \ {i} PROVE EntryKept(j)'
      <4>1. EntryKept(j) /\ peers'[j] = peers[j]
        BY <3>2 DEF NodeInv
      <4>2. peers[j].valid => age'[peers[j].uid] = age[peers[j].uid]
        BY <1>2, <1>3, <2>2, <3>3 DEF Typed, TypeOK
      <4> QED BY <1>6, <4>1, <4>2 DEF EntryKept
    <3> QED BY <3>4, <3>5, <3>6
  <2> QED BY <1>8, <2>1, <2>2
(***************************************************************************)
(* The frames left behind it.                                              *)
(***************************************************************************)
<1>11. ASSUME NEW r \in Radio PROVE RingKept(r)'
  <2> PICK x \in {0, 1} : x = IF r = at THEN 1 ELSE 0
    OBVIOUS
  <2>1. /\ ring[r] \in Seq(Queued) /\ ring'[r] \in Seq(Queued)
        /\ Len(ring'[r]) = Len(ring[r]) - x /\ Len(ring[r]) \in Nat
        /\ \A k \in 1 .. Len(ring'[r]) : k + x \in 1 .. Len(ring[r]) /\ ring'[r][k] = ring[r][k + x]
    <3>1. ring \in [Radio -> Seq(Queued)]
      BY <1>2 DEF Typed, TypeOK
    <3>2. CASE r = at
      BY <1>1, <1>2, <3>1, <3>2
    <3>3. CASE r # at
      BY <1>1, <1>2, <3>1, <3>3
    <3> QED BY <3>2, <3>3
  <2>2. RingKept(r)
    BY DEF NodeInv
  <2>3. ASSUME NEW k \in 1 .. Len(ring'[r])
        PROVE  FrameKept(r, k)' /\ Waits(r, k)' = Waits(r, k + x)
    <3>1. Waits(r, k)' = Waits(r, k + x) /\ k + x \in 1 .. Len(ring[r])
      BY <1>6, <2>1 DEF Waits
    <3>2. FrameKept(r, k + x)
      BY <2>2, <3>1 DEF RingKept
    <3>3. Waits(r, k + x) \in Nat /\ Waits(r, k + x) <= w + MaxLag
      BY <1>1, <3>1, WaitingBehind DEF w
    <3>4. ASSUME NEW u \in Uid PROVE age'[u] = MaxAge \/ Waits(r, k + x) <= age'[u] + MaxLag
      <4>1. age[u] = MaxAge \/ Waits(r, k + x) <= age[u] + MaxLag
        BY <3>2 DEF FrameKept
      <4> QED BY <1>9, <3>3, <4>1
    <3> QED BY <1>6, <3>1, <3>2, <3>4 DEF FrameKept
  <2>4. ASSUME NEW k \in 1 .. Len(ring'[r]), NEW l \in 1 .. Len(ring'[r]), k < l
        PROVE  Waits(r, l)' <= Waits(r, k)'
    <3>1. k + x \in 1 .. Len(ring[r]) /\ l + x \in 1 .. Len(ring[r])
      BY <2>1
    <3>3. k + x < l + x
      <4>1. k \in Nat /\ l \in Nat /\ x \in Nat
        BY <2>1
      <4> HIDE <2>1
      <4> QED BY <2>4, <4>1
    <3>2. Waits(r, l + x) <= Waits(r, k + x)
      BY <2>2, <3>1, <3>3 DEF RingKept
    <3> QED BY <2>3, <3>2
  <2>5. ring'[r] # <<>> => ring[r] # <<>>
    <3>1. ring'[r] = IF r = at THEN Tail(ring[at]) ELSE ring[r]
      BY <1>1, <1>2 DEF Typed, TypeOK
    <3> QED BY <1>2, <3>1
  <2> QED BY <1>1, <2>2, <2>3, <2>4, <2>5 DEF RingKept
<1> QED BY <1>10, <1>11 DEF NodeInv

(***************************************************************************)
(* The expiry timer and the lag, in the state after a step.                *)
(***************************************************************************)
LEMMA ExpireTimerNext ==
    Timing' => SinceRun(ExpireTimer)' \in Nat /\ Lag' <= SinceRun(ExpireTimer)'
<1>1. Timing => SinceRun(ExpireTimer) \in Nat /\ Lag <= SinceRun(ExpireTimer)
  BY NodeTypes
<1>2. Timing' => (SinceRun(ExpireTimer) \in Nat /\ Lag <= SinceRun(ExpireTimer))'
  BY <1>1, PTL
<1> QED BY <1>2

(***************************************************************************)
(* Expiry: an entry that stays was last heard at most the timeout before   *)
(* this iteration.                                                         *)
(***************************************************************************)
LEMMA ExpireKeeps ==
    ASSUME NodeInv, Timing', Expire
    PROVE  NodeInv'
<1>1. /\ peers' = Expired(peers, now) /\ pc = "poll" /\ pc' = "poll"
      /\ UNCHANGED <<clock, now, age, ring>>
  BY DEF Expire, Runs, IsNextJob, timeVars, rxVars
<1>2. /\ Lag' = Lag /\ \A q : Since(q)' = Since(q)
      /\ \A r \in Radio : Serviced(r) /\ Serviced(r)'
  BY <1>1 DEF Lag, Since, Serviced
<1>3. /\ Lag \in Nat /\ PeerTimeout \in Nat /\ SinceRun(ExpireTimer)' \in Nat
      /\ Lag <= SinceRun(ExpireTimer)' /\ clock \in Time /\ now \in Time
  <2>1. SinceRun(ExpireTimer)' \in Nat /\ Lag' <= SinceRun(ExpireTimer)'
    BY ExpireTimerNext
  <2> QED BY <1>2, <2>1, NodeTypes DEF NodeInv
<1>4. \A i \in Slot : peers'[i].valid => peers'[i] = peers[i] /\ ~IsSilent(peers, i, now)
  <2>1. ~EmptyPeer.valid
    BY DEF EmptyPeer
  <2> QED BY <1>1, <2>1 DEF Expired
<1>5. EntriesOnce'
  BY <1>4 DEF NodeInv, EntriesOnce
<1>6. ASSUME NEW i \in Slot, peers'[i].valid PROVE EntryKept(i)'
  <2> DEFINE h == Since(peers[i].update)
  <2>1. peers'[i] = peers[i] /\ peers[i].valid /\ Elapsed(now, peers[i].update) <= PeerTimeout
    <3>1. peers'[i] = peers[i] /\ ~IsSilent(peers, i, now) /\ peers[i].valid
      BY <1>4, <1>6
    <3>2. Elapsed(now, peers[i].update) \in 0 .. TimeMod - 1
      BY <1>3, <3>1, EntryTypes, BetweenStamps DEF NodeInv, Timing
    <3> QED BY <1>3, <3>1, <3>2, TimeFacts DEF IsSilent
  <2>2. peers[i].update \in Time /\ h \in Nat
    BY <2>1, EntryTypes DEF NodeInv, Timing
  <2>3. Lag <= h => Elapsed(now, peers[i].update) = h - Lag
    BY <1>3, <2>2, BetweenStamps DEF Lag, Since
  <2>4. h <= SinceRun(ExpireTimer)' + PeerTimeout
    <3> HIDE DEF h
    <3> QED BY <1>3, <2>1, <2>2, <2>3
  <2>5. EntryKept(i)
    BY DEF NodeInv
  <2> QED BY <1>1, <1>2, <2>1, <2>4, <2>5 DEF EntryKept
<1>7. ASSUME NEW r \in Radio PROVE RingKept(r)'
  <2>1. RingKept(r) /\ \A k \in 1 .. Len(ring[r]) : Waits(r, k)' = Waits(r, k)
    BY <1>1, <1>2 DEF NodeInv, Waits
  <2>2. ASSUME NEW k \in 1 .. Len(ring[r]) PROVE FrameKept(r, k)'
    <3>1. FrameKept(r, k) /\ Waits(r, k) <= Lag /\ Waits(r, k) \in Nat
      BY <1>2, <2>1, FrameTypes DEF RingKept, FrameKept, NodeInv, Timing
    <3>2. Waits(r, k) <= SinceRun(ExpireTimer)'
      BY <1>3, <3>1
    <3> QED BY <1>1, <1>2, <2>1, <3>1, <3>2 DEF FrameKept
  <2>3. r \notin TaskFed => ring[r] = <<>>
    BY <1>1, <2>1 DEF RingKept
  <2> QED BY <1>1, <2>1, <2>2, <2>3 DEF RingKept
<1> QED BY <1>5, <1>6, <1>7 DEF NodeInv, EntryKept

LEMMA InitNodeInv == Init => NodeInv
<1> SUFFICES ASSUME Init PROVE NodeInv
  OBVIOUS
<1>1. Timing
  BY InitTiming
<1>2. \A i \in Slot : ~peers[i].valid
  BY DEF Init, EmptyTable, EmptyPeer
<1>3. \A r \in Radio : ring[r] = <<>> /\ Len(ring[r]) = 0
  BY DEF Init
<1>4. \A r \in Radio : RingKept(r)
  BY <1>3 DEF RingKept
<1> QED BY <1>1, <1>2, <1>4 DEF NodeInv, EntriesOnce, EntryKept

LEMMA NextNodeInv == NodeInv /\ [Next]_vars => NodeInv'
<1> SUFFICES ASSUME NodeInv, [Next]_vars PROVE NodeInv'
  OBVIOUS
<1>1. Timing' /\ Typed'
  BY NextTiming DEF NodeInv, Timing
<1>2. ASSUME NEW r \in Radio, NEW f \in Frame, Arrive(r, f) PROVE NodeInv'
  <2>1. r \in TaskFed
    BY <1>2 DEF Arrive
  <2> QED BY <1>1, <1>2, <2>1, AppendKeeps DEF Arrive, timeVars, loopVars
<1>3. CASE ServiceRx
  <2>1. at \in Radio /\ pc = "read" /\ pc' = "drain" /\ UNCHANGED <<clock, now, due, peers, age, at>>
    BY <1>3 DEF ServiceRx, NodeInv, Timing, Typed, timeVars
  <2>2. CASE UNCHANGED ring
    <3>1. \A r \in Radio \ TaskFed : ring[r] = <<>>
      BY <2>1 DEF NodeInv, RingKept
    <3>2. \A r \in Radio : Serviced(r)' => Serviced(r)
      BY <2>1 DEF Serviced
    <3> QED BY <1>1, <2>1, <2>2, <3>1, <3>2, SameKeeps DEF SinceRun, Lag, Since
  <2>3. ASSUME NEW f \in setup.frames, ring' = [ring EXCEPT ![at] = Append(@, Received(f))]
        PROVE  NodeInv'
    <3>1. f \in Frame
      BY DEF NodeInv, Timing, Typed, TypeOK, Frame
    <3> QED BY <1>1, <2>1, <2>3, <3>1, AppendKeeps
  <2> QED BY <1>3, <2>2, <2>3 DEF ServiceRx
<1> QED BY <1>1, <1>2, <1>3, QuietStepKeeps, ReceiveKeeps, ExpireKeeps, AdvanceKeeps DEF Next, Loop

LEMMA NodeInvariance == Spec => []NodeInv
  BY InitNodeInv, NextNodeInv, PTL DEF Spec

(***************************************************************************)
(* A peer that has gone silent leaves the table within the timeout, an     *)
(* expiry period and the lag of two iterations.                            *)
(***************************************************************************)
THEOREM SilentPeersLeave == Spec => []SilentPeersGo
<1>1. ASSUME NodeInv PROVE SilentPeersGo
  <2> SUFFICES ASSUME NEW u \in Uid, NEW i \in Slot, Holds(peers, i, u)
               PROVE  age[u] <= PeerTimeout + ExpireEvery + 2 * MaxLag
    BY DEF SilentPeersGo, Present
  <2>1. /\ Since(peers[i].update) <= SinceRun(ExpireTimer) + PeerTimeout
        /\ age[u] <= Since(peers[i].update)
    BY <1>1 DEF Holds, NodeInv, EntryKept
  <2>2. /\ SinceRun(ExpireTimer) <= Lag + ExpireEvery + MaxLag /\ Lag <= MaxLag
        /\ Lag \in Nat /\ MaxLag \in Nat /\ ExpireEvery \in Nat /\ PeerTimeout \in Nat
        /\ SinceRun(ExpireTimer) \in Nat /\ MaxAge \in Nat
    BY <1>1, NodeTypes DEF NodeInv
  <2>3. age[u] \in 0 .. MaxAge /\ Since(peers[i].update) \in Nat
    BY <1>1, EntryTypes DEF NodeInv, Timing, Holds
  <2> QED BY <2>1, <2>2, <2>3
<1>2. NodeInv => SilentPeersGo
  BY <1>1
<1> QED BY <1>2, NodeInvariance, PTL

(***************************************************************************)
(* Expiry drops no peer heard within the timeout, give or take the lag,    *)
(* but one whose newest frame came in after the iteration read the clock.  *)
(***************************************************************************)
JustifiedDrop(i) ==
    peers[i].valid /\ ~peers'[i].valid =>
        age[peers[i].uid] + MaxLag > PeerTimeout \/ HeardSinceTop(i)

LEMMA DropJustified ==
    ASSUME NodeInv, Expire, NEW i \in Slot
    PROVE  JustifiedDrop(i)
<1> SUFFICES ASSUME peers[i].valid, ~peers'[i].valid
             PROVE  age[peers[i].uid] + MaxLag > PeerTimeout \/ HeardSinceTop(i)
  BY DEF JustifiedDrop
<1> DEFINE h == Since(peers[i].update)
           a == age[peers[i].uid]
<1>1. IsSilent(peers, i, now)
  BY DEF Expire, Expired
<1>2. a = MaxAge \/ h <= a + MaxLag
  BY DEF NodeInv, EntryKept
<1>3. /\ Lag \in Nat /\ Lag <= MaxLag /\ MaxLag \in Nat /\ PeerTimeout \in Nat /\ MaxAge \in Nat
      /\ clock \in Time /\ now \in Time
  BY NodeTypes DEF NodeInv
<1>4. h \in Nat /\ a \in Nat /\ peers[i].update \in Time
  BY <1>3, EntryTypes DEF NodeInv, Timing
<1>5. CASE Lag <= h
  <2>1. Elapsed(now, peers[i].update) = h - Lag
    BY <1>3, <1>4, <1>5, BetweenStamps DEF Lag, Since
  <2>2. h - Lag > PeerTimeout
    BY <1>1, <2>1 DEF IsSilent
  <2>3. MaxAge + MaxLag > PeerTimeout
    BY NodeTimeAssumption
  <2> HIDE DEF h, a
  <2>4. a + MaxLag > PeerTimeout
    BY <1>2, <1>3, <1>4, <2>2, <2>3
  <2> QED BY <2>4 DEF a
<1>6. CASE ~(Lag <= h)
  <2>1. Elapsed(peers[i].update, now) = Lag - h
    BY <1>3, <1>4, <1>6, BetweenStamps DEF Lag, Since
  <2> HIDE DEF h
  <2>2. Lag - h \in 1 .. MaxLag
    BY <1>3, <1>4, <1>6
  <2> QED BY <2>1, <2>2 DEF HeardSinceTop
<1> QED BY <1>5, <1>6

THEOREM DropsAreJustified == Spec => DropsJustified
<1>1. NodeInv /\ [Next]_vars => [Expire => \A i \in Slot : JustifiedDrop(i)]_vars
  BY DropJustified
<1> QED BY <1>1, NodeInvariance, PTL DEF Spec, DropsJustified, JustifiedDrop
=============================================================================
