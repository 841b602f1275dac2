--------------------------- MODULE CcmCryptoProofs ---------------------------
(***************************************************************************)
(* Theorems about CcmCrypto, for every number of senders, slots and        *)
(* counters, every width of the window, and across the wrap of the clock.  *)
(***************************************************************************)
EXTENDS CcmCrypto, TLAPS

(***************************************************************************)
(* The inductive invariant.  Beyond the window itself: a slot in use names *)
(* its sender, the age the code computes from its stamp is the true one,   *)
(* and no age is so large that the signed comparison of two stamps errs.   *)
(***************************************************************************)
UsedIsNamed == \A i \in ReplayIndex : slots[i].used => slots[i].uid \in Sender

Stamped ==
    \A i \in ReplayIndex : slots[i].used => Elapsed(now, slots[i].last) = since[slots[i].uid]

IInv ==
    /\ TypeOK
    /\ UsedIsNamed
    /\ UniqueSlot
    /\ Stamped
    /\ WindowIsExact

(***************************************************************************)
(* The window of one slot against the set of counters accepted.            *)
(***************************************************************************)
Exact(slot, seen) ==
    /\ slot.high \in seen
    /\ \A c \in seen : c <= slot.high
    /\ \A o \in slot.window : slot.high - o \in seen
    /\ \A c \in seen : slot.high - c \in 1 .. WindowBits - 1 => slot.high - c \in slot.window

LEMMA ExactSlots ==
    WindowIsExact <=> \A i \in ReplayIndex : slots[i].used => Exact(slots[i], taken[slots[i].uid])
  BY DEF WindowIsExact, Exact

LEMMA TimeFacts ==
    /\ TimeMod \in Nat /\ TimeHalf \in Nat /\ TimeMod = 2 * TimeHalf /\ TimeHalf >= 1
    /\ 0 \in Time /\ MaxSince \in Nat /\ MaxSince = TimeHalf - 1
    /\ ResyncTime \in Nat /\ ResyncTime < MaxSince
  BY TimeHalfAssumption, ReplaySlotsAssumption, CcmCryptoAssumption
     DEF TimeMod, Time, MaxSince

LEMMA CounterFacts == MaxCounter \in Nat /\ WindowBits \in Nat \ {0}
  BY ReplaySlotsAssumption

LEMMA ElapsedFacts ==
    ASSUME NEW a \in Time, NEW b \in Time
    PROVE  Elapsed(a, b) \in Time /\ Elapsed(a, a) = 0
  BY TimeFacts DEF Elapsed, Time

LEMMA LaterElapsed ==
    ASSUME NEW a \in Time, NEW b \in Time, NEW d \in 1 .. TimeMod - 1
    PROVE  /\ Later(a, d) \in Time
           /\ Elapsed(a, b) + d < TimeMod => Elapsed(Later(a, d), b) = Elapsed(a, b) + d
  BY TimeFacts DEF Elapsed, Later, Time

(***************************************************************************)
(* The signed comparison of two stamps orders them by age, on either side  *)
(* of the wrap, while neither age reaches half the range.                  *)
(***************************************************************************)
LEMMA OlderIsOlder ==
    ASSUME NEW t \in Time, NEW a \in Time, NEW b \in Time,
           Elapsed(t, a) <= MaxSince, Elapsed(t, b) <= MaxSince
    PROVE  Older(a, b) <=> Elapsed(t, a) > Elapsed(t, b)
  BY TimeFacts DEF Older, Reached, Elapsed, Time

(***************************************************************************)
(* Accepting a counter keeps a slot's window exact: above the highest the  *)
(* window slides, below it a bit is set.                                   *)
(***************************************************************************)
Advanced(slot, c, t) ==
    [slot EXCEPT !.high = c, !.window = Slid(@, c - slot.high), !.last = t]

Marked(slot, c, t) == [slot EXCEPT !.window = @ \cup {slot.high - c}, !.last = t]

LEMMA SlideKeepsExact ==
    ASSUME NEW slot \in ReplaySlot, NEW seen \in SUBSET Counter, Exact(slot, seen),
           NEW c \in Counter, c > slot.high, NEW t \in Time
    PROVE  Advanced(slot, c, t) \in ReplaySlot /\ Exact(Advanced(slot, c, t), seen \cup {c})
<1> DEFINE n == c - slot.high
           next == Advanced(slot, c, t)
<1>1. /\ slot.high \in Nat /\ c \in Nat /\ n \in Nat /\ n >= 1
      /\ slot.window \subseteq 1 .. WindowBits /\ WindowBits \in Nat
      /\ \A d \in seen : d \in Nat /\ d <= slot.high
  BY CounterFacts DEF ReplaySlot, Counter, Exact
<1>2. Slid(slot.window, n) \subseteq 1 .. WindowBits
  BY <1>1 DEF Slid
<1>3. next \in ReplaySlot /\ next.high = c /\ next.window = Slid(slot.window, n)
  BY <1>2 DEF ReplaySlot, Advanced
<1>4. ASSUME NEW o \in Slid(slot.window, n) PROVE c - o \in seen
  <2>1. n < WindowBits
    BY <1>1 DEF Slid
  <2>2. CASE o = n
    BY <1>1, <2>2 DEF Exact
  <2>3. CASE o \in 1 .. WindowBits /\ o - n \in slot.window
    <3>1. slot.high - (o - n) \in seen
      BY <2>3 DEF Exact
    <3>2. slot.high - (o - n) = c - o
      BY <1>1, <2>3
    <3> QED BY <3>1, <3>2
  <2> QED BY <1>1, <2>1, <2>2, <2>3 DEF Slid
<1>5. ASSUME NEW d \in seen, c - d \in 1 .. WindowBits - 1 PROVE c - d \in Slid(slot.window, n)
  <2>1. d \in Nat /\ d <= slot.high /\ n < WindowBits
    BY <1>1, <1>5
  <2>2. CASE d = slot.high
    BY <2>1, <2>2, <1>1 DEF Slid
  <2>3. CASE d < slot.high
    <3>1. slot.high - d \in 1 .. WindowBits - 1
      BY <1>1, <1>5, <2>1, <2>3
    <3>2. (c - d) - n \in slot.window
      <4>1. slot.high - d \in slot.window
        BY <3>1 DEF Exact
      <4>2. (c - d) - n = slot.high - d
        BY <1>1, <2>1
      <4> QED BY <4>1, <4>2
    <3>3. c - d \in 1 .. WindowBits
      BY <1>1, <1>5, <2>1
    <3> QED BY <1>1, <2>1, <3>2, <3>3 DEF Slid
  <2> QED BY <1>1, <2>1, <2>2, <2>3
<1>6. \A d \in seen \cup {c} : d <= c
  BY <1>1
<1>7. ASSUME NEW d \in seen \cup {c}, c - d \in 1 .. WindowBits - 1
      PROVE  c - d \in Slid(slot.window, n)
  BY <1>1, <1>5, <1>7
<1>8. Exact(next, seen \cup {c})
  BY <1>3, <1>4, <1>6, <1>7 DEF Exact
<1> QED BY <1>3, <1>8

LEMMA MarkKeepsExact ==
    ASSUME NEW slot \in ReplaySlot, NEW seen \in SUBSET Counter, Exact(slot, seen),
           NEW c \in Counter, slot.high - c \in 1 .. WindowBits, NEW t \in Time
    PROVE  Marked(slot, c, t) \in ReplaySlot /\ Exact(Marked(slot, c, t), seen \cup {c})
<1> DEFINE next == Marked(slot, c, t)
<1>1. /\ slot.high \in Nat /\ c \in Nat /\ WindowBits \in Nat
      /\ slot.window \subseteq 1 .. WindowBits
  BY CounterFacts DEF ReplaySlot, Counter
<1>2. /\ next \in ReplaySlot /\ next.high = slot.high
      /\ next.window = slot.window \cup {slot.high - c}
  BY <1>1 DEF ReplaySlot, Marked
<1>3. slot.high - (slot.high - c) = c /\ c <= slot.high
  BY <1>1
<1>4. Exact(next, seen \cup {c})
  BY <1>2, <1>3 DEF Exact
<1> QED BY <1>2, <1>4
-----------------------------------------------------------------------------
LEMMA InitIInv == Init => IInv
<1> SUFFICES ASSUME Init PROVE IInv
  OBVIOUS
<1>1. EmptySlot \in ReplaySlot /\ ~EmptySlot.used
  BY TimeFacts, CounterFacts DEF EmptySlot, ReplaySlot, Counter
<1>2. TypeOK
  <2>1. MaxSince \in 0 .. MaxSince
    BY TimeFacts
  <2> QED BY <1>1, <2>1, TimeFacts DEF Init, TypeOK
<1>3. \A i \in ReplayIndex : ~slots[i].used
  BY <1>1 DEF Init
<1> QED BY <1>2, <1>3 DEF IInv, UsedIsNamed, UniqueSlot, Stamped, WindowIsExact

(***************************************************************************)
(* What accepting a frame of u does: slot i becomes u's, stamped now and   *)
(* exact for what has been accepted from u; no other slot is u's.          *)
(***************************************************************************)
LEMMA NoOtherSlot ==
    ASSUME IInv, NEW u \in Sender, NEW i \in ReplayIndex, IsReplaySlot(slots, u, i)
    PROVE  \A j \in ReplayIndex \ {i} : ~Tracks(slots, j, u)
  BY DEF IInv, UniqueSlot, IsReplaySlot, Tracked, Tracks

LEMMA RecordedSlot ==
    ASSUME IInv, NEW u \in Sender, NEW c \in Counter, NEW i \in ReplayIndex,
           Accepts(slots, u, i, c, now)
    PROVE  LET next == Recorded(slots, u, i, c, now)
               seen == IF IsReset(slots, u, i, now) THEN {c} ELSE taken[u] \cup {c}
           IN  /\ next \in ReplaySlot /\ next.used /\ next.uid = u /\ next.last = now
               /\ Exact(next, seen)
<1> DEFINE next == Recorded(slots, u, i, c, now)
<1>1. slots[i] \in ReplaySlot /\ now \in Time /\ taken[u] \in SUBSET Counter
  BY DEF IInv, TypeOK
<1>2. CASE IsReset(slots, u, i, now)
  <2>1. next = [uid |-> u, high |-> c, window |-> {}, last |-> now, used |-> TRUE]
    BY <1>2 DEF Recorded
  <2>2. c - c = 0 /\ c <= c
    BY CounterFacts DEF Counter
  <2> QED BY <1>1, <1>2, <2>1, <2>2, CounterFacts DEF ReplaySlot, Exact
<1>3. CASE ~IsReset(slots, u, i, now)
  <2>1. slots[i].used /\ slots[i].uid = u
    BY <1>3 DEF IsReset, Tracks
  <2>2. Exact(slots[i], taken[u])
    BY <2>1, ExactSlots DEF IInv
  <2>3. CASE c > slots[i].high
    <3>1. next = Advanced(slots[i], c, now)
      BY <1>3, <2>3 DEF Recorded, Advanced
    <3>2. next \in ReplaySlot /\ Exact(next, taken[u] \cup {c})
      BY <1>1, <2>2, <2>3, <3>1, SlideKeepsExact
    <3> QED BY <1>1, <1>3, <2>1, <3>1, <3>2 DEF ReplaySlot, Advanced
  <2>4. CASE ~(c > slots[i].high)
    <3>1. next = Marked(slots[i], c, now)
      BY <1>3, <2>4 DEF Recorded, Marked
    <3>2. slots[i].high - c \in 1 .. WindowBits
      BY <1>3, <2>4 DEF Accepts, IsNew
    <3>3. next \in ReplaySlot /\ Exact(next, taken[u] \cup {c})
      BY <1>1, <2>2, <3>1, <3>2, MarkKeepsExact
    <3> QED BY <1>1, <1>3, <2>1, <3>1, <3>3 DEF ReplaySlot, Marked
  <2> QED BY <2>3, <2>4
<1> QED BY <1>2, <1>3

LEMMA AcceptKeepsIInv ==
    ASSUME IInv, NEW u \in Sender, NEW c \in Counter, DecryptAccept(u, c)
    PROVE  IInv'
<1> DEFINE next(i) == Recorded(slots, u, i, c, now)
           seen(i) == IF IsReset(slots, u, i, now) THEN {c} ELSE taken[u] \cup {c}
<1>1. PICK i \in ReplayIndex :
        /\ IsReplaySlot(slots, u, i) /\ Accepts(slots, u, i, c, now)
        /\ slots' = [slots EXCEPT ![i] = next(i)]
        /\ lastReject' = FALSE
        /\ since' = [since EXCEPT ![u] = 0]
        /\ taken' = [taken EXCEPT ![u] = seen(i)]
        /\ now' = now
  BY DEF DecryptAccept
<1>2. /\ next(i) \in ReplaySlot /\ next(i).used /\ next(i).uid = u /\ next(i).last = now
      /\ Exact(next(i), seen(i))
  BY <1>1, RecordedSlot
<1>3. /\ slots \in [ReplayIndex -> ReplaySlot] /\ now \in Time
      /\ since \in [Sender -> 0 .. MaxSince] /\ taken \in [Sender -> SUBSET Counter]
  BY DEF IInv, TypeOK
<1>4. seen(i) \in SUBSET Counter
  BY <1>3
<1> HIDE DEF next, seen
<1>5. /\ slots'[i] = next(i) /\ taken'[u] = seen(i) /\ since'[u] = 0
      /\ \A j \in ReplayIndex \ {i} : slots'[j] = slots[j]
      /\ \A v \in Sender \ {u} : taken'[v] = taken[v] /\ since'[v] = since[v]
  BY <1>1, <1>3
<1>6. \A j \in ReplayIndex \ {i} : slots[j].used => slots[j].uid \in Sender \ {u}
  BY <1>1, NoOtherSlot DEF Tracks, IInv, UsedIsNamed
<1>7. TypeOK'
  <2>1. 0 \in 0 .. MaxSince
    BY TimeFacts
  <2>2. /\ slots' \in [ReplayIndex -> ReplaySlot]
        /\ since' \in [Sender -> 0 .. MaxSince]
        /\ taken' \in [Sender -> SUBSET Counter]
    BY <1>1, <1>2, <1>3, <1>4, <2>1
  <2> QED BY <1>1, <1>3, <2>2 DEF TypeOK
<1>8. UsedIsNamed' /\ UniqueSlot'
  BY <1>2, <1>5, <1>6 DEF UsedIsNamed, UniqueSlot, IInv
<1>9. Stamped'
  <2> SUFFICES ASSUME NEW j \in ReplayIndex, slots'[j].used
               PROVE  Elapsed(now, slots'[j].last) = since'[slots'[j].uid]
    BY <1>1 DEF Stamped
  <2>1. CASE j = i
    BY <2>1, <1>2, <1>3, <1>5, ElapsedFacts
  <2>2. CASE j # i
    BY <2>2, <1>5, <1>6 DEF IInv, Stamped
  <2> QED BY <2>1, <2>2
<1>10. WindowIsExact'
  <2>1. ASSUME NEW j \in ReplayIndex, slots'[j].used
        PROVE  Exact(slots'[j], taken'[slots'[j].uid])
    <3>1. CASE j = i
      BY <3>1, <1>2, <1>5
    <3>2. CASE j # i
      BY <3>2, <2>1, <1>5, <1>6, ExactSlots DEF IInv
    <3> QED BY <3>1, <3>2
  <2> QED BY <2>1 DEF WindowIsExact, Exact
<1> QED BY <1>7, <1>8, <1>9, <1>10 DEF IInv

LEMMA TickKeepsIInv ==
    ASSUME IInv, NEW d \in 1 .. MaxStep, Tick(d)
    PROVE  IInv'
<1> USE DEF IInv
<1>1. /\ slots' = slots /\ taken' = taken /\ lastReject' = lastReject /\ now' = Later(now, d)
      /\ since' = [u \in Sender |-> IF since[u] + d < MaxSince THEN since[u] + d ELSE MaxSince]
      /\ \A u \in Sender : Tracked(slots, u) => since[u] + d <= MaxSince
  BY DEF Tick
<1>2. d \in 1 .. TimeMod - 1
  BY TimeFacts, CcmCryptoAssumption
<1>3. TypeOK'
  BY <1>1, <1>2, TimeFacts, LaterElapsed DEF TypeOK
<1>4. Stamped'
  <2> SUFFICES ASSUME NEW j \in ReplayIndex, slots[j].used
               PROVE  Elapsed(Later(now, d), slots[j].last) = since'[slots[j].uid]
    BY <1>1 DEF Stamped
  <2> DEFINE v == slots[j].uid
  <2>1. v \in Sender /\ slots[j].last \in Time /\ since[v] \in 0 .. MaxSince /\ now \in Time
    BY DEF UsedIsNamed, TypeOK, ReplaySlot
  <2>2. Elapsed(now, slots[j].last) = since[v]
    BY DEF Stamped
  <2>3. since[v] + d <= MaxSince
    BY <1>1, <2>1 DEF Tracked, Tracks
  <2>4. since'[v] = since[v] + d
    BY <1>1, <1>2, <2>1, <2>3, TimeFacts
  <2>5. Elapsed(now, slots[j].last) + d < TimeMod
    BY <1>2, <2>1, <2>2, <2>3, TimeFacts
  <2> QED BY <1>2, <2>1, <2>2, <2>4, <2>5, LaterElapsed
<1> QED BY <1>1, <1>3, <1>4 DEF UsedIsNamed, UniqueSlot, WindowIsExact

LEMMA NextKeepsIInv == IInv /\ [Next]_vars => IInv'
<1> SUFFICES ASSUME IInv, [Next]_vars PROVE IInv'
  OBVIOUS
<1>1. CASE DecryptBad
  BY <1>1 DEF DecryptBad, IInv, TypeOK, UsedIsNamed, UniqueSlot, Stamped, WindowIsExact
<1>2. ASSUME NEW f \in Frame, DecryptAccept(f.uid, f.counter) PROVE IInv'
  BY <1>2, CcmCryptoAssumption, AcceptKeepsIInv
<1>3. ASSUME NEW f \in Frame, DecryptReplay(f.uid, f.counter) PROVE IInv'
  BY <1>3 DEF DecryptReplay, IInv, TypeOK, UsedIsNamed, UniqueSlot, Stamped, WindowIsExact
<1>4. ASSUME NEW d \in 1 .. MaxStep, Tick(d) PROVE IInv'
  BY <1>4, TickKeepsIInv
<1>5. CASE UNCHANGED vars
  BY <1>5 DEF vars, IInv, TypeOK, UsedIsNamed, UniqueSlot, Stamped, WindowIsExact
<1> QED BY <1>1, <1>2, <1>3, <1>4, <1>5 DEF Next

LEMMA Invariance == Spec => []IInv
  BY InitIInv, NextKeepsIInv, PTL DEF Spec

(***************************************************************************)
(* The replay slots and the histories keep their types.                    *)
(***************************************************************************)
THEOREM TypeCorrect == Spec => []TypeOK
<1>1. IInv => TypeOK
  BY DEF IInv
<1> QED BY <1>1, Invariance, PTL

(***************************************************************************)
(* No sender is ever tracked by two slots.                                 *)
(***************************************************************************)
THEOREM OneSlotPerSender == Spec => []UniqueSlot
<1>1. IInv => UniqueSlot
  BY DEF IInv
<1> QED BY <1>1, Invariance, PTL

(***************************************************************************)
(* The bitmap records exactly what was accepted, but for its last bit.     *)
(***************************************************************************)
THEOREM WindowCorrect == Spec => []WindowIsExact
<1>1. IInv => WindowIsExact
  BY DEF IInv
<1> QED BY <1>1, Invariance, PTL
-----------------------------------------------------------------------------
(***************************************************************************)
(* A sender's slot, and what IsReset says of it.                           *)
(***************************************************************************)
LEMMA HighOfSlot ==
    ASSUME IInv, NEW u \in Sender, NEW i \in ReplayIndex, Tracks(slots, i, u)
    PROVE  High(u) = slots[i].high
<1> DEFINE k == CHOOSE j \in ReplayIndex : Tracks(slots, j, u)
<1>1. k \in ReplayIndex /\ Tracks(slots, k, u)
  OBVIOUS
<1>2. k = i
  BY <1>1 DEF IInv, UniqueSlot, Tracks
<1> QED BY <1>2 DEF High

LEMMA FollowedSlot ==
    ASSUME IInv, NEW u \in Sender, NEW i \in ReplayIndex, IsReplaySlot(slots, u, i)
    PROVE  Continues(u) <=> ~IsReset(slots, u, i, now)
<1>1. Tracks(slots, i, u) <=> Tracked(slots, u)
  <2>1. CASE Tracked(slots, u)
    BY <2>1 DEF IsReplaySlot
  <2>2. CASE ~Tracked(slots, u)
    BY <2>2 DEF Tracked
  <2> QED BY <2>1, <2>2
<1>2. CASE Tracks(slots, i, u)
  <2>1. Elapsed(now, slots[i].last) = since[u] /\ since[u] \in 0 .. MaxSince
    BY <1>2 DEF IInv, Stamped, Tracks, TypeOK
  <2>2. ResyncTime \in Nat /\ MaxSince \in Nat
    BY TimeFacts
  <2>3. Elapsed(now, slots[i].last) > ResyncTime <=> ~(since[u] <= ResyncTime)
    BY <2>1, <2>2
  <2> QED BY <1>1, <1>2, <2>3 DEF Continues, IsReset
<1>3. CASE ~Tracks(slots, i, u)
  BY <1>1, <1>3 DEF Continues, IsReset
<1> QED BY <1>2, <1>3

(***************************************************************************)
(* While its sender keeps talking a frame is not accepted twice.           *)
(***************************************************************************)
THEOREM NoRepeatAccepted == Spec => NoRepeatInsideWindow
<1>1. ASSUME IInv PROVE AcceptedIsNew
  <2> SUFFICES ASSUME NEW u \in Sender, NEW c \in Counter,
                      DecryptAccept(u, c), Continues(u), High(u) - c # WindowBits,
                      c \in taken[u]
               PROVE  FALSE
    BY DEF AcceptedIsNew
  <2>1. PICK i \in ReplayIndex : IsReplaySlot(slots, u, i) /\ Accepts(slots, u, i, c, now)
    BY DEF DecryptAccept
  <2>2. ~IsReset(slots, u, i, now)
    BY <1>1, <2>1, FollowedSlot
  <2>3. Tracks(slots, i, u) /\ IsNew(slots[i], c)
    BY <2>1, <2>2 DEF Accepts, IsReset
  <2>4. High(u) = slots[i].high /\ Exact(slots[i], taken[u])
    BY <1>1, <2>3, HighOfSlot, ExactSlots DEF IInv, Tracks
  <2>5. slots[i].high \in Nat /\ c \in Nat /\ WindowBits \in Nat
    BY <1>1, CounterFacts DEF IInv, TypeOK, ReplaySlot, Counter
  <2>6. slots[i].high - c \in 1 .. WindowBits /\ slots[i].high - c \notin slots[i].window
    BY <2>3, <2>4, <2>5 DEF IsNew, Exact
  <2>7. slots[i].high - c \in 1 .. WindowBits - 1
    BY <2>4, <2>5, <2>6
  <2> QED BY <2>4, <2>6, <2>7 DEF Exact
<1>2. IInv /\ [Next]_vars => [AcceptedIsNew]_vars
  BY <1>1
<1> QED BY <1>2, Invariance, PTL DEF Spec, NoRepeatInsideWindow

(***************************************************************************)
(* Only repeats and frames older than the window are rejected, and only    *)
(* while their sender is being heard.                                      *)
(***************************************************************************)
THEOREM OnlyOldRejected == Spec => RejectionsJustified
<1>1. ASSUME IInv PROVE RejectedIsOld
  <2> SUFFICES ASSUME NEW u \in Sender, NEW c \in Counter, DecryptReplay(u, c)
               PROVE  Continues(u) /\ (c \in taken[u] \/ High(u) - c > WindowBits)
    BY DEF RejectedIsOld
  <2>1. PICK i \in ReplayIndex : IsReplaySlot(slots, u, i) /\ ~Accepts(slots, u, i, c, now)
    BY DEF DecryptReplay
  <2>2. ~IsReset(slots, u, i, now) /\ ~IsNew(slots[i], c)
    BY <2>1 DEF Accepts
  <2>3. Continues(u) /\ Tracks(slots, i, u)
    BY <1>1, <2>1, <2>2, FollowedSlot DEF IsReset
  <2>4. High(u) = slots[i].high /\ Exact(slots[i], taken[u])
    BY <1>1, <2>3, HighOfSlot, ExactSlots DEF IInv, Tracks
  <2>5. slots[i].high \in Nat /\ c \in Nat /\ WindowBits \in Nat
    BY <1>1, CounterFacts DEF IInv, TypeOK, ReplaySlot, Counter
  <2>6. CASE slots[i].high = c
    BY <2>3, <2>4, <2>6 DEF Exact
  <2>7. CASE slots[i].high - c \in slots[i].window
    <3>1. slots[i].high - (slots[i].high - c) = c
      BY <2>5
    <3> QED BY <2>3, <2>4, <2>7, <3>1 DEF Exact
  <2>8. CASE slots[i].high - c > WindowBits
    BY <2>3, <2>4, <2>8
  <2> QED BY <2>2, <2>5, <2>6, <2>7, <2>8 DEF IsNew
<1>2. IInv /\ [Next]_vars => [RejectedIsOld]_vars
  BY <1>1
<1> QED BY <1>2, Invariance, PTL DEF Spec, RejectionsJustified

(***************************************************************************)
(* A sender that loses its slot is one not heard for longest.              *)
(***************************************************************************)
THEOREM LeastRecentLoses == Spec => SlotTakenFromLeastRecent
<1>1. ASSUME IInv, Next PROVE LeastRecentLosesSlot
  <2> SUFFICES ASSUME NEW w \in Sender, Tracked(slots, w), ~Tracked(slots', w),
                      NEW v \in Sender, Tracked(slots, v)
               PROVE  since[v] <= since[w]
    BY DEF LeastRecentLosesSlot
  <2>1. slots' # slots
    BY DEF Tracked, Tracks
  <2>2. PICK f \in Frame : DecryptAccept(f.uid, f.counter)
    BY <1>1, <2>1 DEF Next, DecryptBad, DecryptReplay, Tick
  <2> DEFINE u == f.uid
             c == f.counter
  <2>3. u \in Sender /\ c \in Counter
    BY CcmCryptoAssumption
  <2>4. PICK i \in ReplayIndex :
          /\ IsReplaySlot(slots, u, i) /\ Accepts(slots, u, i, c, now)
          /\ slots' = [slots EXCEPT ![i] = Recorded(slots, u, i, c, now)]
    BY <2>2 DEF DecryptAccept
  <2>5. PICK k \in ReplayIndex : Tracks(slots, k, w)
    BY DEF Tracked
  <2>6. PICK j \in ReplayIndex : Tracks(slots, j, v)
    BY DEF Tracked
  <2>7. slots \in [ReplayIndex -> ReplaySlot]
    BY <1>1 DEF IInv, TypeOK
  <2>8. k = i
    BY <2>4, <2>5, <2>7 DEF Tracked, Tracks
  <2>9. ~Tracks(slots, i, u)
    <3>1. Recorded(slots, u, i, c, now).used /\ Recorded(slots, u, i, c, now).uid = u
      BY <1>1, <2>3, <2>4, RecordedSlot
    <3>2. u # w
      BY <2>4, <2>7, <3>1 DEF Tracked, Tracks
    <3> QED BY <2>5, <2>8, <3>2 DEF Tracks
  <2>10. IsVictim(slots, i) /\ slots[i].used
    BY <2>4, <2>5, <2>8, <2>9 DEF IsReplaySlot, Tracks
  <2>11. ~Older(slots[j].last, slots[i].last)
    BY <2>10 DEF IsVictim
  <2>12. /\ Elapsed(now, slots[i].last) = since[w] /\ Elapsed(now, slots[j].last) = since[v]
         /\ since[w] \in 0 .. MaxSince /\ since[v] \in 0 .. MaxSince
         /\ now \in Time /\ slots[i].last \in Time /\ slots[j].last \in Time
    BY <1>1, <2>5, <2>6, <2>7, <2>8 DEF IInv, Stamped, Tracks, TypeOK, ReplaySlot
  <2>13. ~(since[v] > since[w])
    BY <2>11, <2>12, OlderIsOlder, TimeFacts
  <2> QED BY <2>12, <2>13, TimeFacts
<1>2. IInv /\ [Next]_vars => [LeastRecentLosesSlot]_vars
  BY <1>1
<1> QED BY <1>2, Invariance, PTL DEF Spec, SlotTakenFromLeastRecent
=============================================================================
