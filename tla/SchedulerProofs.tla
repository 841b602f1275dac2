--------------------------- MODULE SchedulerProofs ---------------------------
(***************************************************************************)
(* Theorems about Scheduler, for every number of timers, all delays and    *)
(* stalls within the assumptions, and any calls a callback makes.          *)
(***************************************************************************)
EXTENDS Scheduler, TLAPS

(***************************************************************************)
(* The signed distance from now to a deadline, as poll computes it.        *)
(***************************************************************************)
Distance(t, deadline) ==
    IF Reached(t, deadline) THEN -Elapsed(t, deadline) ELSE Elapsed(deadline, t)

LEMMA Bounds ==
    /\ TimeHalf \in Nat /\ TimeMod \in Nat /\ TimeMod = 2 * TimeHalf
    /\ MaxDelay \in Nat /\ MaxDelay >= 1 /\ 2 * MaxDelay < TimeHalf
    /\ MaxStall \in Nat /\ MaxStall >= 1 /\ MaxStall < TimeHalf
    /\ NumTimers \in Nat /\ NumTimers >= 1 /\ MaxOps \in Nat
  BY TimeHalfAssumption, SchedulerAssumption DEF TimeMod

LEMMA DistanceFacts ==
    ASSUME NEW t \in Time, NEW x \in Time
    PROVE  /\ Distance(t, x) \in Int
           /\ Distance(t, x) > -TimeHalf /\ Distance(t, x) <= TimeHalf
           /\ Reached(t, x) <=> Distance(t, x) <= 0
           /\ ~Reached(t, x) => Elapsed(x, t) = Distance(t, x)
  BY Bounds DEF Distance, Reached, Elapsed, Time

LEMMA DistanceLater ==
    ASSUME NEW t \in Time, NEW d \in Nat, d < TimeHalf
    PROVE  Later(t, d) \in Time /\ Distance(t, Later(t, d)) = d
  BY Bounds DEF Distance, Reached, Elapsed, Later, Time

LEMMA DistanceShrinks ==
    ASSUME NEW t \in Time, NEW x \in Time, NEW d \in Nat, d < TimeHalf,
           Distance(t, x) - d > -TimeHalf
    PROVE  Later(t, d) \in Time /\ Distance(Later(t, d), x) = Distance(t, x) - d
  BY Bounds DEF Distance, Reached, Elapsed, Later, Time

LEMMA DistanceGrows ==
    ASSUME NEW t \in Time, NEW x \in Time, NEW d \in Nat, d < TimeHalf,
           Distance(t, x) + d < TimeHalf
    PROVE  /\ Later(x, d) \in Time
           /\ Distance(t, Later(x, d)) = Distance(t, x) + d
           /\ Elapsed(Later(x, d), x) = d
  BY Bounds DEF Distance, Reached, Elapsed, Later, Time

LEMMA ElapsedBetween ==
    ASSUME NEW t \in Time, NEW x \in Time, NEW d \in Nat, d < TimeHalf, Distance(t, x) <= 0
    PROVE  Elapsed(Later(t, d), x) = d - Distance(t, x)
  BY Bounds DEF Distance, Reached, Elapsed, Later, Time

(***************************************************************************)
(* The inductive invariant.  A timer is pending while poll's snapshot has  *)
(* it and the loop has not got to it yet.  A pending timer's time is up,   *)
(* or it was armed anew since the poll began; every other active timer has *)
(* time left, or was armed since; and the stored deadlines mean the true   *)
(* ones, because no distance grows to half the range of the clock.         *)
(***************************************************************************)
Pending(i) ==
    /\ i \in due
    /\ (pc = "scan" /\ i >= idx) \/ (pc = "call" /\ i > idx)

DeadlinesTrue == \A i \in Active : Distance(now, timers[i].due) = togo[i]

PendingDue ==
    \A i \in Active : Pending(i) => togo[i] <= 0 \/ (i \in fresh /\ togo[i] <= MaxDelay)

InCall == pc = "call" => idx \in Timer

OthersAhead ==
    \A i \in Active : ~Pending(i) => togo[i] > 0 \/ (i \in fresh /\ togo[i] >= 0)

IInv ==
    /\ TimersTypeOK
    /\ InCall
    /\ DeadlinesTrue
    /\ PendingDue
    /\ OthersAhead

LEMMA InitIInv == TimersInit => IInv
<1> SUFFICES ASSUME TimersInit PROVE IInv
  OBVIOUS
<1>1. Active = {}
  BY DEF TimersInit, Active
<1>2. 0 \in Time /\ TimeMod - 1 \in Time /\ 0 \in -MaxStall .. 2 * MaxDelay
      /\ 0 \in 0 .. MaxDelay /\ 0 \in 0 .. NumTimers /\ 0 \in 0 .. MaxOps
  BY Bounds DEF Time
<1>3. TimersTypeOK
  BY <1>2 DEF TimersInit, TimersTypeOK, Never
<1>4. InCall
  BY DEF TimersInit, InCall
<1> QED BY <1>1, <1>3, <1>4 DEF IInv, DeadlinesTrue, PendingDue, OthersAhead

(***************************************************************************)
(* Calls to after, every and rearm, from a callback or from outside.       *)
(***************************************************************************)
LEMMA ArmKeepsIInv ==
    ASSUME IInv, NEW i \in Timer, NEW d \in 0 .. MaxDelay, NEW p \in 0 .. MaxDelay,
           Calling, Arm(i, d, p)
    PROVE  IInv'
<1> USE DEF IInv
<1>1. /\ now' = now /\ pc' = pc /\ idx' = idx /\ due' = due /\ nextDelay' = nextDelay
      /\ ops' \in 0 .. MaxOps
  BY Bounds DEF Calling, TimersTypeOK
<1>2. /\ timers'[i] = [due |-> Later(now, d), period |-> p, fn |-> TRUE, active |-> TRUE]
      /\ togo'[i] = d
      /\ \A j \in Timer \ {i} : timers'[j] = timers[j] /\ togo'[j] = togo[j]
      /\ fresh' = fresh \cup {i}
  BY DEF Arm, TimersTypeOK
<1>3. d \in Nat /\ d < TimeHalf /\ d <= MaxDelay /\ now \in Time
  BY Bounds DEF TimersTypeOK
<1>4. Later(now, d) \in Time /\ Distance(now, Later(now, d)) = d
  BY <1>3, DistanceLater
<1>5. TimersTypeOK'
  <2>1. d \in -MaxStall .. 2 * MaxDelay
    BY Bounds, <1>3
  <2>2. timers' \in [Timer -> [due : Time, period : 0 .. MaxDelay, fn : BOOLEAN, active : BOOLEAN]]
    BY <1>4 DEF Arm, TimersTypeOK
  <2>3. togo' \in [Timer -> -MaxStall .. 2 * MaxDelay]
    BY <2>1 DEF Arm, TimersTypeOK
  <2> QED BY <1>1, <1>2, <2>2, <2>3 DEF TimersTypeOK
<1>6. Active' = Active \cup {i}
  BY <1>2 DEF Active
<1>7. DeadlinesTrue'
  BY <1>1, <1>2, <1>4, <1>6 DEF DeadlinesTrue, Active
<1>8. \A j \in Timer : Pending(j)' <=> Pending(j)
  BY <1>1 DEF Pending
<1>9. PendingDue' /\ OthersAhead'
  BY <1>2, <1>3, <1>6, <1>8 DEF PendingDue, OthersAhead, Active
<1>10. InCall'
  BY <1>1 DEF InCall
<1> QED BY <1>5, <1>7, <1>9, <1>10

(***************************************************************************)
(* A timer that becomes inactive disturbs no other.                        *)
(***************************************************************************)
LEMMA CancelKeepsIInv ==
    ASSUME IInv, NEW h \in Timer, Cancel(h)
    PROVE  IInv'
<1> USE DEF IInv
<1>1. /\ now' = now /\ pc' = pc /\ idx' = idx /\ due' = due /\ nextDelay' = nextDelay
      /\ ops' \in 0 .. MaxOps /\ fresh' = fresh \ {h}
      /\ timers' = [timers EXCEPT ![h].active = FALSE]
      /\ togo' = [togo EXCEPT ![h] = 0]
  BY Bounds DEF Cancel, Calling, TimersTypeOK
<1>2. Active' = Active \ {h}
      /\ \A j \in Timer \ {h} : timers'[j] = timers[j] /\ togo'[j] = togo[j]
  BY <1>1 DEF Active, TimersTypeOK
<1>3. 0 \in -MaxStall .. 2 * MaxDelay
  BY Bounds
<1>4. TimersTypeOK'
  BY <1>1, <1>3 DEF TimersTypeOK
<1>5. DeadlinesTrue'
  BY <1>1, <1>2 DEF DeadlinesTrue, Active
<1>6. \A j \in Timer : Pending(j)' <=> Pending(j)
  BY <1>1 DEF Pending
<1>7. PendingDue' /\ OthersAhead'
  BY <1>1, <1>2, <1>6 DEF PendingDue, OthersAhead, Active
<1>8. InCall'
  BY <1>1 DEF InCall
<1> QED BY <1>4, <1>5, <1>7, <1>8

(***************************************************************************)
(* poll begins: time passes for every active timer, by less than half the  *)
(* range.                                                                  *)
(***************************************************************************)
LEMMA PollKeepsIInv ==
    ASSUME IInv, NEW step \in 0 .. MaxStall, Poll(step)
    PROVE  IInv'
<1> USE DEF IInv
<1>1. /\ pc = "idle" /\ pc' = "scan" /\ idx' = 0 /\ now' = Later(now, step)
      /\ due' = {i \in Timer : IsDue(i, now')} /\ fresh' = {}
      /\ timers' = timers /\ nextDelay' = nextDelay /\ ops' = ops
      /\ togo' = [i \in Timer |-> IF i \in Active THEN TimeLeft(i, step) ELSE togo[i]]
  BY DEF Poll
<1>2. step \in Nat /\ step <= MaxStall /\ step < TimeHalf /\ now \in Time
  BY Bounds DEF TimersTypeOK
<1>3. now' \in Time
  BY <1>1, <1>2, Bounds DEF Later, Time
<1>4. ASSUME NEW i \in Active
      PROVE  /\ togo[i] \in 0 .. 2 * MaxDelay
             /\ togo'[i] = togo[i] - step
             /\ togo'[i] \in -MaxStall .. 2 * MaxDelay
             /\ Distance(now', timers[i].due) = togo'[i]
             /\ i \in due' <=> togo'[i] <= 0
  <2>1. i \in Timer /\ timers[i].active /\ timers[i].due \in Time
        /\ togo[i] \in -MaxStall .. 2 * MaxDelay
    BY DEF Active, TimersTypeOK
  <2>2. togo[i] >= 0
    BY <1>1, <2>1, Bounds DEF OthersAhead, Pending
  <2>3. togo'[i] = togo[i] - step
    BY <1>1, <1>2, <2>1, <2>2, Bounds DEF TimeLeft
  <2>4. Distance(now', timers[i].due) = togo[i] - step
    BY <1>1, <1>2, <2>1, <2>2, Bounds, DistanceShrinks DEF DeadlinesTrue
  <2>5. i \in due' <=> togo'[i] <= 0
    BY <1>1, <1>3, <2>1, <2>3, <2>4, DistanceFacts DEF IsDue
  <2> QED BY <1>2, <2>1, <2>2, <2>3, <2>4, <2>5, Bounds
<1>5. togo' \in [Timer -> -MaxStall .. 2 * MaxDelay]
  BY <1>1, <1>4 DEF TimersTypeOK
<1>6. TimersTypeOK'
  BY <1>1, <1>3, <1>5, Bounds DEF TimersTypeOK
<1>7. Active' = Active /\ Active \subseteq Timer
  BY <1>1 DEF Active
<1>8. DeadlinesTrue'
  BY <1>1, <1>4, <1>7 DEF DeadlinesTrue
<1>9. \A i \in Timer : Pending(i)' <=> i \in due'
  BY <1>1, Bounds DEF Pending, Timer
<1>10. \A i \in Active : Pending(i)' <=> togo'[i] <= 0
  BY <1>4, <1>7, <1>9
<1>11. PendingDue' /\ OthersAhead'
  BY <1>4, <1>7, <1>10, Bounds DEF PendingDue, OthersAhead
<1>12. InCall'
  BY <1>1 DEF InCall
<1> QED BY <1>6, <1>8, <1>11, <1>12

(***************************************************************************)
(* poll calls a timer: a one-shot becomes inactive, a periodic one moves   *)
(* into the future.                                                        *)
(***************************************************************************)
LEMMA FireKeepsIInv ==
    ASSUME IInv, NEW i \in Timer, Fire(i)
    PROVE  IInv'
<1> USE DEF IInv
<1>1. /\ pc = "scan" /\ i \in Waiting /\ \A j \in Waiting : i <= j
      /\ pc' = "call" /\ idx' = i /\ ops' = MaxOps
      /\ now' = now /\ due' = due /\ nextDelay' = nextDelay /\ fresh' = fresh
  BY DEF Fire
<1>2. i \in Active /\ i \in due /\ Pending(i) /\ timers[i].active
  BY <1>1 DEF Waiting, Pending, Active
<1>3. /\ timers[i].due \in Time /\ timers[i].period \in 0 .. MaxDelay /\ now \in Time
      /\ togo[i] \in -MaxStall .. 2 * MaxDelay
      /\ Distance(now, timers[i].due) = togo[i]
      /\ togo[i] <= MaxDelay
  <2>1. /\ timers[i].due \in Time /\ timers[i].period \in 0 .. MaxDelay /\ now \in Time
        /\ togo[i] \in -MaxStall .. 2 * MaxDelay
    BY DEF TimersTypeOK
  <2>2. togo[i] <= 0 \/ togo[i] <= MaxDelay
    BY <1>2 DEF PendingDue
  <2> QED BY <1>2, <2>1, <2>2, Bounds DEF DeadlinesTrue
<1>4. \A j \in Timer \ {i} : timers'[j] = timers[j] /\ togo'[j] = togo[j]
  BY DEF Fire, FireOneShot, FirePeriodic, TimersTypeOK
<1>5. \A j \in Active \ {i} : Pending(j)' <=> Pending(j)
  <2> TAKE j \in Active \ {i}
  <2>1. j \in Int /\ i \in Int /\ idx \in Int /\ idx <= i
    BY <1>2, Bounds DEF Timer, Active, TimersTypeOK, Pending, Waiting
  <2>2. Pending(j) => j > i
    BY <1>1, <2>1 DEF Pending, Waiting
  <2> QED BY <1>1, <2>1, <2>2 DEF Pending
<1>6. ~Pending(i)'
  BY <1>1, Bounds DEF Pending, Timer
<1>7. InCall'
  BY <1>1 DEF InCall
<1>8. CASE FireOneShot(i)
  <2>1. timers' = [timers EXCEPT ![i].active = FALSE] /\ togo' = [togo EXCEPT ![i] = 0]
    BY <1>8 DEF FireOneShot
  <2>2. Active' = Active \ {i}
    BY <2>1, <1>4 DEF Active, TimersTypeOK
  <2>3. 0 \in -MaxStall .. 2 * MaxDelay /\ i \in 0 .. NumTimers /\ MaxOps \in 0 .. MaxOps
    BY Bounds DEF Timer
  <2>4. TimersTypeOK'
    BY <1>1, <2>1, <2>3 DEF TimersTypeOK
  <2>5. DeadlinesTrue' /\ PendingDue' /\ OthersAhead'
    BY <1>1, <1>4, <1>5, <2>2 DEF DeadlinesTrue, PendingDue, OthersAhead, Active
  <2> QED BY <1>7, <2>4, <2>5
<1>9. CASE FirePeriodic(i)
  <2> DEFINE p == timers[i].period
             advanced == Later(timers[i].due, p)
             left == togo[i] + Elapsed(NextDue(i), timers[i].due)
  <2>1. /\ p # 0 /\ timers' = [timers EXCEPT ![i].due = NextDue(i)]
        /\ togo' = [togo EXCEPT ![i] = left]
    BY <1>9 DEF FirePeriodic
  <2>2. p \in Nat /\ p >= 1 /\ p <= MaxDelay /\ p < TimeHalf
    BY <1>3, <2>1, Bounds
  <2>3. /\ advanced \in Time /\ Distance(now, advanced) = togo[i] + p
        /\ Elapsed(advanced, timers[i].due) = p
    <3>1. Distance(now, timers[i].due) + p < TimeHalf
      BY <1>3, <2>2, Bounds
    <3> QED BY <1>3, <2>2, <3>1, DistanceGrows
  <2>4. Reached(now, advanced) <=> togo[i] + p <= 0
    BY <1>3, <2>3, DistanceFacts
  <2>5. /\ NextDue(i) \in Time /\ left \in 1 .. 2 * MaxDelay
        /\ Distance(now, NextDue(i)) = left
    <3>1. CASE Reached(now, advanced)
      <4>1. NextDue(i) = Later(now, p)
        BY <3>1 DEF NextDue
      <4>2. Later(now, p) \in Time /\ Distance(now, Later(now, p)) = p
        BY <1>3, <2>2, DistanceLater
      <4>3. togo[i] <= 0
        BY <1>3, <2>2, <2>4, <3>1, Bounds
      <4>4. Elapsed(Later(now, p), timers[i].due) = p - togo[i]
        BY <1>3, <2>2, <4>3, ElapsedBetween
      <4>5. left = p
        BY <1>3, <2>2, <4>1, <4>4, Bounds
      <4> QED BY <2>2, <4>1, <4>2, <4>5, Bounds
    <3>2. CASE ~Reached(now, advanced)
      <4>1. NextDue(i) = advanced
        BY <3>2 DEF NextDue
      <4>2. left = togo[i] + p /\ togo[i] + p > 0
        BY <1>3, <2>2, <2>3, <2>4, <3>2, <4>1, Bounds
      <4> QED BY <1>3, <2>2, <2>3, <4>1, <4>2, Bounds
    <3> QED BY <3>1, <3>2
  <2> HIDE DEF p, advanced, left
  <2>6. timers'[i] = [timers[i] EXCEPT !.due = NextDue(i)] /\ togo'[i] = left
    BY <2>1 DEF TimersTypeOK
  <2>7. Active' = Active
    BY <1>4, <2>6 DEF Active, TimersTypeOK
  <2>8. TimersTypeOK'
    <3>1. left \in -MaxStall .. 2 * MaxDelay /\ i \in 0 .. NumTimers /\ MaxOps \in 0 .. MaxOps
      BY <2>5, Bounds DEF Timer
    <3> QED BY <1>1, <2>1, <2>5, <3>1 DEF TimersTypeOK
  <2>9. DeadlinesTrue'
    BY <1>1, <1>4, <2>5, <2>6, <2>7 DEF DeadlinesTrue, TimersTypeOK, Active
  <2>10. PendingDue' /\ OthersAhead'
    BY <1>1, <1>4, <1>5, <1>6, <2>5, <2>6, <2>7 DEF PendingDue, OthersAhead, Active
  <2> QED BY <1>7, <2>8, <2>9, <2>10
<1> QED BY <1>8, <1>9 DEF Fire

LEMMA ReturnKeepsIInv == IInv /\ Return => IInv'
<1> SUFFICES ASSUME IInv, Return PROVE IInv'
  OBVIOUS
<1> USE DEF IInv
<1>1. /\ pc = "call" /\ pc' = "scan" /\ idx' = idx + 1 /\ ops' = 0
      /\ now' = now /\ timers' = timers /\ due' = due /\ nextDelay' = nextDelay
      /\ togo' = togo /\ fresh' = fresh
  BY DEF Return
<1>2. idx \in Int /\ idx \in Timer
  BY <1>1 DEF TimersTypeOK, InCall
<1>3. \A i \in Timer : Pending(i)' <=> Pending(i)
  BY <1>1, <1>2, Bounds DEF Pending, Timer
<1>4. Active' = Active /\ Active \subseteq Timer
  BY <1>1 DEF Active
<1>5. idx + 1 \in 0 .. NumTimers /\ 0 \in 0 .. MaxOps
  BY <1>2, Bounds DEF Timer
<1>6. TimersTypeOK'
  BY <1>1, <1>5 DEF TimersTypeOK
<1>7. InCall' /\ DeadlinesTrue'
  BY <1>1, <1>4 DEF InCall, DeadlinesTrue
<1>8. PendingDue' /\ OthersAhead'
  BY <1>1, <1>3, <1>4 DEF PendingDue, OthersAhead
<1> QED BY <1>6, <1>7, <1>8

(***************************************************************************)
(* poll's loop ends only when no timer is pending.                         *)
(***************************************************************************)
LEMMA FinishKeepsIInv == IInv /\ Finish => IInv'
<1> SUFFICES ASSUME IInv, Finish PROVE IInv'
  OBVIOUS
<1> USE DEF IInv
<1>1. /\ pc = "scan" /\ Waiting = {} /\ pc' = "idle" /\ idx' = 0 /\ due' = {}
      /\ now' = now /\ timers' = timers /\ ops' = ops /\ togo' = togo /\ fresh' = fresh
      /\ nextDelay' \in Time
  BY DEF Finish
<1>2. Active' = Active /\ Active \subseteq Timer
  BY <1>1 DEF Active
<1>3. \A i \in Active : ~Pending(i) /\ ~Pending(i)'
  BY <1>1 DEF Pending, Waiting
<1>4. TimersTypeOK'
  BY <1>1, Bounds DEF TimersTypeOK
<1>5. InCall' /\ DeadlinesTrue'
  BY <1>1, <1>2 DEF InCall, DeadlinesTrue
<1>6. PendingDue' /\ OthersAhead'
  BY <1>1, <1>2, <1>3 DEF PendingDue, OthersAhead
<1> QED BY <1>4, <1>5, <1>6

LEMMA NextKeepsIInv == IInv /\ [TimersNext]_timersVars => IInv'
<1> SUFFICES ASSUME IInv, [TimersNext]_timersVars PROVE IInv'
  OBVIOUS
<1>1. ASSUME NEW i \in Timer, Fire(i) PROVE IInv'
  BY <1>1, FireKeepsIInv
<1>2. ASSUME NEW i \in Timer, Cancel(i) PROVE IInv'
  BY <1>2, CancelKeepsIInv
<1>3. ASSUME NEW i \in Timer, NEW d \in 0 .. MaxDelay, After(i, d) \/ Rearm(i, d)
      PROVE  IInv'
  <2>1. Calling /\ Arm(i, d, 0) /\ 0 \in 0 .. MaxDelay
    BY <1>3, Bounds DEF After, Rearm
  <2> QED BY <2>1, ArmKeepsIInv
<1>4. ASSUME NEW i \in Timer, NEW p \in 1 .. MaxDelay, Every(i, p)
      PROVE  IInv'
  <2>1. Calling /\ Arm(i, p, p) /\ p \in 0 .. MaxDelay
    BY <1>4, Bounds DEF Every
  <2> QED BY <2>1, ArmKeepsIInv
<1>5. ASSUME NEW step \in 0 .. MaxStall, Poll(step) PROVE IInv'
  BY <1>5, PollKeepsIInv
<1>6. CASE Return
  BY <1>6, ReturnKeepsIInv
<1>7. CASE Finish
  BY <1>7, FinishKeepsIInv
<1>8. CASE UNCHANGED timersVars
  BY <1>8 DEF timersVars, IInv, TimersTypeOK, InCall, DeadlinesTrue, PendingDue, OthersAhead,
              Pending, Active
<1> QED BY <1>1, <1>2, <1>3, <1>4, <1>5, <1>6, <1>7, <1>8 DEF TimersNext

LEMMA Invariance == TimersSpec => []IInv
BY InitIInv, NextKeepsIInv, PTL DEF TimersSpec
-----------------------------------------------------------------------------
(***************************************************************************)
(* The scheduler's state has its type.  In particular no timer is ever     *)
(* later than the longest stall, however callbacks rearm it.               *)
(***************************************************************************)
THEOREM TypeCorrect == TimersSpec => []TimersTypeOK
<1>1. IInv => TimersTypeOK
  BY DEF IInv
<1> QED BY <1>1, Invariance, PTL

(***************************************************************************)
(* poll's due test is right on both sides of the wrap of millis().         *)
(***************************************************************************)
THEOREM DueTestCorrect == TimersSpec => []DeadlinesSurviveWrap
<1>1. IInv => DeadlinesSurviveWrap
  <2> SUFFICES ASSUME IInv, NEW i \in Timer, timers[i].active
               PROVE  IsDue(i, now) <=> togo[i] <= 0
    BY DEF DeadlinesSurviveWrap
  <2>1. now \in Time /\ timers[i].due \in Time /\ Distance(now, timers[i].due) = togo[i]
    BY DEF IInv, TimersTypeOK, DeadlinesTrue, Active
  <2> QED BY <2>1, DistanceFacts DEF IsDue
<1> QED BY <1>1, Invariance, PTL

(***************************************************************************)
(* When poll has returned, no timer is overdue but one armed since it      *)
(* began.                                                                  *)
(***************************************************************************)
THEOREM NothingLeftBehind == TimersSpec => []NothingOverdueAfterPoll
<1>1. IInv => NothingOverdueAfterPoll
  BY DEF IInv, OthersAhead, NothingOverdueAfterPoll, Pending
<1> QED BY <1>1, Invariance, PTL

(***************************************************************************)
(* poll calls no timer before its time, other than one armed anew that its *)
(* snapshot still holds.                                                   *)
(***************************************************************************)
THEOREM NoEarlyCall == TimersSpec => NeverEarly
<1>1. IInv /\ [TimersNext]_timersVars => [CalledOnTime]_timersVars
  <2> SUFFICES ASSUME IInv, [TimersNext]_timersVars, NEW i \in Timer, Calls(i)
               PROVE  togo[i] <= 0 \/ i \in fresh \cap due
    BY DEF CalledOnTime
  <2>1. Fire(i)
    <3>1. PICK j \in Timer : Fire(j)
      BY DEF Calls, TimersNext, timersVars, Cancel, After, Rearm, Every, Calling, Poll, Return, Finish
    <3> QED BY <3>1 DEF Fire, Calls
  <2>2. i \in Active /\ Pending(i)
    BY <2>1 DEF Fire, Waiting, Pending
  <2> QED BY <2>2 DEF IInv, PendingDue, Pending
<1> QED BY <1>1, Invariance, PTL DEF TimersSpec, NeverEarly

(***************************************************************************)
(* The delay poll returns does not outlast any active timer.               *)
(***************************************************************************)
THEOREM HintIsSafe == TimersSpec => SleepHintSafe
<1>1. IInv /\ [TimersNext]_timersVars => [HintCoversTimers]_timersVars
  <2> SUFFICES ASSUME IInv, [TimersNext]_timersVars, pc = "scan", pc' = "idle", NEW i \in Active
               PROVE  nextDelay' <= togo[i] \/ (togo[i] <= 0 /\ nextDelay' = 0)
    BY DEF HintCoversTimers
  <2>1. Finish
    BY DEF TimersNext, timersVars, Cancel, After, Rearm, Every, Calling, Poll, Return, Fire
  <2>2. i \in Timer /\ now \in Time /\ timers[i].due \in Time
        /\ togo[i] \in Int /\ Distance(now, timers[i].due) = togo[i]
    BY DEF IInv, TimersTypeOK, DeadlinesTrue, Active
  <2>3. nextDelay' \in Time /\ nextDelay' <= Remaining(i)
    BY <2>1 DEF Finish, ShortestRemaining
  <2>4. CASE Reached(now, timers[i].due)
    BY <2>2, <2>3, <2>4, DistanceFacts, Bounds DEF Remaining, Time
  <2>5. CASE ~Reached(now, timers[i].due)
    BY <2>2, <2>3, <2>5, DistanceFacts, Bounds DEF Remaining, Time
  <2> QED BY <2>4, <2>5
<1> QED BY <1>1, Invariance, PTL DEF TimersSpec, SleepHintSafe
=============================================================================
