------------------------------ MODULE Scheduler ------------------------------
(***************************************************************************)
(* ff::Scheduler (lib/ff_core/scheduler.h, scheduler.cpp): the cooperative *)
(* timers every periodic job of the node runs on.  poll takes a snapshot   *)
(* of the timers that are due and calls them in slot order; a callback may *)
(* itself register, cancel and rearm timers, so poll is modelled as the    *)
(* steps between which those calls fall.                                   *)
(***************************************************************************)
EXTENDS Millis, FiniteSets

CONSTANTS NumTimers,   \* kMaxTimers
          MaxDelay,    \* bound: the longest delay or period a caller asks for
          MaxStall,    \* bound: the longest time between two polls
          MaxOps       \* bound: scheduler calls one callback makes

ASSUME SchedulerAssumption ==
    /\ NumTimers \in Nat \ {0}
    /\ MaxDelay \in Nat \ {0} /\ 2 * MaxDelay < TimeHalf
    /\ MaxStall \in 1 .. TimeHalf - 1
    /\ MaxOps \in Nat

VARIABLES now,        \* now_ms_
          timers,     \* timers_: due_ms, period_ms (0: one-shot), fn set, active
          pc,         \* outside poll, between callbacks, or inside one
          idx,        \* poll's loop index; inside a callback, its timer
          due,        \* poll's snapshot of the timers due at entry
          nextDelay,  \* what the last poll returned
          ops,        \* scheduler calls the running callback may still make
          togo,       \* history: true time left until each timer's deadline
          fresh       \* history: timers armed since the last poll began

timersVars == <<now, timers, pc, idx, due, nextDelay, ops, togo, fresh>>

Timer == 0 .. NumTimers - 1
Never == TimeMod - 1

Active == {i \in Timer : timers[i].active}

TimersInit ==
    /\ now = 0
    /\ timers = [i \in Timer |-> [due |-> 0, period |-> 0, fn |-> FALSE, active |-> FALSE]]
    /\ pc = "idle"
    /\ idx = 0
    /\ due = {}
    /\ nextDelay = Never
    /\ ops = 0
    /\ togo = [i \in Timer |-> 0]
    /\ fresh = {}
-----------------------------------------------------------------------------
(***************************************************************************)
(* Arm slot i, as after, every and rearm all do: the deadline counts from  *)
(* the time the current or last poll was given.                            *)
(***************************************************************************)
Arm(i, delay, period) ==
    /\ timers' = [timers EXCEPT ![i] =
                    [due |-> Later(now, delay), period |-> period,
                     fn |-> TRUE, active |-> TRUE]]
    /\ togo' = [togo EXCEPT ![i] = delay]
    /\ fresh' = fresh \cup {i}

(***************************************************************************)
(* alloc: the first inactive slot; none when the table is full.            *)
(***************************************************************************)
IsAllocated(i) == i \notin Active /\ \A j \in 0 .. i - 1 : j \in Active

(***************************************************************************)
(* Where a scheduler call can come from: code outside poll, or the running *)
(* callback.  A handle passed to rearm or cancel is one after or every     *)
(* returned.                                                               *)
(***************************************************************************)
Calling ==
    /\ pc = "idle" \/ (pc = "call" /\ ops > 0)
    /\ ops' = IF pc = "call" THEN ops - 1 ELSE ops
    /\ UNCHANGED <<now, pc, idx, due, nextDelay>>

IsHandle(h) == timers[h].fn

After(i, delay) ==
    /\ Calling
    /\ IsAllocated(i)
    /\ Arm(i, delay, 0)

Every(i, period) ==
    /\ Calling
    /\ IsAllocated(i)
    /\ Arm(i, period, period)

Rearm(h, delay) ==
    /\ Calling
    /\ IsHandle(h)
    /\ Arm(h, delay, 0)

Cancel(h) ==
    /\ Calling
    /\ IsHandle(h)
    /\ timers' = [timers EXCEPT ![h].active = FALSE]
    /\ togo' = [togo EXCEPT ![h] = 0]
    /\ fresh' = fresh \ {h}
-----------------------------------------------------------------------------
\* Mutant: a timer is due only in the very millisecond of its deadline.
IsDueExactly(i, t) == timers[i].active /\ timers[i].due = t
\* Mutant: deadlines compared without regard to the wrap.
IsDueUnsigned(i, t) == timers[i].active /\ t >= timers[i].due
IsDue(i, t) == timers[i].active /\ Reached(t, timers[i].due)

(***************************************************************************)
(* The history togo, a step of time later.  It saturates at a bound no     *)
(* timer of the code reaches, since each poll serves all that are due.     *)
(***************************************************************************)
TimeLeft(i, step) == IF togo[i] - step > -TimeMod THEN togo[i] - step ELSE -TimeMod

(***************************************************************************)
(* poll(now_ms), up to its loop: step ms have passed since the last one.   *)
(***************************************************************************)
Poll(step) ==
    /\ pc = "idle"
    /\ now' = Later(now, step)
    /\ due' = {i \in Timer : IsDue(i, now')}
    /\ pc' = "scan"
    /\ idx' = 0
    /\ togo' = [i \in Timer |-> IF i \in Active THEN TimeLeft(i, step) ELSE togo[i]]
    /\ fresh' = {}
    /\ UNCHANGED <<timers, nextDelay, ops>>

(***************************************************************************)
(* The timers the loop has still to call: in the snapshot, not cancelled   *)
(* by an earlier callback, at or beyond the loop index.                    *)
(***************************************************************************)
Waiting == {i \in due : i \in Active /\ i >= idx}

(***************************************************************************)
(* The deadline a periodic timer gets when it fires: one period on, or a   *)
(* period from now when that has passed too.                               *)
(***************************************************************************)
\* Mutant: no resynchronisation, so missed periods are caught up in a burst.
NextDueCatchUp(i) == Later(timers[i].due, timers[i].period)
NextDue(i) ==
    LET advanced == Later(timers[i].due, timers[i].period)
    IN  IF Reached(now, advanced) THEN Later(now, timers[i].period) ELSE advanced

FireOneShot(i) ==
    /\ timers[i].period = 0
    /\ timers' = [timers EXCEPT ![i].active = FALSE]
    /\ togo' = [togo EXCEPT ![i] = 0]

FirePeriodic(i) ==
    /\ timers[i].period # 0
    /\ timers' = [timers EXCEPT ![i].due = NextDue(i)]
    /\ togo' = [togo EXCEPT ![i] = @ + Elapsed(NextDue(i), timers[i].due)]

Fire(i) ==
    /\ pc = "scan"
    /\ i \in Waiting
    /\ \A j \in Waiting : i <= j
    /\ FireOneShot(i) \/ FirePeriodic(i)
    /\ pc' = "call"
    /\ idx' = i
    /\ ops' = MaxOps
    /\ UNCHANGED <<now, due, nextDelay, fresh>>

Return ==
    /\ pc = "call"
    /\ pc' = "scan"
    /\ idx' = idx + 1
    /\ ops' = 0
    /\ UNCHANGED <<now, timers, due, nextDelay, togo, fresh>>

Remaining(i) == IF Reached(now, timers[i].due) THEN 0 ELSE Elapsed(timers[i].due, now)

ShortestRemaining(d) ==
    IF Active = {} THEN d = Never
    ELSE /\ \E i \in Active : d = Remaining(i)
         /\ \A i \in Active : d <= Remaining(i)

Finish ==
    /\ pc = "scan"
    /\ Waiting = {}
    /\ \E d \in Time : ShortestRemaining(d) /\ nextDelay' = d
    /\ pc' = "idle"
    /\ idx' = 0
    /\ due' = {}
    /\ UNCHANGED <<now, timers, ops, togo, fresh>>
-----------------------------------------------------------------------------
TimersNext ==
    \/ \E i \in Timer :
        \/ Fire(i)
        \/ Cancel(i)
        \/ \E d \in 0 .. MaxDelay : After(i, d) \/ Rearm(i, d)
        \/ \E p \in 1 .. MaxDelay : Every(i, p)
    \/ \E step \in 0 .. MaxStall : Poll(step)
    \/ Return
    \/ Finish

TimersSpec == TimersInit /\ [][TimersNext]_timersVars

(***************************************************************************)
(* The loop calls poll again and again and millis() keeps counting, so     *)
(* polls that find the clock advanced recur; a callback returns and poll's *)
(* loop runs to its end.                                                   *)
(***************************************************************************)
FairTimersSpec ==
    /\ TimersSpec
    /\ SF_timersVars(\E step \in 1 .. MaxStall : Poll(step))
    /\ WF_timersVars(Return \/ Finish \/ \E i \in Timer : Fire(i))
-----------------------------------------------------------------------------
TimersTypeOK ==
    /\ now \in Time
    /\ timers \in [Timer -> [due : Time, period : 0 .. MaxDelay,
                           fn : BOOLEAN, active : BOOLEAN]]
    /\ pc \in {"idle", "scan", "call"}
    /\ idx \in 0 .. NumTimers
    /\ due \subseteq Timer
    /\ nextDelay \in Time
    /\ ops \in 0 .. MaxOps
    /\ togo \in [Timer -> -MaxStall .. 2 * MaxDelay]
    /\ fresh \subseteq Timer

(***************************************************************************)
(* The stored deadlines mean what they should on both sides of the 49-day  *)
(* wrap: an active timer reads as due exactly when its time is really up.  *)
(***************************************************************************)
DeadlinesSurviveWrap == \A i \in Timer : timers[i].active => (IsDue(i, now) <=> togo[i] <= 0)

(***************************************************************************)
(* A callback is called only when its delay has passed: no timer runs      *)
(* early, whatever other callbacks do.  The exception is a timer that was  *)
(* due and that an earlier callback of the same poll has rearmed, or has   *)
(* cancelled and had its slot registered anew: the snapshot still says     *)
(* due, and it is called at once.                                          *)
(***************************************************************************)
Calls(i) == pc = "scan" /\ pc' = "call" /\ idx' = i

CalledOnTime == \A i \in Timer : Calls(i) => togo[i] <= 0 \/ i \in fresh \cap due

NeverEarly == [][CalledOnTime]_timersVars

(***************************************************************************)
(* When poll returns, every timer that was due has been served and every   *)
(* periodic one resynchronised into the future: nothing is left behind and *)
(* no catch-up burst is stored up.                                         *)
(***************************************************************************)
NothingOverdueAfterPoll ==
    pc = "idle" => \A i \in Active \ fresh : togo[i] > 0

(***************************************************************************)
(* A caller that sleeps for what poll returned never oversleeps a timer.   *)
(***************************************************************************)
HintCoversTimers ==
    pc = "scan" /\ pc' = "idle" =>
        \A i \in Active : nextDelay' <= togo[i] \/ (togo[i] <= 0 /\ nextDelay' = 0)

SleepHintSafe == [][HintCoversTimers]_timersVars

(***************************************************************************)
(* A periodic timer nobody touches keeps being called, through stalls of   *)
(* the loop and through the wrap.                                          *)
(***************************************************************************)
PeriodicKeepsFiring ==
    \A i \in Timer :
        <>[](timers[i].active /\ timers[i].period > 0) =>
            []<>(pc = "call" /\ idx = i)
=============================================================================
