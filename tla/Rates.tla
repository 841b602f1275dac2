-------------------------------- MODULE Rates --------------------------------
(***************************************************************************)
(* ff::RateController (lib/ff_core/rate_control.h, .cpp): how long a radio *)
(* waits before its next beacon.  The code computes in floating point and  *)
(* rounds to the nearest millisecond; here the same quotients are exact,   *)
(* with the fractions given in per cent, and rounded the same way.         *)
(***************************************************************************)
EXTENDS Integers

CONSTANTS MinInterval,  \* min_interval_ms
          MaxInterval,  \* max_interval_ms
          LoadPct,      \* 100 * target_load
          JitterPct,    \* 100 * jitter_frac
          DutyPct       \* duty_cycle_pct, 0 for no ceiling

ASSUME RatesAssumption ==
    /\ MinInterval \in Nat /\ MaxInterval \in Nat /\ MinInterval <= MaxInterval
    /\ LoadPct \in 1 .. 100
    /\ JitterPct \in 0 .. 100
    /\ DutyPct \in 0 .. 100

RoundedQuotient(a, b) == (2 * a + b) \div (2 * b)

DutyFloor(airtime) ==
    IF DutyPct = 0 \/ airtime <= 0 THEN 0 ELSE RoundedQuotient(airtime * 100, DutyPct)

(***************************************************************************)
(* clampU32 of (peers + 1) * airtime / load.                               *)
(***************************************************************************)
LoadInterval(active, airtime) ==
    LET raw == (active + 1) * airtime * 100
    IN  IF raw < MinInterval * LoadPct THEN MinInterval
        ELSE IF raw > MaxInterval * LoadPct THEN MaxInterval
        ELSE RoundedQuotient(raw, LoadPct)

BaseInterval(active, airtime) ==
    LET paced == LoadInterval(active, airtime)
    IN  IF paced > DutyFloor(airtime) THEN paced ELSE DutyFloor(airtime)

(***************************************************************************)
(* nextDelayMs, over every random sample: a factor from 1 - jitter to      *)
(* 1 + jitter.                                                             *)
(***************************************************************************)
NextDelays(active, airtime) ==
    LET base == BaseInterval(active, airtime)
    IN  RoundedQuotient(base * (100 - JitterPct), 100)
            .. RoundedQuotient(base * (100 + JitterPct), 100)

(***************************************************************************)
(* The longest of these delays, however many peers there are.              *)
(***************************************************************************)
LongestInterval(airtime) ==
    IF MaxInterval > DutyFloor(airtime) THEN MaxInterval ELSE DutyFloor(airtime)

LongestDelay(airtime) == RoundedQuotient(LongestInterval(airtime) * (100 + JitterPct), 100)
=============================================================================
