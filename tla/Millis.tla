------------------------------- MODULE Millis -------------------------------
(***************************************************************************)
(* Time as the firmware keeps it: uint32_t milliseconds that wrap, once in *)
(* about 49 days.  TimeHalf stands for 2^31, so that a small instance can  *)
(* be driven across the wrap.                                              *)
(***************************************************************************)
EXTENDS Integers

CONSTANT TimeHalf

ASSUME TimeHalfAssumption == TimeHalf \in Nat \ {0}

TimeMod == 2 * TimeHalf
Time == 0 .. TimeMod - 1

(***************************************************************************)
(* a - b and a + d on uint32_t, for a, b and d in Time.                    *)
(***************************************************************************)
Elapsed(a, b) == IF b <= a THEN a - b ELSE a - b + TimeMod
Later(a, d) == IF a + d < TimeMod THEN a + d ELSE a + d - TimeMod

(***************************************************************************)
(* (int32_t)(now - due) >= 0.                                              *)
(***************************************************************************)
Reached(now, due) == Elapsed(now, due) < TimeHalf
=============================================================================
