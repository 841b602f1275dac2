------------------------------- MODULE Slots -------------------------------
(***************************************************************************)
(* The geometry of a follower's slot (ff_core/follow.cpp): an offset from  *)
(* the leader along three axes, in whole steps of a grid coarser than      *)
(* kFollowStackedHorizontalEpsilonM.  Lengths are compared by their        *)
(* squares, so nothing is rounded.                                         *)
(***************************************************************************)
EXTENDS Integers, FiniteSets

CONSTANTS MinSep,   \* minSepM
          MinVSep,  \* minVSepM
          Notches   \* how many notches a stick has to each side of its centre

ASSUME SepAssumption == MinSep \in Nat /\ MinVSep \in Nat /\ Notches \in Nat \ {0}

Axis == {"long", "lat", "vert"}
Offset == [Axis -> Int]

Square(n) == n * n
Abs(n) == IF n < 0 THEN -n ELSE n

(***************************************************************************)
(* The squared distance from the leader that an offset leaves if one axis  *)
(* is taken to be zero: what the other two keep clear.                     *)
(***************************************************************************)
CoSeparation(o, axis) ==
    (IF axis = "long" THEN 0 ELSE Square(o["long"]))
    + (IF axis = "lat" THEN 0 ELSE Square(o["lat"]))
    + (IF axis = "vert" THEN 0 ELSE Square(o["vert"]))
Separation(o) == Square(o["long"]) + Square(o["lat"]) + Square(o["vert"])

Stacked(o) == o["long"] = 0 /\ o["lat"] = 0

OffsetGeometrySane(o) ==
    /\ Separation(o) >= Square(MinSep)
    /\ Stacked(o) => Abs(o["vert"]) >= MinVSep

\* An axis on the other side of the leader; zero is on neither side.
Crosses(axis, from, to) ==
    \/ from[axis] < 0 /\ to[axis] > 0
    \/ from[axis] > 0 /\ to[axis] < 0

AxisSignLocked(axis, candidate, reference) ==
    /\ Crosses(axis, reference, candidate)
    /\ \/ CoSeparation(candidate, axis) < Square(MinSep)
       \/ CoSeparation(reference, axis) < Square(MinSep)

\* Mutant: the candidate alone is looked at.
CandidateSaneOnly(candidate, reference) == OffsetGeometrySane(candidate)
CandidateOffsetOk(candidate, reference) ==
    /\ OffsetGeometrySane(candidate)
    /\ \A axis \in Axis : ~AxisSignLocked(axis, candidate, reference)

(***************************************************************************)
(* A stick scales its axis between minus and plus the configured gap.      *)
(* Notches divides every configured coordinate of an instance.             *)
(***************************************************************************)
ResolvedOffset(configured, rcAxes, stick) ==
    [axis \in Axis |->
        IF axis \in rcAxes THEN (stick[axis] * Abs(configured[axis])) \div Notches
        ELSE configured[axis]]

(***************************************************************************)
(* The way from one slot straight to the next stays clear of the leader by *)
(* 1 / sqrt(2) of the minimum separation, looked at in Notches * 4 points. *)
(***************************************************************************)
Points == 4 * Notches
PassesClear(from, to) ==
    \A t \in 0 .. Points :
        2 * Separation([axis \in Axis |-> (Points - t) * from[axis] + t * to[axis]])
            >= Square(Points) * Square(MinSep)
=============================================================================
