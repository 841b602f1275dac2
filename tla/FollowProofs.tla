---------------------------- MODULE FollowProofs ----------------------------
(***************************************************************************)
(* Theorems about the follow controller, for every set of peers, every set *)
(* of configurations, every stick and all durations; and about the link to *)
(* the flight controller, for all intervals, box lists and losses.         *)
(***************************************************************************)
EXTENDS Follow, FcLink, TLAPS, FiniteSetTheorems

(***************************************************************************)
(* The inductive invariant.  A lock and a uid go together, and a cycle cut *)
(* in two still has the leader it began with unless another was configured *)
(* meanwhile.                                                              *)
(***************************************************************************)
LockAgrees ==
    /\ ~Acquiring => lockedUid \in Uid
    /\ Acquiring => lockedUid = NoUid
CycleHasLeader ==
    cycle.at = "judged" /\ ~retargeted =>
        cycle.peer = lockedUid /\ state = "LOCKED" /\ heard[cycle.peer] <= Timeout
CycleHasSlot ==
    cycle.at = "judged" /\ config.rcAxes = {} /\ ~raced => cycle.candidate = config.offset

(***************************************************************************)
(* What is wrong with the GVAR is no older than the write that should have *)
(* put it right, and each cycle renews a write that is a heartbeat old.    *)
(***************************************************************************)
WrongSinceWrite == gvar # lastSent => doubt <= sentAge
CycleReported ==
    cycle = Done /\ config.gvar /\ doubt > 0 => lastSent = engaged /\ sentAge < Heartbeat

IInv ==
    /\ TypeOK
    /\ LockAgrees
    /\ CycleHasLeader
    /\ CycleHasSlot
    /\ CourseOfLeader
    /\ ConfiguredSlotFlown
    /\ OnlyLeaderChased
    /\ WrongSinceWrite
    /\ CycleReported
-----------------------------------------------------------------------------
LEMMA ResolvedType ==
    ASSUME NEW configured \in Offset, NEW axes \in SUBSET Axis, NEW rcAxes \in SUBSET Axis,
           axes \subseteq rcAxes, NEW stick \in [rcAxes -> -Notches .. Notches]
    PROVE  /\ ResolvedOffset(configured, axes, stick) \in Offset
           /\ axes = {} => ResolvedOffset(configured, axes, stick) = configured
<1>1. ASSUME NEW axis \in axes
      PROVE  (stick[axis] * Abs(configured[axis])) \div Notches \in Int
  <2>1. stick[axis] \in Int /\ configured[axis] \in Int
    BY SepAssumption DEF Offset
  <2>2. Abs(configured[axis]) \in Int
    BY <2>1 DEF Abs
  <2>3. stick[axis] * Abs(configured[axis]) \in Int
    BY <2>1, <2>2
  <2> QED BY <2>3, SepAssumption
<1>2. ResolvedOffset(configured, axes, stick) \in Offset
  BY <1>1 DEF ResolvedOffset, Offset
<1>3. ASSUME axes = {} PROVE ResolvedOffset(configured, axes, stick) = configured
  BY <1>3 DEF ResolvedOffset, Offset
<1> QED BY <1>2, <1>3

LEMMA AskedType ==
    ASSUME TypeOK, NEW candidate \in Asked
    PROVE  candidate \in Offset /\ (config.rcAxes = {} => candidate = config.offset)
<1>1. config.offset \in Offset /\ config.rcAxes \in SUBSET Axis
  BY ConfigAssumption DEF TypeOK
<1>2. PICK axes \in {{}, config.rcAxes}, stick \in Stick :
         candidate = ResolvedOffset(config.offset, axes, stick)
  BY DEF Asked
<1>3. /\ axes \in SUBSET Axis /\ axes \subseteq config.rcAxes
      /\ (config.rcAxes = {} => axes = {})
      /\ stick \in [config.rcAxes -> -Notches .. Notches]
  BY <1>1, <1>2 DEF Stick
<1>4. /\ ResolvedOffset(config.offset, axes, stick) \in Offset
      /\ axes = {} => ResolvedOffset(config.offset, axes, stick) = config.offset
  <2> DEFINE given == config.offset
             onStick == config.rcAxes
  <2>1. given \in Offset /\ onStick \in SUBSET Axis
    BY <1>1
  <2>2. axes \subseteq onStick /\ stick \in [onStick -> -Notches .. Notches]
    BY <1>3
  <2> HIDE DEF given, onStick
  <2>3. /\ ResolvedOffset(given, axes, stick) \in Offset
        /\ axes = {} => ResolvedOffset(given, axes, stick) = given
    BY <1>3, <2>1, <2>2, ResolvedType
  <2> QED BY <2>3 DEF given
<1> QED BY <1>2, <1>3, <1>4

(***************************************************************************)
(* What reporting to the flight controller leaves behind.                  *)
(***************************************************************************)
LEMMA ReportsFacts ==
    ASSUME TypeOK, WrongSinceWrite, NEW value \in {0, 1}, Reports(value)
    PROVE  /\ engaged' \in {0, 1} /\ lastSent' \in {-1, 0, 1} /\ gvar' \in {0, 1}
           /\ sentAge' \in 0 .. Heartbeat /\ doubt' \in 0 .. Heartbeat
           /\ WrongSinceWrite'
           /\ config.gvar => lastSent' = engaged' /\ sentAge' < Heartbeat
<1>1. CASE config.gvar /\ IsGvarDue(value)
  BY <1>1, TimesAssumption DEF Reports, TypeOK, WrongSinceWrite
<1>2. CASE ~(config.gvar /\ IsGvarDue(value))
  BY <1>2, TimesAssumption DEF Reports, TypeOK, WrongSinceWrite, IsGvarDue
<1> QED BY <1>1, <1>2
-----------------------------------------------------------------------------
THEOREM InitIInv == Init => IInv
<1> SUFFICES ASSUME Init PROVE IInv
  OBVIOUS
<1> USE DEF Init
<1>1. config \in Config /\ lastGood \in Offset /\ config.offset = lastGood
  BY ConfigAssumption
<1>2. heard \in [Uid -> -1 .. Timeout + 1]
  BY TimesAssumption
<1>3. sentAge \in 0 .. Heartbeat /\ doubt \in 0 .. Heartbeat
  BY TimesAssumption
<1>4. engaged \in {0, 1} /\ lastSent \in {-1, 0, 1} /\ gvar \in {0, 1}
  OBVIOUS
<1>5. TypeOK
  BY <1>1, <1>2, <1>3, <1>4 DEF TypeOK, LockState
<1>6. LockAgrees /\ CycleHasLeader /\ CycleHasSlot /\ CourseOfLeader
  BY DEF LockAgrees, Acquiring, CycleHasLeader, CycleHasSlot, CourseOfLeader, Due
<1>7. ConfiguredSlotFlown /\ OnlyLeaderChased /\ WrongSinceWrite /\ CycleReported
  BY <1>1, TimesAssumption
     DEF ConfiguredSlotFlown, OnlyLeaderChased, WrongSinceWrite, CycleReported, Due, Done
<1> QED BY <1>5, <1>6, <1>7 DEF IInv

LEMMA HearStep ==
    ASSUME IInv, NEW uid \in Uid, NEW age \in {-1, 0, Timeout + 1}, Hear(uid, age)
    PROVE  IInv'
<1> USE DEF IInv, Hear, lockVars, reportVars
<1>1. heard' \in [Uid -> -1 .. Timeout + 1]
  BY TimesAssumption DEF TypeOK
<1>2. TypeOK'
  BY <1>1 DEF TypeOK
<1>3. cycle'.at = "due" /\ cycle' # Done
  BY DEF Done
<1>4. LockAgrees' /\ CourseOfLeader' /\ ConfiguredSlotFlown' /\ WrongSinceWrite'
  BY DEF LockAgrees, Acquiring, CourseOfLeader, ConfiguredSlotFlown, WrongSinceWrite
<1> QED BY <1>2, <1>3, <1>4 DEF CycleHasLeader, CycleHasSlot, OnlyLeaderChased, CycleReported

LEMMA GateShutStep ==
    ASSUME IInv, GateShut
    PROVE  IInv'
<1> USE DEF IInv, GateShut, Bail
<1>1. TypeOK' /\ WrongSinceWrite' /\ CycleReported'
  BY ReportsFacts DEF TypeOK, LockState, CycleReported
<1>2. LockAgrees' /\ CourseOfLeader' /\ ConfiguredSlotFlown'
  BY DEF LockAgrees, Acquiring, CourseOfLeader, ConfiguredSlotFlown
<1> QED BY <1>1, <1>2 DEF CycleHasLeader, CycleHasSlot, OnlyLeaderChased, Done

(***************************************************************************)
(* What resolveLock does, whether or not it finds a peer.                  *)
(***************************************************************************)
LEMMA LockStep ==
    ASSUME TypeOK, LockAgrees, CourseOfLeader, retargeted' = retargeted, course' = course,
           NoPeer \/ \E uid \in Uid : Locked(uid)
    PROVE  /\ state' \in LockState /\ lockedUid' \in Uid \cup {NoUid}
           /\ LockAgrees' /\ CourseOfLeader'
  BY DEF TypeOK, LockAgrees, CourseOfLeader, NoPeer, Locked, Acquiring, LockState

LEMMA NothingToEmitStep ==
    ASSUME IInv, NothingToEmit
    PROVE  IInv'
<1> USE DEF IInv, NothingToEmit, Bail
<1>1. TypeOK' /\ WrongSinceWrite' /\ CycleReported'
  BY ReportsFacts, LockStep DEF TypeOK, CycleReported
<1>2. LockAgrees' /\ CourseOfLeader'
  BY LockStep
<1>3. ConfiguredSlotFlown'
  BY DEF ConfiguredSlotFlown
<1> QED BY <1>1, <1>2, <1>3 DEF CycleHasLeader, CycleHasSlot, OnlyLeaderChased, Done

LEMMA JudgeStep ==
    ASSUME IInv, NEW uid \in Uid, NEW candidate \in Asked, Judge(uid, candidate)
    PROVE  IInv'
<1> USE DEF IInv, Judge, reportVars
<1>1. candidate \in Offset /\ (config.rcAxes = {} => candidate = config.offset)
  BY AskedType
<1>2. CandidateOffsetOk(candidate, lastGood) \in BOOLEAN
  BY DEF CandidateOffsetOk
<1>3. cycle'.at = "judged" /\ cycle' \in [at : {"judged"}, peer : Uid, candidate : Offset, ok : BOOLEAN]
  BY <1>1, <1>2
<1>4. TypeOK' /\ LockAgrees' /\ CourseOfLeader'
  BY <1>3, LockStep DEF TypeOK
<1>5. CycleHasLeader'
  <2>1. heard[uid] \in -1 .. Timeout + 1 /\ ~Stale(uid)
    BY DEF TypeOK, Locked, Candidate
  <2>2. heard[uid] <= Timeout
    BY <2>1, TimesAssumption DEF Stale
  <2>3. state' = "LOCKED" /\ lockedUid' = uid
    BY DEF Locked
  <2> QED BY <2>2, <2>3 DEF CycleHasLeader
<1>6. CycleHasSlot' /\ ConfiguredSlotFlown'
  BY <1>1 DEF CycleHasSlot, ConfiguredSlotFlown
<1>7. OnlyLeaderChased' /\ CycleReported'
  BY <1>3 DEF OnlyLeaderChased, CycleReported, Done
<1>8. WrongSinceWrite'
  BY DEF WrongSinceWrite
<1> QED BY <1>4, <1>5, <1>6, <1>7, <1>8

LEMMA SteerStep ==
    ASSUME IInv, NEW fast \in BOOLEAN,
           TargetTooFar(fast) \/ \E throttle \in {0, 1} : Emit(fast, throttle)
    PROVE  IInv'
<1> USE DEF IInv
<1>1. PICK value \in {0, 1} : Reports(value)
  BY DEF TargetTooFar, Emit, Bail
<1>2. /\ Steer(fast) /\ cycle' = Done
      /\ waypoint' \in {NoUid, cycle.peer} /\ (waypoint' # NoUid => waypoint' = cycle.peer)
  BY DEF TargetTooFar, Emit, Bail
<1>3. /\ cycle.at = "judged" /\ cycle.peer \in Uid /\ cycle.candidate \in Offset
  BY <1>2 DEF Steer, TypeOK, Due, Done
<1>4. UNCHANGED <<config, lockVars, heard, retargeted, raced>>
  BY <1>2 DEF Steer
<1>5. TypeOK'
  <2>1. lastGood' \in Offset /\ course' \in Uid \cup {NoUid}
    BY <1>2, <1>3 DEF Steer, Flown, TypeOK
  <2> QED BY <2>1, <1>1, <1>2, <1>3, <1>4, ReportsFacts DEF TypeOK, lockVars
<1>6. LockAgrees' /\ WrongSinceWrite' /\ CycleReported'
  <2>1. WrongSinceWrite' /\ (config.gvar => lastSent' = engaged' /\ sentAge' < Heartbeat)
    BY <1>1, ReportsFacts
  <2>2. config' = config
    BY <1>4
  <2> QED BY <1>4, <2>1, <2>2 DEF LockAgrees, Acquiring, CycleReported, lockVars
<1>7. CourseOfLeader'
  BY <1>2, <1>3, <1>4 DEF Steer, CourseOfLeader, CycleHasLeader, lockVars
<1>8. ConfiguredSlotFlown'
  BY <1>2, <1>3, <1>4 DEF Steer, Flown, ConfiguredSlotFlown, CycleHasSlot
<1>9. OnlyLeaderChased'
  BY <1>2, <1>3, <1>4 DEF OnlyLeaderChased, CycleHasLeader, lockVars
<1> QED BY <1>2, <1>5, <1>6, <1>7, <1>8, <1>9 DEF CycleHasLeader, CycleHasSlot, Done

LEMMA ApplyConfigStep ==
    ASSUME IInv, NEW new \in Config, ApplyConfig(new)
    PROVE  IInv'
<1> USE DEF IInv, ApplyConfig
<1>1. config' \in Config /\ lastGood' \in Offset /\ lastGood' = config'.offset
  BY ConfigAssumption
<1>2. /\ state' \in LockState /\ lockedUid' \in Uid \cup {NoUid} /\ retargeted' \in BOOLEAN
      /\ LockAgrees'
  BY DEF Retarget, lockVars, TypeOK, LockState, LockAgrees, Acquiring
<1>3. doubt' \in 0 .. Heartbeat /\ WrongSinceWrite'
  BY TimesAssumption DEF TypeOK, WrongSinceWrite
<1>4. TypeOK'
  BY <1>1, <1>2, <1>3 DEF TypeOK
<1>5. ~retargeted' => ~retargeted /\ lockedUid' = lockedUid /\ state' = state
  BY DEF Retarget, lockVars
<1>6. CycleHasLeader' /\ CourseOfLeader' /\ OnlyLeaderChased'
  <2>1. UNCHANGED <<heard, cycle, waypoint, course>>
    OBVIOUS
  <2> QED BY <1>5, <2>1 DEF CycleHasLeader, CourseOfLeader, OnlyLeaderChased
<1>7. CycleHasSlot' /\ ConfiguredSlotFlown'
  BY <1>1 DEF CycleHasSlot, ConfiguredSlotFlown
<1>8. CycleReported'
  <2>1. UNCHANGED <<cycle, lastSent, engaged, sentAge>> /\ config' = new
    OBVIOUS
  <2>2. CASE new.gvar = config.gvar
    <3>1. doubt' = doubt /\ config'.gvar = config.gvar
      BY <2>2
    <3> QED BY <2>1, <3>1 DEF CycleReported
  <2>3. CASE new.gvar # config.gvar
    <3>1. doubt' = 0
      BY <2>3
    <3>2. ~(doubt' > 0)
      BY <3>1
    <3> QED BY <3>2 DEF CycleReported
  <2> QED BY <2>2, <2>3
<1> QED BY <1>2, <1>3, <1>4, <1>6, <1>7, <1>8

LEMMA FcRestartStep ==
    ASSUME IInv, FcRestart
    PROVE  IInv'
<1> USE DEF IInv, FcRestart, lockVars
<1>1. TypeOK' /\ WrongSinceWrite' /\ CycleReported'
  BY TimesAssumption DEF TypeOK, WrongSinceWrite, CycleReported
<1> QED BY <1>1 DEF LockAgrees, Acquiring, CourseOfLeader, ConfiguredSlotFlown,
                    CycleHasLeader, CycleHasSlot, OnlyLeaderChased

LEMMA TickStep ==
    ASSUME IInv, Tick
    PROVE  IInv'
<1> USE DEF IInv, Tick, lockVars
<1>1. heard' \in [Uid -> -1 .. Timeout + 1]
  BY TimesAssumption DEF TypeOK, Aged
<1>2. sentAge' \in 0 .. Heartbeat /\ doubt' \in 0 .. Heartbeat
  BY TimesAssumption DEF TypeOK
<1>3. TypeOK'
  BY <1>1, <1>2 DEF TypeOK
<1>4. WrongSinceWrite'
  BY TimesAssumption DEF WrongSinceWrite, TypeOK
<1>5. cycle'.at = "due" /\ cycle' # Done
  BY DEF Due, Done
<1>6. LockAgrees' /\ CourseOfLeader' /\ ConfiguredSlotFlown'
  BY DEF LockAgrees, Acquiring, CourseOfLeader, ConfiguredSlotFlown
<1> QED BY <1>3, <1>4, <1>5, <1>6 DEF CycleHasLeader, CycleHasSlot, OnlyLeaderChased, CycleReported
-----------------------------------------------------------------------------
THEOREM NextIInv == IInv /\ [Next]_vars => IInv'
<1> SUFFICES ASSUME IInv, [Next]_vars PROVE IInv'
  OBVIOUS
<1>1. CASE UNCHANGED vars
  BY <1>1 DEF vars, lockVars, reportVars, IInv, TypeOK, LockAgrees, Acquiring, CycleHasLeader,
              CycleHasSlot, CourseOfLeader, ConfiguredSlotFlown, OnlyLeaderChased,
              WrongSinceWrite, CycleReported
<1>2. CASE Next
  BY <1>2, HearStep, GateShutStep, NothingToEmitStep, JudgeStep, SteerStep, ApplyConfigStep,
     FcRestartStep, TickStep DEF Next, Service
<1> QED BY <1>1, <1>2

THEOREM Invariance == Spec => []IInv
  BY InitIInv, NextIInv, PTL DEF Spec

(***************************************************************************)
(* The controller keeps its types.                                         *)
(***************************************************************************)
THEOREM TypeCorrect == Spec => []TypeOK
<1>1. IInv => TypeOK
  BY DEF IInv
<1> QED BY <1>1, Invariance, PTL

(***************************************************************************)
(* Every waypoint leads to the locked peer, on a fresh position.           *)
(***************************************************************************)
THEOREM ChasesOnlyLeader == Spec => []OnlyLeaderChased
<1>1. IInv => OnlyLeaderChased
  BY DEF IInv
<1> QED BY <1>1, Invariance, PTL

(***************************************************************************)
(* A course held belongs to the leader.                                    *)
(***************************************************************************)
THEOREM CourseIsLeaders == Spec => []CourseOfLeader
<1>1. IInv => CourseOfLeader
  BY DEF IInv
<1> QED BY <1>1, Invariance, PTL

(***************************************************************************)
(* With no sticks assigned the configured slot is flown.                   *)
(***************************************************************************)
THEOREM ConfiguredSlotIsFlown == Spec => []ConfiguredSlotFlown
<1>1. IInv => ConfiguredSlotFlown
  BY DEF IInv
<1> QED BY <1>1, Invariance, PTL

(***************************************************************************)
(* The engage GVAR is right within a heartbeat of anything that may have   *)
(* made it wrong.                                                          *)
(***************************************************************************)
THEOREM ThrottleIsLetGo == Spec => []ThrottleLetGo
<1>1. IInv => ThrottleLetGo
  BY TimesAssumption DEF IInv, ThrottleLetGo, WrongSinceWrite, CycleReported, TypeOK
<1> QED BY <1>1, Invariance, PTL

(***************************************************************************)
(* No failover.                                                            *)
(***************************************************************************)
LEMMA NoFailover ==
    ASSUME IInv, [Next]_vars, lockedUid # NoUid, lockedUid' # lockedUid
    PROVE  lockedUid' = NoUid /\ (state' = "IDLE" \/ config'.target # config.target)
<1>1. ~Acquiring
  BY DEF IInv, LockAgrees
<1>2. CASE GateShut
  BY <1>2 DEF GateShut
<1>3. ~NothingToEmit
  BY <1>1 DEF NothingToEmit, NoPeer, Locked
<1>4. ~\E uid \in Uid, candidate \in Asked : Judge(uid, candidate)
  BY <1>1 DEF Judge, Locked
<1>5. ~\E fast \in BOOLEAN : TargetTooFar(fast) \/ \E throttle \in {0, 1} : Emit(fast, throttle)
  BY DEF TargetTooFar, Emit, Steer, lockVars
<1>6. CASE \E new \in Config : ApplyConfig(new)
  BY <1>6 DEF ApplyConfig, Retarget, lockVars
<1>7. ~(FcRestart \/ Tick \/ \E uid \in Uid, age \in {-1, 0, Timeout + 1} : Hear(uid, age))
  BY DEF FcRestart, Tick, Hear, lockVars
<1>8. Next
  BY DEF vars, lockVars
<1> QED BY <1>2, <1>3, <1>4, <1>5, <1>6, <1>7, <1>8 DEF Next, Service

THEOREM LockIsHeld == Spec => LockHeld
<1> DEFINE Held == lockedUid # NoUid /\ lockedUid' # lockedUid =>
                       lockedUid' = NoUid /\ (state' = "IDLE" \/ config'.target # config.target)
<1>1. IInv /\ [Next]_vars => [Held]_vars
  BY NoFailover
<1> QED BY <1>1, Invariance, PTL DEF Spec, LockHeld
-----------------------------------------------------------------------------
(***************************************************************************)
(* The way from one slot to the next.  Products first: those of numbers    *)
(* that are not negative, and of sums.                                     *)
(***************************************************************************)
LEMMA Products ==
    /\ \A a, b \in Int : a * b \in Int
    /\ \A a, b \in Nat : a * b \in Nat
    /\ \A a, b, c \in Nat : a >= b => c * a >= c * b
    /\ \A a \in Int : Square(a) \in Nat
<1>1. \A a, b \in Int : a * b \in Int
  OBVIOUS
<1>2. \A a, b \in Nat : a * b \in Nat
  OBVIOUS
<1>3. ASSUME NEW a \in Nat, NEW b \in Nat, NEW c \in Nat, a >= b PROVE c * a >= c * b
  <2>1. a - b \in Nat
    BY <1>3
  <2>2. c * (a - b) \in Nat /\ c * (a - b) = c * a - c * b
    BY <1>2, <2>1
  <2> QED BY <2>2
<1>4. ASSUME NEW a \in Int PROVE Square(a) \in Nat
  <2>1. CASE a >= 0
    BY <1>2, <2>1 DEF Square
  <2>2. CASE a < 0
    <3>1. -a \in Nat /\ a * a = (-a) * (-a)
      BY <2>2
    <3> QED BY <1>2, <3>1 DEF Square
  <2> QED BY <2>1, <2>2
<1> QED BY <1>1, <1>2, <1>3, <1>4

\* On one axis, on the same side of the leader.
SameSide(a, b) == ~(a < 0 /\ b > 0) /\ ~(a > 0 /\ b < 0)

LEMMA AxisKeepsShare ==
    ASSUME NEW a \in Int, NEW b \in Int, NEW p \in Nat, NEW t \in Nat, SameSide(a, b)
    PROVE  Square(p * a + t * b) >= Square(p) * Square(a) + Square(t) * Square(b)
<1>1. a * b \in Nat
  <2>1. CASE a >= 0 /\ b >= 0
    BY <2>1, Products
  <2>2. CASE a <= 0 /\ b <= 0
    <3>1. -a \in Nat /\ -b \in Nat /\ a * b = (-a) * (-b)
      BY <2>2
    <3> QED BY <3>1, Products
  <2> QED BY <2>1, <2>2 DEF SameSide
<1>2. p * t \in Nat /\ (p * t) * (a * b) \in Nat
  BY <1>1, Products
<1>3. Square(p * a + t * b)
        = Square(p) * Square(a) + Square(t) * Square(b) + 2 * ((p * t) * (a * b))
  BY DEF Square
<1>4. Square(p) * Square(a) \in Nat /\ Square(t) * Square(b) \in Nat
      /\ Square(p * a + t * b) \in Int
  BY Products
<1> QED BY <1>2, <1>3, <1>4

\* Two shares of what keeps the separation keep half of it between them.
LEMMA SharesSuffice ==
    ASSUME NEW from \in Nat, NEW to \in Nat, NEW m \in Nat, from >= m, to >= m,
           NEW p \in Nat, NEW t \in Nat
    PROVE  2 * (Square(p) * from + Square(t) * to) >= Square(p + t) * m
<1>1. /\ Square(p) \in Nat /\ Square(t) \in Nat /\ Square(p - t) \in Nat /\ Square(p + t) \in Nat
      /\ Square(p) * from \in Nat /\ Square(t) * to \in Nat
      /\ Square(p) * m \in Nat /\ Square(t) * m \in Nat
      /\ Square(p - t) * m \in Nat /\ Square(p + t) * m \in Nat
  BY Products
<1>2. Square(p) * from >= Square(p) * m /\ Square(t) * to >= Square(t) * m
  BY <1>1, Products
<1>3. 2 * (Square(p) * m + Square(t) * m) = Square(p + t) * m + Square(p - t) * m
  BY DEF Square
<1> QED BY <1>1, <1>2, <1>3

(***************************************************************************)
(* A sane slot to which the sticks may move it, crossing one axis at most: *)
(* every point of the way keeps what the axes not crossed keep clear.      *)
(***************************************************************************)
LEMMA WayKeepsClear ==
    ASSUME NEW from \in Offset, NEW to \in Offset, OffsetGeometrySane(from),
           to = from \/ CandidateOffsetOk(to, from),
           \A c, d \in Axis : Crosses(c, from, to) /\ Crosses(d, from, to) => c = d
    PROVE  PassesClear(from, to)
<1>1. Points \in Nat
  BY SepAssumption DEF Points
<1> SUFFICES ASSUME NEW t \in 0 .. Points
             PROVE  2 * Separation([axis \in Axis |-> (Points - t) * from[axis] + t * to[axis]])
                        >= Square(Points) * Square(MinSep)
  BY DEF PassesClear
<1> DEFINE q == Points - t
           way == [axis \in Axis |-> q * from[axis] + t * to[axis]]
<1>2. t \in Nat /\ q \in Nat /\ q + t = Points
  BY <1>1
<1>3. /\ \A axis \in Axis : from[axis] \in Int /\ to[axis] \in Int
      /\ "long" \in Axis /\ "lat" \in Axis /\ "vert" \in Axis
      /\ \A axis \in Axis : axis \in {"long", "lat", "vert"}
  BY DEF Offset, Axis
<1>4. /\ OffsetGeometrySane(to)
      /\ \A axis \in Axis : Crosses(axis, from, to) =>
             /\ CoSeparation(from, axis) >= Square(MinSep)
             /\ CoSeparation(to, axis) >= Square(MinSep)
  <2>1. CASE to = from
    BY <1>3, <2>1 DEF Crosses
  <2>2. CASE CandidateOffsetOk(to, from)
    <3>1. \A axis \in Axis : /\ CoSeparation(from, axis) \in Int
                             /\ CoSeparation(to, axis) \in Int
      BY <1>3, Products DEF CoSeparation
    <3>2. Square(MinSep) \in Int
      BY SepAssumption, Products
    <3> QED BY <2>2, <3>1, <3>2 DEF CandidateOffsetOk, AxisSignLocked
  <2> QED BY <2>1, <2>2
\* What each axis contributes to the separation from the leader.
<1> DEFINE kept(axis) == Square(q) * Square(from[axis]) + Square(t) * Square(to[axis])
<1>5. \A axis \in Axis : /\ way[axis] \in Int /\ Square(way[axis]) \in Nat /\ kept(axis) \in Nat
                         /\ Square(from[axis]) \in Nat /\ Square(to[axis]) \in Nat
                         /\ ~Crosses(axis, from, to) => Square(way[axis]) >= kept(axis)
  <2> TAKE axis \in Axis
  <2>1. from[axis] \in Int /\ to[axis] \in Int /\ way[axis] = q * from[axis] + t * to[axis]
    BY <1>3
  <2>2. /\ Square(q) \in Nat /\ Square(t) \in Nat
        /\ Square(from[axis]) \in Nat /\ Square(to[axis]) \in Nat
    BY <1>2, <2>1, Products
  <2>3. kept(axis) \in Nat
    BY <2>2, Products
  <2>4. way[axis] \in Int
    BY <1>2, <2>1, Products
  <2>5. ~Crosses(axis, from, to) => Square(way[axis]) >= kept(axis)
    BY <1>2, <2>1, AxisKeepsShare DEF Crosses, SameSide
  <2> QED BY <2>2, <2>3, <2>4, <2>5, Products
<1>6. Square(q) \in Nat /\ Square(t) \in Nat /\ Square(MinSep) \in Nat
  BY <1>2, SepAssumption, Products
<1>7. \E a, b \in Nat : /\ a >= Square(MinSep) /\ b >= Square(MinSep)
                        /\ Separation(way) >= Square(q) * a + Square(t) * b
  <2> HIDE DEF q, way
  <2>1. CASE \A axis \in Axis : ~Crosses(axis, from, to)
    <3>1. Separation(way) >= kept("long") + kept("lat") + kept("vert")
      BY <1>3, <1>5, <2>1 DEF Separation
    <3>2. kept("long") + kept("lat") + kept("vert")
            = Square(q) * Separation(from) + Square(t) * Separation(to)
      BY <1>3, <1>5, <1>6 DEF Separation
    <3>3. Separation(from) \in Nat /\ Separation(to) \in Nat
      BY <1>3, <1>5 DEF Separation
    <3> QED BY <1>4, <3>1, <3>2, <3>3 DEF OffsetGeometrySane
  <2>2. ASSUME NEW c \in Axis, Crosses(c, from, to)
        PROVE  \E a, b \in Nat : /\ a >= Square(MinSep) /\ b >= Square(MinSep)
                                 /\ Separation(way) >= Square(q) * a + Square(t) * b
    <3>1. Separation(way) >= Square(q) * CoSeparation(from, c) + Square(t) * CoSeparation(to, c)
      <4>1. \A axis \in Axis : axis # c => Square(way[axis]) >= kept(axis)
        BY <1>5, <2>2
      <4>2. CASE c = "long"
        <5>1. Separation(way) >= kept("lat") + kept("vert")
          BY <1>3, <1>5, <4>1, <4>2 DEF Separation
        <5>2. kept("lat") + kept("vert")
                = Square(q) * CoSeparation(from, c) + Square(t) * CoSeparation(to, c)
          BY <1>3, <1>5, <1>6, <4>2 DEF CoSeparation
        <5> QED BY <5>1, <5>2
      <4>3. CASE c = "lat"
        <5>1. Separation(way) >= kept("long") + kept("vert")
          BY <1>3, <1>5, <4>1, <4>3 DEF Separation
        <5>2. kept("long") + kept("vert")
                = Square(q) * CoSeparation(from, c) + Square(t) * CoSeparation(to, c)
          BY <1>3, <1>5, <1>6, <4>3 DEF CoSeparation
        <5> QED BY <5>1, <5>2
      <4>4. CASE c = "vert"
        <5>1. Separation(way) >= kept("long") + kept("lat")
          BY <1>3, <1>5, <4>1, <4>4 DEF Separation
        <5>2. kept("long") + kept("lat")
                = Square(q) * CoSeparation(from, c) + Square(t) * CoSeparation(to, c)
          BY <1>3, <1>5, <1>6, <4>4 DEF CoSeparation
        <5> QED BY <5>1, <5>2
      <4> QED BY <1>3, <4>2, <4>3, <4>4
    <3>2. CoSeparation(from, c) \in Nat /\ CoSeparation(to, c) \in Nat
      BY <1>3, <1>5 DEF CoSeparation
    <3> QED BY <1>4, <2>2, <3>1, <3>2
  <2> QED BY <2>1, <2>2
<1>8. PICK a, b \in Nat : /\ a >= Square(MinSep) /\ b >= Square(MinSep)
                         /\ Separation(way) >= Square(q) * a + Square(t) * b
  BY <1>7
<1>9. 2 * (Square(q) * a + Square(t) * b) >= Square(Points) * Square(MinSep)
  <2> HIDE DEF q, way
  <2>1. 2 * (Square(q) * a + Square(t) * b) >= Square(q + t) * Square(MinSep)
    BY <1>2, <1>6, <1>8, SharesSuffice
  <2> QED BY <1>2, <2>1
<1>10. Separation(way) \in Int
  BY <1>3, <1>5 DEF Separation
<1>11. Square(q) * a \in Nat /\ Square(t) * b \in Nat /\ Square(Points) * Square(MinSep) \in Int
  BY <1>1, <1>6, Products
<1>12. 2 * Separation(way) >= Square(Points) * Square(MinSep)
  <2> HIDE DEF q, way
  <2> QED BY <1>8, <1>9, <1>10, <1>11
<1> QED BY <1>12

(***************************************************************************)
(* The slot in force is sane, and a verdict is about it unless another     *)
(* configuration was applied since.                                        *)
(***************************************************************************)
VerdictStands ==
    cycle.at = "judged" /\ cycle.ok =>
        /\ OffsetGeometrySane(cycle.candidate)
        /\ ~raced => CandidateOffsetOk(cycle.candidate, lastGood)
SlotInv == IInv /\ OffsetGeometrySane(lastGood) /\ VerdictStands

LEMMA SweepMoves == Next /\ cycle.at = "judged" /\ cycle'.at # "judged" => lastGood' = Flown
<1> SUFFICES ASSUME Next, cycle.at = "judged", cycle'.at # "judged" PROVE lastGood' = Flown
  OBVIOUS
<1>1. \E fast \in BOOLEAN : Steer(fast)
  BY DEF Next, Service, Hear, GateShut, NothingToEmit, Judge, Emit, TargetTooFar, ApplyConfig,
         FcRestart, Tick, Done
<1> QED BY <1>1 DEF Steer

LEMMA InitSlotInv == Init => SlotInv
  BY InitIInv, ConfigAssumption DEF Init, SlotInv, VerdictStands, Due

LEMMA NextSlotInv == SlotInv /\ [Next]_vars => SlotInv'
<1> SUFFICES ASSUME SlotInv, [Next]_vars PROVE SlotInv'
  OBVIOUS
<1>1. IInv'
  BY NextIInv DEF SlotInv
<1>2. CASE UNCHANGED <<lastGood, cycle, raced>>
  BY <1>1, <1>2 DEF SlotInv, VerdictStands
<1>3. ASSUME NEW uid \in Uid, NEW candidate \in Asked, Judge(uid, candidate) PROVE SlotInv'
  <2>1. /\ cycle'.candidate = candidate /\ lastGood' = lastGood
        /\ cycle'.ok = CandidateOffsetOk(candidate, lastGood)
    BY <1>3 DEF Judge
  <2>2. cycle'.ok => CandidateOffsetOk(cycle'.candidate, lastGood)
    BY <2>1, Zenon
  <2> QED BY <1>1, <2>1, <2>2 DEF SlotInv, VerdictStands, CandidateOffsetOk
<1>4. ASSUME NEW new \in Config, ApplyConfig(new) PROVE SlotInv'
  <2>1. /\ OffsetGeometrySane(new.offset) /\ lastGood' = new.offset /\ cycle' = cycle
        /\ cycle.at = "judged" => raced'
    BY <1>4 DEF ApplyConfig
  <2> QED BY <1>1, <2>1 DEF SlotInv, VerdictStands
<1>5. ASSUME Next, cycle.at = "judged", cycle'.at # "judged" PROVE SlotInv'
  BY <1>1, <1>5, SweepMoves DEF SlotInv, VerdictStands, Flown
<1>6. CASE GateShut \/ NothingToEmit \/ Tick
  BY <1>1, <1>6 DEF SlotInv, VerdictStands, GateShut, NothingToEmit, Tick, Bail, Done, Due
<1>7. CASE \E fast \in BOOLEAN :
              TargetTooFar(fast) \/ \E throttle \in {0, 1} : Emit(fast, throttle)
  <2>1. Next /\ cycle.at = "judged" /\ cycle'.at # "judged"
    BY <1>7 DEF TargetTooFar, Emit, Steer, Bail, Done, Next, Service
  <2> QED BY <1>5, <2>1
<1> QED BY <1>2, <1>3, <1>4, <1>6, <1>7 DEF Next, Service, Hear, FcRestart, vars

\* Of two axes that cross there are two.
LEMMA CrossingsCounted ==
    ASSUME NEW from, NEW to, NEW c \in Axis, NEW d \in Axis, c # d,
           Crosses(c, from, to), Crosses(d, from, to)
    PROVE  Cardinality({axis \in Axis : Crosses(axis, from, to)}) > 1
<1> DEFINE crossed == {axis \in Axis : Crosses(axis, from, to)}
<1>1. IsFiniteSet(Axis)
  <2>1. IsFiniteSet({"long"})
    BY FS_Singleton
  <2>2. IsFiniteSet({"long"} \cup {"lat"})
    BY <2>1, FS_AddElement
  <2>3. IsFiniteSet(({"long"} \cup {"lat"}) \cup {"vert"})
    BY <2>2, FS_AddElement
  <2>4. Axis = ({"long"} \cup {"lat"}) \cup {"vert"}
    BY DEF Axis
  <2> QED BY <2>3, <2>4
<1>2. IsFiniteSet(crossed)
  BY <1>1, FS_Subset
<1>3. IsFiniteSet({c}) /\ Cardinality({c}) = 1
  BY FS_Singleton
<1>4. IsFiniteSet({c, d}) /\ Cardinality({c, d}) = 2
  <2>1. {c, d} = {c} \cup {d} /\ d \notin {c}
    OBVIOUS
  <2> QED BY <1>3, <2>1, FS_AddElement
<1>5. {c, d} \subseteq crossed
  OBVIOUS
<1>6. Cardinality({c, d}) <= Cardinality(crossed) /\ Cardinality(crossed) \in Nat
  BY <1>2, <1>5, FS_Subset, FS_CardinalityType
<1> QED BY <1>4, <1>6

(***************************************************************************)
(* The sticks never move the slot through the leader, but where two axes   *)
(* cross in one cycle: for every minimum separation and gap.               *)
(***************************************************************************)
THEOREM SlotKeepsClear == Spec => SlotPassesClear
<1> DEFINE Clear ==
             Sweep => \/ PassesClear(lastGood, lastGood')
                      \/ Cardinality({axis \in Axis : Crosses(axis, lastGood, lastGood')}) > 1
<1>1. SlotInv /\ SlotInv' /\ [Next]_vars => [Clear]_vars
  <2> SUFFICES ASSUME SlotInv, SlotInv', Next, Sweep
               PROVE  \/ PassesClear(lastGood, lastGood')
                      \/ Cardinality({axis \in Axis : Crosses(axis, lastGood, lastGood')}) > 1
    OBVIOUS
  <2>1. cycle.at = "judged" /\ cycle'.at # "judged" /\ ~raced
    BY DEF Sweep, Done
  <2>2. lastGood' = Flown
    BY <2>1, SweepMoves
  <2>3. lastGood' = lastGood \/ CandidateOffsetOk(lastGood', lastGood)
    BY <2>1, <2>2 DEF Flown, SlotInv, VerdictStands
  <2>4. lastGood \in Offset /\ lastGood' \in Offset /\ OffsetGeometrySane(lastGood)
    BY DEF SlotInv, IInv, TypeOK
  <2>5. CASE \A c, d \in Axis :
                Crosses(c, lastGood, lastGood') /\ Crosses(d, lastGood, lastGood') => c = d
    BY <2>3, <2>4, <2>5, WayKeepsClear
  <2>6. CASE \E c, d \in Axis :
                c # d /\ Crosses(c, lastGood, lastGood') /\ Crosses(d, lastGood, lastGood')
    BY <2>6, CrossingsCounted
  <2> QED BY <2>5, <2>6
<1>2. Spec => []SlotInv
  BY InitSlotInv, NextSlotInv, PTL DEF Spec
<1> QED BY <1>1, <1>2, PTL DEF Spec, SlotPassesClear
-----------------------------------------------------------------------------
(***************************************************************************)
(* Late: how long ago, at most, what waits to be read was sent. Pending: a *)
(* request is on its way, or its answer is. Listed and Flags: the modes of *)
(* a box list, and the flags that say which are active.                    *)
(***************************************************************************)
Late == IF phase = "drain" THEN MaxLag ELSE 0
Pending(kind) == kind \in sent \/ \E reply \in replies : reply.kind = kind
Listed(boxes) == {boxes[i] : i \in DOMAIN boxes}
Flags(boxes, active) == {i \in DOMAIN boxes : boxes[i] \in active}
BoxesRight == boxIds = fc.boxes

(***************************************************************************)
(* Requests are answered before the next iteration and answers read in it; *)
(* before the flight controller has said what it is, neither its modes nor *)
(* its altitude are asked for.                                             *)
(***************************************************************************)
LinkFlow ==
    /\ phase = "drain" => sent = {}
    /\ phase = "follow" => replies = {}
    /\ Pending("status") \/ ModesFresh \/ "altitude" \in needs => "variant" \in known

(***************************************************************************)
(* The histories of what the flight controller does.                       *)
(***************************************************************************)
FcWitnessed ==
    /\ fc.active \subseteq Listed(fc.boxes)
    /\ fc.fix => sinceFix = 0
    /\ "arm" \in fc.active => sinceArmed = 0

(***************************************************************************)
(* What an answer says was so when it was sent, and is so now unless the   *)
(* flight controller restarted since.                                      *)
(***************************************************************************)
BoxesSaid(reply) ==
    reply.kind = "boxes" =>
        /\ reply.boxes \in Layout
        /\ reply.boxes = fc.boxes \/ settled <= Late
        /\ reply.boxes = fc.boxes \/ since["boxes"] = BoxIdsEvery \/ settled <= since["boxes"]
FixSaid(reply) ==
    reply.kind = "gps" => reply.fix \in BOOLEAN /\ (reply.fix => sinceFix <= Late)
ModesSaid(reply) ==
    reply.kind = "status" =>
        /\ reply.active \subseteq Mode /\ reply.inav \in BOOLEAN
        /\ "arm" \in reply.active => sinceArmed <= Late
        /\ settled > Late => /\ reply.flags = Flags(fc.boxes, reply.active)
                             /\ reply.active \subseteq Listed(fc.boxes)
RepliesTrue == \A reply \in replies : BoxesSaid(reply) /\ FixSaid(reply) /\ ModesSaid(reply)

(***************************************************************************)
(* The box list held is the right one, or it is being asked for, or it was *)
(* asked for since the flight controller last restarted or an answer was   *)
(* lost. So what was read through a wrong list is no older than the        *)
(* polling interval and one iteration.                                     *)
(***************************************************************************)
BoxesPolled ==
    /\ since["boxes"] < BoxIdsEvery => settled <= since["boxes"] \/ Pending("boxes") \/ BoxesRight
    /\ phase # "drain" /\ "variant" \in known => since["boxes"] < BoxIdsEvery
    /\ phase = "drain" /\ Pending("status") =>
           settled <= BoxIdsEvery - 1 + MaxLag \/ Pending("boxes") \/ BoxesRight
    /\ modes # truth /\ ModesFresh => settled <= BoxIdsEvery - 1 + MaxLag + statusAge

(***************************************************************************)
(* What is believed was true no longer ago than the answer it was read     *)
(* from, and an iteration.                                                 *)
(***************************************************************************)
Believed ==
    /\ loc.valid /\ fixAge <= FixStale => sinceFix <= fixAge + MaxLag
    /\ phase # "drain" /\ loc.valid => fixAge <= FixStale
    /\ loc.armed => ArmedIn(modes, armedFlag)
    /\ phase # "drain" /\ loc.armed => ModesFresh
    /\ armedFlag = "yes" => "arm" \in truth
    /\ "arm" \in truth /\ ModesFresh => sinceArmed <= statusAge + MaxLag

(***************************************************************************)
(* An altitude that is needed is asked for in every iteration and so has   *)
(* just been read, unless an answer was lost or it was not needed an       *)
(* iteration ago.                                                          *)
(***************************************************************************)
AltitudeAsked ==
    "altitude" \in needs =>
        /\ phase = "drain" => Pending("altitude")
                              \/ settled <= MaxLag \/ steady <= MaxLag \/ reported["altitude"] = 0
        /\ phase = "follow" => settled <= MaxLag \/ steady <= MaxLag \/ reported["altitude"] = 0
        /\ phase # "drain" => Pending("altitude") \/ settled = 0 \/ steady = 0

(***************************************************************************)
(* Identity: what is not known is being asked for, or was asked for less   *)
(* than the retry time ago. The variant comes first, since the mixer, the  *)
(* boxes and the status wait for it; Comes bounds when an answer is in     *)
(* that may be asked for bound ticks late.                                 *)
(***************************************************************************)
FirstAnswer == IdentRetry - 1 + MaxLag
Comes(kind, bound) ==
    settled <= bound + MaxLag + Late /\ (Pending(kind) \/ settled <= bound + Late)
IdentPolled ==
    /\ since["ident"] < IdentRetry =>
        /\ \A kind \in {"variant", "version"} :
               settled <= since["ident"] \/ Pending(kind) \/ kind \in known
        /\ fc.inav => settled <= FirstAnswer + since["ident"] \/ Pending("mixer") \/ "mixer" \in known
        /\ "variant" \in known \/ settled <= FirstAnswer + since["ident"]
    /\ phase # "drain" /\ since["ident"] = IdentRetry => Unidentified = {}
    /\ phase # "drain" /\ "variant" \in known /\ boxIds = NoBoxes => since["boxes"] < IdentRetry
Identified ==
    /\ \A kind \in {"variant", "version"} : kind \in known \/ Comes(kind, IdentRetry - 1)
    /\ fc.inav => "mixer" \in known \/ Comes("mixer", FirstAnswer + IdentRetry - 1)
    /\ boxIds # NoBoxes \/ Comes("boxes", FirstAnswer)
    /\ Pending("status") \/ settled <= FirstAnswer + Late \/ (phase = "drain" /\ statusAge = 0)
    /\ statusAge <= Late \/ settled <= FirstAnswer + MaxLag + Late

(***************************************************************************)
(* The inductive invariant of the link.                                    *)
(***************************************************************************)
LinkInv ==
    /\ LinkTypeOK /\ LinkFlow /\ FcWitnessed /\ RepliesTrue /\ BoxesPolled /\ Believed
    /\ AltitudeAsked /\ AltitudeCurrent /\ IdentPolled /\ Identified
-----------------------------------------------------------------------------
LEMMA LinkBounds ==
    /\ IdentRetry \in Nat /\ IdentRetry >= 1 /\ BoxIdsEvery \in Nat /\ BoxIdsEvery >= 1
    /\ GpsEvery \in Nat /\ GpsEvery >= 1 /\ FixStale \in Nat /\ FixStale >= 1
    /\ StatusStale \in Nat /\ StatusStale >= 1 /\ MaxLag \in Nat /\ MaxLag >= 1
    /\ IdentRetry <= BoxIdsEvery /\ MaxLag <= StatusStale
    /\ 2 * IdentRetry + MaxLag < BoxIdsEvery + StatusStale + 2
  BY LinkAssumption

LEMMA LayoutFacts ==
    \A boxes \in Layout :
        /\ boxes # NoBoxes
        /\ \A active \in SUBSET Listed(boxes) : Decoded(Flags(boxes, active), boxes) = active
<1> SUFFICES ASSUME NEW boxes \in Layout
             PROVE  /\ boxes # NoBoxes
                                /\ \A active \in SUBSET Listed(boxes) :
                           Decoded(Flags(boxes, active), boxes) = active
  OBVIOUS
<1>1. boxes # <<>>
  BY LinkAssumption
<1>2. ASSUME NEW active \in SUBSET Listed(boxes)
      PROVE  Decoded(Flags(boxes, active), boxes) = active
  BY <1>2 DEF Listed, Flags, Decoded
<1> QED BY <1>1, <1>2 DEF NoBoxes

LEMMA DecodedType ==
    \A boxes \in Layout \cup {NoBoxes} : \A flags : Decoded(flags, boxes) \subseteq Mode
<1>1. \A boxes \in Layout : \A i \in DOMAIN boxes : boxes[i] \in Mode
  BY LinkAssumption
<1>2. DOMAIN NoBoxes = {}
  BY DEF NoBoxes
<1> QED BY <1>1, <1>2 DEF Decoded

LEMMA ArmedType == \A active, flag : ArmedIn(active, flag) \in BOOLEAN
<1> TAKE active, flag
<1>1. CASE flag = "none"
  <2>1. ArmedIn(active, flag) = ("arm" \in active)
    BY <1>1, Zenon DEF ArmedIn
  <2>2. ("arm" \in active) \in BOOLEAN
    OBVIOUS
  <2> QED BY <2>1, <2>2
<1>2. CASE flag # "none"
  <2>1. ArmedIn(active, flag) = (flag = "yes")
    BY <1>2, Zenon DEF ArmedIn
  <2>2. (flag = "yes") \in BOOLEAN
    OBVIOUS
  <2> QED BY <2>1, <2>2
<1> QED BY <1>1, <1>2
-----------------------------------------------------------------------------
(***************************************************************************)
(* An answer is read: box lists before the flags that are read through     *)
(* them.                                                                   *)
(***************************************************************************)
LEMMA HandleKeeps == ASSUME LinkInv, HandleFrame PROVE LinkInv'
<1> PICK reply \in replies :
        /\ \A other \in replies : Place[reply.kind] <= Place[other.kind]
        /\ replies' = replies \ {reply}
        /\ \/ reply.kind \in {"variant", "version", "mixer"} /\ IdentReply(reply)
           \/ reply.kind = "boxes" /\ BoxIdsReply(reply)
           \/ reply.kind = "gps" /\ RawGpsReply(reply)
           \/ reply.kind = "status" /\ StatusReply(reply)
           \/ reply.kind \in Telemetry /\ TelemetryReply(reply)
  BY DEF HandleFrame
<1>1. /\ phase = "drain" /\ sent = {}
      /\ UNCHANGED <<flight, fc, sent, phase, since, needs, usedAge, settled, steady, sinceFix, sinceArmed>>
  BY DEF HandleFrame, trueVars, LinkInv, LinkFlow
<1>2. Late' = Late /\ Late = MaxLag
  BY <1>1 DEF Late
<1>3. \A kind : kind # reply.kind /\ Pending(kind) => Pending(kind)'
  BY <1>1 DEF Pending
<1>4. \A kind : Pending(kind)' => Pending(kind)
  BY <1>1 DEF Pending
<1>5. RepliesTrue' /\ BoxesSaid(reply) /\ FixSaid(reply) /\ ModesSaid(reply)
  BY <1>1, <1>2 DEF LinkInv, RepliesTrue, BoxesSaid, FixSaid, ModesSaid
<1>6. FcWitnessed'
  BY <1>1 DEF LinkInv, FcWitnessed
<1>7. reply.kind \in Requests /\ Pending(reply.kind)
  BY DEF LinkInv, LinkTypeOK, Pending
(***************************************************************************)
(* Which reply writes what.                                                *)
(***************************************************************************)
<1> DEFINE kind == reply.kind
<1>8. /\ kind # "boxes" => boxIds' = boxIds
      /\ kind # "status" => UNCHANGED <<modes, truth, statusAge, armedFlag>> /\ loc'.armed = loc.armed
      /\ kind # "gps" => fixAge' = fixAge /\ loc'.valid = loc.valid
      /\ kind \notin Telemetry => reported' = reported
      /\ kind \notin {"variant", "version", "mixer"} => known' = known
      /\ kind \in {"variant", "version", "mixer"} => known' = known \cup {kind}
  BY DEF IdentReply, BoxIdsReply, RawGpsReply, StatusReply, TelemetryReply, Telemetry, LinkInv, LinkTypeOK
<1>9. /\ kind = "boxes" => boxIds' = reply.boxes
      /\ kind = "gps" => fixAge' = 0 /\ loc'.valid = reply.fix
      /\ kind = "altitude" => reported'["altitude"] = 0
      /\ kind # "altitude" => reported'["altitude"] = reported["altitude"]
      /\ kind = "status" =>
            /\ modes' = Decoded(reply.flags, boxIds) /\ truth' = reply.active /\ statusAge' = 0
            /\ armedFlag' = IF reply.inav THEN (IF "arm" \in reply.active THEN "yes" ELSE "no") ELSE "none"
            /\ loc'.armed = ArmedIn(modes', armedFlag')
  BY DEF IdentReply, BoxIdsReply, RawGpsReply, StatusReply, TelemetryReply, Telemetry, LinkInv, LinkTypeOK
<1>10. LinkTypeOK'
  <2>1. loc' \in [valid : BOOLEAN, armed : BOOLEAN]
    <3>1. loc' = [loc EXCEPT !.armed = ArmedIn(modes', armedFlag')] \/ loc' = loc
          \/ (loc' = [loc EXCEPT !.valid = reply.fix] /\ reply.fix \in BOOLEAN)
      BY <1>5 DEF IdentReply, BoxIdsReply, RawGpsReply, StatusReply, TelemetryReply, FixSaid
    <3>2. ArmedIn(modes', armedFlag') \in BOOLEAN
      BY ArmedType
    <3>3. loc \in [valid : BOOLEAN, armed : BOOLEAN]
      BY DEF LinkInv, LinkTypeOK
    <3> QED BY <3>1, <3>2, <3>3
  <2>2. known' \subseteq {"variant", "version", "mixer"} /\ boxIds' \in Layout \cup {NoBoxes}
    BY <1>5, <1>8, <1>9 DEF BoxesSaid, LinkInv, LinkTypeOK
  <2>3. /\ fixAge' \in 0 .. FixStale + 1 /\ statusAge' \in 0 .. StatusStale + 1
        /\ armedFlag' \in {"none", "yes", "no"}
    BY <1>8, <1>9, LinkBounds DEF LinkInv, LinkTypeOK
  <2>4. modes' \subseteq Mode /\ truth' \subseteq Mode
    BY <1>5, <1>8, <1>9, DecodedType DEF ModesSaid, LinkInv, LinkTypeOK
  <2>5. reported' \in [Telemetry -> 0 .. SteadyTime + 1]
    BY LinkBounds DEF IdentReply, BoxIdsReply, RawGpsReply, StatusReply, TelemetryReply, SteadyTime,
                      LinkInv, LinkTypeOK
  <2> QED BY <1>1, <2>1, <2>2, <2>3, <2>4, <2>5 DEF LinkInv, LinkTypeOK
<1> HIDE DEF kind
<1>11. LinkFlow'
  <2>1. Pending("status")' \/ ModesFresh' \/ "altitude" \in needs' => "variant" \in known'
    <3>1. Pending("status")' \/ "altitude" \in needs' => "variant" \in known
      BY <1>1, <1>4 DEF LinkInv, LinkFlow
    <3>2. ModesFresh' => ModesFresh \/ kind = "status"
      BY <1>8 DEF ModesFresh
    <3>3. kind = "status" \/ ModesFresh => "variant" \in known
      BY <1>7 DEF LinkInv, LinkFlow, kind
    <3> QED BY <1>8, <3>1, <3>2, <3>3
  <2> QED BY <1>1, <2>1 DEF LinkFlow
<1>12. BoxesPolled'
  <2>1. since["boxes"] < BoxIdsEvery => settled <= since["boxes"] \/ Pending("boxes")' \/ BoxesRight'
    <3>1. CASE kind = "boxes"
      BY <1>1, <1>5, <1>9, <3>1, LinkBounds DEF BoxesSaid, BoxesRight, kind
    <3>2. CASE kind # "boxes"
      BY <1>1, <1>3, <1>8, <3>2 DEF LinkInv, BoxesPolled, BoxesRight, kind
    <3> QED BY <3>1, <3>2
  <2>2. Pending("status")' =>
            settled <= BoxIdsEvery - 1 + MaxLag \/ Pending("boxes")' \/ BoxesRight'
    <3>1. CASE kind = "boxes"
      <4>1. reply.boxes = fc.boxes \/ settled <= MaxLag
        BY <1>2, <1>5, <3>1 DEF BoxesSaid, kind
      <4> QED BY <1>1, <1>9, <3>1, <4>1, LinkBounds DEF BoxesRight, LinkInv, LinkTypeOK
    <3>2. CASE kind # "boxes"
      BY <1>1, <1>3, <1>4, <1>8, <3>2 DEF LinkInv, BoxesPolled, BoxesRight, kind
    <3> QED BY <3>1, <3>2
  <2>3. modes' # truth' /\ ModesFresh' => settled <= BoxIdsEvery - 1 + MaxLag + statusAge'
    <3>1. CASE kind = "status"
      <4>1. ~Pending("boxes")
        BY <1>1, <3>1 DEF Pending, Place, kind
      <4>2. settled <= BoxIdsEvery - 1 + MaxLag \/ boxIds = fc.boxes
        BY <1>1, <1>7, <3>1, <4>1 DEF LinkInv, BoxesPolled, BoxesRight, kind
      <4>3. boxIds = fc.boxes /\ settled > MaxLag => modes' = truth'
        <5>1. fc.boxes \in Layout
          BY DEF LinkInv, LinkTypeOK
        <5>2. settled > MaxLag => /\ reply.flags = Flags(fc.boxes, reply.active)
                                  /\ reply.active \subseteq Listed(fc.boxes)
          BY <1>2, <1>5, <3>1 DEF ModesSaid, kind
        <5> QED BY <1>9, <3>1, <5>1, <5>2, LayoutFacts
      <4> QED BY <1>9, <3>1, <4>2, <4>3, LinkBounds DEF LinkInv, LinkTypeOK
    <3>2. CASE kind # "status"
      BY <1>1, <1>8, <3>2 DEF LinkInv, BoxesPolled, ModesFresh
    <3> QED BY <3>1, <3>2
  <2> QED BY <1>1, <2>1, <2>2, <2>3 DEF BoxesPolled
<1>13. Believed'
  <2>1. loc'.valid /\ fixAge' <= FixStale => sinceFix <= fixAge' + MaxLag
    <3>1. CASE kind = "gps"
      <4>1. loc'.valid = reply.fix /\ fixAge' = 0
        BY <1>9, <3>1
      <4>2. reply.fix => sinceFix <= MaxLag
        BY <1>2, <1>5, <3>1 DEF FixSaid, kind
      <4>3. loc'.valid => sinceFix <= MaxLag
        BY <4>1, <4>2, Zenon
      <4> QED BY <4>1, <4>3, LinkBounds
    <3>2. CASE kind # "gps"
      BY <1>8, <3>2 DEF LinkInv, Believed
    <3> QED BY <3>1, <3>2
  <2>2. /\ loc'.armed => ArmedIn(modes', armedFlag')
        /\ armedFlag' = "yes" => "arm" \in truth'
        /\ "arm" \in truth' /\ ModesFresh' => sinceArmed <= statusAge' + MaxLag
    <3>1. CASE kind = "status"
      BY <1>2, <1>5, <1>9, <3>1, LinkBounds DEF ModesSaid, LinkInv, LinkTypeOK, kind
    <3>2. CASE kind # "status"
      BY <1>8, <3>2 DEF LinkInv, Believed, ModesFresh
    <3> QED BY <3>1, <3>2
  <2> QED BY <1>1, <2>1, <2>2 DEF Believed
<1>14. AltitudeAsked' /\ AltitudeCurrent'
  BY <1>1, <1>2, <1>3, <1>9 DEF LinkInv, AltitudeAsked, AltitudeCurrent, kind
(***************************************************************************)
(* What is pending or known stays so; what is answered is known.           *)
(***************************************************************************)
<1>15. /\ \A k \in {"variant", "version", "mixer"} :
              /\ k \in known => k \in known'
              /\ Pending(k) => Pending(k)' \/ k \in known'
       /\ boxIds # NoBoxes => boxIds' # NoBoxes
       /\ Pending("boxes") => Pending("boxes")' \/ boxIds' # NoBoxes
       /\ Pending("status") => Pending("status")' \/ statusAge' = 0
       /\ statusAge' = statusAge \/ statusAge' = 0
  <2>1. kind = "boxes" => boxIds' # NoBoxes
    BY <1>5, <1>9, LayoutFacts DEF BoxesSaid, kind
  <2> QED BY <1>3, <1>8, <1>9, <2>1 DEF kind
<1>16. IdentPolled'
  BY <1>1, <1>15 DEF LinkInv, IdentPolled
<1>17. Identified'
  <2>1. \A bound \in Nat : \A k : Comes(k, bound) /\ Pending(k)' => Comes(k, bound)'
    BY <1>1, <1>2 DEF Comes
  <2>2. \A bound \in Nat : \A k : Comes(k, bound) /\ ~Pending(k) => Comes(k, bound)'
    BY <1>1, <1>2 DEF Comes
  <2>3. IdentRetry - 1 \in Nat /\ FirstAnswer + IdentRetry - 1 \in Nat /\ FirstAnswer \in Nat
    BY LinkBounds DEF FirstAnswer
  <2>4. \A k \in {"variant", "version"} : (k \in known \/ Comes(k, IdentRetry - 1))'
    BY <1>15, <2>1, <2>2, <2>3 DEF LinkInv, Identified
  <2>5. fc'.inav => "mixer" \in known' \/ Comes("mixer", FirstAnswer + IdentRetry - 1)'
    BY <1>1, <1>15, <2>1, <2>2, <2>3 DEF LinkInv, Identified
  <2>6. boxIds' # NoBoxes \/ Comes("boxes", FirstAnswer)'
    BY <1>15, <2>1, <2>2, <2>3 DEF LinkInv, Identified
  <2>7. Pending("status")' \/ settled' <= FirstAnswer + Late' \/ (phase' = "drain" /\ statusAge' = 0)
    BY <1>1, <1>2, <1>15 DEF LinkInv, Identified
  <2>8. statusAge' <= Late' \/ settled' <= FirstAnswer + MaxLag + Late'
    BY <1>1, <1>2, <1>15, LinkBounds DEF LinkInv, Identified
  <2> QED BY <2>4, <2>5, <2>6, <2>7, <2>8 DEF Identified, FirstAnswer
<1> QED BY <1>5, <1>6, <1>10, <1>11, <1>12, <1>13, <1>14, <1>16, <1>17 DEF LinkInv
-----------------------------------------------------------------------------
(***************************************************************************)
(* The requests an iteration makes.                                        *)
(***************************************************************************)
LEMMA RequestsMade ==
    ASSUME LinkInv, SendRequests
    PROVE  /\ \A kind \in {"variant", "version"} : IdentDue /\ kind \notin known => kind \in sent'
           /\ IdentDue /\ "variant" \in known /\ fc.inav /\ "mixer" \notin known => "mixer" \in sent'
           /\ "boxes" \in sent' <=> BoxIdsDue
           /\ "status" \in sent' <=> "variant" \in known
           /\ "altitude" \in needs => "altitude" \in sent'
           /\ since'["boxes"] = IF BoxIdsDue THEN 0 ELSE since["boxes"]
           /\ since'["ident"] = IF IdentDue THEN 0 ELSE since["ident"]
           /\ since' \in [Timed -> Nat] /\ \A kind \in Timed : since'[kind] <= since[kind]
           /\ sent' \subseteq Requests
<1>1. /\ sent' = DueNow
      /\ since' = [kind \in Timed |->
                      IF kind \in DueNow \/ (kind = "ident" /\ IdentDue) THEN 0 ELSE since[kind]]
  BY DEF SendRequests
<1>2. /\ "ident" \notin DueNow /\ ("boxes" \in DueNow <=> BoxIdsDue)
      /\ "status" \in DueNow <=> "variant" \in known
      /\ IdentDue => Unidentified \subseteq DueNow
      /\ "variant" \in known => needs \subseteq DueNow
  BY DEF DueNow, Unidentified, LinkInv, LinkTypeOK, Telemetry
<1>3. DueNow \subseteq Requests
  BY DEF DueNow, Unidentified, LinkInv, LinkTypeOK, Telemetry, Requests, Place
<1>4. "altitude" \in needs => "variant" \in known
  BY DEF LinkInv, LinkFlow
<1>5. /\ {"variant", "version"} \ known \subseteq Unidentified
      /\ "variant" \in known /\ fc.inav /\ "mixer" \notin known => "mixer" \in Unidentified
  BY DEF Unidentified, IsInav
<1>6. since \in [Timed -> Nat]
  BY DEF LinkInv, LinkTypeOK
<1>7. since' \in [Timed -> Nat] /\ \A kind \in Timed : since'[kind] <= since[kind]
  BY <1>1, <1>6
<1> QED BY <1>1, <1>2, <1>3, <1>4, <1>5, <1>7 DEF Timed

LEMMA SendKeeps == ASSUME LinkInv, SendRequests PROVE LinkInv'
<1>1. /\ phase = "drain" /\ phase' = "follow" /\ replies = {} /\ sent = {}
      /\ loc' = [valid |-> loc.valid /\ ~FixGone, armed |-> loc.armed /\ ~ArmedGone]
      /\ UNCHANGED <<flight, fc, replies, known, boxIds, fixAge, modes, armedFlag, statusAge,
                     reported, truth, needs, usedAge, settled, steady, sinceFix, sinceArmed>>
  BY DEF SendRequests, trueVars, LinkInv, LinkFlow
<1>2. Late = MaxLag /\ Late' = 0
  BY <1>1 DEF Late
<1>3. /\ \A kind : ~Pending(kind)
      /\ \A kind : Pending(kind)' <=> kind \in sent'
  BY <1>1 DEF Pending
<1>4. LinkTypeOK'
  <2>1. loc' \in [valid : BOOLEAN, armed : BOOLEAN]
    BY <1>1
  <2>2. \A kind \in Timed : since'[kind] <= Longest(kind)
    <3>1. \A kind \in Timed : since[kind] \in Nat /\ since[kind] <= Longest(kind) /\ Longest(kind) \in Nat
      BY LinkBounds DEF LinkInv, LinkTypeOK, Longest
    <3> QED BY <3>1, RequestsMade
  <2> QED BY <1>1, <2>1, <2>2, RequestsMade DEF LinkInv, LinkTypeOK
<1>5. LinkFlow'
  BY <1>1, <1>3, RequestsMade DEF LinkInv, LinkFlow, ModesFresh
<1>6. FcWitnessed' /\ RepliesTrue'
  BY <1>1 DEF LinkInv, FcWitnessed, RepliesTrue
<1>7. BoxesPolled'
  <2>1. since'["boxes"] < BoxIdsEvery => settled <= since'["boxes"] \/ Pending("boxes")' \/ BoxesRight'
    BY <1>1, <1>3, RequestsMade DEF LinkInv, BoxesPolled, BoxesRight
  <2>2. "variant" \in known => since'["boxes"] < BoxIdsEvery
    BY RequestsMade, LinkBounds DEF BoxIdsDue, LinkInv, LinkTypeOK, Timed, Longest
  <2> QED BY <1>1, <2>1, <2>2 DEF LinkInv, BoxesPolled, ModesFresh
<1>8. Believed'
  <2>1. (loc'.valid <=> loc.valid /\ ~FixGone) /\ (loc'.armed <=> loc.armed /\ ~ArmedGone)
    <3>1. loc'.valid = (loc.valid /\ ~FixGone) /\ loc'.armed = (loc.armed /\ ~ArmedGone)
      BY <1>1
    <3> QED BY <3>1, Zenon
  <2>2. ~FixGone => fixAge <= FixStale
    BY LinkBounds DEF LinkInv, LinkTypeOK, FixGone
  <2> QED BY <1>1, <2>1, <2>2 DEF LinkInv, Believed, ArmedGone, ModesFresh
<1>9. AltitudeAsked' /\ AltitudeCurrent'
  BY <1>1, <1>3, RequestsMade DEF LinkInv, AltitudeAsked, AltitudeCurrent
<1>10. /\ since["ident"] \in Nat /\ since["boxes"] \in Nat /\ settled \in Nat /\ statusAge \in Nat
       /\ since["ident"] <= IdentRetry
  BY LinkBounds DEF LinkInv, LinkTypeOK, Timed, Longest
<1>11. /\ since'["ident"] < IdentRetry => IdentDue \/ (since["ident"] < IdentRetry /\ since'["ident"] = since["ident"])
       /\ since'["ident"] = IdentRetry => Unidentified = {} /\ Unidentified' = {}
  BY <1>1, <1>10, RequestsMade, LinkBounds DEF IdentDue, Unidentified, IsInav
(***************************************************************************)
(* What was not known when the replies were read is asked for, or was      *)
(* asked for less than the retry time ago.                                 *)
(***************************************************************************)
<1>12. IdentPolled'
  <2>1. ASSUME since'["ident"] < IdentRetry, NEW kind \in {"variant", "version"}
        PROVE  settled <= since'["ident"] \/ Pending(kind)' \/ kind \in known
    BY <1>3, <1>11, <2>1, RequestsMade DEF LinkInv, IdentPolled
  <2>2. ASSUME since'["ident"] < IdentRetry, "variant" \notin known
        PROVE  settled <= FirstAnswer + since'["ident"]
    <3>1. settled <= FirstAnswer
      BY <1>2, <1>3, <2>2 DEF LinkInv, Identified, Comes, FirstAnswer
    <3> QED BY <1>10, <3>1, RequestsMade, LinkBounds DEF FirstAnswer
  <2>3. ASSUME since'["ident"] < IdentRetry, fc.inav
        PROVE  settled <= FirstAnswer + since'["ident"] \/ Pending("mixer")' \/ "mixer" \in known
    BY <1>3, <1>11, <2>2, <2>3, RequestsMade DEF LinkInv, IdentPolled
  <2>4. ASSUME "variant" \in known, boxIds = NoBoxes PROVE since'["boxes"] < IdentRetry
    BY <1>10, <2>4, RequestsMade, LinkBounds DEF BoxIdsDue
  <2> QED BY <1>1, <1>11, <2>1, <2>2, <2>3, <2>4 DEF IdentPolled
<1>13. Identified'
  <2>1. since'["ident"] \in Nat /\ since'["ident"] <= IdentRetry /\ settled' = settled /\ known' = known
    <3>1. since'["ident"] \in Nat /\ since'["ident"] <= since["ident"]
      BY RequestsMade DEF Timed
    <3> QED BY <1>1, <1>10, <3>1, LinkBounds
  <2>2. \A bound \in Nat : \A kind : Comes(kind, bound) =>
            settled <= bound + MaxLag /\ (kind \in sent' \/ settled <= bound => Comes(kind, bound)')
    BY <1>2, <1>3, <2>1, <1>10, LinkBounds DEF Comes
  <2>3. IdentRetry - 1 \in Nat /\ FirstAnswer + IdentRetry - 1 \in Nat /\ FirstAnswer \in Nat
        /\ FirstAnswer = IdentRetry - 1 + MaxLag
    BY LinkBounds DEF FirstAnswer
  <2>10. Unidentified # {} => since'["ident"] < IdentRetry
    BY <1>11, <2>1, LinkBounds
  <2>4. ASSUME NEW kind \in {"variant", "version"}, kind \notin known
        PROVE  Comes(kind, IdentRetry - 1)' /\ settled <= FirstAnswer
    <3>1. since'["ident"] < IdentRetry
      BY <2>4, <2>10 DEF Unidentified
    <3>2. kind \in sent' \/ settled <= IdentRetry - 1
      BY <1>1, <1>3, <1>10, <2>1, <2>4, <3>1, <1>12, LinkBounds DEF IdentPolled
    <3> QED BY <2>2, <2>3, <2>4, <3>2 DEF LinkInv, Identified
  <2>5. ASSUME fc.inav, "mixer" \notin known
        PROVE  Comes("mixer", FirstAnswer + IdentRetry - 1)'
    <3>1. since'["ident"] < IdentRetry
      <4>1. Unidentified # {}
        BY <2>5 DEF Unidentified, IsInav
      <4> QED BY <2>10, <4>1
    <3>2. "mixer" \in sent' \/ settled <= FirstAnswer + IdentRetry - 1
      BY <1>1, <1>3, <1>10, <2>1, <2>3, <2>5, <3>1, <1>12, LinkBounds DEF IdentPolled
    <3> QED BY <2>2, <2>3, <2>5, <3>2 DEF LinkInv, Identified
  <2>6. ASSUME boxIds = NoBoxes
        PROVE  Comes("boxes", FirstAnswer)'
    <3>1. "boxes" \in sent' \/ settled <= FirstAnswer
      <4>1. CASE "variant" \in known
        <5>1. since'["boxes"] < IdentRetry /\ since'["boxes"] \in Nat
          BY <1>1, <1>12, <2>6, <4>1, RequestsMade DEF IdentPolled, Timed
        <5>2. fc.boxes # NoBoxes
          BY LayoutFacts DEF LinkInv, LinkTypeOK
        <5> QED BY <1>1, <1>3, <1>7, <1>10, <2>3, <2>6, <5>1, <5>2, LinkBounds DEF BoxesPolled, BoxesRight
      <4> QED BY <2>4, <4>1
    <3> QED BY <2>2, <2>3, <2>6, <3>1 DEF LinkInv, Identified
  <2>7. "status" \in sent' \/ settled <= FirstAnswer
    BY <2>4, RequestsMade
  <2>8. statusAge = 0 \/ settled <= FirstAnswer + MaxLag
    BY <1>1, <1>2, <1>3 DEF LinkInv, Identified
  <2>9. /\ Pending("status")' \/ settled' <= FirstAnswer + Late' \/ (phase' = "drain" /\ statusAge' = 0)
        /\ statusAge' <= Late' \/ settled' <= FirstAnswer + MaxLag + Late'
    BY <1>1, <1>2, <1>3, <1>10, <2>3, <2>7, <2>8, LinkBounds
  <2> QED BY <1>1, <2>4, <2>5, <2>6, <2>9 DEF Identified, FirstAnswer
<1> QED BY <1>4, <1>5, <1>6, <1>7, <1>8, <1>9, <1>12, <1>13 DEF LinkInv
-----------------------------------------------------------------------------
(***************************************************************************)
(* A cycle of the follow controller.                                       *)
(***************************************************************************)
LEMMA FollowKeeps == ASSUME LinkInv, FollowCycle \/ NoFollowCycle PROVE LinkInv'
<1>1. /\ phase = "follow" /\ phase' = "idle" /\ replies = {}
      /\ UNCHANGED <<flight, fc, sent, replies, known, boxIds, loc, fixAge, modes, armedFlag, statusAge,
                     reported, truth, since, settled, sinceFix, sinceArmed>>
  BY DEF FollowCycle, NoFollowCycle, fcVars, cacheVars, trueVars, LinkInv, LinkFlow
<1>2. Late = 0 /\ Late' = 0
  BY <1>1 DEF Late
<1>3. \A kind : Pending(kind)' <=> Pending(kind)
  BY <1>1 DEF Pending
<1>4. /\ needs' \subseteq Telemetry /\ steady' \in {0, steady}
      /\ usedAge' \in {NoWaypoint, reported["altitude"]}
      /\ "altitude" \in needs' => "variant" \in known
      /\ "altitude" \in needs' => "altitude" \in needs \/ steady' = 0
      /\ usedAge' # NoWaypoint => "altitude" \in needs \/ steady' = 0
  <2>1. CASE FollowCycle
    BY <2>1 DEF FollowCycle, GcsNavActive, Telemetry, LinkInv, LinkFlow
  <2>2. CASE NoFollowCycle
    BY <2>2 DEF NoFollowCycle, LinkInv, LinkTypeOK, LinkFlow, trueVars
  <2> QED BY <2>1, <2>2
<1>5. LinkTypeOK'
  <2>1. reported["altitude"] \in 0 .. SteadyTime + 1 /\ steady' \in 0 .. SteadyTime
    BY <1>4, LinkBounds DEF LinkInv, LinkTypeOK, Telemetry, SteadyTime
  <2> QED BY <1>1, <1>4, <2>1 DEF LinkInv, LinkTypeOK
<1>6. LinkFlow'
  BY <1>1, <1>3, <1>4 DEF LinkInv, LinkFlow, ModesFresh
<1>7. FcWitnessed' /\ RepliesTrue' /\ BoxesPolled' /\ Believed'
  BY <1>1, <1>3 DEF LinkInv, FcWitnessed, RepliesTrue, BoxesPolled, BoxesRight, Believed, ModesFresh
<1>8. AltitudeAsked'
  BY <1>1, <1>3, <1>4 DEF LinkInv, AltitudeAsked
<1>9. AltitudeCurrent'
  <2> SUFFICES ASSUME usedAge' # NoWaypoint, steady' = SteadyTime, settled >= SteadyTime
               PROVE  usedAge' = 0
    BY <1>1 DEF AltitudeCurrent
  <2>1. steady' > MaxLag /\ settled > MaxLag /\ settled \in Nat
    BY LinkBounds DEF SteadyTime, LinkInv, LinkTypeOK
  <2>2. "altitude" \in needs /\ steady = steady'
    BY <1>4, <2>1, LinkBounds
  <2>3. reported["altitude"] = 0
    <3>1. ~(settled <= MaxLag) /\ ~(steady <= MaxLag)
      BY <2>1, <2>2, LinkBounds DEF LinkInv, LinkTypeOK, SteadyTime
    <3> QED BY <1>1, <2>2, <3>1 DEF LinkInv, AltitudeAsked
  <2> QED BY <1>4, <2>3
<1>10. IdentPolled' /\ Identified'
  BY <1>1, <1>2, <1>3 DEF LinkInv, IdentPolled, Identified, Comes, Unidentified, IsInav
<1> QED BY <1>5, <1>6, <1>7, <1>8, <1>9, <1>10 DEF LinkInv
-----------------------------------------------------------------------------
(***************************************************************************)
(* What the flight controller says is what is so when it says it.          *)
(***************************************************************************)
LEMMA ReplyFacts ==
    ASSUME NEW kind \in Requests
    PROVE  /\ Reply(kind).kind = kind
           /\ kind = "boxes" => Reply(kind).boxes = fc.boxes
           /\ kind = "gps" => Reply(kind).fix = fc.fix
           /\ kind = "status" => /\ Reply(kind).inav = fc.inav /\ Reply(kind).active = fc.active
                                 /\ Reply(kind).flags = Flags(fc.boxes, fc.active)
  BY DEF Reply, Flags, Requests, Place

LEMMA AnswerKeeps == ASSUME LinkInv, NEW kind \in Requests, Answer(kind) PROVE LinkInv'
<1> DEFINE reply == Reply(kind)
<1>1. /\ phase = "idle" /\ sent' = sent \ {kind} /\ replies' = replies \cup {reply} /\ kind \in sent
      /\ UNCHANGED <<flight, fc, phase, known, boxIds, loc, fixAge, modes, armedFlag, statusAge,
                     reported, truth, since, needs, usedAge, settled, steady, sinceFix, sinceArmed>>
  BY DEF Answer, IsNext, cacheVars, trueVars
<1>2. reply.kind = kind
  BY ReplyFacts
<1>3. Late = 0 /\ Late' = 0
  BY <1>1 DEF Late
<1>4. BoxesSaid(reply) /\ FixSaid(reply) /\ ModesSaid(reply)
  <2>1. BoxesSaid(reply)
    BY ReplyFacts DEF BoxesSaid, LinkInv, LinkTypeOK
  <2>2. FixSaid(reply)
    BY <1>3, ReplyFacts DEF FixSaid, LinkInv, LinkTypeOK, FcWitnessed
  <2>3. ModesSaid(reply)
    BY <1>3, ReplyFacts DEF ModesSaid, LinkInv, LinkTypeOK, FcWitnessed
  <2> QED BY <2>1, <2>2, <2>3
<1> HIDE DEF reply
<1>5. \A k : Pending(k)' <=> Pending(k)
  BY <1>1, <1>2 DEF Pending
<1>6. LinkTypeOK'
  BY <1>1, <1>2 DEF LinkInv, LinkTypeOK
<1>7. LinkFlow' /\ FcWitnessed' /\ BoxesPolled' /\ Believed'
  BY <1>1, <1>5 DEF LinkInv, LinkFlow, FcWitnessed, BoxesPolled, BoxesRight, Believed, ModesFresh
<1>8. RepliesTrue'
  BY <1>1, <1>3, <1>4 DEF LinkInv, RepliesTrue, BoxesSaid, FixSaid, ModesSaid
<1>9. AltitudeAsked' /\ AltitudeCurrent'
  BY <1>1, <1>5 DEF LinkInv, AltitudeAsked, AltitudeCurrent
<1>10. IdentPolled' /\ Identified'
  BY <1>1, <1>3, <1>5 DEF LinkInv, IdentPolled, Identified, Comes, Unidentified, IsInav
<1> QED BY <1>6, <1>7, <1>8, <1>9, <1>10 DEF LinkInv

(***************************************************************************)
(* An answer lost, or a restart: the clock of what must come right starts. *)
(***************************************************************************)
Unsettled ==
    /\ phase = "idle" /\ phase' = "idle" /\ settled' = 0
    /\ replies' = replies /\ sent' \subseteq sent
    /\ UNCHANGED <<flight, known, boxIds, loc, fixAge, modes, armedFlag, statusAge, reported, truth,
                   since, needs, usedAge, steady, sinceFix, sinceArmed>>
    /\ fc' \in [inav : {fc.inav}, boxes : Layout, active : SUBSET Mode, fix : BOOLEAN]

LEMMA UnsettledKeeps == ASSUME LinkInv, Unsettled, FcWitnessed' PROVE LinkInv'
<1>1. Late = 0 /\ Late' = 0 /\ fc'.inav = fc.inav
  BY DEF Late, Unsettled
<1>2. \A kind : Pending(kind)' => Pending(kind)
  BY DEF Pending, Unsettled
<1>3. LinkTypeOK'
  <2>1. fc' \in [inav : BOOLEAN, boxes : Layout, active : SUBSET Mode, fix : BOOLEAN]
    BY DEF LinkInv, LinkTypeOK, Unsettled
  <2>2. settled' \in 0 .. LinkSettles
    BY LinkBounds DEF LinkSettles, Unsettled
  <2> QED BY <2>1, <2>2 DEF LinkInv, LinkTypeOK, Unsettled
<1>4. LinkFlow'
  BY <1>2 DEF LinkInv, LinkFlow, ModesFresh, Unsettled
<1>5. RepliesTrue'
  <2>1. since["boxes"] \in Nat
    BY DEF LinkInv, LinkTypeOK, Timed
  <2> QED BY <1>1, <2>1 DEF LinkInv, RepliesTrue, BoxesSaid, FixSaid, ModesSaid, Unsettled
<1>6. since["boxes"] \in Nat /\ since["ident"] \in Nat /\ statusAge \in Nat
  BY LinkBounds DEF LinkInv, LinkTypeOK, Timed
<1>7. BoxesPolled'
  BY <1>6, LinkBounds DEF LinkInv, BoxesPolled, ModesFresh, Unsettled
<1>8. Believed'
  BY DEF LinkInv, Believed, ModesFresh, Unsettled
<1>9. AltitudeAsked' /\ AltitudeCurrent'
  BY LinkBounds DEF LinkInv, AltitudeAsked, AltitudeCurrent, SteadyTime, Unsettled
<1>10. IdentPolled'
  BY <1>1, <1>6, LinkBounds DEF LinkInv, IdentPolled, Unidentified, IsInav, FirstAnswer, Unsettled
<1>11. Identified'
  <2>1. FirstAnswer \in Nat /\ IdentRetry - 1 \in Nat /\ FirstAnswer + IdentRetry - 1 \in Nat
    BY LinkBounds DEF FirstAnswer
  <2>2. \A bound \in Nat : \A kind : Comes(kind, bound)'
    BY <1>1, LinkBounds DEF Comes, Unsettled
  <2>3. settled' = 0 /\ Late' = 0 /\ MaxLag \in Nat
    BY <1>1, LinkBounds DEF Unsettled
  <2>4. settled' <= FirstAnswer + Late' /\ settled' <= FirstAnswer + MaxLag + Late'
    BY <2>1, <2>3
  <2> QED BY <2>1, <2>2, <2>4 DEF Identified, FirstAnswer
<1> QED BY <1>3, <1>4, <1>5, <1>7, <1>8, <1>9, <1>10, <1>11 DEF LinkInv

LEMMA LoseKeeps == ASSUME LinkInv, NEW kind \in Requests, Lose(kind) PROVE LinkInv'
<1>1. Unsettled
  BY DEF Lose, Unsettled, cacheVars, LinkInv, LinkTypeOK
<1>2. FcWitnessed'
  BY DEF Lose, LinkInv, FcWitnessed
<1> QED BY <1>1, <1>2, UnsettledKeeps

LEMMA RebootKeeps == ASSUME LinkInv, NEW boxes \in Layout, FcReboot(boxes) PROVE LinkInv'
<1>1. fc' = [inav |-> fc.inav, boxes |-> boxes, active |-> {}, fix |-> FALSE]
  BY DEF FcReboot, LinkInv, LinkTypeOK
<1>2. Unsettled
  BY <1>1 DEF FcReboot, Unsettled, cacheVars
<1>3. FcWitnessed'
  BY <1>1 DEF FcWitnessed
<1> QED BY <1>2, <1>3, UnsettledKeeps

(***************************************************************************)
(* The flight controller changes modes, or gains or loses its fix.         *)
(***************************************************************************)
LEMMA ChangeKeeps ==
    ASSUME LinkInv, NEW active \in SUBSET Mode, NEW fix \in BOOLEAN, ChangeModes(active, fix)
    PROVE  LinkInv'
<1>1. /\ phase = "idle"
      /\ UNCHANGED <<flight, sent, replies, phase, known, boxIds, loc, fixAge, modes, armedFlag,
                     statusAge, reported, truth, since, needs, usedAge, settled, steady>>
  BY DEF ChangeModes, cacheVars
<1>2. fc' = [inav |-> fc.inav, boxes |-> fc.boxes, active |-> active, fix |-> fix]
  BY DEF ChangeModes, LinkInv, LinkTypeOK
<1>3. FcWitnessed' /\ sinceFix' \in {0, sinceFix} /\ sinceArmed' \in {0, sinceArmed}
  BY <1>2 DEF ChangeModes, Witnessed, FcWitnessed, Listed
<1>4. /\ sinceFix' \in 0 .. Horizon /\ sinceFix' <= sinceFix
      /\ sinceArmed' \in 0 .. Horizon /\ sinceArmed' <= sinceArmed
  BY <1>3, LinkBounds DEF LinkInv, LinkTypeOK, Horizon
<1>5. Late = 0 /\ Late' = 0
  BY <1>1 DEF Late
<1>6. \A k : Pending(k)' <=> Pending(k)
  BY <1>1 DEF Pending
<1>7. LinkTypeOK'
  BY <1>1, <1>2, <1>4 DEF LinkInv, LinkTypeOK
<1>8. LinkFlow' /\ BoxesPolled'
  BY <1>1, <1>2, <1>6 DEF LinkInv, LinkFlow, BoxesPolled, BoxesRight, ModesFresh
<1>9. RepliesTrue'
  BY <1>1, <1>2, <1>3, <1>5 DEF LinkInv, RepliesTrue, BoxesSaid, FixSaid, ModesSaid
<1>10. Believed'
  <2>1. fixAge \in Nat /\ statusAge \in Nat /\ sinceFix \in Nat /\ sinceArmed \in Nat
    BY LinkBounds DEF LinkInv, LinkTypeOK, Horizon
  <2> QED BY <1>1, <1>3, <2>1, LinkBounds DEF LinkInv, Believed, ModesFresh
<1>11. AltitudeAsked' /\ AltitudeCurrent'
  BY <1>1, <1>6 DEF LinkInv, AltitudeAsked, AltitudeCurrent
<1>12. IdentPolled' /\ Identified'
  BY <1>1, <1>2, <1>5, <1>6 DEF LinkInv, IdentPolled, Identified, Comes, Unidentified, IsInav
<1> QED BY <1>3, <1>7, <1>8, <1>9, <1>10, <1>11, <1>12 DEF LinkInv
-----------------------------------------------------------------------------
(***************************************************************************)
(* Time passes: every answer of the iteration is in, so what is asked for  *)
(* waits in the replies.                                                   *)
(***************************************************************************)
LEMMA UptoFacts ==
    ASSUME NEW n \in Nat, NEW d \in 1 .. MaxLag, NEW bound \in Nat
    PROVE  /\ LinkUpto(n + d, bound) \in 0 .. bound
           /\ LinkUpto(n + d, bound) <= n + d
           /\ LinkUpto(n + d, bound) < bound => LinkUpto(n + d, bound) = n + d
  BY LinkBounds DEF LinkUpto

LEMMA LinkTickKeeps == ASSUME LinkInv, NEW d \in 1 .. MaxLag, LinkTick(d) PROVE LinkInv'
<1>1. /\ phase = "idle" /\ phase' = "drain" /\ sent = {} /\ usedAge' = NoWaypoint
      /\ UNCHANGED <<flight, fc, sent, replies, known, boxIds, loc, modes, armedFlag, truth, needs>>
  BY DEF LinkTick, fcVars
<1>2. d \in Nat /\ 1 <= d /\ d <= MaxLag
  BY LinkBounds
<1>3. Late = 0 /\ Late' = MaxLag
  BY <1>1 DEF Late
<1>4. \A k : Pending(k)' <=> Pending(k)
  BY <1>1 DEF Pending
<1>5. /\ settled \in Nat /\ steady \in Nat /\ sinceFix \in Nat /\ sinceArmed \in Nat
      /\ fixAge \in Nat /\ statusAge \in Nat
      /\ since["boxes"] \in Nat /\ since["ident"] \in Nat
      /\ since["boxes"] <= BoxIdsEvery /\ since["ident"] <= IdentRetry
  BY LinkBounds DEF LinkInv, LinkTypeOK, Timed, Longest
<1>6. /\ LinkSettles \in Nat /\ Horizon \in Nat /\ SteadyTime \in Nat
      /\ FixStale + 1 \in Nat /\ StatusStale + 1 \in Nat /\ SteadyTime + 1 \in Nat
  BY LinkBounds DEF LinkSettles, Horizon, SteadyTime
<1>7. settled' \in 0 .. LinkSettles /\ settled' <= settled + d
  BY <1>5, <1>6, UptoFacts DEF LinkTick
<1>8. steady' \in 0 .. SteadyTime /\ steady' <= steady + d
  BY <1>5, <1>6, UptoFacts DEF LinkTick
<1>9. /\ sinceFix' \in 0 .. Horizon /\ sinceFix' <= sinceFix + d /\ (fc.fix => sinceFix' = 0)
      /\ sinceArmed' \in 0 .. Horizon /\ sinceArmed' <= sinceArmed + d
      /\ "arm" \in fc.active => sinceArmed' = 0
  <2>1. /\ LinkUpto(sinceFix + d, Horizon) \in 0 .. Horizon /\ LinkUpto(sinceFix + d, Horizon) <= sinceFix + d
        /\ LinkUpto(sinceArmed + d, Horizon) \in 0 .. Horizon
        /\ LinkUpto(sinceArmed + d, Horizon) <= sinceArmed + d
    BY <1>5, <1>6, UptoFacts
  <2>2. /\ sinceFix' = IF fc.fix THEN 0 ELSE LinkUpto(sinceFix + d, Horizon)
        /\ sinceArmed' = IF "arm" \in fc.active THEN 0 ELSE LinkUpto(sinceArmed + d, Horizon)
    BY DEF LinkTick
  <2>3. 0 \in 0 .. Horizon /\ 0 <= sinceFix + d /\ 0 <= sinceArmed + d
    BY <1>2, <1>5, <1>6
  <2> HIDE DEF Horizon
  <2> QED BY <2>1, <2>2, <2>3
<1>10. /\ fixAge' \in 0 .. FixStale + 1 /\ (fixAge' <= FixStale => fixAge' = fixAge + d)
       /\ statusAge' \in 0 .. StatusStale + 1 /\ statusAge' <= statusAge + d
       /\ statusAge' <= StatusStale => statusAge' = statusAge + d
  <2>1. /\ fixAge' = LinkUpto(fixAge + d, FixStale + 1) /\ statusAge' = LinkUpto(statusAge + d, StatusStale + 1)
    BY DEF LinkTick
  <2>2. /\ fixAge' \in 0 .. FixStale + 1 /\ (fixAge' < FixStale + 1 => fixAge' = fixAge + d)
        /\ statusAge' \in 0 .. StatusStale + 1 /\ statusAge' <= statusAge + d
        /\ statusAge' < StatusStale + 1 => statusAge' = statusAge + d
    BY <1>5, <1>6, <2>1, UptoFacts
  <2> QED BY <2>2, LinkBounds
<1>11. /\ since' \in [Timed -> Nat] /\ \A kind \in Timed : since'[kind] <= Longest(kind)
       /\ since'["boxes"] < BoxIdsEvery => since'["boxes"] = since["boxes"] + d
       /\ since'["ident"] < IdentRetry => since'["ident"] = since["ident"] + d
  <2>1. \A kind \in Timed : since[kind] \in Nat /\ Longest(kind) \in Nat
    BY LinkBounds DEF LinkInv, LinkTypeOK, Longest
  <2>2. since' = [kind \in Timed |-> LinkUpto(since[kind] + d, Longest(kind))]
    BY DEF LinkTick
  <2>3. \A kind \in Timed : /\ since'[kind] \in 0 .. Longest(kind)
                            /\ since'[kind] < Longest(kind) => since'[kind] = since[kind] + d
    BY <2>1, <2>2, UptoFacts
  <2>4. \A kind \in Timed : since'[kind] \in Nat /\ since'[kind] <= Longest(kind)
    BY <2>1, <2>3
  <2>5. Longest("boxes") = BoxIdsEvery /\ Longest("ident") = IdentRetry
    BY DEF Longest
  <2> QED BY <2>2, <2>3, <2>4, <2>5 DEF Timed
<1>12. reported' \in [Telemetry -> 0 .. SteadyTime + 1]
  <2>1. \A t \in Telemetry : LinkUpto(reported[t] + d, SteadyTime + 1) \in 0 .. SteadyTime + 1
    BY <1>6, UptoFacts DEF LinkInv, LinkTypeOK
  <2> QED BY <2>1 DEF LinkTick
<1> HIDE DEF LinkSettles, Horizon, SteadyTime
<1>13. LinkTypeOK'
  BY <1>1, <1>7, <1>8, <1>9, <1>10, <1>11, <1>12 DEF LinkInv, LinkTypeOK
<1>14. LinkFlow'
  <2>1. ModesFresh' => ModesFresh
    BY <1>2, <1>5, <1>10, LinkBounds DEF ModesFresh
  <2> QED BY <1>1, <1>4, <2>1 DEF LinkInv, LinkFlow
<1>15. FcWitnessed'
  BY <1>1, <1>9 DEF LinkInv, FcWitnessed
<1>16. RepliesTrue'
  <2> SUFFICES ASSUME NEW reply \in replies
               PROVE  BoxesSaid(reply)' /\ FixSaid(reply)' /\ ModesSaid(reply)'
    BY <1>1 DEF RepliesTrue
  <2>1. BoxesSaid(reply) /\ FixSaid(reply) /\ ModesSaid(reply)
    BY DEF LinkInv, RepliesTrue
  <2>2. BoxesSaid(reply)'
    <3>1. settled <= 0 => settled' <= MaxLag
      BY <1>2, <1>5, <1>7, LinkBounds
    <3>2. settled <= 0 => since'["boxes"] = BoxIdsEvery \/ settled' <= since'["boxes"]
      <4>1. since'["boxes"] \in Nat /\ since'["boxes"] <= BoxIdsEvery
        BY <1>11 DEF Timed, Longest
      <4> QED BY <1>2, <1>5, <1>7, <1>11, <4>1, LinkBounds
    <3> QED BY <1>1, <1>3, <2>1, <3>1, <3>2 DEF BoxesSaid
  <2>3. FixSaid(reply)'
    BY <1>1, <1>2, <1>3, <1>5, <1>9, <2>1, LinkBounds DEF FixSaid
  <2>4. ModesSaid(reply)'
    <3>1. /\ settled' > MaxLag => settled > 0
          /\ sinceArmed <= 0 => sinceArmed' <= MaxLag
      BY <1>2, <1>5, <1>6, <1>7, <1>9, LinkBounds
    <3> QED BY <1>1, <1>3, <2>1, <3>1 DEF ModesSaid
  <2> QED BY <2>2, <2>3, <2>4
<1>17. BoxesPolled'
  <2>1. since'["boxes"] < BoxIdsEvery =>
            settled' <= since'["boxes"] \/ Pending("boxes")' \/ BoxesRight'
    BY <1>1, <1>2, <1>4, <1>5, <1>7, <1>11, LinkBounds DEF LinkInv, BoxesPolled, BoxesRight
  <2>2. Pending("status") => settled' <= BoxIdsEvery - 1 + MaxLag \/ Pending("boxes")' \/ BoxesRight'
    <3> SUFFICES ASSUME Pending("status")
                 PROVE  settled' <= BoxIdsEvery - 1 + MaxLag \/ Pending("boxes")' \/ BoxesRight'
      OBVIOUS
    <3>1. since["boxes"] < BoxIdsEvery
      BY <1>1 DEF LinkInv, LinkFlow, BoxesPolled
    <3>2. settled <= since["boxes"] \/ Pending("boxes") \/ BoxesRight
      BY <3>1 DEF LinkInv, BoxesPolled
    <3> QED BY <1>1, <1>2, <1>4, <1>5, <1>7, <3>1, <3>2, LinkBounds DEF BoxesRight
  <2>3. modes # truth /\ statusAge' <= StatusStale => settled' <= BoxIdsEvery - 1 + MaxLag + statusAge'
    BY <1>2, <1>5, <1>7, <1>10, LinkBounds DEF LinkInv, BoxesPolled, ModesFresh
  <2> QED BY <1>1, <1>4, <2>1, <2>2, <2>3 DEF BoxesPolled, ModesFresh
<1>18. Believed'
  <2>1. loc.valid /\ fixAge' <= FixStale => sinceFix' <= fixAge' + MaxLag
    BY <1>2, <1>5, <1>9, <1>10, LinkBounds DEF LinkInv, Believed
  <2>2. "arm" \in truth /\ statusAge' <= StatusStale => sinceArmed' <= statusAge' + MaxLag
    BY <1>2, <1>5, <1>9, <1>10, LinkBounds DEF LinkInv, Believed, ModesFresh
  <2> QED BY <1>1, <2>1, <2>2 DEF LinkInv, Believed, ModesFresh
<1>19. AltitudeAsked' /\ AltitudeCurrent'
  <2>1. (settled = 0 => settled' <= MaxLag) /\ (steady = 0 => steady' <= MaxLag)
    BY <1>2, <1>5, <1>6, <1>7, <1>8, LinkBounds
  <2> QED BY <1>1, <1>4, <2>1 DEF LinkInv, AltitudeAsked, AltitudeCurrent
<1>20. FirstAnswer \in Nat /\ IdentRetry - 1 \in Nat /\ FirstAnswer + IdentRetry - 1 \in Nat
       /\ FirstAnswer = IdentRetry - 1 + MaxLag
  BY LinkBounds DEF FirstAnswer
<1>21. IdentPolled'
  <2>1. ASSUME since'["ident"] < IdentRetry
        PROVE  /\ settled <= since["ident"] => settled' <= since'["ident"]
               /\ settled <= FirstAnswer => settled' <= FirstAnswer + since'["ident"]
               /\ settled <= FirstAnswer + since["ident"] => settled' <= FirstAnswer + since'["ident"]
               /\ since["ident"] < IdentRetry
    BY <1>2, <1>5, <1>7, <1>11, <1>20, <2>1, LinkBounds
  <2> QED BY <1>1, <1>4, <2>1 DEF LinkInv, IdentPolled
<1>22. Identified'
  <2>1. \A bound \in Nat : \A kind : Comes(kind, bound) => Comes(kind, bound)'
    BY <1>2, <1>3, <1>4, <1>5, <1>7, LinkBounds DEF Comes
  <2>2. /\ Pending("status") \/ settled' <= FirstAnswer + MaxLag
        /\ statusAge' <= MaxLag \/ settled' <= FirstAnswer + MaxLag + MaxLag
    <3>1. /\ Pending("status") \/ settled <= FirstAnswer
          /\ statusAge <= 0 \/ settled <= FirstAnswer + MaxLag
      BY <1>1, <1>3, <1>20, LinkBounds DEF LinkInv, Identified
    <3> QED BY <1>2, <1>5, <1>7, <1>10, <1>20, <3>1, LinkBounds
  <2>3. /\ \A kind \in {"variant", "version"} : (kind \in known \/ Comes(kind, IdentRetry - 1))'
        /\ fc'.inav => "mixer" \in known' \/ Comes("mixer", FirstAnswer + IdentRetry - 1)'
        /\ boxIds' # NoBoxes \/ Comes("boxes", FirstAnswer)'
    BY <1>1, <1>20, <2>1 DEF LinkInv, Identified
  <2> QED BY <1>1, <1>3, <1>4, <2>2, <2>3 DEF Identified, FirstAnswer
<1> QED BY <1>13, <1>14, <1>15, <1>16, <1>17, <1>18, <1>19, <1>21, <1>22 DEF LinkInv
-----------------------------------------------------------------------------
LEMMA InitLinkInv == LinkInit => LinkInv
<1> SUFFICES ASSUME LinkInit PROVE LinkInv
  OBVIOUS
<1>1. /\ flight \in Flight /\ phase = "drain" /\ sent = {} /\ replies = {} /\ known = {}
      /\ boxIds = NoBoxes /\ since = NeverAsked /\ loc = NoLocation
      /\ fixAge = FixStale + 1 /\ statusAge = StatusStale + 1
      /\ modes = {} /\ armedFlag = "none" /\ truth = {} /\ needs = {} /\ reported = NeverHeard
      /\ usedAge = NoWaypoint /\ settled = 0 /\ steady = 0
      /\ sinceFix = Horizon /\ sinceArmed = Horizon
  BY DEF LinkInit
<1>2. fc.inav \in BOOLEAN /\ fc.boxes \in Layout /\ fc.active = {} /\ fc.fix = FALSE
      /\ fc \in [inav : BOOLEAN, boxes : Layout, active : SUBSET Mode, fix : BOOLEAN]
  <2>1. flight.inav \in BOOLEAN /\ flight.boxes \subseteq Layout
    BY <1>1, LinkAssumption
  <2> QED BY <2>1 DEF LinkInit
<1>3. /\ LinkSettles \in Nat /\ Horizon \in Nat /\ SteadyTime \in Nat
  BY LinkBounds DEF LinkSettles, Horizon, SteadyTime
<1>4. LinkTypeOK
  <2>1. since \in [Timed -> Nat] /\ \A kind \in Timed : since[kind] <= Longest(kind)
    BY <1>1, LinkBounds DEF NeverAsked, Longest
  <2>2. reported \in [Telemetry -> 0 .. SteadyTime + 1]
    BY <1>1, <1>3 DEF NeverHeard
  <2> QED BY <1>1, <1>2, <1>3, <2>1, <2>2, LinkBounds DEF LinkTypeOK, NoLocation
<1>5. since["ident"] = 0 /\ since["boxes"] = 0
  BY <1>1 DEF NeverAsked, Timed
<1>6. ~ModesFresh /\ \A kind : ~Pending(kind)
  BY <1>1, LinkBounds DEF ModesFresh, Pending
<1>7. LinkFlow /\ FcWitnessed /\ RepliesTrue
  BY <1>1, <1>2, <1>6 DEF LinkFlow, FcWitnessed, RepliesTrue
<1>8. BoxesPolled /\ Believed
  BY <1>1, <1>5, <1>6 DEF BoxesPolled, Believed, NoLocation
<1>9. AltitudeAsked /\ AltitudeCurrent
  BY <1>1 DEF AltitudeAsked, AltitudeCurrent
<1>10. IdentPolled /\ Identified
  BY <1>1, <1>5, <1>6, LinkBounds DEF IdentPolled, Identified, Comes, Late, FirstAnswer
<1> QED BY <1>4, <1>7, <1>8, <1>9, <1>10 DEF LinkInv

LEMMA NextLinkInv == LinkInv /\ [LinkStep]_linkVars => LinkInv'
<1> SUFFICES ASSUME LinkInv, [LinkStep]_linkVars PROVE LinkInv'
  OBVIOUS
<1>1. CASE UNCHANGED linkVars
  <2>1. UNCHANGED <<flight, fc, sent, replies, phase, known, boxIds, since, loc, fixAge, modes, armedFlag,
                    statusAge, needs, reported, usedAge, truth, settled, steady, sinceFix, sinceArmed>>
    BY <1>1 DEF linkVars, fcVars, cacheVars, trueVars
  <2>2. (\A kind : Pending(kind)' <=> Pending(kind)) /\ Late' = Late
    BY <2>1 DEF Pending, Late
  <2> QED BY <2>1, <2>2 DEF LinkInv, LinkTypeOK, LinkFlow, FcWitnessed, RepliesTrue, BoxesSaid, FixSaid,
                            ModesSaid, BoxesPolled, BoxesRight, Believed, AltitudeAsked,
                            AltitudeCurrent, IdentPolled, Identified, Comes, ModesFresh,
                            Unidentified, IsInav
<1>2. CASE LinkStep
  BY <1>2, HandleKeeps, SendKeeps, FollowKeeps, AnswerKeeps, LoseKeeps, ChangeKeeps, RebootKeeps,
     LinkTickKeeps DEF LinkStep
<1> QED BY <1>1, <1>2

LEMMA LinkInvariance == LinkSpec => []LinkInv
  BY InitLinkInv, NextLinkInv, PTL DEF LinkSpec

(***************************************************************************)
(* The link keeps its types.                                               *)
(***************************************************************************)
THEOREM LinkTypeCorrect == LinkSpec => []LinkTypeOK
<1>1. LinkInv => LinkTypeOK
  BY DEF LinkInv
<1> QED BY <1>1, LinkInvariance, PTL

LEMMA ReadRight == LinkInv => ModesTrue
<1> SUFFICES ASSUME LinkInv, ModesFresh, settled = LinkSettles, modes # truth PROVE FALSE
  BY DEF ModesTrue
<1>1. settled <= BoxIdsEvery - 1 + MaxLag + statusAge /\ statusAge <= StatusStale /\ statusAge \in Nat
  BY LinkBounds DEF LinkInv, LinkTypeOK, BoxesPolled, ModesFresh
<1> QED BY <1>1, LinkBounds DEF LinkSettles

(***************************************************************************)
(* Once the box list has been the same for its polling interval, the       *)
(* staleness limit and two iterations, the modes are the true ones.        *)
(***************************************************************************)
THEOREM ModesAreTrue == LinkSpec => []ModesTrue
<1>1. LinkInv => ModesTrue
  BY ReadRight
<1> QED BY <1>1, LinkInvariance, PTL

(***************************************************************************)
(* A fix and an arming are believed no longer than their staleness limits. *)
(***************************************************************************)
THEOREM BeliefsDoExpire == LinkSpec => []BeliefsExpire
<1>1. LinkInv => ModesTrue
  BY ReadRight
<1>2. ASSUME LinkInv, phase # "drain", loc.valid PROVE sinceFix <= FixStale + MaxLag
  <2>1. fixAge <= FixStale /\ sinceFix <= fixAge + MaxLag /\ fixAge \in Nat /\ sinceFix \in Nat
    BY <1>2, LinkBounds DEF LinkInv, LinkTypeOK, Believed, Horizon
  <2> QED BY <2>1, LinkBounds
<1>3. ASSUME LinkInv, phase # "drain", loc.armed, armedFlag # "none" \/ settled = LinkSettles
      PROVE  sinceArmed <= StatusStale + MaxLag
  <2>1. ModesFresh /\ ArmedIn(modes, armedFlag)
    BY <1>3 DEF LinkInv, Believed
  <2>2. "arm" \in truth
    <3>1. CASE armedFlag = "none"
      BY <1>1, <1>3, <2>1, <3>1 DEF ArmedIn, ModesTrue
    <3>2. CASE armedFlag # "none"
      BY <1>3, <2>1, <3>2 DEF ArmedIn, LinkInv, Believed
    <3> QED BY <3>1, <3>2
  <2>3. sinceArmed <= statusAge + MaxLag /\ statusAge <= StatusStale /\ statusAge \in Nat /\ sinceArmed \in Nat
    BY <1>3, <2>1, <2>2, LinkBounds DEF LinkInv, LinkTypeOK, Believed, ModesFresh, Horizon
  <2> QED BY <2>3, LinkBounds
<1>4. LinkInv => BeliefsExpire
  BY <1>2, <1>3 DEF BeliefsExpire
<1> QED BY <1>4, LinkInvariance, PTL

(***************************************************************************)
(* A waypoint's altitude was reported in the iteration that sends it, once *)
(* it was asked for and answered for longer than an iteration.             *)
(***************************************************************************)
THEOREM AltitudeIsCurrent == LinkSpec => []AltitudeCurrent
<1>1. LinkInv => AltitudeCurrent
  BY DEF LinkInv
<1> QED BY <1>1, LinkInvariance, PTL

(***************************************************************************)
(* The link comes up within its settling time of the last answer lost.     *)
(***************************************************************************)
THEOREM LinkDoesComeUp == LinkSpec => []LinkComesUp
<1>1. LinkInv => LinkComesUp
  <2> SUFFICES ASSUME LinkInv, settled = LinkSettles
               PROVE  Connected /\ Unidentified = {} /\ boxIds # NoBoxes
    BY DEF LinkComesUp
  <2>1. Late \in Nat /\ Late <= MaxLag
    BY LinkBounds DEF Late
  <2>2. /\ FirstAnswer = IdentRetry - 1 + MaxLag
        /\ LinkSettles = BoxIdsEvery + 2 * MaxLag + StatusStale
    BY DEF FirstAnswer, LinkSettles
  <2>3. /\ ~(settled <= IdentRetry - 1 + MaxLag + Late)
        /\ ~(settled <= FirstAnswer + IdentRetry - 1 + MaxLag + Late)
        /\ ~(settled <= FirstAnswer + MaxLag + Late)
    BY <2>1, <2>2, LinkBounds
  <2>4. {"variant", "version"} \subseteq known /\ (fc.inav => "mixer" \in known) /\ boxIds # NoBoxes
    BY <2>3 DEF LinkInv, Identified, Comes
  <2>5. statusAge <= StatusStale
    <3>1. statusAge <= Late /\ statusAge \in Nat
      BY <2>3, LinkBounds DEF LinkInv, LinkTypeOK, Identified
    <3> QED BY <2>1, <3>1, LinkBounds
  <2> QED BY <2>4, <2>5 DEF Connected, ModesFresh, Unidentified, IsInav
<1> QED BY <1>1, LinkInvariance, PTL
=============================================================================
