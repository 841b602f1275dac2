------------------------------- MODULE Follow -------------------------------
(***************************************************************************)
(* The follow controller (ff_core/follow.cpp): which peer a follower is    *)
(* locked to, the slot it flies relative to that peer, and what it tells   *)
(* the flight controller.                                                  *)
(*                                                                         *)
(* A tick is one control cycle (1000 / emitHz ms).  The cycle runs in the  *)
(* loop; applyConfig runs in the web server's task, which on the ESP32 can *)
(* preempt it, so a cycle that gets as far as a slot is cut in two: what   *)
(* it decides from the configuration it finds, and what it then does.      *)
(* What the flight controller, the pilot's sticks and the receiver report  *)
(* may be anything in any cycle.                                           *)
(***************************************************************************)
EXTENDS Slots

CONSTANTS Uid,        \* peers
          NoUid,      \* uid 0: no peer; as a target, the nearest
          Config,     \* the configurations offered to applyConfig
          BootConfig, \* the one it starts with
          Timeout,    \* peerTimeoutMs
          Heartbeat   \* kFollowGvarHeartbeatMs

ASSUME UidAssumption == NoUid \notin Uid
ASSUME TimesAssumption == Timeout \in Nat \ {0} /\ Heartbeat \in Nat \ {0}
ASSUME ConfigAssumption ==
    /\ Config \subseteq [target : Uid \cup {NoUid}, offset : Offset,
                         rcAxes : SUBSET Axis, gvar : BOOLEAN]
    /\ BootConfig \in Config /\ OffsetGeometrySane(BootConfig.offset)

VARIABLES config,      \* config_
          state,       \* state_
          lockedUid,   \* lockedUid_
          course,      \* whose course lastValidCourseDeg_ is, if haveValidCourse_
          lastGood,    \* lastKnownGood_
          heard,       \* each peer's now - last_position_ms; -1 if stamped after now
          cycle,       \* how far the control cycle of this tick is
          waypoint,    \* the peer the last cycle sent a waypoint for
          engaged,     \* what the last cycle wants the engage GVAR to read
          lastSent,    \* lastSentAutothrottleEngageValue_; -1 stands for INT32_MIN
          sentAge,     \* now - lastAutothrottleEngageSendMs_, up to Heartbeat
          gvar,        \* the flight controller's engage GVAR
          doubt,       \* history: ticks since it may have been made wrong
          retargeted,  \* history: another target was set since the gate was shut
          raced        \* history: the configuration changed inside a cycle

lockVars == <<state, lockedUid>>
reportVars == <<engaged, lastSent, sentAge, gvar, doubt>>
vars == <<config, lockVars, course, lastGood, heard, cycle, waypoint, reportVars,
          retargeted, raced>>

LockState == {"IDLE", "ACQUIRING", "LOCKED", "LOCKED_HOLDING"}
Due == [at |-> "due", peer |-> NoUid]
Done == [at |-> "done", peer |-> NoUid]

Init ==
    /\ config = BootConfig
    /\ state = "IDLE" /\ lockedUid = NoUid
    /\ course = NoUid
    /\ lastGood = BootConfig.offset
    /\ heard = [uid \in Uid |-> Timeout + 1]
    /\ cycle = Due
    /\ waypoint = NoUid
    /\ engaged = 0 /\ lastSent = -1 /\ sentAge = Heartbeat /\ gvar = 0 /\ doubt = 0
    /\ retargeted = FALSE /\ raced = FALSE
-----------------------------------------------------------------------------
(***************************************************************************)
(* A position arrives with a fix, stamped before or after this iteration   *)
(* of the loop read the clock; or without one, which makes the peer stale. *)
(* A peer that is not in the table is stale too.                           *)
(***************************************************************************)
Hear(uid, age) ==
    /\ cycle.at = "due"
    /\ heard' = [heard EXCEPT ![uid] = age]
    /\ UNCHANGED <<config, lockVars, course, lastGood, cycle, waypoint, reportVars,
                   retargeted, raced>>

\* Mutant: no position is too old, or without a fix.
StaleAbsentOnly(uid) == FALSE
\* The age is unsigned: one below zero is a very large one.
Stale(uid) == heard[uid] = -1 \/ heard[uid] > Timeout
-----------------------------------------------------------------------------
(***************************************************************************)
(* sendGvarIfDue for the engage GVAR.  The write may be lost on its way.   *)
(***************************************************************************)
\* Mutant: sent on a change only.
IsGvarDueOnChange(value) == value # lastSent
IsGvarDue(value) == lastSent = -1 \/ value # lastSent \/ sentAge >= Heartbeat

Reports(value) ==
    /\ engaged' = value
    /\ IF config.gvar /\ IsGvarDue(value)
       THEN /\ lastSent' = value /\ sentAge' = 0
            /\ \/ gvar' = value /\ UNCHANGED doubt
               \/ doubt' = 0 /\ UNCHANGED gvar
       ELSE UNCHANGED <<lastSent, sentAge, gvar, doubt>>

\* No waypoint this cycle.
Bail ==
    /\ waypoint' = NoUid
    /\ Reports(0)
    /\ cycle' = Done
-----------------------------------------------------------------------------
(***************************************************************************)
(* service, with the gate shut.                                            *)
(***************************************************************************)
\* Mutant: the course is kept.
GateShutKeepsCourse ==
    /\ cycle.at = "due"
    /\ state' = "IDLE" /\ lockedUid' = NoUid /\ retargeted' = FALSE
    /\ Bail
    /\ UNCHANGED <<config, course, lastGood, heard, raced>>

GateShut ==
    /\ cycle.at = "due"
    /\ state' = "IDLE" /\ lockedUid' = NoUid
    /\ course' = NoUid /\ retargeted' = FALSE
    /\ Bail
    /\ UNCHANGED <<config, lastGood, heard, raced>>

(***************************************************************************)
(* resolveLock.  The nearest peer may be any, and so may the first of the  *)
(* table, which counts when the follower does not know where it is.        *)
(***************************************************************************)
Acquiring == state \in {"IDLE", "ACQUIRING"}
Candidate(uid) == ~Stale(uid) /\ config.target \in {NoUid, uid}

NoPeer ==
    \/ /\ Acquiring
       /\ \A uid \in Uid : ~Candidate(uid)
       /\ state' = "ACQUIRING" /\ UNCHANGED lockedUid
    \/ /\ ~Acquiring
       /\ Stale(lockedUid)
       /\ state' = "LOCKED_HOLDING" /\ UNCHANGED lockedUid

\* Mutant: a lock on hold goes to whoever is there.
LockedFailover(uid) ==
    \/ /\ Acquiring \/ (state = "LOCKED_HOLDING" /\ Stale(lockedUid))
       /\ Candidate(uid)
       /\ state' = "LOCKED" /\ lockedUid' = uid
    \/ /\ ~Acquiring
       /\ uid = lockedUid /\ ~Stale(uid)
       /\ state' = "LOCKED" /\ UNCHANGED lockedUid

Locked(uid) ==
    \/ /\ Acquiring
       /\ Candidate(uid)
       /\ state' = "LOCKED" /\ lockedUid' = uid
    \/ /\ ~Acquiring
       /\ uid = lockedUid /\ ~Stale(uid)
       /\ state' = "LOCKED" /\ UNCHANGED lockedUid

\* Nobody to follow, or no fix of the follower's own to follow from.
NothingToEmit ==
    /\ cycle.at = "due"
    /\ NoPeer \/ \E uid \in Uid : Locked(uid)
    /\ Bail
    /\ UNCHANGED <<config, course, lastGood, heard, retargeted, raced>>

(***************************************************************************)
(* The first half of a cycle that has a peer: resolveOffset as far as its  *)
(* verdict on what the sticks ask for.  When no flight controller answers  *)
(* the sticks are not read and the configured slot is what they ask for.   *)
(***************************************************************************)
Stick == [config.rcAxes -> -Notches .. Notches]
Asked == {ResolvedOffset(config.offset, axes, stick) :
             axes \in {{}, config.rcAxes}, stick \in Stick}

Judge(uid, candidate) ==
    /\ cycle.at = "due"
    /\ Locked(uid)
    /\ cycle' = [at |-> "judged", peer |-> uid, candidate |-> candidate,
                 ok |-> CandidateOffsetOk(candidate, lastGood)]
    /\ UNCHANGED <<config, course, lastGood, heard, waypoint, reportVars, retargeted, raced>>

(***************************************************************************)
(* The second half.  A slot refused leaves the last good one in force.     *)
(* Whether the leader is fast enough for its course to count, the target   *)
(* too far away and the autothrottle wanted is for others to say.          *)
(***************************************************************************)
Flown == IF cycle.ok THEN cycle.candidate ELSE lastGood

Steer(fast) ==
    /\ cycle.at = "judged"
    /\ lastGood' = Flown
    /\ course' = IF fast THEN cycle.peer ELSE course
    /\ UNCHANGED <<config, lockVars, heard, retargeted, raced>>

Emit(fast, throttle) ==
    /\ Steer(fast)
    /\ OffsetGeometrySane(Flown)
    /\ waypoint' = cycle.peer
    /\ Reports(throttle)
    /\ cycle' = Done

TargetTooFar(fast) ==
    /\ Steer(fast)
    /\ Bail

Service ==
    \/ GateShut
    \/ NothingToEmit
    \/ \E uid \in Uid, candidate \in Asked : Judge(uid, candidate)
    \/ \E fast \in BOOLEAN, throttle \in {0, 1} : Emit(fast, throttle)
    \/ \E fast \in BOOLEAN : TargetTooFar(fast)
-----------------------------------------------------------------------------
(***************************************************************************)
(* applyConfig with a configuration that followValidateConfig accepts.     *)
(***************************************************************************)
Retarget(target) ==
    IF target = config.target THEN UNCHANGED <<lockVars, retargeted>>
    ELSE state' = "ACQUIRING" /\ lockedUid' = NoUid /\ retargeted' = TRUE

\* Mutant: the slot in force stays what it was.
ApplyConfigNoAnchor(new) ==
    /\ OffsetGeometrySane(new.offset)
    /\ config' = new
    /\ Retarget(new.target)
    /\ doubt' = IF new.gvar = config.gvar THEN doubt ELSE 0
    /\ raced' = (cycle.at = "judged")
    /\ UNCHANGED <<course, lastGood, heard, cycle, waypoint, engaged, lastSent, sentAge, gvar>>

ApplyConfig(new) ==
    /\ OffsetGeometrySane(new.offset)
    /\ config' = new
    /\ lastGood' = new.offset
    /\ Retarget(new.target)
    /\ doubt' = IF new.gvar = config.gvar THEN doubt ELSE 0
    /\ raced' = (cycle.at = "judged")
    /\ UNCHANGED <<course, heard, cycle, waypoint, engaged, lastSent, sentAge, gvar>>

\* The flight controller restarts; its GVARs are cleared.
FcRestart ==
    /\ gvar' = 0 /\ doubt' = 0
    /\ UNCHANGED <<config, lockVars, course, lastGood, heard, cycle, waypoint, engaged,
                   lastSent, sentAge, retargeted, raced>>

Aged(age) == IF age < 1 THEN 1 ELSE IF age <= Timeout THEN age + 1 ELSE age

Tick ==
    /\ cycle = Done
    /\ cycle' = Due
    /\ heard' = [uid \in Uid |-> Aged(heard[uid])]
    /\ sentAge' = IF sentAge < Heartbeat THEN sentAge + 1 ELSE sentAge
    /\ doubt' = IF doubt < Heartbeat THEN doubt + 1 ELSE doubt
    /\ UNCHANGED <<config, lockVars, course, lastGood, waypoint, engaged, lastSent, gvar,
                   retargeted, raced>>

Next ==
    \/ \E uid \in Uid, age \in {-1, 0, Timeout + 1} : Hear(uid, age)
    \/ Service
    \/ \E new \in Config : ApplyConfig(new)
    \/ FcRestart
    \/ Tick

Spec == Init /\ [][Next]_vars
-----------------------------------------------------------------------------
TypeOK ==
    /\ config \in Config
    /\ state \in LockState /\ lockedUid \in Uid \cup {NoUid}
    /\ course \in Uid \cup {NoUid}
    /\ lastGood \in Offset
    /\ heard \in [Uid -> -1 .. Timeout + 1]
    /\ \/ cycle \in {Due, Done}
       \/ cycle \in [at : {"judged"}, peer : Uid, candidate : Offset, ok : BOOLEAN]
    /\ waypoint \in Uid \cup {NoUid}
    /\ engaged \in {0, 1} /\ lastSent \in {-1, 0, 1} /\ gvar \in {0, 1}
    /\ sentAge \in 0 .. Heartbeat /\ doubt \in 0 .. Heartbeat
    /\ retargeted \in BOOLEAN /\ raced \in BOOLEAN

(***************************************************************************)
(* No failover: a lock goes from a peer to nobody only, and only when the  *)
(* pilot shuts the gate or another target is configured, however long the  *)
(* peer is silent and whoever else is near.                                *)
(***************************************************************************)
LockHeld ==
    [][lockedUid # NoUid /\ lockedUid' # lockedUid =>
           /\ lockedUid' = NoUid
           /\ state' = "IDLE" \/ config'.target # config.target]_vars

(***************************************************************************)
(* A waypoint leads to the peer locked, whose position is no older than    *)
(* the timeout; other targets set in mid-cycle aside.                      *)
(***************************************************************************)
OnlyLeaderChased ==
    cycle = Done /\ waypoint # NoUid /\ ~retargeted =>
        waypoint = lockedUid /\ state = "LOCKED" /\ heard[waypoint] <= Timeout

(***************************************************************************)
(* The course that orients the slot while the leader is slow is the        *)
(* leader's own, not one that another peer flew before it was locked.      *)
(* Setting another target with the gate open keeps the old course, so      *)
(* that case is excepted.                                                  *)
(***************************************************************************)
CourseOfLeader == course # NoUid /\ ~retargeted => course = lockedUid

(***************************************************************************)
(* The way from one slot to the next, as the sticks move it from cycle to  *)
(* cycle, does not lead through the leader.  Two axes that cross at once   *)
(* are excepted: each counts on the other to keep clear.                   *)
(***************************************************************************)
Sweep == cycle.at = "judged" /\ cycle' = Done /\ ~raced
SlotPassesClear ==
    [][Sweep => \/ PassesClear(lastGood, lastGood')
                \/ Cardinality({axis \in Axis : Crosses(axis, lastGood, lastGood')}) > 1]_vars

(***************************************************************************)
(* The same without the exception, as the comment in axisSignLocked has it *)
(* ("covers two axes swinging in one cycle").                              *)
(***************************************************************************)
SlotNeverCrossesLeader == [][Sweep => PassesClear(lastGood, lastGood')]_vars

(***************************************************************************)
(* With no axis on a stick the slot is the configured one: the verdict on  *)
(* it can never freeze another.  Only a configuration applied inside a     *)
(* cycle breaks this, until the next one.                                  *)
(***************************************************************************)
ConfiguredSlotFlown == config.rcAxes = {} /\ ~raced => lastGood = config.offset

(***************************************************************************)
(* The engage GVAR reads what the last cycle wants, in particular 0 when   *)
(* no waypoint goes out, at the latest one heartbeat after a write was     *)
(* lost, the flight controller restarted or the GVAR was assigned.         *)
(***************************************************************************)
ThrottleLetGo == cycle = Done /\ config.gvar /\ doubt = Heartbeat => gvar = engaged
=============================================================================
