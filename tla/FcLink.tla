------------------------------- MODULE FcLink -------------------------------
(***************************************************************************)
(* The link to the flight controller (src/hal/MspFcLink.cpp over           *)
(* ff_core/msp_fc.cpp): requests sent on a schedule, replies read when     *)
(* they are there, and a cache of what they said, which must stop being    *)
(* believed when they stop.                                                *)
(*                                                                         *)
(* A tick is the status interval.  In each the loop reads the replies      *)
(* received, sends the requests that are due and runs the follow           *)
(* controller; the flight controller then answers, or an answer is lost or *)
(* fails its checksum.  It may change modes between two answers, and may   *)
(* restart with another set of boxes, which is what the flags of a status  *)
(* reply are indexed by.                                                   *)
(***************************************************************************)
EXTENDS Integers, Sequences

CONSTANTS Layout,      \* the box lists the flight controller may have: sequences of modes
          IdentRetry,  \* kIdentRetryMs
          BoxIdsEvery, \* kBoxIdsIntervalMs
          GpsEvery,    \* kGpsIntervalMs
          FixStale,    \* kFixStaleMs
          StatusStale, \* kStatusStaleMs
          RcWanted,    \* is a stick assigned in the follow configuration?
          MaxLag,      \* bound: the ticks an iteration of the loop may take
          Flight       \* bound: what may vary in one behaviour

Mode == {"arm", "nav"}
ASSUME LinkAssumption ==
    /\ \A boxes \in Layout : boxes \in Seq(Mode) /\ boxes # <<>>
    /\ \A n \in {IdentRetry, BoxIdsEvery, GpsEvery, FixStale, StatusStale, MaxLag} : n \in Nat \ {0}
    /\ IdentRetry <= BoxIdsEvery /\ MaxLag <= StatusStale
    /\ 2 * IdentRetry + MaxLag < BoxIdsEvery + StatusStale + 2
    /\ \A flight \in Flight :
        /\ flight.modes \subseteq SUBSET Mode /\ flight.fix \subseteq BOOLEAN
        /\ flight.boxes \subseteq Layout /\ {flight.inav, flight.wired} \subseteq BOOLEAN

VARIABLES flight,    \* what may vary in this behaviour: modes, fix, boxes and answers lost
          fc,        \* the flight controller: its kind, box list, modes and fix
          sent,      \* requests on their way to it
          replies,   \* replies on their way back
          phase,     \* where the iteration is
          known,     \* the identity requests answered: haveVariant_, haveVersion_, platform_
          boxIds,    \* boxIds_, NoBoxes while not haveBoxIds_
          since,     \* now - the last request of each kind, up to the longest interval
          loc,       \* loc_: valid and armed
          fixAge,    \* now - lastFixMs_; one more than FixStale also if never
          modes,     \* modes_
          armedFlag, \* armedFlag_, or "none" while not haveArmedFlag_
          statusAge, \* now - lastStatusMs_; one more than StatusStale also if never
          needs,     \* what setTelemetryNeeds asked for
          reported,  \* ticks since altitudeCm_ and rc_ were last reported
          usedAge,   \* the age of the altitude the last follow cycle used, or NoWaypoint
          truth,     \* history: the modes active when the last status read was sent
          settled,   \* history: ticks since the box list changed or an answer was lost
          steady,    \* history: ticks the altitude has been asked for
          sinceFix, sinceArmed \* history: ticks since the flight controller had a fix, was armed

cacheVars == <<known, boxIds, loc, fixAge, modes, armedFlag, statusAge, reported, truth>>
fcVars == <<flight, fc, sent, replies>>
trueVars == <<settled, steady, sinceFix, sinceArmed>>
linkVars == <<fcVars, phase, cacheVars, since, needs, usedAge, trueVars>>

NoBoxes == <<>>
NoWaypoint == -1
Telemetry == {"altitude", "rc"}
\* The requests, each with its place in the order in which they are made and answered.
Place == [variant |-> 1, version |-> 2, mixer |-> 3, boxes |-> 4, gps |-> 5, status |-> 6,
          altitude |-> 7, rc |-> 8]
Requests == DOMAIN Place
Timed == {"ident", "boxes", "gps"}

LinkSettles == BoxIdsEvery + 2 * MaxLag + StatusStale
Horizon == FixStale + StatusStale + MaxLag
SteadyTime == MaxLag + 1
LinkUpto(n, bound) == IF n < bound THEN n ELSE bound

NeverAsked == [kind \in Timed |-> 0]
NoLocation == [valid |-> FALSE, armed |-> FALSE]
NeverHeard == [t \in Telemetry |-> SteadyTime + 1]

LinkInit ==
    /\ flight \in Flight
    /\ fc \in [inav : {flight.inav}, boxes : flight.boxes, active : {{}}, fix : {FALSE}]
    /\ sent = {} /\ replies = {} /\ phase = "drain"
    /\ known = {} /\ boxIds = NoBoxes /\ since = NeverAsked /\ loc = NoLocation
    /\ fixAge = FixStale + 1 /\ statusAge = StatusStale + 1
    /\ modes = {} /\ armedFlag = "none" /\ truth = {}
    /\ needs = {} /\ reported = NeverHeard /\ usedAge = NoWaypoint
    /\ settled = 0 /\ steady = 0 /\ sinceFix = Horizon /\ sinceArmed = Horizon
-----------------------------------------------------------------------------
(***************************************************************************)
(* The cache as the rest of the program reads it.                          *)
(***************************************************************************)
ModesFresh == statusAge <= StatusStale
Connected == "variant" \in known /\ ModesFresh
IsInav == "variant" \in known /\ fc.inav
GcsNavActive == ModesFresh /\ "nav" \in modes

ArmedIn(active, flag) == IF flag = "none" THEN "arm" \in active ELSE flag = "yes"
-----------------------------------------------------------------------------
(***************************************************************************)
(* handleFrame, for each kind of reply.                                    *)
(***************************************************************************)
Decoded(flags, boxes) == {boxes[i] : i \in flags \cap DOMAIN boxes}

IdentReply(reply) ==
    /\ known' = known \cup {reply.kind}
    /\ UNCHANGED <<boxIds, loc, fixAge, modes, armedFlag, statusAge, reported, truth>>

\* Mutant: a box list once known is kept.
BoxIdsReplyOnce(reply) ==
    /\ boxIds' = IF boxIds = NoBoxes THEN reply.boxes ELSE boxIds
    /\ UNCHANGED <<known, loc, fixAge, modes, armedFlag, statusAge, reported, truth>>
BoxIdsReply(reply) ==
    /\ boxIds' = reply.boxes
    /\ UNCHANGED <<known, loc, fixAge, modes, armedFlag, statusAge, reported, truth>>

RawGpsReply(reply) ==
    /\ loc' = [loc EXCEPT !.valid = reply.fix]
    /\ fixAge' = 0
    /\ UNCHANGED <<known, boxIds, modes, armedFlag, statusAge, reported, truth>>

StatusReply(reply) ==
    /\ modes' = Decoded(reply.flags, boxIds)
    /\ armedFlag' = IF reply.inav THEN (IF "arm" \in reply.active THEN "yes" ELSE "no") ELSE "none"
    /\ statusAge' = 0
    /\ loc' = [loc EXCEPT !.armed = ArmedIn(modes', armedFlag')]
    /\ truth' = reply.active
    /\ UNCHANGED <<known, boxIds, fixAge, reported>>

TelemetryReply(reply) ==
    /\ reported' = [reported EXCEPT ![reply.kind] = 0]
    /\ UNCHANGED <<known, boxIds, loc, fixAge, modes, armedFlag, statusAge, truth>>

HandleFrame ==
    /\ phase = "drain"
    /\ \E reply \in replies :
        /\ \A other \in replies : Place[reply.kind] <= Place[other.kind]
        /\ replies' = replies \ {reply}
        /\ \/ reply.kind \in {"variant", "version", "mixer"} /\ IdentReply(reply)
           \/ reply.kind = "boxes" /\ BoxIdsReply(reply)
           \/ reply.kind = "gps" /\ RawGpsReply(reply)
           \/ reply.kind = "status" /\ StatusReply(reply)
           \/ reply.kind \in Telemetry /\ TelemetryReply(reply)
    /\ UNCHANGED <<flight, fc, sent, phase, since, needs, usedAge, trueVars>>
-----------------------------------------------------------------------------
(***************************************************************************)
(* The rest of service: the requests that are due, and what has gone stale.*)
(***************************************************************************)
Unidentified == ({"variant", "version"} \cup (IF IsInav THEN {"mixer"} ELSE {})) \ known

\* Mutant: the identity is asked for once.
IdentDueOnce == since["ident"] = IdentRetry /\ Unidentified = {"variant", "version"}
IdentDue == since["ident"] >= IdentRetry /\ Unidentified # {}

BoxIdsDue ==
    /\ "variant" \in known
    /\ boxIds = NoBoxes \/ since["boxes"] >= BoxIdsEvery
    /\ since["boxes"] >= IdentRetry

GpsDue == since["gps"] >= GpsEvery

\* Mutant: the altitude is polled at the rate of the position.
DueNowAtGpsRate ==
    (IF IdentDue THEN Unidentified ELSE {})
    \cup (IF BoxIdsDue THEN {"boxes"} ELSE {})
    \cup (IF GpsDue THEN {"gps"} \cup needs ELSE {})
    \cup (IF "variant" \in known THEN {"status"} ELSE {})
\* Status, altitude and sticks have one interval, a tick, so they are always due.
DueNow ==
    (IF IdentDue THEN Unidentified ELSE {})
    \cup (IF BoxIdsDue THEN {"boxes"} ELSE {})
    \cup (IF GpsDue THEN {"gps"} ELSE {})
    \cup (IF "variant" \in known THEN {"status"} \cup needs ELSE {})

\* Mutant: a fix is believed until another report says otherwise.
FixGoneNever == FALSE
FixGone == fixAge > FixStale

ArmedGone == ~ModesFresh

SendRequests ==
    /\ phase = "drain" /\ replies = {}
    /\ phase' = "follow"
    /\ sent' = DueNow
    /\ since' = [kind \in Timed |->
                    IF kind \in DueNow \/ (kind = "ident" /\ IdentDue) THEN 0 ELSE since[kind]]
    /\ loc' = [valid |-> loc.valid /\ ~FixGone, armed |-> loc.armed /\ ~ArmedGone]
    /\ UNCHANGED <<flight, fc, replies, known, boxIds, fixAge, modes, armedFlag, statusAge,
                   reported, truth, needs, usedAge, trueVars>>

(***************************************************************************)
(* A cycle of the follow controller, which has its own rate: it says what  *)
(* it needs and, if the gate is open and it has a leader, sends a waypoint *)
(* with the altitude at hand.                                              *)
(***************************************************************************)
FollowCycle ==
    /\ phase = "follow"
    /\ phase' = "idle"
    /\ needs' = (IF GcsNavActive THEN {"altitude"} ELSE {}) \cup (IF RcWanted THEN {"rc"} ELSE {})
    /\ usedAge' \in {NoWaypoint} \cup (IF GcsNavActive THEN {reported["altitude"]} ELSE {})
    /\ steady' = IF "altitude" \in needs \cap needs' THEN steady ELSE 0
    /\ UNCHANGED <<fcVars, cacheVars, since, settled, sinceFix, sinceArmed>>

NoFollowCycle ==
    /\ phase = "follow"
    /\ phase' = "idle" /\ usedAge' = NoWaypoint
    /\ UNCHANGED <<fcVars, cacheVars, since, needs, trueVars>>
-----------------------------------------------------------------------------
(***************************************************************************)
(* The flight controller.                                                  *)
(***************************************************************************)
Reply(kind) ==
    CASE kind = "boxes" -> [kind |-> kind, boxes |-> fc.boxes]
      [] kind = "gps" -> [kind |-> kind, fix |-> fc.fix]
      [] kind = "status" -> [kind |-> kind, inav |-> fc.inav, active |-> fc.active,
                             flags |-> {i \in DOMAIN fc.boxes : fc.boxes[i] \in fc.active}]
      [] OTHER -> [kind |-> kind]

IsNext(kind) == kind \in sent /\ \A other \in sent : Place[kind] <= Place[other]

Answer(kind) ==
    /\ phase = "idle" /\ IsNext(kind)
    /\ sent' = sent \ {kind}
    /\ replies' = replies \cup {Reply(kind)}
    /\ UNCHANGED <<flight, fc, phase, cacheVars, since, needs, usedAge, trueVars>>

Lose(kind) ==
    /\ phase = "idle" /\ IsNext(kind) /\ kind \in flight.loses
    /\ sent' = sent \ {kind}
    /\ settled' = 0
    /\ UNCHANGED <<flight, fc, replies, phase, cacheVars, since, needs, usedAge,
                   steady, sinceFix, sinceArmed>>

\* It has a fix, or is armed, in the present tick.
Witnessed(now) ==
    /\ sinceFix' = IF now.fix THEN 0 ELSE sinceFix
    /\ sinceArmed' = IF "arm" \in now.active THEN 0 ELSE sinceArmed

ChangeModes(active, fix) ==
    /\ phase = "idle" /\ active \in flight.modes /\ fix \in flight.fix
    /\ active \subseteq {fc.boxes[i] : i \in DOMAIN fc.boxes}
    /\ fc' = [fc EXCEPT !.active = active, !.fix = fix] /\ fc' # fc
    /\ Witnessed(fc') /\ UNCHANGED <<settled, steady>>
    /\ UNCHANGED <<flight, sent, replies, phase, cacheVars, since, needs, usedAge>>

FcReboot(boxes) ==
    /\ phase = "idle" /\ boxes \in flight.boxes \ {fc.boxes}
    /\ fc' = [fc EXCEPT !.boxes = boxes, !.active = {}, !.fix = FALSE]
    /\ settled' = 0
    /\ UNCHANGED <<flight, sent, replies, phase, cacheVars, since, needs, usedAge,
                   steady, sinceFix, sinceArmed>>
-----------------------------------------------------------------------------
Longest(kind) ==
    CASE kind = "boxes" -> BoxIdsEvery [] kind = "ident" -> IdentRetry [] OTHER -> GpsEvery

LinkTick(d) ==
    /\ phase = "idle" /\ sent = {}
    /\ phase' = "drain"
    /\ since' = [kind \in Timed |-> LinkUpto(since[kind] + d, Longest(kind))]
    /\ fixAge' = LinkUpto(fixAge + d, FixStale + 1)
    /\ statusAge' = LinkUpto(statusAge + d, StatusStale + 1)
    /\ reported' = [t \in Telemetry |-> LinkUpto(reported[t] + d, SteadyTime + 1)]
    /\ settled' = LinkUpto(settled + d, LinkSettles)
    /\ steady' = LinkUpto(steady + d, SteadyTime)
    /\ sinceFix' = IF fc.fix THEN 0 ELSE LinkUpto(sinceFix + d, Horizon)
    /\ sinceArmed' = IF "arm" \in fc.active THEN 0 ELSE LinkUpto(sinceArmed + d, Horizon)
    /\ usedAge' = NoWaypoint
    /\ UNCHANGED <<fcVars, known, boxIds, loc, modes, armedFlag, truth, needs>>

LinkStep ==
    /\ flight.wired
    /\ \/ HandleFrame \/ SendRequests
       \/ FollowCycle \/ NoFollowCycle
       \/ \E kind \in Requests : Answer(kind) \/ Lose(kind)
       \/ \E active \in SUBSET Mode, fix \in BOOLEAN : ChangeModes(active, fix)
       \/ \E boxes \in Layout : FcReboot(boxes)
       \/ \E d \in 1 .. MaxLag : LinkTick(d)

LinkSpec == LinkInit /\ [][LinkStep]_linkVars
-----------------------------------------------------------------------------
LinkTypeOK ==
    /\ flight \in Flight /\ phase \in {"drain", "follow", "idle"}
    /\ fc \in [inav : BOOLEAN, boxes : Layout, active : SUBSET Mode, fix : BOOLEAN]
    /\ sent \subseteq Requests /\ \A reply \in replies : reply.kind \in Requests
    /\ known \subseteq {"variant", "version", "mixer"}
    /\ boxIds \in Layout \cup {NoBoxes}
    /\ since \in [Timed -> Nat] /\ \A kind \in Timed : since[kind] <= Longest(kind)
    /\ loc \in [valid : BOOLEAN, armed : BOOLEAN]
    /\ fixAge \in 0 .. FixStale + 1 /\ statusAge \in 0 .. StatusStale + 1
    /\ modes \subseteq Mode /\ truth \subseteq Mode
    /\ armedFlag \in {"none", "yes", "no"} /\ needs \subseteq Telemetry
    /\ reported \in [Telemetry -> 0 .. SteadyTime + 1]
    /\ usedAge \in {NoWaypoint} \cup 0 .. SteadyTime + 1
    /\ settled \in 0 .. LinkSettles /\ steady \in 0 .. SteadyTime
    /\ sinceFix \in 0 .. Horizon /\ sinceArmed \in 0 .. Horizon

(***************************************************************************)
(* The modes the link reports, the gate of the follow controller among     *)
(* them, are those active when the status was sent, once the box list has  *)
(* been the same for its polling interval and no answer was lost.          *)
(***************************************************************************)
ModesTrue == ModesFresh /\ settled = LinkSettles => modes = truth

(***************************************************************************)
(* What the link hands on was true of the flight controller no longer ago  *)
(* than its staleness limit: a fix, and that it is armed (which, but for   *)
(* INAV, is read from a box and so depends on the list).                   *)
(***************************************************************************)
BeliefsExpire ==
    phase # "drain" =>
        /\ loc.valid => sinceFix <= FixStale + MaxLag
        /\ loc.armed /\ (armedFlag # "none" \/ settled = LinkSettles) =>
               sinceArmed <= StatusStale + MaxLag

(***************************************************************************)
(* A waypoint's altitude was reported in the iteration that sends it, once *)
(* the altitude was asked for and answered for longer than an iteration:   *)
(* the first waypoints after the gate opens use whatever was reported when *)
(* it was last open, or zero.                                              *)
(***************************************************************************)
AltitudeCurrent ==
    usedAge # NoWaypoint /\ steady = SteadyTime /\ settled >= SteadyTime => usedAge = 0

(***************************************************************************)
(* When no answer has been lost for a while the link has identified the    *)
(* flight controller, knows its boxes and is connected, whatever was lost  *)
(* before: no request is given up, nor only made once.                     *)
(***************************************************************************)
LinkComesUp ==
    settled = LinkSettles =>
        Connected /\ Unidentified = {} /\ boxIds # NoBoxes
=============================================================================
