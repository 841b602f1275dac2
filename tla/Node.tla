-------------------------------- MODULE Node --------------------------------
(***************************************************************************)
(* ff::Node (lib/ff_core/node.h, node.cpp) in the firmware's main loop     *)
(* (src/main.cpp, loop), fed by its radios through RadioHub::service.      *)
(*                                                                         *)
(* One iteration of the loop reads the clock, services the radios one by   *)
(* one, feeding what they received to onReceive, and polls the node's      *)
(* timers with the time read at the start.  A radio in TaskFed is ESP-NOW: *)
(* its frames arrive, stamped with the clock, from the WiFi task at any    *)
(* point of the iteration.  The others read their chip, and the clock,     *)
(* when they are serviced.                                                 *)
(*                                                                         *)
(* The rings are the bounded queues SpscRing implements.  The timers fire  *)
(* in slot order, each callback rearming only its own, as in Scheduler.    *)
(***************************************************************************)
EXTENDS Peers, Sequences, FiniteSetsExt, Rates

CONSTANTS Self,            \* cfg_.uid
          TaskFed,         \* radios that receive in another task: ESP-NOW, which is
                           \* registered first, or none
          ReceiveOnly,     \* radios whose driver's transmits() is false
          Setup,           \* the nodes examined: cfg_.listen_only, is there a crypto layer,
                           \* is there a radar sink, the radios the configuration page may
                           \* switch, the frames that may arrive and the radios they may
                           \* arrive on
          RingUsable,      \* frames a receive ring holds
          MaxCounter,      \* bound: the frame counter wraps past it
          WindowBits,      \* kReplayWindowBits
          ResyncTime,      \* kReplayResyncMs
          Airtime,         \* airtime_ of each radio
          AnnounceEvery,   \* cfg_.announce_interval_ms
          ExpireEvery,     \* cfg_.expire_interval_ms
          RadarEvery,      \* cfg_.msp_radar_interval_ms
          MaxLag,          \* bound: the longest an iteration takes
          MaxAge,          \* bound: the age of the newest frame is counted up to it
          MaxQuiet         \* bound: the time since a beacon is counted up to it

Frame == UNION {s.frames : s \in Setup}
ASSUME NodeAssumption ==
    /\ Self \in Uid
    /\ IsFiniteSet(Radio) /\ Radio = 0 .. Cardinality(Radio) - 1 /\ Radio # {}
    /\ TaskFed \subseteq {0} /\ ReceiveOnly \subseteq Radio
    /\ \A s \in Setup :
        /\ {s.listenOnly, s.encrypted, s.radar} \subseteq BOOLEAN /\ s.switchable \cup s.hearing \subseteq Radio
    /\ \A f \in Frame :
        /\ f.form \in {"ok", "badlength", "badtag", "badheader", "badbody"}
        /\ f.kind \in {"position", "announce"}
        /\ f.uid \in Uid
        /\ f.counter \in 0 .. MaxCounter
    /\ MaxCounter \in Nat /\ WindowBits \in Nat \ {0} /\ ResyncTime \in Time
    /\ \A s \in Setup : ~s.encrypted => \A f \in s.frames : f.form # "badtag"
    /\ RingUsable \in Nat \ {0}
    /\ Airtime \in [Radio -> Nat]
    /\ \A i \in {AnnounceEvery, ExpireEvery, RadarEvery, MaxLag} : i \in 1 .. TimeHalf - 1
    /\ MaxAge \in Nat /\ MaxQuiet \in Nat

(***************************************************************************)
(* The clock tells apart the ages that matter (it takes 49 days to wrap),  *)
(* and the histories are counted far enough to.                            *)
(***************************************************************************)
ShortestDelay(r) == Min(NextDelays(0, Airtime[r]))

ASSUME NodeTimeAssumption ==
    /\ \A r \in Radio : /\ LongestDelay(Airtime[r]) <= TimeHalf
                        /\ LongestDelay(Airtime[r]) + 2 * MaxLag < TimeMod
                        /\ MaxQuiet + MaxLag >= ShortestDelay(r)
    /\ \A i \in {AnnounceEvery, RadarEvery, PeerTimeout + ExpireEvery} : i + 2 * MaxLag < TimeMod
    /\ MaxAge + MaxLag > PeerTimeout

Replay == INSTANCE ReplaySlots
            WITH NumReplaySlots <- NumSlots, Sender <- Uid, NoSender <- NoUid

VARIABLES
    setup,    \* the node examined
    clock,    \* millis(), as any task reads it
    now,      \* loop's own copy, read at the top of the iteration
    pc,       \* where the iteration is
    at,       \* the radio being serviced, or the timer slot poll looks at
    ring,     \* the receive ring of each radio: frames with their stamps
    enabled,  \* the radios that are switched on
    peers,    \* peers_
    slots,    \* the crypto layer's replay slots
    counter,  \* the crypto layer's transmit counter
    due,      \* when each timer is due, or Unarmed
    cursor,   \* msp_radar_cursor_
    air,      \* history: the frames the last step put on the air
    shown,    \* history: the table slots the last step sent to the radar sink
    age,      \* history: true age of the newest frame accepted from each node
    quiet     \* history: true time since each radio's last beacon

timeVars == <<clock, now, age, quiet>>
loopVars == <<pc, at>>
rxVars == <<ring, slots>>
vars == <<setup, timeVars, loopVars, rxVars, enabled, peers, counter, due, cursor, air, shown>>

(***************************************************************************)
(* The timer slots, in the order begin registers them.                     *)
(***************************************************************************)
AnnounceTimer == Cardinality(Radio)
ExpireTimer == AnnounceTimer + 1
RadarTimer == AnnounceTimer + 2
Job == 0 .. RadarTimer
Unarmed == TimeMod

\* Mutant: a listen-only node does not run expiry either.
IsRegisteredSending(j) == IF j = RadarTimer THEN setup.radar ELSE ~setup.listenOnly
IsRegistered(j) ==
    IF j = RadarTimer THEN setup.radar ELSE j = ExpireTimer \/ ~setup.listenOnly

Period == [j \in {AnnounceTimer, ExpireTimer, RadarTimer} |->
            IF j = AnnounceTimer THEN AnnounceEvery
            ELSE IF j = ExpireTimer THEN ExpireEvery ELSE RadarEvery]

Upto(n, bound) == IF n < bound THEN n ELSE bound

Init ==
    /\ setup \in Setup
    /\ clock = 0
    /\ now = 0
    /\ pc = "top"
    /\ at = 0
    /\ ring = [r \in Radio |-> <<>>]
    /\ enabled \in {e \in SUBSET Radio : Radio \ setup.switchable \subseteq e}
    /\ peers = EmptyTable
    /\ slots = [i \in Replay!ReplayIndex |-> Replay!EmptySlot]
    /\ counter = 0
    /\ due \in [Job -> Time \cup {Unarmed}]
    /\ \A j \in Job :
        IF ~IsRegistered(j) THEN due[j] = Unarmed
        ELSE IF j \in Radio THEN \E d \in NextDelays(0, Airtime[j]) : due[j] = Later(now, d)
        ELSE due[j] = Later(now, Period[j])
    /\ cursor = 0
    /\ air = {}
    /\ shown = {}
    /\ age = [u \in Uid |-> MaxAge]
    /\ quiet = [r \in Radio |-> MaxQuiet]
-----------------------------------------------------------------------------
(***************************************************************************)
(* Time passes during an iteration, at whatever point it has reached.      *)
(***************************************************************************)
Advance(d) ==
    /\ Elapsed(clock, now) + d <= MaxLag
    /\ clock' = Later(clock, d)
    /\ age' = [u \in Uid |-> Upto(age[u] + d, MaxAge)]
    /\ quiet' = [r \in Radio |-> Upto(quiet[r] + d, MaxQuiet)]
    /\ air' = {} /\ shown' = {}
    /\ UNCHANGED <<setup, now, loopVars, rxVars, enabled, peers, counter, due, cursor>>

Received(f) == [frame |-> f, stamp |-> clock]

(***************************************************************************)
(* RadioEspNow::ingest, in the WiFi task.  The ring drops a frame it has   *)
(* no room for.                                                            *)
(***************************************************************************)
Arrive(r, f) ==
    /\ r \in setup.hearing \cap TaskFed /\ f \in setup.frames
    /\ Len(ring[r]) < RingUsable
    /\ ring' = [ring EXCEPT ![r] = Append(@, Received(f))]
    /\ air' = {} /\ shown' = {}
    /\ UNCHANGED <<setup, timeVars, loopVars, slots, enabled, peers, counter, due, cursor>>

(***************************************************************************)
(* applyLiveConfig: the web server's task switches a radio on or off.      *)
(***************************************************************************)
Configure(e) ==
    /\ e # enabled
    /\ Radio \ setup.switchable \subseteq e
    /\ enabled' = e
    /\ air' = {} /\ shown' = {}
    /\ UNCHANGED <<setup, timeVars, loopVars, rxVars, peers, counter, due, cursor>>

StartIteration ==
    /\ pc = "top"
    /\ now' = clock
    /\ pc' = "read" /\ at' = 0
    /\ air' = {} /\ shown' = {}
    /\ UNCHANGED <<setup, clock, age, quiet, rxVars, enabled, peers, counter, due, cursor>>
-----------------------------------------------------------------------------
(***************************************************************************)
(* serviceRx of the radio at hand: one that is not fed by a task reads a   *)
(* frame its chip holds, if any, and stamps it.  A radio that is switched  *)
(* off is serviced all the same.                                           *)
(***************************************************************************)
ServiceRx ==
    /\ pc = "read"
    /\ pc' = "drain"
    /\ \/ UNCHANGED ring
       \/ /\ at \in setup.hearing \ TaskFed
          /\ Len(ring[at]) < RingUsable
          /\ \E f \in setup.frames : ring' = [ring EXCEPT ![at] = Append(@, Received(f))]
    /\ air' = {} /\ shown' = {}
    /\ UNCHANGED <<setup, timeVars, at, slots, enabled, peers, counter, due, cursor>>

Drained ==
    /\ pc = "drain"
    /\ ring[at] = <<>>
    /\ IF at + 1 \in Radio THEN pc' = "read" /\ at' = at + 1
                           ELSE pc' = "poll" /\ at' = 0
    /\ air' = {} /\ shown' = {}
    /\ UNCHANGED <<setup, timeVars, rxVars, enabled, peers, counter, due, cursor>>

Ignored == UNCHANGED <<peers, age>>

(***************************************************************************)
(* Decryption: the counter of a frame that gets through is recorded.       *)
(***************************************************************************)
Opened(f, t) ==
    /\ f.form \notin {"badlength", "badtag"}
    /\ IF ~setup.encrypted THEN UNCHANGED slots
       ELSE \E i \in Replay!ReplayIndex :
            /\ Replay!IsReplaySlot(slots, f.uid, i)
            /\ Replay!Accepts(slots, f.uid, i, f.counter, t)
            /\ slots' = [slots EXCEPT ![i] = Replay!Recorded(slots, f.uid, i, f.counter, t)]

ReplayRejected(f, t) ==
    /\ setup.encrypted
    /\ f.form \notin {"badlength", "badtag"}
    /\ \E i \in Replay!ReplayIndex :
        /\ Replay!IsReplaySlot(slots, f.uid, i)
        /\ ~Replay!Accepts(slots, f.uid, i, f.counter, t)

TableUpdated(f, t, r) ==
    \E i \in Slot :
        /\ IsSlotFor(peers, f.uid, i)
        /\ peers' = IF f.kind = "position" THEN PositionUpdated(peers, f.uid, i, t, r)
                                           ELSE AnnounceUpdated(peers, f.uid, i, t, r)

IsOwn(f) == f.uid = Self

OnReceive(f, t, r) ==
    \/ f.form \in {"badlength", "badtag"} /\ UNCHANGED slots /\ Ignored
    \/ ReplayRejected(f, t) /\ UNCHANGED slots /\ Ignored
    \/ Opened(f, t) /\ (f.form \in {"badheader", "badbody"} \/ IsOwn(f)) /\ Ignored
    \/ /\ Opened(f, t) /\ f.form = "ok" /\ ~IsOwn(f)
       /\ TableUpdated(f, t, r)
       /\ age' = [age EXCEPT ![f.uid] =
                    IF Elapsed(clock, t) < @ THEN Elapsed(clock, t) ELSE @]

Receive ==
    /\ pc = "drain"
    /\ ring[at] # <<>>
    /\ LET next == Head(ring[at]) IN OnReceive(next.frame, next.stamp, at)
    /\ ring' = [ring EXCEPT ![at] = Tail(@)]
    /\ air' = {} /\ shown' = {}
    /\ UNCHANGED <<setup, clock, now, quiet, loopVars, enabled, counter, due, cursor>>
-----------------------------------------------------------------------------
(***************************************************************************)
(* poll: the armed timers that are due, at or beyond the slot the loop has *)
(* reached, are called in order.                                           *)
(***************************************************************************)
Waiting == {j \in Job : j >= at /\ due[j] # Unarmed /\ Reached(now, due[j])}

IsNextJob(j) ==
    /\ pc = "poll"
    /\ j \in Waiting
    /\ \A k \in Waiting : j <= k

(***************************************************************************)
(* A periodic timer is moved one period on, or, late by more, to a period  *)
(* from now.                                                               *)
(***************************************************************************)
NextDue(j) ==
    IF Reached(now, Later(due[j], Period[j])) THEN Later(now, Period[j])
                                              ELSE Later(due[j], Period[j])

Runs(j) == IsNextJob(j) /\ at' = j + 1 /\ pc' = pc

Transmits(r) == r \in enabled /\ r \notin ReceiveOnly

(***************************************************************************)
(* The counter of the copy of a frame sealed for radio r, when the frame   *)
(* goes out on the radios in to in ascending order.                        *)
(***************************************************************************)
\* Mutant: an announce is encrypted once, and the copies share its counter.
SealedForOnce(r, to) == (counter + 1) % (MaxCounter + 1)
SealedFor(r, to) ==
    (counter + Cardinality({q \in to : q <= r})) % (MaxCounter + 1)

Sent(kind, to) ==
    /\ counter' = IF setup.encrypted THEN (counter + Cardinality(to)) % (MaxCounter + 1) ELSE counter
    /\ air' = {[radio |-> r, kind |-> kind,
                counter |-> IF setup.encrypted THEN SealedFor(r, to) ELSE 0] : r \in to}

(***************************************************************************)
(* onBeaconTick: send if the radio is on, and in any case rearm.           *)
(***************************************************************************)
\* Mutant: the next beacon is timed from the missed deadline.
BeaconDueFromDeadline(r, d) == Later(due[r], d)
BeaconDue(r, d) == Later(now, d)

\* Mutant: a radio found switched off is not armed again.
RearmedIfSent(r, d) ==
    due' = [due EXCEPT ![r] = IF Transmits(r) THEN BeaconDue(r, d) ELSE Unarmed]
Rearmed(r, d) == due' = [due EXCEPT ![r] = BeaconDue(r, d)]

Beacon(r) ==
    /\ Runs(r)
    /\ \/ /\ Transmits(r)
          /\ Sent("position", {r})
          /\ quiet' = [quiet EXCEPT ![r] = 0]
       \/ /\ ~Transmits(r)
          /\ air' = {}
          /\ UNCHANGED <<counter, quiet>>
    /\ \E d \in NextDelays(CountActiveOn(peers, r, now), Airtime[r]) : Rearmed(r, d)
    /\ shown' = {}
    /\ UNCHANGED <<setup, clock, now, age, rxVars, enabled, peers, cursor>>

(***************************************************************************)
(* sendAnnounce: to every radio that transmits, sealed for each.           *)
(***************************************************************************)
AnnouncedOn == {r \in Radio : Transmits(r)}

Announce ==
    /\ Runs(AnnounceTimer)
    /\ due' = [due EXCEPT ![AnnounceTimer] = NextDue(AnnounceTimer)]
    /\ Sent("announce", AnnouncedOn)
    /\ shown' = {}
    /\ UNCHANGED <<setup, timeVars, rxVars, enabled, peers, cursor>>

Expire ==
    /\ Runs(ExpireTimer)
    /\ due' = [due EXCEPT ![ExpireTimer] = NextDue(ExpireTimer)]
    /\ peers' = Expired(peers, now)
    /\ air' = {} /\ shown' = {}
    /\ UNCHANGED <<setup, timeVars, rxVars, enabled, counter, cursor>>

(***************************************************************************)
(* onMspRadarTick: the first entry at or after the cursor is shown and the *)
(* cursor left just past it.                                               *)
(***************************************************************************)
After(i, k) == (i + k) % NumSlots

CursorPast(i) == After(i, 1)

\* Mutant: the cursor is not moved past a slot that is free.
RadarAtCursor ==
    /\ Runs(RadarTimer)
    /\ due' = [due EXCEPT ![RadarTimer] = NextDue(RadarTimer)]
    /\ shown' = IF peers[cursor].valid THEN {cursor} ELSE {}
    /\ cursor' = IF peers[cursor].valid THEN CursorPast(cursor) ELSE cursor
    /\ air' = {}
    /\ UNCHANGED <<setup, timeVars, rxVars, enabled, peers, counter>>

Radar ==
    /\ Runs(RadarTimer)
    /\ due' = [due EXCEPT ![RadarTimer] = NextDue(RadarTimer)]
    /\ \/ /\ \A i \in Slot : ~peers[i].valid
          /\ shown' = {}
          /\ UNCHANGED cursor
       \/ \E k \in Slot :
            /\ peers[After(cursor, k)].valid
            /\ \A m \in 0 .. k - 1 : ~peers[After(cursor, m)].valid
            /\ shown' = {After(cursor, k)}
            /\ cursor' = CursorPast(After(cursor, k))
    /\ air' = {}
    /\ UNCHANGED <<setup, timeVars, rxVars, enabled, peers, counter>>

EndIteration ==
    /\ pc = "poll"
    /\ Waiting = {}
    /\ pc' = "top" /\ at' = 0
    /\ air' = {} /\ shown' = {}
    /\ UNCHANGED <<setup, timeVars, rxVars, enabled, peers, counter, due, cursor>>
-----------------------------------------------------------------------------
Loop ==
    \/ StartIteration
    \/ ServiceRx
    \/ Drained
    \/ Receive
    \/ \E r \in Radio : Beacon(r)
    \/ Announce
    \/ Expire
    \/ Radar
    \/ EndIteration

Next ==
    \/ Loop
    \/ \E r \in Radio, f \in Frame : Arrive(r, f)
    \/ \E e \in SUBSET Radio : Configure(e)
    \/ \E d \in 1 .. MaxLag : Advance(d)

Spec == Init /\ [][Next]_vars

(***************************************************************************)
(* The loop never stops, the clock never stops, and a radio's ring, which  *)
(* the loop empties faster than frames can come in, is found empty at some *)
(* point, so its drain loop ends.                                          *)
(***************************************************************************)
FairSpec ==
    /\ Spec
    /\ WF_vars(Loop)
    /\ WF_vars(\E d \in 1 .. MaxLag : Advance(d))
    /\ SF_vars(Drained)
-----------------------------------------------------------------------------
Queued == [frame : Frame, stamp : Time]

TypeOK ==
    /\ setup \in Setup
    /\ {clock, now} \subseteq Time
    /\ pc \in {"top", "read", "drain", "poll"}
    /\ at \in Job \cup {RadarTimer + 1}
    /\ ring \in [Radio -> Seq(Queued)] /\ \A r \in Radio : Len(ring[r]) <= RingUsable
    /\ enabled \subseteq Radio
    /\ peers \in [Slot -> Peer]
    /\ slots \in [Replay!ReplayIndex -> Replay!ReplaySlot]
    /\ counter \in 0 .. MaxCounter
    /\ due \in [Job -> Time \cup {Unarmed}]
    /\ cursor \in Slot
    /\ air \subseteq [radio : Radio, kind : {"position", "announce"}, counter : 0 .. MaxCounter]
    /\ shown \subseteq Slot
    /\ age \in [Uid -> 0 .. MaxAge]
    /\ quiet \in [Radio -> 0 .. MaxQuiet]

(***************************************************************************)
(* A peer that has gone silent is gone from the table, within the timeout, *)
(* an expiry period and the lag of the loop.                               *)
(***************************************************************************)
SilentPeersGo ==
    \A u \in Uid : Present(peers, u) => age[u] <= PeerTimeout + ExpireEvery + 2 * MaxLag

(***************************************************************************)
(* Expiry drops a peer that has been silent for the timeout, give or take  *)
(* the time a frame waits in a ring, or else one whose newest frame was    *)
(* stamped after this iteration read the clock (see JustHeardKept).        *)
(***************************************************************************)
HeardSinceTop(i) == Elapsed(peers[i].update, now) \in 1 .. MaxLag

DropsJustified ==
    [][Expire => \A i \in Slot : peers[i].valid /\ ~peers'[i].valid =>
            age[peers[i].uid] + MaxLag > PeerTimeout \/ HeardSinceTop(i)]_vars

(***************************************************************************)
(* peer_table.h: "Invalidate peers not heard within the timeout."  No peer *)
(* just heard is dropped.                                                  *)
(***************************************************************************)
JustHeardKept ==
    [][Expire => \A i \in Slot : peers[i].valid /\ ~peers'[i].valid =>
            age[peers[i].uid] + MaxLag > PeerTimeout]_vars

(***************************************************************************)
(* However late the loop, two beacons of a radio are never closer than the *)
(* shortest delay the rate controller can give, less that lag: missed      *)
(* beacons are not made up for in a burst.                                 *)
(***************************************************************************)
BeaconSpacing ==
    [][\A f \in air' : f.kind = "position" =>
            quiet[f.radio] >= ShortestDelay(f.radio) - MaxLag]_vars

(***************************************************************************)
(* node.cpp, sendAnnounce: no two frames on the air carry the same frame   *)
(* counter; each is one the counter had not reached before.                *)
(***************************************************************************)
CountersFresh ==
    [][setup.encrypted => \A f \in air' :
            /\ (f.counter - counter) % (MaxCounter + 1) \in 1 .. Cardinality(Radio)
            /\ \A g \in air' : f.counter = g.counter => f = g]_vars

(***************************************************************************)
(* A radio that is on keeps sending beacons and announces, also after it   *)
(* has been off, when its timer found nothing to send.                     *)
(***************************************************************************)
BeaconsResume ==
    \A r \in Radio \ ReceiveOnly, kind \in {"position", "announce"} :
        ~setup.listenOnly /\ <>[](r \in enabled) =>
            []<>(\E f \in air : f.radio = r /\ f.kind = kind)

(***************************************************************************)
(* Every entry that stays in the table is shown to the radar sink again    *)
(* and again, listen-only node or not: none is starved by the others.      *)
(***************************************************************************)
RadarShowsEveryPeer ==
    \A i \in Slot : <>[](setup.radar /\ peers[i].valid) => []<>(i \in shown)
=============================================================================
