# A TLA+ model of FormationFlight

FormationFlight tells aircraft that fly together where the others are. A module
on each aircraft reads its position from the flight controller (or its own
GNSS), broadcasts it over ESP-NOW and LoRa, shows the flight controller the
peers it hears, and can make it follow one of them. This directory holds a model
of the v2 firmware: the hardware-free core in `lib/ff_core`, the drivers in
`src/hal`, and `src/main.cpp`.

Three facts about the firmware make most of what can go wrong here:

* all time is `millis()`, an unsigned 32-bit count that wraps after 49.7 days;
* almost everything runs in one loop, `loop()` in `main.cpp`, but the WiFi task
  delivers ESP-NOW frames, interrupt handlers set flags, and the web server's
  task, which on an ESP32 has the higher priority, changes configuration,
  transmit power, simulated peers and the flash while the loop is at work;
* everything outside may fail: frames and answers are lost, repeated and
  reordered, the flight controller and the GNSS module restart, power is cut.

## Components

| Component | State | Operations | What is hard | What makes it correct |
|---|---|---|---|---|
| `SpscRing` (`ring_buffer.h`) | slots, `head_`, `tail_`, `dropped_` | `push` in one task, `pop` in another | two tasks without a lock; full and empty | a FIFO of `N - 1`; no slot read and written at once |
| `Scheduler` | up to `kMaxTimers` timers | `after`, `every`, `rearm`, `cancel`, `poll` | callbacks change the table `poll` walks; stalls; wrap | nothing early, nothing left behind, no bursts |
| `PeerTable` | `kMaxPeers` entries with stamps | `updatePosition`, `updateAnnounce`, `expire`, counts | full table; wrap; stamps newer than "now" | one clean entry per peer; the silent go, the others stay |
| `CcmCrypto` | transmit counter, replay slots | `encrypt`, `decrypt` | reordering between a fast and a slow radio, repeats, reboots | accepted once; only repeats and the too old rejected |
| `RateController` | configuration | intervals | zero and boundary values | interval between its limits |
| `Node`, `RadioHub`, `loop()` | jobs, radar cursor, the loop's copy of the clock | `onReceive`, beacon, announce, expiry and radar jobs | a clock read early and used late; a late loop; radios switched off and on | see `Node` below |
| `RadioLoRa`, `TxSlot` | chips, transmit state, one held-back frame | `transmit`, `serviceRx`, `setPower` | interrupt against watchdog; two chips; another task | never stuck, no frame cut short, each frame heard once |
| `FollowController` | lock, last good slot, course, outputs | `service`, `applyConfig` | a lock lost and regained, stale positions, reconfiguration in mid-cycle | never steers on a stale or foreign position, nor through the leader |
| `MspFcLink` | polling schedule, cached telemetry | `service`, `handleFrame` | lost replies, restarts, flags read through a box list | stale telemetry is not believed; the link comes up |
| `DirectGps` | sweep, speed, cached position | `service` | unknown speed, old modules, silence | the module is found, no old position given out |
| `ConfigStore` | two files in flash | `begin`, `load`, `save` | power lost or a step failing in a save | the settings last saved survive |
| `WebServer` | upload state, the settings in memory | HTTP handlers in another task | two uploads at once, a hung one; restarts | the loop is released; the image is whole |
| `SimRadio` | simulated peers with counters | `setPeer`, `removePeer`, `clear`, `service`, `popRx` | edits in the middle of the loop's walk | listed peers are heard, removed ones fade |
| `FrameLog`, `LogRing`, `LoopStats` | recent entries and a running total | `add`, `/api/frames` | read in the middle of an add; a reader behind by more than the ring | no frame lost uncounted or shown twice |
| `MspParser`, `UbxParser` | a byte state machine each | `feed` | resynchronising after noise | test vectors |
| Wire protocol, radar message, airtime, bands, geometry, cipher | none | pure functions | byte layout, floating point | test vectors |
| Configuration fields, pin layout, board power | read at boot | validation | none over time | |
| Web pages, scripts, v1 libraries | not part of the firmware | | | |

`PROJECT.json` lists each with its status, and the hazards of the code at the
line where each bites.

## Modules

    BoundedFifo <--- SpscRing <-+- SpscRingProofs (with Simulator, FrameLog)
                                +- MCTasks (with Simulator, FrameLog, Scheduler)
    Millis <-+- Scheduler <--- SchedulerProofs
             +- Peers <-+- PeerTable <-+- MCPeerTable
             |          |              +- PeerTableProofs
             |          +- Node <-+- MCNode
             |                    +- NodeProofs
             +- ReplaySlots <-+- CcmCrypto <-+- MCCcmCrypto
                              |              +- CcmCryptoProofs
                              +- Node (as Replay)
    Rates <--- Node
    Transmitter <--- RadioLoRa <--- RadioLoRaProofs
    Slots <--- Follow <-+- FollowProofs (with FcLink)
                        +- MCFollow (with FcLink)
    ConfigStore, Upload, Gnss <--- Board <-+- MCBoard
                                           +- BoardProofs

### Time, timers, peers and frames

**`Millis`** is the clock: stamps modulo `2 * TimeHalf`, subtraction as an
unsigned age (`Elapsed`) and the signed comparison `reached` of `scheduler.h`.
The firmware has `TimeHalf = 2^31`; the runs have 3 to 5, so that the clock wraps
many times in every run.

**`BoundedFifo`** is what a ring promises: a queue whose `put` counts a drop
when it is full. **`SpscRing`** breaks `push` and `pop` into the accesses the
other task can see apart (load the indices, touch the slot, publish the index),
takes the stored release and acquire order as the order of the steps, and
implements `BoundedFifo` through `ImplementsFifo`: the queue is the slots from
`tail` to `head`, an item taken when its slot has been released.

**`Scheduler`**: `Poll` takes the snapshot, `Fire` calls the next due timer,
and until `Return` the callback may call `After`, `Every`, `Rearm` and `Cancel` on
any timer; `Finish` computes the delay returned. History variables carry the true
time left to each deadline, without the wrap, and the properties compare the
code's arithmetic with it. A callback may also cancel a timer that is due and
register a new one, which `alloc` puts in the same slot; the snapshot is of slots,
so the loop then calls the new timer at once, though the comment at
`scheduler.cpp:70` says it will not, and likewise one that is rearmed. `NeverEarly`
states this exception. No callback of the node does that.

**`Peers`** has the operations of `PeerTable` as operators on a table, because
two machines use them. A peer's data is abstracted to whose it is (`place` and
`name`: the uid of the node that sent them). **`PeerTable`** is the machine with
the one clock its callers are asked for.

**`ReplaySlots`** has the replay slots and the sliding window as operators: the
bitmap is the set of offsets whose bit is set. **`CcmCrypto`** is `decrypt`,
offered any frame of `Frame` at any time, hence with loss, repetition and
reordering. The cipher is abstract: a tag verifies when the frame is one a sender
made.

**`Rates`** is the pacing arithmetic in exact rationals, rounded where the code
rounds; jitter is a choice over the interval it spans.

**`Node`** composes them: one iteration of `loop()` reads the clock into `now`,
services the radios in the hub's order (`ServiceRx`, then `Receive` until
`Drained`), and polls the timers with that same `now` (`Beacon`, `Announce`,
`Expire`, `Radar` in slot order). `Advance` lets the clock move anywhere in
between, so frames are stamped later than `now`; `Arrive` is the WiFi task's
`ingest`, `Configure` the web task's `applyLiveConfig`. The receive rings are the
bounded queues `SpscRing` implements, and `poll` is one whose callbacks touch
their own timer only. A frame has a *form*, which says which of the checks of
`onReceive` it fails.

### Radios

**`Transmitter`** is what the LoRa driver promises: a queue of the frame on the air
and one held back; a third is refused and counted. **`RadioLoRa`** is the driver and
the one or two chips under it. `Transmit`, `Hold` and `Drop` are the three outcomes
of `transmit()`; `ServiceRx` is one call of `serviceRx`, composed of the
watchdog, the reading of every chip that raised its flag, the copies dropped, the
held-back frame sent, and the chips put back to listening. `TxDone`, `Catches`,
`RxDone` and `CrcError` are the chips' side: an interrupt may be missed, a frame
damaged or heard by one chip only. `SetPower` and `ApplyPower` are `setPower` in the web
server's task, cut between its look at `transmitting_` and what it does about
it. `tx_index_`, chosen by averages of signal strengths, may become any chip.
A frame on the air is read as finished only on the chip `tx_index_` names, so when
that changes meanwhile only the watchdog ends the frame; `disturbed` remembers that,
and `WatchdogJustified` says nothing else makes it fire.

**`Simulator`** is the virtual radio, with the peer table and the replay check
of its own node. The loop's `service`, `emit` and `popRx` are broken into the steps
a handler can fall between; a handler runs to its end, since it preempts the loop.
**`FrameLog`** has the three steps of `add`, `/api/frames` falling between any of
them, and the page that polls it.

### Following

**`Slots`** is the geometry of the slot: sanity, the sign lock, what sticks make of
an axis, in whole steps of a grid, lengths compared by their squares. **`Follow`** is
the controller, a tick being one control cycle. A cycle that gets as far as a slot is
cut into `Judge` (decided from the configuration found) and `Emit`
(what it then does), because `applyConfig` can come between them. Stick positions,
gate, arming, fixes, course validity and losses are any values in any cycle. A
course is abstracted to whose it is, a position to its age, which is -1
when it was stamped after the loop read the clock and then wraps.

**`FcLink`** is the link to the flight controller: a tick is the status interval; the loop drains
the replies (`HandleFrame`), sends what is due (`SendRequests`), and runs the follow controller,
which uses the altitude reported and asks for it while the gate is open. Requests and replies are
sets taken in the order in which `service` sends (`Place`, `IsNext`), since there is at most one of
each kind on its way. Answers are lost (`Lose`); the flight controller changes modes, and restarts
with another box list, which is what the mode flags are indexed by. What it hands `Follow` is among
the inputs `Follow` takes as arbitrary, so the two need not be composed, and `MCFollow` examines one
at a time.

### The board

**`ConfigStore`**: the settings in memory, `/config.json`, `/config.new`, and the four steps of a
save, each of which may fail, with `Halt` (power lost, or a restart) between any two; `Mount` and
`Load` are the start of the node (`boot` is "blind" when a file that is there could not be opened, and
is about to be taken for a first boot; `sound` rules out all failures but of the power), `PostConfig`, `PostSave` and `PostReset` the web handlers. A file
holds settings, nothing, or what cannot be read. **`Upload`** is the firmware upload, chunk by
chunk, from several clients that share one status, one flag and one `Update` object; `Leave` is a
connection that drops. **`Gnss`** is the driver of a GNSS module: the sweep through the speeds, the
request for the messages wanted, the fallback for an old module, the silence watchdog; and the
module and the line, which loses orders, answers and messages. `service` is cut into `Read`, which
handles one message and answers a refusal at once, and, with nothing left to read, the one step of
the tick (`SweepStep`, `Settle` or `Watch`). `SettleTime` is what the search may take: the sweep has
just passed the module's speed, finds nobody, waits out the silence, and begins again. **`Board`**
composes them as `main.cpp` does: an upload parks the loop and with it the GNSS driver, a restart
ends all three, and one asked for at the instant 0 never comes.

## What is checked

Every property has a mutated definition under which TLC finds it violated
(`PROJECT.json`, `mutants`), so none holds just because of how the model is made.

| Run | Instance | Shows |
|---|---|---|
| `tasks` | a ring of 4; 2 simulated peers in 2 places, 3 changes, 8 units; a log of 3, 8 frames, 1 restart; 2 timers, delays up to 2, stalls up to 3, 2 calls per callback. One of the four per behaviour; 1,046,827 states | `NoDataRace`, `ImplementsFifo`, `OldestFrameDelivered`: the ring is a FIFO and what is in it comes out. `SimPeersHeard`: a listed peer is heard within the resync time and one unit, whatever handler interrupted what. `GhostsFade`: a removed one counts as present for the timeout at most. `FramesAccounted`: each logged frame is shown or counted as missed, but for one per poll that caught the loop in `add`. `NothingOverdueAfterPoll`, `NeverEarly`, `PeriodicKeepsFiring`: timers fire when due, whatever a callback rearms or cancels |
| `peer_table` | 2 slots, 3 peers, 2 radios, no wrap; 894,096 states | `CountsAreTrue`: what pacing takes for the peers of a radio |
| `replay` | 2 slots, 3 senders, one with counters 0 to 3, window 2; 75,656 states | `NoRepeatInsideWindow`, `RejectionsJustified` |
| `replay_once` | one sender, counters 0 to 5 | **violation** of `AcceptedOnce` |
| `node` | 2 radios, 2 slots, a lag of 2; four set-ups: hearing a peer and the own echo, sending with a radio switched on and off, sending encrypted, sorting frames of every form; 282,961 states | `SilentPeersGo`, `DropsJustified`, `BeaconSpacing`, `CountersFresh`, `BeaconsResume`, `RadarShowsEveryPeer` |
| `node_expiry` | a listen-only node that hears one peer | **violation** of `JustHeardKept` |
| `lora` | 2 chips, 2 frames out, 2 in, a lag of 1; 334,048 states | `WatchdogJustified`, `EachFrameOnce`, `FrameGoesOutWhole`, `ImplementsTransmitter`, `HeldFrameGoesOut` |
| `follow` | 2 peers, 4 configurations, a stick on up to 2 axes; 2 box lists; 1,527,245 states | `OnlyLeaderChased`, `CourseOfLeader`, `ConfiguredSlotFlown`, `ThrottleLetGo`, `LockHeld`, `SlotPassesClear`; `ModesTrue`, `BeliefsExpire`, `AltitudeCurrent`, `LinkComesUp` |
| `follow_cross` | the same | **violation** of `SlotNeverCrossesLeader` |
| `board` | 4 settings, 3 requests; 2 clients, 3 uploads of 2 chunks; 2 speeds. One of: settings, with a flash that fails or a sound one, uploads, a module during one upload; 786,218 states | `SavedSurvives`, `FileKept`, `BannerShown`, `FlashWhole`, `LoopReleased`, `PositionFresh`, `ModuleFound` |
| `board_power_loss` | settings saved before, in a flash that never fails (`SoundSpec`) | **violation** of `OldOrNewSurvives` |
| `board_unopened` | as `board` | **violation** of `FileUntouched` |

Many of these state exceptions, which are what the code does and a reader of it may
not expect; the comment at each property names them, and the next sections
collect them. Type invariants, and invariants that a proof establishes for all
values (`DeadlinesSurviveWrap`, `SleepHintSafe`, `UniqueUid`, `RecentlyHeardKept`,
`NothingInherited`, `EvictsLeastRecent`, `UniqueSlot`, `WindowIsExact`, `SlotTakenFromLeastRecent`,
`ListensWhenIdle`), are not checked in a run again.

### Bounds

* `TimeHalf` 3 to 5: delays, timeouts and lags must stay below it, as they do below
  2^31; a few units are enough for one event before, at and after each deadline,
  on either side of the wrap.
* `MaxStall`, `MaxStep`, `MaxLag`: how far the clock may move between two steps. In
  `tasks` a stall outlasts every period; in `Node` a lag of two suffices for a stamp
  to be later than `now` and for a timer to be served late. In
  `RadioLoRa`, `Airtime + MaxLag <= Timeout` says that the loop does not stall so long that
  a frame already sent looks overdue: `kTxTimeoutMs` is 500 ms.
* `MaxAge`, `MaxQuiet`, and the ages of `RadioLoRa`, `Follow`, `FcLink` and `Gnss`: histories and
  ages saturate past the largest value the code or a property looks at.
* `MaxSince` (`CcmCrypto`): a tracked sender is not silent for 2^31 ms. Slots are
  never freed, so after 25 days of silence one would look newer than all others.
* `MayWrap = FALSE` in `peer_table`: the clock stays below 2^32 there. `allocSlot` compares
  stamps with a plain `<`, so after a wrap it evicts the wrong entry.
* `MaxCounter`, `WindowBits`: 2 bits of window, and counters that cross it in jumps
  smaller than, equal to and larger than it.
* `CountMod`, `DropMod`: counters wrap; they are compared modulo the same number.
* `MaxOps`: calls one callback makes: enough to cancel a timer and reuse its slot.
* `MaxEdits`, `MaxUnits` (`Simulator`): three changes suffice to add two peers and remove
  one, or to add, remove and add again, which reaches the bound of `SimPeersHeard`; eight units are
  longer than the resync time and both timeouts.
* `MaxLogged`, `MaxReboots`, `MaxCaught` (`FrameLog`): more frames than twice the log holds,
  on both sides of a restart.
* `Flight` (`FcLink`): what may vary and what may be lost in one behaviour; each answer is lost
  in one of them.
* `MaxRequests`, `MaxUploads`, `Chunks` (`Board`): a change, a save and a reset or second save;
  two uploads at once and one after; a first and a last chunk.
* `Silence`, `Bauds` (`Gnss`): 2 ticks and 2 speeds, where the firmware has 20 and 5; the proofs are for any number.
* `RxCap` (`Gnss`): messages that wait while the loop is parked; the rest is lost, as in the serial driver.

### Fairness

* `SpscRing`, also in `tasks`: weak fairness of the consumer's steps, since the loop pops in
  every iteration; none of the producer's.
* `Scheduler`, also in `tasks`: a callback returns and `poll` ends (weak), and polls that find the clock advanced
  recur (strong, because other calls come in between): the loop calls `poll` in each
  iteration, and `millis()` counts.
* `Node`: the loop takes steps and the clock moves (weak). `Drained` is strongly
  fair: `RadioHub::service` pops until the ring is empty, so with frames
  arriving faster than they are handled it would never end; that radios are
  slower than the processor is an assumption.
* `RadioLoRa`: `serviceRx` is called, a chip on the air finishes, a chip that caught a frame
  finishes receiving it, and time passes (all weak). That interrupts are seen is not
  assumed.
* `Board`: of a request whose body has begun another chunk arrives, it is answered, or its connection
  drops (weak), a TCP connection doing one of the three; a save goes on; the loop carries out a
  restart that is due. No client is assumed to finish.
* `Follow`, `FcLink`, `Gnss`, `Simulator` and `FrameLog` state what must happen within so many ticks
  as invariants, since a tick cannot pass before the loop has run; they need no fairness.

## Where code and documents disagree

Shown by a run:

* `node_expiry`: `loop()` reads `now` first, and `expire` gets it after frames
  with later stamps were received; their unsigned age wraps and the peer
  just heard is dropped until its next frame. `DropsJustified` says that expiry drops
  nobody else too early. In the encrypted case the same difference makes a replay slot
  restart its sequence early.
* `replay_once`: an advance of the counter by exactly `kReplayWindowBits` clears the
  whole bitmap, including the bit for the previous newest counter, which
  is then still inside the window. `NoRepeatInsideWindow` is the rest of the promise.
* `follow_cross`: two axes that change sign in one cycle each count on the other to keep clear
  (`axisSignLocked`), so the slot goes from one corner to the opposite one through the leader.
* `board_power_loss`: `save` removes the live file before it renames the new one; with power lost
  between the two the next start finds no file, takes that for a first boot and
  writes the defaults. The run starts from a file saved before, in a flash that never fails, so that
  only the power can be to blame.
* `board_unopened`: `load` takes `!f` for a first boot (`ConfigStore.cpp:52`). A file that is there
  and cannot be opened, for a flash error or for want of memory, is replaced by the defaults,
  against `ConfigStore.h:31-33`. `FileKept` says that a start replaces no other file, readable or not.

Met while modelling, each an exception or a bound of the model:

* `allocSlot` compares stamps across the wrap with `<` (`peer_table.cpp:31`, against
  `peer_table.h:90`).
* The duty-cycle ceiling is spent on beacons; announces go out on top (`rate_control.h:37`,
  `node.cpp:161`), and it is applied before the jitter.
* The banner that a restart is needed is raised for the passphrase, the LoRa band and radios off at
  boot (`Checked`, `Radios`), but not for the WiFi settings (the rest of `BootParts`), which the guide
  lists (`docs/user-guide-follow-mode.md:251-261`, `main.cpp:121-123`). For what `applyLiveConfig`
  does look at, `BannerShown` says that the banner is right after any sequence of changes, saves,
  resets and restarts.
* A peer removed from the simulator and added again within the resync time restarts its counter at
  0: it is not heard until it has counted past its predecessors of the same uid or the resync time
  is over, and its one announce is rejected as a repetition, so it stays nameless. A uid generated after a
  removal may be one in use, whose peer it then replaces. `clear` in the middle of `emit` or `popRx`
  makes the queue deliver old frames again, and a copy left by a removal uses counters, and so CCM
  nonces, twice.
* The System page never counts missed log lines (`docs/v2-web-api.md:522-524`); neither page notices
  what a restarted node logs below its old cursor.
* A write to flash that is cut short is noticed only when nothing was written; a rename that fails
  leaves no live file. The first start saves the defaults and then the name and passphrase flashed
  into the image; with power lost between the two it never takes those over.
* A client that drops in the middle of an upload leaves the loop parked, as does a restart asked for
  at the instant 0; two uploads at once can be mixed into one image.
* An old GNSS module of which some of the older messages are on is never asked for the rest; any
  message of it, not only its position, keeps the driver content.
* The first waypoints after the gate opens use the altitude of the last time, or zero. Another
  target set with the gate open keeps the course of the old one.
* The age of a peer that the status page shows wraps like the one in `expire`.

## What is proved

TLAPS proves the following for **every** value of the constants that meets the named assumptions. In
each module an inductive invariant comes first, with one lemma per action (`IInv`; `NodeInv` and
`BeaconInv` in `NodeProofs`, and `LinkInv`, `SimInv`, `LogInv`, `GnssInv` for the parts that share a
module); the theorems follow from it.

| Module | For every | Theorems |
|---|---|---|
| `SpscRingProofs` | capacity of two or more, set of items | `TypeCorrect`, `RaceFree` (`NoDataRace`), `RingImplementsFifo` (each step of the ring is a put, drop, take or stutter of `BoundedFifo`) |
| | list of the simulator, queue of two frames per peer or more, timeout, resync time, number of changes | `GhostsDoFade` (`GhostsFade`), `ListedPeersHeard` (`SimPeersHeard`) |
| | size of the log and of a reply, number of frames, restarts and polls caught | `FramesAreAccounted` (`FramesAccounted`) |
| `SchedulerProofs` | number of timers, delays and stalls, calls per callback | `TypeCorrect`, `DueTestCorrect` (`DeadlinesSurviveWrap`), `NothingLeftBehind` (`NothingOverdueAfterPoll`), `NoEarlyCall` (`NeverEarly`), `HintIsSafe` (`SleepHintSafe`) |
| `PeerTableProofs` | number of slots, set of nodes and radios | `SlotAlwaysFound`, `TypeCorrect`, `OneEntryPerPeer` (`UniqueUid`), `RecentPeersKept`, `EntriesAreClean` (`NothingInherited`), `LeastRecentEvicted` (`EvictsLeastRecent`) and `CountsCorrect` (`CountsAreTrue`), both below the wrap |
| `CcmCryptoProofs` | number of slots, window width, set of senders and frames | `TypeCorrect`, `OneSlotPerSender` (`UniqueSlot`), `WindowCorrect` (`WindowIsExact`), `NoRepeatAccepted` (`NoRepeatInsideWindow`), `OnlyOldRejected` (`RejectionsJustified`), `LeastRecentLoses` (`SlotTakenFromLeastRecent`) |
| `RadioLoRaProofs` | one or two chips, air time, timeout and lag, set of frames | `TypeCorrect`, `IdleMeansListening` (`ListensWhenIdle`), `TimeoutsJustified` (`WatchdogJustified`), `FramesWhole` (`FrameGoesOutWhole`), `FramesHeardOnce` (`EachFrameOnce`), `DriverImplementsTransmitter` (`ImplementsTransmitter`) |
| `FollowProofs` | set of peers and configurations, timeout, heartbeat | `TypeCorrect`, `LockIsHeld` (`LockHeld`), `ChasesOnlyLeader` (`OnlyLeaderChased`), `CourseIsLeaders` (`CourseOfLeader`), `ConfiguredSlotIsFlown`, `ThrottleIsLetGo`, `SlotKeepsClear` (`SlotPassesClear`, for every separation and gap) |
| | box lists, polling intervals and staleness limits of the link that keep the order of the shipped ones | `LinkTypeCorrect`, `ModesAreTrue` (`ModesTrue`), `BeliefsDoExpire` (`BeliefsExpire`), `AltitudeIsCurrent` (`AltitudeCurrent`), `LinkDoesComeUp` (`LinkComesUp`) |
| `NodeProofs` | number of radios (for the counters: below their range), slots and nodes, lag, periods, timeout | `TypeCorrect`, `NoCounterTwice` (`CountersFresh`), `BeaconsSpaced` (`BeaconSpacing`), `SilentPeersLeave` (`SilentPeersGo`), `DropsAreJustified` (`DropsJustified`) |
| `BoardProofs` | set of settings, of clients, length of a body, of requests; list of speeds, silence | `TypeCorrect`, `SaveIsAtomic` (`SavedSurvives`), `FileStays` (`FileKept`), `BannerIsShown` (`BannerShown`), `ImageIsWhole` (`FlashWhole`), `PositionIsFresh` (`PositionFresh`), `ModuleIsFound` (`ModuleFound`) |

**The ring.** `TypeOK` alone does not exclude that the producer
writes the slot the consumer is reading. What does is what the code relies on
without saying: a producer past its check still has room, because only the
consumer moves `tail` and only moves it away (`ProducerHasRoom`); a consumer past its
check still has a frame (`ConsumerHasFrame`); and what each side has copied is still what the
slot holds (`WrittenIsItem`, `CopiedIsOldest`).

**The scheduler.** The argument is about the *signed distance* from `now` to a
deadline, which the lemmas show to add and subtract like an integer while it stays below
half the range. `DeadlinesTrue` says that it is the true time left; `PendingDue` and
`OthersAhead`, that the loop divides the active timers into those it has still to
call, whose time is up, and the others, which have time left, each save those armed since
the poll began. `SchedulerAssumption` asks for stalls below half the clock's range (25
days) and delays below a quarter (12 days): a timer rearmed while it is pending can have one delay left
when it fires, and a period is then added to it. The node's periods
are two seconds or less as shipped, though `rate.max_interval_ms` has no upper bound in `config.cpp`.

**The peer table.** An entry's stamp is its owner's true age, in clock arithmetic (`Stamped`); with
`UniqueUid`, `RecentlyHeardKept`, `NothingInherited` and what eviction leaves (`EvictedAreAbsent`)
it is inductive. `StampsInOrder` is vacuous once the clock may wrap, which is why
`LeastRecentEvicted` assumes `~MayWrap`. So does `CountsCorrect`, and not for convenience: the
stamps per radio of an entry are not refreshed by frames on another radio, so one may stay until the
clock has come round and then counts as new again (`RadiosTimed` is what holds below the wrap). The
well-foundedness of `<` gives a first slot to every search.

**The replay window.** `Exact` says of one slot that its bitmap and newest counter stand for
the set of counters accepted; its lemmas say that sliding and filling in keep it so. The
theorem is stated as the code is: `NoRepeatAccepted` excepts the counter at
the window's far edge (see `replay_once` above). `OlderIsOlder` shows the signed comparison of
`slotFor` right, under the bound `MaxSince`.

**The LoRa driver.** `QueueAgrees` ties the driver's flags to the abstract queue, `OneOnAir` the
chips to `transmitting_`. Only a chip that listens hears (`OnlyListenersHear`). What makes the
watchdog right is `EndIsSeen`: an undisturbed frame is on the air on `tx_index_`'s chip, or that
chip has finished it and raised its flag, and since `serviceRx` last ran no more than the lag has
passed, so the loop looks before the timeout. That a frame is heard once rests on the copy: whatever
a chip still holds of the frame last handed up came no earlier than the last reading, hence within
the window in which copies are dropped (`CopiesKnown`), when that is longer than the lag, which the
theorem assumes.

**Following.** `LockAgrees` relates the lock's state to the peer locked; `CycleHasLeader` and
`CycleHasSlot` say what the first half of a cycle has established for the second, whatever
configuration is applied in between; `WrongSinceWrite` and `CycleReported`, that a GVAR that is
wrong has been so for no longer than the heartbeat, which the cycle's report ends. That the slot
passes clear of the leader is arithmetic: on an axis that is not crossed a point of the way keeps a
share of each end's distance (`AxisKeepsShare`), since the mixed product has no negative sign; the
shares of what `axisSignLocked` asks of the two axes not crossed add up to half the square of the
minimum separation at least (`SharesSuffice`). With two axes crossed each check counts on an axis
that is crossed as well: hence the exception. `VerdictStands` says that the verdict is about the
slot still in force.

**The node.** A frame that goes out on several radios is sealed once for each, in ascending order,
so its counters are the places of the radios among them (`Places`), all different and, while the
radios are fewer than the counter's range, not brought back together by its wrap (`StepsBack`).

The other promises are about time, with three clocks in play: the true one, the loop's copy of it,
and the stamps. They are related as ages. A timer is seen as the time since it was set for its
longest delay (`SinceRun`), which a poll finds between the lag of the iteration and that delay plus
two iterations (`TimerKept`); `reached` is right because what a timer has run past its deadline
stays below half the range (`WhenReached`). A radio's silence keeps up with its timer (`QuietKept`),
so beacons are spaced. For the peers, what waits in a ring came in since expiry last ran, and in
this iteration if the ring has been serviced; rings are FIFOs, and only one fed by the WiFi task
holds anything between iterations, so a frame is older than the newest of its sender by at most the
lag (`FrameKept`, `RingKept`); hence an entry's age is the true one up to the lag, and is never
above the timeout when expiry has run (`EntryKept`). This needs that at most one ring is fed by a
task, and that it is the first serviced: `TaskFed \subseteq {0}`, as `main.cpp:333` adds ESP-NOW to
the hub before LoRa and the simulator. With a second one, a frame could overtake an older one of the
same sender, and the entry would go back in time.

**The link to the flight controller.** The groups of `LinkInv` follow a belief back to its source.
An answer tells what was so when it was sent (`RepliesTrue`); what is believed was so no longer ago
than its answer and an iteration (`Believed`); the box list held is the right one, is being asked
for, or was asked for since the last restart (`BoxesPolled`), so flags read through a wrong list are
as old as the polling interval at most; an altitude that is needed was asked for in the iteration
before (`AltitudeAsked`). Identity is learnt in order, the variant first, and each part not yet
known was asked for less than a retry ago. `SteadyTime` turned out to be one lag and one tick,
tighter than first modelled.

**The simulator.** A frame bears a time from before its peer was removed, wherever it is: sealed,
queued, taken, or entered in the table (`Dated`, `EntryDated`). The loop can still make one for a
peer just removed, through its reference into the array or what it had already encoded, but only
until the unit in which the removal fell is over (`Emitting`, `Holding`), since an iteration does
not outlast it.

That a listed peer is heard (`HeardInv`) is argued about the units in which no handler interrupts,
since a handler that changes the list starts every count again. In such a unit the frames queued
number at most two per peer visited (`Smooth`), so with a queue of two slots per peer there is room
for one more, and each peer's frame of the unit is still to come, being emitted, queued or in the
loop's hand (`Serving`) until the node decides about it. If the node rejects it, it has heard the
uid within the resync time. The unit cannot end before the queue is empty. The property was first a
bound of three units, with the resync time only for a uid the node remembered when it was added; TLC
found no exception in three changes. The proof found no reason for it, and TLC then broke it with
seven changes (add 1, add 2, remove 1, remove 2, add 1, add 2, remove 1): frames of an earlier peer,
or made from a copy left by a removal, are still on their way when its uid is added again, and use
up its counters. The resync time and one unit is the bound for any number of changes, and `tasks`
reaches it.

**The frame log.** Entry by entry the log is the last frames added, shifted by what the add under
way has done (`LastAdded`). The page's account is kept between two bounds (`Balanced`): the frames
lost and the frames counted as missed differ by at most one per poll that caught the loop in an add;
such a poll may have got the frame at its cursor early, and is then one short in what it may still
miscount.

**The board.** What a commit is about to rename is what was asked for, or known to be cut short
(`WrittenBeforeCommit`); nothing is saved before `setup()` has read the file (`IdleAtStart`); and
`load` writes only where there was no file, unless it could not open the one there is
(`LoadFillsAbsent`). For the banner (`BannerInv`): what is saved is what is in memory (`SavesCfg`), so that
with a sound flash the file never holds anything that was not in force or announced when it was
in memory (`CfgAnnounced`, `FileAnnounced`). For the uploads: while no outcome is
known and a body is coming in, `Update` holds the beginning of one (`ImageBegun`), and what one
client alone has given it is the beginning of that client's body (`ImageInOrder`).

For the GNSS module `GnssInv` bounds, in each state the search passes through, how long nothing can
have been lost: the module's speed is ahead of the sweep or was passed by it (`SweepReaches`); it
has been given no order yet, and refuses or is given up (`SilentSought`, `RefusedRecently`); it was
asked for all it should send and is heard in the next tick (`HeardSoon`). The age of a valid
position follows from where the sweep is or how long the driver has waited (`ValidRecently`,
`OldPositionFirst`). The first form of `ModuleFound` allowed for one sweep and a silence; the proof
did not go through, and TLC then showed, with four speeds, that a module whose speed the sweep has
just passed needs two. Two speeds, as in the run, do not tell the two bounds apart.

The assumptions are those the modules name: `TimeHalfAssumption`, `CapacityAssumption`,
`DropModAssumption`, `ItemAssumption` (an empty slot holds no frame), `SchedulerAssumption`,
`PeersAssumption`, `PeerTableAssumption` (the timeout fits the clock), `ReplaySlotsAssumption`,
`CcmCryptoAssumption`, `RatesAssumption`, `NodeAssumption`, `NodeTimeAssumption` (delays, periods
and timeout, with two iterations, are shorter than the clock's range; histories are counted far
enough), `ChipAssumption`, `ContentAssumption`, `DurationAssumption` (the loop does not stall for
the timeout), `DropAssumption`, `SepAssumption`, `UidAssumption`, `TimesAssumption`,
`ConfigAssumption`, `LinkAssumption` (identity is retried at least as often as boxes are polled, and
an iteration does not outlast the staleness of the status; the shipped intervals meet it),
`SimulatorAssumption` (the queue has two slots per peer, as the shipped 8 and 4 do),
`FrameLogAssumption`, `SettingsAssumption`, `UploadAssumption`,
`GnssAssumption` (a silence of two steps of the sweep or more, where the firmware has 20; a buffer
that holds the answers and a message). TLC evaluates them in each run.

Every safety and action property of the passing runs has a theorem. Only model-checked: the five
disagreements, each of which is a counterexample; and liveness, which with fairness and `ENABLED` is
beyond this prover (`OldestFrameDelivered`, `PeriodicKeepsFiring`, `RadarShowsEveryPeer`,
`BeaconsResume`, `HeldFrameGoesOut`, `LoopReleased`), as are induction over data and `RECURSIVE`
operators (no module declares one).

## Not modelled, and why

* `MspParser`, `UbxParser`, the wire protocol, the radar message and the MSP codecs: bytes in, bytes
  out, with neither time nor concurrency. A frame or a reply is taken whole, damaged or lost.
* Floating point, airtime formulas, bands, geometry of positions and headings, and the cipher
  primitives: computation that test vectors cover.
* Request parsing, JSON, the status pages (they only read), pin tables, board power, validation of
  each field. That a merge of settings is all or nothing is in `ConfigStore`.
* `setup()`, but for the settings it reads, is atomic and gives the initial states; so is bringing
  the chips up.
* In `Node`: the location source (a beacon always has something to say) and the packet bytes.
* In `Follow`: the pre-arm check, which only reports.
* `LogRing` has `FrameLog`'s shape; `LoopStats` are sums.
* Nothing of the v1 libraries under `src/lib`, which `platformio.ini` excludes from the build; of
  the generated `webcontent.h`; of the browser's pages but for the frame log's poll; nor of the
  scripts. These, with the tables and codecs above, are most of the repository's lines: the part
  with behaviour over time is well under half of the firmware.

## What is left

The cooperation of several nodes (each the peer of the others) is represented by arbitrary frames,
not by copies of `Node`. Liveness has no proof.
