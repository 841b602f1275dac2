------------------------------ MODULE Simulator ------------------------------
(***************************************************************************)
(* ff::SimRadio (src/hal/SimRadio.cpp), the virtual radio whose peers are  *)
(* added, edited and removed over HTTP, with what the node makes of its    *)
(* frames.  On an ESP32 the web server's task has the higher priority: it  *)
(* preempts the main loop anywhere and a handler runs to its end, so a     *)
(* handler is one step and the loop's work is broken into the steps it can *)
(* fall between.  On an ESP8266 handlers run between iterations.           *)
(*                                                                         *)
(* The unit of time is the interval at which a simulated peer transmits;   *)
(* the loop runs many times in each.                                       *)
(***************************************************************************)
EXTENDS Naturals

CONSTANTS SimUid,       \* uids given to simulated peers, by the user or by the node
          NoSimUid,     \* the uid in a frame slot never written
          MaxSimPeers,  \* kMaxSimPeers
          SimQueue,     \* kQueueSize; one slot is never used, and each peer may need two
          SimResync,    \* kReplayResyncMs, in units
          SimTimeout,   \* the node's peer_timeout_ms, in units
          MaxUnits,     \* bound: units of time
          MaxEdits      \* bound: changes to the list of peers

ASSUME SimulatorAssumption ==
    /\ NoSimUid \notin SimUid
    /\ MaxSimPeers \in Nat \ {0}
    /\ SimQueue \in Nat /\ SimQueue >= 2 * MaxSimPeers
    /\ {SimResync, SimTimeout, MaxUnits, MaxEdits} \subseteq Nat

VARIABLES peers,     \* peers_; removed ones stay behind past count
          count,     \* count_
          queue,     \* queue_
          ends,      \* [head, tail]: head_ and tail_
          loop,      \* where the main loop is, and what it holds in locals
          units,     \* the clock
          node,      \* per uid, the replay slot and the peer table's entry
          wanted,    \* history: the uids added and not removed since
          quiet,     \* history: units since a listed uid was accepted or the list
                     \* changed, or since an unlisted one was removed
          edits      \* history: changes to the list

simVars == <<peers, count, queue, ends, loop, units, node, wanted, quiet, edits>>
listVars == <<peers, count, wanted, quiet, edits>>

NoFrame == [uid |-> NoSimUid, key |-> NoSimUid, counter |-> 0, announce |-> FALSE, at |-> 0]
NoPeer == [uid |-> NoSimUid, due |-> FALSE, counter |-> 0, announced |-> FALSE]
AtRest == [pc |-> "idle", i |-> 0, next |-> 0, frame |-> NoFrame]

SimInit ==
    /\ peers = [i \in 0 .. MaxSimPeers - 1 |-> NoPeer]
    /\ count = 0
    /\ queue = [s \in 0 .. SimQueue - 1 |-> NoFrame]
    /\ ends = [head |-> 0, tail |-> 0]
    /\ loop = AtRest
    /\ units = 0
    /\ node = [u \in SimUid |-> [taken |-> {}, last |-> 0, shown |-> FALSE]]
    /\ wanted = {}
    /\ quiet = [u \in SimUid |-> 0]
    /\ edits = 0
-----------------------------------------------------------------------------
(***************************************************************************)
(* The handlers.  A uid the user does not give is made from the number of  *)
(* peers, and may be one in use: it is one of SimUid all the same.         *)
(***************************************************************************)
Listed(u) == \E i \in 0 .. count - 1 : peers[i].uid = u

ListChanged(now) ==
    /\ wanted' = now
    /\ quiet' = [u \in SimUid |-> IF u \in wanted \cup now THEN 0 ELSE quiet[u]]
    /\ edits' = edits + 1

SetPeer(u) ==
    /\ edits < MaxEdits
    /\ \E i \in 0 .. count - 1 :
        /\ peers[i].uid = u
        /\ peers' = [peers EXCEPT ![i].announced = FALSE]
    /\ ListChanged(wanted)
    /\ UNCHANGED <<count, queue, ends, loop, units, node>>

AddPeer(u) ==
    /\ edits < MaxEdits
    /\ ~Listed(u)
    /\ count < MaxSimPeers
    /\ peers' = [peers EXCEPT ![count] =
                    [uid |-> u, due |-> TRUE, counter |-> 0, announced |-> FALSE]]
    /\ count' = count + 1
    /\ ListChanged(wanted \cup {u})
    /\ UNCHANGED <<queue, ends, loop, units, node>>

\* Mutant: the peers behind the removed one are moved one too few.
RemovePeerShort(u) ==
    /\ edits < MaxEdits
    /\ \E i \in 0 .. count - 1 :
        /\ peers[i].uid = u
        /\ peers' = [j \in DOMAIN peers |->
                        IF j \in i .. count - 3 THEN peers[j + 1] ELSE peers[j]]
    /\ count' = count - 1
    /\ ListChanged(wanted \ {u})
    /\ UNCHANGED <<queue, ends, loop, units, node>>

RemovePeer(u) ==
    /\ edits < MaxEdits
    /\ \E i \in 0 .. count - 1 :
        /\ peers[i].uid = u
        /\ peers' = [j \in DOMAIN peers |->
                        IF j \in i .. count - 2 THEN peers[j + 1] ELSE peers[j]]
    /\ count' = count - 1
    /\ ListChanged(wanted \ {u})
    /\ UNCHANGED <<queue, ends, loop, units, node>>

(***************************************************************************)
(* POST /api/sim/clear, and switching the simulator off.                   *)
(***************************************************************************)
Clear ==
    /\ edits < MaxEdits
    /\ count' = 0
    /\ ends' = [head |-> 0, tail |-> 0]
    /\ ListChanged({})
    /\ UNCHANGED <<peers, queue, loop, units, node>>
-----------------------------------------------------------------------------
(***************************************************************************)
(* service: one pass over the peers.  p is a reference into the array, so  *)
(* what it names changes when a handler moves the peers.                   *)
(***************************************************************************)
\* Mutant: the pass runs over the whole array.
InListWholeArray(i) == i < MaxSimPeers
InList(i) == i < count

Iterate ==
    /\ loop.pc = "idle"
    /\ loop' = [AtRest EXCEPT !.pc = "visit"]
    /\ UNCHANGED <<queue, ends, units, node, listVars>>

VisitNotDue ==
    /\ loop.pc = "visit"
    /\ InList(loop.i)
    /\ ~peers[loop.i].due
    /\ loop' = [loop EXCEPT !.i = @ + 1]
    /\ UNCHANGED <<queue, ends, units, node, listVars>>

VisitDue ==
    /\ loop.pc = "visit"
    /\ InList(loop.i)
    /\ peers[loop.i].due
    /\ peers' = [peers EXCEPT ![loop.i].due = FALSE, ![loop.i].announced = TRUE]
    /\ loop' = [loop EXCEPT !.pc = "room",
                            !.frame = [NoFrame EXCEPT !.announce = ~peers[loop.i].announced]]
    /\ UNCHANGED <<count, queue, ends, units, node, wanted, quiet, edits>>

VisitedAll ==
    /\ loop.pc = "visit"
    /\ ~InList(loop.i)
    /\ loop' = [AtRest EXCEPT !.pc = "drain"]
    /\ UNCHANGED <<queue, ends, units, node, listVars>>

(***************************************************************************)
(* emit, for the announce if there is one and then for the position.  The  *)
(* body is encoded from the peer, then sealed under the peer's uid and its *)
(* next counter, then stored.                                              *)
(***************************************************************************)
NextInQueue(s) == (s + 1) % SimQueue

\* What follows a call of emit.
Emitted ==
    IF loop.frame.announce THEN [loop EXCEPT !.pc = "room", !.frame = NoFrame]
                           ELSE [AtRest EXCEPT !.pc = "visit", !.i = loop.i + 1]

EmitFull ==
    /\ loop.pc = "room"
    /\ NextInQueue(ends.head) = ends.tail
    /\ loop' = Emitted
    /\ UNCHANGED <<queue, ends, units, node, listVars>>

EmitBody ==
    /\ loop.pc = "room"
    /\ NextInQueue(ends.head) # ends.tail
    /\ loop' = [loop EXCEPT !.pc = "seal", !.next = NextInQueue(ends.head),
                            !.frame.uid = peers[loop.i].uid]
    /\ UNCHANGED <<queue, ends, units, node, listVars>>

EmitSeal ==
    /\ loop.pc = "seal"
    /\ peers' = [peers EXCEPT ![loop.i].counter = @ + 1]
    /\ loop' = [loop EXCEPT !.pc = "store", !.frame.key = peers[loop.i].uid,
                            !.frame.counter = peers[loop.i].counter + 1, !.frame.at = units]
    /\ UNCHANGED <<count, queue, ends, units, node, wanted, quiet, edits>>

EmitStore ==
    /\ loop.pc = "store"
    /\ queue' = [queue EXCEPT ![ends.head] = loop.frame]
    /\ ends' = [ends EXCEPT !.head = loop.next]
    /\ loop' = Emitted
    /\ UNCHANGED <<units, node, listVars>>
-----------------------------------------------------------------------------
(***************************************************************************)
(* The hub pops every frame and hands it to the node.                      *)
(***************************************************************************)
PopNothing ==
    /\ loop.pc = "drain"
    /\ ends.tail = ends.head
    /\ loop' = AtRest
    /\ UNCHANGED <<queue, ends, units, node, listVars>>

PopFrame ==
    /\ loop.pc = "drain"
    /\ ends.tail # ends.head
    /\ loop' = [loop EXCEPT !.pc = "taken", !.next = ends.tail, !.frame = queue[ends.tail]]
    /\ UNCHANGED <<queue, ends, units, node, listVars>>

(***************************************************************************)
(* decrypt rejects a frame not sealed under its own uid, and a counter it  *)
(* has taken unless the sender restarts: it has been silent for the resync *)
(* time, or this frame is older than the last (the difference wraps).  The *)
(* table dates its entry by the frame.  Counters stay within the window.   *)
(***************************************************************************)
Restarts(f) == f.at < node[f.uid].last \/ f.at - node[f.uid].last > SimResync

IsAccepted(f) ==
    /\ f.uid # NoSimUid
    /\ f.uid = f.key
    /\ f.counter \notin node[f.uid].taken \/ Restarts(f)

Heard(f) ==
    [node EXCEPT ![f.uid] = [taken |-> IF Restarts(f) THEN {f.counter} ELSE @.taken \cup {f.counter},
                             last |-> f.at,
                             shown |-> TRUE]]

(***************************************************************************)
(* The tail moves on from where it was read, or from where it is now: the  *)
(* compiler may load it once or twice.                                     *)
(***************************************************************************)
Deliver ==
    LET f == loop.frame
    IN  /\ loop.pc = "taken"
        /\ \E t \in {loop.next, ends.tail} : ends' = [ends EXCEPT !.tail = NextInQueue(t)]
        /\ loop' = [AtRest EXCEPT !.pc = "drain"]
        /\ IF IsAccepted(f)
           THEN /\ node' = Heard(f)
                /\ quiet' = [quiet EXCEPT ![f.uid] = IF f.uid \in wanted THEN 0 ELSE @]
           ELSE UNCHANGED <<node, quiet>>
        /\ UNCHANGED <<peers, count, queue, units, wanted, edits>>

(***************************************************************************)
(* A unit of time passes, and peers the node has not heard for its timeout *)
(* leave its table.  An iteration lasts far less than a unit: none starts  *)
(* or ends in the middle of one, and every peer due has been serviced.     *)
(***************************************************************************)
UnitPasses ==
    /\ loop.pc = "idle"
    /\ \A i \in 0 .. count - 1 : ~peers[i].due
    /\ units < MaxUnits
    /\ units' = units + 1
    /\ peers' = [i \in DOMAIN peers |-> [peers[i] EXCEPT !.due = peers[i] # NoPeer]]
    /\ node' = [u \in SimUid |->
                    IF units' - node[u].last > SimTimeout
                    THEN [node[u] EXCEPT !.shown = FALSE] ELSE node[u]]
    /\ quiet' = [u \in SimUid |-> quiet[u] + 1]
    /\ UNCHANGED <<count, queue, ends, loop, wanted, edits>>

Handlers ==
    \/ \E u \in SimUid : SetPeer(u) \/ AddPeer(u) \/ RemovePeer(u)
    \/ Clear

SimStep ==
    \/ Handlers
    \/ Iterate \/ VisitNotDue \/ VisitDue \/ VisitedAll
    \/ EmitFull \/ EmitBody \/ EmitSeal \/ EmitStore
    \/ PopNothing \/ PopFrame \/ Deliver
    \/ UnitPasses

SimSpec == SimInit /\ [][SimStep]_simVars
-----------------------------------------------------------------------------
(***************************************************************************)
(* Every listed peer is heard, whatever handler interrupted whichever      *)
(* step.  Copies left behind by removals, and earlier peers of the same    *)
(* uid, may have used up its next counters, but only until the node lets a *)
(* sender it has not heard for the resync time start again.                *)
(***************************************************************************)
SimPeersHeard == \A u \in wanted : quiet[u] <= SimResync + 1

(***************************************************************************)
(* A simulated aircraft that was removed counts as present for at most the *)
(* timeout, even when the handler caught the loop in the middle of its     *)
(* frames.  A clear that falls into emit or popRx makes the queue deliver  *)
(* old frames again, and may put a peer removed long ago back into the     *)
(* table until the next expiry, but under its old time.                    *)
(***************************************************************************)
IsActive(u) == node[u].shown /\ units - node[u].last <= SimTimeout

GhostsFade == \A u \in SimUid : u \notin wanted /\ IsActive(u) => quiet[u] <= SimTimeout
=============================================================================
