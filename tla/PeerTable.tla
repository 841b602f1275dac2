------------------------------ MODULE PeerTable ------------------------------
(***************************************************************************)
(* ff::PeerTable as its callers are asked to use it: every call is given   *)
(* the current time, which never runs backwards.  (What happens when the   *)
(* stamps of frames and the time of the loop come from different readings  *)
(* of the clock is the subject of Node.)                                   *)
(*                                                                         *)
(* The histories age and ageOn are the true times since a peer was last    *)
(* heard, at all and on each radio, counted up to the bound MaxAge.        *)
(***************************************************************************)
EXTENDS Peers

CONSTANTS MaxStep,   \* bound: the longest time between two calls
          MayWrap    \* may the clock pass 2^32 while the node is up?

MaxAge == TimeMod - 1

ASSUME PeerTableAssumption ==
    /\ MaxStep \in 1 .. TimeMod - 1
    /\ MayWrap \in BOOLEAN
    /\ PeerTimeout < MaxAge

VARIABLES peers, now, age, ageOn, evicted

vars == <<peers, now, age, ageOn, evicted>>

TypeOK ==
    /\ peers \in [Slot -> Peer]
    /\ \A i \in Slot : peers[i].valid => peers[i].uid \in Uid
    /\ now \in Time
    /\ age \in [Uid -> 0 .. MaxAge]
    /\ ageOn \in [Uid -> [Radio -> 0 .. MaxAge]]
    /\ evicted \subseteq Uid

Init ==
    /\ peers = EmptyTable
    /\ now = 0
    /\ age = [u \in Uid |-> MaxAge]
    /\ ageOn = [u \in Uid |-> [r \in Radio |-> MaxAge]]
    /\ evicted = {}

Aged(a, d) == IF a + d < MaxAge THEN a + d ELSE MaxAge

(***************************************************************************)
(* Time passes.  expire runs once a second, so no valid entry is left to   *)
(* grow older than the clock can tell.                                     *)
(***************************************************************************)
Tick(d) ==
    /\ MayWrap \/ now + d < TimeMod
    /\ \A i \in Slot : peers[i].valid => age[peers[i].uid] + d < MaxAge
    /\ now' = Later(now, d)
    /\ age' = [u \in Uid |-> Aged(age[u], d)]
    /\ ageOn' = [u \in Uid |-> [r \in Radio |-> Aged(ageOn[u][r], d)]]
    /\ UNCHANGED <<peers, evicted>>

(***************************************************************************)
(* What a packet does to the histories: its sender was heard now, and if   *)
(* slot i held somebody else, that peer was evicted.  A new occupant's     *)
(* history with the other radios starts again.                             *)
(***************************************************************************)
Heard(u, i, r) ==
    /\ age' = [age EXCEPT ![u] = 0]
    /\ ageOn' = [ageOn EXCEPT ![u] =
                    [q \in Radio |-> IF q = r THEN 0
                                     ELSE IF Present(peers, u) THEN @[q] ELSE MaxAge]]
    /\ evicted' = (evicted \cup {v \in Uid : v # u /\ Holds(peers, i, v)}) \ {u}
    /\ UNCHANGED now

UpdatePosition(u, r) ==
    \E i \in Slot :
        /\ IsSlotFor(peers, u, i)
        /\ peers' = PositionUpdated(peers, u, i, now, r)
        /\ Heard(u, i, r)

UpdateAnnounce(u, r) ==
    \E i \in Slot :
        /\ IsSlotFor(peers, u, i)
        /\ peers' = AnnounceUpdated(peers, u, i, now, r)
        /\ Heard(u, i, r)

Expire ==
    /\ peers' = Expired(peers, now)
    /\ UNCHANGED <<now, age, ageOn, evicted>>

Next ==
    \/ \E u \in Uid, r \in Radio : UpdatePosition(u, r) \/ UpdateAnnounce(u, r)
    \/ Expire
    \/ \E d \in 1 .. MaxStep : Tick(d)

Spec == Init /\ [][Next]_vars
-----------------------------------------------------------------------------
(***************************************************************************)
(* A peer never occupies two slots, though slots in the middle of the      *)
(* table are freed and reused in any order; two entries would be counted   *)
(* twice in the channel load and shown as two aircraft.                    *)
(***************************************************************************)
UniqueUid ==
    \A i, j \in Slot : peers[i].valid /\ peers[j].valid /\ peers[i].uid = peers[j].uid
                        => i = j

(***************************************************************************)
(* A peer heard within the timeout is in the table, unless the table was   *)
(* full and its slot was given to another since.                           *)
(***************************************************************************)
RecentlyHeardKept ==
    \A u \in Uid : age[u] <= PeerTimeout => Present(peers, u) \/ u \in evicted

(***************************************************************************)
(* An entry shows only what its own peer sent: nothing of the occupant it  *)
(* replaced.                                                               *)
(***************************************************************************)
NothingInherited ==
    \A i \in Slot : peers[i].valid =>
        {peers[i].place, peers[i].name} \subseteq {peers[i].uid, NoUid}

(***************************************************************************)
(* The count that paces a radio's beacons is the number of peers in the    *)
(* table really heard on that radio within the timeout, also before expire *)
(* has run; likewise the count over all radios.                            *)
(***************************************************************************)
CountsAreTrue ==
    /\ CountActive(peers, now) =
        Cardinality({u \in Uid : Present(peers, u) /\ age[u] <= PeerTimeout})
    /\ \A r \in Radio : CountActiveOn(peers, r, now) =
        Cardinality({u \in Uid : Present(peers, u) /\ ageOn[u][r] <= PeerTimeout})

(***************************************************************************)
(* A peer that loses its slot to another is one heard longest ago.         *)
(***************************************************************************)
LeastRecentIsEvicted ==
    \A u \in Uid : u \in evicted' /\ Present(peers, u) =>
        \A v \in Uid : Present(peers, v) => age[v] <= age[u]

EvictsLeastRecent == [][LeastRecentIsEvicted]_vars
=============================================================================
