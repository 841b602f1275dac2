-------------------------------- MODULE Peers --------------------------------
(***************************************************************************)
(* The contents of ff::PeerTable (lib/ff_core/peer_table.h, .cpp) and its  *)
(* methods as operators on a table, for the modules that hold one.         *)
(***************************************************************************)
EXTENDS Millis, FiniteSets

CONSTANTS NumSlots,     \* kMaxPeers
          Uid,          \* node identifiers
          NoUid,        \* the uid of a slot never used
          Radio,        \* radio indices, 0 .. kMaxRadios - 1 or fewer
          PeerTimeout   \* timeout_ms_

ASSUME PeersAssumption ==
    /\ NumSlots \in Nat \ {0}
    /\ NoUid \notin Uid
    /\ PeerTimeout \in Nat
    /\ PeerTimeout < TimeMod

Slot == 0 .. NumSlots - 1

(***************************************************************************)
(* A Peer.  What a packet says is abstracted to whose packet it was: place *)
(* is the sender of the position shown (NoUid for the zero position of a   *)
(* peer that has only announced itself), name that of the name shown.      *)
(***************************************************************************)
Peer == [uid : Uid \cup {NoUid}, valid : BOOLEAN,
         place : Uid \cup {NoUid}, name : Uid \cup {NoUid},
         update : Time, position : Time,
         seen : [Radio -> Time], radios : SUBSET Radio]

EmptyPeer == [uid |-> NoUid, valid |-> FALSE, place |-> NoUid, name |-> NoUid,
              update |-> 0, position |-> 0,
              seen |-> [r \in Radio |-> 0], radios |-> {}]

EmptyTable == [i \in Slot |-> EmptyPeer]

Holds(t, i, u) == t[i].valid /\ t[i].uid = u
Present(t, u) == \E i \in Slot : Holds(t, i, u)

(***************************************************************************)
(* findMutable and find: the first slot holding u.                         *)
(***************************************************************************)
IsFound(t, u, i) ==
    /\ Holds(t, i, u)
    /\ \A j \in 0 .. i - 1 : ~Holds(t, j, u)

(***************************************************************************)
(* allocSlot: the first free slot, or the first of those updated longest   *)
(* ago.  The stamps are compared as plain unsigned numbers.                *)
(***************************************************************************)
IsAllocated(t, i) ==
    \/ ~t[i].valid /\ \A j \in 0 .. i - 1 : t[j].valid
    \/ /\ \A j \in Slot : t[j].valid /\ t[i].update <= t[j].update
       /\ \A j \in 0 .. i - 1 : t[i].update < t[j].update

(***************************************************************************)
(* The slot a packet from u goes to, and what that slot holds before the   *)
(* packet is written: its own entry, or a fresh one.                       *)
(***************************************************************************)
IsSlotFor(t, u, i) ==
    IF \E j \in Slot : IsFound(t, u, j) THEN IsFound(t, u, i) ELSE IsAllocated(t, i)

Occupant(t, u, i) ==
    IF Holds(t, i, u) THEN t[i] ELSE [EmptyPeer EXCEPT !.uid = u, !.valid = TRUE]

(***************************************************************************)
(* markHeardOn.                                                            *)
(***************************************************************************)
HeardOn(p, r, stamp) == [p EXCEPT !.seen[r] = stamp, !.radios = @ \cup {r}]

\* Mutant: only a new entry is stamped.
PositionUpdatedOnce(t, u, i, stamp, r) ==
    [t EXCEPT ![i] = HeardOn([Occupant(t, u, i) EXCEPT
        !.place = u, !.update = IF Holds(t, i, u) THEN @ ELSE stamp,
        !.position = stamp], r, stamp)]
PositionUpdated(t, u, i, stamp, r) ==
    [t EXCEPT ![i] = HeardOn([Occupant(t, u, i) EXCEPT
        !.place = u, !.update = stamp, !.position = stamp], r, stamp)]

AnnounceUpdated(t, u, i, stamp, r) ==
    [t EXCEPT ![i] = HeardOn([Occupant(t, u, i) EXCEPT
        !.name = u, !.update = stamp], r, stamp)]

(***************************************************************************)
(* Whether the peer in slot i has been silent for longer than the timeout  *)
(* when the time is given as now; expire invalidates those that have.  All *)
(* that reads a slot asks whether it is valid first, and a freed slot is   *)
(* reset before it is used again, so what it held is forgotten here.       *)
(***************************************************************************)
\* Mutant: the age is measured from the last position, so a peer with no GPS
\* fix that keeps announcing itself is dropped.
IsSilentNoPosition(t, i, now) == Elapsed(now, t[i].position) > PeerTimeout
IsSilent(t, i, now) == Elapsed(now, t[i].update) > PeerTimeout

Expired(t, now) ==
    [i \in Slot |-> IF t[i].valid /\ IsSilent(t, i, now)
                    THEN EmptyPeer ELSE t[i]]

CountActive(t, now) ==
    Cardinality({i \in Slot : t[i].valid /\ ~IsSilent(t, i, now)})

CountActiveOn(t, r, now) ==
    Cardinality({i \in Slot : /\ t[i].valid
                              /\ r \in t[i].radios
                              /\ Elapsed(now, t[i].seen[r]) <= PeerTimeout})
=============================================================================
