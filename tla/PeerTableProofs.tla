--------------------------- MODULE PeerTableProofs ---------------------------
(***************************************************************************)
(* Theorems about PeerTable, for every number of slots, every set of nodes *)
(* and radios, and on both sides of the wrap of the clock.                 *)
(***************************************************************************)
EXTENDS PeerTable, TLAPS, WellFoundedInduction, FiniteSetTheorems

-----------------------------------------------------------------------------
(***************************************************************************)
(* The searches of the table end at a first slot.                          *)
(***************************************************************************)
Below == {ij \in Nat \X Nat : ij[1] < ij[2]}

LEMMA BelowWellFounded == IsWellFoundedOn(Below, Nat)
<1>1. Below = OpToRel(<, Nat)
  BY DEF Below, OpToRel
<1> QED BY <1>1, NatLessThanWellFounded

LEMMA LeastExists ==
    ASSUME NEW T, T \subseteq Nat, T # {}
    PROVE  \E i \in T : \A j \in T : i <= j
<1>1. PICK i \in T : \A j \in T : ~(<<j, i>> \in Below)
  BY BelowWellFounded, WFMin
<1>2. ASSUME NEW j \in T PROVE i <= j
  <2>1. i \in Nat /\ j \in Nat
    OBVIOUS
  <2>2. <<j, i>> \in Below <=> j < i
    BY <2>1 DEF Below
  <2> QED BY <1>1, <2>1, <2>2
<1> QED BY <1>2

LEMMA FirstSlot ==
    ASSUME NEW T, T \subseteq Slot, T # {}
    PROVE  \E i \in T : \A j \in 0 .. i - 1 : j \notin T
<1>1. T \subseteq Nat
  BY PeersAssumption DEF Slot
<1>2. PICK i \in T : \A j \in T : i <= j
  BY <1>1, LeastExists
<1>3. \A j \in 0 .. i - 1 : j \notin T
  BY <1>1, <1>2
<1> QED BY <1>3

(***************************************************************************)
(* A peer that is in the table is found, so a packet of it goes to an      *)
(* entry of its own; and a packet goes elsewhere only if it is not there.  *)
(***************************************************************************)
LEMMA PresentIsFound ==
    ASSUME NEW u, Present(peers, u)
    PROVE  \E i \in Slot : IsFound(peers, u, i)
<1> DEFINE T == {i \in Slot : Holds(peers, i, u)}
<1>1. T # {} /\ T \subseteq Slot
  BY DEF Present
<1>2. PICK i \in T : \A j \in 0 .. i - 1 : j \notin T
  BY <1>1, FirstSlot
<1>3. \A j \in 0 .. i - 1 : j \in Slot
  BY PeersAssumption DEF Slot
<1> QED BY <1>2, <1>3 DEF IsFound

LEMMA SlotForOwn ==
    ASSUME NEW u, NEW i \in Slot, IsSlotFor(peers, u, i)
    PROVE  Holds(peers, i, u) \/ ~Present(peers, u)
  BY PresentIsFound DEF IsSlotFor, IsFound

(***************************************************************************)
(* A packet is never refused: there is always a slot for it.               *)
(***************************************************************************)
THEOREM SlotAlwaysFound ==
    ASSUME NEW u, TypeOK
    PROVE  \E i \in Slot : IsSlotFor(peers, u, i)
<1>1. CASE \E i \in Slot : IsFound(peers, u, i)
  BY <1>1 DEF IsSlotFor
<1>2. CASE \E i \in Slot : ~peers[i].valid
  <2> DEFINE T == {i \in Slot : ~peers[i].valid}
  <2>1. PICK i \in T : \A j \in 0 .. i - 1 : j \notin T
    BY <1>2, FirstSlot
  <2>2. \A j \in 0 .. i - 1 : j \in Slot
    BY PeersAssumption DEF Slot
  <2>3. IsAllocated(peers, i)
    BY <2>1, <2>2 DEF IsAllocated
  <2> QED BY <1>1, <2>3 DEF IsSlotFor
<1>3. CASE \A i \in Slot : peers[i].valid
  <2> DEFINE Stamps == {peers[i].update : i \in Slot}
  <2>1. Stamps \subseteq Nat /\ Stamps # {}
    BY TimeHalfAssumption, PeersAssumption DEF TypeOK, Peer, Time, TimeMod, Slot
  <2>2. PICK s \in Stamps : \A q \in Stamps : s <= q
    BY <2>1, LeastExists
  <2> DEFINE T == {i \in Slot : peers[i].update = s}
  <2>3. T # {} /\ T \subseteq Slot
    OBVIOUS
  <2> HIDE DEF T
  <2>4. PICK i \in T : \A j \in 0 .. i - 1 : j \notin T
    BY <2>3, FirstSlot
  <2>5. \A j \in 0 .. i - 1 : j \in Slot
    BY <2>3, PeersAssumption DEF Slot
  <2>6. i \in Slot /\ peers[i].update = s
    BY DEF T
  <2>7. \A j \in Slot : peers[j].update \in Nat /\ s <= peers[j].update
    BY <2>1, <2>2
  <2>8. \A j \in 0 .. i - 1 : s < peers[j].update
    BY <2>1, <2>4, <2>5, <2>7 DEF T
  <2>9. IsAllocated(peers, i)
    BY <1>3, <2>6, <2>7, <2>8 DEF IsAllocated
  <2> QED BY <1>1, <2>6, <2>9 DEF IsSlotFor
<1> QED BY <1>2, <1>3
-----------------------------------------------------------------------------
(***************************************************************************)
(* The inductive invariant.  The table is right because of how its stamps  *)
(* and its keys hang together: the age the code computes from a stamp is   *)
(* the true one, since expire frees an entry before its age wraps; no node *)
(* has two entries, so a packet renews the only one there is; and a node   *)
(* counted as evicted has none.                                            *)
(***************************************************************************)
Stamped ==
    \A i \in Slot : peers[i].valid => Elapsed(now, peers[i].update) = age[peers[i].uid]

EvictedAreAbsent == \A u \in evicted : ~Present(peers, u)

StampsInOrder == ~MayWrap => \A i \in Slot : peers[i].valid => peers[i].update <= now

IInv ==
    /\ TypeOK
    /\ UniqueUid
    /\ Stamped
    /\ RecentlyHeardKept
    /\ NothingInherited
    /\ EvictedAreAbsent
    /\ StampsInOrder

LEMMA TimeFacts == TimeMod \in Nat /\ TimeMod >= 2 /\ 0 \in Time
  BY TimeHalfAssumption DEF TimeMod, Time

LEMMA ElapsedType ==
    ASSUME NEW a \in Time, NEW b \in Time
    PROVE  Elapsed(a, b) \in Time /\ (Elapsed(a, b) = 0 <=> a = b)
  BY TimeFacts DEF Elapsed, Time

LEMMA LaterElapsed ==
    ASSUME NEW a \in Time, NEW b \in Time, NEW d \in 1 .. TimeMod - 1
    PROVE  /\ Later(a, d) \in Time
           /\ Elapsed(a, b) + d < TimeMod => Elapsed(Later(a, d), b) = Elapsed(a, b) + d
  BY TimeFacts DEF Elapsed, Later, Time

LEMMA EmptyPeerType == EmptyPeer \in Peer /\ ~EmptyPeer.valid
  BY TimeFacts DEF EmptyPeer, Peer

LEMMA InitIInv == Init => IInv
<1> SUFFICES ASSUME Init PROVE IInv
  OBVIOUS
<1>1. \A i \in Slot : peers[i] \in Peer /\ ~peers[i].valid
  BY EmptyPeerType DEF Init, EmptyTable
<1>2. MaxAge \in Nat /\ ~(MaxAge <= PeerTimeout)
  BY TimeFacts, PeersAssumption, PeerTableAssumption DEF MaxAge
<1>3. TypeOK
  BY <1>1, <1>2, TimeFacts, EmptyPeerType DEF Init, TypeOK, EmptyTable
<1> QED
  BY <1>1, <1>2, <1>3 DEF Init, IInv, UniqueUid, Stamped, RecentlyHeardKept, NothingInherited,
       EvictedAreAbsent, StampsInOrder

(***************************************************************************)
(* What a packet of either kind does: it changes slot i only, which is     *)
(* then a valid entry of the sender's stamped with the current time.       *)
(***************************************************************************)
Packet(u, i, r, p) ==
    /\ IsSlotFor(peers, u, i)
    /\ peers' = [peers EXCEPT ![i] = p]
    /\ p \in Peer
    /\ p.valid /\ p.uid = u /\ p.update = now
    /\ {p.place, p.name} \subseteq {u, NoUid}
    /\ p.radios = Occupant(peers, u, i).radios \cup {r}
    /\ p.seen = [Occupant(peers, u, i).seen EXCEPT ![r] = now]
    /\ Heard(u, i, r)

LEMMA OccupantType ==
    ASSUME IInv, NEW u \in Uid, NEW i \in Slot
    PROVE  LET o == Occupant(peers, u, i)
           IN  o \in Peer /\ o.valid /\ o.uid = u /\ {o.place, o.name} \subseteq {u, NoUid}
<1>1. CASE Holds(peers, i, u)
  BY <1>1 DEF Occupant, Holds, IInv, TypeOK, NothingInherited
<1>2. CASE ~Holds(peers, i, u)
  <2>1. Occupant(peers, u, i) = [EmptyPeer EXCEPT !.uid = u, !.valid = TRUE]
    BY <1>2 DEF Occupant
  <2> QED BY <2>1, EmptyPeerType DEF EmptyPeer, Peer
<1> QED BY <1>1, <1>2

LEMMA PositionIsPacket ==
    ASSUME IInv, NEW u \in Uid, NEW r \in Radio, UpdatePosition(u, r)
    PROVE  \E i \in Slot, p \in Peer : Packet(u, i, r, p)
<1>1. PICK i \in Slot : /\ IsSlotFor(peers, u, i)
                        /\ peers' = PositionUpdated(peers, u, i, now, r)
                        /\ Heard(u, i, r)
  BY DEF UpdatePosition
<1> DEFINE o == Occupant(peers, u, i)
           q == [o EXCEPT !.place = u, !.update = now, !.position = now]
           p == HeardOn(q, r, now)
<1>2. o \in Peer /\ o.valid /\ o.uid = u /\ {o.place, o.name} \subseteq {u, NoUid}
  BY OccupantType
<1>3. now \in Time
  BY DEF IInv, TypeOK
<1>4. q \in Peer /\ q.valid /\ q.uid = u /\ q.update = now /\ {q.place, q.name} \subseteq {u, NoUid}
  BY <1>2, <1>3 DEF Peer
<1>5. p \in Peer /\ p.valid /\ p.uid = u /\ p.update = now /\ {p.place, p.name} \subseteq {u, NoUid}
  BY <1>3, <1>4 DEF Peer, HeardOn
<1>7. p.radios = o.radios \cup {r} /\ p.seen = [o.seen EXCEPT ![r] = now]
  BY <1>2, <1>3 DEF Peer, HeardOn
<1>6. peers' = [peers EXCEPT ![i] = p]
  BY <1>1 DEF PositionUpdated
<1> QED BY <1>1, <1>5, <1>6, <1>7 DEF Packet

LEMMA AnnounceIsPacket ==
    ASSUME IInv, NEW u \in Uid, NEW r \in Radio, UpdateAnnounce(u, r)
    PROVE  \E i \in Slot, p \in Peer : Packet(u, i, r, p)
<1>1. PICK i \in Slot : /\ IsSlotFor(peers, u, i)
                        /\ peers' = AnnounceUpdated(peers, u, i, now, r)
                        /\ Heard(u, i, r)
  BY DEF UpdateAnnounce
<1> DEFINE o == Occupant(peers, u, i)
           q == [o EXCEPT !.name = u, !.update = now]
           p == HeardOn(q, r, now)
<1>2. o \in Peer /\ o.valid /\ o.uid = u /\ {o.place, o.name} \subseteq {u, NoUid}
  BY OccupantType
<1>3. now \in Time
  BY DEF IInv, TypeOK
<1>4. q \in Peer /\ q.valid /\ q.uid = u /\ q.update = now /\ {q.place, q.name} \subseteq {u, NoUid}
  BY <1>2, <1>3 DEF Peer
<1>5. p \in Peer /\ p.valid /\ p.uid = u /\ p.update = now /\ {p.place, p.name} \subseteq {u, NoUid}
  BY <1>3, <1>4 DEF Peer, HeardOn
<1>7. p.radios = o.radios \cup {r} /\ p.seen = [o.seen EXCEPT ![r] = now]
  BY <1>2, <1>3 DEF Peer, HeardOn
<1>6. peers' = [peers EXCEPT ![i] = p]
  BY <1>1 DEF AnnounceUpdated
<1> QED BY <1>1, <1>5, <1>6, <1>7 DEF Packet

(***************************************************************************)
(* A packet, whichever kind, keeps the invariant.                          *)
(***************************************************************************)
LEMMA PacketKeepsIInv ==
    ASSUME IInv, NEW u \in Uid, NEW r \in Radio, NEW i \in Slot, NEW p \in Peer,
           Packet(u, i, r, p)
    PROVE  IInv'
<1> USE DEF IInv
<1>1. /\ peers \in [Slot -> Peer] /\ now \in Time /\ now' = now
      /\ age \in [Uid -> 0 .. MaxAge] /\ age' = [age EXCEPT ![u] = 0]
      /\ evicted \subseteq Uid
      /\ evicted' = (evicted \cup {v \in Uid : v # u /\ Holds(peers, i, v)}) \ {u}
  BY DEF TypeOK, Packet, Heard
<1>2. /\ peers'[i] = p /\ p.valid /\ p.uid = u /\ p.update = now
      /\ \A j \in Slot \ {i} : peers'[j] = peers[j]
      /\ peers' \in [Slot -> Peer]
  BY <1>1 DEF Packet
<1>3. \A j \in Slot \ {i} : ~Holds(peers, j, u)
  <2>1. Holds(peers, i, u) \/ ~Present(peers, u)
    BY SlotForOwn DEF Packet
  <2>2. CASE Holds(peers, i, u)
    BY <2>2 DEF UniqueUid, Holds
  <2> QED BY <2>1, <2>2 DEF Present
<1>4. MaxAge \in Nat
  BY TimeFacts DEF MaxAge
<1>5. TypeOK'
  <2>1. ageOn' \in [Uid -> [Radio -> 0 .. MaxAge]]
    <3> DEFINE h == [q \in Radio |-> IF q = r THEN 0
                                     ELSE IF Present(peers, u) THEN ageOn[u][q] ELSE MaxAge]
    <3>1. ageOn' = [ageOn EXCEPT ![u] = h]
      BY DEF Packet, Heard, TypeOK
    <3>2. h \in [Radio -> 0 .. MaxAge]
      BY <1>4 DEF TypeOK
    <3> QED BY <3>1, <3>2 DEF TypeOK
  <2>2. \A j \in Slot : peers'[j].valid => peers'[j].uid \in Uid
    BY <1>1, <1>2 DEF TypeOK
  <2>3. age' \in [Uid -> 0 .. MaxAge] /\ evicted' \subseteq Uid /\ now' \in Time
    BY <1>1, <1>4
  <2> QED BY <1>2, <2>1, <2>2, <2>3 DEF TypeOK
<1>6. UniqueUid'
  BY <1>2, <1>3 DEF UniqueUid, Holds
<1>7. Stamped'
  <2> SUFFICES ASSUME NEW j \in Slot, peers'[j].valid
               PROVE  Elapsed(now, peers'[j].update) = age'[peers'[j].uid]
    BY <1>1 DEF Stamped
  <2>1. CASE j = i
    BY <2>1, <1>1, <1>2, ElapsedType
  <2>2. CASE j # i
    <3>1. peers'[j] = peers[j] /\ peers[j].uid # u /\ peers[j].uid \in Uid
      BY <2>2, <1>2, <1>3 DEF Holds, TypeOK
    <3> QED BY <3>1, <1>1 DEF Stamped
  <2> QED BY <2>1, <2>2
<1>8. RecentlyHeardKept'
  <2> SUFFICES ASSUME NEW v \in Uid, age'[v] <= PeerTimeout
               PROVE  Present(peers', v) \/ v \in evicted'
    BY DEF RecentlyHeardKept, Present, Holds
  <2>1. CASE v = u
    BY <2>1, <1>2 DEF Present, Holds
  <2>2. CASE v # u
    <3>1. Present(peers, v) \/ v \in evicted
      BY <2>2, <1>1 DEF RecentlyHeardKept
    <3>2. CASE v \in evicted
      BY <3>2, <2>2, <1>1
    <3>3. CASE Present(peers, v)
      <4>1. PICK j \in Slot : Holds(peers, j, v)
        BY <3>3 DEF Present
      <4>2. CASE j = i
        BY <4>1, <4>2, <2>2, <1>1
      <4>3. CASE j # i
        BY <4>1, <4>3, <1>2 DEF Present, Holds
      <4> QED BY <4>2, <4>3
    <3> QED BY <3>1, <3>2, <3>3
  <2> QED BY <2>1, <2>2
<1>9. NothingInherited'
  BY <1>2 DEF NothingInherited, Packet
<1>10. EvictedAreAbsent'
  <2> SUFFICES ASSUME NEW v \in evicted', NEW j \in Slot, Holds(peers', j, v)
               PROVE  FALSE
    BY DEF EvictedAreAbsent, Present, Holds
  <2>1. v # u /\ j # i
    BY <1>1, <1>2 DEF Holds
  <2>2. Holds(peers, j, v)
    BY <2>1, <1>2 DEF Holds
  <2>3. v \in evicted \/ Holds(peers, i, v)
    BY <1>1
  <2>4. CASE v \in evicted
    BY <2>2, <2>4 DEF EvictedAreAbsent, Present
  <2>5. CASE Holds(peers, i, v)
    BY <2>1, <2>2, <2>5 DEF UniqueUid, Holds
  <2> QED BY <2>3, <2>4, <2>5
<1>11. StampsInOrder'
  BY <1>1, <1>2 DEF StampsInOrder, Time
<1> QED BY <1>5, <1>6, <1>7, <1>8, <1>9, <1>10, <1>11

LEMMA ExpireKeepsIInv ==
    ASSUME IInv, Expire
    PROVE  IInv'
<1> USE DEF IInv
<1>1. /\ now' = now /\ age' = age /\ ageOn' = ageOn /\ evicted' = evicted
      /\ peers' = Expired(peers, now)
  BY DEF Expire
<1>2. \A j \in Slot : peers'[j] = EmptyPeer \/ peers'[j] = peers[j]
  BY <1>1 DEF Expired
<1>3. \A j \in Slot : peers'[j].valid => peers'[j] = peers[j]
  BY <1>2, EmptyPeerType
<1>4. TypeOK'
  BY <1>1, <1>3, EmptyPeerType DEF TypeOK, Expired
<1>5. RecentlyHeardKept'
  <2> SUFFICES ASSUME NEW v \in Uid, age[v] <= PeerTimeout, v \notin evicted
               PROVE  Present(peers', v)
    BY <1>1 DEF RecentlyHeardKept, Present, Holds
  <2>1. PICK j \in Slot : Holds(peers, j, v)
    BY DEF RecentlyHeardKept, Present
  <2>2. Elapsed(now, peers[j].update) = age[v]
    BY <2>1 DEF Stamped, Holds
  <2>3. ~IsSilent(peers, j, now)
    BY <2>2, PeersAssumption, TimeFacts DEF IsSilent, TypeOK, MaxAge
  <2>4. peers'[j] = peers[j]
    BY <1>1, <2>3 DEF Expired
  <2> QED BY <2>1, <2>4 DEF Present, Holds
<1>6. UniqueUid' /\ Stamped' /\ NothingInherited' /\ StampsInOrder'
  BY <1>1, <1>3 DEF UniqueUid, Stamped, NothingInherited, StampsInOrder
<1>7. EvictedAreAbsent'
  BY <1>1, <1>3 DEF EvictedAreAbsent, Present, Holds
<1> QED BY <1>4, <1>5, <1>6, <1>7

LEMMA TickKeepsIInv ==
    ASSUME IInv, NEW d \in 1 .. MaxStep, Tick(d)
    PROVE  IInv'
<1> USE DEF IInv
<1>1. /\ peers' = peers /\ evicted' = evicted /\ now' = Later(now, d)
      /\ age' = [u \in Uid |-> Aged(age[u], d)]
      /\ ageOn' = [u \in Uid |-> [r \in Radio |-> Aged(ageOn[u][r], d)]]
      /\ \A i \in Slot : peers[i].valid => age[peers[i].uid] + d < MaxAge
      /\ MayWrap \/ now + d < TimeMod
  BY DEF Tick
<1>2. d \in 1 .. TimeMod - 1 /\ MaxAge \in Nat /\ MaxAge = TimeMod - 1 /\ PeerTimeout \in Nat
      /\ PeerTimeout < MaxAge
  BY TimeFacts, PeerTableAssumption, PeersAssumption DEF MaxAge
<1>3. \A a \in 0 .. MaxAge : Aged(a, d) \in 0 .. MaxAge
  BY <1>2 DEF Aged
<1>4. now \in Time /\ Later(now, d) \in Time
  BY <1>2, LaterElapsed DEF TypeOK
<1>5. TypeOK'
  BY <1>1, <1>3, <1>4 DEF TypeOK
<1>6. Stamped'
  <2> SUFFICES ASSUME NEW i \in Slot, peers[i].valid
               PROVE  Elapsed(Later(now, d), peers[i].update) = Aged(age[peers[i].uid], d)
    BY <1>1 DEF Stamped, TypeOK
  <2>1. peers[i].update \in Time /\ peers[i].uid \in Uid /\ age[peers[i].uid] \in 0 .. MaxAge
    BY DEF TypeOK, Peer
  <2>2. Elapsed(now, peers[i].update) = age[peers[i].uid]
    BY DEF Stamped
  <2>3. age[peers[i].uid] + d < MaxAge
    BY <1>1
  <2>4. Elapsed(now, peers[i].update) + d < TimeMod
    BY <1>2, <2>1, <2>2, <2>3, TimeFacts
  <2>5. Elapsed(Later(now, d), peers[i].update) = Elapsed(now, peers[i].update) + d
    BY <1>2, <1>4, <2>1, <2>4, LaterElapsed
  <2> QED BY <2>2, <2>3, <2>5 DEF Aged
<1>7. RecentlyHeardKept'
  <2> SUFFICES ASSUME NEW v \in Uid, Aged(age[v], d) <= PeerTimeout
               PROVE  Present(peers, v) \/ v \in evicted
    BY <1>1 DEF RecentlyHeardKept, Present, Holds
  <2>1. age[v] \in 0 .. MaxAge
    BY DEF TypeOK
  <2>2. age[v] <= PeerTimeout
    BY <1>2, <2>1 DEF Aged
  <2> QED BY <2>2 DEF RecentlyHeardKept
<1>8. UniqueUid' /\ NothingInherited'
  BY <1>1 DEF UniqueUid, NothingInherited
<1>9. EvictedAreAbsent'
  BY <1>1 DEF EvictedAreAbsent, Present, Holds
<1>10. StampsInOrder'
  <2> SUFFICES ASSUME ~MayWrap, NEW i \in Slot, peers[i].valid
               PROVE  peers[i].update <= Later(now, d)
    BY <1>1 DEF StampsInOrder
  <2>1. peers[i].update \in Time /\ peers[i].update <= now
    BY DEF TypeOK, Peer, StampsInOrder
  <2>2. Later(now, d) = now + d
    BY <1>1 DEF Later
  <2> QED BY <1>2, <1>4, <2>1, <2>2, TimeFacts DEF Time
<1> QED BY <1>5, <1>6, <1>7, <1>8, <1>9, <1>10

LEMMA NextKeepsIInv == IInv /\ [Next]_vars => IInv'
<1> SUFFICES ASSUME IInv, [Next]_vars PROVE IInv'
  OBVIOUS
<1>1. ASSUME NEW u \in Uid, NEW r \in Radio, UpdatePosition(u, r) PROVE IInv'
  BY <1>1, PositionIsPacket, PacketKeepsIInv
<1>2. ASSUME NEW u \in Uid, NEW r \in Radio, UpdateAnnounce(u, r) PROVE IInv'
  BY <1>2, AnnounceIsPacket, PacketKeepsIInv
<1>3. CASE Expire
  BY <1>3, ExpireKeepsIInv
<1>4. ASSUME NEW d \in 1 .. MaxStep, Tick(d) PROVE IInv'
  BY <1>4, TickKeepsIInv
<1>5. CASE UNCHANGED vars
  BY <1>5 DEF vars, IInv, TypeOK, UniqueUid, Stamped, RecentlyHeardKept, NothingInherited,
       EvictedAreAbsent, StampsInOrder, Present, Holds
<1> QED BY <1>1, <1>2, <1>3, <1>4, <1>5 DEF Next

LEMMA Invariance == Spec => []IInv
  BY InitIInv, NextKeepsIInv, PTL DEF Spec

(***************************************************************************)
(* The table, its stamps and its histories keep their types.               *)
(***************************************************************************)
THEOREM TypeCorrect == Spec => []TypeOK
<1>1. IInv => TypeOK
  BY DEF IInv
<1> QED BY <1>1, Invariance, PTL

(***************************************************************************)
(* No node ever has two entries.                                           *)
(***************************************************************************)
THEOREM OneEntryPerPeer == Spec => []UniqueUid
<1>1. IInv => UniqueUid
  BY DEF IInv
<1> QED BY <1>1, Invariance, PTL

(***************************************************************************)
(* A peer heard within the timeout is in the table or was evicted.         *)
(***************************************************************************)
THEOREM RecentPeersKept == Spec => []RecentlyHeardKept
<1>1. IInv => RecentlyHeardKept
  BY DEF IInv
<1> QED BY <1>1, Invariance, PTL

(***************************************************************************)
(* An entry shows nothing of the occupant it replaced.                     *)
(***************************************************************************)
THEOREM EntriesAreClean == Spec => []NothingInherited
<1>1. IInv => NothingInherited
  BY DEF IInv
<1> QED BY <1>1, Invariance, PTL

(***************************************************************************)
(* While the clock does not wrap, the peer evicted for another is one      *)
(* heard longest ago.  Without the assumption it is false.                 *)
(***************************************************************************)
LEMMA PacketEvictsLeastRecent ==
    ASSUME IInv, ~MayWrap,
           NEW u \in Uid, NEW r \in Radio, NEW i \in Slot, NEW p \in Peer, Packet(u, i, r, p),
           NEW w \in Uid, w \in evicted', Present(peers, w),
           NEW v \in Uid, Present(peers, v)
    PROVE  age[v] <= age[w]
<1> USE DEF IInv
<1>1. w # u /\ Holds(peers, i, w)
  BY DEF Packet, Heard, EvictedAreAbsent
<1>2. IsAllocated(peers, i)
  BY <1>1 DEF Packet, IsSlotFor, IsFound, Holds
<1>3. PICK j \in Slot : Holds(peers, j, v)
  BY DEF Present
<1>4. peers[i].update <= peers[j].update
  BY <1>1, <1>2 DEF IsAllocated, Holds
<1>5. /\ age[w] = Elapsed(now, peers[i].update) /\ peers[i].update <= now
      /\ age[v] = Elapsed(now, peers[j].update) /\ peers[j].update <= now
  BY <1>1, <1>3 DEF Stamped, StampsInOrder, Holds
<1>6. now \in Int /\ peers[i].update \in Int /\ peers[j].update \in Int
  BY TimeFacts DEF TypeOK, Peer, Time
<1> QED BY <1>4, <1>5, <1>6 DEF Elapsed

THEOREM LeastRecentEvicted ==
    ASSUME ~MayWrap
    PROVE  Spec => EvictsLeastRecent
<1>1. ASSUME IInv, [Next]_vars PROVE [LeastRecentIsEvicted]_vars
  <2> SUFFICES ASSUME NEW w \in Uid, w \in evicted', Present(peers, w),
                      NEW v \in Uid, Present(peers, v), Next
               PROVE  age[v] <= age[w]
    BY <1>1 DEF LeastRecentIsEvicted
  <2>1. ASSUME NEW u \in Uid, NEW r \in Radio, UpdatePosition(u, r) PROVE age[v] <= age[w]
    BY <1>1, <2>1, PositionIsPacket, PacketEvictsLeastRecent
  <2>2. ASSUME NEW u \in Uid, NEW r \in Radio, UpdateAnnounce(u, r) PROVE age[v] <= age[w]
    BY <1>1, <2>2, AnnounceIsPacket, PacketEvictsLeastRecent
  <2>3. w \notin evicted
    BY <1>1 DEF IInv, EvictedAreAbsent
  <2>4. CASE Expire
    BY <2>3, <2>4 DEF Expire
  <2>5. ASSUME NEW d \in 1 .. MaxStep, Tick(d) PROVE age[v] <= age[w]
    BY <2>3, <2>5 DEF Tick
  <2> QED BY <2>1, <2>2, <2>4, <2>5 DEF Next
<1>2. IInv /\ [Next]_vars => [LeastRecentIsEvicted]_vars
  BY <1>1
<1> QED BY <1>2, Invariance, PTL DEF Spec, EvictsLeastRecent
-----------------------------------------------------------------------------
(***************************************************************************)
(* The counts.  Nothing renews a radio's stamp but a packet on that radio, *)
(* so an entry kept alive by one radio may hold a stamp of another that is *)
(* older than the clock can tell; while the clock does not wrap, the age   *)
(* the code computes for a radio is the true one.                          *)
(***************************************************************************)
RadioTimed(i, r) ==
    IF r \in peers[i].radios
    THEN peers[i].seen[r] <= now /\ ageOn[peers[i].uid][r] = now - peers[i].seen[r]
    ELSE ageOn[peers[i].uid][r] = MaxAge

RadiosTimed == \A i \in Slot, r \in Radio : peers[i].valid => RadioTimed(i, r)

CountInv == IInv /\ RadiosTimed

LEMMA PacketKeepsRadios ==
    ASSUME CountInv, NEW u \in Uid, NEW r \in Radio, NEW i \in Slot, NEW p \in Peer,
           Packet(u, i, r, p)
    PROVE  RadiosTimed'
<1> USE DEF CountInv
<1>1. /\ peers \in [Slot -> Peer] /\ now \in Nat /\ now' = now
      /\ ageOn \in [Uid -> [Radio -> 0 .. MaxAge]]
      /\ peers' = [peers EXCEPT ![i] = p] /\ p.valid /\ p.uid = u
  BY TimeFacts DEF IInv, TypeOK, Packet, Heard, Time
<1> DEFINE o == Occupant(peers, u, i)
           h == [q \in Radio |-> IF q = r THEN 0
                                 ELSE IF Present(peers, u) THEN ageOn[u][q] ELSE MaxAge]
<1>2. ageOn' = [ageOn EXCEPT ![u] = h]
  BY <1>1 DEF Packet, Heard
<1>3. /\ o \in Peer /\ p.radios = o.radios \cup {r} /\ p.seen = [o.seen EXCEPT ![r] = now]
  BY OccupantType DEF Packet
<1> SUFFICES ASSUME NEW j \in Slot, NEW q \in Radio, peers'[j].valid
             PROVE  RadioTimed(j, q)'
  BY DEF RadiosTimed
<1>4. CASE j # i
  <2>1. peers'[j] = peers[j] /\ peers[j].valid
    BY <1>1, <1>4
  <2>2. peers[j].uid # u
    <3>1. Holds(peers, i, u) \/ ~Present(peers, u)
      BY SlotForOwn DEF Packet
    <3>2. CASE Holds(peers, i, u)
      BY <1>4, <2>1, <3>2 DEF IInv, UniqueUid, Holds
    <3> QED BY <2>1, <3>1, <3>2 DEF Present, Holds
  <2>3. ageOn'[peers[j].uid] = ageOn[peers[j].uid]
    BY <1>1, <1>2, <2>1, <2>2 DEF IInv, TypeOK
  <2> QED BY <1>1, <2>1, <2>3 DEF RadiosTimed, RadioTimed
<1>5. CASE j = i
  <2>1. peers'[j] = p /\ ageOn'[u] = h
    BY <1>1, <1>2, <1>5
  <2>2. CASE q = r
    <3>1. q \in p.radios /\ p.seen[q] = now /\ h[q] = 0
      BY <1>3, <2>2 DEF Peer
    <3> QED BY <1>1, <2>1, <3>1 DEF RadioTimed
  <2>3. CASE q # r
    <3>1. (q \in p.radios <=> q \in o.radios) /\ p.seen[q] = o.seen[q]
      BY <1>3, <2>3 DEF Peer
    <3>2. CASE Holds(peers, i, u)
      <4>1. o = peers[i] /\ peers[i].valid /\ peers[i].uid = u /\ Present(peers, u)
        BY <3>2 DEF Occupant, Holds, Present
      <4>2. h[q] = ageOn[u][q] /\ RadioTimed(i, q)
        BY <2>3, <4>1 DEF RadiosTimed
      <4> QED BY <1>1, <2>1, <3>1, <4>1, <4>2 DEF RadioTimed
    <3>3. CASE ~Holds(peers, i, u)
      <4>1. ~Present(peers, u)
        BY <3>3, SlotForOwn DEF Packet
      <4>2. o = [EmptyPeer EXCEPT !.uid = u, !.valid = TRUE]
        BY <3>3 DEF Occupant
      <4>3. o.radios = {}
        BY <4>2 DEF EmptyPeer
      <4>4. q \notin p.radios /\ h[q] = MaxAge
        BY <2>3, <3>1, <4>1, <4>3
      <4> QED BY <1>1, <2>1, <4>4 DEF RadioTimed
    <3> QED BY <3>2, <3>3
  <2> QED BY <2>2, <2>3
<1> QED BY <1>4, <1>5

LEMMA TickKeepsRadios ==
    ASSUME CountInv, ~MayWrap, NEW d \in 1 .. MaxStep, Tick(d)
    PROVE  RadiosTimed'
<1> USE DEF CountInv
<1>1. /\ peers' = peers /\ now' = Later(now, d) /\ now + d < TimeMod
      /\ ageOn' = [u \in Uid |-> [r \in Radio |-> Aged(ageOn[u][r], d)]]
  BY DEF Tick
<1>2. now \in Nat /\ d \in Nat /\ TimeMod \in Nat /\ MaxAge = TimeMod - 1
  BY TimeFacts, PeerTableAssumption DEF IInv, TypeOK, Time, MaxAge
<1>3. now' = now + d
  BY <1>1, <1>2 DEF Later
<1> SUFFICES ASSUME NEW i \in Slot, NEW r \in Radio, peers[i].valid
             PROVE  RadioTimed(i, r)'
  BY <1>1 DEF RadiosTimed
<1> DEFINE a == ageOn[peers[i].uid][r]
           s == peers[i].seen[r]
<1>4. /\ peers[i].uid \in Uid /\ s \in Nat /\ a \in 0 .. MaxAge
      /\ ageOn'[peers[i].uid][r] = Aged(a, d)
  BY <1>1, TimeFacts DEF IInv, TypeOK, Peer, Time
<1>5. RadioTimed(i, r)
  BY DEF RadiosTimed
<1>6. CASE r \in peers[i].radios
  <2>1. s <= now /\ a = now - s
    BY <1>5, <1>6 DEF RadioTimed
  <2> HIDE DEF a, s
  <2>2. Aged(a, d) = now + d - s /\ s <= now + d
    BY <1>1, <1>2, <1>4, <2>1 DEF Aged
  <2>3. peers'[i].seen[r] = s /\ peers'[i].uid = peers[i].uid /\ r \in peers'[i].radios
    BY <1>1, <1>6 DEF s
  <2>4. ageOn'[peers[i].uid][r] = now' - s /\ s <= now'
    BY <1>2, <1>3, <1>4, <2>2
  <2> QED BY <2>3, <2>4 DEF RadioTimed
<1>7. CASE r \notin peers[i].radios
  <2>1. a = MaxAge
    BY <1>5, <1>7 DEF RadioTimed
  <2>2. Aged(a, d) = MaxAge
    BY <1>2, <2>1 DEF Aged
  <2> QED BY <1>1, <1>4, <1>7, <2>2 DEF RadioTimed
<1> QED BY <1>6, <1>7

LEMMA CountInvariance ==
    ASSUME ~MayWrap
    PROVE  Spec => []CountInv
<1>1. Init => CountInv
  BY InitIInv, EmptyPeerType DEF CountInv, RadiosTimed, Init, EmptyTable
<1>2. ASSUME CountInv, [Next]_vars PROVE CountInv'
  <2>1. IInv'
    BY <1>2, NextKeepsIInv DEF CountInv
  <2>2. ASSUME NEW u \in Uid, NEW r \in Radio, UpdatePosition(u, r) PROVE RadiosTimed'
    BY <1>2, <2>2, PositionIsPacket, PacketKeepsRadios DEF CountInv
  <2>3. ASSUME NEW u \in Uid, NEW r \in Radio, UpdateAnnounce(u, r) PROVE RadiosTimed'
    BY <1>2, <2>3, AnnounceIsPacket, PacketKeepsRadios DEF CountInv
  <2>4. ASSUME Expire PROVE RadiosTimed'
    <3>1. \A j \in Slot : peers'[j].valid => peers'[j] = peers[j]
      BY <2>4, EmptyPeerType DEF Expire, Expired
    <3> QED BY <1>2, <2>4, <3>1 DEF Expire, CountInv, RadiosTimed, RadioTimed
  <2>5. ASSUME NEW d \in 1 .. MaxStep, Tick(d) PROVE RadiosTimed'
    BY <1>2, <2>5, TickKeepsRadios
  <2>6. ASSUME UNCHANGED vars PROVE RadiosTimed'
    BY <1>2, <2>6 DEF vars, CountInv, RadiosTimed, RadioTimed
  <2> QED BY <1>2, <2>1, <2>2, <2>3, <2>4, <2>5, <2>6 DEF Next, CountInv
<1>3. CountInv /\ [Next]_vars => CountInv'
  BY <1>2
<1> QED BY <1>1, <1>3, PTL DEF Spec

(***************************************************************************)
(* Slots with different occupants are as many as their occupants.          *)
(***************************************************************************)
LEMMA SlotsCountPeers ==
    ASSUME IInv, NEW T, T \subseteq {i \in Slot : peers[i].valid}
    PROVE  Cardinality(T) = Cardinality({peers[i].uid : i \in T})
<1> DEFINE S == {peers[i].uid : i \in T}
           f == [i \in T |-> peers[i].uid]
<1>1. IsFiniteSet(T)
  <2>1. IsFiniteSet(Slot)
    BY PeersAssumption, FS_Interval DEF Slot
  <2> QED BY <2>1, FS_Subset
<1>2. f \in Injection(T, S)
  BY DEF IInv, UniqueUid, Injection, IsInjective
<1>3. f \in Surjection(T, S)
  BY DEF Surjection
<1>4. ExistsBijection(T, S)
  BY <1>2, <1>3 DEF ExistsBijection, Bijection
<1> QED BY <1>1, <1>4, FS_Bijection

(***************************************************************************)
(* While the clock does not wrap, the counts that pace the beacons are the *)
(* numbers of peers in the table really heard within the timeout.          *)
(***************************************************************************)
THEOREM CountsCorrect ==
    ASSUME ~MayWrap
    PROVE  Spec => []CountsAreTrue
<1>1. ASSUME CountInv PROVE CountsAreTrue
  <2> USE <1>1 DEF CountInv, IInv
  <2> DEFINE T == {i \in Slot : peers[i].valid /\ ~IsSilent(peers, i, now)}
             S == {u \in Uid : Present(peers, u) /\ age[u] <= PeerTimeout}
  <2>1. \A i \in Slot : peers[i].valid =>
            peers[i].uid \in Uid /\ (~IsSilent(peers, i, now) <=> age[peers[i].uid] <= PeerTimeout)
    <3> SUFFICES ASSUME NEW i \in Slot, peers[i].valid
                 PROVE  /\ peers[i].uid \in Uid
                        /\ ~IsSilent(peers, i, now) <=> age[peers[i].uid] <= PeerTimeout
      OBVIOUS
    <3>1. peers[i].uid \in Uid /\ Elapsed(now, peers[i].update) = age[peers[i].uid]
      BY DEF TypeOK, Stamped
    <3>2. age[peers[i].uid] \in Nat /\ PeerTimeout \in Nat
      BY <3>1, TimeFacts, PeersAssumption DEF TypeOK, MaxAge
    <3> QED BY <3>1, <3>2 DEF IsSilent
  <2>2. S = {peers[i].uid : i \in T}
    BY <2>1 DEF Present, Holds
  <2>3. Cardinality(T) = Cardinality(S)
    BY <2>2, SlotsCountPeers
  <2>4. ASSUME NEW r \in Radio
        PROVE  CountActiveOn(peers, r, now) =
                 Cardinality({u \in Uid : Present(peers, u) /\ ageOn[u][r] <= PeerTimeout})
    <3> DEFINE A == {i \in Slot : /\ peers[i].valid
                                  /\ r \in peers[i].radios
                                  /\ Elapsed(now, peers[i].seen[r]) <= PeerTimeout}
               B == {u \in Uid : Present(peers, u) /\ ageOn[u][r] <= PeerTimeout}
    <3>1. ASSUME NEW i \in Slot, peers[i].valid
          PROVE  i \in A <=> ageOn[peers[i].uid][r] <= PeerTimeout
      <4>1. RadioTimed(i, r)
        BY <3>1 DEF RadiosTimed
      <4>2. /\ now \in Nat /\ peers[i].seen[r] \in Nat /\ MaxAge \in Nat /\ PeerTimeout \in Nat
            /\ PeerTimeout < MaxAge
        BY TimeFacts, PeersAssumption, PeerTableAssumption DEF TypeOK, Peer, Time, MaxAge
      <4>3. CASE r \in peers[i].radios
        <5>1. peers[i].seen[r] <= now /\ ageOn[peers[i].uid][r] = now - peers[i].seen[r]
          BY <4>1, <4>3 DEF RadioTimed
        <5>2. Elapsed(now, peers[i].seen[r]) = now - peers[i].seen[r]
          BY <4>2, <5>1 DEF Elapsed
        <5> QED BY <3>1, <4>3, <5>1, <5>2
      <4>4. CASE r \notin peers[i].radios
        BY <4>1, <4>2, <4>4 DEF RadioTimed
      <4> QED BY <4>3, <4>4
    <3>2. B = {peers[i].uid : i \in A}
      BY <2>1, <3>1 DEF Present, Holds
    <3>3. Cardinality(A) = Cardinality(B)
      BY <3>2, SlotsCountPeers
    <3> QED BY <3>3 DEF CountActiveOn
  <2> QED BY <2>3, <2>4 DEF CountsAreTrue, CountActive
<1>2. CountInv => CountsAreTrue
  BY <1>1
<1> QED BY <1>2, CountInvariance, PTL
=============================================================================
