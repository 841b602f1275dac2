--------------------------- MODULE SpscRingProofs ---------------------------
(***************************************************************************)
(* Theorems about what runs beside the main loop: SpscRing, for every      *)
(* capacity and every set of frames; Simulator, for every set of uids,     *)
(* size of the list and of the queue, and times; and FrameLog, for every   *)
(* size of the log and of a reply, and any number of polls and restarts.   *)
(***************************************************************************)
EXTENDS SpscRing, Simulator, FrameLog, TLAPS, SequenceTheorems, FiniteSetTheorems

(***************************************************************************)
(* The inductive invariant.  What the code relies on without saying: a     *)
(* producer past its check still has room, because only the consumer moves *)
(* tail and it only moves it away; a consumer past its check still has a   *)
(* frame, for the symmetric reason; and what each side has copied is still *)
(* what the slot holds.                                                    *)
(***************************************************************************)
ProducerHasRoom == prod.pc \in {"write", "publish"} => NextSlot(head) # tail
ProducerHoldsItem == prod.pc # "idle" => prod.item \in Item
WrittenIsItem == prod.pc = "publish" => buf[head] = prod.item
ConsumerHasFrame == cons.pc # "idle" => tail # head
CopiedIsOldest == cons.pc = "release" => cons.item = buf[tail]
UnreadAreItems == \A i \in 1 .. Used : Unread[i] \in Item

IInv ==
    /\ TypeOK
    /\ ProducerHasRoom
    /\ ProducerHoldsItem
    /\ WrittenIsItem
    /\ ConsumerHasFrame
    /\ CopiedIsOldest
    /\ UnreadAreItems

(***************************************************************************)
(* Arithmetic of the indices: where the oldest frames are, and what one    *)
(* step of either index does to the number of unread frames.               *)
(***************************************************************************)
LEMMA NextSlotInSlot == \A s \in Slot : NextSlot(s) \in Slot
  BY CapacityAssumption DEF NextSlot, Slot

LEMMA UsedRange ==
    ASSUME head \in Slot, tail \in Slot
    PROVE  Used \in 0 .. Capacity - 1 /\ (Used = 0 <=> head = tail)
  BY CapacityAssumption DEF Used, Slot

LEMMA FullMeansUsable ==
    ASSUME head \in Slot, tail \in Slot
    PROVE  NextSlot(head) = tail <=> Used = Capacity - 1
  BY CapacityAssumption DEF Used, Slot, NextSlot

LEMMA SlotOfInSlot ==
    ASSUME tail \in Slot, NEW i \in 0 .. Capacity - 1
    PROVE  SlotOf(i) \in Slot
  BY CapacityAssumption DEF SlotOf, Slot

LEMMA UnreadNotHead ==
    ASSUME head \in Slot, tail \in Slot, NEW i \in 0 .. Used - 1
    PROVE  SlotOf(i) # head
  BY CapacityAssumption DEF SlotOf, Slot, Used

LEMMA SlotOfUsed ==
    ASSUME head \in Slot, tail \in Slot
    PROVE  SlotOf(Used) = head /\ SlotOf(0) = tail
  BY CapacityAssumption DEF SlotOf, Slot, Used

LEMMA UnreadSeq ==
    ASSUME TypeOK, UnreadAreItems
    PROVE  Unread \in Seq(Item) /\ Len(Unread) = Used
<1>1. Used \in Nat
  BY UsedRange DEF TypeOK
<1>2. DOMAIN Unread = 1 .. Used
  BY DEF Unread
<1>3. \A i \in 1 .. Used : Unread[i] \in Item
  BY DEF UnreadAreItems
<1>4. Unread = [i \in 1 .. Used |-> Unread[i]]
  BY DEF Unread
<1>5. Unread \in [1 .. Used -> Item]
  BY <1>3, <1>4
<1>6. Unread \in Seq(Item)
  BY <1>1, <1>5, SeqDef
<1>7. Len(Unread) = Used
  BY <1>1, <1>2, <1>6, LenProperties
<1> QED BY <1>6, <1>7

(***************************************************************************)
(* The step of each index as it changes the abstract queue: publishing     *)
(* appends the written frame, releasing removes the oldest one.            *)
(***************************************************************************)
LEMMA PublishAppends ==
    ASSUME IInv, PushPublish
    PROVE  /\ Used' = Used + 1
           /\ Unread' = Append(Unread, prod.item)
           /\ UnreadAreItems'
<1> USE DEF IInv
<1>1. /\ head \in Slot /\ tail \in Slot
      /\ buf' = buf /\ tail' = tail /\ head' = NextSlot(head)
      /\ NextSlot(head) # tail
      /\ prod.item = buf[head] /\ prod.item \in Item
  BY DEF TypeOK, PushPublish, ProducerHasRoom, WrittenIsItem, ProducerHoldsItem
<1>2. Used \in Nat /\ Used' = Used + 1
  BY <1>1, CapacityAssumption DEF Used, Slot, NextSlot
<1>3. \A i \in Nat : SlotOf(i)' = SlotOf(i)
  BY <1>1 DEF SlotOf
<1>4. Unread' = [i \in 1 .. Used + 1 |-> buf[SlotOf(i - 1)]]
  BY <1>1, <1>2, <1>3 DEF Unread, SlotOf
<1>5. SlotOf(Used) = head
  BY <1>1, SlotOfUsed
<1>6. Unread \in Seq(Item) /\ Len(Unread) = Used
  BY UnreadSeq
<1>7. Append(Unread, prod.item) =
        [i \in 1 .. Used + 1 |-> IF i = Used + 1 THEN prod.item ELSE Unread[i]]
  BY <1>1, <1>2, <1>6, AppendProperties
<1>8. \A i \in 1 .. Used + 1 :
        buf[SlotOf(i - 1)] = IF i = Used + 1 THEN prod.item ELSE Unread[i]
  BY <1>1, <1>2, <1>5 DEF Unread
<1>9. Unread' = Append(Unread, prod.item)
  BY <1>4, <1>7, <1>8
<1>10. Unread' \in Seq(Item) /\ Len(Unread') = Used'
  BY <1>1, <1>2, <1>6, <1>9, AppendProperties
<1>11. \A i \in 1 .. Used' : Unread'[i] \in Item
  BY <1>10, ElementOfSeq
<1> QED BY <1>2, <1>9, <1>11 DEF UnreadAreItems

LEMMA ReleaseRemovesOldest ==
    ASSUME IInv, PopRelease
    PROVE  /\ Used' = Used - 1
           /\ Unread # <<>>
           /\ cons.item = Head(Unread)
           /\ Unread' = Tail(Unread)
           /\ UnreadAreItems'
<1> USE DEF IInv
<1>1. /\ head \in Slot /\ tail \in Slot
      /\ buf' = buf /\ head' = head /\ tail' = NextSlot(tail)
      /\ head # tail
      /\ cons.item = buf[tail]
  BY DEF TypeOK, PopRelease, ConsumerHasFrame, CopiedIsOldest
<1>2. Used \in Nat /\ Used > 0 /\ Used' = Used - 1
  BY <1>1, CapacityAssumption DEF Used, Slot, NextSlot
<1>3. \A i \in 1 .. Used' : SlotOf(i - 1)' = SlotOf(i)
  BY <1>1, <1>2, CapacityAssumption DEF SlotOf, NextSlot, Slot, Used
<1>4. Unread' = [i \in 1 .. Used' |-> buf[SlotOf(i)]]
  BY <1>1, <1>2, <1>3 DEF Unread
<1>5. Unread \in Seq(Item) /\ Len(Unread) = Used
  BY UnreadSeq
<1>6. SlotOf(0) = tail
  BY <1>1, SlotOfUsed
<1>7. Unread # <<>> /\ Head(Unread) = Unread[1]
  BY <1>2, <1>5
<1>8. Unread[1] = buf[tail]
  <2>1. 1 \in 1 .. Used
    BY <1>2
  <2>2. Unread[1] = buf[SlotOf(1 - 1)]
    BY <2>1 DEF Unread
  <2> QED BY <2>2, <1>6
<1>9. \A i \in 1 .. Used' : Unread[i + 1] = buf[SlotOf(i)]
  <2> TAKE i \in 1 .. Used'
  <2>1. i + 1 \in 1 .. Used /\ (i + 1) - 1 = i
    BY <1>2
  <2>2. Unread[i + 1] = buf[SlotOf((i + 1) - 1)]
    BY <2>1 DEF Unread
  <2> QED BY <2>1, <2>2
<1>10. /\ Tail(Unread) \in Seq(Item) /\ Len(Tail(Unread)) = Used'
       /\ \A i \in 1 .. Used' : Tail(Unread)[i] = Unread[i + 1]
  BY <1>2, <1>5, <1>7, HeadTailProperties
<1>11. Tail(Unread) = [i \in 1 .. Used' |-> Tail(Unread)[i]]
  <2>1. Tail(Unread) \in [1 .. Used' -> Item]
    BY <1>10, LenProperties
  <2> QED BY <2>1
<1>12. Unread' = Tail(Unread)
  BY <1>4, <1>9, <1>10, <1>11
<1>13. \A i \in 1 .. Used' : Unread'[i] \in Item
  BY <1>10, <1>12, ElementOfSeq
<1> QED BY <1>1, <1>2, <1>7, <1>8, <1>12, <1>13 DEF UnreadAreItems

(***************************************************************************)
(* The invariant holds initially and every step keeps it.                  *)
(***************************************************************************)
LEMMA InitIInv == Init => IInv
<1> SUFFICES ASSUME Init PROVE IInv
  OBVIOUS
<1>1. TypeOK
  BY CapacityAssumption, DropModAssumption DEF Init, TypeOK, Slot
<1>2. Used = 0
  BY DEF Init, Used
<1>3. UnreadAreItems
  BY <1>2 DEF UnreadAreItems
<1> QED
  BY <1>1, <1>3 DEF Init, IInv, ProducerHasRoom, ProducerHoldsItem, WrittenIsItem,
       ConsumerHasFrame, CopiedIsOldest

(***************************************************************************)
(* A step that moves neither index nor a slot the consumer can see leaves  *)
(* the abstract queue alone.                                               *)
(***************************************************************************)
LEMMA SameUnread ==
    ASSUME UnreadAreItems, head' = head, tail' = tail, buf' = buf
    PROVE  Unread' = Unread /\ UnreadAreItems'
<1>1. Used' = Used
  BY DEF Used
<1>2. \A i \in 1 .. Used : SlotOf(i - 1)' = SlotOf(i - 1)
  BY DEF SlotOf
<1>3. Unread' = Unread
  BY <1>1, <1>2 DEF Unread
<1> QED BY <1>1, <1>3 DEF UnreadAreItems

(***************************************************************************)
(* Copying into the head slot touches no unread frame.                     *)
(***************************************************************************)
LEMMA WriteKeepsUnread ==
    ASSUME IInv, PushWrite
    PROVE  Unread' = Unread /\ UnreadAreItems'
<1>1. /\ head \in Slot /\ tail \in Slot /\ head' = head /\ tail' = tail
      /\ buf \in [Slot -> Item \cup {NoItem}]
      /\ buf' = [buf EXCEPT ![head] = prod.item]
  BY DEF IInv, TypeOK, PushWrite
<1>2. Used' = Used /\ Used \in Nat /\ Used <= Capacity - 1
  BY <1>1, UsedRange, CapacityAssumption DEF Used, Slot
<1>3. ASSUME NEW i \in 1 .. Used
      PROVE  buf'[SlotOf(i - 1)'] = buf[SlotOf(i - 1)]
  <2>1. i - 1 \in 0 .. Used - 1 /\ i - 1 \in 0 .. Capacity - 1
    BY <1>2, CapacityAssumption
  <2>2. SlotOf(i - 1) # head /\ SlotOf(i - 1) \in Slot
    BY <1>1, <2>1, UnreadNotHead, SlotOfInSlot
  <2>3. SlotOf(i - 1)' = SlotOf(i - 1)
    BY <1>1 DEF SlotOf
  <2> QED BY <1>1, <2>2, <2>3
<1>4. Unread' = [i \in 1 .. Used |-> buf'[SlotOf(i - 1)']]
  BY <1>2 DEF Unread
<1>5. Unread' = Unread
  BY <1>3, <1>4 DEF Unread
<1> QED BY <1>2, <1>5 DEF IInv, UnreadAreItems

LEMMA NextIInv == IInv /\ [Next]_vars => IInv'
<1> SUFFICES ASSUME IInv, [Next]_vars PROVE IInv'
  OBVIOUS
<1> USE DEF IInv, TypeOK, ProducerHasRoom, ProducerHoldsItem, WrittenIsItem,
            ConsumerHasFrame, CopiedIsOldest
<1>1. ASSUME NEW item \in Item, Push(item) PROVE IInv'
  BY <1>1, SameUnread DEF Push
<1>2. CASE PushFull
  <2>1. (dropped + 1) % DropMod \in 0 .. DropMod - 1
    BY DropModAssumption
  <2> QED BY <1>2, <2>1, SameUnread DEF PushFull
<1>3. CASE PushRoom
  BY <1>3, SameUnread DEF PushRoom
<1>4. CASE PushWrite
  BY <1>4, WriteKeepsUnread DEF PushWrite
<1>5. CASE PushPublish
  BY <1>5, PublishAppends, NextSlotInSlot, CapacityAssumption
     DEF PushPublish, NextSlot, Slot
<1>6. CASE PopEmpty
  BY <1>6, SameUnread DEF PopEmpty, vars
<1>7. CASE PopFound
  BY <1>7, SameUnread DEF PopFound
<1>8. CASE PopRead
  BY <1>8, SameUnread DEF PopRead
<1>9. CASE PopRelease
  BY <1>9, ReleaseRemovesOldest, NextSlotInSlot, CapacityAssumption
     DEF PopRelease, NextSlot, Slot
<1>10. CASE UNCHANGED vars
  BY <1>10, SameUnread DEF vars
<1> QED
  BY <1>1, <1>2, <1>3, <1>4, <1>5, <1>6, <1>7, <1>8, <1>9, <1>10
     DEF Next, Producer, Consumer
-----------------------------------------------------------------------------
(***************************************************************************)
(* The invariant holds throughout every behaviour.                         *)
(***************************************************************************)
THEOREM Invariance == Spec => []IInv
  BY InitIInv, NextIInv, PTL DEF Spec

(***************************************************************************)
(* Type correctness: in particular neither index ever leaves the buffer.   *)
(***************************************************************************)
THEOREM TypeCorrect == Spec => []TypeOK
<1>1. IInv => TypeOK
  BY DEF IInv
<1> QED BY <1>1, Invariance, PTL

(***************************************************************************)
(* Race freedom: at no capacity and under no interleaving of push and pop  *)
(* do the two sides copy in and out of the same slot.                      *)
(***************************************************************************)
THEOREM RaceFree == Spec => []NoDataRace
<1>1. IInv => NoDataRace
  BY DEF IInv, ConsumerHasFrame, NoDataRace
<1> QED BY <1>1, Invariance, PTL

(***************************************************************************)
(* Initially the abstract queue is empty.                                  *)
(***************************************************************************)
LEMMA InitRefines == Init => Fifo!Init
<1> SUFFICES ASSUME Init PROVE Fifo!Init
  OBVIOUS
<1>1. Used = 0
  BY DEF Init, Used
<1>2. Unread = <<>>
  BY <1>1 DEF Unread
<1> QED BY <1>2 DEF Init, Fifo!Init

(***************************************************************************)
(* Every step of the ring is a step of the queue or leaves it unchanged:   *)
(* the store of head is the put, the store of tail the take, the refused   *)
(* push the refusal.                                                       *)
(***************************************************************************)
LEMMA NextRefines == IInv /\ [Next]_vars => [Fifo!Next]_(Fifo!fifoVars)
<1> SUFFICES ASSUME IInv, [Next]_vars PROVE [Fifo!Next]_(Fifo!fifoVars)
  OBVIOUS
<1> USE DEF Fifo!fifoVars
<1>0. /\ UnreadAreItems /\ head \in Slot /\ tail \in Slot
      /\ Unread \in Seq(Item) /\ Len(Unread) = Used
  BY UnreadSeq DEF IInv, TypeOK
<1>1. ASSUME NEW item \in Item, Push(item) PROVE UNCHANGED Fifo!fifoVars
  BY <1>0, <1>1, SameUnread DEF Push
<1>2. CASE PushFull
  <2>1. Unread' = Unread
    BY <1>0, <1>2, SameUnread DEF PushFull
  <2>2. Len(Unread) = Capacity - 1
    BY <1>0, <1>2, FullMeansUsable DEF PushFull
  <2>3. Fifo!Refuse
    BY <1>2, <2>1, <2>2 DEF PushFull, Fifo!Refuse
  <2> QED BY <2>3 DEF Fifo!Next
<1>3. CASE PushRoom
  BY <1>0, <1>3, SameUnread DEF PushRoom
<1>4. CASE PushWrite
  BY <1>4, WriteKeepsUnread DEF PushWrite
<1>5. CASE PushPublish
  <2>1. Unread' = Append(Unread, prod.item) /\ prod.item \in Item
    BY <1>5, PublishAppends DEF IInv, ProducerHoldsItem, PushPublish
  <2>2. Len(Unread) < Capacity - 1
    <3>1. NextSlot(head) # tail
      BY <1>5 DEF IInv, ProducerHasRoom, PushPublish
    <3>2. Used # Capacity - 1
      BY <1>0, <3>1, FullMeansUsable
    <3>3. Used \in 0 .. Capacity - 1
      BY <1>0, UsedRange
    <3> QED BY <1>0, <3>2, <3>3, CapacityAssumption
  <2>3. Fifo!Put(prod.item)
    BY <1>5, <2>1, <2>2 DEF PushPublish, Fifo!Put
  <2> QED BY <2>1, <2>3 DEF Fifo!Next
<1>6. CASE PopEmpty
  BY <1>0, <1>6, SameUnread DEF PopEmpty, vars
<1>7. CASE PopFound
  BY <1>0, <1>7, SameUnread DEF PopFound
<1>8. CASE PopRead
  BY <1>0, <1>8, SameUnread DEF PopRead
<1>9. CASE PopRelease
  <2>1. Fifo!Take
    BY <1>9, ReleaseRemovesOldest DEF PopRelease, Fifo!Take
  <2> QED BY <2>1 DEF Fifo!Next
<1>10. CASE UNCHANGED vars
  BY <1>0, <1>10, SameUnread DEF vars
<1> QED
  BY <1>1, <1>2, <1>3, <1>4, <1>5, <1>6, <1>7, <1>8, <1>9, <1>10
     DEF Next, Producer, Consumer

(***************************************************************************)
(* The lock-free ring implements the bounded queue, whatever its capacity. *)
(***************************************************************************)
THEOREM RingImplementsFifo == Spec => ImplementsFifo
  BY InitRefines, NextRefines, Invariance, PTL DEF Spec, ImplementsFifo, Fifo!Spec
-----------------------------------------------------------------------------
(***************************************************************************)
(* What the loop and the handlers share keeps its types; those listed are  *)
(* wanted, and no uid is listed twice.                                     *)
(***************************************************************************)
SimFrame ==
    [uid : SimUid \cup {NoSimUid}, key : SimUid \cup {NoSimUid}, counter : Nat,
     announce : BOOLEAN, at : Nat]
SimLoop ==
    [pc : {"idle", "visit", "room", "seal", "store", "drain", "taken"}, i : Nat,
     next : 0 .. SimQueue - 1, frame : SimFrame]
SimPeer == [uid : SimUid \cup {NoSimUid}, due : BOOLEAN, counter : Nat, announced : BOOLEAN]

SimTyped ==
    /\ peers \in [0 .. MaxSimPeers - 1 -> SimPeer] /\ count \in 0 .. MaxSimPeers
    /\ queue \in [0 .. SimQueue - 1 -> SimFrame]
    /\ ends \in [head : 0 .. SimQueue - 1, tail : 0 .. SimQueue - 1]
    /\ loop \in SimLoop
    /\ units \in Nat /\ edits \in Nat
    /\ node \in [SimUid -> [taken : SUBSET Nat, last : Nat, shown : BOOLEAN]]
    /\ wanted \subseteq SimUid /\ quiet \in [SimUid -> Nat]

ListKept ==
    /\ \A i \in 0 .. count - 1 : peers[i].uid \in SimUid /\ peers[i].uid \in wanted
    /\ \A i, j \in 0 .. count - 1 : peers[i].uid = peers[j].uid => i = j

(***************************************************************************)
(* A frame is from before its peer was removed.  The loop may still hold a *)
(* peer that was, but only until the unit in which it was is over.         *)
(***************************************************************************)
Gone(u) == u \in SimUid /\ u \notin wanted
Dated(f) == f.at <= units /\ (Gone(f.uid) => f.at + quiet[f.uid] <= units)
JustGone(u) == u \in SimUid /\ (Gone(u) => quiet[u] = 0)
Emitting ==
    loop.pc \in {"room", "seal", "store"} =>
        loop.i \in 0 .. MaxSimPeers - 1 /\ JustGone(peers[loop.i].uid)
Holding == /\ loop.pc = "seal" => JustGone(loop.frame.uid)
           /\ loop.pc \in {"store", "taken"} => Dated(loop.frame)
EntryDated(u) ==
    /\ node[u].last <= units
    /\ Gone(u) /\ node[u].shown => node[u].last + quiet[u] <= units

SimInv ==
    /\ SimTyped /\ ListKept /\ Emitting /\ Holding
    /\ \A s \in 0 .. SimQueue - 1 : Dated(queue[s])
    /\ \A u \in SimUid : EntryDated(u)
-----------------------------------------------------------------------------
LEMMA SimBounds ==
    /\ MaxSimPeers \in Nat /\ MaxSimPeers >= 1 /\ SimQueue \in Nat /\ SimQueue >= 2
    /\ SimTimeout \in Nat /\ SimResync \in Nat /\ NoSimUid \notin SimUid
  BY SimulatorAssumption

LEMMA NextInQueueType == \A s \in Nat : NextInQueue(s) \in 0 .. SimQueue - 1
  BY SimBounds DEF NextInQueue

(***************************************************************************)
(* A change of the list, made by a handler at any step of the loop: a uid  *)
(* that is on it before or after is just gone, if it is gone at all.       *)
(***************************************************************************)
Edited ==
    /\ peers' \in [0 .. MaxSimPeers - 1 -> SimPeer] /\ count' \in 0 .. MaxSimPeers
    /\ ends' \in [head : 0 .. SimQueue - 1, tail : 0 .. SimQueue - 1]
    /\ wanted' \subseteq SimUid
    /\ ListChanged(wanted')
    /\ \A i \in 0 .. MaxSimPeers - 1 :
        \/ peers'[i].uid = peers[i].uid
        \/ peers'[i].uid \in SimUid /\ peers'[i].uid \in wanted
        \/ peers'[i].uid \in SimUid /\ peers'[i].uid \in wanted'
    /\ UNCHANGED <<queue, loop, units, node>>

LEMMA EditedKeeps == ASSUME SimInv, Edited, ListKept' PROVE SimInv'
<1>1. /\ quiet' \in [SimUid -> Nat]
      /\ \A u \in SimUid :
            quiet'[u] = 0 \/ (quiet'[u] = quiet[u] /\ u \notin wanted /\ u \notin wanted')
  BY DEF Edited, ListChanged, SimInv, SimTyped, SimLoop
<1>2. SimTyped'
  BY <1>1 DEF Edited, ListChanged, SimInv, SimTyped, SimLoop
<1>3. \A u : JustGone(u) => JustGone(u)'
  BY <1>1 DEF JustGone, Gone
<1>4. \A u \in SimUid : u \in wanted \/ u \in wanted' => JustGone(u)'
  BY <1>1 DEF JustGone, Gone
<1>5. \A f \in SimFrame : Dated(f) => Dated(f)'
  <2> SUFFICES ASSUME NEW f \in SimFrame, Dated(f), Gone(f.uid)' PROVE f.at + quiet'[f.uid] <= units
    BY DEF Dated, Edited
  <2>1. f.at \in Nat /\ units \in Nat /\ f.uid \in SimUid /\ f.at <= units
    BY DEF SimFrame, Gone, Dated, SimInv, SimTyped, SimLoop
  <2>2. CASE quiet'[f.uid] = 0
    BY <2>1, <2>2
  <2>3. CASE quiet'[f.uid] = quiet[f.uid] /\ f.uid \notin wanted
    BY <2>1, <2>3 DEF Dated, Gone
  <2> QED BY <1>1, <2>1, <2>2, <2>3
<1>6. Emitting'
  <2> SUFFICES ASSUME loop.pc \in {"room", "seal", "store"}
               PROVE  JustGone(peers[loop.i].uid)'
    BY DEF SimInv, Emitting, Edited
  <2>1. loop.i \in 0 .. MaxSimPeers - 1 /\ JustGone(peers[loop.i].uid)
    BY DEF SimInv, Emitting
  <2> PICK v : v = peers'[loop.i].uid
    OBVIOUS
  <2>2. loop' = loop
    BY DEF Edited
  <2>3. JustGone(peers[loop.i].uid)' <=> v \in SimUid /\ (v \notin wanted' => quiet'[v] = 0)
    BY <2>2 DEF JustGone, Gone
  <2>4. v \in SimUid
    BY <2>1 DEF Edited, JustGone
  <2>5. CASE v = peers[loop.i].uid
    BY <1>1, <2>1, <2>3, <2>4, <2>5 DEF JustGone, Gone
  <2>6. CASE v \in wanted \/ v \in wanted'
    BY <1>1, <2>1, <2>3, <2>4, <2>6
  <2> QED BY <1>1, <2>1, <2>4, <2>5, <2>6 DEF Edited
<1>7. Holding'
  BY <1>3, <1>5 DEF SimInv, SimTyped, SimLoop, Holding, Edited
<1>8. \A s \in 0 .. SimQueue - 1 : Dated(queue[s])'
  BY <1>5 DEF SimInv, SimTyped, SimLoop, Edited
<1>9. ASSUME NEW u \in SimUid PROVE EntryDated(u)'
  <2>1. node[u].last \in Nat /\ units \in Nat /\ EntryDated(u)
    BY DEF SimInv, SimTyped, SimLoop
  <2>2. CASE quiet'[u] = 0
    BY <2>1, <2>2 DEF EntryDated, Edited
  <2>3. CASE quiet'[u] = quiet[u] /\ u \notin wanted
    BY <2>1, <2>3 DEF EntryDated, Edited, Gone
  <2> QED BY <1>1, <2>2, <2>3
<1> QED BY <1>2, <1>6, <1>7, <1>8, <1>9 DEF SimInv, Edited

LEMMA SetPeerKeeps == ASSUME SimInv, NEW u \in SimUid, SetPeer(u) PROVE SimInv'
<1> PICK k \in 0 .. count - 1 : peers[k].uid = u /\ peers' = [peers EXCEPT ![k].announced = FALSE]
  BY DEF SetPeer
<1>0. count \in 0 .. MaxSimPeers
  BY DEF SimInv, SimTyped
<1>1. k \in 0 .. MaxSimPeers - 1
  BY <1>0, SimBounds
<1>2. /\ peers' \in [0 .. MaxSimPeers - 1 -> SimPeer]
      /\ \A i \in 0 .. MaxSimPeers - 1 : peers'[i].uid = peers[i].uid
  <2>1. peers \in [0 .. MaxSimPeers - 1 -> SimPeer]
    BY DEF SimInv, SimTyped, SimLoop
  <2>2. [peers[k] EXCEPT !.announced = FALSE] \in SimPeer
    BY <1>1, <2>1 DEF SimPeer
  <2>3. [peers[k] EXCEPT !.announced = FALSE].uid = peers[k].uid
    BY <1>1, <2>1 DEF SimPeer
  <2>4. peers' = [peers EXCEPT ![k] = [peers[k] EXCEPT !.announced = FALSE]]
    BY <1>1, <2>1
  <2> QED BY <1>1, <2>1, <2>2, <2>3, <2>4
<1>3. wanted' = wanted /\ UNCHANGED <<count, queue, ends, loop, units, node>> /\ ListChanged(wanted)
  BY DEF SetPeer, ListChanged
<1>4. Edited
  BY <1>2, <1>3 DEF Edited, SimInv, SimTyped, SimLoop
<1>5. ListKept'
  <2>1. \A i \in 0 .. count - 1 : i \in 0 .. MaxSimPeers - 1
    BY <1>0, SimBounds
  <2> QED BY <1>2, <1>3, <2>1 DEF ListKept, SimInv
<1> QED BY <1>4, <1>5, EditedKeeps

LEMMA AddPeerKeeps == ASSUME SimInv, NEW u \in SimUid, AddPeer(u) PROVE SimInv'
<1>1. /\ count \in 0 .. MaxSimPeers - 1 /\ ~Listed(u) /\ count' = count + 1
      /\ peers' = [peers EXCEPT ![count] = [uid |-> u, due |-> TRUE, counter |-> 0, announced |-> FALSE]]
      /\ wanted' = wanted \cup {u}
      /\ ListChanged(wanted') /\ UNCHANGED <<queue, ends, loop, units, node>>
  BY SimBounds DEF AddPeer, ListChanged, SimInv, SimTyped, SimLoop
<1>2. /\ peers' \in [0 .. MaxSimPeers - 1 -> SimPeer] /\ peers'[count].uid = u
      /\ \A i \in 0 .. MaxSimPeers - 1 : i # count => peers'[i] = peers[i]
  BY <1>1 DEF SimInv, SimTyped, SimLoop, SimPeer
<1>3. /\ wanted' \subseteq SimUid /\ u \in wanted'
      /\ \A v \in SimUid : v \in wanted => v \in wanted'
  BY <1>1 DEF SimInv, SimTyped, SimLoop
<1>4. Edited
  <2>1. count' \in 0 .. MaxSimPeers
    BY <1>1, SimBounds
  <2> QED BY <1>1, <1>2, <1>3, <2>1 DEF Edited, SimInv, SimTyped, SimLoop
<1>5. ListKept'
  <2>1. \A i \in 0 .. count' - 1 : i = count \/ (i \in 0 .. count - 1 /\ peers'[i] = peers[i])
    BY <1>1, <1>2, SimBounds
  <2>2. \A i \in 0 .. count - 1 : peers[i].uid # u
    BY <1>1 DEF Listed
  <2>3. \A i \in 0 .. count' - 1 : peers'[i].uid \in SimUid /\ peers'[i].uid \in wanted'
    BY <1>2, <1>3, <2>1 DEF ListKept, SimInv
  <2>4. ASSUME NEW i \in 0 .. count' - 1, NEW j \in 0 .. count' - 1, peers'[i].uid = peers'[j].uid
        PROVE  i = j
    BY <1>2, <2>1, <2>2, <2>4 DEF ListKept, SimInv
  <2> QED BY <2>3, <2>4 DEF ListKept
<1> QED BY <1>4, <1>5, EditedKeeps

LEMMA RemovePeerKeeps == ASSUME SimInv, NEW u \in SimUid, RemovePeer(u) PROVE SimInv'
<1> PICK k \in 0 .. count - 1 :
        /\ peers[k].uid = u
        /\ peers' = [j \in DOMAIN peers |-> IF j \in k .. count - 2 THEN peers[j + 1] ELSE peers[j]]
  BY DEF RemovePeer
<1>1. /\ k \in Nat /\ count \in Nat /\ k < count /\ count <= MaxSimPeers /\ count' = count - 1
      /\ wanted' = wanted \ {u}
      /\ ListChanged(wanted') /\ UNCHANGED <<queue, ends, loop, units, node>>
  BY SimBounds DEF RemovePeer, ListChanged, SimInv, SimTyped, SimLoop
<1>2. /\ \A j \in 0 .. MaxSimPeers - 1 :
            \/ j \in k .. count - 2 /\ j + 1 \in 0 .. count - 1 /\ peers'[j] = peers[j + 1]
            \/ j \notin k .. count - 2 /\ peers'[j] = peers[j]
      /\ peers' \in [0 .. MaxSimPeers - 1 -> SimPeer]
  <2>1. peers \in [0 .. MaxSimPeers - 1 -> SimPeer]
    BY DEF SimInv, SimTyped, SimLoop
  <2>2. \A j \in 0 .. MaxSimPeers - 1 :
            j \in k .. count - 2 => j + 1 \in 0 .. count - 1 /\ j + 1 \in 0 .. MaxSimPeers - 1
    BY <1>1, SimBounds
  <2> QED BY <2>1, <2>2
<1>3. /\ wanted' \subseteq SimUid
      /\ \A v \in SimUid \ {u} : v \in wanted' <=> v \in wanted
  BY <1>1 DEF SimInv, SimTyped, SimLoop
<1>4. Edited
  <2>1. count' \in 0 .. MaxSimPeers
    BY <1>1, SimBounds
  <2> QED BY <1>1, <1>2, <1>3, <2>1 DEF Edited, SimInv, SimTyped, SimLoop, ListKept
<1>5. ListKept'
  <2> DEFINE from(i) == IF i \in k .. count - 2 THEN i + 1 ELSE i
  <2>1. \A i \in 0 .. count' - 1 : from(i) \in 0 .. count - 1 /\ from(i) # k /\ peers'[i] = peers[from(i)]
    <3>1. \A i \in 0 .. count' - 1 : i \in 0 .. MaxSimPeers - 1 /\ i \in 0 .. count - 2
      BY <1>1, SimBounds
    <3>2. \A i \in 0 .. count - 2 : from(i) \in 0 .. count - 1 /\ from(i) # k
      BY <1>1
    <3> QED BY <1>2, <3>1, <3>2
  <2>2. \A i \in 0 .. count' - 1, j \in 0 .. count' - 1 : from(i) = from(j) => i = j
    BY <1>1
  <2> HIDE DEF from
  <2>3. \A i \in 0 .. count' - 1 : peers'[i].uid \in SimUid /\ peers'[i].uid # u
    BY <2>1 DEF SimInv, ListKept
  <2>4. \A i \in 0 .. count' - 1 : peers'[i].uid \in wanted'
    BY <1>3, <2>1, <2>3 DEF SimInv, ListKept
  <2>5. ASSUME NEW i \in 0 .. count' - 1, NEW j \in 0 .. count' - 1, peers'[i].uid = peers'[j].uid
        PROVE  i = j
    <3>1. from(i) = from(j)
      BY <2>1, <2>5 DEF SimInv, ListKept
    <3> QED BY <2>2, <3>1
  <2> QED BY <2>3, <2>4, <2>5 DEF ListKept
<1> QED BY <1>4, <1>5, EditedKeeps

LEMMA ClearKeeps == ASSUME SimInv, Clear PROVE SimInv'
<1>1. wanted' = {} /\ count' = 0 /\ ends' = [head |-> 0, tail |-> 0]
      /\ ListChanged(wanted') /\ UNCHANGED <<peers, queue, loop, units, node>>
  BY DEF Clear, ListChanged
<1>2. Edited
  BY <1>1, SimBounds DEF Edited, SimInv, SimTyped, SimLoop
<1>3. ListKept'
  BY <1>1 DEF ListKept
<1> QED BY <1>2, <1>3, EditedKeeps
-----------------------------------------------------------------------------
(***************************************************************************)
(* A step of the loop that leaves the list and the time alone.             *)
(***************************************************************************)
LoopStep ==
    /\ \A i \in 0 .. MaxSimPeers - 1 : peers'[i].uid = peers[i].uid
    /\ peers' \in [0 .. MaxSimPeers - 1 -> SimPeer]
    /\ queue' \in [0 .. SimQueue - 1 -> SimFrame]
    /\ ends' \in [head : 0 .. SimQueue - 1, tail : 0 .. SimQueue - 1]
    /\ loop' \in SimLoop
    /\ UNCHANGED <<count, units, node, wanted, quiet, edits>>

LEMMA LoopKeeps ==
    ASSUME SimInv, LoopStep, Emitting', Holding',
           \A s \in 0 .. SimQueue - 1 : queue'[s] = queue[s] \/ Dated(queue'[s])
    PROVE  SimInv'
<1>1. SimTyped'
  BY DEF LoopStep, SimInv, SimTyped, SimLoop
<1>2. ListKept'
  <2>1. \A i \in 0 .. count - 1 : i \in 0 .. MaxSimPeers - 1
    BY SimBounds DEF SimInv, SimTyped, SimLoop
  <2> QED BY <2>1 DEF LoopStep, SimInv, ListKept
<1>3. \A s \in 0 .. SimQueue - 1 : Dated(queue[s])'
  BY DEF LoopStep, SimInv, Dated, Gone
<1>4. \A u \in SimUid : EntryDated(u)'
  BY DEF LoopStep, SimInv, EntryDated, Gone
<1> QED BY <1>1, <1>2, <1>3, <1>4 DEF SimInv

LEMMA RestTyped ==
    /\ NoFrame \in SimFrame
    /\ AtRest \in SimLoop
    /\ AtRest.pc = "idle"
  BY SimBounds DEF NoFrame, AtRest, SimFrame, SimLoop

LEMMA EmittedType ==
    ASSUME SimInv
    PROVE  /\ Emitted \in SimLoop
           /\ Emitted.pc = "visit" \/ (Emitted.pc = "room" /\ Emitted.i = loop.i)
<1>1. loop \in SimLoop /\ loop.i + 1 \in Nat
  BY DEF SimInv, SimTyped, SimLoop
<1>2. CASE loop.frame.announce
  <2>1. Emitted = [loop EXCEPT !.pc = "room", !.frame = NoFrame]
    BY <1>2 DEF Emitted
  <2> QED BY <1>1, <2>1, RestTyped DEF SimLoop
<1>3. CASE ~loop.frame.announce
  <2>1. Emitted = [AtRest EXCEPT !.pc = "visit", !.i = loop.i + 1]
    BY <1>3 DEF Emitted
  <2> QED BY <1>1, <2>1, RestTyped DEF SimLoop
<1> QED BY <1>2, <1>3

LEMMA PassKeeps ==
    ASSUME SimInv, Iterate \/ VisitNotDue \/ VisitedAll \/ PopNothing \/ EmitFull PROVE SimInv'
<1>1. UNCHANGED <<queue, ends, units, node, peers, count, wanted, quiet, edits>>
  BY DEF Iterate, VisitNotDue, VisitedAll, PopNothing, EmitFull, listVars
<1>2. /\ loop' \in SimLoop
      /\ \/ loop'.pc \in {"idle", "visit", "drain"}
         \/ loop'.pc = "room" /\ loop.pc = "room" /\ loop'.i = loop.i
  <2>1. CASE VisitNotDue
    <3>1. loop' = [loop EXCEPT !.i = loop.i + 1] /\ loop \in SimLoop /\ loop.pc = "visit"
      BY <2>1 DEF VisitNotDue, SimInv, SimTyped
    <3> QED BY <3>1 DEF SimLoop
  <2>2. CASE EmitFull
    BY <2>2, EmittedType DEF EmitFull
  <2>3. CASE Iterate \/ VisitedAll \/ PopNothing
    BY <2>3, RestTyped DEF Iterate, VisitedAll, PopNothing, SimLoop
  <2> QED BY <2>1, <2>2, <2>3
<1>3. LoopStep
  BY <1>1, <1>2 DEF LoopStep, SimInv, SimTyped
<1>4. Emitting' /\ Holding'
  BY <1>1, <1>2 DEF Emitting, Holding, JustGone, Gone, SimInv
<1> QED BY <1>1, <1>3, <1>4, LoopKeeps

LEMMA VisitDueKeeps == ASSUME SimInv, VisitDue PROVE SimInv'
<1>1. /\ loop.i \in 0 .. count - 1 /\ loop.i \in 0 .. MaxSimPeers - 1 /\ loop.pc = "visit"
      /\ peers' = [peers EXCEPT ![loop.i].due = FALSE, ![loop.i].announced = TRUE]
      /\ loop' = [loop EXCEPT !.pc = "room",
                              !.frame = [NoFrame EXCEPT !.announce = ~peers[loop.i].announced]]
      /\ UNCHANGED <<count, queue, ends, units, node, wanted, quiet, edits>>
  BY SimBounds DEF VisitDue, InList, SimInv, SimTyped, SimLoop
<1>2. /\ peers' \in [0 .. MaxSimPeers - 1 -> SimPeer]
      /\ \A i \in 0 .. MaxSimPeers - 1 : peers'[i].uid = peers[i].uid
  <2> DEFINE p == [[peers[loop.i] EXCEPT !.due = FALSE] EXCEPT !.announced = TRUE]
  <2>1. peers \in [0 .. MaxSimPeers - 1 -> SimPeer]
    BY DEF SimInv, SimTyped, SimLoop
  <2>2. p \in SimPeer /\ p.uid = peers[loop.i].uid
    BY <1>1, <2>1 DEF SimPeer
  <2>3. peers' = [peers EXCEPT ![loop.i] = p]
    BY <1>1, <2>1
  <2> HIDE DEF p
  <2> QED BY <1>1, <2>1, <2>2, <2>3
<1>3. /\ loop' \in SimLoop
      /\ loop'.pc = "room" /\ loop'.i = loop.i
  <2>1. [NoFrame EXCEPT !.announce = ~peers[loop.i].announced] \in SimFrame
    BY RestTyped DEF SimFrame
  <2> QED BY <1>1, <2>1 DEF SimInv, SimTyped, SimLoop
<1>4. LoopStep
  BY <1>1, <1>2, <1>3 DEF LoopStep, SimInv, SimTyped, SimLoop
<1>5. Emitting' /\ Holding'
  <2>1. peers[loop.i].uid \in SimUid /\ peers[loop.i].uid \in wanted
    BY <1>1 DEF SimInv, ListKept
  <2>2. peers'[loop'.i].uid = peers[loop.i].uid
    BY <1>1, <1>2, <1>3
  <2> QED BY <1>1, <1>3, <2>1, <2>2, SimBounds DEF Emitting, Holding, JustGone, Gone
<1> QED BY <1>1, <1>4, <1>5, LoopKeeps

(***************************************************************************)
(* A frame is encoded from the peer at hand, sealed in this unit, stored.  *)
(***************************************************************************)
LEMMA EmitBodyKeeps == ASSUME SimInv, EmitBody PROVE SimInv'
<1>1. /\ loop.pc = "room" /\ UNCHANGED <<queue, ends, units, node, peers, count, wanted, quiet, edits>>
      /\ loop' = [loop EXCEPT !.pc = "seal", !.next = NextInQueue(ends.head),
                              !.frame.uid = peers[loop.i].uid]
  BY DEF EmitBody, listVars
<1>2. loop.i \in 0 .. MaxSimPeers - 1 /\ JustGone(peers[loop.i].uid) /\ peers[loop.i].uid \in SimUid
  BY <1>1 DEF SimInv, Emitting, JustGone
<1>3. /\ loop' \in SimLoop
      /\ loop'.pc = "seal" /\ loop'.i = loop.i /\ loop'.frame.uid = peers[loop.i].uid
  <2>1. NextInQueue(ends.head) \in 0 .. SimQueue - 1
    BY NextInQueueType, SimBounds DEF SimInv, SimTyped, SimLoop
  <2>2. [loop.frame EXCEPT !.uid = peers[loop.i].uid] \in SimFrame
    BY <1>2 DEF SimInv, SimTyped, SimLoop, SimFrame
  <2> QED BY <1>1, <2>1, <2>2 DEF SimInv, SimTyped, SimLoop, SimFrame
<1>4. LoopStep
  BY <1>1, <1>3 DEF LoopStep, SimInv, SimTyped, SimLoop
<1>5. Emitting' /\ Holding'
  BY <1>1, <1>2, <1>3, SimBounds DEF Emitting, Holding, JustGone, Gone
<1> QED BY <1>1, <1>4, <1>5, LoopKeeps

LEMMA EmitSealKeeps == ASSUME SimInv, EmitSeal PROVE SimInv'
<1>1. /\ loop.pc = "seal" /\ peers' = [peers EXCEPT ![loop.i].counter = @ + 1]
      /\ UNCHANGED <<count, queue, ends, units, node, wanted, quiet, edits>>
      /\ loop' = [loop EXCEPT !.pc = "store", !.frame.key = peers[loop.i].uid,
                              !.frame.counter = peers[loop.i].counter + 1, !.frame.at = units]
  BY DEF EmitSeal
<1>2. loop.i \in 0 .. MaxSimPeers - 1 /\ JustGone(loop.frame.uid)
  BY <1>1 DEF SimInv, Emitting, Holding
<1>3. /\ peers' \in [0 .. MaxSimPeers - 1 -> SimPeer]
      /\ \A i \in 0 .. MaxSimPeers - 1 : peers'[i].uid = peers[i].uid
      /\ peers[loop.i].uid \in SimUid \cup {NoSimUid} /\ peers[loop.i].counter + 1 \in Nat
  <2> DEFINE p == [peers[loop.i] EXCEPT !.counter = @ + 1]
  <2>1. peers \in [0 .. MaxSimPeers - 1 -> SimPeer]
    BY DEF SimInv, SimTyped, SimLoop
  <2>2. p \in SimPeer /\ p.uid = peers[loop.i].uid
    BY <1>2, <2>1 DEF SimPeer
  <2>3. peers' = [peers EXCEPT ![loop.i] = p]
    BY <1>1, <2>1
  <2>4. peers[loop.i].uid \in SimUid \cup {NoSimUid} /\ peers[loop.i].counter + 1 \in Nat
    BY <1>2, <2>1 DEF SimPeer
  <2> HIDE DEF p
  <2> QED BY <1>2, <2>1, <2>2, <2>3, <2>4
<1>4. /\ loop' \in SimLoop
      /\ loop'.pc = "store" /\ loop'.frame.uid = loop.frame.uid /\ loop'.frame.at = units
  <2> DEFINE f == [loop.frame EXCEPT !.key = peers[loop.i].uid,
                                     !.counter = peers[loop.i].counter + 1, !.at = units]
  <2>1. f \in SimFrame /\ f.uid = loop.frame.uid /\ f.at = units
    BY <1>3 DEF SimInv, SimTyped, SimLoop, SimFrame
  <2>2. loop' = [loop EXCEPT !.pc = "store", !.frame = f]
    BY <1>1 DEF SimInv, SimTyped, SimLoop, SimFrame
  <2> HIDE DEF f
  <2> QED BY <2>1, <2>2 DEF SimInv, SimTyped, SimLoop
<1>5. LoopStep
  BY <1>1, <1>3, <1>4 DEF LoopStep, SimInv, SimTyped, SimLoop
<1>6. Emitting'
  <2>1. loop'.i = loop.i
    BY <1>1 DEF SimInv, SimTyped, SimLoop
  <2>2. JustGone(peers[loop.i].uid)
    BY <1>1 DEF SimInv, Emitting
  <2>3. peers'[loop'.i].uid = peers[loop.i].uid
    BY <1>2, <1>3, <2>1
  <2> QED BY <1>1, <1>2, <2>1, <2>2, <2>3 DEF Emitting, JustGone, Gone
<1>7. Holding'
  <2> PICK f : f = loop.frame.uid
    OBVIOUS
  <2>1. f \in SimUid /\ (Gone(f) => quiet[f] = 0)
    BY <1>2 DEF JustGone
  <2>2. units \in Nat /\ units' = units /\ quiet' = quiet /\ wanted' = wanted
    BY <1>1 DEF SimInv, SimTyped
  <2>3. Dated(loop.frame)'
    BY <1>4, <2>1, <2>2 DEF Dated, Gone
  <2> QED BY <1>4, <2>3 DEF Holding
<1> QED BY <1>1, <1>5, <1>6, <1>7, LoopKeeps

LEMMA EmitStoreKeeps == ASSUME SimInv, EmitStore PROVE SimInv'
<1>1. /\ loop.pc = "store" /\ queue' = [queue EXCEPT ![ends.head] = loop.frame]
      /\ ends' = [ends EXCEPT !.head = loop.next] /\ loop' = Emitted
      /\ UNCHANGED <<units, node, peers, count, wanted, quiet, edits>>
  BY DEF EmitStore, listVars
<1>2. /\ loop' \in SimLoop
      /\ loop'.pc = "visit" \/ (loop'.pc = "room" /\ loop'.i = loop.i)
  BY <1>1, EmittedType
<1>3. /\ queue' \in [0 .. SimQueue - 1 -> SimFrame]
      /\ \A s \in 0 .. SimQueue - 1 : queue'[s] = queue[s] \/ queue'[s] = loop.frame
      /\ ends' \in [head : 0 .. SimQueue - 1, tail : 0 .. SimQueue - 1]
  BY <1>1 DEF SimInv, SimTyped, SimLoop
<1>4. LoopStep
  BY <1>1, <1>2, <1>3 DEF LoopStep, SimInv, SimTyped, SimLoop
<1>5. Dated(loop.frame)
  BY <1>1 DEF SimInv, Holding
<1>6. Emitting' /\ Holding'
  BY <1>1, <1>2 DEF Emitting, Holding, JustGone, Gone, SimInv
<1> QED BY <1>3, <1>4, <1>5, <1>6, LoopKeeps
-----------------------------------------------------------------------------
LEMMA PopFrameKeeps == ASSUME SimInv, PopFrame PROVE SimInv'
<1>1. /\ UNCHANGED <<queue, ends, units, node, peers, count, wanted, quiet, edits>>
      /\ loop' = [loop EXCEPT !.pc = "taken", !.next = ends.tail, !.frame = queue[ends.tail]]
  BY DEF PopFrame, listVars
<1>2. ends.tail \in 0 .. SimQueue - 1 /\ queue[ends.tail] \in SimFrame /\ Dated(queue[ends.tail])
  BY DEF SimInv, SimTyped
<1>3. loop' \in SimLoop /\ loop'.pc = "taken" /\ loop'.frame = queue[ends.tail]
  BY <1>1, <1>2 DEF SimInv, SimTyped, SimLoop
<1>4. LoopStep
  BY <1>1, <1>3 DEF LoopStep, SimInv, SimTyped
<1>5. Emitting' /\ Holding'
  BY <1>1, <1>2, <1>3 DEF Emitting, Holding, Dated, Gone
<1> QED BY <1>1, <1>4, <1>5, LoopKeeps

(***************************************************************************)
(* A frame the node takes dates its entry by when it was sealed, and what  *)
(* it holds of a removed peer is from before it was removed.               *)
(***************************************************************************)
LEMMA HeardType ==
    ASSUME SimInv, NEW f \in SimFrame, f.uid \in SimUid, Dated(f)
    PROVE  /\ Heard(f) \in [SimUid -> [taken : SUBSET Nat, last : Nat, shown : BOOLEAN]]
           /\ Heard(f)[f.uid].last = f.at
           /\ \A u \in SimUid \ {f.uid} : Heard(f)[u] = node[u]
<1>1. node[f.uid].taken \in SUBSET Nat /\ f.counter \in Nat /\ f.at \in Nat
  BY DEF SimInv, SimTyped, SimFrame
<1> PICK t : t = IF Restarts(f) THEN {f.counter} ELSE node[f.uid].taken \cup {f.counter}
  OBVIOUS
<1>2. t \in SUBSET Nat
  BY <1>1
<1>3. Heard(f) = [node EXCEPT ![f.uid] = [taken |-> t, last |-> f.at, shown |-> TRUE]]
  BY DEF Heard
<1> QED BY <1>1, <1>2, <1>3 DEF SimInv, SimTyped

LEMMA DeliverKeeps == ASSUME SimInv, Deliver PROVE SimInv'
<1> PICK f : f = loop.frame
  OBVIOUS
<1>1. /\ loop.pc = "taken" /\ loop' = [AtRest EXCEPT !.pc = "drain"]
      /\ UNCHANGED <<peers, count, queue, units, wanted, edits>>
      /\ \E t \in {loop.next, ends.tail} : ends' = [ends EXCEPT !.tail = NextInQueue(t)]
      /\ \/ /\ IsAccepted(f)
            /\ node' = Heard(f)
            /\ quiet' = [quiet EXCEPT ![f.uid] = IF f.uid \in wanted THEN 0 ELSE @]
         \/ UNCHANGED <<node, quiet>>
  BY DEF Deliver
<1>2. f \in SimFrame /\ Dated(f)
  BY <1>1 DEF SimInv, SimTyped, SimLoop, Holding
<1>3. loop' \in SimLoop /\ loop'.pc = "drain"
  BY <1>1, RestTyped DEF SimLoop
<1>4. ends' \in [head : 0 .. SimQueue - 1, tail : 0 .. SimQueue - 1]
  <2>1. \A t \in {loop.next, ends.tail} : NextInQueue(t) \in 0 .. SimQueue - 1
    <3>1. loop.next \in Nat /\ ends.tail \in Nat
      BY SimBounds DEF SimInv, SimTyped, SimLoop
    <3> QED BY <3>1, NextInQueueType
  <2> QED BY <1>1, <2>1 DEF SimInv, SimTyped
<1>5. /\ quiet' \in [SimUid -> Nat]
      /\ \A u \in SimUid : u \notin wanted => quiet'[u] = quiet[u]
  <2>1. quiet \in [SimUid -> Nat]
    BY DEF SimInv, SimTyped
  <2>2. CASE quiet' = [quiet EXCEPT ![f.uid] = IF f.uid \in wanted THEN 0 ELSE @]
    BY <2>1, <2>2
  <2> QED BY <1>1, <2>1, <2>2
<1>6. /\ node' \in [SimUid -> [taken : SUBSET Nat, last : Nat, shown : BOOLEAN]]
      /\ \A u \in SimUid : node'[u] = node[u] \/ (u = f.uid /\ node'[u].last = f.at)
  <2>1. CASE IsAccepted(f) /\ node' = Heard(f)
    <3>1. f.uid \in SimUid
      BY <1>2, <2>1 DEF IsAccepted, SimFrame
    <3> QED BY <1>2, <2>1, <3>1, HeardType
  <2>2. CASE node' = node
    BY <2>2 DEF SimInv, SimTyped
  <2> QED BY <1>1, <2>1, <2>2
<1>7. SimTyped' /\ ListKept'
  BY <1>1, <1>3, <1>4, <1>5, <1>6 DEF SimInv, SimTyped, ListKept
<1>8. Emitting' /\ Holding'
  BY <1>3 DEF Emitting, Holding
<1>9. \A s \in 0 .. SimQueue - 1 : Dated(queue[s])'
  BY <1>1, <1>5 DEF SimInv, Dated, Gone
<1>10. \A u \in SimUid : EntryDated(u)'
  BY <1>1, <1>2, <1>5, <1>6 DEF SimInv, EntryDated, Dated, Gone
<1> QED BY <1>7, <1>8, <1>9, <1>10 DEF SimInv

LEMMA UnitPassesKeeps == ASSUME SimInv, UnitPasses PROVE SimInv'
<1>1. /\ loop.pc = "idle" /\ units \in Nat /\ units' = units + 1
      /\ peers' = [i \in DOMAIN peers |-> [peers[i] EXCEPT !.due = peers[i] # NoPeer]]
      /\ node' = [u \in SimUid |->
                    IF units' - node[u].last > SimTimeout
                    THEN [node[u] EXCEPT !.shown = FALSE] ELSE node[u]]
      /\ quiet' = [u \in SimUid |-> quiet[u] + 1]
      /\ UNCHANGED <<count, queue, ends, loop, wanted, edits>>
  BY DEF UnitPasses, SimInv, SimTyped
<1>2. /\ peers' \in [0 .. MaxSimPeers - 1 -> SimPeer]
      /\ \A i \in 0 .. MaxSimPeers - 1 : peers'[i].uid = peers[i].uid
  <2>1. peers \in [0 .. MaxSimPeers - 1 -> SimPeer]
    BY DEF SimInv, SimTyped
  <2>2. ASSUME NEW i \in 0 .. MaxSimPeers - 1
        PROVE  peers'[i] \in SimPeer /\ peers'[i].uid = peers[i].uid
    <3> PICK due \in BOOLEAN : due = (peers[i] # NoPeer)
      OBVIOUS
    <3>1. peers'[i] = [peers[i] EXCEPT !.due = due] /\ peers[i] \in SimPeer
      BY <1>1, <2>1
    <3> HIDE <2>1
    <3> QED BY <3>1 DEF SimPeer
  <2> QED BY <1>1, <2>1, <2>2
<1>3. /\ quiet' \in [SimUid -> Nat]
      /\ \A u \in SimUid : quiet[u] \in Nat /\ quiet'[u] = quiet[u] + 1
  BY <1>1 DEF SimInv, SimTyped
<1>4. /\ node' \in [SimUid -> [taken : SUBSET Nat, last : Nat, shown : BOOLEAN]]
      /\ \A u \in SimUid :
            /\ node'[u].last = node[u].last /\ node[u].last \in Nat
            /\ node'[u].shown => node[u].shown
  BY <1>1 DEF SimInv, SimTyped
<1>5. SimTyped'
  BY <1>1, <1>2, <1>3, <1>4 DEF SimInv, SimTyped
<1>6. ListKept'
  <2>1. \A i \in 0 .. count - 1 : i \in 0 .. MaxSimPeers - 1
    BY SimBounds DEF SimInv, SimTyped
  <2> QED BY <1>1, <1>2, <2>1 DEF SimInv, ListKept
<1>7. Emitting' /\ Holding'
  BY <1>1 DEF Emitting, Holding
<1>8. ASSUME NEW s \in 0 .. SimQueue - 1 PROVE Dated(queue[s])'
  <2>1. queue[s].at \in Nat /\ Dated(queue[s])
    BY DEF SimInv, SimTyped, SimFrame
  <2> QED BY <1>1, <1>3, <2>1 DEF Dated, Gone
<1>9. ASSUME NEW u \in SimUid PROVE EntryDated(u)'
  BY <1>1, <1>3, <1>4 DEF SimInv, EntryDated, Gone
<1> QED BY <1>5, <1>6, <1>7, <1>8, <1>9 DEF SimInv
-----------------------------------------------------------------------------
LEMMA InitSimInv == SimInit => SimInv
<1> SUFFICES ASSUME SimInit PROVE SimInv
  OBVIOUS
<1>1. SimTyped
  BY SimBounds, RestTyped DEF SimInit, SimTyped, SimPeer, NoPeer
<1>2. ListKept /\ Emitting /\ Holding
  BY RestTyped DEF SimInit, ListKept, Emitting, Holding
<1>3. \A s \in 0 .. SimQueue - 1 : Dated(queue[s])
  BY SimBounds DEF SimInit, Dated, Gone, NoFrame
<1>4. \A u \in SimUid : EntryDated(u)
  <2> SUFFICES ASSUME NEW u \in SimUid PROVE EntryDated(u)
    OBVIOUS
  <2> PICK last, silent : last = node[u].last /\ silent = quiet[u]
    OBVIOUS
  <2>1. last = 0 /\ silent = 0 /\ units = 0
    BY DEF SimInit
  <2>2. last <= units /\ last + silent <= units
    BY <2>1
  <2> QED BY <2>2 DEF EntryDated
<1> QED BY <1>1, <1>2, <1>3, <1>4 DEF SimInv

LEMMA NextSimInv == SimInv /\ [SimStep]_simVars => SimInv'
<1> SUFFICES ASSUME SimInv, [SimStep]_simVars PROVE SimInv'
  OBVIOUS
<1>1. CASE Handlers
  BY <1>1, SetPeerKeeps, AddPeerKeeps, RemovePeerKeeps, ClearKeeps DEF Handlers
<1>2. CASE Iterate \/ VisitNotDue \/ VisitedAll \/ PopNothing \/ EmitFull
  BY <1>2, PassKeeps
<1>3. CASE VisitDue
  BY <1>3, VisitDueKeeps
<1>4. CASE EmitBody
  BY <1>4, EmitBodyKeeps
<1>5. CASE EmitSeal
  BY <1>5, EmitSealKeeps
<1>6. CASE EmitStore
  BY <1>6, EmitStoreKeeps
<1>7. CASE PopFrame
  BY <1>7, PopFrameKeeps
<1>8. CASE Deliver
  BY <1>8, DeliverKeeps
<1>9. CASE UnitPasses
  BY <1>9, UnitPassesKeeps
<1>10. CASE UNCHANGED simVars
  BY <1>10 DEF simVars, SimInv, SimTyped, ListKept, Emitting, Holding, JustGone, Dated, Gone, EntryDated
<1> QED BY <1>1, <1>2, <1>3, <1>4, <1>5, <1>6, <1>7, <1>8, <1>9, <1>10 DEF SimStep

(***************************************************************************)
(* A simulated peer that was removed counts as present for at most the     *)
(* node's timeout, whatever step of the loop the handler fell into.        *)
(***************************************************************************)
THEOREM GhostsDoFade == SimSpec => []GhostsFade
<1>1. SimInv => GhostsFade
  <2> SUFFICES ASSUME SimInv, NEW u \in SimUid, u \notin wanted, IsActive(u)
               PROVE  quiet[u] <= SimTimeout
    BY DEF GhostsFade
  <2>1. /\ node[u].last \in Nat /\ units \in Nat /\ quiet[u] \in Nat
        /\ node[u].last + quiet[u] <= units /\ units - node[u].last <= SimTimeout
    BY DEF SimInv, SimTyped, EntryDated, Gone, IsActive
  <2> QED BY <2>1, SimBounds
<1> QED BY <1>1, InitSimInv, NextSimInv, PTL DEF SimSpec
-----------------------------------------------------------------------------
(***************************************************************************)
(* Every listed peer is heard.  In a unit no handler has interrupted, each *)
(* peer's turn comes in the first pass, its frame finds room, and it is    *)
(* delivered: the node takes it, or heard the uid within the resync time.  *)
(***************************************************************************)
Span(h, t) == IF t <= h THEN h - t ELSE h + SimQueue - t
InSpan(s, h, t) == IF t <= h THEN t <= s /\ s < h ELSE t <= s \/ s < h
Load == Span(ends.head, ends.tail)

\* The loop and the queue, while no handler interrupts.
Smooth ==
    /\ loop.pc = "visit" => Load <= 2 * loop.i
    /\ loop.pc \in {"room", "seal", "store"} =>
        /\ loop.i < count
        /\ Load <= 2 * loop.i \/ (~loop.frame.announce /\ Load <= 2 * loop.i + 1)
    /\ loop.pc \in {"seal", "store"} =>
        /\ loop.next = NextInQueue(ends.head) /\ loop.next # ends.tail
        /\ loop.frame.uid = peers[loop.i].uid
    /\ loop.pc = "store" => loop.frame.key = loop.frame.uid /\ loop.frame.at = units
    /\ loop.pc = "taken" =>
        loop.next = ends.tail /\ ends.tail # ends.head /\ loop.frame = queue[ends.tail]

\* Where a peer's frame of this unit is: to come, being emitted, queued, or popped.
Live(f, u) == f.uid = u /\ f.key = u /\ f.at = units
Coming(k) ==
    /\ peers[k].due
    /\ \/ loop.pc = "idle"
       \/ loop.pc = "visit" /\ loop.i <= k
       \/ loop.pc \in {"room", "seal", "store"} /\ loop.i < k
Emits(k) ==
    /\ loop.pc \in {"room", "seal", "store"} /\ loop.i = k
    /\ loop.pc = "room" => Load <= 2 * k
Queued(k) ==
    \E s \in 0 .. SimQueue - 1 : InSpan(s, ends.head, ends.tail) /\ Live(queue[s], peers[k].uid)
InHand(k) == loop.pc = "taken" /\ Live(loop.frame, peers[k].uid)
Serving(k) == Coming(k) \/ Emits(k) \/ Queued(k) \/ InHand(k)

HeardInv ==
    /\ loop.pc = "idle" => ends.head = ends.tail
    /\ \A u \in wanted : \E k \in 0 .. count - 1 : peers[k].uid = u
    /\ \A u \in wanted : node[u].last + quiet[u] <= units
    /\ \A k \in 0 .. count - 1 : quiet[peers[k].uid] > 0 =>
        /\ Smooth
        /\ quiet[peers[k].uid] <= SimResync + 1
        /\ Serving(k) \/ quiet[peers[k].uid] <= SimResync

LEMMA RoomForAll == SimQueue >= 2 * MaxSimPeers
  BY SimulatorAssumption

LEMMA NextIs == \A s \in 0 .. SimQueue - 1 : NextInQueue(s) = IF s = SimQueue - 1 THEN 0 ELSE s + 1
<1> SUFFICES ASSUME NEW s \in 0 .. SimQueue - 1
             PROVE  NextInQueue(s) = IF s = SimQueue - 1 THEN 0 ELSE s + 1
  OBVIOUS
<1>1. CASE s = SimQueue - 1
  BY <1>1, SimBounds DEF NextInQueue
<1>2. CASE s < SimQueue - 1
  BY <1>2, SimBounds DEF NextInQueue
<1> QED BY <1>1, <1>2, SimBounds

LEMMA SpanFacts ==
    ASSUME NEW h \in 0 .. SimQueue - 1, NEW t \in 0 .. SimQueue - 1
    PROVE  /\ Span(h, t) \in Nat /\ Span(h, h) = 0
           /\ NextInQueue(h) = t => Span(h, t) = SimQueue - 1
           /\ \A s \in 0 .. SimQueue - 1 : ~InSpan(s, h, h) /\ (InSpan(s, h, t) => s # h)
<1>1. SimQueue \in Nat /\ SimQueue >= 2
  BY SimBounds
<1>2. Span(h, t) \in Nat /\ Span(h, h) = 0
  BY <1>1 DEF Span
<1>3. ASSUME NextInQueue(h) = t PROVE Span(h, t) = SimQueue - 1
  <2>1. CASE h = SimQueue - 1
    BY <1>1, <1>3, <2>1, NextIs DEF Span
  <2>2. CASE h # SimQueue - 1
    BY <1>1, <1>3, <2>2, NextIs DEF Span
  <2> QED BY <2>1, <2>2
<1>4. \A s \in 0 .. SimQueue - 1 : ~InSpan(s, h, h) /\ (InSpan(s, h, t) => s # h)
  BY <1>1 DEF InSpan
<1> QED BY <1>2, <1>3, <1>4

LEMMA SpanGrows ==
    ASSUME NEW h \in 0 .. SimQueue - 1, NEW t \in 0 .. SimQueue - 1,
           NEW n, n = NextInQueue(h), n # t
    PROVE  /\ Span(n, t) = Span(h, t) + 1
           /\ InSpan(h, n, t)
           /\ \A s \in 0 .. SimQueue - 1 : InSpan(s, h, t) => InSpan(s, n, t)
<1>1. SimQueue \in Nat /\ SimQueue >= 2
  BY SimBounds
<1>2. CASE h = SimQueue - 1
  <2>1. n = 0 /\ t > 0
    BY <1>1, <1>2, NextIs
  <2> QED BY <1>1, <1>2, <2>1 DEF Span, InSpan
<1>3. CASE h # SimQueue - 1
  <2>1. n = h + 1
    BY <1>1, <1>3, NextIs
  <2> QED BY <1>1, <1>3, <2>1 DEF Span, InSpan
<1> QED BY <1>2, <1>3

LEMMA SpanShrinks ==
    ASSUME NEW h \in 0 .. SimQueue - 1, NEW t \in 0 .. SimQueue - 1, h # t,
           NEW n, n = NextInQueue(t)
    PROVE  \A s \in 0 .. SimQueue - 1 : InSpan(s, h, t) => s = t \/ InSpan(s, h, n)
<1>1. SimQueue \in Nat /\ SimQueue >= 2
  BY SimBounds
<1>2. CASE t = SimQueue - 1
  <2>1. n = 0
    BY <1>2, NextIs
  <2> QED BY <1>1, <1>2, <2>1 DEF InSpan
<1>3. CASE t # SimQueue - 1
  <2>1. n = t + 1
    BY <1>1, <1>3, NextIs
  <2> QED BY <1>1, <1>3, <2>1 DEF InSpan
<1> QED BY <1>2, <1>3

LEMMA SimTypes ==
    ASSUME SimInv
    PROVE  /\ ends.head \in 0 .. SimQueue - 1 /\ ends.tail \in 0 .. SimQueue - 1
           /\ loop \in SimLoop /\ loop.i \in Nat /\ loop.next \in 0 .. SimQueue - 1
           /\ loop.frame \in SimFrame /\ loop.frame.announce \in BOOLEAN
           /\ count \in 0 .. MaxSimPeers /\ units \in Nat /\ Load \in Nat
           /\ peers \in [0 .. MaxSimPeers - 1 -> SimPeer]
           /\ queue \in [0 .. SimQueue - 1 -> SimFrame]
           /\ \A k \in 0 .. count - 1 : k \in 0 .. MaxSimPeers - 1
<1>1. /\ ends.head \in 0 .. SimQueue - 1 /\ ends.tail \in 0 .. SimQueue - 1
      /\ loop \in SimLoop /\ count \in 0 .. MaxSimPeers /\ units \in Nat
      /\ peers \in [0 .. MaxSimPeers - 1 -> SimPeer]
      /\ queue \in [0 .. SimQueue - 1 -> SimFrame]
  BY DEF SimInv, SimTyped
<1>2. /\ loop.i \in Nat /\ loop.next \in 0 .. SimQueue - 1
      /\ loop.frame \in SimFrame /\ loop.frame.announce \in BOOLEAN
  BY <1>1 DEF SimLoop, SimFrame
<1>3. Load \in Nat
  BY <1>1, SpanFacts DEF Load
<1>4. \A k \in 0 .. count - 1 : k \in 0 .. MaxSimPeers - 1
  BY <1>1, SimBounds
<1> QED BY <1>1, <1>2, <1>3, <1>4

(***************************************************************************)
(* A step of the loop that neither hears a peer nor lets time pass.        *)
(***************************************************************************)
ListSame ==
    /\ \A k \in 0 .. MaxSimPeers - 1 : peers'[k].uid = peers[k].uid
    /\ UNCHANGED <<count, units, node, wanted, quiet>>

LEMMA LoopHears ==
    ASSUME SimInv, HeardInv, ListSame,
           loop'.pc = "idle" => ends'.head = ends'.tail,
           Smooth => Smooth',
           \A k \in 0 .. count - 1 : Smooth /\ Serving(k) => Serving(k)'
    PROVE  HeardInv'
<1>1. \A k \in 0 .. count - 1 : peers'[k].uid = peers[k].uid
  BY SimTypes DEF ListSame
<1>2. count' = count /\ units' = units /\ node' = node /\ wanted' = wanted /\ quiet' = quiet
  BY DEF ListSame
<1>3. \A u \in wanted' : \E k \in 0 .. count' - 1 : peers'[k].uid = u
  BY <1>1, <1>2 DEF HeardInv
<1>4. \A u \in wanted' : node'[u].last + quiet'[u] <= units'
  BY <1>2 DEF HeardInv
<1>5. ASSUME NEW k \in 0 .. count' - 1, quiet'[peers'[k].uid] > 0
      PROVE  /\ Smooth'
             /\ quiet'[peers'[k].uid] <= SimResync + 1
             /\ Serving(k)' \/ quiet'[peers'[k].uid] <= SimResync
  <2>1. k \in 0 .. count - 1 /\ quiet'[peers'[k].uid] = quiet[peers[k].uid]
    BY <1>1, <1>2
  <2>2. /\ Smooth /\ quiet[peers[k].uid] <= SimResync + 1
        /\ Serving(k) \/ quiet[peers[k].uid] <= SimResync
    BY <1>5, <2>1 DEF HeardInv
  <2>3. Smooth' /\ (Serving(k) => Serving(k)')
    BY <2>1, <2>2
  <2> QED BY <2>1, <2>2, <2>3
<1> QED BY <1>3, <1>4, <1>5 DEF HeardInv

LEMMA IterateHears == ASSUME SimInv, HeardInv, Iterate PROVE HeardInv'
<1>1. /\ loop.pc = "idle" /\ loop'.pc = "visit" /\ loop'.i = 0 /\ ends.head = ends.tail
      /\ UNCHANGED <<queue, ends, units, node, peers, count, wanted, quiet, edits>>
  BY DEF Iterate, AtRest, listVars, HeardInv
<1>2. Load' = 0
  BY <1>1, SimTypes, SpanFacts DEF Load
<1>3. Smooth'
  BY <1>1, <1>2 DEF Smooth
<1>4. ASSUME NEW k \in 0 .. count - 1, Serving(k) PROVE Serving(k)'
  <2>1. k >= 0 /\ k \in Int
    BY SimTypes
  <2>2. CASE Coming(k)
    BY <1>1, <2>1, <2>2 DEF Serving, Coming
  <2>3. CASE Queued(k)
    BY <1>1, <2>3 DEF Serving, Queued, Live
  <2> QED BY <1>1, <1>4, <2>2, <2>3 DEF Serving, Emits, InHand
<1>5. ListSame
  BY <1>1 DEF ListSame
<1> QED BY <1>1, <1>3, <1>4, <1>5, LoopHears

LEMMA VisitNotDueHears == ASSUME SimInv, HeardInv, VisitNotDue PROVE HeardInv'
<1>1. /\ loop.pc = "visit" /\ ~peers[loop.i].due /\ loop' = [loop EXCEPT !.i = loop.i + 1]
      /\ UNCHANGED <<queue, ends, units, node, peers, count, wanted, quiet, edits>>
  BY DEF VisitNotDue, listVars
<1>2. /\ loop'.pc = "visit" /\ loop'.i = loop.i + 1 /\ loop.i \in Nat
      /\ Load' = Load /\ Load \in Nat
  BY <1>1, SimTypes DEF SimLoop, Load
<1>3. Smooth => Smooth'
  <2> SUFFICES ASSUME Load <= 2 * loop.i PROVE Smooth'
    BY <1>1 DEF Smooth
  <2>1. Load' <= 2 * loop'.i
    BY <1>2
  <2> QED BY <1>2, <2>1 DEF Smooth
<1>4. ASSUME NEW k \in 0 .. count - 1, Serving(k) PROVE Serving(k)'
  <2>1. k \in Int
    BY SimTypes
  <2>2. CASE Coming(k)
    <3>1. peers'[k].due /\ loop.i <= k /\ loop.i # k
      BY <1>1, <2>2 DEF Coming
    <3>2. loop'.i <= k
      BY <1>2, <2>1, <3>1
    <3> QED BY <1>2, <3>1, <3>2 DEF Serving, Coming
  <2>3. CASE Queued(k)
    BY <1>1, <2>3 DEF Serving, Queued, Live
  <2> QED BY <1>1, <1>4, <2>2, <2>3 DEF Serving, Emits, InHand
<1>5. ListSame
  BY <1>1 DEF ListSame
<1> QED BY <1>2, <1>3, <1>4, <1>5, LoopHears

LEMMA VisitedAllHears == ASSUME SimInv, HeardInv, VisitedAll PROVE HeardInv'
<1>1. /\ loop.pc = "visit" /\ ~(loop.i < count) /\ loop'.pc = "drain"
      /\ UNCHANGED <<queue, ends, units, node, peers, count, wanted, quiet, edits>>
  BY DEF VisitedAll, InList, AtRest, listVars
<1>2. Smooth'
  BY <1>1 DEF Smooth
<1>3. ASSUME NEW k \in 0 .. count - 1, Serving(k) PROVE Serving(k)'
  <2>1. k \in Int /\ k < count /\ count \in Nat /\ loop.i \in Nat
    BY SimTypes
  <2>2. ~Coming(k)
    BY <1>1, <2>1 DEF Coming
  <2>3. CASE Queued(k)
    BY <1>1, <2>3 DEF Serving, Queued, Live
  <2> QED BY <1>1, <1>3, <2>2, <2>3 DEF Serving, Emits, InHand
<1>4. ListSame
  BY <1>1 DEF ListSame
<1> QED BY <1>1, <1>2, <1>3, <1>4, LoopHears

LEMMA VisitDueHears == ASSUME SimInv, HeardInv, VisitDue PROVE HeardInv'
<1>1. /\ loop.pc = "visit" /\ loop.i < count
      /\ peers' = [peers EXCEPT ![loop.i].due = FALSE, ![loop.i].announced = TRUE]
      /\ loop' = [loop EXCEPT !.pc = "room",
                              !.frame = [NoFrame EXCEPT !.announce = ~peers[loop.i].announced]]
      /\ UNCHANGED <<count, queue, ends, units, node, wanted, quiet, edits>>
  BY DEF VisitDue, InList
<1>2. /\ loop'.pc = "room" /\ loop'.i = loop.i /\ loop.i \in Nat /\ Load' = Load /\ Load \in Nat
  BY <1>1, SimTypes DEF SimLoop, Load
<1>3. \A k \in 0 .. MaxSimPeers - 1 : peers'[k].uid = peers[k].uid /\ (k # loop.i => peers'[k] = peers[k])
  BY <1>1, SimTypes DEF SimPeer
<1>4. Smooth => Smooth'
  <2> SUFFICES ASSUME Load <= 2 * loop.i PROVE Smooth'
    BY <1>1 DEF Smooth
  <2>1. loop'.i < count' /\ Load' <= 2 * loop'.i
    BY <1>1, <1>2
  <2> QED BY <1>2, <2>1 DEF Smooth
<1>5. ASSUME NEW k \in 0 .. count - 1, Smooth, Serving(k) PROVE Serving(k)'
  <2>1. k \in Int /\ k \in 0 .. MaxSimPeers - 1
    BY SimTypes
  <2>2. CASE Coming(k)
    <3>1. loop.i <= k /\ peers[k].due /\ Load <= 2 * loop.i
      BY <1>1, <1>5, <2>2 DEF Coming, Smooth
    <3>2. CASE loop.i = k
      BY <1>2, <3>1, <3>2 DEF Serving, Emits
    <3>3. CASE loop.i < k
      <4>1. peers'[k] = peers[k]
        BY <1>2, <1>3, <2>1, <3>3
      <4> QED BY <1>2, <3>1, <3>3, <4>1 DEF Serving, Coming
    <3> QED BY <1>2, <2>1, <3>1, <3>2, <3>3
  <2>3. CASE Queued(k)
    BY <1>1, <1>3, <2>1, <2>3 DEF Serving, Queued, Live
  <2> QED BY <1>1, <1>5, <2>2, <2>3 DEF Serving, Emits, InHand
<1>6. ListSame
  BY <1>1, <1>3 DEF ListSame
<1> QED BY <1>2, <1>4, <1>5, <1>6, LoopHears

(***************************************************************************)
(* emit: what it leaves, whether the queue had room or not.                *)
(***************************************************************************)
LEMMA EmittedIs ==
    ASSUME SimInv
    PROVE  /\ loop.frame.announce =>
                Emitted.pc = "room" /\ Emitted.i = loop.i /\ ~Emitted.frame.announce
           /\ ~loop.frame.announce => Emitted.pc = "visit" /\ Emitted.i = loop.i + 1
<1>1. loop \in SimLoop
  BY SimTypes
<1>2. ASSUME loop.frame.announce
      PROVE  Emitted.pc = "room" /\ Emitted.i = loop.i /\ ~Emitted.frame.announce
  BY <1>1, <1>2 DEF Emitted, SimLoop, NoFrame
<1>3. ASSUME ~loop.frame.announce PROVE Emitted.pc = "visit" /\ Emitted.i = loop.i + 1
  BY <1>3 DEF Emitted, AtRest
<1> QED BY <1>2, <1>3

\* After emit the frames queued still fit the peers visited.
LEMMA EmittedFits ==
    ASSUME SimInv, Smooth, loop.pc \in {"room", "store"}, loop' = Emitted, count' = count,
           Load' \in Nat, loop.frame.announce => Load' <= 2 * loop.i + 1,
           ~loop.frame.announce => Load' <= 2 * loop.i + 2
    PROVE  /\ Smooth'
           /\ \A k \in 0 .. count - 1 : Coming(k) /\ peers'[k].due => Coming(k)'
<1>1. loop.i \in Nat /\ loop.i < count
  BY SimTypes DEF Smooth
<1>2. CASE loop.frame.announce
  <2>1. loop'.pc = "room" /\ loop'.i = loop.i /\ ~loop'.frame.announce
    BY <1>2, EmittedIs
  <2>2. Smooth'
    BY <1>1, <1>2, <2>1 DEF Smooth
  <2> QED BY <2>1, <2>2 DEF Coming
<1>3. CASE ~loop.frame.announce
  <2>1. loop'.pc = "visit" /\ loop'.i = loop.i + 1
    BY <1>3, EmittedIs
  <2>2. Load' <= 2 * loop'.i
    BY <1>1, <1>3, <2>1
  <2>3. Smooth'
    BY <2>1, <2>2 DEF Smooth
  <2>4. ASSUME NEW k \in 0 .. count - 1, Coming(k), peers'[k].due PROVE Coming(k)'
    <3>1. k \in Int /\ loop.i < k
      BY <2>4, SimTypes DEF Coming
    <3>2. loop'.i <= k
      BY <1>1, <2>1, <3>1
    <3> QED BY <2>1, <2>4, <3>2 DEF Coming
  <2> QED BY <2>3, <2>4
<1> QED BY <1>2, <1>3, SimTypes

LEMMA EmitFullHears == ASSUME SimInv, HeardInv, EmitFull PROVE HeardInv'
<1>1. /\ loop.pc = "room" /\ NextInQueue(ends.head) = ends.tail /\ loop' = Emitted
      /\ UNCHANGED <<queue, ends, units, node, peers, count, wanted, quiet, edits>>
  BY DEF EmitFull, listVars
<1>2. /\ Load' = Load /\ Load \in Nat /\ Load = SimQueue - 1 /\ loop.i \in Nat
  BY <1>1, SimTypes, SpanFacts DEF Load
<1>3. Smooth => Smooth' /\ \A k \in 0 .. count - 1 : Coming(k) => Coming(k)'
  <2> SUFFICES ASSUME Smooth PROVE Smooth' /\ \A k \in 0 .. count - 1 : Coming(k) => Coming(k)'
    OBVIOUS
  <2>1. Load <= 2 * loop.i \/ (~loop.frame.announce /\ Load <= 2 * loop.i + 1)
    BY <1>1 DEF Smooth
  <2>2. /\ loop.frame.announce => Load' <= 2 * loop.i + 1
        /\ ~loop.frame.announce => Load' <= 2 * loop.i + 2
    <3>1. CASE Load <= 2 * loop.i
      BY <1>2, <3>1
    <3>2. CASE ~loop.frame.announce /\ Load <= 2 * loop.i + 1
      BY <1>2, <3>2
    <3> QED BY <2>1, <3>1, <3>2
  <2>3. Smooth' /\ \A k \in 0 .. count - 1 : Coming(k) /\ peers'[k].due => Coming(k)'
    BY <1>1, <1>2, <2>2, EmittedFits
  <2> QED BY <1>1, <2>3 DEF Coming
<1>4. ASSUME NEW k \in 0 .. count - 1, Smooth, Serving(k) PROVE Serving(k)'
  <2>1. ~Emits(k)
    <3>1. k \in Int /\ k < count /\ count \in Nat /\ count <= MaxSimPeers /\ MaxSimPeers \in Nat
      BY SimTypes, SimBounds
    <3>2. ~(SimQueue - 1 <= 2 * k)
      BY <3>1, RoomForAll, SimBounds
    <3> QED BY <1>1, <1>2, <3>2 DEF Emits
  <2>2. CASE Queued(k)
    BY <1>1, <2>2 DEF Serving, Queued, Live
  <2> QED BY <1>1, <1>3, <1>4, <2>1, <2>2 DEF Serving, InHand
<1>5. ListSame
  BY <1>1 DEF ListSame
<1>6. loop'.pc # "idle"
  BY <1>1, EmittedIs, SimTypes
<1> QED BY <1>3, <1>4, <1>5, <1>6, LoopHears

LEMMA EmitBodyHears == ASSUME SimInv, HeardInv, EmitBody PROVE HeardInv'
<1>1. /\ loop.pc = "room" /\ NextInQueue(ends.head) # ends.tail
      /\ loop' = [loop EXCEPT !.pc = "seal", !.next = NextInQueue(ends.head),
                              !.frame.uid = peers[loop.i].uid]
      /\ UNCHANGED <<queue, ends, units, node, peers, count, wanted, quiet, edits>>
  BY DEF EmitBody, listVars
<1>2. /\ loop'.pc = "seal" /\ loop'.i = loop.i /\ loop'.next = NextInQueue(ends.head)
      /\ loop'.frame.uid = peers[loop.i].uid /\ loop'.frame.announce = loop.frame.announce
  BY <1>1, SimTypes DEF SimLoop, SimFrame
<1>3. Load' = Load
  BY <1>1 DEF Load
<1>4. Smooth => Smooth'
  <2> SUFFICES ASSUME Smooth PROVE Smooth'
    OBVIOUS
  <2>1. /\ loop.i < count
        /\ Load <= 2 * loop.i \/ (~loop.frame.announce /\ Load <= 2 * loop.i + 1)
    BY <1>1 DEF Smooth
  <2>2. ends' = ends /\ peers' = peers /\ count' = count
    BY <1>1
  <2> QED BY <1>1, <1>2, <1>3, <2>1, <2>2 DEF Smooth, NextInQueue
<1>5. ASSUME NEW k \in 0 .. count - 1, Serving(k) PROVE Serving(k)'
  <2>1. CASE Coming(k)
    BY <1>1, <1>2, <2>1 DEF Serving, Coming
  <2>2. CASE Emits(k)
    BY <1>1, <1>2, <2>2 DEF Serving, Emits
  <2>3. CASE Queued(k)
    BY <1>1, <2>3 DEF Serving, Queued, Live
  <2> QED BY <1>1, <1>5, <2>1, <2>2, <2>3 DEF Serving, InHand
<1>6. ListSame
  BY <1>1 DEF ListSame
<1> QED BY <1>2, <1>4, <1>5, <1>6, LoopHears

LEMMA EmitSealHears == ASSUME SimInv, HeardInv, EmitSeal PROVE HeardInv'
<1>1. /\ loop.pc = "seal" /\ peers' = [peers EXCEPT ![loop.i].counter = @ + 1]
      /\ UNCHANGED <<count, queue, ends, units, node, wanted, quiet, edits>>
      /\ loop' = [loop EXCEPT !.pc = "store", !.frame.key = peers[loop.i].uid,
                              !.frame.counter = peers[loop.i].counter + 1, !.frame.at = units]
  BY DEF EmitSeal
<1>2. /\ loop'.pc = "store" /\ loop'.i = loop.i /\ loop'.next = loop.next
      /\ loop'.frame.uid = loop.frame.uid /\ loop'.frame.key = peers[loop.i].uid
      /\ loop'.frame.announce = loop.frame.announce /\ loop'.frame.at = units
  BY <1>1, SimTypes DEF SimLoop, SimFrame
<1>3. \A k \in 0 .. MaxSimPeers - 1 : peers'[k].uid = peers[k].uid /\ peers'[k].due = peers[k].due
  BY <1>1, SimTypes DEF SimPeer
<1>4. Load' = Load
  BY <1>1 DEF Load
<1>5. loop.i < count => loop.i \in 0 .. MaxSimPeers - 1
  BY SimTypes
<1>6. Smooth => Smooth'
  <2> SUFFICES ASSUME Smooth PROVE Smooth'
    OBVIOUS
  <2>1. /\ loop.i < count
        /\ Load <= 2 * loop.i \/ (~loop.frame.announce /\ Load <= 2 * loop.i + 1)
        /\ loop.next = NextInQueue(ends.head) /\ loop.next # ends.tail
        /\ loop.frame.uid = peers[loop.i].uid
    BY <1>1 DEF Smooth
  <2>2. peers'[loop.i].uid = peers[loop.i].uid
    BY <1>3, <1>5, <2>1
  <2>3. ends' = ends /\ count' = count /\ units' = units
    BY <1>1
  <2> QED BY <1>2, <1>4, <2>1, <2>2, <2>3 DEF Smooth, NextInQueue
<1>7. ASSUME NEW k \in 0 .. count - 1, Serving(k) PROVE Serving(k)'
  <2>0. k \in 0 .. MaxSimPeers - 1
    BY SimTypes
  <2>1. CASE Coming(k)
    BY <1>1, <1>2, <1>3, <2>0, <2>1 DEF Serving, Coming
  <2>2. CASE Emits(k)
    BY <1>2, <2>2 DEF Serving, Emits
  <2>3. CASE Queued(k)
    BY <1>1, <1>3, <2>0, <2>3 DEF Serving, Queued, Live
  <2> QED BY <1>1, <1>7, <2>1, <2>2, <2>3 DEF Serving, InHand
<1>8. ListSame
  BY <1>1, <1>3 DEF ListSame
<1> QED BY <1>2, <1>6, <1>7, <1>8, LoopHears

LEMMA EmitStoreHears == ASSUME SimInv, HeardInv, EmitStore PROVE HeardInv'
<1>1. /\ loop.pc = "store" /\ queue' = [queue EXCEPT ![ends.head] = loop.frame]
      /\ ends' = [ends EXCEPT !.head = loop.next] /\ loop' = Emitted
      /\ UNCHANGED <<units, node, peers, count, wanted, quiet, edits>>
  BY DEF EmitStore, listVars
<1> PICK h \in 0 .. SimQueue - 1, t \in 0 .. SimQueue - 1, n \in 0 .. SimQueue - 1 :
        h = ends.head /\ t = ends.tail /\ n = loop.next
  BY SimTypes
<1>2. ends'.head = n /\ ends'.tail = t
  BY <1>1, SimTypes DEF SimInv, SimTyped
<1>3. /\ queue'[h] = loop.frame
      /\ \A s \in 0 .. SimQueue - 1 : s # h => queue'[s] = queue[s]
  BY <1>1, SimTypes
<1>4. ASSUME Smooth
      PROVE  /\ loop.i \in Nat /\ Load \in Nat /\ Load' = Load + 1
             /\ InSpan(h, n, t)
             /\ \A s \in 0 .. SimQueue - 1 : InSpan(s, h, t) => InSpan(s, n, t)
  <2>1. n = NextInQueue(h) /\ n # t
    BY <1>1, <1>4 DEF Smooth
  <2> QED BY <1>2, <2>1, SpanGrows, SimTypes DEF Load
<1>5. ASSUME Smooth PROVE Smooth' /\ \A k \in 0 .. count - 1 : Coming(k) => Coming(k)'
  <2>1. Load <= 2 * loop.i \/ (~loop.frame.announce /\ Load <= 2 * loop.i + 1)
    BY <1>1, <1>5 DEF Smooth
  <2>2. /\ loop.frame.announce => Load' <= 2 * loop.i + 1
        /\ ~loop.frame.announce => Load' <= 2 * loop.i + 2
    <3>1. CASE Load <= 2 * loop.i
      BY <1>4, <1>5, <3>1
    <3>2. CASE ~loop.frame.announce /\ Load <= 2 * loop.i + 1
      BY <1>4, <1>5, <3>2
    <3> QED BY <2>1, <3>1, <3>2
  <2>3. Load' \in Nat
    BY <1>4, <1>5
  <2>4. Smooth' /\ \A k \in 0 .. count - 1 : Coming(k) /\ peers'[k].due => Coming(k)'
    BY <1>1, <1>5, <2>2, <2>3, EmittedFits
  <2> QED BY <1>1, <2>4 DEF Coming
<1>6. ASSUME NEW k \in 0 .. count - 1, Smooth, Serving(k) PROVE Serving(k)'
  <2>1. CASE Emits(k)
    <3>1. Live(loop.frame, peers[k].uid)
      BY <1>1, <1>6, <2>1 DEF Emits, Smooth, Live
    <3>2. Live(queue[h], peers[k].uid)'
      BY <1>1, <1>3, <3>1 DEF Live
    <3>3. InSpan(h, ends'.head, ends'.tail)
      BY <1>2, <1>4, <1>6
    <3> QED BY <3>2, <3>3 DEF Serving, Queued
  <2>2. CASE Queued(k)
    <3>1. PICK s \in 0 .. SimQueue - 1 : InSpan(s, h, t) /\ Live(queue[s], peers[k].uid)
      BY <2>2 DEF Queued
    <3>2. s # h /\ InSpan(s, n, t)
      BY <1>4, <1>6, <3>1, SpanFacts
    <3>3. Live(queue[s], peers[k].uid)'
      BY <1>1, <1>3, <3>1, <3>2 DEF Live
    <3> QED BY <1>2, <3>2, <3>3 DEF Serving, Queued
  <2> QED BY <1>1, <1>5, <1>6, <2>1, <2>2 DEF Serving, InHand
<1>7. ListSame
  BY <1>1 DEF ListSame
<1>8. loop'.pc # "idle"
  BY <1>1, EmittedIs, SimTypes
<1> QED BY <1>5, <1>6, <1>7, <1>8, LoopHears

LEMMA PopNothingHears == ASSUME SimInv, HeardInv, PopNothing PROVE HeardInv'
<1>1. /\ loop.pc = "drain" /\ ends.head = ends.tail /\ loop'.pc = "idle"
      /\ UNCHANGED <<queue, ends, units, node, peers, count, wanted, quiet, edits>>
  BY DEF PopNothing, AtRest, listVars
<1>2. Smooth'
  BY <1>1 DEF Smooth
<1>3. \A k \in 0 .. count - 1 : ~Serving(k)
  <2>1. \A k \in 0 .. count - 1 : ~Queued(k)
    BY <1>1, SpanFacts, SimTypes DEF Queued
  <2> QED BY <1>1, <2>1 DEF Serving, Coming, Emits, InHand
<1>4. ListSame
  BY <1>1 DEF ListSame
<1> QED BY <1>1, <1>2, <1>3, <1>4, LoopHears

LEMMA PopFrameHears == ASSUME SimInv, HeardInv, PopFrame PROVE HeardInv'
<1>1. /\ loop.pc = "drain" /\ ends.tail # ends.head
      /\ loop' = [loop EXCEPT !.pc = "taken", !.next = ends.tail, !.frame = queue[ends.tail]]
      /\ UNCHANGED <<queue, ends, units, node, peers, count, wanted, quiet, edits>>
  BY DEF PopFrame, listVars
<1>2. loop'.pc = "taken" /\ loop'.next = ends.tail /\ loop'.frame = queue[ends.tail]
  BY <1>1, SimTypes DEF SimLoop
<1>3. Smooth'
  BY <1>1, <1>2 DEF Smooth
<1>4. ASSUME NEW k \in 0 .. count - 1, Serving(k) PROVE Serving(k)'
  <2>1. CASE Queued(k)
    BY <1>1, <2>1 DEF Serving, Queued, Live
  <2> QED BY <1>1, <1>4, <2>1 DEF Serving, Coming, Emits, InHand
<1>5. ListSame
  BY <1>1 DEF ListSame
<1> QED BY <1>2, <1>3, <1>4, <1>5, LoopHears

(***************************************************************************)
(* The node takes a frame, or it is another's, or it heard the peer within *)
(* the resync time; the frames behind it stay queued.                      *)
(***************************************************************************)
LEMMA DeliverHears == ASSUME SimInv, HeardInv, Deliver PROVE HeardInv'
<1> PICK f \in SimFrame : f = loop.frame
  BY SimTypes
<1>1. /\ loop.pc = "taken" /\ loop' = [AtRest EXCEPT !.pc = "drain"]
      /\ UNCHANGED <<peers, count, queue, units, wanted, edits>>
      /\ \E t \in {loop.next, ends.tail} : ends' = [ends EXCEPT !.tail = NextInQueue(t)]
      /\ \/ /\ IsAccepted(f)
            /\ node' = Heard(f)
            /\ quiet' = [quiet EXCEPT ![f.uid] = IF f.uid \in wanted THEN 0 ELSE @]
         \/ ~IsAccepted(f) /\ UNCHANGED <<node, quiet>>
  BY DEF Deliver
<1>2. f.at \in Nat /\ f.at <= units /\ Dated(f)
  BY <1>1 DEF SimInv, Holding, Dated, SimFrame
<1>3. loop'.pc = "drain"
  BY <1>1 DEF AtRest
<1>4. Smooth'
  BY <1>3 DEF Smooth
<1>5. /\ quiet \in [SimUid -> Nat] /\ wanted \subseteq SimUid /\ units \in Nat /\ SimResync \in Nat
      /\ \A u \in SimUid : node[u].last \in Nat /\ node[u].last <= units
  BY SimBounds DEF SimInv, SimTyped, EntryDated
<1>6. ASSUME NEW u \in wanted
      PROVE  \/ quiet'[u] = 0 /\ node'[u].last = f.at
             \/ quiet'[u] = quiet[u] /\ node'[u] = node[u] /\ ~(IsAccepted(f) /\ f.uid = u)
  <2>1. CASE /\ IsAccepted(f) /\ node' = Heard(f)
             /\ quiet' = [quiet EXCEPT ![f.uid] = IF f.uid \in wanted THEN 0 ELSE @]
    <3>1. f.uid \in SimUid
      BY <2>1 DEF IsAccepted, SimFrame
    <3>2. node'[f.uid].last = f.at /\ \A v \in SimUid \ {f.uid} : node'[v] = node[v]
      BY <1>2, <2>1, <3>1, HeardType
    <3> QED BY <1>5, <2>1, <3>1, <3>2
  <2> QED BY <1>1, <2>1
<1>7. ASSUME NEW u \in wanted PROVE node'[u].last + quiet'[u] <= units
  <2>1. node[u].last + quiet[u] <= units
    BY DEF HeardInv
  <2> QED BY <1>2, <1>5, <1>6, <2>1
<1>8. ASSUME NEW k \in 0 .. count - 1, quiet'[peers[k].uid] > 0
      PROVE  /\ quiet'[peers[k].uid] <= SimResync + 1
             /\ Serving(k)' \/ quiet'[peers[k].uid] <= SimResync
  <2> PICK u \in wanted : u = peers[k].uid
    BY DEF SimInv, ListKept
  <2>1. quiet'[u] = quiet[u] /\ ~(IsAccepted(f) /\ f.uid = u)
    BY <1>6, <1>8
  <2>2. Smooth /\ quiet[u] <= SimResync + 1 /\ (Serving(k) \/ quiet[u] <= SimResync)
    BY <1>8, <2>1 DEF HeardInv
  <2>3. loop.next = ends.tail /\ ends.tail # ends.head /\ f = queue[ends.tail]
    BY <1>1, <2>2 DEF Smooth
  <2>4. ASSUME Live(f, u) PROVE quiet[u] <= SimResync
    <3>1. ~Restarts(f) /\ f.at = units /\ f.uid = u
      BY <2>1, <2>4, SimBounds, <1>5 DEF IsAccepted, Live
    <3>2. ~(units - node[u].last > SimResync)
      BY <3>1 DEF Restarts
    <3>3. node[u].last + quiet[u] <= units /\ node[u].last \in Nat /\ quiet[u] \in Nat
      BY <1>5 DEF HeardInv
    <3> QED BY <1>5, <3>2, <3>3
  <2>5. ASSUME Queued(k), ~Live(f, u) PROVE Queued(k)'
    <3>1. PICK s \in 0 .. SimQueue - 1 : InSpan(s, ends.head, ends.tail) /\ Live(queue[s], u)
      BY <2>5 DEF Queued
    <3>2. s # ends.tail
      BY <2>3, <2>5, <3>1
    <3>3. ends'.head = ends.head /\ ends'.tail = NextInQueue(ends.tail)
      BY <1>1, <2>3 DEF SimInv, SimTyped
    <3>4. InSpan(s, ends.head, NextInQueue(ends.tail))
      BY <2>3, <3>1, <3>2, SpanShrinks, SimTypes
    <3>5. Live(queue[s], peers[k].uid)'
      BY <1>1, <3>1 DEF Live
    <3> QED BY <3>3, <3>4, <3>5 DEF Queued
  <2>6. Serving(k) => Queued(k) \/ Live(f, u)
    BY <1>1 DEF Serving, Coming, Emits, InHand
  <2> QED BY <2>1, <2>2, <2>4, <2>5, <2>6 DEF Serving
<1> QED BY <1>1, <1>3, <1>4, <1>7, <1>8 DEF HeardInv

(***************************************************************************)
(* A unit ends with nothing queued, so each listed peer was taken in it or *)
(* heard within the resync time; in the next one its turn is still to come.*)
(***************************************************************************)
LEMMA UnitPassesHears == ASSUME SimInv, HeardInv, UnitPasses PROVE HeardInv'
<1>1. /\ loop.pc = "idle" /\ units \in Nat /\ units' = units + 1
      /\ \A i \in 0 .. count - 1 : ~peers[i].due
      /\ peers' = [i \in DOMAIN peers |-> [peers[i] EXCEPT !.due = peers[i] # NoPeer]]
      /\ quiet' = [u \in SimUid |-> quiet[u] + 1]
      /\ UNCHANGED <<count, queue, ends, loop, wanted, edits>>
  BY DEF UnitPasses, SimInv, SimTyped
<1>2. /\ quiet \in [SimUid -> Nat] /\ wanted \subseteq SimUid /\ SimResync \in Nat
      /\ \A u \in SimUid : node'[u].last = node[u].last /\ node[u].last \in Nat
  BY SimBounds DEF SimInv, SimTyped, UnitPasses
<1>3. Smooth'
  BY <1>1 DEF Smooth
<1>4. ASSUME NEW k \in 0 .. count - 1
      PROVE  peers'[k].uid = peers[k].uid /\ Coming(k)'
  <2>1. peers[k] \in SimPeer /\ k \in DOMAIN peers
    BY SimTypes
  <2>2. peers[k] # NoPeer
    BY SimBounds DEF SimInv, ListKept, NoPeer
  <2>3. peers'[k] = [peers[k] EXCEPT !.due = TRUE]
    BY <1>1, <2>1, <2>2
  <2> QED BY <1>1, <2>1, <2>3 DEF SimPeer, Coming
<1>5. ASSUME NEW u \in wanted PROVE node'[u].last + quiet'[u] <= units'
  <2>1. node[u].last + quiet[u] <= units
    BY DEF HeardInv
  <2>2. quiet'[u] = quiet[u] + 1 /\ quiet[u] \in Nat /\ node[u].last \in Nat
    BY <1>1, <1>2
  <2> QED BY <1>1, <1>2, <2>1, <2>2
<1>6. ASSUME NEW k \in 0 .. count - 1 PROVE quiet'[peers[k].uid] <= SimResync + 1
  <2> PICK u \in SimUid : u = peers[k].uid
    BY DEF SimInv, ListKept
  <2>1. ~Serving(k)
    <3>1. ends.head = ends.tail
      BY <1>1 DEF HeardInv
    <3>2. ~Queued(k)
      BY <3>1, SpanFacts, SimTypes DEF Queued
    <3> QED BY <1>1, <3>2 DEF Serving, Coming, Emits, InHand
  <2>2. quiet[u] > 0 => quiet[u] <= SimResync
    BY <2>1 DEF HeardInv
  <2>3. quiet'[u] = quiet[u] + 1 /\ quiet[u] \in Nat
    BY <1>1, <1>2
  <2> QED BY <1>2, <2>2, <2>3
<1>7. \A u \in wanted : \E k \in 0 .. count - 1 : peers'[k].uid = u
  BY <1>4 DEF HeardInv
<1>8. ends.head = ends.tail
  BY <1>1 DEF HeardInv
<1> QED BY <1>1, <1>3, <1>4, <1>5, <1>6, <1>7, <1>8 DEF HeardInv, Serving

(***************************************************************************)
(* A handler starts the count of every uid listed, before or after it.     *)
(***************************************************************************)
LEMMA HandlersHear ==
    ASSUME SimInv, SimInv', HeardInv, ListChanged(wanted'), UNCHANGED <<queue, loop, units, node>>,
           ends' = ends \/ ends'.head = ends'.tail,
           \A u \in wanted' : \E k \in 0 .. count' - 1 : peers'[k].uid = u
    PROVE  HeardInv'
<1>1. \A u \in wanted' : quiet'[u] = 0 /\ u \in SimUid
  BY DEF ListChanged, SimInv, SimTyped
<1>2. \A k \in 0 .. count' - 1 : peers'[k].uid \in wanted'
  BY DEF SimInv, ListKept
<1>3. ASSUME NEW u \in wanted' PROVE node'[u].last + quiet'[u] <= units'
  <2>1. node[u].last \in Nat /\ node[u].last <= units /\ units \in Nat
    BY <1>1 DEF SimInv, SimTyped, EntryDated
  <2>2. quiet'[u] = 0
    BY <1>1
  <2> QED BY <2>1, <2>2
<1>4. loop'.pc = "idle" => ends'.head = ends'.tail
  BY DEF HeardInv
<1>5. \A k \in 0 .. count' - 1 : ~(quiet'[peers'[k].uid] > 0)
  <2>1. ~(0 > 0)
    OBVIOUS
  <2> QED BY <1>1, <1>2, <2>1
<1> QED BY <1>3, <1>4, <1>5 DEF HeardInv

LEMMA SetPeerHears == ASSUME SimInv, HeardInv, NEW u \in SimUid, SetPeer(u) PROVE HeardInv'
<1> PICK i \in 0 .. count - 1 : peers[i].uid = u /\ peers' = [peers EXCEPT ![i].announced = FALSE]
  BY DEF SetPeer
<1>1. /\ wanted' = wanted /\ ListChanged(wanted') /\ UNCHANGED <<count, queue, ends, loop, units, node>>
  BY DEF SetPeer, ListChanged
<1>2. \A k \in 0 .. count - 1 : peers'[k].uid = peers[k].uid
  BY SimTypes DEF SimPeer
<1>3. \A v \in wanted' : \E k \in 0 .. count' - 1 : peers'[k].uid = v
  BY <1>1, <1>2 DEF HeardInv
<1> QED BY <1>1, <1>3, SetPeerKeeps, HandlersHear

LEMMA AddPeerHears == ASSUME SimInv, HeardInv, NEW u \in SimUid, AddPeer(u) PROVE HeardInv'
<1>1. /\ count \in 0 .. MaxSimPeers - 1 /\ count' = count + 1
      /\ peers' = [peers EXCEPT ![count] = [uid |-> u, due |-> TRUE, counter |-> 0, announced |-> FALSE]]
      /\ wanted' = wanted \cup {u}
      /\ ListChanged(wanted') /\ UNCHANGED <<queue, ends, loop, units, node>>
  BY SimBounds DEF AddPeer, ListChanged, SimInv, SimTyped
<1>2. /\ peers'[count].uid = u
      /\ \A k \in 0 .. count - 1 : peers'[k] = peers[k]
  BY <1>1, SimTypes
<1>3. ASSUME NEW v \in wanted' PROVE \E k \in 0 .. count' - 1 : peers'[k].uid = v
  <2>1. count \in 0 .. count' - 1 /\ \A k \in 0 .. count - 1 : k \in 0 .. count' - 1
    BY <1>1
  <2>2. CASE v = u
    BY <1>2, <2>1, <2>2
  <2>3. CASE v \in wanted
    BY <1>2, <2>1, <2>3 DEF HeardInv
  <2> QED BY <1>1, <2>2, <2>3
<1> QED BY <1>1, <1>3, AddPeerKeeps, HandlersHear

LEMMA RemovePeerHears == ASSUME SimInv, HeardInv, NEW u \in SimUid, RemovePeer(u) PROVE HeardInv'
<1> PICK i \in 0 .. count - 1 :
        /\ peers[i].uid = u
        /\ peers' = [j \in DOMAIN peers |-> IF j \in i .. count - 2 THEN peers[j + 1] ELSE peers[j]]
  BY DEF RemovePeer
<1>1. /\ count \in Nat /\ count <= MaxSimPeers /\ count' = count - 1 /\ wanted' = wanted \ {u}
      /\ ListChanged(wanted') /\ UNCHANGED <<queue, ends, loop, units, node>>
  BY SimTypes, SimBounds DEF RemovePeer, ListChanged
<1>2. DOMAIN peers = 0 .. MaxSimPeers - 1
  BY SimTypes
<1>3. ASSUME NEW v \in wanted' PROVE \E k \in 0 .. count' - 1 : peers'[k].uid = v
  <2>1. PICK j \in 0 .. count - 1 : peers[j].uid = v
    BY <1>1 DEF HeardInv
  <2>2. j # i
    BY <1>1, <2>1
  <2>3. CASE j < i
    <3>1. j \in 0 .. count - 2 /\ j \in 0 .. MaxSimPeers - 1 /\ j \notin i .. count - 2
      BY <1>1, <2>3, SimBounds
    <3>2. peers'[j] = peers[j]
      BY <1>2, <3>1
    <3> QED BY <1>1, <2>1, <3>1, <3>2
  <2>4. CASE j > i
    <3> PICK k \in Int : k = j - 1
      OBVIOUS
    <3>1. k \in 0 .. count - 2 /\ k \in 0 .. MaxSimPeers - 1 /\ k \in i .. count - 2 /\ k + 1 = j
      BY <1>1, <2>4, SimBounds
    <3>2. peers'[k] = peers[j]
      BY <1>2, <3>1
    <3>3. k \in 0 .. count' - 1
      BY <1>1, <3>1
    <3> QED BY <2>1, <3>2, <3>3
  <2> QED BY <2>2, <2>3, <2>4
<1> QED BY <1>1, <1>3, RemovePeerKeeps, HandlersHear

LEMMA ClearHears == ASSUME SimInv, HeardInv, Clear PROVE HeardInv'
<1>1. /\ wanted' = {} /\ ListChanged(wanted') /\ UNCHANGED <<queue, loop, units, node>>
      /\ ends'.head = ends'.tail
  BY DEF Clear, ListChanged
<1> QED BY <1>1, ClearKeeps, HandlersHear

LEMMA InitHeardInv == SimInit => HeardInv
<1> SUFFICES ASSUME SimInit PROVE HeardInv
  OBVIOUS
<1>1. wanted = {} /\ count = 0 /\ ends.head = ends.tail
  BY DEF SimInit
<1> QED BY <1>1 DEF HeardInv

LEMMA NextHeardInv == SimInv /\ HeardInv /\ [SimStep]_simVars => HeardInv'
<1> SUFFICES ASSUME SimInv, HeardInv, [SimStep]_simVars PROVE HeardInv'
  OBVIOUS
<1>1. CASE Handlers
  BY <1>1, SetPeerHears, AddPeerHears, RemovePeerHears, ClearHears DEF Handlers
<1>2. CASE Iterate \/ VisitNotDue \/ VisitDue \/ VisitedAll
  BY <1>2, IterateHears, VisitNotDueHears, VisitDueHears, VisitedAllHears
<1>3. CASE EmitFull \/ EmitBody \/ EmitSeal \/ EmitStore
  BY <1>3, EmitFullHears, EmitBodyHears, EmitSealHears, EmitStoreHears
<1>4. CASE PopNothing \/ PopFrame \/ Deliver
  BY <1>4, PopNothingHears, PopFrameHears, DeliverHears
<1>5. CASE UnitPasses
  BY <1>5, UnitPassesHears
<1>6. CASE UNCHANGED simVars
  <2>1. /\ UNCHANGED <<queue, ends, loop, units, node, peers, count, wanted, quiet>>
        /\ Load' = Load
    BY <1>6 DEF simVars, Load
  <2>2. Smooth => Smooth'
    BY <2>1 DEF Smooth, NextInQueue
  <2>3. \A k \in 0 .. count - 1 : Serving(k) => Serving(k)'
    BY <2>1 DEF Serving, Coming, Emits, Queued, InHand, Live
  <2>4. loop'.pc = "idle" => ends'.head = ends'.tail
    BY <2>1 DEF HeardInv
  <2>5. ListSame
    BY <2>1 DEF ListSame
  <2> QED BY <2>2, <2>3, <2>4, <2>5, LoopHears
<1> QED BY <1>1, <1>2, <1>3, <1>4, <1>5, <1>6 DEF SimStep

(***************************************************************************)
(* A peer on the list is heard within the resync time and one unit of the  *)
(* last change of the list or the last time it was, whatever was left in   *)
(* the queue and whatever peers had its uid before.                        *)
(***************************************************************************)
THEOREM ListedPeersHeard == SimSpec => []SimPeersHeard
<1>1. SimInv /\ HeardInv => SimPeersHeard
  <2> SUFFICES ASSUME SimInv, HeardInv, NEW u \in wanted PROVE quiet[u] <= SimResync + 1
    BY DEF SimPeersHeard
  <2>1. PICK k \in 0 .. count - 1 : peers[k].uid = u
    BY DEF HeardInv
  <2>2. quiet[u] \in Nat /\ SimResync \in Nat
    BY SimBounds DEF SimInv, SimTyped
  <2>3. quiet[u] > 0 => quiet[u] <= SimResync + 1
    BY <2>1 DEF HeardInv
  <2> QED BY <2>2, <2>3
<1> QED BY <1>1, InitSimInv, NextSimInv, InitHeardInv, NextHeardInv, PTL DEF SimSpec
-----------------------------------------------------------------------------
(***************************************************************************)
(* FrameLog.  The log holds the last frames added, newest first, shifted   *)
(* by what an add has done so far: its frame overwrites the oldest of a    *)
(* full log first, then the indices move, and the total comes last.        *)
(***************************************************************************)
LogTyped ==
    /\ log \in [entries : [0 .. LogCapacity - 1 -> Nat], head : 0 .. LogCapacity - 1,
                count : 0 .. LogCapacity, total : Nat]
    /\ adding \in {"idle", "index", "total"}
    /\ page \in [since : Nat, missed : Nat] /\ boot \in [number : Nat, polled : BOOLEAN]
    /\ account \in [from : Nat, got : SUBSET Nat, before : Nat, caught : Nat]

Added == IF adding = "total" THEN log.total + 1 ELSE log.total

LastAdded ==
    /\ log.count = IF Added < LogCapacity THEN Added ELSE LogCapacity
    /\ adding = "index" => log.entries[log.head] = log.total
    /\ \A i \in 0 .. log.count - 1 :
        At(i) = IF adding = "index" /\ i = LogCapacity - 1 THEN log.total ELSE Added - 1 - i

(***************************************************************************)
(* The page's account.  A poll that catches the loop in an add may get the *)
(* frame at its cursor early: it is then one short in what it answers for, *)
(* and may later count as missed a frame it has.                           *)
(***************************************************************************)
Lost == (account.from .. page.since - 1) \ account.got

Balanced ==
    /\ account.from <= page.since /\ page.since <= log.total
    /\ account.got \subseteq 0 .. page.since
    /\ account.before <= page.missed
    /\ Cardinality(Lost) <= page.missed - account.before + account.caught
    /\ page.missed - account.before <= Cardinality(Lost) + account.caught
    /\ page.since \in account.got =>
        page.missed - account.before < Cardinality(Lost) + account.caught

Unpolled == account = [from |-> page.since, got |-> {}, before |-> page.missed, caught |-> 0]

LogInv ==
    /\ LogTyped /\ LastAdded
    /\ IF boot.polled THEN Balanced ELSE Unpolled

LEMMA LogBounds == /\ LogCapacity \in Nat /\ LogCapacity >= 1 /\ ReplyMax \in Nat /\ ReplyMax >= 1
  BY FrameLogAssumption

LEMMA ModOnce ==
    ASSUME NEW c \in Nat, c >= 1, NEW x \in 0 .. c + c - 1
    PROVE  x % c = IF x < c THEN x ELSE x - c
<1>1. CASE x < c
  BY <1>1
<1>2. CASE x >= c
  BY <1>2
<1> QED BY <1>1, <1>2

\* Where the entry i before the newest is, when h is the slot written next.
Back(h, i) == IF h > i THEN h - 1 - i ELSE h + LogCapacity - 1 - i
Ahead(h) == IF h + 1 = LogCapacity THEN 0 ELSE h + 1

LEMMA BackType == \A h, i \in 0 .. LogCapacity - 1 :
                    Back(h, i) \in 0 .. LogCapacity - 1 /\ (Back(h, i) = h <=> i = LogCapacity - 1)
  BY LogBounds DEF Back

LEMMA BackAhead ==
    ASSUME NEW h \in 0 .. LogCapacity - 1
    PROVE  /\ Ahead(h) \in 0 .. LogCapacity - 1 /\ (h + 1) % LogCapacity = Ahead(h)
           /\ Back(Ahead(h), 0) = h
           /\ \A i \in 1 .. LogCapacity - 1 : Back(Ahead(h), i) = Back(h, i - 1)
<1>1. (h + 1) % LogCapacity = Ahead(h)
  <2>1. h + 1 \in 0 .. LogCapacity + LogCapacity - 1
    BY LogBounds
  <2>2. (h + 1) % LogCapacity = IF h + 1 < LogCapacity THEN h + 1 ELSE h + 1 - LogCapacity
    BY <2>1, ModOnce, LogBounds
  <2> QED BY <2>2, LogBounds DEF Ahead
<1>2. Ahead(h) \in 0 .. LogCapacity - 1 /\ Back(Ahead(h), 0) = h
  BY LogBounds DEF Ahead, Back
<1>3. \A i \in 1 .. LogCapacity - 1 : Back(Ahead(h), i) = Back(h, i - 1)
  BY LogBounds DEF Ahead, Back
<1> QED BY <1>1, <1>2, <1>3

SlotsBack == \A i \in 0 .. LogCapacity - 1 : At(i) = log.entries[Back(log.head, i)]

LEMMA AtBack == LogTyped => SlotsBack
<1> SUFFICES ASSUME LogTyped, NEW i \in 0 .. LogCapacity - 1
             PROVE  At(i) = log.entries[Back(log.head, i)]
  BY DEF SlotsBack
<1> PICK h \in 0 .. LogCapacity - 1 : h = log.head
  BY DEF LogTyped
<1>1. h + LogCapacity - 1 - i \in 0 .. LogCapacity + LogCapacity - 1
  BY LogBounds
<1>2. (h + LogCapacity - 1 - i) % LogCapacity = Back(h, i)
  BY <1>1, ModOnce, LogBounds DEF Back
<1> QED BY <1>2 DEF At

LEMMA AtBackNext == LogTyped' => SlotsBack'
  BY AtBack, PTL

LEMMA AddStoreKeeps == ASSUME LogInv, AddStore PROVE LogTyped' /\ LastAdded'
<1> PICK h, n, c, e : h = log.head /\ n = log.total /\ c = log.count /\ e = log.entries
  OBVIOUS
<1>1. /\ h \in 0 .. LogCapacity - 1 /\ n \in Nat /\ c \in 0 .. LogCapacity
      /\ e \in [0 .. LogCapacity - 1 -> Nat] /\ log = [entries |-> e, head |-> h, count |-> c, total |-> n]
  BY DEF LogInv, LogTyped
<1>2. /\ adding = "idle" /\ adding' = "index" /\ UNCHANGED <<page, boot, account>>
      /\ log' = [log EXCEPT !.entries = [e EXCEPT ![h] = n]]
  BY DEF AddStore
<1> PICK e1 : e1 = [e EXCEPT ![h] = n]
  OBVIOUS
<1>3. /\ e1 \in [0 .. LogCapacity - 1 -> Nat] /\ e1[h] = n
      /\ \A s \in 0 .. LogCapacity - 1 : s # h => e1[s] = e[s]
  BY <1>1
<1>4. log' = [entries |-> e1, head |-> h, count |-> c, total |-> n]
  BY <1>1, <1>2
<1>5. LogTyped'
  BY <1>1, <1>2, <1>3, <1>4 DEF LogTyped, LogInv
<1>6. \A i \in 0 .. LogCapacity - 1 : At(i) = e[Back(h, i)] /\ At(i)' = e1[Back(h, i)]
  <2>1. SlotsBack /\ SlotsBack'
    BY AtBack, AtBackNext, <1>5 DEF LogInv
  <2>2. \A i \in 0 .. LogCapacity - 1 : Back(log.head, i)' = Back(h, i)
    BY <1>4 DEF Back
  <2> QED BY <1>4, <2>1, <2>2 DEF SlotsBack
<1>7. c = (IF n < LogCapacity THEN n ELSE LogCapacity) /\ \A i \in 0 .. c - 1 : At(i) = n - 1 - i
  BY <1>2 DEF LogInv, LastAdded, Added
<1>8. ASSUME NEW i \in 0 .. c - 1 PROVE At(i)' = IF i = LogCapacity - 1 THEN n ELSE n - 1 - i
  <2>1. i \in 0 .. LogCapacity - 1
    BY <1>1, LogBounds
  <2>2. CASE i = LogCapacity - 1
    <3>1. Back(h, i) = h
      BY <1>1, <2>1, <2>2, BackType
    <3>2. At(i)' = n
      BY <1>3, <1>6, <2>1, <3>1
    <3> QED BY <2>2, <3>2
  <2>3. CASE i # LogCapacity - 1
    <3>1. Back(h, i) \in 0 .. LogCapacity - 1 /\ Back(h, i) # h
      BY <1>1, <2>1, <2>3, BackType
    <3>2. At(i)' = At(i)
      BY <1>3, <1>6, <2>1, <3>1
    <3> QED BY <1>7, <2>3, <3>2
  <2> QED BY <2>2, <2>3
<1>9. Added' = n
  BY <1>2, <1>4 DEF Added
<1> QED BY <1>2, <1>3, <1>4, <1>5, <1>7, <1>8, <1>9 DEF LastAdded

LEMMA AddIndexKeeps == ASSUME LogInv, AddIndex PROVE LogTyped' /\ LastAdded'
<1> PICK h, n, c, e : h = log.head /\ n = log.total /\ c = log.count /\ e = log.entries
  OBVIOUS
<1>1. /\ h \in 0 .. LogCapacity - 1 /\ n \in Nat /\ c \in 0 .. LogCapacity
      /\ e \in [0 .. LogCapacity - 1 -> Nat] /\ log = [entries |-> e, head |-> h, count |-> c, total |-> n]
  BY DEF LogInv, LogTyped
<1> PICK a : a = Ahead(h)
  OBVIOUS
<1> PICK c1 : c1 = IF c < LogCapacity THEN c + 1 ELSE c
  OBVIOUS
<1>2. /\ adding = "index" /\ adding' = "total" /\ UNCHANGED <<page, boot, account>>
      /\ log' = [log EXCEPT !.head = (h + 1) % LogCapacity, !.count = c1]
  BY DEF AddIndex
<1>3. /\ log' = [entries |-> e, head |-> a, count |-> c1, total |-> n]
      /\ a \in 0 .. LogCapacity - 1 /\ c1 \in 0 .. LogCapacity
  <2>1. a \in 0 .. LogCapacity - 1 /\ (h + 1) % LogCapacity = a
    BY <1>1, BackAhead
  <2>2. c1 \in 0 .. LogCapacity
    BY <1>1, LogBounds
  <2> QED BY <1>1, <1>2, <2>1, <2>2
<1>4. LogTyped'
  <2>1. log' \in [entries : [0 .. LogCapacity - 1 -> Nat], head : 0 .. LogCapacity - 1,
                  count : 0 .. LogCapacity, total : Nat]
    BY <1>1, <1>3
  <2> QED BY <1>2, <2>1 DEF LogTyped, LogInv
<1>5. \A i \in 0 .. LogCapacity - 1 : At(i) = e[Back(h, i)] /\ At(i)' = e[Back(a, i)]
  <2>1. SlotsBack /\ SlotsBack'
    BY AtBack, AtBackNext, <1>4 DEF LogInv
  <2>2. \A i \in 0 .. LogCapacity - 1 : Back(log.head, i)' = Back(a, i)
    BY <1>3 DEF Back
  <2> QED BY <1>3, <2>1, <2>2 DEF SlotsBack
<1>6. /\ c = IF n < LogCapacity THEN n ELSE LogCapacity
      /\ e[h] = n
      /\ \A i \in 0 .. c - 1 : At(i) = IF i = LogCapacity - 1 THEN n ELSE n - 1 - i
  BY <1>2 DEF LogInv, LastAdded, Added
<1>7. c1 = IF n + 1 < LogCapacity THEN n + 1 ELSE LogCapacity
  BY <1>1, <1>6, LogBounds
<1>8. ASSUME NEW i \in 0 .. c1 - 1 PROVE At(i)' = n - i
  <2>1. i \in 0 .. LogCapacity - 1
    BY <1>3, LogBounds
  <2>2. CASE i = 0
    <3>1. Back(a, 0) = h
      BY <1>1, BackAhead
    <3> QED BY <1>1, <1>5, <1>6, <2>1, <2>2, <3>1
  <2>3. CASE i # 0
    <3>1. i \in 1 .. LogCapacity - 1 /\ i - 1 \in 0 .. c - 1 /\ i - 1 \in 0 .. LogCapacity - 1
          /\ i - 1 # LogCapacity - 1 /\ n - 1 - (i - 1) = n - i
      <4> HIDE DEF LogInv, AddIndex
      <4>1. c \in Nat /\ n \in Nat /\ i \in Nat /\ LogCapacity \in Nat /\ i < c1 /\ c1 <= c + 1
        <5>1. n \in Nat /\ i \in Nat /\ LogCapacity \in Nat
          BY <1>1, <2>1, LogBounds
        <5>2. c \in Nat /\ c1 \in Nat
          BY <1>1, <1>3, LogBounds
        <5>3. i < c1
          BY <1>8, <5>1, <5>2
        <5>4. c1 <= c + 1
          BY <1>1, <1>3, <5>1, <5>2
        <5> QED BY <5>1, <5>2, <5>3, <5>4
      <4> QED BY <2>1, <2>3, <4>1
    <3>2. At(i)' = At(i - 1)
      <4>1. Back(a, i) = Back(h, i - 1)
        BY <1>1, <3>1, BackAhead
      <4> QED BY <1>5, <2>1, <3>1, <4>1
    <3> QED BY <1>6, <3>1, <3>2
  <2> QED BY <2>2, <2>3
<1>9. Added' = n + 1
  BY <1>2, <1>3 DEF Added
<1>10. adding' = "total" /\ log'.count = c1
  BY <1>2, <1>3
<1>11. \A i \in 0 .. log'.count - 1 : At(i)' = Added' - 1 - i
  <2> SUFFICES ASSUME NEW i \in 0 .. c1 - 1 PROVE At(i)' = Added' - 1 - i
    BY <1>10
  <2>1. n - i = n + 1 - 1 - i
    BY <1>1, <1>3
  <2>2. At(i)' = n + 1 - 1 - i
    BY <1>8, <2>1
  <2> QED BY <1>1, <1>3, <1>9, <2>2
<1>12. log'.count = IF Added' < LogCapacity THEN Added' ELSE LogCapacity
  BY <1>7, <1>9, <1>10
<1> QED BY <1>4, <1>10, <1>11, <1>12 DEF LastAdded

LEMMA AddTotalKeeps == ASSUME LogInv, AddTotal PROVE LogTyped' /\ LastAdded'
<1> PICK h, n, c, e : h = log.head /\ n = log.total /\ c = log.count /\ e = log.entries
  OBVIOUS
<1>1. /\ h \in 0 .. LogCapacity - 1 /\ n \in Nat /\ c \in 0 .. LogCapacity
      /\ e \in [0 .. LogCapacity - 1 -> Nat] /\ log = [entries |-> e, head |-> h, count |-> c, total |-> n]
  BY DEF LogInv, LogTyped
<1>2. /\ adding = "total" /\ adding' = "idle" /\ UNCHANGED <<page, boot, account>>
      /\ log' = [entries |-> e, head |-> h, count |-> c, total |-> n + 1]
  BY <1>1 DEF AddTotal
<1>3. LogTyped'
  BY <1>1, <1>2 DEF LogTyped, LogInv
<1>4. \A i : At(i)' = At(i)
  BY <1>1, <1>2 DEF At
<1>5. Added' = Added /\ log'.count = log.count
  BY <1>1, <1>2 DEF Added
<1> QED BY <1>2, <1>3, <1>4, <1>5 DEF LogInv, LastAdded

(***************************************************************************)
(* What a reply holds: as many of the last frames as it counts, or, when   *)
(* the poll caught the loop in an add, all but the oldest of those and the *)
(* frame being added.                                                      *)
(***************************************************************************)
LEMMA ReplyLengthIs ==
    ASSUME LogInv, NEW since \in Nat
    PROVE  /\ {j \in 0 .. LogCapacity - 1 : InReply(j, since)} = 0 .. ReplyLength(since) - 1
           /\ ReplyLength(since) \in 0 .. log.count
           /\ since # 0 => ReplyLength(since) = 0 \/ since + ReplyLength(since) <= log.total
           /\ since # 0 /\ since >= log.total => ReplyLength(since) = 0
           /\ log.count >= 1 /\ (since = 0 \/ since < log.total) => ReplyLength(since) >= 1
<1> PICK c, n : c = log.count /\ n = log.total
  OBVIOUS
<1>1. c \in 0 .. LogCapacity /\ n \in Nat
  BY DEF LogInv, LogTyped
<1> PICK most : most = IF c < ReplyMax THEN c ELSE ReplyMax
  OBVIOUS
<1> PICK newer : newer = IF since = 0 THEN most ELSE IF since < n THEN n - since ELSE 0
  OBVIOUS
<1> PICK len : len = IF most < newer THEN most ELSE newer
  OBVIOUS
<1>2. most \in Nat /\ newer \in Nat /\ len \in Nat /\ len <= c /\ len <= most /\ len <= newer
  BY <1>1, LogBounds
<1>3. \A j \in 0 .. LogCapacity - 1 : InReply(j, since) <=> j \in 0 .. len - 1
  <2> SUFFICES ASSUME NEW j \in 0 .. LogCapacity - 1 PROVE InReply(j, since) <=> j \in 0 .. len - 1
    OBVIOUS
  <2>1. InReply(j, since) <=> j < c /\ j < ReplyMax /\ (since = 0 \/ n - 1 - j >= since)
    BY DEF InReply
  <2>2. j < c /\ j < ReplyMax <=> j < most
    BY <1>1, LogBounds
  <2>3. j < most => (since = 0 \/ n - 1 - j >= since <=> j < newer)
    BY <1>1, <1>2, LogBounds
  <2> QED BY <1>2, <2>1, <2>2, <2>3, LogBounds
<1>4. {j \in 0 .. LogCapacity - 1 : InReply(j, since)} = 0 .. len - 1
  <2>1. \A j \in 0 .. len - 1 : j \in 0 .. LogCapacity - 1
    BY <1>1, <1>2, LogBounds
  <2> QED BY <1>3, <2>1
<1>5. Cardinality(0 .. len - 1) = len
  <2>1. Cardinality(0 .. len - 1) = IF 0 > len - 1 THEN 0 ELSE len - 1 - 0 + 1
    <3>1. 0 \in Int /\ len - 1 \in Int
      BY <1>2
    <3> QED BY <3>1, FS_Interval
  <2> QED BY <1>2, <2>1
<1>6. ReplyLength(since) = len
  BY <1>4, <1>5 DEF ReplyLength
<1>7. /\ since # 0 => len = 0 \/ since + len <= n
      /\ since # 0 /\ since >= n => len = 0
      /\ c >= 1 /\ (since = 0 \/ since < n) => len >= 1
  BY <1>1, <1>2, LogBounds
<1> QED BY <1>2, <1>4, <1>6, <1>7

LEMMA ReplyIs ==
    ASSUME LogInv, NEW since \in Nat, NEW len, len = ReplyLength(since)
    PROVE  \/ len <= log.total /\ Reply(since) = log.total - len .. log.total - 1
           \/ /\ adding # "idle" /\ len >= 1 /\ len <= log.total + 1
              /\ Reply(since) = log.total - len + 1 .. log.total
<1> PICK c, n : c = log.count /\ n = log.total
  OBVIOUS
<1>1. /\ c \in 0 .. LogCapacity /\ n \in Nat /\ len \in 0 .. c
      /\ Reply(since) = {At(i) : i \in 0 .. len - 1}
  BY ReplyLengthIs DEF LogInv, LogTyped, Reply
<1>2. \A i \in 0 .. len - 1 : i \in 0 .. c - 1 /\ i \in Nat
  BY <1>1
<1>3. CASE adding = "total"
  <2>1. \A i \in 0 .. len - 1 : At(i) = n - i
    <3>1. \A i \in 0 .. c - 1 : At(i) = n + 1 - 1 - i
      <4>1. \A i \in 0 .. c - 1 : At(i) = Added - 1 - i
        BY <1>3 DEF LogInv, LastAdded
      <4>2. Added = n + 1
        BY <1>3 DEF Added
      <4> QED BY <1>1, <4>1, <4>2
    <3>2. \A i \in 0 .. len - 1 : n + 1 - 1 - i = n - i
      BY <1>1
    <3> QED BY <1>2, <3>1, <3>2
  <2>2. len <= n + 1
    BY <1>1, <1>3, LogBounds DEF LogInv, LastAdded, Added
  <2>3. {n - i : i \in 0 .. len - 1} = n - len + 1 .. n
    <3>1. ASSUME NEW x \in n - len + 1 .. n PROVE n - x \in 0 .. len - 1 /\ n - (n - x) = x
      BY <1>1, <2>2
    <3>2. \A i \in 0 .. len - 1 : n - i \in n - len + 1 .. n
      BY <1>1, <2>2
    <3> QED BY <3>1, <3>2
  <2>4. Reply(since) = n - len + 1 .. n
    BY <1>1, <2>1, <2>3
  <2>5. CASE len = 0
    <3>1. n - len + 1 .. n = n - len .. n - 1
      BY <1>1, <2>5
    <3> QED BY <1>1, <2>4, <2>5, <3>1
  <2> QED BY <1>1, <1>3, <2>2, <2>4, <2>5
<1>4. CASE adding # "total"
  <2>1. /\ \A i \in 0 .. c - 1 :
            At(i) = IF adding = "index" /\ i = LogCapacity - 1 THEN n ELSE n - 1 - i
        /\ len <= n
    <3>1. Added = n
      BY <1>4 DEF Added
    <3>2. c <= n
      BY <1>1, <3>1, LogBounds DEF LogInv, LastAdded
    <3> QED BY <1>1, <3>1, <3>2 DEF LogInv, LastAdded
  <2>2. CASE adding = "index" /\ len = LogCapacity
    <3>1. ASSUME NEW x \in n - len + 1 .. n PROVE \E i \in 0 .. len - 1 : At(i) = x
      <4>1. CASE x = n
        <5>1. LogCapacity - 1 \in 0 .. len - 1
          BY <2>2, LogBounds
        <5> QED BY <1>2, <2>1, <2>2, <4>1, <5>1
      <4>2. CASE x # n
        <5>1. n - 1 - x \in 0 .. len - 1 /\ n - 1 - x # LogCapacity - 1 /\ n - 1 - (n - 1 - x) = x
          BY <1>1, <2>1, <2>2, <3>1, <4>2
        <5> QED BY <1>2, <2>1, <5>1
      <4> QED BY <4>1, <4>2
    <3>2. ASSUME NEW i \in 0 .. len - 1 PROVE At(i) \in n - len + 1 .. n
      <4>1. CASE i = LogCapacity - 1
        BY <1>1, <1>2, <2>1, <2>2, <4>1, LogBounds
      <4>2. CASE i # LogCapacity - 1
        <5>1. n - 1 - i \in n - len + 1 .. n
          BY <1>1, <2>1, <2>2, <3>2, <4>2, LogBounds
        <5> QED BY <1>2, <2>1, <4>2, <5>1
      <4> QED BY <4>1, <4>2
    <3>3. Reply(since) = n - len + 1 .. n
      BY <1>1, <3>1, <3>2
    <3>4. len >= 1 /\ len <= n + 1
      BY <1>1, <2>1, <2>2, LogBounds
    <3> QED BY <2>2, <3>3, <3>4
  <2>3. CASE ~(adding = "index" /\ len = LogCapacity)
    <3>1. \A i \in 0 .. len - 1 : At(i) = n - 1 - i
      <4>1. \A i \in 0 .. len - 1 : ~(adding = "index" /\ i = LogCapacity - 1)
        BY <1>1, <2>3, LogBounds
      <4> QED BY <1>2, <2>1, <4>1
    <3>2. {n - 1 - i : i \in 0 .. len - 1} = n - len .. n - 1
      <4>1. ASSUME NEW x \in n - len .. n - 1 PROVE n - 1 - x \in 0 .. len - 1 /\ n - 1 - (n - 1 - x) = x
        BY <1>1, <2>1
      <4>2. \A i \in 0 .. len - 1 : n - 1 - i \in n - len .. n - 1
        BY <1>1, <2>1
      <4> QED BY <4>1, <4>2
    <3> QED BY <1>1, <2>1, <3>1, <3>2
  <2> QED BY <2>2, <2>3
<1> QED BY <1>3, <1>4

(***************************************************************************)
(* What is left of an interval without a set that may hold its first.      *)
(***************************************************************************)
LEMMA LessFirst ==
    ASSUME NEW a \in Int, NEW b \in Int, NEW held, \A x \in a .. b : x \in held => x = a,
           NEW S, S = (a .. b) \ held
    PROVE  Cardinality(S) = IF a > b THEN 0 ELSE IF a \in held THEN b - a ELSE b - a + 1
<1> PICK I : I = a .. b
  OBVIOUS
<1>1. IsFiniteSet(I) /\ Cardinality(I) = IF a > b THEN 0 ELSE b - a + 1
  BY FS_Interval
<1>2. CASE a > b \/ a \notin held
  <2>1. S = I
    BY <1>2
  <2> QED BY <1>1, <1>2, <2>1
<1>3. CASE a <= b /\ a \in held
  <2>1. S = I \ {a} /\ a \in I
    BY <1>3
  <2>2. Cardinality(I \ {a}) = Cardinality(I) - 1
    BY <1>1, <2>1, FS_RemoveElement
  <2>3. Cardinality(S) = Cardinality(I) - 1
    BY <2>1, <2>2
  <2>4. Cardinality(I) = b - a + 1
    BY <1>1, <1>3
  <2> QED BY <1>3, <2>3, <2>4
<1> QED BY <1>2, <1>3

LEMMA PartFinite ==
    ASSUME NEW a \in Int, NEW b \in Int, NEW S, S \subseteq a .. b
    PROVE  IsFiniteSet(S) /\ Cardinality(S) \in Nat
<1>1. IsFiniteSet(a .. b)
  BY FS_Interval
<1>2. IsFiniteSet(S)
  BY <1>1, FS_Subset
<1> QED BY <1>2, FS_CardinalityType

LEMMA PartsAdd ==
    ASSUME NEW S, NEW T, IsFiniteSet(S), IsFiniteSet(T), S \cap T = {}
    PROVE  Cardinality(S \cup T) = Cardinality(S) + Cardinality(T)
<1>1. Cardinality(S \cup T) = Cardinality(S) + Cardinality(T) - Cardinality({})
  BY FS_Union
<1>2. Cardinality({}) = 0 /\ Cardinality(S) \in Nat /\ Cardinality(T) \in Nat
  BY FS_EmptySet, FS_CardinalityType
<1> QED BY <1>1, <1>2

LEMMA LessCursor ==
    ASSUME NEW since \in Nat, NEW b \in Int, NEW held, held \subseteq 0 .. since
    PROVE  Cardinality((since .. b) \ held) =
           IF since > b THEN 0 ELSE IF since \in held THEN b - since ELSE b - since + 1
<1>1. \A x \in since .. b : x \in held => x = since
  OBVIOUS
<1>2. since \in Int
  OBVIOUS
<1> QED BY <1>1, <1>2, LessFirst, Zenon

(***************************************************************************)
(* The frames a page has when it polls, from, held and its cursor since,    *)
(* and a reply with len of the frames up to total.                         *)
(***************************************************************************)
Polled(from, since, total, len, held) ==
    /\ from \in Nat /\ since \in Nat /\ total \in Nat /\ len \in Nat
    /\ from <= since /\ since <= total /\ held \subseteq 0 .. since
    /\ len = 0 \/ since + len <= total
IsExact(reply, total, len) == reply = total - len .. total - 1
IsSince(reply, since, total) == reply \subseteq since .. total
IsTorn(reply, total, len) == len >= 1 /\ reply = total - len + 1 .. total

LEMMA PollParts ==
    ASSUME NEW from, NEW since, NEW total, NEW len, NEW held, NEW reply,
           Polled(from, since, total, len, held), IsSince(reply, since, total)
    PROVE  /\ Cardinality((from .. since - 1) \ held) \in Nat
           /\ Cardinality((since .. total - 1) \ (held \cup reply)) \in Nat
           /\ Cardinality((from .. total - 1) \ (held \cup reply)) =
                Cardinality((from .. since - 1) \ held) + Cardinality((since .. total - 1) \ (held \cup reply))
<1>0. /\ from \in Nat /\ since \in Nat /\ total \in Nat
      /\ from <= since /\ since <= total /\ held \subseteq 0 .. since
  BY DEF Polled
<1> PICK L0, S, L1 :
        /\ L0 = (from .. since - 1) \ held /\ S = (since .. total - 1) \ (held \cup reply)
        /\ L1 = (from .. total - 1) \ (held \cup reply)
  OBVIOUS
<1>1. L1 = L0 \cup S /\ L0 \cap S = {}
  BY <1>0 DEF IsSince
<1>2. IsFiniteSet(L0) /\ IsFiniteSet(S) /\ Cardinality(L0) \in Nat /\ Cardinality(S) \in Nat
  <2>1. /\ L0 \subseteq from .. since - 1 /\ S \subseteq since .. total - 1
        /\ from \in Int /\ since \in Int /\ since - 1 \in Int /\ total - 1 \in Int
    BY <1>0
  <2> QED BY <2>1, PartFinite
<1>3. Cardinality(L0 \cup S) = Cardinality(L0) + Cardinality(S)
  BY <1>1, <1>2, PartsAdd
<1> QED BY <1>1, <1>2, <1>3

LEMMA LeftOutExact ==
    ASSUME NEW from, NEW since, NEW total, NEW len, NEW held, NEW reply,
           Polled(from, since, total, len, held), IsExact(reply, total, len)
    PROVE  Cardinality((since .. total - 1) \ (held \cup reply)) =
           IF since < total - len /\ since \in held THEN total - len - since - 1 ELSE total - len - since
<1>1. /\ since \in Nat /\ total \in Nat /\ len \in Nat /\ since <= total /\ held \subseteq 0 .. since
      /\ len = 0 \/ since + len <= total
  BY DEF Polled
<1> PICK S : S = (since .. total - 1) \ (held \cup reply)
  OBVIOUS
<1> PICK b \in Int : b = total - len - 1
  BY <1>1
<1>2. S = (since .. b) \ held
  BY <1>1 DEF IsExact
<1>3. Cardinality((since .. b) \ held) =
        IF since > b THEN 0 ELSE IF since \in held THEN b - since ELSE b - since + 1
  BY <1>1, LessCursor, Zenon
<1>4. Cardinality(S) =
        IF since > b THEN 0 ELSE IF since \in held THEN b - since ELSE b - since + 1
  BY <1>2, <1>3
<1> QED BY <1>1, <1>4

LEMMA LeftOutTorn ==
    ASSUME NEW from, NEW since, NEW total, NEW len, NEW held, NEW reply,
           Polled(from, since, total, len, held), IsTorn(reply, total, len)
    PROVE  Cardinality((since .. total - 1) \ (held \cup reply)) =
           IF since \in held THEN total - len - since ELSE total - len - since + 1
<1>1. /\ since \in Nat /\ total \in Nat /\ len \in Nat /\ since <= total /\ held \subseteq 0 .. since
      /\ since + len <= total /\ len >= 1
  BY DEF Polled, IsTorn
<1> PICK S : S = (since .. total - 1) \ (held \cup reply)
  OBVIOUS
<1> PICK b \in Int : b = total - len
  BY <1>1
<1>2. S = (since .. b) \ held /\ ~(since > b)
  BY <1>1 DEF IsTorn
<1>3. Cardinality((since .. b) \ held) =
        IF since > b THEN 0 ELSE IF since \in held THEN b - since ELSE b - since + 1
  BY <1>1, LessCursor, Zenon
<1>4. Cardinality(S) =
        IF since > b THEN 0 ELSE IF since \in held THEN b - since ELSE b - since + 1
  BY <1>2, <1>3
<1> QED BY <1>1, <1>2, <1>4

(***************************************************************************)
(* A poll.  The page's first one answers for what it shows; a later one    *)
(* adds the frames since its cursor to both sides of the account.          *)
(***************************************************************************)
LEMMA PollTyped ==
    ASSUME LogInv, PollFrames
    PROVE  /\ LogTyped' /\ LastAdded' /\ boot'.polled
           /\ page'.since = log.total /\ page'.missed = page.missed + Skipped(page.since)
           /\ Skipped(page.since) \in Nat
           /\ account'.got = account.got \cup Reply(page.since)
           /\ account'.from =
                IF page.since = 0 THEN Oldest
                ELSE IF boot.polled \/ page.since < log.total THEN account.from ELSE log.total
           /\ account'.before = IF page.since = 0 THEN page.missed ELSE account.before
           /\ account'.caught = IF adding = "idle" THEN account.caught ELSE account.caught + 1
<1> PICK since : since = page.since
  OBVIOUS
<1> PICK len : len = ReplyLength(since)
  OBVIOUS
<1>1. since \in Nat /\ log.total \in Nat /\ page.missed \in Nat /\ account.from \in Nat
      /\ account.got \subseteq Nat /\ account.before \in Nat /\ account.caught \in Nat
  BY DEF LogInv, LogTyped
<1>2. len \in Nat
  BY <1>1, ReplyLengthIs DEF LogInv, LogTyped
<1>3. Skipped(since) \in Nat
  BY <1>1, <1>2 DEF Skipped
<1>4. Oldest \in Nat
  <2>1. ReplyLength(0) \in Nat
    BY ReplyLengthIs DEF LogInv, LogTyped
  <2> QED BY <1>1, <2>1 DEF Oldest
<1>5. Reply(since) \subseteq Nat
  <2>1. PICK n \in Nat : n = log.total
    BY <1>1
  <2>2. \/ len <= n /\ Reply(since) = n - len .. n - 1
        \/ len <= n + 1 /\ Reply(since) = n - len + 1 .. n
    BY <1>1, <2>1, ReplyIs
  <2>3. CASE len <= n /\ Reply(since) = n - len .. n - 1
    BY <1>2, <2>1, <2>3
  <2>4. CASE len <= n + 1 /\ Reply(since) = n - len + 1 .. n
    BY <1>2, <2>1, <2>4
  <2> QED BY <2>2, <2>3, <2>4
<1> PICK from, held, before, caught :
        /\ from = IF since = 0 THEN Oldest
                  ELSE IF boot.polled \/ since < log.total THEN account.from ELSE log.total
        /\ held = account.got \cup Reply(since)
        /\ before = IF since = 0 THEN page.missed ELSE account.before
        /\ caught = IF adding = "idle" THEN account.caught ELSE account.caught + 1
  OBVIOUS
<1>6. from \in Nat /\ held \in SUBSET Nat /\ before \in Nat /\ caught \in Nat
  BY <1>1, <1>4, <1>5
<1>7. /\ page' = [since |-> log.total, missed |-> page.missed + Skipped(since)]
      /\ boot' = [boot EXCEPT !.polled = TRUE]
      /\ account' = [from |-> from, got |-> held, before |-> before, caught |-> caught]
      /\ UNCHANGED <<log, adding>>
  BY DEF PollFrames
<1>8. boot' \in [number : Nat, polled : BOOLEAN] /\ boot'.polled
  BY <1>7 DEF LogInv, LogTyped
<1>9. LogTyped'
  BY <1>1, <1>3, <1>6, <1>7, <1>8 DEF LogInv, LogTyped
<1>10. LastAdded'
  BY <1>7 DEF LogInv, LastAdded, Added, At
<1> QED BY <1>3, <1>7, <1>8, <1>9, <1>10

LEMMA FirstPollBalances == ASSUME LogInv, PollFrames, page.since = 0 PROVE Balanced'
<1> PICK total, len : total = log.total /\ len = ReplyLength(0)
  OBVIOUS
<1> PICK held, reply, caught, from, S, caught1 :
        /\ held = account.got /\ reply = Reply(0) /\ caught = account.caught
        /\ from = account'.from /\ S = Lost' /\ caught1 = account'.caught
  OBVIOUS
<1>1. total \in Nat /\ len \in Nat /\ caught \in Nat
  BY ReplyLengthIs DEF LogInv, LogTyped
<1>2. /\ page'.since = total /\ account'.got = held \cup reply /\ log' = log
      /\ page'.missed = page.missed /\ account'.before = page.missed /\ page.missed \in Nat
      /\ from = IF total > len THEN total - len ELSE 0
      /\ caught1 = IF adding = "idle" THEN caught ELSE caught + 1
      /\ S = (from .. total - 1) \ (held \cup reply)
  BY PollTyped DEF Oldest, Skipped, PollFrames, Lost, LogInv, LogTyped
<1>3. \/ len <= total /\ reply = total - len .. total - 1
      \/ adding # "idle" /\ len >= 1 /\ len <= total + 1 /\ reply = total - len + 1 .. total
  BY ReplyIs
<1>4. held \subseteq {0} /\ (0 \in held => caught >= 1)
  <2>1. CASE boot.polled
    <3>1. /\ held \subseteq 0 .. 0 /\ account.before <= page.missed
          /\ 0 \in held => page.missed - account.before < Cardinality(Lost) + caught
      BY <2>1 DEF LogInv, Balanced
    <3>2. Lost = {}
      <4>1. Lost = (account.from .. 0 - 1) \ held /\ account.from \in Nat
        BY DEF Lost, LogInv, LogTyped
      <4> QED BY <4>1
    <3>3. Cardinality(Lost) = 0
      BY <3>2, FS_EmptySet
    <3>4. page.missed \in Nat /\ account.before \in Nat
      BY DEF LogInv, LogTyped
    <3> QED BY <1>1, <3>1, <3>3, <3>4
  <2>2. CASE ~boot.polled
    BY <2>2 DEF LogInv, Unpolled
  <2> QED BY <2>1, <2>2
<1>5. /\ Cardinality(S) \in Nat /\ Cardinality(S) <= caught1
      /\ total \in held \cup reply => caught1 >= 1
  <2>1. CASE len <= total /\ reply = total - len .. total - 1
    <3>1. S = {}
      BY <1>1, <1>2, <2>1
    <3>2. Cardinality(S) = 0
      BY <3>1, FS_EmptySet
    <3>3. total \in held \cup reply => 0 \in held
      BY <1>1, <1>4, <2>1
    <3> QED BY <1>1, <1>2, <1>4, <3>2, <3>3
  <2>2. CASE adding # "idle" /\ len >= 1 /\ len <= total + 1 /\ reply = total - len + 1 .. total
    <3> PICK I : I = from .. from
      OBVIOUS
    <3>1. S \subseteq I
      BY <1>1, <1>2, <2>2
    <3>2. from \in Int
      BY <1>1, <1>2
    <3>3. IsFiniteSet(I) /\ Cardinality(I) = 1
      <4>1. IsFiniteSet(I) /\ Cardinality(I) = IF from > from THEN 0 ELSE from - from + 1
        BY <3>2, FS_Interval
      <4> QED BY <3>2, <4>1
    <3>4. Cardinality(S) \in Nat /\ Cardinality(S) <= 1
      <4>1. IsFiniteSet(S) /\ Cardinality(S) <= Cardinality(I)
        BY <3>1, <3>3, FS_Subset
      <4> QED BY <3>3, <4>1, FS_CardinalityType
    <3> QED BY <1>1, <1>2, <2>2, <3>4
  <2> QED BY <1>3, <2>1, <2>2
<1>6. from <= total /\ held \cup reply \subseteq 0 .. total
  BY <1>1, <1>2, <1>3, <1>4
<1> QED
  <2>1. page'.missed - account'.before = 0
    BY <1>2
  <2> QED BY <1>1, <1>2, <1>5, <1>6, <2>1 DEF Balanced

LEMMA LaterPollBalances ==
    ASSUME LogInv, PollFrames, page.since # 0, boot.polled \/ page.since < log.total PROVE Balanced'
<1> DEFINE len == ReplyLength(page.since)
           reply == Reply(page.since)
           old == Cardinality((account.from .. page.since - 1) \ account.got)
           new == Cardinality((page.since .. log.total - 1) \ (account.got \cup reply))
           all == Cardinality((account.from .. log.total - 1) \ (account.got \cup reply))
           counted == page.missed - account.before
           caught1 == account'.caught
<1>1. /\ log.total \in Nat /\ page.since \in Nat /\ page.missed \in Nat /\ account.from \in Nat
      /\ account.before \in Nat /\ account.caught \in Nat /\ log.count \in Nat
  BY DEF LogInv, LogTyped
<1>2. /\ len \in Nat /\ (len = 0 \/ page.since + len <= log.total)
  BY <1>1, ReplyLengthIs
<1>3. /\ page'.since = log.total /\ account'.got = account.got \cup reply /\ log' = log
      /\ page'.missed = page.missed + Skipped(page.since) /\ account'.before = account.before
      /\ caught1 = IF adding = "idle" THEN account.caught ELSE account.caught + 1
      /\ account'.from = account.from
  BY PollTyped DEF PollFrames
<1>4. caught1 \in Nat /\ account.caught <= caught1
  BY <1>1, <1>3
<1>5. \/ len <= log.total /\ reply = log.total - len .. log.total - 1
      \/ /\ adding # "idle" /\ len >= 1 /\ len <= log.total + 1
         /\ reply = log.total - len + 1 .. log.total
  BY <1>1, ReplyIs
<1>6. /\ account.from <= page.since /\ page.since <= log.total /\ account.got \subseteq 0 .. page.since
      /\ account.before <= page.missed
      /\ old <= counted + account.caught /\ counted <= old + account.caught
      /\ page.since \in account.got => counted < old + account.caught
  <2>1. CASE boot.polled
    BY <2>1 DEF LogInv, Balanced, Lost
  <2>2. CASE ~boot.polled
    <3>1. /\ account.from = page.since /\ account.got = {}
          /\ account.before = page.missed /\ account.caught = 0
      BY <2>2 DEF LogInv, Unpolled
    <3>2. (account.from .. page.since - 1) \ account.got = {}
      BY <1>1, <3>1
    <3>3. old = 0
      BY <3>2, FS_EmptySet
    <3> QED BY <1>1, <2>2, <3>1, <3>3
  <2> QED BY <2>1, <2>2
<1>7. counted \in Nat /\ Polled(account.from, page.since, log.total, len, account.got)
  BY <1>1, <1>2, <1>6 DEF Polled
<1>8. reply \subseteq page.since .. log.total
  <2> HIDE DEF len, reply
  <2>1. PICK n \in Nat, f \in Nat : n = log.total /\ f = page.since /\ f <= n
    BY <1>1, <1>6
  <2>2. \/ reply = n - len .. n - 1
        \/ len >= 1 /\ reply = n - len + 1 .. n
    BY <1>5, <2>1
  <2>3. len \in Nat /\ (len = 0 \/ f + len <= n)
    BY <1>2, <2>1
  <2>4. CASE reply = n - len .. n - 1
    BY <2>1, <2>3, <2>4
  <2>5. CASE len >= 1 /\ reply = n - len + 1 .. n
    BY <2>1, <2>3, <2>5
  <2> QED BY <2>2, <2>4, <2>5
<1>9. old \in Nat /\ new \in Nat /\ all = old + new
  <2>1. IsSince(reply, page.since, log.total)
    BY <1>8 DEF IsSince
  <2> HIDE DEF reply, len
  <2>2. Polled(account.from, page.since, log.total, len, account.got)
    BY <1>7
  <2>3. Cardinality((account.from .. page.since - 1) \ account.got) \in Nat
    BY <2>1, <2>2, PollParts
  <2>4. Cardinality((page.since .. log.total - 1) \ (account.got \cup reply)) \in Nat
    BY <2>1, <2>2, PollParts
  <2>5. Cardinality((account.from .. log.total - 1) \ (account.got \cup reply)) =
            Cardinality((account.from .. page.since - 1) \ account.got) +
            Cardinality((page.since .. log.total - 1) \ (account.got \cup reply))
    BY <2>1, <2>2, PollParts
  <2> QED BY <2>3, <2>4, <2>5, Zenon
<1>10. /\ IsExact(reply, log.total, len) =>
            new = IF page.since < log.total - len /\ page.since \in account.got
                  THEN log.total - len - page.since - 1 ELSE log.total - len - page.since
       /\ IsTorn(reply, log.total, len) =>
            new = IF page.since \in account.got
                  THEN log.total - len - page.since ELSE log.total - len - page.since + 1
  <2> HIDE DEF reply, len
  <2> QED BY <1>7, LeftOutExact, LeftOutTorn
<1>11. /\ account.got \cup reply \subseteq 0 .. log.total
       /\ log.total \in account.got => page.since = log.total
  BY <1>1, <1>6, <1>8
<1>12. /\ old + new <= counted + (log.total - page.since - len) + caught1
       /\ counted + (log.total - page.since - len) <= old + new + caught1
       /\ log.total \in account.got \cup reply =>
            counted + (log.total - page.since - len) < old + new + caught1
       /\ log.total - page.since - len \in Nat
  <2> HIDE DEF reply, len, old, new, counted, caught1
  <2>1. CASE reply = log.total - len .. log.total - 1
    <3>1. log.total \in account.got \cup reply => page.since \in account.got /\ page.since = log.total
      BY <1>1, <1>11, <2>1
    <3>2. new = IF page.since < log.total - len /\ page.since \in account.got
                THEN log.total - len - page.since - 1 ELSE log.total - len - page.since
      BY <1>10, <2>1 DEF IsExact
    <3> QED BY <1>1, <1>2, <1>4, <1>6, <1>7, <1>9, <3>1, <3>2
  <2>2. CASE adding # "idle" /\ len >= 1 /\ reply = log.total - len + 1 .. log.total
    <3>1. caught1 = account.caught + 1 /\ page.since + len <= log.total
      BY <1>1, <1>2, <1>3, <2>2
    <3>2. new = IF page.since \in account.got
                THEN log.total - len - page.since ELSE log.total - len - page.since + 1
      BY <1>10, <2>2 DEF IsTorn
    <3> QED BY <1>1, <1>2, <1>4, <1>6, <1>7, <1>9, <3>1, <3>2
  <2> QED BY <1>5, <2>1, <2>2
<1>13. page'.missed = page.missed + (log.total - page.since - len)
  <2>1. Skipped(page.since) =
          IF log.total > page.since + len THEN log.total - page.since - len ELSE 0
    BY DEF Skipped
  <2> HIDE DEF len
  <2> QED BY <1>1, <1>2, <1>3, <1>6, <1>12, <2>1
<1>14. Cardinality(Lost') = all
  BY <1>3 DEF Lost
<1>15. /\ page'.missed - account'.before = counted + (log.total - page.since - len)
       /\ account'.before <= page'.missed
  <2> HIDE DEF len
  <2> QED BY <1>1, <1>3, <1>6, <1>12, <1>13
<1> HIDE DEF len, reply, old, new, all, counted, caught1
<1> QED BY <1>1, <1>3, <1>6, <1>9, <1>11, <1>12, <1>14, <1>15 DEF Balanced, caught1

(***************************************************************************)
(* The first poll after a restart, when the page's cursor is past what the *)
(* node has logged: it starts over, with nothing shown and nothing missed. *)
(***************************************************************************)
LEMMA StartOverBalances ==
    ASSUME LogInv, PollFrames, page.since # 0, ~boot.polled, ~(page.since < log.total) PROVE Balanced'
<1> DEFINE len == ReplyLength(page.since)
<1>1. /\ log.total \in Nat /\ page.since \in Nat /\ page.missed \in Nat /\ account.caught \in Nat
  BY DEF LogInv, LogTyped
<1>2. len = 0 /\ page.since >= log.total
  BY <1>1, ReplyLengthIs
<1>3. Reply(page.since) = {}
  <2> HIDE DEF len
  <2>1. \/ Reply(page.since) = log.total - len .. log.total - 1
        \/ len >= 1
    BY <1>1, ReplyIs DEF len
  <2> QED BY <1>1, <1>2, <2>1
<1>4. Skipped(page.since) = 0
  <2>1. Skipped(page.since) =
          IF log.total > page.since + len THEN log.total - page.since - len ELSE 0
    BY DEF Skipped
  <2> HIDE DEF len
  <2> QED BY <1>1, <1>2, <2>1
<1>5. account.got = {} /\ account.before = page.missed /\ account.caught = 0
  BY DEF LogInv, Unpolled
<1>6. /\ page'.since = log.total /\ log' = log /\ page'.missed = page.missed + 0
      /\ account'.got = {} /\ account'.before = page.missed
      /\ account'.caught = IF adding = "idle" THEN account.caught ELSE account.caught + 1
  BY <1>3, <1>4, <1>5, PollTyped DEF PollFrames
<1>7. account'.from = log.total
  BY PollTyped, Zenon
<1>8. Cardinality(Lost') = 0
  <2>1. Lost' = {}
    BY <1>1, <1>6, <1>7 DEF Lost
  <2> QED BY <2>1, FS_EmptySet
<1>9. page'.missed - account'.before = 0 /\ account'.caught \in Nat /\ page'.missed = page.missed
  BY <1>1, <1>6
<1> QED BY <1>1, <1>6, <1>7, <1>8, <1>9 DEF Balanced

LEMMA PollKeeps == ASSUME LogInv, PollFrames PROVE LogInv'
<1>1. Balanced'
  BY FirstPollBalances, LaterPollBalances, StartOverBalances
<1> QED BY <1>1, PollTyped DEF LogInv

LEMMA RebootKeeps == ASSUME LogInv, Reboot PROVE LogInv'
<1>1. /\ log' = EmptyLog /\ adding' = "idle" /\ page' = page
      /\ boot' = [number |-> boot.number + 1, polled |-> FALSE]
      /\ account' = [from |-> page.since, got |-> {}, before |-> page.missed, caught |-> 0]
  BY DEF Reboot
<1>2. LogTyped'
  BY <1>1, LogBounds DEF LogInv, LogTyped, EmptyLog
<1>3. LastAdded'
  BY <1>1, LogBounds DEF LastAdded, Added, EmptyLog
<1>4. ~boot'.polled /\ Unpolled'
  BY <1>1 DEF Unpolled
<1> QED BY <1>2, <1>3, <1>4 DEF LogInv

LEMMA AddKeeps == ASSUME LogInv, AddStore \/ AddIndex \/ AddTotal PROVE LogInv'
<1>1. LogTyped' /\ LastAdded'
  BY AddStoreKeeps, AddIndexKeeps, AddTotalKeeps
<1>2. /\ UNCHANGED <<page, boot, account>>
      /\ log'.total >= log.total
  <2>1. log.total \in Nat
    BY DEF LogInv, LogTyped
  <2>2. UNCHANGED <<page, boot, account>> /\ (log'.total = log.total \/ log'.total = log.total + 1)
    BY DEF AddStore, AddIndex, AddTotal, LogInv, LogTyped
  <2> QED BY <2>1, <2>2
<1>3. Balanced => Balanced'
  <2>1. Lost' = Lost
    BY <1>2 DEF Lost
  <2>2. log.total \in Nat /\ log'.total \in Nat /\ page.since \in Nat
    BY <1>1 DEF LogInv, LogTyped
  <2> QED BY <1>2, <2>1, <2>2 DEF Balanced
<1>4. Unpolled => Unpolled'
  BY <1>2 DEF Unpolled
<1> QED BY <1>1, <1>2, <1>3, <1>4 DEF LogInv
-----------------------------------------------------------------------------
LEMMA InitLogInv == LogInit => LogInv
<1> SUFFICES ASSUME LogInit PROVE LogInv
  OBVIOUS
<1>1. LogTyped
  BY LogBounds DEF LogInit, LogTyped, EmptyLog
<1>2. LastAdded
  BY LogBounds DEF LogInit, LastAdded, Added, EmptyLog
<1>3. Cardinality(Lost) = 0
  <2>1. Lost = {}
    BY DEF LogInit, Lost
  <2> QED BY <2>1, FS_EmptySet
<1>4. Balanced
  BY <1>3 DEF LogInit, Balanced, EmptyLog
<1> QED BY <1>1, <1>2, <1>4 DEF LogInit, LogInv

LEMMA NextLogInv == LogInv /\ [LogStep]_logVars => LogInv'
<1> SUFFICES ASSUME LogInv, [LogStep]_logVars PROVE LogInv'
  OBVIOUS
<1>1. CASE AddStore \/ AddIndex \/ AddTotal
  BY <1>1, AddKeeps
<1>2. CASE PollFrames
  BY <1>2, PollKeeps
<1>3. CASE Reboot
  BY <1>3, RebootKeeps
<1>4. CASE UNCHANGED logVars
  BY <1>4 DEF logVars, LogInv, LogTyped, LastAdded, Added, At, Balanced, Lost, Unpolled
<1> QED BY <1>1, <1>2, <1>3, <1>4 DEF LogStep

(***************************************************************************)
(* Of the frames logged since the page's first poll of this boot each is   *)
(* shown or counted as missed, and not both, but for one per poll that     *)
(* caught the loop in an add: for any log, reply and number of polls.      *)
(***************************************************************************)
THEOREM FramesAreAccounted == LogSpec => []FramesAccounted
<1>1. LogInv => FramesAccounted
  BY DEF LogInv, Balanced, Lost, FramesAccounted
<1> QED BY <1>1, InitLogInv, NextLogInv, PTL DEF LogSpec
=============================================================================
