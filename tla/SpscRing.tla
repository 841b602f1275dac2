------------------------------ MODULE SpscRing ------------------------------
(***************************************************************************)
(* ff::SpscRing (lib/ff_core/ring_buffer.h): the lock-free ring that hands *)
(* received frames from the WiFi task's callback to the main loop.         *)
(*                                                                         *)
(* push and pop are broken into the steps other threads can fall between:  *)
(* the load of the other side's index, the copy of the frame, and the      *)
(* store that publishes.  The release store of an index and the acquire    *)
(* load that reads it order the copy with them, so the steps of one side   *)
(* are seen by the other in program order and the interleaving of steps is *)
(* the memory model the code needs.                                        *)
(***************************************************************************)
EXTENDS Naturals, Sequences

CONSTANTS Capacity,  \* slots in the buffer; one of them is never used
          Item,      \* frames
          NoItem,    \* the content of a slot never written
          DropMod    \* modulus of the uint32_t drop counter

ASSUME CapacityAssumption == Capacity \in Nat /\ Capacity >= 2
ASSUME DropModAssumption == DropMod \in Nat \ {0}
ASSUME ItemAssumption == NoItem \notin Item

VARIABLES buf,      \* buf_: the frame slots
          head,     \* head_: next slot to write, stored by the producer only
          tail,     \* tail_: next slot to read, stored by the consumer only
          dropped,  \* dropped_: pushes refused
          prod,     \* the producer: where it is in push, and the item it pushes
          cons,     \* the consumer: where it is in pop, and the item it copied
          got       \* the frame the last completed pop returned

vars == <<buf, head, tail, dropped, prod, cons, got>>

Slot == 0 .. Capacity - 1

(***************************************************************************)
(* next(i) is (i + 1) % Capacity; the sum never exceeds Capacity.          *)
(***************************************************************************)
NextSlot(i) == IF i + 1 = Capacity THEN 0 ELSE i + 1

Init ==
    /\ buf = [s \in Slot |-> NoItem]
    /\ head = 0
    /\ tail = 0
    /\ dropped = 0
    /\ prod = [pc |-> "idle", item |-> NoItem]
    /\ cons = [pc |-> "idle", item |-> NoItem]
    /\ got = NoItem
-----------------------------------------------------------------------------
(***************************************************************************)
(* The producer.  Its own index needs no synchronisation, so push starts   *)
(* with the load of tail.                                                  *)
(***************************************************************************)
Push(item) ==
    /\ prod.pc = "idle"
    /\ prod' = [pc |-> "check", item |-> item]
    /\ UNCHANGED <<buf, head, tail, dropped, cons, got>>

PushFull ==
    /\ prod.pc = "check"
    /\ NextSlot(head) = tail
    /\ dropped' = (dropped + 1) % DropMod
    /\ prod' = [pc |-> "idle", item |-> NoItem]
    /\ UNCHANGED <<buf, head, tail, cons, got>>

\* Mutant: push does not look at tail.
PushRoomUnchecked ==
    /\ prod.pc = "check"
    /\ prod' = [prod EXCEPT !.pc = "write"]
    /\ UNCHANGED <<buf, head, tail, dropped, cons, got>>

PushRoom ==
    /\ prod.pc = "check"
    /\ NextSlot(head) # tail
    /\ prod' = [prod EXCEPT !.pc = "write"]
    /\ UNCHANGED <<buf, head, tail, dropped, cons, got>>

PushWrite ==
    /\ prod.pc = "write"
    /\ buf' = [buf EXCEPT ![head] = prod.item]
    /\ prod' = [prod EXCEPT !.pc = "publish"]
    /\ UNCHANGED <<head, tail, dropped, cons, got>>

PushPublish ==
    /\ prod.pc = "publish"
    /\ head' = NextSlot(head)
    /\ prod' = [pc |-> "idle", item |-> NoItem]
    /\ UNCHANGED <<buf, tail, dropped, cons, got>>
-----------------------------------------------------------------------------
(***************************************************************************)
(* The consumer: the main loop, which pops until pop returns false.        *)
(***************************************************************************)
PopEmpty ==
    /\ cons.pc = "idle"
    /\ tail = head
    /\ UNCHANGED vars

\* Mutant: pop takes a wrapped ring for an empty one.
PopFoundUnwrapped ==
    /\ cons.pc = "idle"
    /\ tail < head
    /\ cons' = [cons EXCEPT !.pc = "read"]
    /\ UNCHANGED <<buf, head, tail, dropped, prod, got>>

PopFound ==
    /\ cons.pc = "idle"
    /\ tail # head
    /\ cons' = [cons EXCEPT !.pc = "read"]
    /\ UNCHANGED <<buf, head, tail, dropped, prod, got>>

\* Mutant: pop copies from the wrong index.
PopReadNewest ==
    /\ cons.pc = "read"
    /\ cons' = [pc |-> "release", item |-> buf[head]]
    /\ UNCHANGED <<buf, head, tail, dropped, prod, got>>

PopRead ==
    /\ cons.pc = "read"
    /\ cons' = [pc |-> "release", item |-> buf[tail]]
    /\ UNCHANGED <<buf, head, tail, dropped, prod, got>>

PopRelease ==
    /\ cons.pc = "release"
    /\ tail' = NextSlot(tail)
    /\ got' = cons.item
    /\ cons' = [pc |-> "idle", item |-> NoItem]
    /\ UNCHANGED <<buf, head, dropped, prod>>

Producer ==
    \/ \E item \in Item : Push(item)
    \/ PushFull \/ PushRoom \/ PushWrite \/ PushPublish

Consumer == PopEmpty \/ PopFound \/ PopRead \/ PopRelease

Next == Producer \/ Consumer

Spec == Init /\ [][Next]_vars

(***************************************************************************)
(* The loop keeps calling service() as long as the firmware runs, so the   *)
(* consumer's steps are weakly fair; nothing is assumed of the producer.   *)
(***************************************************************************)
FairSpec == Spec /\ WF_vars(PopFound \/ PopRead \/ PopRelease)
-----------------------------------------------------------------------------
TypeOK ==
    /\ buf \in [Slot -> Item \cup {NoItem}]
    /\ head \in Slot
    /\ tail \in Slot
    /\ dropped \in 0 .. DropMod - 1
    /\ prod \in [pc : {"idle", "check", "write", "publish"}, item : Item \cup {NoItem}]
    /\ cons \in [pc : {"idle", "read", "release"}, item : Item \cup {NoItem}]
    /\ got \in Item \cup {NoItem}

(***************************************************************************)
(* How far head is ahead of tail, and the slot holding the i-th oldest     *)
(* unread frame: size()'s (head + Capacity - tail) % Capacity.             *)
(***************************************************************************)
Used == IF tail <= head THEN head - tail ELSE head + Capacity - tail
SlotOf(i) == IF tail + i < Capacity THEN tail + i ELSE tail + i - Capacity

(***************************************************************************)
(* The frames published and not yet released, oldest first.                *)
(***************************************************************************)
Unread == [i \in 1 .. Used |-> buf[SlotOf(i - 1)]]

(***************************************************************************)
(* The producer never copies into the slot the consumer is copying out of: *)
(* with no lock, a frame torn by that overlap would be decrypted and       *)
(* rejected at best.  No unit test runs push and pop at the same time.     *)
(***************************************************************************)
NoDataRace == ~(prod.pc = "write" /\ cons.pc = "read" /\ head = tail)

Fifo == INSTANCE BoundedFifo WITH queue <- Unread, Usable <- Capacity - 1

(***************************************************************************)
(* The ring is a bounded first-in first-out queue: every frame accepted is *)
(* delivered once, whole and in order, and a push is refused only at a     *)
(* moment when Capacity - 1 frames are waiting.                            *)
(***************************************************************************)
ImplementsFifo == Fifo!Spec

(***************************************************************************)
(* The oldest waiting frame is delivered even while frames keep arriving,  *)
(* across the wrap of the index: tail stops at a slot for good only if the *)
(* ring is empty from then on.                                             *)
(***************************************************************************)
OldestFrameDelivered ==
    \A s \in Slot : <>[](tail = s) => <>[](head = s)
=============================================================================
