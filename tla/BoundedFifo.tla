---------------------------- MODULE BoundedFifo ----------------------------
(***************************************************************************)
(* What a receive ring promises the two ends that share it: a first-in     *)
(* first-out queue of bounded length.  A put that finds the queue full is  *)
(* refused and counted, never blocked and never allowed to overwrite.      *)
(* SpscRing is shown to implement this specification.                      *)
(***************************************************************************)
EXTENDS Naturals, Sequences

CONSTANTS Item,      \* the frames that can be queued
          NoItem,    \* what the consumer holds before its first frame
          Usable,    \* how many items fit
          DropMod    \* the drop counter is an unsigned integer modulo this

VARIABLES queue, got, dropped

fifoVars == <<queue, got, dropped>>

Init ==
    /\ queue = <<>>
    /\ got = NoItem
    /\ dropped = 0

Put(item) ==
    /\ Len(queue) < Usable
    /\ queue' = Append(queue, item)
    /\ UNCHANGED <<got, dropped>>

Refuse ==
    /\ Len(queue) = Usable
    /\ dropped' = (dropped + 1) % DropMod
    /\ UNCHANGED <<queue, got>>

Take ==
    /\ queue # <<>>
    /\ got' = Head(queue)
    /\ queue' = Tail(queue)
    /\ UNCHANGED dropped

Next ==
    \/ \E item \in Item : Put(item)
    \/ Refuse
    \/ Take

Spec == Init /\ [][Next]_fifoVars
=============================================================================
