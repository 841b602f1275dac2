---------------------------- MODULE Transmitter ----------------------------
(***************************************************************************)
(* What the LoRa driver promises whoever calls transmit(): one frame on    *)
(* the air at a time and one waiting behind it.  A frame offered while     *)
(* both places are taken is refused and counted; the others go out in the  *)
(* order they were offered.  RadioLoRa is shown to implement this.         *)
(***************************************************************************)
EXTENDS Naturals, Sequences

CONSTANTS Frame,   \* what transmit() is given
          DropMod  \* tx_dropped_ is an unsigned integer modulo this

VARIABLES queue,   \* the frame on the air, then the one held back
          dropped  \* frames refused

transmitterVars == <<queue, dropped>>

Init ==
    /\ queue = <<>>
    /\ dropped = 0

Offer(frame) ==
    /\ Len(queue) < 2
    /\ queue' = Append(queue, frame)
    /\ UNCHANGED dropped

Refuse ==
    /\ Len(queue) = 2
    /\ dropped' = (dropped + 1) % DropMod
    /\ UNCHANGED queue

Finish ==
    /\ queue # <<>>
    /\ queue' = Tail(queue)
    /\ UNCHANGED dropped

Next ==
    \/ \E frame \in Frame : Offer(frame)
    \/ Refuse
    \/ Finish

Spec == Init /\ [][Next]_transmitterVars
=============================================================================
