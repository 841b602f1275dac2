------------------------------- MODULE MCNode -------------------------------
(***************************************************************************)
(* Frames and air times for the instances of Node.                         *)
(***************************************************************************)
EXTENDS Node

FrameOf(uid, kind, form, c) == [uid |-> uid, kind |-> kind, form |-> form, counter |-> c]

(***************************************************************************)
(* A listen-only node, in the clear, that hears a peer and its own echo;   *)
(* two nodes that only send, one with a radio that is switched on and off  *)
(* and one that is encrypted; and an encrypted listen-only node that hears *)
(* frames of every form.                                                   *)
(***************************************************************************)
Hearing ==
    [listenOnly |-> TRUE, encrypted |-> FALSE, radar |-> TRUE, switchable |-> {},
     hearing |-> {0},
     frames |-> {FrameOf("a", "position", "ok", 0), FrameOf("self", "position", "ok", 0)}]
Switching ==
    [listenOnly |-> FALSE, encrypted |-> FALSE, radar |-> FALSE, switchable |-> {0},
     hearing |-> {}, frames |-> {}]
Sealing == [Switching EXCEPT !.encrypted = TRUE, !.switchable = {}]
Sorting ==
    [listenOnly |-> TRUE, encrypted |-> TRUE, radar |-> FALSE, switchable |-> {},
     hearing |-> {1},
     frames |-> {FrameOf("a", "announce", form, 0) :
                    form \in {"ok", "badlength", "badtag", "badheader", "badbody"}}]

Setups == {Hearing, Switching, Sealing, Sorting}
JustHearing == {Hearing}

Instant == [r \in Radio |-> 1]
=============================================================================
