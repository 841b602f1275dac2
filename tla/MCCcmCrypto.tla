---------------------------- MODULE MCCcmCrypto ----------------------------
(***************************************************************************)
(* Frames for the instances of CcmCrypto.                                  *)
(***************************************************************************)
EXTENDS CcmCrypto

FramesOf(u, counters) == {[uid |-> u, counter |-> c] : c \in counters}

(***************************************************************************)
(* One sender, heard with every counter.                                   *)
(***************************************************************************)
OneSender == FramesOf("a", Counter)

(***************************************************************************)
(* One sender with every counter, and two more that compete with it for    *)
(* the replay slots.                                                       *)
(***************************************************************************)
ThreeSenders == FramesOf("a", Counter) \cup FramesOf("b", {0}) \cup FramesOf("c", {0})
=============================================================================
