---------------------------- MODULE MCPeerTable ----------------------------
(***************************************************************************)
(* PeerTable with two slots for three peers, so that the table fills and   *)
(* evicts, and two radios.  Peers are interchangeable, and so are radios.  *)
(***************************************************************************)
EXTENDS PeerTable, TLC

Symmetry == Permutations(Uid) \cup Permutations(Radio)
=============================================================================
