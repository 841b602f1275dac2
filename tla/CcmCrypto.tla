------------------------------ MODULE CcmCrypto ------------------------------
(***************************************************************************)
(* ff::CcmCrypto::decrypt (lib/ff_core/crypto.h, crypto.cpp): accepting    *)
(* the frames of other nodes, each once.  The cipher itself is abstract: a *)
(* frame either carries a tag that verifies, and then is one a sender      *)
(* produced with that counter, or not.  Frames can be lost, repeated and   *)
(* reordered, so any frame may be offered at any time.  decrypt is given   *)
(* the current time, which never runs backwards here.  The counter encrypt *)
(* seals this node's own frames under is in Node.                          *)
(***************************************************************************)
EXTENDS ReplaySlots

CONSTANTS Frame,    \* the frames senders have produced: [uid, counter]
          MaxStep   \* bound: the longest time between two frames

VARIABLES slots,       \* replay_slots_
          lastReject,  \* last_reject_replay_
          now,         \* the time decrypt is given
          since,       \* history: true time since a sender's last accepted frame
          taken        \* history: counters accepted since the sequence (re)started

vars == <<slots, lastReject, now, since, taken>>

ASSUME CcmCryptoAssumption ==
    /\ Frame \subseteq [uid : Sender, counter : Counter]
    /\ MaxStep \in 1 .. TimeMod - 1
    /\ ResyncTime < TimeHalf - 1

(***************************************************************************)
(* Bound: a sender that has been heard is not silent for 2^31 ms, 25 days. *)
(* Slots are never freed, so beyond it the signed comparison of slotFor    *)
(* would take the oldest for the youngest.                                 *)
(***************************************************************************)
MaxSince == TimeHalf - 1

TypeOK ==
    /\ slots \in [ReplayIndex -> ReplaySlot]
    /\ lastReject \in BOOLEAN
    /\ now \in Time
    /\ since \in [Sender -> 0 .. MaxSince]
    /\ taken \in [Sender -> SUBSET Counter]

Init ==
    /\ slots = [i \in ReplayIndex |-> EmptySlot]
    /\ lastReject = FALSE
    /\ now = 0
    /\ since = [u \in Sender |-> MaxSince]
    /\ taken = [u \in Sender |-> {}]

(***************************************************************************)
(* decrypt of a frame too short or whose tag does not verify.              *)
(***************************************************************************)
DecryptBad ==
    /\ lastReject' = FALSE
    /\ UNCHANGED <<slots, now, since, taken>>

DecryptAccept(u, c) ==
    \E i \in ReplayIndex :
        /\ IsReplaySlot(slots, u, i)
        /\ Accepts(slots, u, i, c, now)
        /\ slots' = [slots EXCEPT ![i] = Recorded(slots, u, i, c, now)]
        /\ lastReject' = FALSE
        /\ since' = [since EXCEPT ![u] = 0]
        /\ taken' = [taken EXCEPT ![u] =
                        IF IsReset(slots, u, i, now) THEN {c} ELSE @ \cup {c}]
        /\ UNCHANGED now

DecryptReplay(u, c) ==
    \E i \in ReplayIndex :
        /\ IsReplaySlot(slots, u, i)
        /\ ~Accepts(slots, u, i, c, now)
        /\ lastReject' = TRUE
        /\ UNCHANGED <<slots, now, since, taken>>

(***************************************************************************)
(* Time passes, within the bound.                                          *)
(***************************************************************************)
Tick(d) ==
    /\ \A u \in Sender : Tracked(slots, u) => since[u] + d <= MaxSince
    /\ now' = Later(now, d)
    /\ since' = [u \in Sender |-> IF since[u] + d < MaxSince THEN since[u] + d
                                                             ELSE MaxSince]
    /\ UNCHANGED <<slots, lastReject, taken>>

Next ==
    \/ DecryptBad
    \/ \E f \in Frame : DecryptAccept(f.uid, f.counter) \/ DecryptReplay(f.uid, f.counter)
    \/ \E d \in 1 .. MaxStep : Tick(d)

Spec == Init /\ [][Next]_vars
-----------------------------------------------------------------------------
(***************************************************************************)
(* The sender is being followed: its sequence may not restart.             *)
(***************************************************************************)
Continues(u) == Tracked(slots, u) /\ since[u] <= ResyncTime

High(u) == slots[CHOOSE i \in ReplayIndex : Tracks(slots, i, u)].high

(***************************************************************************)
(* No sender is tracked twice: two slots would each accept the same frame. *)
(***************************************************************************)
UniqueSlot ==
    \A i, j \in ReplayIndex :
        slots[i].used /\ slots[j].used /\ slots[i].uid = slots[j].uid => i = j

(***************************************************************************)
(* The bitmap is the truth: for a tracked sender the newest counter is the *)
(* highest accepted since its sequence started, and the bits below it are  *)
(* those of the others accepted.  The last bit, WindowBits down, may be    *)
(* missing: an advance by exactly WindowBits clears it (see AcceptedOnce). *)
(***************************************************************************)
WindowIsExact ==
    \A i \in ReplayIndex : slots[i].used =>
        LET seen == taken[slots[i].uid]
            offset(c) == slots[i].high - c
        IN  /\ slots[i].high \in seen
            /\ \A c \in seen : c <= slots[i].high
            /\ \A o \in slots[i].window : slots[i].high - o \in seen
            /\ \A c \in seen : offset(c) \in 1 .. WindowBits - 1 => offset(c) \in slots[i].window

(***************************************************************************)
(* While its sender keeps talking a frame is not accepted a second time,   *)
(* however frames of several radios are repeated and reordered, unless it  *)
(* lies exactly WindowBits behind the newest.                              *)
(***************************************************************************)
AcceptedIsNew ==
    \A u \in Sender, c \in Counter :
        DecryptAccept(u, c) /\ Continues(u) /\ High(u) - c # WindowBits
            => c \notin taken[u]

NoRepeatInsideWindow == [][AcceptedIsNew]_vars

(***************************************************************************)
(* Only a repeat, or a frame older than the window, is rejected, and only  *)
(* while its sender is being heard: a frame that arrives late because its  *)
(* radio is slow gets in, and a sender that has rebooted is let in again   *)
(* once it has been without an accepted frame for the resync time.         *)
(***************************************************************************)
RejectedIsOld ==
    \A u \in Sender, c \in Counter :
        DecryptReplay(u, c) => /\ Continues(u)
                               /\ c \in taken[u] \/ High(u) - c > WindowBits

RejectionsJustified == [][RejectedIsOld]_vars

(***************************************************************************)
(* A sender that loses its slot is one not heard for longest, also across  *)
(* the wrap of the clock.                                                  *)
(***************************************************************************)
LeastRecentLosesSlot ==
    \A u \in Sender : Tracked(slots, u) /\ ~Tracked(slots', u) =>
        \A v \in Sender : Tracked(slots, v) => since[v] <= since[u]

SlotTakenFromLeastRecent == [][LeastRecentLosesSlot]_vars

(***************************************************************************)
(* crypto.h: "A frame is accepted once and only once".  While its sender   *)
(* keeps talking, no counter is accepted twice.                            *)
(***************************************************************************)
AcceptedOnce ==
    [][\A u \in Sender, c \in Counter :
        DecryptAccept(u, c) /\ Continues(u) => c \notin taken[u]]_vars
=============================================================================
