----------------------------- MODULE ReplaySlots -----------------------------
(***************************************************************************)
(* The replay protection of ff::CcmCrypto (lib/ff_core/crypto.h, .cpp) as  *)
(* operators on its table of ReplaySlots, for the modules that hold one.   *)
(* A slot's bitmap is the set of offsets below the highest counter whose   *)
(* bits are set: bit i stands for offset i + 1.                            *)
(***************************************************************************)
EXTENDS Millis, FiniteSets

CONSTANTS NumReplaySlots,  \* kMaxPeers
          Sender,          \* node identifiers
          NoSender,        \* the uid of an unused slot
          MaxCounter,      \* bound: the highest counter a frame carries
          WindowBits,      \* kReplayWindowBits
          ResyncTime       \* kReplayResyncMs

ASSUME ReplaySlotsAssumption ==
    /\ NumReplaySlots \in Nat \ {0}
    /\ NoSender \notin Sender
    /\ MaxCounter \in Nat
    /\ WindowBits \in Nat \ {0}
    /\ ResyncTime \in Nat
    /\ ResyncTime < TimeMod

ReplayIndex == 0 .. NumReplaySlots - 1
Counter == 0 .. MaxCounter

ReplaySlot == [uid : Sender \cup {NoSender}, high : Counter,
               window : SUBSET (1 .. WindowBits), last : Time, used : BOOLEAN]

EmptySlot == [uid |-> NoSender, high |-> 0, window |-> {}, last |-> 0, used |-> FALSE]

Tracks(s, i, u) == s[i].used /\ s[i].uid = u
Tracked(s, u) == \E i \in ReplayIndex : Tracks(s, i, u)

(***************************************************************************)
(* slotFor: the slot tracking u, else the first unused one, else the first *)
(* of those heard longest ago, compared by signed differences.             *)
(***************************************************************************)
Older(a, b) == ~Reached(a, b)

IsVictim(s, i) ==
    \/ ~s[i].used /\ \A j \in 0 .. i - 1 : s[j].used
    \/ /\ \A j \in ReplayIndex : s[j].used /\ ~Older(s[j].last, s[i].last)
       /\ \A j \in 0 .. i - 1 : Older(s[i].last, s[j].last)

IsReplaySlot(s, u, i) ==
    IF Tracked(s, u)
    THEN Tracks(s, i, u) /\ \A j \in 0 .. i - 1 : ~Tracks(s, j, u)
    ELSE IsVictim(s, i)

(***************************************************************************)
(* The window after the highest counter has advanced by n: every recorded  *)
(* offset moves n down and the old highest takes offset n.                 *)
(***************************************************************************)
\* Mutant: the old highest counter is not recorded.
SlidForgetful(window, n) == {o \in 1 .. WindowBits : o - n \in window}
Slid(window, n) ==
    IF n >= WindowBits THEN {}
    ELSE {n} \cup {o \in 1 .. WindowBits : o - n \in window}

(***************************************************************************)
(* Whether the sender may restart its sequence.                            *)
(***************************************************************************)
IsReset(s, u, i, now) ==
    ~Tracks(s, i, u) \/ Elapsed(now, s[i].last) > ResyncTime

(***************************************************************************)
(* acceptCounter, for a sender that may not restart.                       *)
(***************************************************************************)
\* Mutant: the strict rule, a counter must exceed every earlier one.
IsNewStrict(slot, c) == c > slot.high
IsNew(slot, c) ==
    \/ c > slot.high
    \/ slot.high - c \in (1 .. WindowBits) \ slot.window

Accepts(s, u, i, c, now) == IsReset(s, u, i, now) \/ IsNew(s[i], c)

Recorded(s, u, i, c, now) ==
    IF IsReset(s, u, i, now)
    THEN [uid |-> u, high |-> c, window |-> {}, last |-> now, used |-> TRUE]
    ELSE IF c > s[i].high
    THEN [s[i] EXCEPT !.high = c, !.window = Slid(@, c - s[i].high), !.last = now]
    ELSE [s[i] EXCEPT !.window = @ \cup {s[i].high - c}, !.last = now]
=============================================================================
