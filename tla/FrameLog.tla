------------------------------ MODULE FrameLog ------------------------------
(***************************************************************************)
(* ff::FrameLog (lib/ff_core/frame_log.h), the last frames sent and        *)
(* received; GET /api/frames (src/hal/WebServer.cpp), which preempts the   *)
(* loop on an ESP32 and may fall into the middle of add; and the page that *)
(* polls it (html/main.js, Radios).  A frame is its number since boot.     *)
(***************************************************************************)
EXTENDS Naturals, FiniteSets

CONSTANTS LogCapacity,  \* kFrameLogCapacity
          ReplyMax,     \* frames that fit a reply (kFramesJsonCapacity)
          MaxLogged,    \* bound: frames logged in one boot
          MaxReboots,   \* bound: restarts of the node
          MaxCaught     \* bound: polls of one boot that fall into an add

ASSUME FrameLogAssumption ==
    /\ {LogCapacity, ReplyMax} \subseteq Nat \ {0}
    /\ {MaxLogged, MaxReboots, MaxCaught} \subseteq Nat

VARIABLES log,      \* [entries, head, count, total]: the FrameLog
          adding,   \* the step of add the loop is at
          page,     \* [since, missed]: the page's cursor and its count
          boot,     \* history: restarts, and whether the page has polled since
          account   \* history, of this boot: the first frame the page answers
                    \* for, the frames it got, its count before them, and the
                    \* polls that caught the loop in the middle of add

logVars == <<log, adding, page, boot, account>>

EmptyLog == [entries |-> [s \in 0 .. LogCapacity - 1 |-> 0], head |-> 0, count |-> 0, total |-> 0]

LogInit ==
    /\ log = EmptyLog
    /\ adding = "idle"
    /\ page = [since |-> 0, missed |-> 0]
    /\ boot = [number |-> 0, polled |-> TRUE]
    /\ account = [from |-> 0, got |-> {}, before |-> 0, caught |-> 0]
-----------------------------------------------------------------------------
(***************************************************************************)
(* add, in its three steps.                                                *)
(***************************************************************************)
AddStore ==
    /\ adding = "idle"
    /\ log.total < MaxLogged
    /\ log' = [log EXCEPT !.entries[log.head] = log.total]
    /\ adding' = "index"
    /\ UNCHANGED <<page, boot, account>>

AddIndex ==
    /\ adding = "index"
    /\ log' = [log EXCEPT !.head = (@ + 1) % LogCapacity,
                          !.count = IF @ < LogCapacity THEN @ + 1 ELSE @]
    /\ adding' = "total"
    /\ UNCHANGED <<page, boot, account>>

\* Mutant: the total stops at the capacity, like the count.
AddTotalOfHeld ==
    /\ adding = "total"
    /\ log' = [log EXCEPT !.total = IF @ < LogCapacity THEN @ + 1 ELSE @]
    /\ adding' = "idle"
    /\ UNCHANGED <<page, boot, account>>

AddTotal ==
    /\ adding = "total"
    /\ log' = [log EXCEPT !.total = @ + 1]
    /\ adding' = "idle"
    /\ UNCHANGED <<page, boot, account>>

(***************************************************************************)
(* The reply to ?since=N: newest first, down to the first one below N, as  *)
(* many as fit.  Entry i is taken to have number total - 1 - i.            *)
(***************************************************************************)
At(i) == log.entries[(log.head + LogCapacity - 1 - i) % LogCapacity]

InReply(i, since) ==
    /\ i < log.count
    /\ i < ReplyMax
    /\ since = 0 \/ log.total - 1 - i >= since

Reply(since) == {At(i) : i \in {j \in 0 .. LogCapacity - 1 : InReply(j, since)}}
ReplyLength(since) == Cardinality({j \in 0 .. LogCapacity - 1 : InReply(j, since)})

(***************************************************************************)
(* The page's poll and what it makes of the reply.  A reply that is lost   *)
(* changes nothing; the page asks again.                                   *)
(***************************************************************************)
Skipped(since) ==
    IF since # 0 /\ log.total > since + ReplyLength(since)
    THEN log.total - since - ReplyLength(since) ELSE 0

Oldest == IF log.total > ReplyLength(0) THEN log.total - ReplyLength(0) ELSE 0

PollFrames ==
    /\ adding # "idle" => account.caught < MaxCaught
    /\ page' = [since |-> log.total, missed |-> page.missed + Skipped(page.since)]
    /\ boot' = [boot EXCEPT !.polled = TRUE]
    /\ account' =
        [from |-> IF page.since = 0 THEN Oldest
                  ELSE IF boot.polled \/ page.since < log.total THEN account.from
                  ELSE log.total,
         got |-> account.got \cup Reply(page.since),
         before |-> IF page.since = 0 THEN page.missed ELSE account.before,
         caught |-> IF adding = "idle" THEN account.caught ELSE account.caught + 1]
    /\ UNCHANGED <<log, adding>>

(***************************************************************************)
(* The node restarts while the page stays open.                            *)
(***************************************************************************)
Reboot ==
    /\ boot.number < MaxReboots
    /\ log' = EmptyLog
    /\ adding' = "idle"
    /\ boot' = [number |-> boot.number + 1, polled |-> FALSE]
    /\ account' = [from |-> page.since, got |-> {}, before |-> page.missed, caught |-> 0]
    /\ UNCHANGED page

LogStep == AddStore \/ AddIndex \/ AddTotal \/ PollFrames \/ Reboot

LogSpec == LogInit /\ [][LogStep]_logVars
-----------------------------------------------------------------------------
(***************************************************************************)
(* docs/v2-web-api.md: a client further behind than the ring is deep "has  *)
(* missed frames, and should say how many".  Of the frames logged since    *)
(* the page's first poll of this boot, each is shown or counted as missed, *)
(* and not both, but for one per poll that caught the loop in the middle   *)
(* of add.  What a restarted node logs below the page's old cursor is      *)
(* never counted.                                                          *)
(***************************************************************************)
FramesAccounted ==
    boot.polled =>
        LET lost == Cardinality((account.from .. page.since - 1) \ account.got)
            counted == page.missed - account.before
        IN  lost <= counted + account.caught /\ counted <= lost + account.caught
=============================================================================
