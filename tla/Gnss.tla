-------------------------------- MODULE Gnss --------------------------------
(***************************************************************************)
(* A GNSS module wired to the node (hal/DirectGpsLocationSource.cpp over   *)
(* ff_core/ubx.cpp).  The driver does not know at what speed the module    *)
(* talks, nor whether it is old: it tries each speed in turn with an order *)
(* to change to the target speed, asks for the messages it wants, and      *)
(* begins again when it has heard none for too long.                       *)
(*                                                                         *)
(* A tick is a step of the sweep.  In each the module sends the messages   *)
(* it was asked for, and the loop services the driver unless it is parked. *)
(* Orders, answers and messages may be lost, and the module may restart.   *)
(***************************************************************************)
EXTENDS Integers, Sequences

CONSTANTS Bauds,   \* kCandidateBauds: the speeds tried, the target speed first
          Factory, \* the speed of a module that has just been switched on
          Kinds,   \* the modules there may be: "modern", "old", "none"
          Silence, \* kSilenceTimeoutMs
          RxCap    \* bound: messages the serial buffer holds

Target == Bauds[1]
Speeds == {Bauds[i] : i \in DOMAIN Bauds}
ASSUME GnssAssumption ==
    /\ Len(Bauds) > 0 /\ Factory \in Speeds
    /\ Bauds \in Seq(Nat) /\ Silence \in Nat /\ Silence >= 2
    /\ RxCap \in Nat /\ RxCap >= 3 \* the answers to the orders, and a message
    /\ Kinds \subseteq {"modern", "old", "none"}

VARIABLES drv,      \* the driver: its state, speed and cached position
          module,   \* the module: its kind, its speed and the messages it sends
          rx,       \* what has been received and not yet read
          serviced, \* was the driver serviced in this tick?  "no", "reading" or "yes"
          calm,     \* history: ticks since something was lost, or the module restarted
          running   \* history: ticks since the loop was parked

gnssVars == <<drv, module, rx, serviced, calm, running>>

Legacy == {"POSLLH", "SOL", "DOP"} \* DOP stands for VELNED as well
Messages == {"PVT"} \cup Legacy
Answers == {"ACK", "NAK"}

\* The worst case: the sweep has just passed the module's speed, finds nobody, waits out the
\* silence and begins again.
SettleTime == Silence + 2 * Len(Bauds) + 4
Lasting == Silence + Len(Bauds) + 1 \* a position heard in the sweep outlasts it
Aged == Lasting + 1
Upto(n, bound) == IF n < bound THEN n ELSE bound

GnssInit ==
    /\ drv = [state |-> "Sweep", idx |-> 0, quiet |-> 0, baud |-> Target,
              awaiting |-> FALSE, legacy |-> FALSE, valid |-> FALSE, age |-> Aged]
    /\ module \in [kind : Kinds, baud : {Factory}, on : {{}}]
    /\ rx = <<>> /\ serviced = "no" /\ calm = 0 /\ running = Aged

Fitted == module.kind # "none"
Link(baud) == Fitted /\ module.baud = baud

\* The driver writes at the speed it listens at; what it writes may be lost.
Written(lost) == calm' = IF lost = {} THEN calm ELSE 0
Enable(wanted, lost) == module' = [module EXCEPT !.on = @ \cup (wanted \ lost)]

HandlePvt(d) == [d EXCEPT !.valid = TRUE, !.age = 0, !.quiet = 0]

\* Each of the older messages carries a part of what NAV-PVT says in one.
HandleLegacyNav(d, e) ==
    CASE e = "POSLLH" -> [d EXCEPT !.age = 0, !.quiet = 0]
      [] e = "SOL" -> [d EXCEPT !.valid = TRUE, !.quiet = 0]
      [] e = "DOP" -> [d EXCEPT !.quiet = 0]

\* Mutant: the refusal of an old module is not acted on.
HandleAckNoFallback(d, acked) == IF d.awaiting THEN [d EXCEPT !.awaiting = FALSE] ELSE d

HandleAck(d, acked) ==
    CASE ~d.awaiting \/ d.legacy -> d
      [] d.awaiting /\ ~d.legacy /\ acked -> [d EXCEPT !.awaiting = FALSE]
      [] d.awaiting /\ ~d.legacy /\ ~acked ->
            [d EXCEPT !.awaiting = FALSE, !.legacy = TRUE, !.quiet = 0]

\* service(): one message read.
Handle(d, e) ==
    CASE e = "PVT" -> HandlePvt(d)
      [] e \in Legacy -> HandleLegacyNav(d, e)
      [] e \in Answers -> HandleAck(d, e = "ACK")

\* service(): what was received is read first.  A refusal is acted on at once: the module is
\* asked for the older messages.
Read ==
    /\ serviced # "yes" /\ rx # <<>>
    /\ serviced' = "reading" /\ rx' = Tail(rx) /\ UNCHANGED running
    /\ drv' = Handle(drv, Head(rx))
    /\ LET refused == drv'.legacy /\ ~drv.legacy IN
       \/ refused /\ Link(drv.baud)
          /\ \E lost \in SUBSET Legacy : Enable(Legacy, lost) /\ Written(lost)
       \/ ~(refused /\ Link(drv.baud)) /\ module' = module /\ Written({})

\* service(): with nothing left to read, the one step of this tick.
Service == serviced # "yes" /\ rx = <<>> /\ serviced' = "yes" /\ UNCHANGED running

\* service(), a step of the sweep: setBaud discards what was received, and the module may
\* understand the order to change to the target speed.
SweepStep ==
    /\ Service /\ drv.state = "Sweep" /\ drv.idx < Len(Bauds)
    /\ LET baud == Bauds[drv.idx + 1] IN
        /\ drv' = [drv EXCEPT !.baud = baud, !.idx = @ + 1]
        /\ UNCHANGED rx
        /\ \/ Link(baud) /\ module' = [module EXCEPT !.baud = Target] /\ Written({})
           \/ module' = module /\ Written(IF Link(baud) THEN {"CFG-PRT"} ELSE {})

\* service(), the end of the sweep, and sendConfig: an old module is asked for the older
\* messages, any other for NAV-PVT, which an old one refuses.  The answers to the orders
\* that silence NMEA, of the same kind, come after the one that is awaited.
Settle ==
    /\ Service /\ drv.state = "Sweep" /\ drv.idx = Len(Bauds)
    /\ drv' = [drv EXCEPT !.baud = Target, !.state = "Parse", !.quiet = 0,
                          !.awaiting = @ \/ ~drv.legacy]
    /\ IF ~Link(Target)
       THEN rx' = <<>> /\ module' = module /\ Written({})
       ELSE IF drv.legacy
       THEN \E lost \in SUBSET Legacy : Enable(Legacy, lost) /\ Written(lost) /\ rx' = <<>>
       ELSE \E lost \in SUBSET {"PVT", "first", "later"} :
            /\ Enable(IF module.kind = "modern" THEN {"PVT"} ELSE {}, lost)
            /\ Written(lost)
            /\ rx' = (IF lost \cap {"PVT", "first"} # {} THEN <<>>
                      ELSE <<IF module.kind = "modern" THEN "ACK" ELSE "NAK">>)
                     \o (IF "later" \in lost THEN <<>> ELSE <<"ACK">>)

\* Mutant: a silent module is looked for again, and its last position still given out.
WatchKeepsFix ==
    /\ Service /\ drv.state = "Parse" /\ UNCHANGED <<module, rx, calm>>
    /\ drv' = IF drv.quiet > Silence THEN [drv EXCEPT !.state = "Sweep", !.idx = 0] ELSE drv

\* service() once the module is found: a silent one is looked for again.
Watch ==
    /\ Service /\ drv.state = "Parse" /\ UNCHANGED <<module, rx, calm>>
    /\ drv' = IF drv.quiet > Silence
              THEN [drv EXCEPT !.valid = FALSE, !.state = "Sweep", !.idx = 0] ELSE drv

ModuleRestart ==
    /\ Fitted /\ module' = [module EXCEPT !.baud = Factory, !.on = {}] /\ calm' = 0
    /\ UNCHANGED <<drv, rx, serviced, running>>

\* The messages of one solution, in the order in which the module sends them.
Solution(on) ==
    LET Sent(what) == IF what \in on THEN <<what>> ELSE <<>>
    IN  Sent("PVT") \o Sent("POSLLH") \o Sent("SOL") \o Sent("DOP")

\* A tick, in which the module sends what it was asked for.
GnssTick(parked) ==
    /\ serviced = "yes" \/ (parked /\ serviced = "no")
    /\ \E lost \in SUBSET module.on :
        LET all == rx \o (IF Link(drv.baud) THEN Solution(module.on \ lost) ELSE <<>>)
        IN  /\ rx' = SubSeq(all, 1, Upto(Len(all), RxCap))
            /\ calm' = IF lost # {} \/ parked THEN 0 ELSE Upto(calm + 1, SettleTime)
    /\ drv' = [drv EXCEPT !.quiet = Upto(@ + 1, Silence + 1), !.age = Upto(@ + 1, Aged)]
    /\ running' = IF parked THEN 0 ELSE Upto(running + 1, Aged)
    /\ serviced' = "no" /\ UNCHANGED module

\* The node restarts; the module is left as it was.
GnssRestart ==
    /\ drv' = [state |-> "Sweep", idx |-> 0, quiet |-> 0, baud |-> Target, awaiting |-> FALSE,
               legacy |-> FALSE, valid |-> FALSE, age |-> Aged]
    /\ rx' = <<>> /\ serviced' = "no" /\ calm' = 0 /\ running' = Aged /\ UNCHANGED module

GnssService == Read \/ SweepStep \/ Settle \/ Watch

-----------------------------------------------------------------------------
(* Properties *)

GnssTypeOK ==
    /\ drv \in [state : {"Sweep", "Parse"}, idx : 0..Len(Bauds), quiet : 0..(Silence + 1),
                baud : Speeds, awaiting : BOOLEAN, legacy : BOOLEAN, valid : BOOLEAN,
                age : 0..Aged]
    /\ module \in [kind : Kinds, baud : Speeds, on : SUBSET Messages]
    /\ rx \in Seq(Messages \cup Answers) /\ Len(rx) <= RxCap
    /\ serviced \in {"no", "reading", "yes"} /\ calm \in 0..SettleTime /\ running \in 0..Aged

\* A position given out as valid was sent by the module no longer ago than the silence the
\* driver puts up with and the sweep it may have been heard in.  Excepted: just after the loop
\* was parked, when the driver was not serviced and what had waited in the buffer is read as
\* new; and an old module whose position message is not on or was lost, since any other of its
\* messages keeps the driver content.
PositionFresh ==
    drv.valid /\ running = Aged
    => \/ drv.age <= Lasting
       \/ module.kind = "old" /\ (calm < Aged \/ "POSLLH" \notin module.on)

\* Whatever the speed and age of the module, and whatever was lost before, a valid position
\* comes every tick once nothing is lost any more.  Excepted: an old module of which some but
\* not all of the older messages are on, which the driver never asks again.
ModuleFound ==
    calm = SettleTime /\ Fitted
    => \/ drv.valid /\ drv.age <= 1
       \/ module.kind = "old" /\ module.on \cap Legacy \notin {{}, Legacy}
=============================================================================
