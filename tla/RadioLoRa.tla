----------------------------- MODULE RadioLoRa -----------------------------
(***************************************************************************)
(* The LoRa driver (hal/RadioLoRa.cpp, with ff_core/tx_slot.h) and the one *)
(* or two chips under it: half-duplex, every chip listening until a frame  *)
(* goes out on one of them while the others stand by.                      *)
(*                                                                         *)
(* Three parties interleave: the loop (transmit and serviceRx), the chips  *)
(* with their interrupt handlers, and the web server's task, which on the  *)
(* ESP32 can preempt the loop and calls setPower; its read of              *)
(* transmitting_ and what it does about it are separate steps.             *)
(*                                                                         *)
(* Time is a count of ticks.  Ages stop at the bound past which the code   *)
(* no longer tells them apart.  Signal strengths are left out: tx_index_   *)
(* may become any chip whenever the averages behind it are updated.        *)
(***************************************************************************)
EXTENDS Naturals, Sequences, FiniteSets

CONSTANTS NumChips,   \* count_
          Frame,      \* frames given to transmit()
          Content,    \* what other nodes' frames can say
          NoContent,  \* no frame
          Airtime,    \* ticks a frame of ours is on the air
          Timeout,    \* kTxTimeoutMs
          DupWindow,  \* kDuplicateWindowMs
          MaxLag,     \* bound: ticks between two calls of serviceRx
          DropMod     \* modulus of tx_dropped_

ASSUME ChipAssumption == NumChips \in {1, 2}
ASSUME ContentAssumption == NoContent \notin Content
ASSUME DurationAssumption ==
    /\ Airtime \in Nat \ {0} /\ Timeout \in Nat /\ MaxLag \in Nat \ {0}
    /\ DupWindow \in Nat \ {0}
    /\ Airtime + MaxLag <= Timeout   \* the loop does not stall for long
ASSUME DropAssumption == DropMod \in Nat \ {0}

Chip == 0 .. NumChips - 1

VARIABLES chip,         \* each chip: its mode, what it finished, what it heard
          irq,          \* the chips whose Path::irq flag is set
          transmitting, \* transmitting_
          txIndex,      \* tx_index_
          txAge,        \* millis() - tx_start_ms_, up to Timeout + 1
          sending,      \* history: the frame on the air, if any
          disturbed,    \* history: something kept its interrupt from being seen
          pending,      \* pending_: the frame held back, if any
          dropped,      \* tx_dropped_
          web,          \* what setPower, in the web server's task, is about to do
          lastRx,       \* last_rx_ and its age, up to DupWindow
          lag,          \* ticks since serviceRx ran
          air           \* the other nodes' latest frame: what it says, the chips
                        \* still to hear it, those that did, how often it was
                        \* handed up, whether a tick has passed

driverVars == <<transmitting, txIndex, txAge, sending, pending, dropped>>
vars == <<chip, irq, driverVars, disturbed, web, lastRx, lag, air>>

Listening == [mode |-> "rx", done |-> "none", heard |-> NoContent]
OnAir == [mode |-> "tx", done |-> "none", heard |-> NoContent]

\* Too long ago to make the next frame a copy.
Forgotten == [what |-> NoContent, age |-> DupWindow]

Init ==
    /\ chip = [c \in Chip |-> Listening]
    /\ irq = {}
    /\ transmitting = FALSE /\ txIndex = 0 /\ txAge = 0
    /\ sending = <<>> /\ disturbed = FALSE
    /\ pending = <<>> /\ dropped = 0
    /\ web = "idle"
    /\ lastRx = Forgotten
    /\ lag = 0
    /\ air = [what |-> NoContent, to |-> {}, heardBy |-> {}, copies |-> 0, old |-> TRUE]
-----------------------------------------------------------------------------
(***************************************************************************)
(* The chips and their interrupt handlers.  A transmit-done interrupt may  *)
(* be missed: that is what the watchdog in serviceRx is for.               *)
(***************************************************************************)
TxDone(c) ==
    /\ chip[c].mode = "tx" /\ txAge >= Airtime
    /\ chip' = [chip EXCEPT ![c].mode = "standby", ![c].done = "tx"]
    /\ \/ irq' = irq \cup {c} /\ UNCHANGED disturbed
       \/ irq' = irq /\ disturbed' = TRUE
    /\ UNCHANGED <<driverVars, web, lastRx, lag, air>>

\* Another node sends: the chips that catch the beginning of its frame.
Hear(what, to) ==
    /\ air.old /\ air.to = {}
    /\ air' = [what |-> what, to |-> to, heardBy |-> {}, copies |-> 0, old |-> FALSE]
    /\ UNCHANGED <<chip, irq, driverVars, disturbed, web, lastRx, lag>>

Catches(c, done) ==
    /\ c \in air.to
    /\ chip' = [chip EXCEPT ![c].done = done, ![c].heard = air.what]
    /\ irq' = irq \cup {c}
    /\ air' = [air EXCEPT !.to = @ \ {c},
                          !.heardBy = IF done = "rx" THEN @ \cup {c} ELSE @]
    /\ UNCHANGED <<driverVars, disturbed, web, lastRx, lag>>

RxDone(c) == Catches(c, "rx")
CrcError(c) == Catches(c, "crc")
-----------------------------------------------------------------------------
(***************************************************************************)
(* startReceive on some of the chips: each begins anew, and what it was    *)
(* hearing is lost.                                                        *)
(***************************************************************************)
Receiving(chips, some) == [c \in Chip |-> IF c \in some THEN Listening ELSE chips[c]]

(***************************************************************************)
(* startTx: every other chip stands by, and startTransmit clears what the  *)
(* chosen one had finished, heard or not.                                  *)
(***************************************************************************)
Sending(chips, i) ==
    [c \in Chip |-> IF c = i THEN OnAir ELSE [chips[c] EXCEPT !.mode = "standby"]]

Started(frame) ==
    /\ transmitting' = TRUE
    /\ txAge' = 0
    /\ sending' = <<frame>>
    /\ disturbed' = FALSE

Over ==
    /\ transmitting' = FALSE
    /\ txAge' = 0
    /\ sending' = <<>>
    /\ disturbed' = FALSE

\* Mutant: a frame is sent over the one on the air.
TransmitOver(frame) ==
    /\ Started(frame)
    /\ chip' = Sending(chip, txIndex)
    /\ air' = [air EXCEPT !.to = {}]
    /\ UNCHANGED <<irq, txIndex, pending, dropped, web, lastRx, lag>>

Transmit(frame) ==
    /\ ~transmitting
    /\ Started(frame)
    /\ chip' = Sending(chip, txIndex)
    /\ air' = [air EXCEPT !.to = {}]
    /\ UNCHANGED <<irq, txIndex, pending, dropped, web, lastRx, lag>>

\* Mutant: a newer frame takes the place of the one held back.
HoldOver(frame) ==
    /\ transmitting
    /\ pending' = <<frame>>
    /\ UNCHANGED <<chip, irq, transmitting, txIndex, txAge, sending, disturbed,
                   dropped, web, lastRx, lag, air>>

Hold(frame) ==
    /\ transmitting /\ pending = <<>>
    /\ pending' = <<frame>>
    /\ UNCHANGED <<chip, irq, transmitting, txIndex, txAge, sending, disturbed,
                   dropped, web, lastRx, lag, air>>

Drop ==
    /\ transmitting /\ pending # <<>>
    /\ dropped' = (dropped + 1) % DropMod
    /\ UNCHANGED <<chip, irq, transmitting, txIndex, txAge, sending, disturbed,
                   pending, web, lastRx, lag, air>>
-----------------------------------------------------------------------------
(***************************************************************************)
(* serviceRx, one pass.  The watchdog is looked at before the interrupt    *)
(* flags.                                                                  *)
(***************************************************************************)
\* Mutant: no watchdog.
ExpiredNever == FALSE
Expired == transmitting /\ txAge > Timeout

\* The chip whose interrupt is taken for the end of the frame on the air.
AwaitsTx(c) == transmitting /\ ~Expired /\ c = txIndex
\* Mutant: one flag is attended to per pass, and the others cleared with it.
SeenDoneAlone == irq = {txIndex} /\ AwaitsTx(txIndex) /\ chip[txIndex].done = "tx"
SeenDone == txIndex \in irq /\ AwaitsTx(txIndex) /\ chip[txIndex].done = "tx"
Finished == Expired \/ SeenDone

\* The chips to listen again, and among them those with a frame to read.
\* finishTransmit has cleared the chip the watchdog gave up on.
Restart == {c \in irq : ~AwaitsTx(c)}
Got == {c \in Restart : chip[c].done = "rx" /\ ~(Expired /\ c = txIndex)}

(***************************************************************************)
(* What goes up.  Equal frames read in one pass are one; otherwise a frame *)
(* equal to the last one handed up within DupWindow is its copy.  Of two   *)
(* different frames the second is compared with the first and so always    *)
(* goes up.                                                                *)
(***************************************************************************)
Heard == {chip[c].heard : c \in Got}
Newest == chip[CHOOSE c \in Got : \A d \in Got : d <= c].heard
\* Mutant: copies are looked for within one pass only.
IsCopyNever(what) == FALSE
IsCopy(what) ==
    /\ what = lastRx.what /\ lastRx.age < DupWindow
    /\ Heard = {what} \/ what # Newest
Up == {what \in Heard : ~IsCopy(what)}

LastRx == IF Up = {} THEN lastRx ELSE [what |-> Newest, age |-> 0]

\* What readData and finishTransmit leave of the chips.
Settled ==
    [c \in Chip |->
        IF c \in Got THEN [chip[c] EXCEPT !.done = "none", !.heard = NoContent]
        ELSE IF Finished /\ c = txIndex
        THEN [mode |-> "standby", done |-> "none", heard |-> NoContent]
        ELSE chip[c]]

SamePath(i) == i = txIndex \/ (NumChips > 1 /\ Got # {})

HandUp ==
    /\ irq' = {}
    /\ lastRx' = LastRx
    /\ lag' = 0

Handed(chips) ==
    air' = [air EXCEPT
               !.to = @ \ chips,
               !.heardBy = @ \ Got,
               !.copies = IF \E c \in Got \cap air.heardBy : chip[c].heard \in Up
                          THEN @ + 1 ELSE @]

\* The frame on the air is not over.
KeepSending ==
    /\ transmitting /\ ~Finished
    /\ HandUp /\ Handed({})
    /\ chip' = Settled
    /\ disturbed' = (disturbed \/ txIndex' # txIndex)
    /\ UNCHANGED <<transmitting, txAge, sending, pending, dropped, web>>

\* It is, and another was held back.
SendPending ==
    /\ Finished /\ pending # <<>>
    /\ HandUp /\ Handed(Chip)
    /\ Started(Head(pending))
    /\ chip' = Sending(Settled, txIndex')
    /\ pending' = <<>>
    /\ UNCHANGED <<dropped, web>>

\* It is, and none was.
ReceiveAll ==
    /\ Finished /\ pending = <<>>
    /\ HandUp /\ Handed(Chip)
    /\ Over
    /\ chip' = Receiving(Settled, Chip)
    /\ UNCHANGED <<pending, dropped, web>>

\* Nothing was on the air.
KeepListening ==
    /\ ~transmitting
    /\ HandUp /\ Handed(Restart)
    /\ chip' = Receiving(Settled, Restart)
    /\ UNCHANGED <<transmitting, txAge, sending, disturbed, pending, dropped, web>>

ServiceRx ==
    /\ \E i \in Chip : SamePath(i) /\ txIndex' = i
    /\ KeepSending \/ SendPending \/ ReceiveAll \/ KeepListening
-----------------------------------------------------------------------------
(***************************************************************************)
(* setPower with a setting that differs from the one in force.  While a    *)
(* frame is on the air it only leaves a note (power_pending_) for the pass *)
(* that sees the frame finished; applying it there disturbs nothing, so    *)
(* the note is left out with the setting itself.                           *)
(***************************************************************************)
SetPower ==
    /\ web = "idle" /\ ~transmitting
    /\ web' = "now"
    /\ UNCHANGED <<chip, irq, driverVars, disturbed, lastRx, lag, air>>

ApplyPower ==
    /\ web = "now"
    /\ chip' = Receiving(chip, Chip)
    /\ air' = [air EXCEPT !.to = {}]
    /\ web' = "idle"
    /\ disturbed' = (disturbed \/ transmitting)
    /\ UNCHANGED <<irq, driverVars, lastRx, lag>>
-----------------------------------------------------------------------------
Tick ==
    /\ lag < MaxLag /\ air.to = {}
    /\ \A c \in Chip : chip[c].mode = "tx" => txAge < Airtime
    /\ lag' = lag + 1
    /\ txAge' = IF transmitting /\ txAge <= Timeout THEN txAge + 1 ELSE txAge
    /\ lastRx' = IF lastRx.age + 1 < DupWindow
                 THEN [lastRx EXCEPT !.age = @ + 1] ELSE Forgotten
    /\ air' = [air EXCEPT !.what = NoContent, !.old = TRUE]
    /\ UNCHANGED <<chip, irq, transmitting, txIndex, sending, disturbed, pending,
                   dropped, web>>

Next ==
    \/ \E c \in Chip : TxDone(c) \/ RxDone(c) \/ CrcError(c)
    \/ \E what \in Content, to \in SUBSET {c \in Chip : chip[c].mode = "rx"} : Hear(what, to)
    \/ \E frame \in Frame : Transmit(frame) \/ Hold(frame)
    \/ Drop
    \/ ServiceRx
    \/ SetPower \/ ApplyPower
    \/ Tick

Spec == Init /\ [][Next]_vars

(***************************************************************************)
(* The loop keeps calling serviceRx, a frame once started ends, whether or *)
(* not its interrupt is missed, and time passes.  Nothing is assumed of    *)
(* the other nodes, the callers of transmit and the web server.            *)
(***************************************************************************)
FairSpec ==
    /\ Spec
    /\ WF_vars(ServiceRx)
    /\ WF_vars(\E c \in Chip : TxDone(c))
    /\ WF_vars(\E c \in Chip : RxDone(c) \/ CrcError(c))
    /\ WF_vars(Tick)
-----------------------------------------------------------------------------
ChipState == [mode : {"rx", "standby", "tx"},
              done : {"none", "tx", "rx", "crc"},
              heard : Content \cup {NoContent}]

TypeOK ==
    /\ chip \in [Chip -> ChipState]
    /\ irq \subseteq Chip
    /\ transmitting \in BOOLEAN /\ txIndex \in Chip /\ txAge \in 0 .. Timeout + 1
    /\ disturbed \in BOOLEAN
    /\ sending = <<>> \/ \E frame \in Frame : sending = <<frame>>
    /\ pending = <<>> \/ \E frame \in Frame : pending = <<frame>>
    /\ dropped \in 0 .. DropMod - 1
    /\ web \in {"idle", "now"}
    /\ lastRx \in [what : Content \cup {NoContent}, age : 0 .. DupWindow]
    /\ lag \in 0 .. MaxLag
    /\ air \in [what : Content \cup {NoContent}, to : SUBSET Chip,
                heardBy : SUBSET Chip, copies : Nat, old : BOOLEAN]

Queue == sending \o pending
Promise == INSTANCE Transmitter WITH queue <- Queue

(***************************************************************************)
(* transmit() is a queue of two: nothing accepted is lost, overtaken or    *)
(* sent twice, and a frame is dropped only while one is on the air and one *)
(* waits.                                                                  *)
(***************************************************************************)
ImplementsTransmitter == Promise!Spec

(***************************************************************************)
(* A frame on the air is not stopped short by the driver, whatever arrives *)
(* or is sent meanwhile: a truncated frame is worse than none.  The one    *)
(* exception is a power setting that found the radio idle and is applied   *)
(* after a frame has started.                                              *)
(***************************************************************************)
FrameGoesOutWhole ==
    [][\A c \in Chip :
          chip[c].mode = "tx" =>
              \/ chip'[c] = chip[c] /\ txAge' >= txAge
              \/ chip'[c].done = "tx"
              \/ web = "now"]_vars

(***************************************************************************)
(* The watchdog gives up on a frame only if its interrupt was missed, or   *)
(* if tx_index_ moved to the other chip while it was on the air so that    *)
(* the interrupt was not taken for the end of it, or if the frame was cut  *)
(* by a power setting: a late interrupt does not lose the race.            *)
(***************************************************************************)
WatchdogJustified == Expired => disturbed

(***************************************************************************)
(* The latest frame of another node is handed up once at most, on however  *)
(* many chips and in however many passes its copies come.                  *)
(***************************************************************************)
EachFrameOnce == air.copies <= 1

(***************************************************************************)
(* When no frame is on the air every chip listens, so none stays deaf      *)
(* after it stood by for the other.                                        *)
(***************************************************************************)
ListensWhenIdle == ~transmitting => \A c \in Chip : chip[c].mode = "rx"

(***************************************************************************)
(* A frame held back goes out, even if the interrupt it waits for is       *)
(* missed or misread.                                                      *)
(***************************************************************************)
HeldFrameGoesOut == (pending # <<>>) ~> (pending = <<>>)
=============================================================================
