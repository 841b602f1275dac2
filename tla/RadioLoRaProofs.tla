-------------------------- MODULE RadioLoRaProofs --------------------------
(***************************************************************************)
(* Theorems about the LoRa driver, for every set of frames and contents    *)
(* and all durations that leave the watchdog longer than a frame and one   *)
(* pass of the loop.                                                       *)
(***************************************************************************)
EXTENDS RadioLoRa, TLAPS, SequenceTheorems

(***************************************************************************)
(* The inductive invariant.  The history of what was sent agrees with the  *)
(* driver's idea of it.                                                    *)
(***************************************************************************)
QueueAgrees ==
    /\ transmitting <=> sending # <<>>
    /\ ~transmitting => pending = <<>>

\* An idle driver's chips all listen, and only listening chips hear.
IdleListens == ~transmitting => \A c \in Chip : chip[c].mode = "rx" /\ chip[c].done # "tx"
OnlyListenersHear == \A c \in air.to : chip[c].mode = "rx"

(***************************************************************************)
(* One chip at most is on the air.  Its frame is no older than Airtime,    *)
(* and no interrupt still to be looked at is the end of another one.       *)
(***************************************************************************)
OneOnAir ==
    \A c \in Chip : chip[c].mode = "tx" =>
        /\ transmitting /\ chip[c].done = "none" /\ txAge <= Airtime
        /\ \A d \in Chip : chip[d].mode = "tx" => c = d
        /\ \A d \in irq : chip[d].done # "tx"

(***************************************************************************)
(* Left alone, a frame is on the air or its interrupt waits to be seen.    *)
(***************************************************************************)
EndIsSeen ==
    transmitting /\ ~disturbed =>
        \/ chip[txIndex].mode = "tx"
        \/ /\ chip[txIndex].mode = "standby" /\ chip[txIndex].done = "tx"
           /\ txIndex \in irq /\ txAge <= Airtime + lag

IInv ==
    /\ TypeOK
    /\ QueueAgrees
    /\ IdleListens
    /\ OnlyListenersHear
    /\ OneOnAir
    /\ EndIsSeen
-----------------------------------------------------------------------------
(***************************************************************************)
(* What the operators over the chips return.                               *)
(***************************************************************************)
LEMMA ChipStates == Listening \in ChipState /\ OnAir \in ChipState
  BY DEF Listening, OnAir, ChipState

LEMMA ReceivingType ==
    ASSUME NEW chips \in [Chip -> ChipState], NEW some
    PROVE  Receiving(chips, some) \in [Chip -> ChipState]
  BY ChipStates DEF Receiving

LEMMA SendingType ==
    ASSUME NEW chips \in [Chip -> ChipState], NEW i \in Chip
    PROVE  Sending(chips, i) \in [Chip -> ChipState]
<1>1. \A c \in Chip : [chips[c] EXCEPT !.mode = "standby"] \in ChipState
  BY DEF ChipState
<1> QED BY <1>1, ChipStates DEF Sending

LEMMA SettledType ==
    ASSUME TypeOK
    PROVE  Settled \in [Chip -> ChipState]
<1>1. \A c \in Chip : [chip[c] EXCEPT !.done = "none", !.heard = NoContent] \in ChipState
  <2>1. \A r \in ChipState : [r EXCEPT !.done = "none", !.heard = NoContent] \in ChipState
    BY DEF ChipState
  <2>2. \A c \in Chip : chip[c] \in ChipState
    BY DEF TypeOK
  <2> QED BY <2>1, <2>2
<1>2. [mode |-> "standby", done |-> "none", heard |-> NoContent] \in ChipState
  BY DEF ChipState
<1> QED BY <1>1, <1>2 DEF Settled, TypeOK

LEMMA GotIsChips ==
    ASSUME TypeOK
    PROVE  Got \subseteq Chip /\ Restart \subseteq Chip
  BY DEF Got, Restart, TypeOK

LEMMA NewestType ==
    ASSUME TypeOK, Got # {}
    PROVE  Newest \in Content \cup {NoContent}
<1>1. \E c \in Got : \A d \in Got : d <= c
  <2>1. CASE 1 \in Got
    BY <2>1, GotIsChips, ChipAssumption DEF Chip
  <2>2. CASE 1 \notin Got
    BY <2>2, GotIsChips, ChipAssumption DEF Chip
  <2> QED BY <2>1, <2>2
<1>2. (CHOOSE c \in Got : \A d \in Got : d <= c) \in Chip
  BY <1>1, GotIsChips
<1> QED BY <1>2 DEF Newest, TypeOK, ChipState

LEMMA LastRxType ==
    ASSUME TypeOK
    PROVE  LastRx \in [what : Content \cup {NoContent}, age : 0 .. DupWindow]
<1>1. CASE Up = {}
  BY <1>1 DEF LastRx, TypeOK
<1>2. CASE Up # {}
  <2>1. Got # {}
    BY <1>2 DEF Up, Heard
  <2> QED BY <1>2, <2>1, NewestType, DurationAssumption DEF LastRx
<1> QED BY <1>1, <1>2
-----------------------------------------------------------------------------
THEOREM InitIInv == Init => IInv
<1> SUFFICES ASSUME Init PROVE IInv
  OBVIOUS
<1> USE ChipAssumption, DurationAssumption, DropAssumption DEF Init
<1>1. chip \in [Chip -> ChipState]
  BY ChipStates
<1>2. lastRx \in [what : Content \cup {NoContent}, age : 0 .. DupWindow]
  BY DEF Forgotten
<1>3. txIndex \in Chip /\ txAge \in 0 .. Timeout + 1 /\ dropped \in 0 .. DropMod - 1 /\ lag \in 0 .. MaxLag
  BY DEF Chip
<1>4. air \in [what : Content \cup {NoContent}, to : SUBSET Chip,
                heardBy : SUBSET Chip, copies : Nat, old : BOOLEAN]
  OBVIOUS
<1>5. TypeOK
  BY <1>1, <1>2, <1>3, <1>4 DEF TypeOK
<1>6. QueueAgrees /\ IdleListens /\ OnlyListenersHear /\ OneOnAir /\ EndIsSeen
  BY DEF QueueAgrees, IdleListens, OnlyListenersHear, OneOnAir, EndIsSeen, Listening
<1> QED BY <1>5, <1>6 DEF IInv
-----------------------------------------------------------------------------
(***************************************************************************)
(* One lemma per action of the chips, the loop, the web server and time.   *)
(***************************************************************************)
LEMMA TxDoneStep ==
    ASSUME IInv, NEW c \in Chip, TxDone(c)
    PROVE  IInv'
<1> USE DEF IInv, TxDone, driverVars
<1>1. TypeOK'
  <2>1. [chip[c] EXCEPT !.mode = "standby", !.done = "tx"] \in ChipState
    <3> HIDE DEF IInv, TxDone
    <3>1. chip[c] \in ChipState
      BY DEF IInv, TypeOK
    <3>2. \A r \in ChipState : [r EXCEPT !.mode = "standby", !.done = "tx"] \in ChipState
      BY DEF ChipState
    <3> QED BY <3>1, <3>2
  <2>2. chip' = [chip EXCEPT ![c] = [chip[c] EXCEPT !.mode = "standby", !.done = "tx"]]
    BY DEF TypeOK
  <2>3. chip' \in [Chip -> ChipState]
    BY <2>1, <2>2 DEF TypeOK
  <2>4. irq' \subseteq Chip /\ disturbed' \in BOOLEAN
    BY DEF TypeOK
  <2> QED BY <2>3, <2>4 DEF TypeOK
<1>2. \A d \in Chip : chip'[d] = IF d = c THEN [chip[c] EXCEPT !.mode = "standby", !.done = "tx"] ELSE chip[d]
  BY DEF TypeOK
<1>3. /\ chip[c] \in ChipState /\ chip'[c].mode = "standby" /\ chip'[c].done = "tx"
      /\ transmitting /\ txAge <= Airtime /\ \A d \in Chip \ {c} : chip[d].mode # "tx"
  BY <1>2 DEF TypeOK, OneOnAir, ChipState
<1>4. QueueAgrees' /\ IdleListens'
  BY <1>3 DEF QueueAgrees, IdleListens
<1>5. OnlyListenersHear'
  BY <1>2 DEF OnlyListenersHear, TypeOK
<1>6. OneOnAir'
  <2>1. \A d \in Chip : chip'[d].mode # "tx"
    <3> HIDE DEF IInv, TxDone
    <3> SUFFICES ASSUME NEW d \in Chip PROVE chip'[d].mode # "tx"
      OBVIOUS
    <3>1. CASE d = c
      BY <1>3, <3>1
    <3>2. CASE d # c
      BY <1>2, <1>3, <3>2
    <3> QED BY <3>1, <3>2
  <2> QED BY <2>1 DEF OneOnAir
<1>7. EndIsSeen'
  <2>1. txIndex \in Chip /\ txAge \in Nat /\ lag \in Nat /\ Airtime \in Nat
    BY DurationAssumption DEF TypeOK
  <2>2. txAge <= Airtime + lag
    BY <1>3, <2>1
  <2> SUFFICES ASSUME ~disturbed'
               PROVE  chip'[txIndex] = chip'[c] /\ txIndex \in irq'
    BY <1>3, <2>2 DEF EndIsSeen
  <2>3. irq' = irq \cup {c} /\ ~disturbed
    OBVIOUS
  <2>4. chip[txIndex].mode = "tx"
    BY <1>3, <2>3 DEF EndIsSeen, OneOnAir
  <2>5. txIndex = c
    BY <2>1, <2>4, <1>3
  <2> QED BY <2>3, <2>5
<1> QED BY <1>1, <1>4, <1>5, <1>6, <1>7

LEMMA HearStep ==
    ASSUME IInv, NEW what \in Content, NEW to \in SUBSET {c \in Chip : chip[c].mode = "rx"},
           Hear(what, to)
    PROVE  IInv'
<1> USE DEF IInv, Hear, driverVars
<1>1. TypeOK'
  BY DEF TypeOK
<1>2. OnlyListenersHear'
  BY DEF OnlyListenersHear
<1> QED BY <1>1, <1>2 DEF QueueAgrees, IdleListens, OneOnAir, EndIsSeen

LEMMA CatchesStep ==
    ASSUME IInv, NEW c \in Chip, NEW done \in {"rx", "crc"}, Catches(c, done)
    PROVE  IInv'
<1> USE DEF IInv, Catches, driverVars
<1> DEFINE caught == [chip[c] EXCEPT !.done = done, !.heard = air.what]
<1>1. caught \in ChipState /\ chip' = [chip EXCEPT ![c] = caught]
  BY DEF TypeOK, ChipState
<1>2. chip' \in [Chip -> ChipState] /\ irq' \subseteq Chip
  BY <1>1 DEF TypeOK
<1>3. /\ air' \in [what : Content \cup {NoContent}, to : SUBSET Chip,
                heardBy : SUBSET Chip, copies : Nat, old : BOOLEAN]
      /\ air'.to = air.to \ {c}
  BY DEF TypeOK
<1>4. TypeOK'
  BY <1>2, <1>3 DEF TypeOK
<1>5. chip[c].mode = "rx" /\ caught.mode = "rx" /\ caught.done = done
  BY DEF OnlyListenersHear, TypeOK, ChipState
<1>6. \A d \in Chip : chip'[d] = IF d = c THEN caught ELSE chip[d]
  BY <1>1 DEF TypeOK
<1> HIDE DEF caught
<1>7. QueueAgrees' /\ IdleListens'
  BY <1>5, <1>6 DEF QueueAgrees, IdleListens
<1>8. OnlyListenersHear'
  BY <1>3, <1>5, <1>6 DEF OnlyListenersHear, TypeOK
<1>9. OneOnAir'
  BY <1>5, <1>6 DEF OneOnAir, TypeOK
<1>10. EndIsSeen'
  BY <1>5, <1>6 DEF EndIsSeen, TypeOK
<1> QED BY <1>4, <1>7, <1>8, <1>9, <1>10

LEMMA TransmitStep ==
    ASSUME IInv, NEW frame \in Frame, Transmit(frame)
    PROVE  IInv'
<1> USE DEF IInv, Transmit, Started
<1>1. chip' \in [Chip -> ChipState]
  BY SendingType DEF TypeOK
<1>2. /\ air' \in [what : Content \cup {NoContent}, to : SUBSET Chip,
                heardBy : SUBSET Chip, copies : Nat, old : BOOLEAN]
      /\ air'.to = {}
  BY DEF TypeOK
<1>3. TypeOK'
  <2>1. txAge' \in 0 .. Timeout + 1
    BY DurationAssumption
  <2>2. \E f \in Frame : sending' = <<f>>
    OBVIOUS
  <2> QED BY <1>1, <1>2, <2>1, <2>2 DEF TypeOK
<1>4. \A c \in Chip : IF c = txIndex THEN chip'[c] = OnAir
                      ELSE chip'[c].mode = "standby" /\ chip'[c].done = chip[c].done
  BY DEF Sending, TypeOK, ChipState
<1>5. QueueAgrees' /\ IdleListens' /\ OnlyListenersHear'
  BY <1>2 DEF QueueAgrees, IdleListens, OnlyListenersHear
<1>6. OneOnAir'
  BY <1>4, DurationAssumption DEF OneOnAir, IdleListens, OnAir, TypeOK
<1>7. EndIsSeen'
  BY <1>4 DEF EndIsSeen, OnAir, TypeOK
<1> QED BY <1>3, <1>5, <1>6, <1>7

LEMMA HoldStep ==
    ASSUME IInv, NEW frame \in Frame, Hold(frame)
    PROVE  IInv'
<1> USE DEF IInv, Hold
<1>1. TypeOK'
  BY DEF TypeOK
<1> QED BY <1>1 DEF QueueAgrees, IdleListens, OnlyListenersHear, OneOnAir, EndIsSeen

LEMMA DropStep ==
    ASSUME IInv, Drop
    PROVE  IInv'
<1> USE DEF IInv, Drop
<1>1. dropped' \in 0 .. DropMod - 1
  BY DropAssumption DEF TypeOK
<1>2. TypeOK'
  BY <1>1 DEF TypeOK
<1> QED BY <1>2 DEF QueueAgrees, IdleListens, OnlyListenersHear, OneOnAir, EndIsSeen

LEMMA SetPowerStep ==
    ASSUME IInv, SetPower \/ ApplyPower
    PROVE  IInv'
<1> USE DEF IInv, driverVars
<1>1. CASE SetPower
  BY <1>1 DEF SetPower, TypeOK, QueueAgrees, IdleListens, OnlyListenersHear, OneOnAir, EndIsSeen
<1>2. CASE ApplyPower
  <2> USE <1>2 DEF ApplyPower
  <2>1. chip' \in [Chip -> ChipState]
    BY ReceivingType DEF TypeOK
  <2>2. /\ air' \in [what : Content \cup {NoContent}, to : SUBSET Chip,
                heardBy : SUBSET Chip, copies : Nat, old : BOOLEAN]
        /\ air'.to = {}
    BY DEF TypeOK
  <2>3. TypeOK'
    BY <2>1, <2>2 DEF TypeOK
  <2>4. \A c \in Chip : chip'[c] = Listening
    BY DEF Receiving
  <2>5. QueueAgrees' /\ IdleListens' /\ OnlyListenersHear'
    BY <2>2, <2>4 DEF QueueAgrees, IdleListens, OnlyListenersHear, Listening
  <2>6. OneOnAir'
    BY <2>4 DEF OneOnAir, Listening
  <2>7. EndIsSeen'
    BY DEF EndIsSeen, TypeOK
  <2> QED BY <2>3, <2>5, <2>6, <2>7
<1> QED BY <1>1, <1>2

LEMMA TickStep ==
    ASSUME IInv, Tick
    PROVE  IInv'
<1> USE DEF IInv, Tick
<1> USE DurationAssumption
<1>1. lag' \in 0 .. MaxLag /\ txAge' \in 0 .. Timeout + 1
  <2> HIDE DEF IInv, Tick
  <2>1. lag \in 0 .. MaxLag /\ txAge \in 0 .. Timeout + 1 /\ MaxLag \in Nat /\ Timeout \in Nat
    BY DEF IInv, TypeOK
  <2>2. /\ lag < MaxLag /\ lag' = lag + 1
        /\ txAge' = IF transmitting /\ txAge <= Timeout THEN txAge + 1 ELSE txAge
    BY DEF Tick
  <2>3. lag' \in 0 .. MaxLag
    BY <2>1, <2>2
  <2>4. CASE txAge' = txAge + 1 /\ txAge <= Timeout
    BY <2>1, <2>3, <2>4
  <2>5. CASE txAge' = txAge
    BY <2>1, <2>3, <2>5
  <2> QED BY <2>2, <2>4, <2>5
<1>2. lastRx' \in [what : Content \cup {NoContent}, age : 0 .. DupWindow]
  BY DEF TypeOK, Forgotten
<1>3. /\ air' \in [what : Content \cup {NoContent}, to : SUBSET Chip,
                heardBy : SUBSET Chip, copies : Nat, old : BOOLEAN]
      /\ air'.to = air.to
  BY DEF TypeOK
<1>4. TypeOK'
  BY <1>1, <1>2, <1>3 DEF TypeOK
<1>5. QueueAgrees' /\ IdleListens' /\ OnlyListenersHear'
  BY <1>3 DEF QueueAgrees, IdleListens, OnlyListenersHear
<1>6. OneOnAir'
  BY DEF OneOnAir, TypeOK
<1>7. EndIsSeen'
  BY DEF EndIsSeen, TypeOK
<1> QED BY <1>4, <1>5, <1>6, <1>7
-----------------------------------------------------------------------------
(***************************************************************************)
(* serviceRx.  What a pass does to a chip before it decides what is next,  *)
(* and what it does to the frames still to be heard.                       *)
(***************************************************************************)
LEMMA SettledFacts ==
    ASSUME TypeOK, NEW c \in Chip
    PROVE  /\ Settled[c] = chip[c] \/ Settled[c].done = "none"
           /\ ~Finished => Settled[c].mode = chip[c].mode
           /\ c \notin Restart /\ ~Finished => Settled[c] = chip[c]
           /\ Settled[c].mode = "tx" => chip[c].mode = "tx"
<1>1. [chip[c] EXCEPT !.done = "none", !.heard = NoContent].mode = chip[c].mode
  BY DEF TypeOK, ChipState
<1>2. [chip[c] EXCEPT !.done = "none", !.heard = NoContent].done = "none"
  BY DEF TypeOK, ChipState
<1> QED BY <1>1, <1>2 DEF Settled, Got

LEMMA HandedType ==
    ASSUME TypeOK, NEW chips, Handed(chips)
    PROVE  /\ air' \in [what : Content \cup {NoContent}, to : SUBSET Chip,
                        heardBy : SUBSET Chip, copies : Nat, old : BOOLEAN]
           /\ air'.to = air.to \ chips
<1> DEFINE n == IF \E c \in Got \cap air.heardBy : chip[c].heard \in Up
                THEN air.copies + 1 ELSE air.copies
<1>1. n \in Nat
  BY DEF TypeOK
<1>2. air' = [air EXCEPT !.to = air.to \ chips, !.heardBy = air.heardBy \ Got, !.copies = n]
  BY DEF TypeOK, Handed
<1> HIDE DEF n
<1> QED BY <1>1, <1>2 DEF TypeOK

LEMMA ServiceRxTypes ==
    ASSUME TypeOK, HandUp
    PROVE  /\ irq' = {} /\ lag' = 0 /\ lag' \in 0 .. MaxLag
           /\ lastRx' \in [what : Content \cup {NoContent}, age : 0 .. DupWindow]
  BY LastRxType, DurationAssumption DEF HandUp

LEMMA KeepSendingStep ==
    ASSUME IInv, txIndex' \in Chip, KeepSending
    PROVE  IInv'
<1> USE DEF IInv, KeepSending
<1>1. TypeOK'
  BY SettledType, HandedType, ServiceRxTypes DEF TypeOK
<1>2. QueueAgrees' /\ IdleListens'
  BY DEF QueueAgrees, IdleListens
<1>3. OnlyListenersHear'
  BY HandedType, SettledFacts DEF OnlyListenersHear, TypeOK
<1>4. OneOnAir'
  BY SettledFacts, ServiceRxTypes DEF OneOnAir
<1>5. EndIsSeen'
  <2> SUFFICES ASSUME ~disturbed'
               PROVE  chip'[txIndex'].mode = "tx"
    BY DEF EndIsSeen
  <2>1. ~disturbed /\ txIndex' = txIndex
    OBVIOUS
  <2>2. chip[txIndex].mode = "tx"
    BY <2>1 DEF EndIsSeen, Finished, SeenDone, AwaitsTx
  <2> QED BY <2>1, <2>2, SettledFacts DEF TypeOK
<1> QED BY <1>1, <1>2, <1>3, <1>4, <1>5

LEMMA SendPendingStep ==
    ASSUME IInv, txIndex' \in Chip, SendPending
    PROVE  IInv'
<1> USE DEF IInv, SendPending, Started
<1>1. Head(pending) \in Frame
  BY DEF TypeOK
<1>2. chip' \in [Chip -> ChipState]
  BY SettledType, SendingType
<1>3. txAge' \in 0 .. Timeout + 1 /\ \E f \in Frame : sending' = <<f>>
  BY <1>1, DurationAssumption
<1>4. irq' \subseteq Chip /\ irq' = {}
  BY ServiceRxTypes
<1>5. TypeOK'
  BY <1>2, <1>3, <1>4, HandedType, ServiceRxTypes DEF TypeOK
<1>6. \A c \in Chip : IF c = txIndex' THEN chip'[c] = OnAir ELSE chip'[c].mode = "standby"
  BY SettledType DEF Sending, ChipState
<1>7. QueueAgrees' /\ IdleListens'
  BY <1>3 DEF QueueAgrees, IdleListens
<1>8. OnlyListenersHear'
  BY HandedType DEF OnlyListenersHear, TypeOK
<1>9. OneOnAir'
  BY <1>4, <1>6, DurationAssumption DEF OneOnAir, OnAir
<1>10. EndIsSeen'
  BY <1>6 DEF EndIsSeen, OnAir
<1> QED BY <1>5, <1>7, <1>8, <1>9, <1>10

LEMMA ReceiveAllStep ==
    ASSUME IInv, txIndex' \in Chip, ReceiveAll
    PROVE  IInv'
<1> USE DEF IInv, ReceiveAll, Over
<1>1. chip' \in [Chip -> ChipState]
  BY SettledType, ReceivingType
<1>2. txAge' \in 0 .. Timeout + 1 /\ irq' \subseteq Chip
  BY ServiceRxTypes, DurationAssumption
<1>3. TypeOK'
  BY <1>1, <1>2, HandedType, ServiceRxTypes DEF TypeOK
<1>4. \A c \in Chip : chip'[c] = Listening
  BY DEF Receiving
<1>5. QueueAgrees' /\ IdleListens'
  BY <1>4 DEF QueueAgrees, IdleListens, Listening
<1>6. OnlyListenersHear' /\ OneOnAir' /\ EndIsSeen'
  BY <1>3, <1>4 DEF OnlyListenersHear, OneOnAir, EndIsSeen, Listening, TypeOK
<1> QED BY <1>3, <1>5, <1>6

LEMMA KeepListeningStep ==
    ASSUME IInv, txIndex' \in Chip, KeepListening
    PROVE  IInv'
<1> USE DEF IInv, KeepListening
<1>1. chip' \in [Chip -> ChipState]
  BY SettledType, ReceivingType
<1>2. TypeOK'
  BY <1>1, HandedType, ServiceRxTypes DEF TypeOK
<1>3. ~Finished
  BY DEF Finished, Expired, SeenDone, AwaitsTx
<1>4. \A c \in Chip : chip'[c].mode = "rx" /\ chip'[c].done # "tx"
  BY <1>3, SettledFacts DEF Receiving, Listening, IdleListens
<1>5. QueueAgrees' /\ IdleListens' /\ EndIsSeen'
  BY <1>4 DEF QueueAgrees, IdleListens, EndIsSeen
<1>6. OnlyListenersHear' /\ OneOnAir'
  BY <1>2, <1>4 DEF OnlyListenersHear, OneOnAir, TypeOK
<1> QED BY <1>2, <1>5, <1>6

LEMMA ServiceRxStep ==
    ASSUME IInv, ServiceRx
    PROVE  IInv'
<1>1. txIndex' \in Chip
  BY DEF ServiceRx
<1> QED BY <1>1, KeepSendingStep, SendPendingStep, ReceiveAllStep, KeepListeningStep
        DEF ServiceRx
-----------------------------------------------------------------------------
THEOREM NextIInv == IInv /\ [Next]_vars => IInv'
<1> SUFFICES ASSUME IInv, [Next]_vars PROVE IInv'
  OBVIOUS
<1>1. CASE UNCHANGED vars
  BY <1>1 DEF vars, driverVars, IInv, TypeOK, QueueAgrees, IdleListens, OnlyListenersHear,
              OneOnAir, EndIsSeen
<1>2. CASE Next
  BY <1>2, TxDoneStep, CatchesStep, HearStep, TransmitStep, HoldStep, DropStep,
     ServiceRxStep, SetPowerStep, TickStep DEF Next, RxDone, CrcError
<1> QED BY <1>1, <1>2

THEOREM Invariance == Spec => []IInv
  BY InitIInv, NextIInv, PTL DEF Spec

(***************************************************************************)
(* The driver's state keeps its types, with either number of chips.        *)
(***************************************************************************)
THEOREM TypeCorrect == Spec => []TypeOK
<1>1. IInv => TypeOK
  BY DEF IInv
<1> QED BY <1>1, Invariance, PTL

(***************************************************************************)
(* No chip stays deaf: while nothing is on the air all of them listen.     *)
(***************************************************************************)
THEOREM IdleMeansListening == Spec => []ListensWhenIdle
<1>1. IInv => ListensWhenIdle
  BY DEF IInv, IdleListens, ListensWhenIdle
<1> QED BY <1>1, Invariance, PTL

(***************************************************************************)
(* The watchdog never gives up on a frame whose interrupt came, was left   *)
(* to be seen on the chip it was sent on, and was not cut short: since a   *)
(* frame and one pass take less than the timeout, it was seen before.      *)
(***************************************************************************)
THEOREM TimeoutsJustified == Spec => []WatchdogJustified
<1>1. IInv => WatchdogJustified
  <2> SUFFICES ASSUME IInv, Expired, ~disturbed PROVE FALSE
    BY DEF WatchdogJustified, IInv, TypeOK
  <2>1. txAge > Timeout /\ transmitting /\ txIndex \in Chip
    BY DEF Expired, IInv, TypeOK
  <2>2. txAge <= Airtime + lag
    BY <2>1, DurationAssumption DEF IInv, EndIsSeen, OneOnAir, TypeOK
  <2>3. txAge \in Nat /\ lag \in 0 .. MaxLag
    BY DurationAssumption DEF IInv, TypeOK
  <2> QED BY <2>1, <2>2, <2>3, DurationAssumption
<1> QED BY <1>1, Invariance, PTL
-----------------------------------------------------------------------------
(***************************************************************************)
(* A frame on the air is left alone until it is over.                      *)
(***************************************************************************)
LEMMA WholeFrames ==
    ASSUME IInv, Next, NEW c \in Chip, chip[c].mode = "tx"
    PROVE  \/ chip'[c] = chip[c] /\ txAge' >= txAge
           \/ chip'[c].done = "tx"
           \/ web = "now"
<1>1. /\ transmitting /\ chip[c].done = "none" /\ txAge <= Airtime
      /\ \A d \in Chip : chip[d].mode = "tx" => c = d
      /\ \A d \in irq : chip[d].done # "tx"
  BY DEF IInv, OneOnAir
<1>2. txAge \in Nat /\ chip \in [Chip -> ChipState]
  BY DurationAssumption DEF IInv, TypeOK
<1>3. ~Finished
  BY <1>1, <1>2, DurationAssumption DEF Finished, Expired, SeenDone
<1>4. ASSUME NEW d \in Chip, TxDone(d) PROVE chip'[c].done = "tx"
  <2>1. c = d
    BY <1>1, <1>4 DEF TxDone
  <2> QED BY <1>2, <1>4, <2>1 DEF TxDone, ChipState
<1>5. ASSUME NEW d \in Chip, NEW done, Catches(d, done)
      PROVE  chip'[c] = chip[c] /\ txAge' >= txAge
  <2>1. c # d
    BY <1>5 DEF Catches, IInv, OnlyListenersHear
  <2> QED BY <1>2, <1>5, <2>1 DEF Catches, driverVars
<1>6. ASSUME ServiceRx PROVE chip'[c] = chip[c] /\ txAge' >= txAge
  <2>1. KeepSending
    BY <1>1, <1>3, <1>6 DEF ServiceRx, SendPending, ReceiveAll, KeepListening
  <2>2. c \notin Got
    BY <1>1 DEF Got
  <2>3. Settled[c] = chip[c]
    BY <1>3, <2>2 DEF Settled
  <2> QED BY <1>2, <2>1, <2>3 DEF KeepSending
<1>7. ASSUME NEW frame \in Frame, Transmit(frame) PROVE FALSE
  BY <1>1, <1>7 DEF Transmit
<1>8. ASSUME Tick PROVE chip'[c] = chip[c] /\ txAge' >= txAge
  BY <1>2, <1>8 DEF Tick
<1>9. ASSUME Drop \/ SetPower \/ (\E frame \in Frame : Hold(frame))
             \/ (\E what \in Content, to \in SUBSET {d \in Chip : chip[d].mode = "rx"} : Hear(what, to))
      PROVE  chip'[c] = chip[c] /\ txAge' >= txAge
  BY <1>2, <1>9 DEF Drop, SetPower, Hold, Hear, driverVars
<1>10. ASSUME ApplyPower PROVE web = "now"
  BY <1>10 DEF ApplyPower
<1> QED BY <1>4, <1>5, <1>6, <1>7, <1>8, <1>9, <1>10 DEF Next, RxDone, CrcError

(***************************************************************************)
(* The driver never cuts a frame short, but for the power setting that     *)
(* found the radio idle.                                                   *)
(***************************************************************************)
THEOREM FramesWhole == Spec => FrameGoesOutWhole
<1> DEFINE Whole == \A c \in Chip :
                       chip[c].mode = "tx" =>
                           \/ chip'[c] = chip[c] /\ txAge' >= txAge
                           \/ chip'[c].done = "tx"
                           \/ web = "now"
<1>1. IInv /\ [Next]_vars => [Whole]_vars
  BY WholeFrames
<1> QED BY <1>1, Invariance, PTL DEF Spec, FrameGoesOutWhole
-----------------------------------------------------------------------------
(***************************************************************************)
(* The queue a caller of transmit() sees.                                  *)
(***************************************************************************)
LEMMA QueueOfNone == <<>> \o <<>> = <<>>
  OBVIOUS

LEMMA QueueOfOne ==
    ASSUME NEW f \in Frame
    PROVE  /\ <<f>> \o <<>> = <<f>> /\ Len(<<f>>) = 1 /\ Tail(<<f>>) = <<>>
           /\ Append(<<>>, f) = <<f>>
  OBVIOUS

LEMMA QueueOfTwo ==
    ASSUME NEW f \in Frame, NEW g \in Frame
    PROVE  /\ <<f>> \o <<g>> = <<f, g>> /\ Append(<<f>>, g) = <<f, g>>
           /\ Len(<<f, g>>) = 2 /\ Tail(<<f, g>>) = <<g>> /\ Head(<<g>>) = g
           /\ <<f, g>> # <<>>
<1>1. <<f>> \o <<g>> = <<f, g>>
  <2>1. <<f>> \in Seq(Frame) /\ <<g>> \in Seq(Frame) /\ <<f, g>> \in Seq(Frame)
    OBVIOUS
  <2>2. Len(<<f>>) = 1 /\ Len(<<g>>) = 1 /\ Len(<<f, g>>) = 2
    OBVIOUS
  <2>3. <<f>> \o <<g>> \in Seq(Frame) /\ Len(<<f>> \o <<g>>) = 2
    BY <2>1, <2>2, ConcatProperties
  <2>4. \A i \in 1 .. 2 : (<<f>> \o <<g>>)[i] = IF i <= 1 THEN <<f>>[i] ELSE <<g>>[i - 1]
    BY <2>1, <2>2, ConcatProperties
  <2>5. \A i \in 1 .. 2 : (<<f>> \o <<g>>)[i] = <<f, g>>[i]
    BY <2>4
  <2> QED BY <2>1, <2>2, <2>3, <2>5, SeqEqual
<1>2. Append(<<f>>, g) = <<f, g>>
  <2>1. <<f>> \in Seq(Frame) /\ <<f, g>> \in Seq(Frame) /\ Len(<<f>>) = 1 /\ Len(<<f, g>>) = 2
    OBVIOUS
  <2>2. /\ Append(<<f>>, g) \in Seq(Frame) /\ Len(Append(<<f>>, g)) = 2
        /\ Append(<<f>>, g)[1] = f /\ Append(<<f>>, g)[2] = g
    BY <2>1, AppendProperties
  <2>3. \A i \in 1 .. 2 : Append(<<f>>, g)[i] = <<f, g>>[i]
    BY <2>2
  <2> QED BY <2>1, <2>2, <2>3, SeqEqual
<1>3. Len(<<f, g>>) = 2 /\ Tail(<<f, g>>) = <<g>> /\ Head(<<g>>) = g
  OBVIOUS
<1> QED BY <1>1, <1>2, <1>3

LEMMA PromiseStep ==
    ASSUME IInv, [Next]_vars
    PROVE  [Promise!Next]_(Promise!transmitterVars)
<1> USE DEF Queue, Promise!transmitterVars
<1>1. CASE UNCHANGED <<sending, pending, dropped>>
  BY <1>1
<1>2. ASSUME NEW frame \in Frame, Transmit(frame) PROVE Promise!Offer(frame)
  <2>1. sending = <<>> /\ pending = <<>>
    BY <1>2 DEF Transmit, IInv, QueueAgrees
  <2>2. sending' = <<frame>> /\ pending' = <<>> /\ dropped' = dropped
    BY <1>2, <2>1 DEF Transmit, Started
  <2>3. Queue = <<>> /\ Queue' = <<frame>>
    BY <2>1, <2>2, QueueOfNone, QueueOfOne
  <2> QED BY <2>2, <2>3, QueueOfOne DEF Promise!Offer
<1>3. ASSUME NEW frame \in Frame, Hold(frame) PROVE Promise!Offer(frame)
  <2>1. PICK f \in Frame : sending = <<f>>
    BY <1>3 DEF Hold, IInv, QueueAgrees, TypeOK
  <2>2. /\ pending = <<>> /\ sending' = sending
        /\ pending' = <<frame>> /\ dropped' = dropped
    BY <1>3 DEF Hold
  <2>3. Queue = <<f>> /\ Queue' = <<f, frame>>
    BY <2>1, <2>2, QueueOfOne, QueueOfTwo
  <2> QED BY <2>2, <2>3, QueueOfOne, QueueOfTwo DEF Promise!Offer
<1>4. ASSUME Drop PROVE Promise!Refuse
  <2>1. PICK f \in Frame : sending = <<f>>
    BY <1>4 DEF Drop, IInv, QueueAgrees, TypeOK
  <2>2. PICK g \in Frame : pending = <<g>>
    BY <1>4 DEF Drop, IInv, TypeOK
  <2>3. Len(Queue) = 2
    BY <2>1, <2>2, QueueOfTwo
  <2> QED BY <1>4, <2>3 DEF Drop, Promise!Refuse
<1>5. ASSUME SendPending PROVE Promise!Finish
  <2>1. PICK f \in Frame : sending = <<f>>
    BY <1>5 DEF SendPending, Finished, Expired, SeenDone, AwaitsTx, IInv, QueueAgrees, TypeOK
  <2>2. PICK g \in Frame : pending = <<g>>
    BY <1>5 DEF SendPending, IInv, TypeOK
  <2>3. sending' = <<g>> /\ pending' = <<>> /\ dropped' = dropped
    BY <1>5, <2>2, QueueOfTwo DEF SendPending, Started
  <2>4. Queue = <<f, g>> /\ Queue' = <<g>>
    BY <2>1, <2>2, <2>3, QueueOfOne, QueueOfTwo
  <2>5. Queue # <<>> /\ Queue' = Tail(Queue)
    BY <2>4, QueueOfTwo
  <2> QED BY <2>3, <2>5 DEF Promise!Finish
<1>6. ASSUME ReceiveAll PROVE Promise!Finish
  <2>1. PICK f \in Frame : sending = <<f>>
    BY <1>6 DEF ReceiveAll, Finished, Expired, SeenDone, AwaitsTx, IInv, QueueAgrees, TypeOK
  <2>2. pending = <<>> /\ sending' = <<>> /\ pending' = <<>> /\ dropped' = dropped
    BY <1>6 DEF ReceiveAll, Over
  <2>3. Queue = <<f>> /\ Queue' = <<>>
    BY <2>1, <2>2, QueueOfNone, QueueOfOne
  <2>4. <<f>> # <<>> /\ Tail(<<f>>) = <<>>
    OBVIOUS
  <2>5. Queue # <<>> /\ Queue' = Tail(Queue)
    BY <2>3, <2>4
  <2> QED BY <2>2, <2>5 DEF Promise!Finish
<1>7. ASSUME KeepSending \/ KeepListening PROVE UNCHANGED <<sending, pending, dropped>>
  BY <1>7 DEF KeepSending, KeepListening
<1>8. ASSUME (\E c \in Chip : TxDone(c) \/ RxDone(c) \/ CrcError(c)) \/ SetPower \/ ApplyPower \/ Tick
             \/ (\E what \in Content, to \in SUBSET {d \in Chip : chip[d].mode = "rx"} : Hear(what, to))
             \/ UNCHANGED vars
      PROVE  UNCHANGED <<sending, pending, dropped>>
  BY <1>8 DEF TxDone, RxDone, CrcError, Catches, SetPower, ApplyPower, Tick, Hear,
              vars, driverVars
<1> QED BY <1>1, <1>2, <1>3, <1>4, <1>5, <1>6, <1>7, <1>8 DEF Next, ServiceRx, Promise!Next

(***************************************************************************)
(* The driver implements the two-place transmitter.                        *)
(***************************************************************************)
THEOREM DriverImplementsTransmitter == Spec => ImplementsTransmitter
<1>1. Init => Promise!Init
  BY QueueOfNone DEF Init, Promise!Init, Queue
<1> QED BY <1>1, PromiseStep, Invariance, PTL DEF Spec, ImplementsTransmitter, Promise!Spec
-----------------------------------------------------------------------------
(***************************************************************************)
(* The copies of another node's frame.  Once one has been handed up, what  *)
(* the chips still bring is known for a copy of it: either it is yet to be *)
(* heard and no tick has passed, or it waits for this very pass.           *)
(***************************************************************************)
HeardFromAir ==
    air.to # {} => \A c \in air.heardBy : chip[c].done = "rx" => chip[c].heard = air.what

CopiesKnown ==
    /\ air.copies \in {0, 1}
    /\ air.copies = 1 =>
        /\ air.to # {} => lastRx.what = air.what /\ lastRx.age = 0
        /\ \A c \in irq : chip[c].done = "rx" =>
              chip[c].heard = lastRx.what /\ lastRx.age <= lag

CopiesInv == HeardFromAir /\ CopiesKnown

(***************************************************************************)
(* When a copy has gone up before, a pass hands up nothing.                *)
(***************************************************************************)
LEMMA CopyIsSeen ==
    ASSUME MaxLag < DupWindow, TypeOK, CopiesKnown, air.copies = 1
    PROVE  Up = {} /\ LastRx = lastRx
<1>1. \A what \in Heard : what = lastRx.what /\ lastRx.age <= lag
  BY DEF Heard, Got, Restart, CopiesKnown
<1>2. \A what \in Heard : Heard = {what} /\ lastRx.age < DupWindow
  BY <1>1, DurationAssumption DEF TypeOK
<1>3. Up = {}
  BY <1>1, <1>2 DEF Up, IsCopy
<1> QED BY <1>3 DEF LastRx

(***************************************************************************)
(* When one goes up for the first time, no other frame is read with it if  *)
(* there is a chip still to hear it.                                       *)
(***************************************************************************)
LEMMA ReadAlone ==
    ASSUME TypeOK, NEW c \in Got, NEW d \in Chip, d \notin Got
    PROVE  Got = {c} /\ Newest = chip[c].heard
<1>1. Got = {c}
  BY GotIsChips, ChipAssumption DEF Chip
<1>2. c \in Nat
  BY GotIsChips, ChipAssumption DEF Chip
<1>3. (CHOOSE e \in Got : \A f \in Got : f <= e) = c
  <2>1. c <= c
    BY <1>2
  <2>2. \E e \in Got : \A f \in Got : f <= e
    BY <1>1, <2>1
  <2> QED BY <1>1, <2>2
<1> QED BY <1>1, <1>3 DEF Newest

LEMMA FirstCopy ==
    ASSUME TypeOK, CopiesInv, air.copies = 0, NEW chips \in SUBSET Chip, Handed(chips), HandUp,
           \A c \in Got : air.to \ chips # {} => \E d \in Chip : d \notin Got
    PROVE  /\ air'.copies \in {0, 1}
           /\ air'.copies = 1 /\ air'.to # {} => lastRx'.what = air'.what /\ lastRx'.age = 0
<1>1. /\ air'.to = air.to \ chips /\ air'.what = air.what
      /\ air'.copies = IF \E c \in Got \cap air.heardBy : chip[c].heard \in Up THEN 1 ELSE 0
  BY DEF TypeOK, Handed
<1>2. air'.copies \in {0, 1}
  BY <1>1
<1>3. ASSUME air'.copies = 1, air'.to # {} PROVE lastRx'.what = air'.what /\ lastRx'.age = 0
  <2>1. PICK c \in Got \cap air.heardBy : chip[c].heard \in Up
    BY <1>1, <1>3
  <2>2. Newest = chip[c].heard
    BY <1>1, <1>3, <2>1, ReadAlone
  <2>3. chip[c].heard = air.what
    BY <1>1, <1>3, <2>1 DEF CopiesInv, HeardFromAir, Got
  <2>4. lastRx' = [what |-> Newest, age |-> 0]
    BY <2>1 DEF HandUp, LastRx
  <2> QED BY <1>1, <2>2, <2>3, <2>4
<1> QED BY <1>2, <1>3

LEMMA HandedKeepsCopies ==
    ASSUME MaxLag < DupWindow, TypeOK, CopiesInv, NEW chips \in SUBSET Chip, Handed(chips), HandUp,
           \A c \in Got : air.to \ chips # {} => \E d \in Chip : d \notin Got
    PROVE  CopiesKnown'
<1>1. irq' = {}
  BY DEF HandUp
<1>2. CASE air.copies = 0
  BY <1>1, <1>2, FirstCopy DEF CopiesKnown
<1>3. CASE air.copies = 1
  <2>1. Up = {} /\ lastRx' = lastRx
    BY <1>3, CopyIsSeen DEF HandUp, CopiesInv
  <2>2. air'.copies = 1 /\ air'.what = air.what /\ air'.to \subseteq air.to
    BY <1>3, <2>1 DEF Handed, TypeOK
  <2> QED BY <1>1, <1>3, <2>1, <2>2 DEF CopiesInv, CopiesKnown
<1> QED BY <1>2, <1>3 DEF CopiesInv, CopiesKnown

LEMMA HandedKeepsHeard ==
    ASSUME TypeOK, HeardFromAir, NEW chips, Handed(chips),
           \A c \in Chip : chip'[c].done = "rx" => chip'[c].heard = chip[c].heard /\ chip[c].done = "rx"
    PROVE  HeardFromAir'
<1>1. /\ air'.to \subseteq air.to /\ air'.what = air.what
      /\ air'.heardBy \subseteq air.heardBy /\ air.heardBy \subseteq Chip
  BY DEF Handed, TypeOK
<1> QED BY <1>1 DEF HeardFromAir

(***************************************************************************)
(* A pass leaves a frame that waits on a chip as it was, if at all.        *)
(***************************************************************************)
LEMMA SettledKeepsHeard ==
    ASSUME TypeOK, NEW c \in Chip, Settled[c].done = "rx"
    PROVE  Settled[c].heard = chip[c].heard /\ chip[c].done = "rx"
<1>1. [chip[c] EXCEPT !.done = "none", !.heard = NoContent].done # "rx"
  BY DEF TypeOK, ChipState
<1> QED BY <1>1 DEF Settled

LEMMA ServiceRxCopies ==
    ASSUME MaxLag < DupWindow, IInv, CopiesInv, ServiceRx
    PROVE  CopiesInv'
<1>0. TypeOK /\ txIndex' \in Chip /\ txIndex \in Chip /\ air.to \subseteq Chip
  BY DEF IInv, ServiceRx, TypeOK
<1>1. CASE KeepSending
  <2>1. txIndex \notin Got
    BY <1>1 DEF KeepSending, Got, Restart, AwaitsTx, Finished
  <2>2. CopiesKnown'
    BY <1>0, <1>1, <2>1, HandedKeepsCopies DEF KeepSending
  <2>3. HeardFromAir'
    BY <1>0, <1>1, SettledKeepsHeard, HandedKeepsHeard DEF KeepSending, CopiesInv
  <2> QED BY <2>2, <2>3 DEF CopiesInv
<1>2. CASE SendPending
  <2>1. CopiesKnown'
    BY <1>0, <1>2, HandedKeepsCopies DEF SendPending
  <2>2. HeardFromAir'
    <3>1. \A c \in Chip : chip'[c].done = "rx" => chip'[c].done = Settled[c].done
                                                  /\ chip'[c].heard = Settled[c].heard
      BY <1>0, <1>2, SettledType DEF SendPending, Sending, OnAir, ChipState
    <3> QED BY <1>0, <1>2, <3>1, SettledKeepsHeard, HandedKeepsHeard DEF SendPending, CopiesInv
  <2> QED BY <2>1, <2>2 DEF CopiesInv
<1>3. CASE ReceiveAll
  <2>1. CopiesKnown'
    BY <1>0, <1>3, HandedKeepsCopies DEF ReceiveAll
  <2>2. \A c \in Chip : chip'[c].done # "rx"
    BY <1>3 DEF ReceiveAll, Receiving, Listening
  <2>3. HeardFromAir'
    BY <1>0, <1>3, <2>2, HandedKeepsHeard DEF ReceiveAll, CopiesInv
  <2> QED BY <2>1, <2>3 DEF CopiesInv
<1>4. CASE KeepListening
  <2>1. \A c \in Got : air.to \ Restart # {} => \E d \in Chip : d \notin Got
    BY <1>0 DEF Got
  <2>2. CopiesKnown'
    BY <1>0, <1>4, <2>1, GotIsChips, HandedKeepsCopies DEF KeepListening
  <2>3. \A c \in Chip : chip'[c].done = "rx" => chip'[c] = Settled[c]
    BY <1>4 DEF KeepListening, Receiving, Listening
  <2>4. HeardFromAir'
    BY <1>0, <1>4, <2>3, SettledKeepsHeard, HandedKeepsHeard DEF KeepListening, CopiesInv
  <2> QED BY <2>2, <2>4 DEF CopiesInv
<1> QED BY <1>1, <1>2, <1>3, <1>4 DEF ServiceRx

(***************************************************************************)
(* The other actions hand nothing up.                                      *)
(***************************************************************************)
LEMMA CatchesCopies ==
    ASSUME IInv, CopiesInv, NEW c \in Chip, NEW done \in {"rx", "crc"}, Catches(c, done)
    PROVE  CopiesInv'
<1> DEFINE caught == [chip[c] EXCEPT !.done = done, !.heard = air.what]
<1>1. /\ \A d \in Chip : chip'[d] = IF d = c THEN caught ELSE chip[d]
      /\ caught.done = done /\ caught.heard = air.what
  BY DEF IInv, TypeOK, ChipState, Catches
<1>2. /\ air.to # {} /\ air'.what = air.what /\ air'.copies = air.copies
      /\ air'.heardBy \subseteq air.heardBy \cup {c} /\ irq' = irq \cup {c}
      /\ irq \subseteq Chip /\ air.heardBy \subseteq Chip /\ lag \in Nat
      /\ UNCHANGED <<lastRx, lag>>
  BY DEF IInv, TypeOK, Catches
<1> HIDE DEF caught
<1>3. HeardFromAir'
  BY <1>1, <1>2 DEF CopiesInv, HeardFromAir
<1>4. CopiesKnown'
  BY <1>1, <1>2 DEF CopiesInv, CopiesKnown
<1> QED BY <1>3, <1>4 DEF CopiesInv

LEMMA OtherCopies ==
    ASSUME MaxLag < DupWindow, IInv, CopiesInv,
           \/ \E c \in Chip : TxDone(c)
           \/ \E frame \in Frame : Transmit(frame) \/ Hold(frame)
           \/ Drop \/ SetPower \/ ApplyPower \/ UNCHANGED vars
    PROVE  CopiesInv'
<1> USE DEF CopiesInv
<1>1. ASSUME NEW c \in Chip, TxDone(c) PROVE CopiesInv'
  <2>1. \A d \in Chip : chip'[d].done = "rx" => chip'[d] = chip[d]
    BY <1>1 DEF TxDone, IInv, TypeOK, ChipState
  <2>2. irq' \subseteq irq \cup {c} /\ chip'[c].done = "tx" /\ irq \subseteq Chip
        /\ air.heardBy \subseteq Chip
    BY <1>1 DEF TxDone, IInv, TypeOK, ChipState
  <2> QED BY <1>1, <2>1, <2>2 DEF TxDone, HeardFromAir, CopiesKnown
<1>2. ASSUME NEW frame \in Frame, Transmit(frame) PROVE CopiesInv'
  <2>1. \A d \in Chip : chip'[d].done = "rx" => chip'[d].done = chip[d].done /\ chip'[d].heard = chip[d].heard
    BY <1>2 DEF Transmit, Sending, OnAir, IInv, TypeOK, ChipState
  <2>2. air'.to = {} /\ air'.copies = air.copies /\ irq \subseteq Chip
    BY <1>2 DEF Transmit, IInv, TypeOK
  <2> QED BY <1>2, <2>1, <2>2 DEF Transmit, HeardFromAir, CopiesKnown
<1>3. ASSUME ApplyPower PROVE CopiesInv'
  <2>1. \A d \in Chip : chip'[d].done # "rx"
    BY <1>3 DEF ApplyPower, Receiving, Listening
  <2>2. air'.to = {} /\ air'.copies = air.copies /\ irq \subseteq Chip
    BY <1>3 DEF ApplyPower, IInv, TypeOK
  <2> QED BY <1>3, <2>1, <2>2 DEF ApplyPower, HeardFromAir, CopiesKnown
<1>4. ASSUME UNCHANGED <<chip, irq, lastRx, lag, air>> PROVE CopiesInv'
  BY <1>4 DEF HeardFromAir, CopiesKnown
<1> QED BY <1>1, <1>2, <1>3, <1>4 DEF Hold, Drop, SetPower, driverVars, vars

LEMMA HearCopies ==
    ASSUME IInv, NEW what, NEW to, Hear(what, to)
    PROVE  CopiesInv'
  BY DEF Hear, CopiesInv, HeardFromAir, CopiesKnown

LEMMA TickCopies ==
    ASSUME MaxLag < DupWindow, IInv, CopiesInv, Tick
    PROVE  CopiesInv'
<1>1. air'.to = {} /\ air'.copies = air.copies
  BY DEF Tick, IInv, TypeOK
<1>2. HeardFromAir'
  BY <1>1 DEF HeardFromAir
<1>3. ASSUME lastRx.age <= lag
      PROVE  lastRx'.what = lastRx.what /\ lastRx'.age <= lag'
  BY <1>3, DurationAssumption DEF Tick, IInv, TypeOK
<1>4. CopiesKnown'
  BY <1>1, <1>3 DEF CopiesInv, CopiesKnown, Tick
<1> QED BY <1>2, <1>4 DEF CopiesInv

(***************************************************************************)
(* A frame of another node goes up once, whichever chips hear it and       *)
(* whenever they are read, as long as the loop reads them more often than  *)
(* the window within which copies are looked for.                          *)
(***************************************************************************)
THEOREM FramesHeardOnce ==
    ASSUME MaxLag < DupWindow
    PROVE  Spec => []EachFrameOnce
<1>1. Init => CopiesInv
  BY DEF Init, CopiesInv, HeardFromAir, CopiesKnown
<1>2. IInv /\ CopiesInv /\ [Next]_vars => CopiesInv'
  BY ServiceRxCopies, CatchesCopies, OtherCopies, HearCopies, TickCopies
     DEF Next, RxDone, CrcError
<1>3. CopiesInv => EachFrameOnce
  BY DEF CopiesInv, CopiesKnown, EachFrameOnce
<1> QED BY <1>1, <1>2, <1>3, Invariance, PTL DEF Spec
=============================================================================
