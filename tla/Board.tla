------------------------------- MODULE Board --------------------------------
(***************************************************************************)
(* What a node does besides its radios and its flight controller, as       *)
(* main.cpp puts it together: the settings and their file, the firmware    *)
(* upload that parks the loop, the GNSS module the loop services, and the  *)
(* restarts the loop carries out, which cut short whatever the web server  *)
(* was doing.                                                              *)
(***************************************************************************)
EXTENDS ConfigStore, Upload, Gnss

vars == <<storeVars, uploadVars, gnssVars>>

Init == StoreInit /\ UploadInit /\ GnssInit

\* The web server runs beside the loop, once setup() is over.
Web ==
    /\ boot = "up" /\ UploadStep
    /\ UNCHANGED <<storeVars, gnssVars>>
\* POST /api/system/reboot.
AskReboot ==
    /\ Request /\ RequestReboot
    /\ UNCHANGED <<body, otaStatus, otaActive, image, flash, uploads>>
    /\ UNCHANGED <<fileVars, ramVars, boot, mounted, job, sound, gnssVars>>
Settings == StoreStep /\ UNCHANGED <<uploadVars, gnssVars>>

\* loop(): parked while a firmware is uploaded, except for the restart that is due and for a
\* service() already under way.
ServiceGnss ==
    /\ boot = "up" /\ (~otaActive \/ serviced = "reading") /\ GnssService
    /\ UNCHANGED <<storeVars, uploadVars>>
Restart == Halt /\ UploadRestart /\ GnssRestart
LoopRestart == rebootAt /\ Restart

Module == ModuleRestart /\ UNCHANGED <<storeVars, uploadVars>>
Tick ==
    /\ Fitted /\ boot = "up" /\ GnssTick(otaActive)
    /\ UNCHANGED <<storeVars, uploadVars>>

Next == Web \/ AskReboot \/ Settings \/ ServiceGnss \/ LoopRestart \/ Restart \/ Module \/ Tick
Spec == Init /\ [][Next]_vars

\* A body that has begun goes on arriving, or its connection drops; a save goes on; the loop
\* runs.
Fairness ==
    /\ \A u \in Uploaders : WF_vars(Web /\ (LaterChunk(u) \/ Respond(u) \/ Leave(u)))
    /\ WF_vars(LoopRestart) /\ WF_vars(Settings)
FairSpec == Spec /\ Fairness

TypeOK == StoreTypeOK /\ UploadTypeOK /\ GnssTypeOK
=============================================================================
