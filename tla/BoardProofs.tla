----------------------------- MODULE BoardProofs -----------------------------
(***************************************************************************)
(* Proofs about Board: what a save leaves in the flash wherever it is cut  *)
(* short; what Update accepts however many clients upload at once; how old *)
(* a position the GNSS driver gives out can be, and that it finds its      *)
(* module.  The parts share the restarts, so all are proved of the whole   *)
(* board.                                                                  *)
(***************************************************************************)
EXTENDS Board, TLAPS

-----------------------------------------------------------------------------
(***************************************************************************)
(* The settings.                                                           *)
(***************************************************************************)

\* What is about to become the live file is what was asked for, or known to be cut short.
WrittenBeforeCommit == job.step \in {"remove", "rename"} => temp = job.what \/ "short" \in lapse
\* Nothing is saved before setup() has read the file.
IdleAtStart == boot \in {"off", "mounted"} => job = NoJob
\* load() writes the defaults where there was no file, unless it could not open the one there is.
LoadFillsAbsent == job # NoJob /\ job.caller = "load" /\ boot = "fresh" => live = Absent

StoreInv ==
    /\ StoreTypeOK
    /\ SavedSurvives
    /\ WrittenBeforeCommit
    /\ IdleAtStart
    /\ LoadFillsAbsent

LEMMA StoreInitInv == StoreInit => StoreInv
<1> SUFFICES ASSUME StoreInit PROVE StoreInv
  OBVIOUS
<1> USE SettingsAssumption DEF StoreInit
<1>1. NoJob.step = "none"
  BY DEF NoJob
<1>2. StoreTypeOK
  BY DEF StoreTypeOK, Content
<1>3. SavedSurvives /\ WrittenBeforeCommit /\ IdleAtStart /\ LoadFillsAbsent
  BY <1>1 DEF SavedSurvives, WrittenBeforeCommit, IdleAtStart, LoadFillsAbsent
<1> QED BY <1>2, <1>3 DEF StoreInv

LEMMA JobTypes ==
    /\ NoJob.step = "none" /\ NoJob \notin Jobs
    /\ \A j \in Jobs, step \in Steps :
          /\ [j EXCEPT !.step = step] \in Jobs
          /\ [j EXCEPT !.step = step].what = j.what
          /\ [j EXCEPT !.step = step].step = step
          /\ [j EXCEPT !.step = step].caller = j.caller
    /\ \A settings \in Configs, caller \in Callers :
          [step |-> "open", what |-> settings, caller |-> caller] \in Jobs
  BY DEF NoJob, Jobs, Steps

\* A job at a step is one of the jobs, and setup() is over or under way.
LEMMA AtWork ==
    ASSUME StoreInv, job.step \in Steps
    PROVE  job \in Jobs /\ boot \in {"fresh", "blind", "up"}
  BY JobTypes DEF StoreInv, StoreTypeOK, IdleAtStart, Steps

\* What the caller does about a save leaves the files alone and at most one save to come.
LEMMA Returned ==
    ASSUME StoreInv, job \in Jobs, boot \in {"fresh", "blind", "up"}, NEW saved \in BOOLEAN, Return(saved)
    PROVE  /\ boot' \in {"fresh", "blind", "up"} /\ cfg' \in Configs /\ booted' \in Configs
           /\ rebootRequired' \in BOOLEAN /\ recent' \in BOOLEAN /\ asked' \in Content
           /\ job' # NoJob => job' \in Jobs /\ job'.step = "open" /\ job'.caller = "setup"
           /\ UNCHANGED <<mounted, requests, sound>>
<1>0. rebootRequired' \in BOOLEAN /\ recent' \in BOOLEAN /\ UNCHANGED <<mounted, requests, sound>>
  BY DEF Return, StoreInv, StoreTypeOK
<1>1. CASE job.caller \in {"save", "reset"}
  <2>1. job' = NoJob /\ UNCHANGED <<boot, cfg, booted, asked>>
    BY <1>1 DEF Return
  <2>2. boot' = boot /\ cfg' \in Configs /\ booted' \in Configs /\ asked' \in Content
    BY <2>1 DEF StoreInv, StoreTypeOK
  <2> QED BY <1>0, <2>1, <2>2
<1>2. CASE job.caller = "load" /\ Flashed # Defaults
  <2>1. job' = [step |-> "open", what |-> Flashed, caller |-> "setup"]
    BY <1>2 DEF Return
  <2>2. job' \in Jobs /\ job'.step = "open" /\ job'.caller = "setup"
    BY <2>1, JobTypes, SettingsAssumption DEF Callers
  <2>3. cfg' = Flashed /\ asked' = Flashed /\ UNCHANGED <<boot, booted>>
    BY <1>2 DEF Return
  <2> QED BY <1>0, <2>2, <2>3, SettingsAssumption DEF StoreInv, StoreTypeOK, Content
<1>3. CASE job.caller = "setup" \/ (job.caller = "load" /\ Flashed = Defaults)
  <2>1. boot' = "up" /\ cfg' = cfg /\ booted' = cfg /\ job' = NoJob /\ asked' = asked
    BY <1>3 DEF Return, Start
  <2>2. boot' \in {"fresh", "blind", "up"} /\ cfg' \in Configs /\ booted' \in Configs /\ asked' \in Content
    BY <2>1 DEF StoreInv, StoreTypeOK
  <2> QED BY <1>0, <2>1, <2>2
<1> QED BY <1>1, <1>2, <1>3 DEF Jobs, Callers

LEMMA MountStep == StoreInv /\ Mount => StoreInv'
<1> SUFFICES ASSUME StoreInv, Mount PROVE StoreInv'
  OBVIOUS
<1> USE DEF StoreInv, Mount, fileVars, ramVars
<1>1. job = NoJob /\ job' = NoJob
  BY DEF IdleAtStart
<1>2. StoreTypeOK'
  BY DEF StoreTypeOK, Content
<1>3. SavedSurvives'
  BY <1>1, JobTypes DEF SavedSurvives, Committing
<1> QED BY <1>1, <1>2, <1>3, JobTypes DEF WrittenBeforeCommit, IdleAtStart, LoadFillsAbsent

LEMMA LoadStep == StoreInv /\ Load => StoreInv'
<1> SUFFICES ASSUME StoreInv, Load PROVE StoreInv'
  OBVIOUS
<1> USE SettingsAssumption DEF StoreInv, fileVars, Start
<1>1. job = NoJob
  BY DEF Load, IdleAtStart
<1>2. UNCHANGED <<live, temp, kept, lapse>>
  BY DEF Load, Begin
<1>3. CASE /\ boot' = "blind" \/ (boot' = "fresh" /\ live = Absent)
           /\ Begin(Defaults, "load")
  <2>1. job' \in Jobs /\ job'.step = "open"
    BY <1>3, JobTypes DEF Begin, Callers
  <2>2. StoreTypeOK'
    BY <1>1, <1>2, <1>3, <2>1 DEF Load, Begin, StoreTypeOK, Content
  <2> QED BY <1>1, <1>2, <1>3, <2>1, <2>2, JobTypes
          DEF SavedSurvives, Committing, WrittenBeforeCommit, IdleAtStart, LoadFillsAbsent
<1>4. CASE boot' = "up" /\ UNCHANGED <<fileVars, job>>
  <2>1. StoreTypeOK'
    BY <1>2, <1>4 DEF Load, StoreTypeOK, Content, Begin
  <2> QED BY <1>1, <1>2, <1>4, <2>1, JobTypes
          DEF SavedSurvives, Committing, WrittenBeforeCommit, IdleAtStart, LoadFillsAbsent
<1> QED BY <1>3, <1>4 DEF Load

\* The save goes on to its next step.
LEMMA Advanced ==
    ASSUME StoreInv, job \in Jobs, NEW step \in Steps, Advance(step)
    PROVE  /\ job' \in Jobs /\ job'.step = step
           /\ job'.what = job.what /\ job'.caller = job.caller
  BY JobTypes DEF Advance

LEMMA OpenStep == StoreInv /\ Open => StoreInv'
<1> SUFFICES ASSUME StoreInv, Open PROVE StoreInv'
  OBVIOUS
<1>1. job \in Jobs /\ boot \in {"fresh", "blind", "up"} /\ job # NoJob
  BY AtWork, JobTypes DEF Open, Steps
<1>2. CASE temp' = Unreadable /\ Advance("write")
  <2>1. job' \in Jobs /\ job'.step = "write" /\ job'.caller = job.caller
    BY <1>1, <1>2, Advanced DEF Steps
  <2>2. StoreTypeOK'
    BY <1>2, <2>1 DEF Open, StoreInv, StoreTypeOK, Advance, ramVars, Content
  <2> QED BY <1>1, <1>2, <2>1, <2>2
          DEF Open, StoreInv, Advance, ramVars, SavedSurvives, Committing, WrittenBeforeCommit,
              IdleAtStart, LoadFillsAbsent
<1>3. CASE temp' = temp /\ Return(FALSE)
  <2>1. StoreTypeOK'
    BY <1>1, <1>3, Returned DEF Open, StoreInv, StoreTypeOK
  <2> QED BY <1>1, <1>3, <2>1, Returned, JobTypes
          DEF Open, StoreInv, SavedSurvives, Committing, WrittenBeforeCommit, IdleAtStart,
              LoadFillsAbsent
<1> QED BY <1>2, <1>3 DEF Open

LEMMA WriteStep == StoreInv /\ WriteTemp => StoreInv'
<1> SUFFICES ASSUME StoreInv, WriteTemp PROVE StoreInv'
  OBVIOUS
<1>1. job \in Jobs /\ boot \in {"fresh", "blind", "up"} /\ job # NoJob
  BY AtWork, JobTypes DEF WriteTemp, Steps
<1>2. CASE /\ Advance("remove")
           /\ \/ temp' = job.what /\ lapse' = lapse
              \/ temp' = Unreadable /\ lapse' = lapse \cup {"short"}
  <2>1. /\ job' \in Jobs /\ job'.step = "remove" /\ job'.caller = job.caller
        /\ job'.what = job.what /\ job.what \in Configs
    BY <1>1, <1>2, Advanced DEF Steps, Jobs
  <2>2. StoreTypeOK'
    BY <1>2, <2>1 DEF WriteTemp, StoreInv, StoreTypeOK, Advance, ramVars, Content
  <2> QED BY <1>1, <1>2, <2>1, <2>2
          DEF WriteTemp, StoreInv, Advance, ramVars, SavedSurvives, Committing,
              WrittenBeforeCommit, IdleAtStart, LoadFillsAbsent
<1>3. CASE temp' = Absent /\ lapse' = lapse /\ Return(FALSE)
  <2>1. StoreTypeOK'
    BY <1>1, <1>3, Returned DEF WriteTemp, StoreInv, StoreTypeOK, Content
  <2> QED BY <1>1, <1>3, <2>1, Returned, JobTypes
          DEF WriteTemp, StoreInv, SavedSurvives, Committing, WrittenBeforeCommit, IdleAtStart,
              LoadFillsAbsent
<1> QED BY <1>2, <1>3 DEF WriteTemp

LEMMA RemoveStep == StoreInv /\ RemoveLive => StoreInv'
<1> SUFFICES ASSUME StoreInv, RemoveLive PROVE StoreInv'
  OBVIOUS
<1>1. job \in Jobs /\ boot \in {"fresh", "blind", "up"} /\ job # NoJob
  BY AtWork, JobTypes DEF RemoveLive, Steps
<1>2. job' \in Jobs /\ job'.step = "rename" /\ job'.what = job.what
  BY <1>1, Advanced DEF RemoveLive, Steps
<1>3. StoreTypeOK'
  BY <1>2 DEF RemoveLive, StoreInv, StoreTypeOK, Advance, ramVars, Content
<1> QED BY <1>1, <1>2, <1>3
        DEF RemoveLive, StoreInv, Advance, ramVars, SavedSurvives, Committing,
            WrittenBeforeCommit, IdleAtStart, LoadFillsAbsent

LEMMA RenameStep == StoreInv /\ Rename => StoreInv'
<1> SUFFICES ASSUME StoreInv, Rename PROVE StoreInv'
  OBVIOUS
<1>1. job \in Jobs /\ boot \in {"fresh", "blind", "up"} /\ job # NoJob
  BY AtWork, JobTypes DEF Rename, Committing, Steps
<1>2. PICK saved \in BOOLEAN : Return(saved)
  BY DEF Rename
<1>3. job.what \in Configs
  BY <1>1 DEF Jobs
<1>4. StoreTypeOK'
  BY <1>1, <1>2, <1>3, Returned DEF Rename, StoreInv, StoreTypeOK, Content
<1>5. SavedSurvives'
  BY DEF Rename, StoreInv, SavedSurvives, WrittenBeforeCommit, Committing
<1> QED BY <1>1, <1>2, <1>4, <1>5, Returned, JobTypes
        DEF StoreInv, WrittenBeforeCommit, IdleAtStart, LoadFillsAbsent

LEMMA HaltStep == StoreInv /\ Halt => StoreInv'
<1> SUFFICES ASSUME StoreInv, Halt PROVE StoreInv'
  OBVIOUS
<1> USE DEF StoreInv, Halt
<1>1. StoreTypeOK'
  BY SettingsAssumption DEF StoreTypeOK, Content
<1> QED BY <1>1, JobTypes
        DEF SavedSurvives, Committing, WrittenBeforeCommit, IdleAtStart, LoadFillsAbsent

LEMMA WebStoreStep ==
    StoreInv /\ (Cool \/ PostSave \/ PostReset \/ \E settings \in Configs : PostConfig(settings))
        => StoreInv'
<1> SUFFICES ASSUME StoreInv,
                    Cool \/ PostSave \/ PostReset \/ \E settings \in Configs : PostConfig(settings)
             PROVE  StoreInv'
  OBVIOUS
<1> USE DEF StoreInv
<1>1. CASE Cool
  <2>1. StoreTypeOK'
    BY <1>1 DEF Cool, StoreTypeOK, fileVars
  <2> QED BY <1>1, <2>1
          DEF Cool, fileVars, SavedSurvives, Committing, WrittenBeforeCommit, IdleAtStart,
              LoadFillsAbsent
<1>2. CASE PostSave \/ PostReset
  <2>1. PICK settings \in Configs, caller \in {"save", "reset"} : Begin(settings, caller)
    BY <1>2, SettingsAssumption DEF PostSave, PostReset, StoreTypeOK
  <2>2. /\ job' = [step |-> "open", what |-> settings, caller |-> caller]
        /\ job' \in Jobs /\ job'.step = "open" /\ job'.caller = caller
    BY <2>1, JobTypes DEF Begin, Callers
  <2>3. requests' \in 0..MaxRequests
    BY <1>2, SettingsAssumption DEF PostSave, PostReset, Request, StoreTypeOK
  <2>4. StoreTypeOK'
    BY <1>2, <2>1, <2>2, <2>3, SettingsAssumption
       DEF PostSave, PostReset, Begin, StoreTypeOK, ramVars, Content
  <2> QED BY <1>2, <2>1, <2>2, <2>4, JobTypes
          DEF PostSave, PostReset, Request, Ready, Begin, SavedSurvives, Committing,
              WrittenBeforeCommit, IdleAtStart, LoadFillsAbsent
<1>3. CASE \E settings \in Configs : PostConfig(settings)
  <2>1. PICK settings \in Configs : PostConfig(settings)
    BY <1>3
  <2>2. requests' \in 0..MaxRequests
    BY <2>1, SettingsAssumption DEF PostConfig, Request, StoreTypeOK
  <2>3. WaitsForRestart(settings) \in BOOLEAN
    BY DEF WaitsForRestart
  <2>4. StoreTypeOK'
    BY <2>1, <2>2, <2>3 DEF PostConfig, StoreTypeOK, fileVars
  <2> QED BY <2>1, <2>4
          DEF PostConfig, fileVars, SavedSurvives, Committing, WrittenBeforeCommit, IdleAtStart,
              LoadFillsAbsent
<1> QED BY <1>1, <1>2, <1>3

LEMMA StoreStepInv == StoreInv /\ StoreStep => StoreInv'
  BY MountStep, LoadStep, OpenStep, WriteStep, RemoveStep, RenameStep, WebStoreStep
     DEF StoreStep, SaveStep

-----------------------------------------------------------------------------
(***************************************************************************)
(* The banner.  Between requests the settings in memory and those in the   *)
(* file are in force or announced; in a save they are the same settings.   *)
(***************************************************************************)
Announced(settings) == rebootRequired \/ InForce(settings)

\* Until the file is read the settings in memory are the defaults.
DefaultsAtStart == boot \in {"off", "mounted"} => cfg = Defaults
\* setup() saves before the web server runs, the web server after.
CallerFits == job # NoJob => (boot = "up" <=> job.caller \in {"save", "reset"})
\* What is saved is what is in memory.
SavesCfg == job # NoJob => job.what = cfg
\* A flash that never fails is mounted and cuts nothing short.
SoundFlash == sound => (boot # "off" => mounted) /\ "short" \notin lapse
\* A reset raises the banner once it is over.
CfgAnnounced == boot = "up" /\ job.caller # "reset" => Announced(cfg)
FileAnnounced ==
    sound /\ boot = "up" /\ job.caller # "reset" /\ live \in Configs => Announced(live)

BannerInv ==
    /\ DefaultsAtStart
    /\ CallerFits
    /\ SavesCfg
    /\ SoundFlash
    /\ CfgAnnounced
    /\ FileAnnounced

LEMMA BannerInitInv == StoreInit => BannerInv
<1> SUFFICES ASSUME StoreInit PROVE BannerInv
  OBVIOUS
<1> QED BY DEF StoreInit, BannerInv, DefaultsAtStart, CallerFits, SavesCfg, SoundFlash,
               CfgAnnounced, FileAnnounced

\* What applyLiveConfig announces is what is not in force.
LEMMA NotWaiting == \A settings \in Configs : WaitsForRestart(settings) \/ InForce(settings)
  BY DEF WaitsForRestart, InForce

\* A save that returns leaves what is in memory in force or announced.
LEMMA BannerReturned ==
    ASSUME StoreInv, BannerInv, job \in Jobs, boot \in {"fresh", "blind", "up"},
           NEW saved \in BOOLEAN, Return(saved)
    PROVE  /\ DefaultsAtStart' /\ CallerFits' /\ SavesCfg' /\ CfgAnnounced'
           /\ boot' = "up" => cfg' = job.what
<1>1. job # NoJob /\ job.what = cfg /\ (boot = "up" <=> job.caller \in {"save", "reset"})
  BY JobTypes DEF BannerInv, SavesCfg, CallerFits
<1>2. NoJob.caller = "load"
  BY DEF NoJob
<1>3. CASE job.caller \in {"save", "reset"}
  <2>1. /\ job' = NoJob /\ UNCHANGED <<boot, cfg, booted>> /\ boot = "up"
        /\ rebootRequired' = (rebootRequired \/ job.caller = "reset")
    BY <1>1, <1>3 DEF Return
  <2>2. rebootRequired' \/ Announced(cfg)
    BY <1>3, <2>1 DEF BannerInv, CfgAnnounced
  <2>3. CfgAnnounced'
    BY <2>1, <2>2 DEF CfgAnnounced, Announced, InForce
  <2> QED BY <1>1, <2>1, <2>3 DEF DefaultsAtStart, CallerFits, SavesCfg
<1>4. CASE job.caller = "load" /\ Flashed # Defaults
  <2>1. /\ job' = [step |-> "open", what |-> Flashed, caller |-> "setup"]
        /\ cfg' = Flashed /\ boot' = boot /\ boot # "up"
    BY <1>1, <1>4 DEF Return
  <2>2. boot \notin {"off", "mounted", "up"}
    BY <2>1
  <2> QED BY <2>1, <2>2 DEF DefaultsAtStart, CallerFits, SavesCfg, CfgAnnounced
<1>5. CASE job.caller = "setup" \/ (job.caller = "load" /\ Flashed = Defaults)
  <2>1. boot' = "up" /\ cfg' = cfg /\ booted' = cfg /\ job' = NoJob
    BY <1>5 DEF Return, Start
  <2>2. CfgAnnounced'
    BY <2>1 DEF CfgAnnounced, Announced, InForce
  <2> QED BY <1>1, <2>1, <2>2 DEF DefaultsAtStart, CallerFits, SavesCfg
<1> QED BY <1>3, <1>4, <1>5 DEF Jobs, Callers

\* A save that goes on to its next step changes nothing the banner depends on.
LEMMA BannerAdvanced ==
    ASSUME StoreInv, BannerInv, job \in Jobs, NEW step \in Steps, Advance(step)
    PROVE  DefaultsAtStart' /\ CallerFits' /\ SavesCfg' /\ CfgAnnounced'
<1>1. /\ job' \in Jobs /\ job'.what = job.what /\ job'.caller = job.caller
      /\ UNCHANGED <<cfg, booted, rebootRequired, boot>>
  BY JobTypes DEF Advance, ramVars
<1>2. job # NoJob
  BY JobTypes
<1>3. CfgAnnounced'
  BY <1>1 DEF BannerInv, CfgAnnounced, Announced, InForce
<1> QED BY <1>1, <1>2, <1>3 DEF BannerInv, DefaultsAtStart, CallerFits, SavesCfg

LEMMA BannerSaveStep == StoreInv /\ BannerInv /\ SaveStep => BannerInv'
<1> SUFFICES ASSUME StoreInv, BannerInv, SaveStep PROVE BannerInv'
  OBVIOUS
<1>1. job \in Jobs /\ boot \in {"fresh", "blind", "up"} /\ job # NoJob
  BY AtWork, JobTypes DEF SaveStep, Open, WriteTemp, RemoveLive, Rename, Committing, Steps
<1>2. UNCHANGED <<sound, mounted>> /\ boot # "off"
  BY <1>1 DEF SaveStep, Open, WriteTemp, RemoveLive, Rename, Advance, Return
<1>3. SoundFlash'
  <2>1. sound => mounted /\ "short" \notin lapse
    BY <1>2 DEF BannerInv, SoundFlash
  <2>2. sound => "short" \notin lapse'
    BY <2>1 DEF SaveStep, Open, WriteTemp, RemoveLive, Rename
  <2> QED BY <1>2, <2>1, <2>2 DEF SoundFlash
<1>4. CASE /\ \E step \in Steps : Advance(step)
           /\ live' = live \/ live' = Absent
  <2>1. PICK step \in Steps : Advance(step)
    BY <1>4
  <2>2. job'.caller = job.caller /\ UNCHANGED <<booted, rebootRequired, boot>>
    BY <1>1, <2>1, Advanced DEF Advance, ramVars
  <2>3. FileAnnounced'
    BY <1>2, <1>4, <2>2, SettingsAssumption
       DEF BannerInv, FileAnnounced, Announced, InForce
  <2> QED BY <1>1, <1>3, <2>1, <2>3, BannerAdvanced DEF BannerInv
<1>5. CASE Return(FALSE) /\ ~sound
  <2>1. FileAnnounced'
    BY <1>2, <1>5 DEF FileAnnounced
  <2> QED BY <1>1, <1>3, <1>5, <2>1, BannerReturned DEF BannerInv
<1>6. CASE Return(TRUE) /\ live' = temp /\ Committing
  <2>1. sound => temp = job.what
    BY <1>6 DEF StoreInv, WrittenBeforeCommit, Committing, BannerInv, SoundFlash
  <2>2. CfgAnnounced' /\ (boot' = "up" => cfg' = job.what)
    BY <1>1, <1>6, BannerReturned
  <2>3. sound' /\ boot' = "up" => live' = cfg'
    BY <1>2, <1>6, <2>1, <2>2
  <2>4. FileAnnounced'
    BY <2>2, <2>3 DEF FileAnnounced, CfgAnnounced, Announced, InForce
  <2> QED BY <1>1, <1>3, <1>6, <2>4, BannerReturned DEF BannerInv
<1>7. CASE Open
  <2>1. live' = live
    BY <1>7 DEF Open
  <2>2. sound => mounted
    BY <1>2 DEF BannerInv, SoundFlash
  <2> QED BY <1>4, <1>5, <1>7, <2>1, <2>2 DEF Open, Steps
<1>8. CASE WriteTemp
  BY <1>4, <1>5, <1>8 DEF WriteTemp, Steps
<1>9. CASE RemoveLive
  BY <1>4, <1>9 DEF RemoveLive, Steps
<1>10. CASE Rename
  BY <1>5, <1>6, <1>10 DEF Rename
<1> QED BY <1>7, <1>8, <1>9, <1>10 DEF SaveStep

LEMMA BannerStartStep == StoreInv /\ BannerInv /\ (Mount \/ Load \/ Halt) => BannerInv'
<1> SUFFICES ASSUME StoreInv, BannerInv, Mount \/ Load \/ Halt PROVE BannerInv'
  OBVIOUS
<1> USE DEF BannerInv, DefaultsAtStart, CallerFits, SavesCfg, SoundFlash
<1>0. NoJob.caller = "load"
  BY DEF NoJob
<1>1. CASE Mount
  BY <1>1 DEF Mount, fileVars, ramVars, StoreInv, IdleAtStart, CfgAnnounced, FileAnnounced
<1>2. CASE Halt
  BY <1>2 DEF Halt, CfgAnnounced, FileAnnounced
<1>3. CASE Load
  <2>1. /\ job = NoJob /\ cfg = Defaults /\ lapse' = lapse /\ live' = live
        /\ UNCHANGED <<mounted, sound>> /\ (sound => mounted)
    BY <1>3 DEF Load, Begin, fileVars, StoreInv, IdleAtStart
  <2>2. CASE /\ boot' \in {"fresh", "blind"} /\ cfg' = cfg
             /\ job' = [step |-> "open", what |-> Defaults, caller |-> "load"]
    BY <2>1, <2>2 DEF CfgAnnounced, FileAnnounced
  <2>3. CASE /\ boot' = "up" /\ job' = job /\ booted' = cfg'
             /\ sound /\ live \in Configs => cfg' = live
    <3>1. CfgAnnounced' /\ FileAnnounced'
      BY <2>1, <2>3 DEF CfgAnnounced, FileAnnounced, Announced, InForce
    <3> QED BY <2>1, <2>3, <3>1
  <2>4. CASE Start(Defaults) /\ job' = job /\ (~mounted \/ live = Unreadable \/ ~sound)
    BY <2>1, <2>3, <2>4, SettingsAssumption DEF Start
  <2>5. CASE Start(live) /\ job' = job
    BY <2>3, <2>5 DEF Start
  <2> QED BY <1>3, <2>2, <2>4, <2>5 DEF Load, Begin
<1> QED BY <1>1, <1>2, <1>3

LEMMA BannerWebStep ==
    StoreInv /\ BannerInv
        /\ (Cool \/ PostSave \/ PostReset \/ \E settings \in Configs : PostConfig(settings))
        => BannerInv'
<1> SUFFICES ASSUME StoreInv, BannerInv,
                    Cool \/ PostSave \/ PostReset \/ \E settings \in Configs : PostConfig(settings)
             PROVE  BannerInv'
  OBVIOUS
<1> USE DEF BannerInv, DefaultsAtStart, CallerFits, SavesCfg, SoundFlash
<1>0. NoJob.caller = "load"
  BY DEF NoJob
<1>1. CASE Cool
  BY <1>1 DEF Cool, fileVars, CfgAnnounced, FileAnnounced, Announced, InForce
<1>2. CASE PostSave
  <2>1. /\ job = NoJob /\ boot = "up" /\ Announced(cfg)
        /\ job' = [step |-> "open", what |-> cfg, caller |-> "save"]
        /\ UNCHANGED <<live, lapse, cfg, booted, rebootRequired, boot, mounted, sound>>
    BY <1>0, <1>2 DEF PostSave, Request, Ready, Begin, ramVars, CfgAnnounced
  <2> QED BY <1>0, <2>1 DEF CfgAnnounced, FileAnnounced, Announced, InForce
<1>3. CASE PostReset
  <2>1. /\ job' = [step |-> "open", what |-> Defaults, caller |-> "reset"] /\ cfg' = Defaults
        /\ boot = "up" /\ UNCHANGED <<lapse, boot, mounted, sound>>
    BY <1>3 DEF PostReset, Request, Ready, Begin
  <2> QED BY <2>1 DEF CfgAnnounced, FileAnnounced
<1>4. CASE \E settings \in Configs : PostConfig(settings)
  <2>1. PICK settings \in Configs : PostConfig(settings)
    BY <1>4
  <2>2. /\ job = NoJob /\ boot = "up" /\ cfg' = settings
        /\ rebootRequired' = (rebootRequired \/ WaitsForRestart(settings))
        /\ UNCHANGED <<live, lapse, booted, boot, mounted, job, sound>>
    BY <2>1 DEF PostConfig, Request, Ready, fileVars
  <2>3. rebootRequired' \/ InForce(settings)
    BY <2>2, NotWaiting
  <2>4. CfgAnnounced'
    BY <2>2, <2>3 DEF CfgAnnounced, Announced, InForce
  <2>5. FileAnnounced'
    BY <2>2 DEF FileAnnounced, Announced, InForce
  <2> QED BY <2>2, <2>4, <2>5
<1> QED BY <1>1, <1>2, <1>3, <1>4

LEMMA BannerStepInv == StoreInv /\ BannerInv /\ (StoreStep \/ Halt) => BannerInv'
  BY BannerSaveStep, BannerStartStep, BannerWebStep DEF StoreStep

LEMMA BannerStutter ==
    BannerInv /\ UNCHANGED <<live, lapse, cfg, booted, rebootRequired, boot, mounted, job, sound>>
        => BannerInv'
  BY DEF BannerInv, DefaultsAtStart, CallerFits, SavesCfg, SoundFlash, CfgAnnounced,
         FileAnnounced, Announced, InForce

-----------------------------------------------------------------------------
(***************************************************************************)
(* The firmware uploads.                                                   *)
(***************************************************************************)

\* The chunks 1..n of one client's body, as Update is to get them.
BodyOf(u, n) == [k \in 1..n |-> <<u, k>>]
AllFrom(pieces, u) == \A i \in DOMAIN pieces : pieces[i][1] = u

\* Once the outcome is known nothing more is kept of the image.
ImageDropped == otaStatus # 0 => image = NoImage
\* While a body is coming in and no outcome is known, Update holds its beginning.
ImageBegun == otaStatus = 0 /\ (\E u \in Uploaders : body[u] # Idle) => image # NoImage
\* What one client alone gave Update is the beginning of its body, unless it has left.
ImageInOrder ==
    \A u \in Uploaders :
        image # NoImage /\ AllFrom(image, u) /\ body[u] # Idle => image = BodyOf(u, body[u])

UploadInv ==
    /\ UploadTypeOK
    /\ ImageDropped
    /\ ImageBegun
    /\ ImageInOrder
    /\ FlashWhole

LEMMA UploadInitInv == UploadInit => UploadInv
<1> SUFFICES ASSUME UploadInit PROVE UploadInv
  OBVIOUS
<1>1. UploadTypeOK
  <2>1. body \in [Uploaders -> 1..Idle]
    BY UploadAssumption DEF UploadInit, Idle
  <2>2. image \in Seq(Pieces) /\ flash \in Seq(Pieces)
    BY DEF UploadInit, NoImage
  <2> QED BY <2>1, <2>2 DEF UploadInit, UploadTypeOK
<1> QED BY <1>1
        DEF UploadInit, UploadInv, ImageDropped, ImageBegun, ImageInOrder, FlashWhole

LEMMA FailOtaStep ==
    ASSUME UploadInv, FailOta, body' \in [Uploaders -> 1..Idle],
           rebootAt' \in BOOLEAN, stuck' \in BOOLEAN, uploads' \in 0..MaxUploads
    PROVE  UploadInv'
<1> USE DEF UploadInv, FailOta
<1>1. UploadTypeOK'
  <2>1. image' \in Seq(Pieces)
    BY DEF NoImage
  <2> QED BY <2>1 DEF UploadTypeOK
<1> QED BY <1>1 DEF ImageDropped, ImageBegun, ImageInOrder, FlashWhole, Failed

\* A body of n chunks and one more.
LEMMA BodyGrows ==
    ASSUME NEW u \in Uploaders, NEW n \in Nat
    PROVE  /\ BodyOf(u, n) \in Seq(Uploaders \X Nat) /\ Len(BodyOf(u, n)) = n
           /\ Append(BodyOf(u, n), <<u, n + 1>>) = BodyOf(u, n + 1)
  BY DEF BodyOf

\* Appending a piece of v's leaves one client's body only if it was v's before.
LEMMA AppendedFrom ==
    ASSUME NEW pieces \in Seq(Pieces), NEW v \in Uploaders, NEW k \in 1..Chunks,
           NEW u \in Uploaders, AllFrom(Append(pieces, <<v, k>>), u)
    PROVE  u = v /\ AllFrom(pieces, u)
<1> DEFINE longer == Append(pieces, <<v, k>>)
<1>1. longer[Len(pieces) + 1] = <<v, k>> /\ Len(pieces) + 1 \in DOMAIN longer
  BY DEF Pieces
<1>2. \A i \in DOMAIN pieces : i \in DOMAIN longer /\ longer[i] = pieces[i]
  BY DEF Pieces
<1> QED BY <1>1, <1>2 DEF AllFrom

LEMMA WriteChunkStep ==
    ASSUME UploadInv, NEW u \in Uploaders, NEW k \in 1..Chunks, NEW before \in Seq(Pieces),
           WriteChunk(u, k, before),
           body' = [body EXCEPT ![u] = k],
           \/ k = 1 /\ before = <<>>
           \/ k > 1 /\ body[u] = k - 1 /\ before = image /\ otaStatus = 0,
           rebootAt' \in BOOLEAN, stuck' \in BOOLEAN, uploads' \in 0..MaxUploads
    PROVE  UploadInv'
<1> DEFINE longer == Append(before, <<u, k>>)
<1> USE UploadAssumption
<1>1. body' \in [Uploaders -> 1..Idle] /\ body'[u] = k /\ k # Idle
  <2>1. k \in 1..Idle /\ k # Idle
    BY DEF Idle
  <2> QED BY <2>1 DEF UploadInv, UploadTypeOK
<1>2. longer \in Seq(Pieces) /\ longer # <<>>
  <2>1. <<u, k>> \in Pieces
    BY DEF Pieces
  <2>2. longer \in Seq(Pieces) /\ Len(longer) = Len(before) + 1
    BY <2>1
  <2>3. longer[Len(before) + 1] = <<u, k>> /\ Len(before) + 1 \in DOMAIN longer
    BY <2>1
  <2>4. DOMAIN <<>> = {}
    OBVIOUS
  <2> HIDE DEF longer
  <2> QED BY <2>2, <2>3, <2>4
\* What is given to Update from one client alone is from this one, and in order.
<1>3. ASSUME NEW v \in Uploaders, AllFrom(longer, v)
      PROVE  v = u /\ longer = BodyOf(u, k)
  <2>1. v = u /\ AllFrom(before, u)
    BY <1>3, AppendedFrom
  <2>2. CASE k = 1 /\ before = <<>>
    BY <2>1, <2>2 DEF BodyOf
  <2>3. CASE k > 1 /\ body[u] = k - 1 /\ before = image /\ otaStatus = 0
    <3>1. body[u] # Idle
      BY <2>3 DEF Idle
    <3>2. image # NoImage
      BY <2>3, <3>1 DEF UploadInv, ImageBegun
    <3>3. image = BodyOf(u, k - 1)
      BY <2>1, <2>3, <3>1, <3>2 DEF UploadInv, ImageInOrder
    <3>4. k - 1 \in Nat /\ k = (k - 1) + 1
      BY <2>3
    <3> QED BY <2>1, <2>3, <3>3, <3>4, BodyGrows
  <2> QED BY <2>1, <2>2, <2>3
<1>4. CASE FailOta
  BY <1>1, <1>4, FailOtaStep
<1>5. CASE otaStatus' = 0 /\ otaActive' = TRUE /\ image' = longer /\ UNCHANGED flash
  <2>1. UploadTypeOK'
    BY <1>1, <1>2, <1>5 DEF UploadInv, UploadTypeOK
  <2>2. ImageDropped' /\ ImageBegun'
    BY <1>2, <1>5 DEF ImageDropped, ImageBegun, NoImage
  <2>3. ImageInOrder'
    BY <1>1, <1>3, <1>5 DEF ImageInOrder
  <2> QED BY <1>5, <2>1, <2>2, <2>3 DEF UploadInv, FlashWhole
<1>6. CASE /\ otaStatus' = 200 /\ otaActive' = TRUE /\ k = Chunks
            /\ image' = NoImage /\ flash' = longer
  <2>1. image' \in Seq(Pieces)
    BY <1>6 DEF NoImage
  <2>2. UploadTypeOK'
    BY <1>1, <1>2, <1>6, <2>1 DEF UploadInv, UploadTypeOK
  <2>3. FlashWhole'
    BY <1>3, <1>6 DEF FlashWhole, AllFrom, BodyOf
  <2> QED BY <1>6, <2>2, <2>3 DEF UploadInv, ImageDropped, ImageBegun, ImageInOrder
<1> QED BY <1>4, <1>5, <1>6 DEF WriteChunk

LEMMA FirstChunkStep ==
    ASSUME UploadInv, NEW u \in Uploaders, FirstChunk(u) PROVE UploadInv'
<1>1. /\ rebootAt' \in BOOLEAN /\ stuck' \in BOOLEAN /\ uploads' \in 0..MaxUploads
      /\ body' \in [Uploaders -> 1..Idle]
  <2>1. body' \in [Uploaders -> 1..Idle]
    BY UploadAssumption DEF FirstChunk, UploadInv, UploadTypeOK, Idle
  <2>2. uploads' \in 0..MaxUploads
    BY UploadAssumption DEF FirstChunk, UploadInv, UploadTypeOK
  <2>3. rebootAt' \in BOOLEAN /\ stuck' \in BOOLEAN
    BY DEF FirstChunk, UploadInv, UploadTypeOK
  <2> QED BY <2>1, <2>2, <2>3
<1>2. CASE FailOta
  BY <1>1, <1>2, FailOtaStep
<1>3. CASE WriteChunk(u, 1, <<>>)
  <2>1. 1 \in 1..Chunks /\ <<>> \in Seq(Pieces) /\ body' = [body EXCEPT ![u] = 1]
    BY UploadAssumption DEF FirstChunk
  <2> QED BY <1>1, <1>3, <2>1, WriteChunkStep
<1> QED BY <1>2, <1>3 DEF FirstChunk

LEMMA LaterChunkStep ==
    ASSUME UploadInv, NEW u \in Uploaders, LaterChunk(u) PROVE UploadInv'
<1> DEFINE k == body[u] + 1
<1>1. /\ k \in 1..Chunks /\ k > 1 /\ body[u] = k - 1 /\ body' = [body EXCEPT ![u] = k]
      /\ body[u] \in 1..Idle
  BY UploadAssumption DEF LaterChunk, UploadInv, UploadTypeOK, Idle
<1>2. rebootAt' \in BOOLEAN /\ stuck' \in BOOLEAN /\ uploads' \in 0..MaxUploads
  BY DEF LaterChunk, UploadInv, UploadTypeOK
<1>3. CASE otaStatus # 0 /\ UNCHANGED <<otaStatus, otaActive, image, flash>>
  <2>1. image = NoImage
    BY <1>3 DEF UploadInv, ImageDropped
  <2>2. body' \in [Uploaders -> 1..Idle]
    BY <1>1, UploadAssumption DEF UploadInv, UploadTypeOK, Idle
  <2>3. UploadTypeOK'
    BY <1>2, <1>3, <2>2 DEF UploadInv, UploadTypeOK
  <2> QED BY <1>3, <2>1, <2>3
          DEF UploadInv, ImageDropped, ImageBegun, ImageInOrder, FlashWhole
<1>4. CASE otaStatus = 0 /\ WriteChunk(u, k, image)
  <2>1. image \in Seq(Pieces)
    BY DEF UploadInv, UploadTypeOK
  <2> HIDE DEF k
  <2> QED BY <1>1, <1>2, <1>4, <2>1, WriteChunkStep
<1> QED BY <1>3, <1>4 DEF LaterChunk

\* A client is done, or goes; the rest of the upload stays.
LEMMA BodyOverStep ==
    ASSUME UploadInv, NEW u \in Uploaders, body' = [body EXCEPT ![u] = Idle],
           UNCHANGED <<otaStatus, otaActive, image, flash, uploads>>,
           rebootAt' \in BOOLEAN, stuck' \in BOOLEAN
    PROVE  UploadInv'
<1>1. body' \in [Uploaders -> 1..Idle]
  BY UploadAssumption DEF UploadInv, UploadTypeOK, Idle
<1>2. \A v \in Uploaders : body'[v] # Idle => body[v] = body'[v]
  BY DEF UploadInv, UploadTypeOK
<1>3. UploadTypeOK'
  BY <1>1 DEF UploadInv, UploadTypeOK
<1> QED BY <1>2, <1>3 DEF UploadInv, ImageDropped, ImageBegun, ImageInOrder, FlashWhole

LEMMA RebootAsked ==
    ASSUME UploadInv, RequestReboot PROVE rebootAt' \in BOOLEAN /\ stuck' \in BOOLEAN
  BY DEF RequestReboot, UploadInv, UploadTypeOK

LEMMA UploadStepInv == UploadInv /\ UploadStep => UploadInv'
<1> SUFFICES ASSUME UploadInv, NEW u \in Uploaders, Receive(u) \/ Leave(u) PROVE UploadInv'
  BY DEF UploadStep
<1>1. CASE FirstChunk(u) \/ LaterChunk(u)
  BY <1>1, FirstChunkStep, LaterChunkStep
<1>2. CASE Respond(u)
  <2>1. rebootAt' \in BOOLEAN /\ stuck' \in BOOLEAN
    BY <1>2, RebootAsked DEF Respond, UploadInv, UploadTypeOK
  <2> QED BY <1>2, <2>1, BodyOverStep DEF Respond
<1>3. CASE Leave(u)
  <2>1. rebootAt' \in BOOLEAN /\ stuck' \in BOOLEAN
    BY <1>3 DEF Leave, UploadInv, UploadTypeOK
  <2> QED BY <1>3, <2>1, BodyOverStep DEF Leave
<1> QED BY <1>1, <1>2, <1>3 DEF Receive

LEMMA UploadRestartStep == UploadInv /\ UploadRestart => UploadInv'
<1> SUFFICES ASSUME UploadInv, UploadRestart PROVE UploadInv'
  OBVIOUS
<1>1. body' \in [Uploaders -> 1..Idle]
  BY UploadAssumption DEF UploadRestart, Idle
<1>2. image' \in Seq(Pieces)
  BY DEF UploadRestart, NoImage
<1>3. UploadTypeOK'
  BY <1>1, <1>2 DEF UploadRestart, UploadInv, UploadTypeOK
<1> QED BY <1>3
        DEF UploadRestart, UploadInv, ImageDropped, ImageBegun, ImageInOrder, FlashWhole
-----------------------------------------------------------------------------
(***************************************************************************)
(* The GNSS module.  Where the driver is in its sweep, or how long it has  *)
(* waited, bounds how old a valid position can be and how long nothing can *)
(* have been lost without the module being heard.  The invariant says so   *)
(* of each state the search passes through: the speed is ahead of the      *)
(* sweep or behind it, the orders were given or are refused, the messages  *)
(* are on.                                                                 *)
(***************************************************************************)

\* One while the driver is still to be serviced in this tick.
Due == IF serviced = "yes" THEN 0 ELSE 1
Has(what) == \E i \in 1..Len(rx) : rx[i] = what
HasMessage == \E i \in 1..Len(rx) : rx[i] \in Messages
PositionFirst == \E i \in 1..Len(rx) : rx[i] = "POSLLH" /\ \A j \in 1..(i - 1) : rx[j] \in Answers
Sweeping == drv.state = "Sweep"
Parsing == drv.state = "Parse"

\* What a module can be asked for and say, and what the driver makes of it.
KindsDiffer ==
    /\ module.on # {} => Fitted /\ module.baud = Target
    /\ module.kind = "none" => rx = <<>>
    /\ module.kind # "old" =>
          /\ module.on \subseteq {"PVT"} /\ ~drv.legacy
          /\ \A i \in 1..Len(rx) : rx[i] \in {"PVT", "ACK"}
    /\ module.kind = "old" =>
          /\ module.on \subseteq Legacy
          /\ \A i \in 1..Len(rx) : rx[i] \in Legacy \cup Answers
\* Answers are read soon after the orders, before any message.
AnswersFirst ==
    /\ Sweeping => \A i \in 1..Len(rx) : rx[i] \in Messages
    /\ \A i \in 1..Len(rx) : rx[i] = "NAK" => i = 1
    /\ Has("NAK") => drv.awaiting /\ ~drv.legacy
    /\ serviced = "yes" => ~HasMessage /\ Len(rx) <= 2
    /\ serviced = "yes" /\ rx # <<>> => calm <= SettleTime - 3
\* The driver listens at the target speed, and looks for a silent module again.
Watching == Parsing => drv.baud = Target /\ (serviced = "yes" => drv.quiet <= Silence)

ValidRecently ==
    module.kind # "old" /\ drv.valid =>
    LET bound == IF Sweeping THEN drv.idx - 1 + Due ELSE drv.quiet + Len(Bauds)
    IN  drv.age <= bound \/ running <= bound
\* Once nothing is lost, a module that sends anything is not looked for.
SoughtRecently ==
    /\ Sweeping /\ (drv.valid \/ module.on # {} \/ rx # <<>>) => calm <= drv.idx + Due
    /\ Parsing /\ serviced # "yes" /\ module.on # {} =>
          drv.quiet = 0 \/ calm = 0 \/ HasMessage
\* An order is refused in the tick after it was given.
RefusedRecently ==
    /\ Has("NAK") /\ (drv.valid \/ module.on # {} \/ HasMessage) => calm <= Len(Bauds) + 1 + Due
    /\ Has("NAK") /\ module.baud # Target => calm <= Due
\* What a module sends no more is still there only if it has just restarted, or the loop was parked.
HeardWhileAsked == HasMessage /\ module.on = {} => calm = 0
OldPositionFirst ==
    Parsing /\ "POSLLH" \in module.on =>
    \/ ~drv.valid /\ ~HasMessage
    \/ drv.age <= Len(Bauds) + 2 \/ calm <= Len(Bauds) + 2
    \/ /\ serviced # "yes" /\ PositionFirst
       /\ ~drv.valid \/ drv.age <= Len(Bauds) + 3 \/ calm <= Len(Bauds) + 3

\* The sweep has the speed of the module before it.
Ahead == module.baud = Target \/ \E j \in (drv.idx + 1)..Len(Bauds) : Bauds[j] = module.baud
Complete == IF module.kind = "old" THEN module.on = Legacy ELSE module.on = {"PVT"}
Renewing == IF module.kind = "old"
            THEN (drv.age = 0 \/ Has("POSLLH")) /\ (drv.valid \/ Has("SOL"))
            ELSE Has("PVT")
\* The sweep that is under way has passed the module, or the next one may begin no later than
\* the silence lets it.
SweepReaches ==
    Fitted /\ Sweeping =>
    \/ Ahead /\ calm <= Len(Bauds) + Silence + drv.idx + Due
    \/ calm <= drv.idx - 2 + Due
\* A module asked for nothing yet refuses, or is looked for once the silence is over.
SilentSought ==
    Fitted /\ Parsing /\ module.on = {} =>
    \/ Has("NAK") /\ calm <= SettleTime - 3 + Due
    \/ calm <= Len(Bauds) - 1 + drv.quiet
\* A module asked for all it should send has been heard, or is heard in the next tick.
HeardSoon ==
    Fitted /\ Parsing /\ Complete =>
    \/ drv.valid /\ drv.age = 0
    \/ calm <= SettleTime - 2
    \/ /\ serviced # "yes" /\ Renewing
       /\ (drv.valid /\ drv.age <= 1) \/ calm <= SettleTime - 1
GnssInv ==
    /\ GnssTypeOK /\ KindsDiffer /\ AnswersFirst /\ Watching /\ ValidRecently
    /\ SoughtRecently /\ RefusedRecently /\ HeardWhileAsked /\ OldPositionFirst
    /\ SweepReaches /\ SilentSought /\ HeardSoon

Drivers == [state : {"Sweep", "Parse"}, idx : 0..Len(Bauds), quiet : 0..(Silence + 1),
            baud : Speeds, awaiting : BOOLEAN, legacy : BOOLEAN, valid : BOOLEAN, age : 0..Aged]
Refused(d, e) == e = "NAK" /\ d.awaiting /\ ~d.legacy

LEMMA GnssConstants ==
    /\ Len(Bauds) \in Nat \ {0} /\ Silence \in Nat /\ Silence >= 2 /\ RxCap \in Nat /\ RxCap >= 3
    /\ SettleTime = Silence + 2 * Len(Bauds) + 4
    /\ Aged = Silence + Len(Bauds) + 2
    /\ Target \in Speeds /\ Factory \in Speeds
    /\ \A i \in 1..Len(Bauds) : Bauds[i] \in Speeds
<1>1. Len(Bauds) \in Nat \ {0} /\ DOMAIN Bauds = 1..Len(Bauds)
  BY GnssAssumption
<1>2. \A i \in 1..Len(Bauds) : Bauds[i] \in Speeds
  BY <1>1 DEF Speeds
<1>3. Target \in Speeds
  BY <1>1, <1>2 DEF Target
<1> QED BY <1>1, <1>2, <1>3, GnssAssumption DEF SettleTime, Aged, Lasting

\* The numbers alone, for the steps that count.
LEMMA GnssBounds ==
    /\ Len(Bauds) \in Nat /\ Len(Bauds) > 0 /\ Silence \in Nat /\ Silence >= 2
    /\ SettleTime \in Nat /\ SettleTime = Silence + 2 * Len(Bauds) + 4 /\ Aged \in Nat
  BY GnssConstants

LEMMA UptoIs ==
    ASSUME NEW n \in Nat, NEW bound \in Nat
    PROVE  /\ Upto(n, bound) \in 0..bound /\ Upto(n, bound) <= n
           /\ Upto(n, bound) = n \/ Upto(n, bound) = bound
  BY DEF Upto

\* What reading a message does to the driver.
LEMMA HandleFacts ==
    ASSUME NEW d \in Drivers, NEW e \in Messages \cup Answers
    PROVE  /\ Handle(d, e) \in Drivers
           /\ Handle(d, e).state = d.state /\ Handle(d, e).idx = d.idx
           /\ Handle(d, e).baud = d.baud
           /\ Handle(d, e).valid <=> d.valid \/ e \in {"PVT", "SOL"}
           /\ Handle(d, e).age = IF e \in {"PVT", "POSLLH"} THEN 0 ELSE d.age
           /\ Handle(d, e).quiet = IF e \in Messages \/ Refused(d, e) THEN 0 ELSE d.quiet
           /\ Handle(d, e).legacy <=> d.legacy \/ Refused(d, e)
           /\ Handle(d, e).awaiting <=> d.awaiting /\ (e \in Messages \/ d.legacy)
<1> USE GnssConstants DEF Messages, Answers, Legacy
<1>0. d.age \in 0..Aged /\ d.quiet \in 0..(Silence + 1) /\ 0 \in 0..Aged /\ 0 \in 0..(Silence + 1)
  BY DEF Drivers
<1>1. CASE e = "PVT"
  <2>1. Handle(d, e) = [d EXCEPT !.valid = TRUE, !.age = 0, !.quiet = 0]
    BY <1>1 DEF Handle, HandlePvt
  <2> QED BY <1>0, <1>1, <2>1 DEF Drivers, Refused
<1>2. CASE e = "POSLLH"
  <2>1. Handle(d, e) = [d EXCEPT !.age = 0, !.quiet = 0]
    BY <1>2 DEF Handle, HandleLegacyNav
  <2> QED BY <1>0, <1>2, <2>1 DEF Drivers, Refused
<1>3. CASE e = "SOL"
  <2>1. Handle(d, e) = [d EXCEPT !.valid = TRUE, !.quiet = 0]
    BY <1>3 DEF Handle, HandleLegacyNav
  <2> QED BY <1>0, <1>3, <2>1 DEF Drivers, Refused
<1>4. CASE e = "DOP"
  <2>1. Handle(d, e) = [d EXCEPT !.quiet = 0]
    BY <1>4 DEF Handle, HandleLegacyNav
  <2> QED BY <1>0, <1>4, <2>1 DEF Drivers, Refused
<1>5. CASE e = "ACK" /\ d.awaiting /\ ~d.legacy
  <2>1. Handle(d, e) = [d EXCEPT !.awaiting = FALSE]
    BY <1>5 DEF Handle, HandleAck
  <2> QED BY <1>0, <1>5, <2>1 DEF Drivers, Refused
<1>6. CASE e = "NAK" /\ d.awaiting /\ ~d.legacy
  <2>1. Handle(d, e) = [d EXCEPT !.awaiting = FALSE, !.legacy = TRUE, !.quiet = 0]
    BY <1>6 DEF Handle, HandleAck
  <2> QED BY <1>0, <1>6, <2>1 DEF Drivers, Refused
<1>7. CASE e \in Answers /\ ~(d.awaiting /\ ~d.legacy)
  <2>1. Handle(d, e) = d
    BY <1>7 DEF Handle, HandleAck
  <2> QED BY <1>0, <1>7, <2>1 DEF Drivers, Refused
<1> QED BY <1>1, <1>2, <1>3, <1>4, <1>5, <1>6, <1>7

\* Of what was received and what comes, as much is kept as the serial buffer holds.
LEMMA Kept ==
    ASSUME NEW S, NEW s \in Seq(S), NEW t \in Seq(S), NEW n \in Nat, n <= Len(s) + Len(t)
    PROVE  LET k == SubSeq(s \o t, 1, n) IN
           /\ k \in Seq(S) /\ Len(k) = n
           /\ \A i \in 1..n : k[i] = IF i <= Len(s) THEN s[i] ELSE t[i - Len(s)]
<1>1. s \o t \in Seq(S) /\ Len(s \o t) = Len(s) + Len(t)
  OBVIOUS
<1>2. \A i \in 1..Len(s \o t) : (s \o t)[i] = IF i <= Len(s) THEN s[i] ELSE t[i - Len(s)]
  OBVIOUS
<1>3. Len(SubSeq(s \o t, 1, n)) = n /\ \A i \in 1..n : SubSeq(s \o t, 1, n)[i] = (s \o t)[i]
  BY <1>1
<1>4. SubSeq(s \o t, 1, n) \in Seq(S)
  BY <1>1
<1> QED BY <1>1, <1>2, <1>3, <1>4

\* The messages of a solution are those asked for, an old module's position first.
LEMMA SolutionIs ==
    ASSUME NEW on \in SUBSET Messages
    PROVE  /\ Solution(on) \in Seq(on)
           /\ on # {} => Len(Solution(on)) > 0
           /\ on = {"PVT"} => Solution(on) = <<"PVT">>
           /\ on = Legacy => /\ Len(Solution(on)) = 3
                             /\ Solution(on)[1] = "POSLLH" /\ Solution(on)[2] = "SOL"
           /\ "POSLLH" \in on /\ "PVT" \notin on =>
                Len(Solution(on)) > 0 /\ Solution(on)[1] = "POSLLH"
<1> DEFINE Sent(what) == IF what \in on THEN <<what>> ELSE <<>>
<1>1. \A what : /\ Sent(what) \in Seq(on)
                /\ (what \in on => Len(Sent(what)) = 1 /\ Sent(what)[1] = what)
                /\ (what \notin on => Len(Sent(what)) = 0 /\ Sent(what) = <<>>)
  OBVIOUS
<1> HIDE DEF Sent
<1>2. Solution(on) = Sent("PVT") \o Sent("POSLLH") \o Sent("SOL") \o Sent("DOP")
  BY DEF Solution, Sent
<1>3. Solution(on) \in Seq(on)
  BY <1>1, <1>2
<1>4. Len(Solution(on)) = Len(Sent("PVT")) + Len(Sent("POSLLH")) + Len(Sent("SOL")) + Len(Sent("DOP"))
  BY <1>1, <1>2
<1>5. on # {} => Len(Solution(on)) > 0
  <2>1. Len(Sent("PVT")) \in Nat /\ Len(Sent("POSLLH")) \in Nat /\ Len(Sent("SOL")) \in Nat
        /\ Len(Sent("DOP")) \in Nat
    BY <1>1
  <2>2. on # {} => "PVT" \in on \/ "POSLLH" \in on \/ "SOL" \in on \/ "DOP" \in on
    BY DEF Messages, Legacy
  <2> QED BY <1>1, <1>4, <2>1, <2>2
<1>6. ASSUME on = {"PVT"} PROVE Solution(on) = <<"PVT">>
  <2>1. Sent("PVT") = <<"PVT">> /\ Sent("POSLLH") = <<>> /\ Sent("SOL") = <<>> /\ Sent("DOP") = <<>>
    BY <1>6 DEF Sent
  <2>2. <<"PVT">> \o <<>> \o <<>> \o <<>> = <<"PVT">>
    OBVIOUS
  <2> QED BY <1>2, <2>1, <2>2, Zenon
<1>7. ASSUME on = Legacy
      PROVE  Len(Solution(on)) = 3 /\ Solution(on)[1] = "POSLLH" /\ Solution(on)[2] = "SOL"
  <2>1. /\ Sent("PVT") = <<>> /\ Sent("POSLLH") = <<"POSLLH">> /\ Sent("SOL") = <<"SOL">>
        /\ Sent("DOP") = <<"DOP">>
    BY <1>7 DEF Sent, Legacy
  <2>2. <<>> \o <<"POSLLH">> = <<"POSLLH">>
    OBVIOUS
  <2>3. Solution(on) = <<"POSLLH">> \o <<"SOL">> \o <<"DOP">>
    BY <1>2, <2>1, <2>2, Zenon
  <2> QED BY <2>3
<1>8. ASSUME "POSLLH" \in on, "PVT" \notin on
      PROVE  Len(Solution(on)) > 0 /\ Solution(on)[1] = "POSLLH"
  <2>1. Sent("PVT") = <<>> /\ Sent("POSLLH") = <<"POSLLH">>
    BY <1>8 DEF Sent
  <2>2. <<>> \o <<"POSLLH">> = <<"POSLLH">>
    OBVIOUS
  <2>3. Solution(on) = <<"POSLLH">> \o Sent("SOL") \o Sent("DOP")
    BY <1>2, <2>1, <2>2, Zenon
  <2> QED BY <1>1, <2>3
<1> QED BY <1>3, <1>5, <1>6, <1>7, <1>8

\* The driver after each kind of step.
LEMMA DriverBegins ==
    ASSUME NEW d \in Drivers, NEW n, n = [d EXCEPT !.valid = FALSE, !.state = "Sweep", !.idx = 0]
    PROVE  /\ n \in Drivers /\ n.state = "Sweep" /\ n.idx = 0 /\ ~n.valid
           /\ n.legacy = d.legacy /\ n.age = d.age /\ n.quiet = d.quiet
<1>1. 0 \in 0..Len(Bauds)
  BY GnssConstants
<1> QED BY <1>1 DEF Drivers

LEMMA DriverAges ==
    ASSUME NEW d \in Drivers, NEW q \in 0..(Silence + 1), NEW a \in 0..Aged,
           NEW n, n = [d EXCEPT !.quiet = q, !.age = a]
    PROVE  /\ n \in Drivers /\ n.state = d.state /\ n.idx = d.idx /\ n.valid = d.valid
           /\ n.age = a /\ n.legacy = d.legacy /\ n.baud = d.baud /\ n.quiet = q
           /\ n.awaiting = d.awaiting
  BY DEF Drivers

\* The types, a variable at a time.
LEMMA GnssTypes ==
    ASSUME GnssTypeOK
    PROVE  /\ drv \in Drivers
           /\ drv.state \in {"Sweep", "Parse"} /\ drv.idx \in 0..Len(Bauds)
           /\ drv.quiet \in 0..(Silence + 1) /\ drv.baud \in Speeds
           /\ drv.valid \in BOOLEAN /\ drv.awaiting \in BOOLEAN /\ drv.legacy \in BOOLEAN
           /\ drv.age \in 0..Aged
           /\ module \in [kind : Kinds, baud : Speeds, on : SUBSET Messages]
           /\ module.kind \in Kinds /\ module.baud \in Speeds /\ module.on \subseteq Messages
           /\ rx \in Seq(Messages \cup Answers) /\ Len(rx) \in Nat /\ Len(rx) <= RxCap
           /\ serviced \in {"no", "reading", "yes"}
           /\ calm \in 0..SettleTime /\ running \in 0..Aged
           /\ Due \in {0, 1}
           /\ (serviced = "yes") <=> Due = 0
  BY DEF GnssTypeOK, Drivers, Due

LEMMA GnssTypesNext == GnssTypeOK' =>
    /\ drv' \in Drivers
    /\ module' \in [kind : Kinds, baud : Speeds, on : SUBSET Messages]
    /\ rx' \in Seq(Messages \cup Answers) /\ Len(rx') <= RxCap
    /\ serviced' \in {"no", "reading", "yes"}
    /\ calm' \in 0..SettleTime /\ running' \in 0..Aged
  BY DEF GnssTypeOK, Drivers

LEMMA GnssTypedNext ==
    /\ drv' \in Drivers
    /\ module' \in [kind : Kinds, baud : Speeds, on : SUBSET Messages]
    /\ rx' \in Seq(Messages \cup Answers) /\ Len(rx') <= RxCap
    /\ serviced' \in {"no", "reading", "yes"}
    /\ calm' \in 0..SettleTime /\ running' \in 0..Aged
    => GnssTypeOK'
  BY DEF GnssTypeOK, Drivers

LEMMA GnssInitInv == GnssInit => GnssInv
<1> SUFFICES ASSUME GnssInit PROVE GnssInv
  OBVIOUS
<1> USE GnssConstants DEF GnssInit
<1>1. /\ drv = [state |-> "Sweep", idx |-> 0, quiet |-> 0, baud |-> Target, awaiting |-> FALSE,
                legacy |-> FALSE, valid |-> FALSE, age |-> Aged]
      /\ drv.state = "Sweep" /\ drv.idx = 0 /\ ~drv.valid /\ ~drv.legacy
      /\ module.baud = Factory /\ module.kind \in Kinds /\ module.on = {}
      /\ rx = <<>> /\ Len(rx) = 0 /\ serviced = "no" /\ calm = 0 /\ running = Aged
  OBVIOUS
<1>2. GnssTypeOK
  BY <1>1 DEF GnssTypeOK
<1>3. PICK j \in 1..Len(Bauds) : Bauds[j] = module.baud
  BY <1>1, GnssAssumption DEF Speeds
<1>4. SweepReaches /\ SilentSought /\ HeardSoon
  BY <1>1, <1>3 DEF SweepReaches, SilentSought, HeardSoon, Ahead, Sweeping, Parsing, Due
<1>5. KindsDiffer /\ AnswersFirst /\ Watching /\ ValidRecently
  BY <1>1 DEF KindsDiffer, AnswersFirst, Watching, ValidRecently, Has, HasMessage, Parsing
<1>6. SoughtRecently /\ RefusedRecently /\ HeardWhileAsked /\ OldPositionFirst
  BY <1>1 DEF SoughtRecently, RefusedRecently, HeardWhileAsked, OldPositionFirst, Has, HasMessage, Sweeping, Parsing
<1> QED BY <1>2, <1>4, <1>5, <1>6 DEF GnssInv

LEMMA GnssStutter == GnssInv /\ UNCHANGED gnssVars => GnssInv'
<1> SUFFICES ASSUME GnssInv, UNCHANGED gnssVars PROVE GnssInv'
  OBVIOUS
<1>1. drv' = drv /\ module' = module /\ rx' = rx /\ serviced' = serviced /\ calm' = calm
      /\ running' = running
  BY DEF gnssVars
<1>2. /\ Due' = Due /\ HasMessage' = HasMessage /\ (Parsing' <=> Parsing) /\ (Sweeping' <=> Sweeping)
      /\ (Fitted' <=> Fitted) /\ (PositionFirst' <=> PositionFirst) /\ (Ahead' <=> Ahead)
      /\ Has("NAK")' = Has("NAK") /\ Has("PVT")' = Has("PVT")
      /\ Has("POSLLH")' = Has("POSLLH") /\ Has("SOL")' = Has("SOL")
  BY <1>1 DEF Due, HasMessage, Parsing, Sweeping, Fitted, PositionFirst, Ahead, Has
<1>3. GnssTypeOK' /\ KindsDiffer'
  BY <1>1 DEF GnssInv, GnssTypeOK, KindsDiffer, Fitted
<1>4. AnswersFirst' /\ Watching' /\ ValidRecently' /\ SoughtRecently'
  BY <1>1, <1>2 DEF GnssInv, AnswersFirst, Watching, ValidRecently, SoughtRecently
<1>5. RefusedRecently' /\ HeardWhileAsked' /\ OldPositionFirst' /\ SweepReaches' /\ SilentSought'
  BY <1>1, <1>2 DEF GnssInv, RefusedRecently, HeardWhileAsked, OldPositionFirst, SweepReaches, SilentSought
<1>6. HeardSoon'
  BY <1>1, <1>2 DEF GnssInv, HeardSoon, Complete, Renewing
<1> QED BY <1>3, <1>4, <1>5, <1>6 DEF GnssInv

\* A speed the module may have is in the list.
LEMMA SomeSpeed == ASSUME NEW b \in Speeds PROVE \E j \in 1..Len(Bauds) : Bauds[j] = b
  BY GnssAssumption DEF Speeds

LEMMA GnssRestartKeeps == GnssInv /\ GnssRestart => GnssInv'
<1> SUFFICES ASSUME GnssInv, GnssRestart PROVE GnssInv'
  OBVIOUS
<1> USE GnssConstants
<1>1. /\ drv' = [state |-> "Sweep", idx |-> 0, quiet |-> 0, baud |-> Target, awaiting |-> FALSE,
                legacy |-> FALSE, valid |-> FALSE, age |-> Aged]
      /\ module' = module
      /\ rx' = <<>> /\ Len(rx') = 0 /\ serviced' = "no" /\ calm' = 0 /\ running' = Aged
  BY DEF GnssRestart
<1>2. drv'.state = "Sweep" /\ drv'.idx = 0 /\ ~drv'.valid /\ ~drv'.legacy
  BY <1>1
<1>3. GnssTypeOK'
  BY <1>1 DEF GnssTypeOK, GnssInv
<1>4. PICK j \in 1..Len(Bauds) : Bauds[j] = module.baud
  BY SomeSpeed, GnssTypes DEF GnssInv
<1>5. SweepReaches' /\ SilentSought' /\ HeardSoon'
  BY <1>1, <1>2, <1>4 DEF SweepReaches, SilentSought, HeardSoon, Ahead, Sweeping, Parsing, Due
<1>6. KindsDiffer'
  BY <1>1, <1>2 DEF GnssInv, KindsDiffer, Fitted
<1>7. AnswersFirst' /\ Watching' /\ ValidRecently'
  BY <1>1, <1>2 DEF AnswersFirst, Watching, ValidRecently, Has, HasMessage, Parsing
<1>8. SoughtRecently' /\ RefusedRecently' /\ HeardWhileAsked' /\ OldPositionFirst'
  BY <1>1, <1>2 DEF SoughtRecently, RefusedRecently, HeardWhileAsked, OldPositionFirst, Has, HasMessage, Sweeping,
                    Parsing, Due
<1> QED BY <1>3, <1>5, <1>6, <1>7, <1>8 DEF GnssInv

LEMMA ModuleRestartKeeps == GnssInv /\ ModuleRestart => GnssInv'
<1> SUFFICES ASSUME GnssInv, ModuleRestart PROVE GnssInv'
  OBVIOUS
<1> USE GnssConstants
<1>0. GnssTypeOK
  BY DEF GnssInv
<1>1. /\ module' = [module EXCEPT !.baud = Factory, !.on = {}]
      /\ drv' = drv /\ rx' = rx /\ serviced' = serviced /\ calm' = 0 /\ running' = running
  BY DEF ModuleRestart
<1>2. module'.kind = module.kind /\ module'.baud = Factory /\ module'.on = {}
  BY <1>0, <1>1, GnssTypes
<1>3. GnssTypeOK'
  <2>1. module' \in [kind : Kinds, baud : Speeds, on : SUBSET Messages]
    BY <1>0, <1>1, GnssTypes
  <2>2. 0 \in 0..SettleTime
    BY GnssBounds
  <2> HIDE GnssConstants
  <2>3. drv \in Drivers /\ rx \in Seq(Messages \cup Answers) /\ Len(rx) <= RxCap
        /\ serviced \in {"no", "reading", "yes"} /\ running \in 0..Aged
    BY <1>0, GnssTypes
  <2> QED BY <1>1, <2>1, <2>2, <2>3, GnssTypedNext
<1>4. KindsDiffer'
  BY <1>1, <1>2 DEF GnssInv, KindsDiffer, Fitted
<1>5. AnswersFirst' /\ Watching' /\ ValidRecently'
  BY <1>1, <1>2 DEF GnssInv, AnswersFirst, Watching, ValidRecently, Has, HasMessage, Parsing, Sweeping, Due
<1>6. SoughtRecently' /\ RefusedRecently' /\ HeardWhileAsked' /\ OldPositionFirst'
  <2> HIDE GnssConstants
  <2>1. Len(Bauds) \in Nat /\ calm' = 0 /\ Due' \in {0, 1}
    BY <1>1, GnssBounds DEF Due
  <2>2. drv'.idx \in Nat
    BY <1>0, <1>1, GnssTypes
  <2>3. SoughtRecently'
    BY <1>2, <2>1, <2>2 DEF SoughtRecently
  <2>4. RefusedRecently'
    BY <2>1 DEF RefusedRecently
  <2>5. HeardWhileAsked' /\ OldPositionFirst'
    BY <1>2, <2>1 DEF HeardWhileAsked, OldPositionFirst
  <2> QED BY <2>3, <2>4, <2>5
<1>7. SweepReaches'
  <2>0. calm' = 0 /\ drv'.idx = drv.idx /\ Due' \in {0, 1}
    BY <1>1 DEF Due
  <2>1. PICK j \in 1..Len(Bauds) : Bauds[j] = Factory
    BY SomeSpeed
  <2>2. CASE drv.idx >= 2
    BY <1>0, <2>0, <2>2, GnssTypes DEF SweepReaches
  <2>3. CASE drv.idx < 2
    <3>1. Ahead'
      <4>1. CASE Factory = Target
        BY <1>2, <4>1 DEF Ahead
      <4>2. CASE Factory # Target
        <5>1. j > 1
          BY <2>1, <4>2 DEF Target
        <5>2. j \in (drv'.idx + 1)..Len(Bauds)
          <6> HIDE GnssConstants
          <6>1. drv.idx \in Nat /\ drv'.idx = drv.idx /\ Len(Bauds) \in Nat
            BY <1>0, <2>0, GnssTypes, GnssBounds
          <6>2. j \in Nat /\ j <= Len(Bauds) /\ drv.idx + 1 <= j
            BY <2>1, <2>3, <5>1, <6>1
          <6> QED BY <6>1, <6>2
        <5> QED BY <1>2, <2>1, <5>2 DEF Ahead
      <4> QED BY <4>1, <4>2
    <3>2. drv.idx \in Nat /\ Len(Bauds) \in Nat
      BY <1>0, GnssTypes
    <3>3. calm' <= Len(Bauds) + Silence + drv'.idx + Due'
      BY <2>0, <3>2
    <3> QED BY <3>1, <3>3 DEF SweepReaches
  <2>4. drv.idx \in Nat
    BY <1>0, GnssTypes
  <2> HIDE GnssConstants
  <2> QED BY <2>2, <2>3, <2>4
<1>8. SilentSought'
  <2> HIDE GnssConstants
  <2>1. drv'.quiet \in Nat /\ calm' = 0 /\ Len(Bauds) \in Nat /\ Len(Bauds) > 0
    BY <1>0, <1>1, GnssTypes, GnssBounds
  <2>2. calm' <= Len(Bauds) - 1 + drv'.quiet
    BY <2>1
  <2> QED BY <2>2 DEF SilentSought
<1>9. HeardSoon'
  BY <1>0, <1>1, GnssTypes DEF HeardSoon
<1> QED BY <1>3, <1>4, <1>5, <1>6, <1>7, <1>8, <1>9 DEF GnssInv

LEMMA SweepStepKeeps == GnssInv /\ SweepStep => GnssInv'
<1> SUFFICES ASSUME GnssInv, SweepStep PROVE GnssInv'
  OBVIOUS
<1> USE GnssConstants
<1>0. GnssTypeOK
  BY DEF GnssInv
<1> DEFINE baud == Bauds[drv.idx + 1]
<1>1. /\ serviced # "yes" /\ rx = <<>> /\ serviced' = "yes" /\ running' = running
      /\ drv.state = "Sweep" /\ drv.idx < Len(Bauds) /\ rx' = <<>>
      /\ drv' = [drv EXCEPT !.baud = baud, !.idx = drv.idx + 1]
      /\ \/ module' = [module EXCEPT !.baud = Target] /\ calm' = calm
         \/ module' = module /\ calm' = IF Link(baud) THEN 0 ELSE calm
  BY DEF SweepStep, Service, Written
<1>2. drv.idx + 1 \in 1..Len(Bauds) /\ baud \in Speeds
  <2>1. drv.idx \in Nat
    BY <1>0, GnssTypes
  <2>2. drv.idx + 1 \in 1..Len(Bauds)
    <3> HIDE GnssConstants
    <3>1. drv.idx < Len(Bauds) /\ Len(Bauds) \in Nat
      BY <1>1, GnssBounds
    <3> QED BY <2>1, <3>1
  <2> QED BY <2>2
<1> HIDE DEF baud
<1>3. /\ drv' \in Drivers /\ drv'.state = "Sweep" /\ drv'.idx = drv.idx + 1
      /\ drv'.valid = drv.valid /\ drv'.age = drv.age /\ drv'.legacy = drv.legacy
  <2>1. drv \in Drivers /\ drv.idx + 1 \in 0..Len(Bauds)
    BY <1>0, <1>2, GnssTypes
  <2>2. PICK i \in 0..Len(Bauds) : i = drv.idx + 1
    BY <2>1
  <2>3. PICK b \in Speeds : b = baud
    BY <1>2
  <2>4. drv' = [drv EXCEPT !.baud = b, !.idx = i]
    BY <1>1, <2>2, <2>3
  <2>5. drv \in Drivers /\ b \in Speeds /\ i \in 0..Len(Bauds)
    BY <2>1, <2>2, <2>3
  <2> HIDE GnssConstants
  <2>6. drv' \in Drivers /\ drv'.state = drv.state /\ drv'.idx = i
        /\ drv'.valid = drv.valid /\ drv'.age = drv.age /\ drv'.legacy = drv.legacy
    BY <2>4, <2>5 DEF Drivers
  <2> QED BY <1>1, <2>2, <2>6
<1>4. /\ module' \in [kind : Kinds, baud : Speeds, on : SUBSET Messages]
      /\ module'.on = module.on /\ module'.kind = module.kind
      /\ module'.baud = Target \/ module'.baud = module.baud
  BY <1>0, <1>1, GnssTypes
<1>5. calm' \in {0, calm} /\ Len(rx') = 0 /\ Due = 1 /\ Due' = 0
  BY <1>1 DEF Due
<1>6. GnssTypeOK'
  <2> HIDE GnssConstants
  <2>1. calm \in 0..SettleTime /\ running \in 0..Aged /\ rx \in Seq(Messages \cup Answers)
        /\ Len(rx) <= RxCap /\ rx' = rx /\ running' = running /\ serviced' = "yes"
    BY <1>0, <1>1, GnssTypes
  <2>2. calm' \in 0..SettleTime
    <3>1. 0 \in 0..SettleTime
      BY GnssBounds
    <3> QED BY <1>5, <2>1, <3>1
  <2> QED BY <1>3, <1>4, <2>1, <2>2, GnssTypedNext
<1>7. KindsDiffer'
  BY <1>1, <1>3, <1>4, <1>5 DEF GnssInv, KindsDiffer, Fitted
<1>8. AnswersFirst' /\ Watching' /\ RefusedRecently' /\ HeardWhileAsked' /\ OldPositionFirst'
  BY <1>1, <1>3, <1>5
     DEF AnswersFirst, Watching, RefusedRecently, HeardWhileAsked, OldPositionFirst, Has, HasMessage, Parsing
<1>20. /\ drv.idx \in Nat /\ drv'.idx = drv.idx + 1 /\ drv'.idx - 1 + Due' = drv.idx - 1 + Due
       /\ drv'.idx + Due' = drv.idx + Due /\ running' = running /\ calm \in Nat
  <2> HIDE GnssConstants
  <2>1. drv.idx \in Nat /\ calm \in Nat
    BY <1>0, GnssTypes
  <2> QED BY <1>1, <1>3, <1>5, <2>1
<1>9. ValidRecently'
  <2> HIDE GnssConstants
  <2> SUFFICES ASSUME module.kind # "old", drv.valid
               PROVE  drv.age <= drv.idx - 1 + Due \/ running <= drv.idx - 1 + Due
    BY <1>3, <1>4, <1>20 DEF ValidRecently, Sweeping
  <2> QED BY <1>1 DEF GnssInv, ValidRecently, Sweeping
<1>10. SoughtRecently'
  <2> HIDE GnssConstants
  <2>1. calm' <= calm /\ calm' \in Nat
    BY <1>5, <1>20
  <2>2. ASSUME drv.valid \/ module.on # {} PROVE calm' <= drv.idx + Due
    <3>1. calm <= drv.idx + Due
      BY <1>1, <2>2 DEF GnssInv, SoughtRecently, Sweeping
    <3> QED BY <1>5, <1>20, <2>1, <3>1
  <2> QED BY <1>1, <1>3, <1>4, <1>20, <2>2 DEF SoughtRecently, Sweeping, Parsing
<1>11. SilentSought' /\ HeardSoon'
  BY <1>3 DEF SilentSought, HeardSoon, Parsing
<1>12. SweepReaches'
  <2> SUFFICES ASSUME Fitted'
               PROVE  \/ Ahead' /\ calm' <= Len(Bauds) + Silence + drv'.idx + Due'
                      \/ calm' <= drv'.idx - 2 + Due'
    BY DEF SweepReaches
  <2>1. Fitted
    BY <1>4 DEF Fitted
  <2>2. drv.idx \in Nat /\ calm \in Nat
    BY <1>0, GnssTypes
  <2>3. \/ Ahead /\ calm <= Len(Bauds) + Silence + drv.idx + 1
        \/ calm <= drv.idx - 1
    <3>1. \/ Ahead /\ calm <= Len(Bauds) + Silence + drv.idx + Due
          \/ calm <= drv.idx - 2 + Due
      BY <1>1, <2>1 DEF GnssInv, SweepReaches, Sweeping
    <3> QED BY <1>5, <2>2, <3>1
  <2>4. CASE calm <= drv.idx - 1
    BY <1>3, <1>5, <2>2, <2>4
  <2>5. CASE Ahead /\ calm <= Len(Bauds) + Silence + drv.idx + 1
    <3>1. CASE Ahead'
      <4> HIDE GnssConstants
      <4>1. calm' <= calm /\ calm' \in Nat /\ Due' = 0 /\ drv'.idx = drv.idx + 1
        BY <1>3, <1>5, <1>20, <2>2
      <4>2. calm' <= Len(Bauds) + Silence + drv'.idx + Due'
        BY <2>2, <2>5, <4>1, GnssBounds
      <4> QED BY <3>1, <4>2
    <3>2. CASE ~Ahead'
      <4>1. module'.baud # Target /\ module'.baud = module.baud /\ module' = module
        BY <1>0, <1>1, <1>4, <3>2, GnssTypes DEF Ahead
      <4>2. PICK j \in (drv.idx + 1)..Len(Bauds) : Bauds[j] = module.baud
        BY <2>5, <4>1 DEF Ahead
      <4>3. j = drv.idx + 1
        BY <1>3, <2>2, <3>2, <4>1, <4>2 DEF Ahead
      <4>4. module.baud = baud
        BY <4>2, <4>3 DEF baud
      <4>5. calm' = 0
        <5>1. Link(baud)
          BY <2>1, <4>4 DEF Link
        <5>2. module' # [module EXCEPT !.baud = Target]
          BY <1>0, <4>1, GnssTypes
        <5> QED BY <1>1, <5>1, <5>2
      <4>6. drv.idx # 0
        BY <4>1, <4>4 DEF baud, Target
      <4> HIDE GnssConstants
      <4>7. calm' <= drv'.idx - 2 + Due'
        BY <1>3, <1>5, <2>2, <4>5, <4>6
      <4> QED BY <4>7
    <3> QED BY <3>1, <3>2
  <2> QED BY <2>3, <2>4, <2>5
<1> QED BY <1>6, <1>7, <1>8, <1>9, <1>10, <1>11, <1>12 DEF GnssInv

LEMMA WatchKeeps == GnssInv /\ Watch => GnssInv'
<1> SUFFICES ASSUME GnssInv, Watch PROVE GnssInv'
  OBVIOUS
<1> USE GnssConstants
<1>0. GnssTypeOK
  BY DEF GnssInv
<1>1. /\ serviced # "yes" /\ rx = <<>> /\ serviced' = "yes" /\ running' = running
      /\ drv.state = "Parse" /\ module' = module /\ rx' = rx /\ calm' = calm
      /\ drv' = IF drv.quiet > Silence
                THEN [drv EXCEPT !.valid = FALSE, !.state = "Sweep", !.idx = 0] ELSE drv
  BY DEF Watch, Service
<1>2. Len(rx) = 0 /\ Len(rx') = 0 /\ Due = 1 /\ Due' = 0 /\ calm \in Nat /\ drv.quiet \in Nat
  BY <1>0, <1>1, GnssTypes DEF Due
<1>3. ~HasMessage /\ ~Has("NAK") /\ ~HasMessage' /\ ~Has("NAK")' /\ ~Has("PVT") /\ ~Has("SOL")
      /\ ~Has("POSLLH")
  BY <1>2 DEF HasMessage, Has
<1>4. drv' \in Drivers /\ drv'.legacy = drv.legacy /\ drv'.age = drv.age
      /\ drv'.quiet = drv.quiet
  BY <1>0, <1>1, GnssTypes, DriverBegins
<1>5. GnssTypeOK'
  BY <1>0, <1>1, <1>4 DEF GnssTypeOK, Drivers
<1>6. KindsDiffer' /\ AnswersFirst' /\ RefusedRecently' /\ HeardWhileAsked'
  BY <1>1, <1>2, <1>3, <1>4 DEF GnssInv, KindsDiffer, AnswersFirst, RefusedRecently,
                                  HeardWhileAsked, Fitted
<1>7. CASE drv.quiet > Silence
  <2>1. drv'.state = "Sweep" /\ drv'.idx = 0 /\ ~drv'.valid
    BY <1>0, <1>1, <1>7, GnssTypes, DriverBegins
  <2>2. module.on # {} => calm = 0
    BY <1>1, <1>2, <1>3, <1>7 DEF GnssInv, SoughtRecently, Parsing
  <2>3. Watching' /\ ValidRecently' /\ OldPositionFirst' /\ SilentSought' /\ HeardSoon'
    BY <2>1 DEF Watching, ValidRecently, OldPositionFirst, SilentSought, HeardSoon, Parsing
  <2>4. SoughtRecently'
    BY <1>1, <1>2, <2>1, <2>2 DEF SoughtRecently, Sweeping, Parsing
  <2>5. SweepReaches'
    <3>1. Ahead'
      <4>1. PICK j \in 1..Len(Bauds) : Bauds[j] = module.baud
        BY <1>0, GnssTypes, SomeSpeed
      <4> QED BY <1>1, <2>1, <4>1 DEF Ahead
    <3>2. Fitted => calm <= Len(Bauds) + Silence
      <4>1. drv.quiet <= Silence + 1
        BY <1>0, GnssTypes
      <4> HIDE GnssConstants
      <4>2. Len(Bauds) \in Nat /\ Len(Bauds) > 0 /\ Silence \in Nat
        BY GnssBounds
      <4>3. ASSUME Fitted, module.on = {} PROVE calm <= Len(Bauds) - 1 + drv.quiet
        BY <1>1, <1>3, <4>3 DEF GnssInv, SilentSought, Parsing
      <4>4. ASSUME Fitted, module.on = {} PROVE calm <= Len(Bauds) + Silence
        BY <1>2, <4>1, <4>2, <4>3, <4>4
      <4>5. 0 <= Len(Bauds) + Silence
        BY <4>2
      <4> QED BY <2>2, <4>4, <4>5
    <3> QED BY <1>1, <1>2, <2>1, <3>1, <3>2 DEF SweepReaches, Fitted
  <2> QED BY <1>5, <1>6, <2>3, <2>4, <2>5 DEF GnssInv
<1>8. CASE drv.quiet <= Silence
  <2>1. drv' = drv
    BY <1>1, <1>2, <1>8
  <2>2. Watching' /\ SoughtRecently'
    BY <1>1, <1>8, <2>1 DEF GnssInv, Watching, SoughtRecently, Sweeping, Parsing
  <2>3. ValidRecently'
    BY <1>1, <2>1 DEF GnssInv, ValidRecently, Sweeping
  <2>4. OldPositionFirst'
    <3>1. ~PositionFirst
      BY <1>2 DEF PositionFirst
    <3> QED BY <1>1, <1>3, <2>1, <3>1 DEF GnssInv, OldPositionFirst, Parsing
  <2>5. SweepReaches'
    BY <1>1, <2>1 DEF SweepReaches, Sweeping
  <2>6. SilentSought'
    BY <1>1, <1>3, <2>1 DEF GnssInv, SilentSought, Fitted, Parsing
  <2>7. HeardSoon'
    <3>1. Renewing => drv.valid /\ drv.age = 0
      BY <1>3 DEF Renewing
    <3> QED BY <1>1, <2>1, <3>1 DEF GnssInv, HeardSoon, Fitted, Parsing, Complete
  <2> QED BY <1>5, <1>6, <2>2, <2>3, <2>4, <2>5, <2>6, <2>7 DEF GnssInv
<1> QED BY <1>2, <1>7, <1>8

LEMMA AtMostOne ==
    ASSUME NEW S, NEW e \in S, NEW s, s = <<>> \/ s = <<e>>
    PROVE  s \in Seq(S) /\ Len(s) <= 1 /\ \A i \in 1..Len(s) : s[i] = e
<1>1. CASE s = <<>>
  BY <1>1
<1>2. CASE s = <<e>>
  BY <1>2
<1> QED BY <1>1, <1>2

\* What the module is asked for at the end of the sweep, and what it answers.
LEMMA Settled ==
    ASSUME GnssInv, Settle
    PROVE  /\ module' \in [kind : Kinds, baud : Speeds, on : SUBSET Messages]
           /\ module'.kind = module.kind /\ module'.baud = module.baud
           /\ calm' \in {0, calm}
           /\ rx' \in Seq(Answers) /\ Len(rx') <= 2
           /\ \A i \in 1..Len(rx') : rx'[i] = "NAK" => i = 1
           /\ rx' # <<>> => Link(Target)
           /\ Has("NAK")' => module.kind = "old" /\ ~drv.legacy /\ module' = module
           /\ \/ module'.on = module.on
              \/ Link(Target) /\ module.kind = "modern" /\ module'.on = module.on \cup {"PVT"}
              \/ Link(Target) /\ module.kind = "old" /\ drv.legacy
                 /\ module'.on \subseteq module.on \cup Legacy /\ module.on \subseteq module'.on
           /\ Link(Target) /\ calm' # 0 =>
              \/ module.kind = "modern" /\ "PVT" \in module'.on
              \/ module.kind = "old" /\ drv.legacy /\ Legacy \subseteq module'.on
              \/ module.kind = "old" /\ Has("NAK")'
<1>0. GnssTypeOK /\ calm \in Nat
  BY GnssTypes DEF GnssInv
<1>1. module \in [kind : Kinds, baud : Speeds, on : SUBSET Messages]
  BY <1>0, GnssTypes
<1>2. Legacy \subseteq Messages /\ "PVT" \in Messages
  BY DEF Legacy, Messages
<1>3. CASE ~Link(Target)
  <2>1. rx' = <<>> /\ module' = module /\ calm' = calm
    BY <1>3 DEF Settle, Written
  <2>2. rx' \in Seq(Answers) /\ Len(rx') = 0
    BY <2>1
  <2> QED BY <1>1, <1>3, <2>1, <2>2 DEF Has
<1>4. CASE Link(Target) /\ drv.legacy
  <2>1. PICK lost \in SUBSET Legacy : Enable(Legacy, lost) /\ Written(lost) /\ rx' = <<>>
    BY <1>4 DEF Settle
  <2>2. module' = [module EXCEPT !.on = module.on \cup (Legacy \ lost)]
        /\ calm' = IF lost = {} THEN calm ELSE 0
    BY <2>1 DEF Enable, Written
  <2>3. module.on \cup (Legacy \ lost) \in SUBSET Messages
    BY <1>1, <1>2
  <2>4. /\ module' \in [kind : Kinds, baud : Speeds, on : SUBSET Messages]
        /\ module'.kind = module.kind /\ module'.baud = module.baud
        /\ module'.on = module.on \cup (Legacy \ lost)
    BY <1>1, <2>2, <2>3
  <2>5. module.kind = "old"
    BY <1>0, <1>4, GnssTypes DEF GnssInv, KindsDiffer
  <2>6. rx' \in Seq(Answers) /\ Len(rx') = 0
    BY <2>1
  <2>7. calm' # 0 => Legacy \subseteq module'.on
    BY <2>2, <2>4
  <2> QED BY <1>4, <2>1, <2>2, <2>4, <2>5, <2>6, <2>7 DEF Has
<1>5. CASE Link(Target) /\ ~drv.legacy
  <2>1. PICK lost \in SUBSET {"PVT", "first", "later"} :
            /\ Enable(IF module.kind = "modern" THEN {"PVT"} ELSE {}, lost)
            /\ Written(lost)
            /\ rx' = (IF lost \cap {"PVT", "first"} # {} THEN <<>>
                      ELSE <<IF module.kind = "modern" THEN "ACK" ELSE "NAK">>)
                     \o (IF "later" \in lost THEN <<>> ELSE <<"ACK">>)
    BY <1>5 DEF Settle
  <2>2. calm' = IF lost = {} THEN calm ELSE 0
    BY <2>1 DEF Written
  <2>3. module.kind = "modern" \/ module.kind = "old"
    BY <1>0, <1>5, GnssTypes, GnssAssumption DEF Link, Fitted
  <2>4. PICK first \in {"ACK", "NAK"} : first = IF module.kind = "modern" THEN "ACK" ELSE "NAK"
    OBVIOUS
  <2>5. /\ rx' \in Seq(Answers) /\ Len(rx') <= 2
        /\ \A i \in 1..Len(rx') : rx'[i] = "ACK" \/ (i = 1 /\ rx'[i] = first)
        /\ lost = {} => Len(rx') = 2 /\ rx'[1] = first
    <3>1. PICK a \in {<<>>, <<first>>} : a = IF lost \cap {"PVT", "first"} # {} THEN <<>> ELSE <<first>>
      OBVIOUS
    <3>2. PICK b \in {<<>>, <<"ACK">>} : b = IF "later" \in lost THEN <<>> ELSE <<"ACK">>
      OBVIOUS
    <3>3. rx' = a \o b
      BY <2>1, <2>4, <3>1, <3>2
    <3>4. a \in Seq(Answers) /\ Len(a) <= 1 /\ \A i \in 1..Len(a) : a[i] = first
      BY <2>4, <3>1, AtMostOne DEF Answers
    <3>5. b \in Seq(Answers) /\ Len(b) <= 1 /\ \A i \in 1..Len(b) : b[i] = "ACK"
      BY <3>2, AtMostOne DEF Answers
    <3>6. rx' \in Seq(Answers) /\ Len(rx') = Len(a) + Len(b)
      BY <3>3, <3>4, <3>5
    <3>7. \A i \in 1..Len(rx') : rx'[i] = IF i <= Len(a) THEN a[i] ELSE b[i - Len(a)]
      BY <3>3, <3>4, <3>5
    <3>8. \A i \in 1..Len(rx') : rx'[i] = "ACK" \/ (i = 1 /\ rx'[i] = first)
      BY <3>4, <3>5, <3>6, <3>7
    <3>9. ASSUME lost = {} PROVE Len(rx') = 2 /\ rx'[1] = first
      <4>1. a = <<first>> /\ b = <<"ACK">>
        BY <3>1, <3>2, <3>9
      <4>2. Len(a) = 1 /\ Len(b) = 1 /\ a[1] = first
        BY <4>1
      <4> QED BY <3>6, <3>7, <4>2
    <3> QED BY <3>4, <3>5, <3>6, <3>8, <3>9
  <2>6. \A i \in 1..Len(rx') : rx'[i] = "NAK" => i = 1
    BY <2>5
  <2>7. CASE module.kind = "modern"
    <3>1. module' = [module EXCEPT !.on = module.on \cup ({"PVT"} \ lost)]
      BY <2>1, <2>7 DEF Enable
    <3>2. module.on \cup ({"PVT"} \ lost) \in SUBSET Messages
      BY <1>1, <1>2
    <3>3. /\ module' \in [kind : Kinds, baud : Speeds, on : SUBSET Messages]
          /\ module'.kind = module.kind /\ module'.baud = module.baud
          /\ module'.on = module.on \cup ({"PVT"} \ lost)
      BY <1>1, <3>1, <3>2
    <3>4. module'.on = module.on \/ module'.on = module.on \cup {"PVT"}
      BY <2>1, <3>3
    <3>5. calm' # 0 => "PVT" \in module'.on
      BY <2>2, <3>3
    <3>6. ~Has("NAK")'
      <4>1. \A i \in 1..Len(rx') : rx'[i] = "ACK"
        BY <2>4, <2>5, <2>7
      <4> QED BY <4>1 DEF Has
    <3> QED BY <1>5, <2>2, <2>5, <2>6, <2>7, <3>3, <3>4, <3>5, <3>6
  <2>8. CASE module.kind = "old"
    <3>1. module' = [module EXCEPT !.on = module.on \cup ({} \ lost)]
      BY <2>1, <2>8 DEF Enable
    <3>2. module' = module
      BY <1>1, <3>1
    <3>3. calm' # 0 => Has("NAK")'
      <4>1. ASSUME calm' # 0 PROVE Len(rx') = 2 /\ rx'[1] = "NAK"
        BY <2>2, <2>4, <2>5, <2>8, <4>1
      <4> QED BY <4>1 DEF Has
    <3> QED BY <1>1, <1>5, <2>2, <2>5, <2>6, <2>8, <3>2, <3>3
  <2> QED BY <2>3, <2>7, <2>8
<1> QED BY <1>3, <1>4, <1>5

LEMMA SettleKeeps == GnssInv /\ Settle => GnssInv'
<1> SUFFICES ASSUME GnssInv, Settle PROVE GnssInv'
  OBVIOUS
<1>0. GnssTypeOK /\ Len(Bauds) \in Nat /\ Len(Bauds) > 0 /\ Silence \in Nat /\ Silence >= 2
      /\ SettleTime = Silence + 2 * Len(Bauds) + 4
  BY GnssConstants DEF GnssInv
<1>1. /\ serviced # "yes" /\ rx = <<>> /\ serviced' = "yes" /\ running' = running
      /\ drv.state = "Sweep" /\ drv.idx = Len(Bauds)
  BY DEF Settle, Service
<1>2. /\ drv' \in Drivers /\ drv'.state = "Parse" /\ drv'.valid = drv.valid
      /\ drv'.age = drv.age /\ drv'.legacy = drv.legacy /\ drv'.baud = Target /\ drv'.quiet = 0
      /\ drv'.awaiting = (drv.awaiting \/ ~drv.legacy)
  <2>1. PICK a \in BOOLEAN : a = (drv.awaiting \/ ~drv.legacy)
    BY Zenon
  <2>2. drv' = [drv EXCEPT !.baud = Target, !.state = "Parse", !.quiet = 0, !.awaiting = a]
    BY <2>1, Zenon DEF Settle
  <2>3. drv \in Drivers /\ Target \in Speeds /\ a \in BOOLEAN
    BY <1>0, <2>1, GnssTypes, GnssConstants
  <2>4. /\ drv' \in Drivers /\ drv'.state = "Parse" /\ drv'.valid = drv.valid
        /\ drv'.age = drv.age /\ drv'.legacy = drv.legacy /\ drv'.baud = Target
        /\ drv'.quiet = 0 /\ drv'.awaiting = a
    <3>1. 0 \in 0..(Silence + 1)
      BY <1>0
    <3> QED BY <2>2, <2>3, <3>1 DEF Drivers
  <2> QED BY <2>1, <2>4, Zenon
<1>3. Due = 1 /\ Due' = 0 /\ calm \in Nat /\ drv.age \in Nat /\ running \in Nat
  BY <1>0, <1>1, GnssTypes, GnssConstants DEF Due
<1>4. calm' \in {0, calm}
  BY Settled
<1>5. rx' \in Seq(Answers) /\ Len(rx') <= 2 /\ \A i \in 1..Len(rx') : rx'[i] = "NAK" => i = 1
  BY Settled
<1>6. /\ rx' \in Seq(Messages \cup Answers) /\ Len(rx') <= 2
      /\ \A i \in 1..Len(rx') : rx'[i] \in Answers /\ (rx'[i] = "NAK" => i = 1)
  BY <1>5
<1>7. GnssTypeOK'
  BY <1>0, <1>1, <1>2, <1>4, <1>6, Settled, GnssConstants DEF GnssTypeOK, Drivers
<1>8. ~HasMessage'
  BY <1>6 DEF HasMessage, Answers, Messages, Legacy
<1>9. KindsDiffer'
  <2>1. module'.on # {} => Fitted' /\ module'.baud = Target
    BY Settled DEF GnssInv, KindsDiffer, Link, Fitted
  <2>2. module'.kind = "none" => rx' = <<>>
    BY Settled DEF Link, Fitted
  <2>3. module'.kind # "old" => module'.on \subseteq {"PVT"} /\ ~drv'.legacy
    BY <1>2, Settled DEF GnssInv, KindsDiffer
  <2>4. module'.kind # "old" => \A i \in 1..Len(rx') : rx'[i] \in {"PVT", "ACK"}
    BY <1>6, Settled DEF Has, Answers
  <2>5. module'.kind = "old" => module'.on \subseteq Legacy
    BY Settled DEF GnssInv, KindsDiffer
  <2>6. module'.kind = "old" => \A i \in 1..Len(rx') : rx'[i] \in Legacy \cup Answers
    BY <1>6
  <2> QED BY <2>1, <2>2, <2>3, <2>4, <2>5, <2>6 DEF KindsDiffer
<1>10. Fitted => calm <= Len(Bauds) + Silence + Len(Bauds) + 1
  BY <1>0, <1>1, <1>3 DEF GnssInv, SweepReaches, Sweeping
<1>11. AnswersFirst'
  <2>1. Has("NAK")' => drv'.awaiting /\ ~drv'.legacy
    BY <1>2, Settled
  <2>2. rx' # <<>> => calm' <= SettleTime - 3
    BY <1>0, <1>3, <1>4, <1>10, Settled DEF Link
  <2> QED BY <1>2, <1>6, <1>8, <2>1, <2>2 DEF AnswersFirst, Sweeping
<1>12. Watching'
  BY <1>0, <1>2 DEF Watching
<1>13. ValidRecently'
  <2>1. module'.kind # "old" /\ drv.valid => drv.age <= Len(Bauds) \/ running <= Len(Bauds)
    BY <1>0, <1>1, <1>3, Settled DEF GnssInv, ValidRecently, Sweeping
  <2> QED BY <1>0, <1>1, <1>2, <1>3, <2>1 DEF ValidRecently, Sweeping
<1>14. drv.valid \/ module.on # {} => calm <= Len(Bauds) + 1
  BY <1>1, <1>3 DEF GnssInv, SoughtRecently, Sweeping
<1>15. SoughtRecently'
  BY <1>1, <1>2 DEF SoughtRecently, Sweeping
<1>16. RefusedRecently'
  <2>1. ASSUME Has("NAK")', drv'.valid \/ module'.on # {}
        PROVE  calm' <= Len(Bauds) + 1 + Due'
    <3>1. drv.valid \/ module.on # {}
      BY <1>2, <2>1, Settled
    <3> QED BY <1>0, <1>3, <1>4, <1>14, <3>1
  <2>2. Has("NAK")' => module'.baud = Target
    BY Settled DEF Has, Link
  <2> QED BY <1>8, <2>1, <2>2 DEF RefusedRecently
<1>21. HeardWhileAsked'
  BY <1>8 DEF HeardWhileAsked
<1>17. OldPositionFirst'
  <2> SUFFICES ASSUME drv'.valid PROVE calm' <= Len(Bauds) + 2
    BY <1>8 DEF OldPositionFirst
  <2> QED BY <1>0, <1>2, <1>3, <1>4, <1>14
<1>18. SweepReaches'
  BY <1>2 DEF SweepReaches, Sweeping
<1>19. SilentSought'
  <2> SUFFICES ASSUME Fitted', module'.on = {}
               PROVE  \/ Has("NAK")' /\ calm' <= SettleTime - 3 + Due'
                      \/ calm' <= Len(Bauds) - 1 + drv'.quiet
    BY DEF SilentSought
  <2>1. Fitted
    BY Settled DEF Fitted
  <2>2. CASE calm' = 0
    BY <1>0, <1>2, <2>2
  <2>3. CASE calm' # 0 /\ Link(Target)
    <3>1. Has("NAK")'
      BY <2>3, Settled DEF Legacy
    <3> QED BY <1>0, <1>3, <1>4, <1>10, <2>1, <3>1
  <2>4. CASE ~Link(Target)
    <3>1. ~Ahead
      BY <1>0, <1>1, <2>1, <2>4 DEF Ahead, Link
    <3>2. calm <= Len(Bauds) - 1
      BY <1>0, <1>1, <1>3, <2>1, <3>1 DEF GnssInv, SweepReaches, Sweeping
    <3> QED BY <1>0, <1>2, <1>3, <1>4, <3>2
  <2> QED BY <2>2, <2>3, <2>4
<1>20. HeardSoon'
  <2>1. Fitted' => calm' <= SettleTime - 2
    BY <1>0, <1>3, <1>4, <1>10, Settled DEF Fitted
  <2> QED BY <2>1 DEF HeardSoon
<1> QED BY <1>7, <1>9, <1>11, <1>12, <1>13, <1>15, <1>16, <1>17, <1>18, <1>19, <1>20,
          <1>21 DEF GnssInv

LEMMA ReadKeeps == GnssInv /\ Read => GnssInv'
<1> SUFFICES ASSUME GnssInv, Read PROVE GnssInv'
  OBVIOUS
<1>0. GnssTypeOK /\ Len(Bauds) \in Nat /\ Len(Bauds) > 0 /\ Silence \in Nat /\ Silence >= 2
      /\ SettleTime = Silence + 2 * Len(Bauds) + 4
  BY GnssConstants DEF GnssInv
<1>1. /\ serviced # "yes" /\ rx # <<>> /\ serviced' = "reading" /\ running' = running
      /\ drv' = Handle(drv, Head(rx)) /\ rx' = Tail(rx)
  BY DEF Read
<1>2. PICK e \in Messages \cup Answers : e = rx[1] /\ e = Head(rx)
  BY <1>0, <1>1, GnssTypes
<1>3. /\ rx' \in Seq(Messages \cup Answers) /\ Len(rx) >= 1 /\ Len(rx) \in Nat
      /\ Len(rx') = Len(rx) - 1 /\ \A i \in 1..Len(rx') : rx'[i] = rx[i + 1]
  BY <1>0, <1>1, GnssTypes
<1>4. /\ drv' \in Drivers /\ drv'.state = drv.state /\ drv'.idx = drv.idx /\ drv'.baud = drv.baud
      /\ drv'.valid <=> drv.valid \/ e \in {"PVT", "SOL"}
      /\ drv'.age = IF e \in {"PVT", "POSLLH"} THEN 0 ELSE drv.age
      /\ drv'.quiet = IF e \in Messages \/ Refused(drv, e) THEN 0 ELSE drv.quiet
      /\ drv'.legacy <=> drv.legacy \/ Refused(drv, e)
      /\ drv'.awaiting <=> drv.awaiting /\ (e \in Messages \/ drv.legacy)
  <2>1. drv \in Drivers
    BY <1>0, GnssTypes
  <2>2. drv' = Handle(drv, e) /\ e \in Messages \cup Answers
    BY <1>1, <1>2
  <2> QED BY <2>1, <2>2, HandleFacts
<1>5. /\ Due = 1 /\ Due' = 1 /\ calm \in Nat /\ drv.age \in Nat /\ drv.quiet \in Nat
      /\ drv.idx \in Nat /\ running \in Nat /\ drv.quiet <= Silence + 1
  BY <1>0, <1>1, GnssTypes, GnssConstants DEF Due
<1>6. Refused(drv, e) => /\ e = "NAK" /\ module.kind = "old" /\ Fitted /\ drv.state = "Parse"
                         /\ drv.baud = Target
  <2> SUFFICES ASSUME Refused(drv, e)
               PROVE  /\ e = "NAK" /\ module.kind = "old" /\ Fitted /\ drv.state = "Parse"
                      /\ drv.baud = Target
    OBVIOUS
  <2>1. e = "NAK" /\ rx[1] = "NAK" /\ 1 \in 1..Len(rx)
    BY <1>2, <1>3 DEF Refused
  <2>2. module.kind = "old"
    BY <2>1 DEF GnssInv, KindsDiffer
  <2>3. drv.state # "Sweep"
    BY <2>1 DEF GnssInv, AnswersFirst, Sweeping, Messages, Legacy
  <2> QED BY <1>0, <2>1, <2>2, <2>3, GnssTypes DEF GnssInv, Watching, Parsing, Fitted
<1>7. \/ /\ Refused(drv, e) /\ module.baud = Target
         /\ \E lost \in SUBSET Legacy : Enable(Legacy, lost) /\ Written(lost)
      \/ (Refused(drv, e) => module.baud # Target) /\ module' = module /\ calm' = calm
  <2>1. drv'.legacy /\ ~drv.legacy <=> Refused(drv, e)
    BY <1>4 DEF Refused
  <2>2. Refused(drv, e) => (Link(drv.baud) <=> module.baud = Target)
    BY <1>6 DEF Link
  <2> QED BY <2>1, <2>2 DEF Read, Written
<1>8. module \in [kind : Kinds, baud : Speeds, on : SUBSET Messages]
  BY <1>0, GnssTypes
\* The orders go to an old module.
<1>9. /\ module' \in [kind : Kinds, baud : Speeds, on : SUBSET Messages]
      /\ module'.kind = module.kind /\ module'.baud = module.baud /\ calm' \in {0, calm}
      /\ module'.on # module.on => Refused(drv, e) /\ module.baud = Target
      /\ module.on \subseteq module'.on /\ module'.on \subseteq module.on \cup Legacy
      /\ Refused(drv, e) /\ module.baud = Target /\ calm' # 0 => Legacy \subseteq module'.on
  <2>1. CASE module' = module /\ calm' = calm /\ (Refused(drv, e) => module.baud # Target)
    BY <1>8, <2>1
  <2>2. CASE Refused(drv, e) /\ module.baud = Target
             /\ \E lost \in SUBSET Legacy : Enable(Legacy, lost) /\ Written(lost)
    <3>1. PICK lost \in SUBSET Legacy : Enable(Legacy, lost) /\ Written(lost)
      BY <2>2
    <3>2. module' = [module EXCEPT !.on = module.on \cup (Legacy \ lost)]
          /\ calm' = IF lost = {} THEN calm ELSE 0
      BY <3>1 DEF Enable, Written
    <3>3. module.on \cup (Legacy \ lost) \in SUBSET Messages
      BY <1>8 DEF Messages
    <3>4. /\ module' \in [kind : Kinds, baud : Speeds, on : SUBSET Messages]
          /\ module'.kind = module.kind /\ module'.baud = module.baud
          /\ module'.on = module.on \cup (Legacy \ lost)
      BY <1>8, <3>2, <3>3
    <3> QED BY <2>2, <3>2, <3>4
  <2> QED BY <1>7, <2>1, <2>2
\* What is left to read.
<1>10. \A i \in 1..Len(rx) : i = 1 \/ (i - 1 \in 1..Len(rx') /\ rx'[i - 1] = rx[i])
  BY <1>3
<1>11. /\ HasMessage' => HasMessage
       /\ HasMessage /\ e \notin Messages => HasMessage'
  <2>1. ASSUME HasMessage' PROVE HasMessage
    <3>1. PICK i \in 1..Len(rx') : rx'[i] \in Messages
      BY <2>1 DEF HasMessage
    <3>2. i + 1 \in 1..Len(rx) /\ rx'[i] = rx[i + 1]
      BY <1>3
    <3> QED BY <3>1, <3>2 DEF HasMessage
  <2>2. ASSUME HasMessage, e \notin Messages PROVE HasMessage'
    <3>1. PICK i \in 1..Len(rx) : rx[i] \in Messages
      BY <2>2 DEF HasMessage
    <3>2. i - 1 \in 1..Len(rx') /\ rx'[i - 1] = rx[i]
      BY <1>2, <1>10, <2>2, <3>1
    <3> QED BY <3>1, <3>2 DEF HasMessage
  <2> QED BY <2>1, <2>2
<1>12. \A w : Has(w) /\ e # w => \E i \in 1..Len(rx') : rx'[i] = w
  BY <1>2, <1>3, <1>10 DEF Has
<1>13. ~Has("NAK")'
  BY <1>3 DEF GnssInv, AnswersFirst, Has
<1>14. Has("NAK") => rx[1] = "NAK" /\ Refused(drv, e)
  BY <1>2 DEF GnssInv, AnswersFirst, Has, Refused
<1>15. GnssTypeOK'
  <2>1. Len(rx') <= RxCap /\ calm' \in 0..SettleTime
    BY <1>0, <1>3, <1>5, <1>9, GnssTypes, GnssConstants
  <2> QED BY <1>0, <1>1, <1>3, <1>4, <1>9, <2>1 DEF GnssTypeOK, Drivers
<1>16. KindsDiffer'
  <2>1. module'.on # {} => Fitted' /\ module'.baud = Target
    BY <1>6, <1>9 DEF GnssInv, KindsDiffer, Fitted
  <2>2. module.kind # "none"
    BY <1>1 DEF GnssInv, KindsDiffer
  <2>3. module'.kind # "old" =>
          /\ module'.on \subseteq {"PVT"} /\ ~drv'.legacy
          /\ \A i \in 1..Len(rx') : rx'[i] \in {"PVT", "ACK"}
    BY <1>3, <1>4, <1>6, <1>9 DEF GnssInv, KindsDiffer
  <2>4. module'.kind = "old" =>
          /\ module'.on \subseteq Legacy /\ \A i \in 1..Len(rx') : rx'[i] \in Legacy \cup Answers
    BY <1>3, <1>9 DEF GnssInv, KindsDiffer
  <2> QED BY <1>9, <2>1, <2>2, <2>3, <2>4 DEF KindsDiffer
<1>17. AnswersFirst'
  <2>1. Sweeping' => \A i \in 1..Len(rx') : rx'[i] \in Messages
    BY <1>3, <1>4 DEF GnssInv, AnswersFirst, Sweeping
  <2>2. \A i \in 1..Len(rx') : rx'[i] # "NAK"
    BY <1>13 DEF Has
  <2> QED BY <1>1, <1>13, <2>1, <2>2 DEF AnswersFirst
<1>18. Watching'
  BY <1>1, <1>4 DEF GnssInv, Watching, Parsing
<1>19. RefusedRecently' /\ HeardWhileAsked'
  <2>1. HeardWhileAsked'
    BY <1>9, <1>11 DEF GnssInv, HeardWhileAsked
  <2> QED BY <1>13, <2>1 DEF RefusedRecently
<1>20. ValidRecently'
  <2> SUFFICES ASSUME module'.kind # "old", drv'.valid,
                      NEW bound \in Int,
                      bound = IF Sweeping' THEN drv'.idx - 1 + Due' ELSE drv'.quiet + Len(Bauds)
               PROVE  drv'.age <= bound \/ running' <= bound
    <3>1. (IF Sweeping' THEN drv'.idx - 1 + Due' ELSE drv'.quiet + Len(Bauds)) \in Int
      BY <1>0, <1>4, <1>5
    <3> QED BY <3>1 DEF ValidRecently
  <2>1. ~Refused(drv, e) /\ e \in {"PVT", "ACK"} /\ module.kind # "old"
    BY <1>2, <1>3, <1>6, <1>9 DEF GnssInv, KindsDiffer
  <2>2. CASE e = "PVT"
    BY <1>0, <1>4, <1>5, <2>2
  <2>3. CASE e = "ACK"
    <3>1. drv.valid /\ drv'.age = drv.age /\ drv'.quiet = drv.quiet
      BY <1>4, <2>1, <2>3 DEF Messages, Legacy
    <3> QED BY <1>1, <1>4, <1>5, <2>1, <3>1 DEF GnssInv, ValidRecently, Sweeping
  <2> QED BY <2>1, <2>2, <2>3
<1>21. SoughtRecently'
  <2>1. Sweeping' => calm' <= drv'.idx + Due'
    BY <1>1, <1>4, <1>5, <1>9 DEF GnssInv, SoughtRecently, Sweeping
  <2>2. Parsing' /\ module'.on # {} => drv'.quiet = 0 \/ calm' = 0 \/ HasMessage'
    <3>1. CASE e \in Messages \/ Refused(drv, e)
      BY <1>4, <3>1
    <3>2. CASE e \notin Messages /\ ~Refused(drv, e)
      BY <1>1, <1>4, <1>9, <1>11, <3>2 DEF GnssInv, SoughtRecently, Parsing
    <3> QED BY <3>1, <3>2
  <2> QED BY <2>1, <2>2 DEF SoughtRecently
<1>22. OldPositionFirst'
  <2> SUFFICES ASSUME Parsing', "POSLLH" \in module'.on
               PROVE  \/ ~drv'.valid /\ ~HasMessage'
                      \/ drv'.age <= Len(Bauds) + 2 \/ calm' <= Len(Bauds) + 2
                      \/ /\ serviced' # "yes" /\ PositionFirst'
                         /\ ~drv'.valid \/ drv'.age <= Len(Bauds) + 3 \/ calm' <= Len(Bauds) + 3
    BY DEF OldPositionFirst
  <2>1. CASE e \in {"PVT", "POSLLH"}
    BY <1>0, <1>4, <2>1
  <2>2. CASE Has("NAK")
    <3>1. e = "NAK"
      BY <1>2, <1>14, <2>2
    <3>2. drv.valid \/ HasMessage => calm <= Len(Bauds) + 2
      BY <1>0, <1>5, <2>2 DEF GnssInv, RefusedRecently
    <3> QED BY <1>0, <1>4, <1>5, <1>9, <1>11, <3>1, <3>2
  <2>3. CASE e \notin {"PVT", "POSLLH"} /\ ~Has("NAK")
    <3>1. ~Refused(drv, e)
      BY <1>2, <1>3, <2>3 DEF Has, Refused
    <3>2. module'.on = module.on /\ "POSLLH" \in module.on /\ drv'.age = drv.age
      BY <1>4, <1>9, <2>3, <3>1
    <3>3. \/ ~drv.valid /\ ~HasMessage
          \/ drv.age <= Len(Bauds) + 2 \/ calm <= Len(Bauds) + 2
          \/ /\ PositionFirst
             /\ ~drv.valid \/ drv.age <= Len(Bauds) + 3 \/ calm <= Len(Bauds) + 3
      BY <1>4, <3>2 DEF GnssInv, OldPositionFirst, Parsing
    <3>4. CASE ~drv.valid /\ ~HasMessage
      <4>1. e \notin Messages
        BY <1>2, <1>3, <3>4 DEF HasMessage
      <4>2. ~drv'.valid
        BY <1>4, <3>4, <4>1 DEF Messages, Legacy
      <4> QED BY <1>11, <3>4, <4>2
    <3>5. CASE drv.age <= Len(Bauds) + 2 \/ calm <= Len(Bauds) + 2
      BY <1>0, <1>5, <1>9, <3>2, <3>5
    <3>6. CASE /\ PositionFirst
               /\ ~drv.valid \/ drv.age <= Len(Bauds) + 3 \/ calm <= Len(Bauds) + 3
      <4>1. PICK i \in 1..Len(rx) : rx[i] = "POSLLH" /\ \A j \in 1..(i - 1) : rx[j] \in Answers
        BY <3>6 DEF PositionFirst
      <4>2. i # 1 /\ e \in Answers
        BY <1>2, <1>3, <2>3, <4>1
      <4>3. PositionFirst'
        <5>1. i - 1 \in 1..Len(rx') /\ rx'[i - 1] = "POSLLH"
          BY <1>10, <4>1, <4>2
        <5>2. \A j \in 1..(i - 1 - 1) : rx'[j] \in Answers
          <6> SUFFICES ASSUME NEW j \in 1..(i - 1 - 1) PROVE rx'[j] \in Answers
            OBVIOUS
          <6>1. j \in 1..Len(rx') /\ j + 1 \in 1..(i - 1)
            BY <1>3, <4>1
          <6> QED BY <1>3, <4>1, <6>1
        <5> QED BY <5>1, <5>2 DEF PositionFirst
      <4>4. drv'.valid => drv.valid
        BY <1>4, <4>2 DEF Answers
      <4> QED BY <1>0, <1>1, <1>5, <1>9, <3>2, <3>6, <4>3, <4>4
    <3> QED BY <3>3, <3>4, <3>5, <3>6
  <2> QED BY <2>1, <2>2, <2>3
<1>23. SweepReaches'
  <2> SUFFICES ASSUME Fitted', Sweeping'
               PROVE  \/ Ahead' /\ calm' <= Len(Bauds) + Silence + drv'.idx + Due'
                      \/ calm' <= drv'.idx - 2 + Due'
    BY DEF SweepReaches
  <2>1. ~Refused(drv, e)
    BY <1>4, <1>6 DEF Sweeping
  <2>2. module' = module /\ calm' = calm
    BY <1>7, <2>1
  <2> QED BY <1>4, <1>5, <2>2 DEF GnssInv, SweepReaches, Sweeping, Fitted, Ahead
<1>24. SilentSought'
  <2> SUFFICES ASSUME Fitted', Parsing', module'.on = {}
               PROVE  calm' <= Len(Bauds) - 1 + drv'.quiet
    BY DEF SilentSought
  <2>1. module.on = {} /\ Fitted /\ Parsing
    BY <1>4, <1>9 DEF Fitted, Parsing
  <2>2. drv'.quiet \in Nat
    BY <1>4, <1>5
  <2>3. CASE calm' = 0
    BY <1>0, <2>2, <2>3
  <2>4. CASE calm' = calm /\ calm # 0
    <3>1. e \notin Messages
      BY <1>2, <1>3, <2>1, <2>4 DEF GnssInv, HeardWhileAsked, HasMessage
    <3>2. CASE Refused(drv, e)
      <4>1. module.baud # Target
        BY <1>9, <2>1, <2>4, <3>2 DEF Legacy
      <4>2. Has("NAK")
        BY <1>2, <1>3, <1>6, <3>2 DEF Has
      <4>3. calm <= 1
        BY <1>5, <4>1, <4>2 DEF GnssInv, RefusedRecently
      <4>4. Len(Bauds) >= 2
        <5>1. PICK j \in 1..Len(Bauds) : Bauds[j] = module.baud
          BY <1>0, GnssTypes, SomeSpeed
        <5>2. j # 1
          BY <4>1, <5>1 DEF Target
        <5> QED BY <1>0, <5>1, <5>2
      <4> QED BY <1>0, <1>5, <2>2, <2>4, <4>3, <4>4
    <3>3. CASE ~Refused(drv, e)
      <4>1. ~Has("NAK")
        BY <1>14, <3>3
      <4>2. drv'.quiet = drv.quiet
        BY <1>4, <3>1, <3>3
      <4> QED BY <2>1, <2>4, <4>1, <4>2 DEF GnssInv, SilentSought
    <3> QED BY <3>2, <3>3
  <2> QED BY <1>9, <2>3, <2>4
<1>25. HeardSoon'
  <2> SUFFICES ASSUME Fitted', Parsing', Complete'
               PROVE  \/ drv'.valid /\ drv'.age = 0
                      \/ calm' <= SettleTime - 2
                      \/ /\ serviced' # "yes" /\ Renewing'
                         /\ (drv'.valid /\ drv'.age <= 1) \/ calm' <= SettleTime - 1
    BY DEF HeardSoon
  <2>1. Fitted /\ Parsing
    BY <1>4, <1>9 DEF Fitted, Parsing
  <2>2. CASE Refused(drv, e)
    <3>1. Has("NAK")
      BY <1>2, <1>3, <1>6, <2>2 DEF Has
    <3>2. calm <= SettleTime - 2
      <4>1. CASE module.on = {}
        <5>1. Due \in {0, 1} /\ drv.quiet \in Nat /\ drv.quiet <= Silence + 1 /\ calm \in Nat
          BY <1>0, GnssTypes
        <5>2. \/ calm <= SettleTime - 3 + Due
              \/ calm <= Len(Bauds) - 1 + drv.quiet
          BY <2>1, <4>1 DEF GnssInv, SilentSought
        <5>3. CASE calm <= SettleTime - 3 + Due
          BY <5>1, <5>3, GnssBounds
        <5>4. CASE calm <= Len(Bauds) - 1 + drv.quiet
          BY <5>1, <5>4, GnssBounds
        <5> QED BY <5>2, <5>3, <5>4
      <4>2. CASE module.on # {}
        BY <1>0, <1>5, <3>1, <4>2 DEF GnssInv, RefusedRecently
      <4> QED BY <4>1, <4>2
    <3> QED BY <1>0, <1>5, <1>9, <3>2
  <2>3. CASE ~Refused(drv, e)
    <3>1. module' = module /\ calm' = calm
      BY <1>7, <2>3
    <3>2. \/ drv.valid /\ drv.age = 0
          \/ calm <= SettleTime - 2
          \/ /\ Renewing
             /\ (drv.valid /\ drv.age <= 1) \/ calm <= SettleTime - 1
      BY <2>1, <3>1 DEF GnssInv, HeardSoon, Complete
    <3>3. CASE drv.valid /\ drv.age = 0
      BY <1>4, <3>3
    <3>4. CASE Renewing /\ ((drv.valid /\ drv.age <= 1) \/ calm <= SettleTime - 1)
      <4>1. (drv'.valid /\ drv'.age <= 1) \/ calm' <= SettleTime - 1
        BY <1>4, <1>5, <3>1, <3>4
      <4>2. CASE module.kind = "old"
        <5>1. (drv.age = 0 \/ Has("POSLLH")) /\ (drv.valid \/ Has("SOL"))
          BY <3>4, <4>2 DEF Renewing
        <5>2. drv'.age = 0 \/ Has("POSLLH")'
          BY <1>4, <1>12, <5>1 DEF Has
        <5>3. drv'.valid \/ Has("SOL")'
          BY <1>4, <1>12, <5>1 DEF Has
        <5> QED BY <1>1, <3>1, <4>1, <4>2, <5>2, <5>3 DEF Renewing
      <4>3. CASE module.kind # "old"
        <5>1. Has("PVT")
          BY <3>4, <4>3 DEF Renewing
        <5>2. (drv'.valid /\ drv'.age = 0) \/ Has("PVT")'
          BY <1>4, <1>12, <5>1 DEF Has
        <5> QED BY <1>1, <3>1, <4>1, <4>3, <5>2 DEF Renewing
      <4> QED BY <4>2, <4>3
    <3> QED BY <3>1, <3>2, <3>3, <3>4
  <2> QED BY <2>2, <2>3
<1> QED BY <1>15, <1>16, <1>17, <1>18, <1>19, <1>20, <1>21, <1>22, <1>23, <1>24, <1>25 DEF GnssInv

\* What a tick brings, from the messages of a solution that are not lost.
LEMMA TickIs ==
    ASSUME GnssInv, NEW parked \in BOOLEAN, GnssTick(parked)
    PROVE  \E new \in Seq(module.on) :
           /\ serviced = "yes" \/ (parked /\ serviced = "no")
           /\ serviced' = "no" /\ module' = module
           /\ calm' \in 0..SettleTime /\ (calm' = 0 \/ (calm' <= calm + 1 /\ serviced = "yes"))
           /\ running' \in 0..Aged /\ running' <= running + 1 /\ (parked => running' = 0)
           /\ drv' \in Drivers /\ drv'.state = drv.state /\ drv'.idx = drv.idx
           /\ drv'.valid = drv.valid /\ drv'.legacy = drv.legacy /\ drv'.baud = drv.baud
           /\ drv'.awaiting = drv.awaiting /\ drv'.age <= drv.age + 1
           /\ drv'.quiet = Upto(drv.quiet + 1, Silence + 1)
           /\ rx' \in Seq(Messages \cup Answers)
           /\ Len(rx') = Upto(Len(rx) + Len(new), RxCap)
           /\ \A i \in 1..Len(rx') : rx'[i] = IF i <= Len(rx) THEN rx[i] ELSE new[i - Len(rx)]
           /\ ~Link(drv.baud) => Len(new) = 0
           /\ Link(drv.baud) /\ calm' # 0 => new = Solution(module.on)
<1>0. GnssTypeOK
  BY DEF GnssInv
<1>1. PICK lost \in SUBSET module.on :
        /\ LET all == rx \o (IF Link(drv.baud) THEN Solution(module.on \ lost) ELSE <<>>)
           IN  rx' = SubSeq(all, 1, Upto(Len(all), RxCap))
        /\ calm' = IF lost # {} \/ parked THEN 0 ELSE Upto(calm + 1, SettleTime)
  BY DEF GnssTick
<1>2. module.on \subseteq Messages /\ module.on \ lost \in SUBSET Messages
  BY <1>0, GnssTypes
<1>3. PICK new \in Seq(module.on) :
         new = IF Link(drv.baud) THEN Solution(module.on \ lost) ELSE <<>>
  <2>1. Solution(module.on \ lost) \in Seq(module.on \ lost)
    BY <1>2, SolutionIs
  <2>2. Solution(module.on \ lost) \in Seq(module.on) /\ <<>> \in Seq(module.on)
    BY <2>1
  <2> QED BY <2>2
<1>4. rx' = SubSeq(rx \o new, 1, Upto(Len(rx \o new), RxCap))
  BY <1>1, <1>3
<1>5. rx \in Seq(Messages \cup Answers) /\ new \in Seq(Messages \cup Answers)
  BY <1>0, <1>2, GnssTypes
<1>6. Len(rx \o new) = Len(rx) + Len(new) /\ Len(rx) \in Nat /\ Len(new) \in Nat
  BY <1>5
<1>7. PICK n \in Nat : n = Upto(Len(rx) + Len(new), RxCap) /\ n <= Len(rx) + Len(new)
  <2>1. Len(rx) + Len(new) \in Nat /\ RxCap \in Nat
    BY <1>6, GnssConstants
  <2> QED BY <2>1, UptoIs
<1>8. /\ rx' \in Seq(Messages \cup Answers) /\ Len(rx') = n
      /\ \A i \in 1..Len(rx') : rx'[i] = IF i <= Len(rx) THEN rx[i] ELSE new[i - Len(rx)]
  <2>1. rx' = SubSeq(rx \o new, 1, n)
    BY <1>4, <1>6, <1>7
  <2> QED BY <1>5, <1>6, <1>7, <2>1, Kept
<1>9. ~Link(drv.baud) => Len(new) = 0
  BY <1>3
<1>10. Link(drv.baud) /\ calm' # 0 => new = Solution(module.on)
  <2>1. calm' # 0 => lost = {}
    BY <1>1
  <2>2. lost = {} => module.on \ lost = module.on
    OBVIOUS
  <2> QED BY <1>3, <2>1, <2>2
<1>11. /\ serviced = "yes" \/ (parked /\ serviced = "no")
       /\ serviced' = "no" /\ module' = module
       /\ drv' = [drv EXCEPT !.quiet = Upto(drv.quiet + 1, Silence + 1),
                             !.age = Upto(drv.age + 1, Aged)]
       /\ running' = IF parked THEN 0 ELSE Upto(running + 1, Aged)
  BY DEF GnssTick
<1>12. /\ calm' \in 0..SettleTime /\ (calm' = 0 \/ (calm' <= calm + 1 /\ serviced = "yes"))
       /\ running' \in 0..Aged /\ running' <= running + 1 /\ (parked => running' = 0)
  <2>0. calm \in Nat /\ running \in Nat
    BY <1>0, GnssTypes
  <2>1. calm + 1 \in Nat /\ running + 1 \in Nat /\ SettleTime \in Nat /\ Aged \in Nat
    BY <2>0, GnssBounds
  <2>2. Upto(calm + 1, SettleTime) \in 0..SettleTime /\ Upto(calm + 1, SettleTime) <= calm + 1
    BY <2>1, UptoIs
  <2>3. Upto(running + 1, Aged) \in 0..Aged /\ Upto(running + 1, Aged) <= running + 1
    BY <2>1, UptoIs
  <2> QED BY <1>1, <1>11, <2>1, <2>2, <2>3
<1>13. /\ drv' \in Drivers /\ drv'.state = drv.state /\ drv'.idx = drv.idx
       /\ drv'.valid = drv.valid /\ drv'.legacy = drv.legacy /\ drv'.baud = drv.baud
       /\ drv'.awaiting = drv.awaiting /\ drv'.age <= drv.age + 1
       /\ drv'.quiet = Upto(drv.quiet + 1, Silence + 1)
  <2>0. drv.quiet \in Nat /\ drv.age \in Nat
    BY <1>0, GnssTypes
  <2>1. drv.quiet + 1 \in Nat /\ drv.age + 1 \in Nat /\ Silence + 1 \in Nat /\ Aged \in Nat
    BY <2>0, GnssBounds
  <2>2. PICK q \in 0..(Silence + 1) : q = Upto(drv.quiet + 1, Silence + 1)
    BY <2>1, UptoIs
  <2>3. PICK a \in 0..Aged : a = Upto(drv.age + 1, Aged) /\ a <= drv.age + 1
    BY <2>1, UptoIs
  <2>4. drv' = [drv EXCEPT !.quiet = q, !.age = a]
    BY <1>11, <2>2, <2>3
  <2>5. drv \in Drivers /\ q \in 0..(Silence + 1) /\ a \in 0..Aged
    BY <1>0, <2>2, <2>3, GnssTypes
  <2>6. /\ drv' \in Drivers /\ drv'.state = drv.state /\ drv'.idx = drv.idx
        /\ drv'.valid = drv.valid /\ drv'.legacy = drv.legacy /\ drv'.baud = drv.baud
        /\ drv'.awaiting = drv.awaiting /\ drv'.age = a /\ drv'.quiet = q
    BY <2>4, <2>5 DEF Drivers
  <2> QED BY <2>2, <2>3, <2>6
<1> QED BY <1>7, <1>8, <1>9, <1>10, <1>11, <1>12, <1>13

LEMMA TickKeeps ==
    ASSUME GnssInv, NEW parked \in BOOLEAN, GnssTick(parked) PROVE GnssInv'
<1>0. GnssTypeOK /\ Len(Bauds) \in Nat /\ Len(Bauds) > 0 /\ Silence \in Nat /\ Silence >= 2
      /\ RxCap \in Nat /\ RxCap >= 3 /\ SettleTime = Silence + 2 * Len(Bauds) + 4
  BY GnssConstants DEF GnssInv
<1>1. PICK new \in Seq(module.on) :
           /\ serviced = "yes" \/ (parked /\ serviced = "no")
           /\ serviced' = "no" /\ module' = module
           /\ calm' \in 0..SettleTime /\ (calm' = 0 \/ (calm' <= calm + 1 /\ serviced = "yes"))
           /\ running' \in 0..Aged /\ running' <= running + 1 /\ (parked => running' = 0)
           /\ drv' \in Drivers /\ drv'.state = drv.state /\ drv'.idx = drv.idx
           /\ drv'.valid = drv.valid /\ drv'.legacy = drv.legacy /\ drv'.baud = drv.baud
           /\ drv'.awaiting = drv.awaiting /\ drv'.age <= drv.age + 1
           /\ drv'.quiet = Upto(drv.quiet + 1, Silence + 1)
           /\ rx' \in Seq(Messages \cup Answers)
           /\ Len(rx') = Upto(Len(rx) + Len(new), RxCap)
           /\ \A i \in 1..Len(rx') : rx'[i] = IF i <= Len(rx) THEN rx[i] ELSE new[i - Len(rx)]
           /\ ~Link(drv.baud) => Len(new) = 0
           /\ Link(drv.baud) /\ calm' # 0 => new = Solution(module.on)
  BY TickIs
<1>30. /\ serviced = "yes" \/ (parked /\ serviced = "no")
       /\ serviced' = "no" /\ module' = module
       /\ calm' \in 0..SettleTime /\ (calm' = 0 \/ (calm' <= calm + 1 /\ serviced = "yes"))
       /\ running' \in 0..Aged /\ running' <= running + 1 /\ (parked => running' = 0)
       /\ drv'.state = drv.state /\ drv'.idx = drv.idx /\ drv'.age <= drv.age + 1
       /\ drv'.valid = drv.valid /\ drv'.legacy = drv.legacy /\ drv'.baud = drv.baud
       /\ drv'.awaiting = drv.awaiting
  BY <1>1
<1>31. \A i \in 1..Len(rx') : rx'[i] = IF i <= Len(rx) THEN rx[i] ELSE new[i - Len(rx)]
  BY <1>1
<1>32. /\ calm \in Nat /\ running \in Nat /\ drv.idx \in Nat /\ drv.age \in Nat
       /\ drv.quiet \in Nat /\ drv.quiet <= Silence + 1 /\ module.on \subseteq Messages
       /\ Len(rx) \in Nat /\ Len(rx) <= RxCap /\ rx \in Seq(Messages \cup Answers)
  BY <1>0, GnssTypes, GnssConstants
<1>33. calm' \in Nat /\ running' \in Nat /\ drv'.age \in Nat
  <2>1. drv'.age \in 0..Aged
    BY <1>1 DEF Drivers
  <2> QED BY <2>1, <1>30, GnssConstants
<1>34. Len(new) \in Nat /\ Len(rx') \in Nat
  BY <1>1
<1>35. Due \in {0, 1} /\ (serviced = "yes" => Due = 0) /\ Due' = 1
  BY <1>30 DEF Due
<1>2. /\ calm \in Nat /\ calm' \in Nat /\ running \in Nat /\ running' \in Nat
      /\ drv.idx \in Nat /\ drv.quiet \in Nat /\ drv.quiet <= Silence + 1 /\ drv.age \in Nat
      /\ drv'.age \in Nat /\ module.on \subseteq Messages
      /\ Len(rx) \in Nat /\ Len(rx) <= RxCap /\ rx \in Seq(Messages \cup Answers)
      /\ Len(new) \in Nat /\ Len(rx') \in Nat /\ Due \in {0, 1} /\ (serviced = "yes" => Due = 0)
      /\ Due' = 1
  BY <1>32, <1>33, <1>34, <1>35
<1>3. drv'.quiet \in 0..(Silence + 1) /\ drv'.quiet <= drv.quiet + 1
      /\ (drv.quiet <= Silence => drv'.quiet = drv.quiet + 1)
  <2>1. drv'.quiet = Upto(drv.quiet + 1, Silence + 1)
    BY <1>1
  <2>2. PICK q \in Nat : q = drv.quiet /\ q <= Silence + 1
    BY <1>32
  <2>3. drv'.quiet = IF q + 1 < Silence + 1 THEN q + 1 ELSE Silence + 1
    BY <2>1, <2>2 DEF Upto
  <2> QED BY <1>0, <2>2, <2>3
<1>4. Len(rx') <= RxCap /\ Len(rx') >= Len(rx) /\ Len(rx') <= Len(rx) + Len(new)
      /\ (Len(rx) + Len(new) <= RxCap => Len(rx') = Len(rx) + Len(new))
      /\ (Len(rx) < RxCap /\ Len(new) > 0 => Len(rx') > Len(rx))
  <2>1. Len(rx') = Upto(Len(rx) + Len(new), RxCap)
    BY <1>1
  <2>2. PICK a \in Nat, b \in Nat : a = Len(rx) /\ b = Len(new) /\ a <= RxCap
    BY <1>32, <1>34
  <2>3. Len(rx') = IF a + b < RxCap THEN a + b ELSE RxCap
    BY <2>1, <2>2 DEF Upto
  <2>4. CASE a + b < RxCap
    BY <1>0, <2>2, <2>3, <2>4
  <2>5. CASE RxCap <= a + b
    BY <1>0, <2>2, <2>3, <2>5
  <2> QED BY <1>0, <2>2, <2>4, <2>5
<1>5. ASSUME NEW i \in 1..Len(rx) PROVE i \in 1..Len(rx') /\ rx'[i] = rx[i]
  <2>1. i <= Len(rx) /\ i \in 1..Len(rx')
    BY <1>32, <1>34, <1>4
  <2> QED BY <1>31, <2>1
<1>6. \A i \in 1..Len(rx') : i > Len(rx) =>
         rx'[i] \in module.on /\ rx'[i] \in Messages /\ Link(drv.baud)
  <2> SUFFICES ASSUME NEW i \in 1..Len(rx'), i > Len(rx)
               PROVE  rx'[i] \in module.on /\ rx'[i] \in Messages /\ Link(drv.baud)
    OBVIOUS
  <2>1. i - Len(rx) \in 1..Len(new)
    BY <1>2, <1>4
  <2>2. new[i - Len(rx)] \in module.on
    BY <2>1
  <2>3. rx'[i] \in module.on /\ module.on \subseteq Messages
    <3>1. ~(i <= Len(rx))
      BY <1>32
    <3>2. rx'[i] = new[i - Len(rx)]
      BY <1>31, <3>1
    <3> QED BY <1>32, <2>2, <3>2
  <2>4. Link(drv.baud)
    <3>1. Len(new) # 0
      BY <1>34, <2>1
    <3> QED BY <1>1, <3>1
  <2> QED BY <2>3, <2>4
<1>61. ASSUME NEW i \in 1..Len(rx'), rx'[i] = "NAK" PROVE i \in 1..Len(rx) /\ rx'[i] = rx[i]
  <2>1. "NAK" \notin Messages
    BY DEF Messages, Legacy
  <2>2. ~(i > Len(rx))
    BY <1>6, <1>61, <2>1
  <2>3. i \in 1..Len(rx) /\ i <= Len(rx)
    BY <1>32, <1>34, <2>2
  <2> QED BY <1>31, <2>3
<1>7. Has("NAK")' => Has("NAK")
  <2> SUFFICES ASSUME Has("NAK")' PROVE Has("NAK")
    OBVIOUS
  <2>0. PICK i \in 1..Len(rx') : rx'[i] = "NAK"
    BY DEF Has
  <2>1. i \in 1..Len(rx) /\ rx'[i] = rx[i]
    BY <1>61, <2>0
  <2> QED BY <2>0, <2>1 DEF Has
<1>8. Has("NAK") => Has("NAK")'
  BY <1>5 DEF Has
<1>9. HasMessage' => HasMessage \/ module.on # {}
  <2> SUFFICES ASSUME NEW i \in 1..Len(rx'), rx'[i] \in Messages, module.on = {}
               PROVE  HasMessage
    BY DEF HasMessage
  <2>1. i <= Len(rx)
    BY <1>2, <1>6
  <2>2. rx[i] \in Messages /\ i \in 1..Len(rx)
    BY <1>2, <1>31, <2>1
  <2> QED BY <2>2 DEF HasMessage
<1>10. serviced = "yes" => ~HasMessage /\ Len(rx) <= 2 /\ (rx # <<>> => calm <= SettleTime - 3)
  BY DEF GnssInv, AnswersFirst
\* A module that was asked for anything is heard once the sweep is over.
<1>11. module.on # {} /\ drv.state = "Parse" => Link(drv.baud) /\ Fitted
  BY DEF GnssInv, KindsDiffer, Watching, Parsing, Link
<1>12. ASSUME calm' # 0, module.on # {}, drv.state = "Parse"
       PROVE  /\ new = Solution(module.on) /\ Len(new) > 0 /\ Len(rx') > Len(rx)
              /\ Len(rx) + 1 \in 1..Len(rx') /\ rx'[Len(rx) + 1] = new[1]
  <2>1. new = Solution(module.on) /\ serviced = "yes"
    BY <1>1, <1>2, <1>11, <1>12
  <2>2. Len(new) > 0
    BY <1>2, <1>12, <2>1, SolutionIs
  <2>3. Len(rx) < RxCap
    BY <1>0, <1>2, <1>10, <2>1
  <2>4. Len(rx') > Len(rx) /\ Len(rx) + 1 \in 1..Len(rx')
    BY <1>2, <1>4, <2>2, <2>3
  <2>5. rx'[Len(rx) + 1] = new[Len(rx) + 1 - Len(rx)]
    BY <1>2, <1>31, <2>4
  <2>6. Len(rx) + 1 - Len(rx) = 1
    BY <1>2
  <2> QED BY <2>1, <2>2, <2>4, <2>5, <2>6
<1>13. GnssTypeOK'
  BY <1>0, <1>1, <1>4, GnssTypes DEF GnssTypeOK, Drivers
<1>14. KindsDiffer'
  <2>1. module.kind = "none" => rx' = <<>>
    <3> SUFFICES ASSUME module.kind = "none" PROVE rx' = <<>>
      OBVIOUS
    <3>1. rx = <<>> /\ Len(rx) = 0 /\ ~Link(drv.baud)
      BY DEF GnssInv, KindsDiffer, Link, Fitted
    <3>2. Len(rx') = 0
      BY <1>1, <1>2, <1>4, <3>1
    <3> QED BY <1>1, <3>2
  <2>2. module.kind # "old" => \A i \in 1..Len(rx') : rx'[i] \in {"PVT", "ACK"}
    <3> SUFFICES ASSUME module.kind # "old", NEW i \in 1..Len(rx')
                 PROVE  rx'[i] \in {"PVT", "ACK"}
      OBVIOUS
    <3>1. CASE i <= Len(rx)
      BY <1>1, <1>2, <3>1 DEF GnssInv, KindsDiffer
    <3>2. CASE i > Len(rx)
      BY <1>6, <3>2 DEF GnssInv, KindsDiffer
    <3> QED BY <1>2, <3>1, <3>2
  <2>3. module.kind = "old" => \A i \in 1..Len(rx') : rx'[i] \in Legacy \cup Answers
    <3> SUFFICES ASSUME module.kind = "old", NEW i \in 1..Len(rx')
                 PROVE  rx'[i] \in Legacy \cup Answers
      OBVIOUS
    <3>1. CASE i <= Len(rx)
      BY <1>1, <1>2, <3>1 DEF GnssInv, KindsDiffer
    <3>2. CASE i > Len(rx)
      BY <1>6, <3>2 DEF GnssInv, KindsDiffer
    <3> QED BY <1>2, <3>1, <3>2
  <2>4. module.on # {} => Fitted' /\ module'.baud = Target
    BY <1>1 DEF GnssInv, KindsDiffer, Fitted
  <2> QED BY <1>1, <2>1, <2>2, <2>3, <2>4 DEF GnssInv, KindsDiffer
<1>15. AnswersFirst'
  <2>1. Sweeping' => \A i \in 1..Len(rx') : rx'[i] \in Messages
    <3> SUFFICES ASSUME drv.state = "Sweep", NEW i \in 1..Len(rx') PROVE rx'[i] \in Messages
      BY <1>1 DEF Sweeping
    <3>1. CASE i <= Len(rx)
      <4>1. i \in 1..Len(rx) /\ rx'[i] = rx[i]
        BY <1>2, <1>31, <3>1
      <4> QED BY <4>1 DEF GnssInv, AnswersFirst, Sweeping
    <3>2. CASE i > Len(rx)
      BY <1>6, <3>2
    <3> QED BY <1>2, <3>1, <3>2
  <2>2. \A i \in 1..Len(rx') : rx'[i] = "NAK" => i = 1
    <3> SUFFICES ASSUME NEW i \in 1..Len(rx'), rx'[i] = "NAK" PROVE i = 1
      OBVIOUS
    <3>2. i \in 1..Len(rx) /\ rx[i] = "NAK"
      BY <1>61
    <3> QED BY <3>2 DEF GnssInv, AnswersFirst
  <2>3. Has("NAK")' => drv'.awaiting /\ ~drv'.legacy
    BY <1>1, <1>7 DEF GnssInv, AnswersFirst
  <2> QED BY <1>1, <2>1, <2>2, <2>3 DEF AnswersFirst
<1>16. Watching'
  BY <1>1 DEF GnssInv, Watching, Parsing
<1>17. ValidRecently'
  <2>1. ASSUME module.kind # "old", drv.valid, drv.state = "Sweep"
        PROVE  drv'.age <= drv.idx \/ running' <= drv.idx
    <3>1. CASE parked
      BY <1>2, <1>30, <3>1
    <3>2. CASE ~parked
      <4>1. Due = 0
        BY <1>2, <1>30, <3>2
      <4>2. drv.age <= drv.idx - 1 \/ running <= drv.idx - 1
        BY <1>2, <2>1, <4>1 DEF GnssInv, ValidRecently, Sweeping
      <4> QED BY <1>2, <1>30, <4>2
    <3> QED BY <3>1, <3>2
  <2>2. ASSUME module.kind # "old", drv.valid, drv.state = "Parse"
        PROVE  drv'.age <= drv'.quiet + Len(Bauds) \/ running' <= drv'.quiet + Len(Bauds)
    <3>1. CASE parked
      <4>1. running' = 0 /\ drv'.quiet \in Nat
        BY <1>0, <1>3, <1>30, <3>1
      <4> QED BY <1>0, <4>1
    <3>2. CASE ~parked
      <4>1. drv.age <= drv.quiet + Len(Bauds) \/ running <= drv.quiet + Len(Bauds)
        BY <2>2 DEF GnssInv, ValidRecently, Sweeping
      <4>2. drv.quiet <= Silence
        BY <1>30, <2>2, <3>2 DEF GnssInv, Watching, Parsing
      <4>3. drv'.quiet = drv.quiet + 1
        BY <1>3, <4>2
      <4>4. drv'.age <= drv.age + 1 /\ running' <= running + 1
        BY <1>30
      <4>5. /\ drv.quiet \in Nat /\ drv.age \in Nat /\ running \in Nat /\ Len(Bauds) \in Nat
            /\ drv'.age \in Nat /\ running' \in Nat
        BY <1>0, <1>2
      <4>6. CASE drv.age <= drv.quiet + Len(Bauds)
        BY <4>3, <4>4, <4>5, <4>6
      <4>7. CASE running <= drv.quiet + Len(Bauds)
        BY <4>3, <4>4, <4>5, <4>7
      <4> QED BY <4>1, <4>6, <4>7
    <3> QED BY <3>1, <3>2
  <2>3. drv'.idx - 1 + Due' = drv.idx
    BY <1>2, <1>30
  <2> QED BY <1>0, <1>30, <2>1, <2>2, <2>3, GnssTypes DEF ValidRecently, Sweeping
<1>18. SoughtRecently'
  <2>1. ASSUME drv.state = "Sweep", drv.valid \/ module.on # {} \/ rx' # <<>>
        PROVE  calm' <= drv.idx + 1
    <3>1. CASE calm' = 0
      BY <1>2, <3>1
    <3>2. CASE calm' # 0
      <4>1. serviced = "yes" /\ calm' <= calm + 1 /\ Due = 0
        BY <1>1, <1>2, <3>2
      <4>2. rx' # <<>> => rx # <<>> \/ module.on # {}
        <5>1. ASSUME rx' # <<>>, rx = <<>> PROVE module.on # {}
          <6>1. Len(rx) = 0 /\ 1 \in 1..Len(rx')
            BY <1>1, <1>2, <5>1
          <6> QED BY <1>6, <6>1
        <5> QED BY <5>1
      <4>3. calm <= drv.idx
        BY <1>2, <2>1, <4>1, <4>2 DEF GnssInv, SoughtRecently, Sweeping
      <4> QED BY <1>2, <4>1, <4>3
    <3> QED BY <3>1, <3>2
  <2>2. ASSUME drv.state = "Parse", module.on # {}, calm' # 0 PROVE HasMessage'
    <3>1. rx'[Len(rx) + 1] \in Messages /\ Len(rx) + 1 \in 1..Len(rx')
      BY <1>2, <1>6, <1>12, <2>2
    <3> QED BY <3>1 DEF HasMessage
  <2> QED BY <1>1, <1>2, <2>1, <2>2 DEF SoughtRecently, Sweeping, Parsing
<1>19. RefusedRecently'
  <2>1. ASSUME Has("NAK"), drv.valid \/ module.on # {} \/ HasMessage', calm' # 0
        PROVE  calm' <= Len(Bauds) + 2
    <3>1. serviced = "yes" /\ calm' <= calm + 1 /\ Due = 0
      BY <1>1, <1>2, <2>1
    <3>2. calm <= Len(Bauds) + 1
      BY <1>0, <1>2, <1>9, <2>1, <3>1 DEF GnssInv, RefusedRecently
    <3> QED BY <1>0, <1>2, <3>1, <3>2
  <2>2. ASSUME Has("NAK"), module.baud # Target PROVE calm' <= 1
    <3>1. calm <= Due
      BY <2>2 DEF GnssInv, RefusedRecently
    <3> QED BY <1>1, <1>2, <3>1
  <2>3. Len(Bauds) + 1 + Due' = Len(Bauds) + 2
    BY <1>0, <1>2
  <2>4. (module.baud # Target /\ Has("NAK")' => calm' <= Due')
        /\ (drv'.valid <=> drv.valid) /\ module' = module
    BY <1>7, <1>30, <1>35, <2>2
  <2>5. ASSUME Has("NAK")', drv.valid \/ module.on # {} \/ HasMessage'
        PROVE  calm' <= Len(Bauds) + 1 + Due'
    <3>1. CASE calm' = 0
      BY <1>0, <2>3, <3>1
    <3>2. CASE calm' # 0
      BY <1>7, <2>1, <2>3, <2>5, <3>2
    <3> QED BY <3>1, <3>2
  <2> QED BY <2>4, <2>5 DEF RefusedRecently
<1>20. HeardWhileAsked'
  <2>1. ASSUME HasMessage', module.on = {}, calm' # 0 PROVE FALSE
    BY <1>1, <1>9, <1>10, <2>1
  <2> QED BY <1>1, <2>1 DEF HeardWhileAsked
<1>21. OldPositionFirst'
  <2> SUFFICES ASSUME drv.state = "Parse", "POSLLH" \in module.on, calm' # 0
               PROVE  /\ PositionFirst'
                      /\ ~drv.valid \/ drv'.age <= Len(Bauds) + 3 \/ calm' <= Len(Bauds) + 3
    BY <1>0, <1>1 DEF OldPositionFirst, Parsing
  <2>1. serviced = "yes" /\ calm' <= calm + 1
    BY <1>1
  <2>2. "PVT" \notin module.on
    BY DEF GnssInv, KindsDiffer, Legacy
  <2>3. rx'[Len(rx) + 1] = "POSLLH" /\ Len(rx) + 1 \in 1..Len(rx')
    BY <1>2, <1>12, <2>2, SolutionIs
  <2>4. \A j \in 1..(Len(rx) + 1 - 1) : rx'[j] \in Answers
    <3> SUFFICES ASSUME NEW j \in 1..Len(rx) PROVE rx'[j] \in Answers
      BY <1>2
    <3>1. rx[j] \in Messages \cup Answers /\ rx[j] \notin Messages
      BY <1>2, <1>10, <2>1 DEF HasMessage
    <3> QED BY <1>5, <3>1
  <2>5. PositionFirst'
    BY <2>3, <2>4 DEF PositionFirst
  <2>6. ~drv.valid \/ drv.age <= Len(Bauds) + 2 \/ calm <= Len(Bauds) + 2
    BY <2>1 DEF GnssInv, OldPositionFirst, Parsing
  <2>7. calm' <= calm + 1 /\ drv'.age <= drv.age + 1
    BY <1>30, <2>1
  <2>8. CASE ~drv.valid
    BY <2>5, <2>8
  <2>9. CASE drv.age <= Len(Bauds) + 2
    <3>1. drv'.age <= Len(Bauds) + 3
      BY <1>0, <1>32, <1>33, <2>7, <2>9
    <3> QED BY <2>5, <3>1
  <2>10. CASE calm <= Len(Bauds) + 2
    <3>1. calm' <= Len(Bauds) + 3
      BY <1>0, <1>32, <1>33, <2>7, <2>10
    <3> QED BY <2>5, <3>1
  <2> QED BY <2>6, <2>8, <2>9, <2>10
<1>22. SweepReaches'
  <2> SUFFICES ASSUME Fitted, drv.state = "Sweep"
               PROVE  \/ Ahead /\ calm' <= Len(Bauds) + Silence + drv.idx + 1
                      \/ calm' <= drv.idx - 1
    <3>1. Ahead' <=> Ahead
      BY <1>1 DEF Ahead
    <3>2. drv.idx - 2 + Due' = drv.idx - 1
      BY <1>2
    <3> QED BY <1>1, <1>2, <3>1, <3>2 DEF SweepReaches, Fitted, Sweeping
  <2>1. \/ Ahead /\ calm <= Len(Bauds) + Silence + drv.idx + Due
        \/ calm <= drv.idx - 2 + Due
    BY DEF GnssInv, SweepReaches, Sweeping
  <2>2. calm' = 0 \/ (calm' <= calm + 1 /\ Due = 0)
    BY <1>30, <1>35
  <2>3. CASE Ahead /\ calm <= Len(Bauds) + Silence + drv.idx + Due
    <3>1. calm' <= Len(Bauds) + Silence + drv.idx + 1
      <4>1. CASE calm' = 0
        BY <1>0, <1>32, <4>1
      <4>2. CASE calm' <= calm + 1 /\ Due = 0
        <5>1. PICK a \in Nat, b \in Nat : a = calm /\ b = drv.idx
          BY <1>32
        <5>2. a <= Len(Bauds) + Silence + b
          BY <1>0, <2>3, <4>2, <5>1
        <5> QED BY <1>0, <1>33, <4>2, <5>1, <5>2
      <4> QED BY <2>2, <4>1, <4>2
    <3> QED BY <2>3, <3>1
  <2>4. CASE calm <= drv.idx - 2 + Due
    <3>1. Due = 0 \/ Due = 1
      BY <1>35
    <3>2. calm \in Nat /\ drv.idx \in Nat /\ calm' \in Nat
      BY <1>2
    <3>3. calm' <= drv.idx - 1
      BY <2>2, <2>4, <3>1, <3>2
    <3> QED BY <3>3
  <2> QED BY <2>1, <2>3, <2>4
<1>23. SilentSought'
  <2> SUFFICES ASSUME Fitted, drv.state = "Parse", module.on = {}, calm' # 0
               PROVE  \/ Has("NAK")' /\ calm' <= SettleTime - 2
                      \/ calm' <= Len(Bauds) - 1 + drv'.quiet
    <3>1. SettleTime - 3 + Due' = SettleTime - 2
      BY <1>0, <1>2
    <3>2. 0 <= Len(Bauds) - 1 + drv'.quiet
      BY <1>0, <1>3
    <3> QED BY <1>1, <3>1, <3>2 DEF SilentSought, Fitted, Parsing
  <2>1. serviced = "yes" /\ calm' <= calm + 1 /\ Due = 0
    BY <1>1, <1>2
  <2>2. drv.quiet <= Silence
    BY <2>1 DEF GnssInv, Watching, Parsing
  <2>3. \/ Has("NAK") /\ calm <= SettleTime - 3
        \/ calm <= Len(Bauds) - 1 + drv.quiet
    BY <1>0, <2>1 DEF GnssInv, SilentSought, Parsing
  <2>4. CASE Has("NAK") /\ calm <= SettleTime - 3
    BY <1>0, <1>2, <1>8, <2>1, <2>4
  <2>5. CASE calm <= Len(Bauds) - 1 + drv.quiet
    <3>1. drv'.quiet = drv.quiet + 1
      BY <1>3, <2>2
    <3> PICK c \in Nat, d \in Nat, q \in Nat, n \in Nat :
            c = calm /\ d = calm' /\ q = drv.quiet /\ n = Len(Bauds)
      BY <1>0, <1>32, <1>33
    <3>2. d <= c + 1 /\ c <= n - 1 + q
      BY <2>1, <2>5
    <3>3. d <= n - 1 + (q + 1)
      BY <3>2
    <3> QED BY <3>1, <3>3
  <2> QED BY <2>3, <2>4, <2>5
<1>24. HeardSoon'
  <2> SUFFICES ASSUME Fitted, drv.state = "Parse", Complete, calm' > SettleTime - 2
               PROVE  Renewing' /\ ((drv.valid /\ drv'.age <= 1) \/ calm' <= SettleTime - 1)
    <3>1. Complete' <=> Complete
      BY <1>1 DEF Complete
    <3>2. calm' > SettleTime - 2 \/ calm' <= SettleTime - 2
      BY <1>0, <1>2
    <3> QED BY <1>1, <3>1, <3>2 DEF HeardSoon, Fitted, Parsing
  <2>1. calm' # 0 /\ serviced = "yes" /\ calm' <= calm + 1
    BY <1>0, <1>1, <1>2
  <2>2. rx = <<>> /\ Len(rx) = 0
    BY <1>0, <1>2, <1>10, <2>1
  <2>3. (drv.valid /\ drv.age = 0) \/ calm <= SettleTime - 2
    BY <2>1 DEF GnssInv, HeardSoon, Parsing
  <2>4. (drv.valid /\ drv'.age <= 1) \/ calm' <= SettleTime - 1
    BY <1>0, <1>1, <1>2, <2>1, <2>3
  <2>5. CASE module.kind = "old"
    <3>1. module.on = Legacy
      BY <2>5 DEF Complete
    <3>2. new = Solution(module.on)
      BY <1>12, <2>1, <3>1 DEF Legacy
    <3>3. Len(new) = 3 /\ new[1] = "POSLLH" /\ new[2] = "SOL"
      BY <1>2, <3>1, <3>2, SolutionIs
    <3>4. Len(rx') = 3
      BY <1>0, <1>4, <2>2, <3>3
    <3>5. rx'[1] = "POSLLH" /\ rx'[2] = "SOL"
      <4>1. 1 \in 1..Len(rx') /\ 2 \in 1..Len(rx') /\ 1 - Len(rx) = 1 /\ 2 - Len(rx) = 2
            /\ ~(1 <= Len(rx)) /\ ~(2 <= Len(rx))
        BY <2>2, <3>4
      <4> QED BY <1>31, <3>3, <4>1
    <3>6. Has("POSLLH")' /\ Has("SOL")'
      BY <3>4, <3>5 DEF Has
    <3> QED BY <1>30, <2>4, <2>5, <3>6 DEF Renewing
  <2>6. CASE module.kind # "old"
    <3>1. module.on = {"PVT"}
      BY <2>6 DEF Complete
    <3>2. new = Solution(module.on) /\ rx'[Len(rx) + 1] = new[1] /\ Len(rx) + 1 \in 1..Len(rx')
      BY <1>12, <2>1, <3>1
    <3>3. Solution(module.on) = <<"PVT">>
      BY <1>2, <3>1, SolutionIs
    <3>4. rx'[1] = "PVT" /\ 1 \in 1..Len(rx')
      BY <2>2, <3>2, <3>3
    <3> QED BY <1>1, <2>4, <2>6, <3>4 DEF Renewing, Has
  <2> QED BY <2>5, <2>6
<1> QED BY <1>13, <1>14, <1>15, <1>16, <1>17, <1>18, <1>19, <1>20, <1>21, <1>22, <1>23, <1>24
        DEF GnssInv

LEMMA FreshWhileRun == GnssInv => PositionFresh
<1> SUFFICES ASSUME GnssInv, drv.valid, running = Aged
             PROVE  \/ drv.age <= Lasting
                    \/ module.kind = "old" /\ (calm < Aged \/ "POSLLH" \notin module.on)
  BY DEF PositionFresh
<1>0. GnssTypeOK /\ Len(Bauds) \in Nat /\ Silence \in Nat /\ Silence >= 2
      /\ Aged = Silence + Len(Bauds) + 2 /\ Lasting = Silence + Len(Bauds) + 1
  BY GnssConstants DEF GnssInv, Lasting
<1>1. /\ drv.age \in Nat /\ calm \in Nat /\ drv.idx \in Nat /\ drv.idx <= Len(Bauds)
      /\ drv.quiet \in Nat /\ drv.quiet <= Silence + 1 /\ (Due = 0 \/ Due = 1)
      /\ drv.state \in {"Sweep", "Parse"}
  BY <1>0, GnssTypes, GnssConstants
<1>2. CASE module.kind # "old"
  <2>1. CASE drv.state = "Sweep"
    <3>1. drv.age <= drv.idx - 1 + Due \/ running <= drv.idx - 1 + Due
      BY <1>2, <2>1 DEF GnssInv, ValidRecently, Sweeping
    <3> QED BY <1>0, <1>1, <3>1
  <2>2. CASE drv.state = "Parse"
    <3>1. drv.age <= drv.quiet + Len(Bauds) \/ running <= drv.quiet + Len(Bauds)
      BY <1>2, <2>2 DEF GnssInv, ValidRecently, Sweeping
    <3> QED BY <1>0, <1>1, <3>1
  <2> QED BY <1>1, <2>1, <2>2
<1>3. CASE module.kind = "old" /\ drv.state = "Sweep"
  <2>1. calm <= drv.idx + Due
    BY <1>3 DEF GnssInv, SoughtRecently, Sweeping
  <2> QED BY <1>0, <1>1, <1>3, <2>1
<1>4. CASE module.kind = "old" /\ drv.state = "Parse" /\ "POSLLH" \in module.on
  <2>1. drv.age <= Len(Bauds) + 3 \/ calm <= Len(Bauds) + 3
    BY <1>0, <1>1, <1>4 DEF GnssInv, OldPositionFirst, Parsing
  <2> QED BY <1>0, <1>1, <1>4, <2>1
<1> QED BY <1>1, <1>2, <1>3, <1>4

LEMMA FoundOnceCalm == GnssInv => ModuleFound
<1> SUFFICES ASSUME GnssInv, calm = SettleTime, Fitted,
                    ~(module.kind = "old" /\ module.on \cap Legacy \notin {{}, Legacy})
             PROVE  drv.valid /\ drv.age <= 1
  BY DEF ModuleFound
<1>0. GnssTypeOK /\ Len(Bauds) \in Nat /\ Silence \in Nat /\ Silence >= 2
      /\ SettleTime = Silence + 2 * Len(Bauds) + 4
  BY GnssConstants DEF GnssInv
<1>1. /\ drv.age \in Nat /\ calm \in Nat /\ drv.idx \in Nat /\ drv.idx <= Len(Bauds)
      /\ drv.quiet \in Nat /\ drv.quiet <= Silence + 1 /\ (Due = 0 \/ Due = 1)
      /\ drv.state \in {"Sweep", "Parse"}
  BY <1>0, GnssTypes, GnssConstants
<1>2. drv.state = "Parse"
  <2> SUFFICES ASSUME drv.state = "Sweep" PROVE FALSE
    BY <1>1
  <2>1. calm <= Len(Bauds) + Silence + drv.idx + Due \/ calm <= drv.idx - 2 + Due
    BY DEF GnssInv, SweepReaches, Sweeping
  <2> QED BY <1>0, <1>1, <2>1
<1>3. module.on = {} \/ Complete
  <2>1. CASE module.kind = "old"
    <3>1. module.on \subseteq Legacy
      BY <2>1 DEF GnssInv, KindsDiffer
    <3>2. module.on \cap Legacy = module.on
      BY <3>1
    <3> QED BY <2>1, <3>2 DEF Complete
  <2>2. CASE module.kind # "old"
    BY <2>2 DEF GnssInv, KindsDiffer, Complete
  <2> QED BY <2>1, <2>2
<1>4. module.on # {}
  <2> SUFFICES ASSUME module.on = {} PROVE FALSE
    OBVIOUS
  <2>1. calm <= SettleTime - 3 + Due \/ calm <= Len(Bauds) - 1 + drv.quiet
    BY <1>2 DEF GnssInv, SilentSought, Parsing
  <2> QED BY <1>0, <1>1, <2>1
<1>5. \/ drv.valid /\ drv.age = 0
      \/ calm <= SettleTime - 2
      \/ (drv.valid /\ drv.age <= 1) \/ calm <= SettleTime - 1
  BY <1>2, <1>3, <1>4 DEF GnssInv, HeardSoon, Parsing
<1> QED BY <1>0, <1>1, <1>5

LEMMA GnssServiceKeeps == GnssInv /\ GnssService => GnssInv'
  BY ReadKeeps, SweepStepKeeps, SettleKeeps, WatchKeeps DEF GnssService

-----------------------------------------------------------------------------
(***************************************************************************)
(* The board: every step is one of the settings', one of the uploads', one *)
(* of the GNSS module's or its driver's, or a restart of all three.        *)
(***************************************************************************)
IInv == StoreInv /\ BannerInv /\ UploadInv /\ GnssInv

LEMMA StoreStutter ==
    StoreInv /\ BannerInv /\ UNCHANGED storeVars => StoreInv' /\ BannerInv'
<1> SUFFICES ASSUME StoreInv, BannerInv, UNCHANGED storeVars PROVE StoreInv' /\ BannerInv'
  OBVIOUS
<1>1. StoreInv'
  BY DEF storeVars, fileVars, ramVars, StoreInv, StoreTypeOK, SavedSurvives, Committing,
         WrittenBeforeCommit, IdleAtStart, LoadFillsAbsent
<1>2. BannerInv'
  BY BannerStutter DEF storeVars, fileVars, ramVars
<1> QED BY <1>1, <1>2

LEMMA UploadStutter == UploadInv /\ UNCHANGED uploadVars => UploadInv'
  BY DEF uploadVars, UploadInv, UploadTypeOK, ImageDropped, ImageBegun, ImageInOrder, FlashWhole

LEMMA AskRebootStep == IInv /\ AskReboot => IInv'
<1> SUFFICES ASSUME IInv, AskReboot PROVE IInv'
  OBVIOUS
<1>1. requests' \in 0..MaxRequests
  BY SettingsAssumption DEF AskReboot, Request, IInv, StoreInv, StoreTypeOK
<1>2. StoreTypeOK'
  BY <1>1 DEF AskReboot, fileVars, ramVars, IInv, StoreInv, StoreTypeOK
<1>3. StoreInv'
  BY <1>2 DEF AskReboot, fileVars, ramVars, IInv, StoreInv, SavedSurvives, Committing,
              WrittenBeforeCommit, IdleAtStart, LoadFillsAbsent
<1>4. rebootAt' \in BOOLEAN /\ stuck' \in BOOLEAN
  BY RebootAsked DEF AskReboot, IInv
<1>5. UploadTypeOK'
  BY <1>4 DEF AskReboot, IInv, UploadInv, UploadTypeOK
<1>6. UploadInv'
  BY <1>5 DEF AskReboot, IInv, UploadInv, ImageDropped, ImageBegun, ImageInOrder, FlashWhole
<1>7. GnssInv'
  BY GnssStutter DEF AskReboot, IInv
<1>8. BannerInv'
  BY BannerStutter DEF AskReboot, IInv, fileVars, ramVars
<1> QED BY <1>3, <1>6, <1>7, <1>8 DEF IInv

THEOREM InitIInv == Init => IInv
  BY StoreInitInv, BannerInitInv, UploadInitInv, GnssInitInv DEF Init, IInv

THEOREM NextIInv == IInv /\ [Next]_vars => IInv'
<1> SUFFICES ASSUME IInv, [Next]_vars PROVE IInv'
  OBVIOUS
<1>1. CASE Web
  BY <1>1, UploadStepInv, StoreStutter, GnssStutter DEF Web, IInv
<1>2. CASE Settings
  BY <1>2, StoreStepInv, BannerStepInv, UploadStutter, GnssStutter DEF Settings, IInv
<1>3. CASE ServiceGnss
  BY <1>3, StoreStutter, UploadStutter, GnssServiceKeeps DEF ServiceGnss, IInv
<1>4. CASE Module
  BY <1>4, StoreStutter, UploadStutter, ModuleRestartKeeps DEF Module, IInv
<1>5. CASE Tick
  <2>1. otaActive \in BOOLEAN
    BY DEF IInv, UploadInv, UploadTypeOK
  <2>2. GnssInv'
    BY <1>5, <2>1, TickKeeps DEF Tick, IInv
  <2> QED BY <1>5, <2>2, StoreStutter, UploadStutter DEF Tick, IInv
<1>6. CASE LoopRestart \/ Restart
  BY <1>6, HaltStep, BannerStepInv, UploadRestartStep, GnssRestartKeeps DEF LoopRestart, Restart, IInv
<1>7. CASE AskReboot
  BY <1>7, AskRebootStep
<1>8. CASE UNCHANGED vars
  BY <1>8, StoreStutter, UploadStutter, GnssStutter DEF vars, IInv
<1> QED BY <1>1, <1>2, <1>3, <1>4, <1>5, <1>6, <1>7, <1>8 DEF Next

THEOREM Invariance == Spec => []IInv
  BY InitIInv, NextIInv, PTL DEF Spec

(***************************************************************************)
(* The settings, the upload and the GNSS driver keep their types.          *)
(***************************************************************************)
THEOREM TypeCorrect == Spec => []TypeOK
<1>1. IInv => TypeOK
  BY DEF IInv, StoreInv, UploadInv, GnssInv, TypeOK
<1> QED BY <1>1, Invariance, PTL

(***************************************************************************)
(* Wherever a save is cut short, by power lost or by a step that fails,    *)
(* the settings last saved are there, the code's three lapses aside.       *)
(***************************************************************************)
THEOREM SaveIsAtomic == Spec => []SavedSurvives
<1>1. IInv => SavedSurvives
  BY DEF IInv, StoreInv
<1> QED BY <1>1, Invariance, PTL

(***************************************************************************)
(* However often the node starts, the settings file it finds stays as it   *)
(* is, readable or not, unless the node cannot open it or formats the      *)
(* flash.                                                                  *)
(***************************************************************************)
THEOREM FileStays == Spec => FileKept
<1> DEFINE Keeps == live # Absent /\ live' # live
                      => boot \in {"off", "blind"} \/ job.caller \in {"setup", "save", "reset"}
<1>1. IInv /\ [Next]_vars => [Keeps]_storeVars
  <2> SUFFICES ASSUME IInv, [Next]_vars, live # Absent, live' # live
               PROVE  boot \in {"off", "blind"} \/ job.caller \in {"setup", "save", "reset"}
    OBVIOUS
  <2>1. Settings
    BY DEF Web, AskReboot, ServiceGnss, LoopRestart, Restart, Halt, Module, Tick, Next, vars,
           storeVars, fileVars
  <2>2. Mount \/ RemoveLive \/ Rename
    BY <2>1 DEF Settings, StoreStep, SaveStep, Load, Open, WriteTemp, Cool, PostSave, PostReset,
                PostConfig, Begin, fileVars
  <2>3. CASE Mount
    BY <2>3 DEF Mount
  <2>4. CASE RemoveLive \/ Rename
    <3>1. job \in Jobs /\ boot \in {"fresh", "blind", "up"} /\ job # NoJob
      BY <2>4, AtWork, JobTypes DEF RemoveLive, Rename, Committing, Steps, IInv
    <3>2. ~(job.caller = "load" /\ boot = "fresh")
      BY <3>1 DEF IInv, StoreInv, LoadFillsAbsent
    <3>3. ~(job.caller = "load" /\ boot = "up")
      BY <3>1 DEF IInv, BannerInv, CallerFits
    <3> QED BY <3>1, <3>2, <3>3 DEF Jobs, Callers
  <2> QED BY <2>2, <2>3, <2>4
<1> QED BY <1>1, Invariance, PTL DEF Spec, FileKept

(***************************************************************************)
(* Without the banner the node runs the settings it holds, and those its   *)
(* next start will find, as far as applyLiveConfig can tell.               *)
(***************************************************************************)
THEOREM BannerIsShown == Spec => []BannerShown
<1>1. IInv => BannerShown
  <2> SUFFICES ASSUME IInv, Ready, ~rebootRequired
               PROVE  InForce(cfg) /\ (sound /\ live \in Configs => InForce(live))
    BY DEF BannerShown
  <2>1. boot = "up" /\ job.caller # "reset"
    BY DEF Ready, NoJob
  <2> QED BY <2>1 DEF IInv, BannerInv, CfgAnnounced, FileAnnounced, Announced
<1> QED BY <1>1, Invariance, PTL

(***************************************************************************)
(* An image accepted from one client is its whole body, however many       *)
(* clients upload at once and whatever fails, for bodies of any length.    *)
(***************************************************************************)
THEOREM ImageIsWhole == Spec => []FlashWhole
<1>1. IInv => FlashWhole
  BY DEF IInv, UploadInv
<1> QED BY <1>1, Invariance, PTL

(***************************************************************************)
(* A position the driver gives out as valid was sent lately, however many  *)
(* speeds there are to try and however long a silence the driver puts up   *)
(* with, the two exceptions aside that the property names.                 *)
(***************************************************************************)
THEOREM PositionIsFresh == Spec => []PositionFresh
<1>1. IInv => PositionFresh
  BY FreshWhileRun DEF IInv
<1> QED BY <1>1, Invariance, PTL

(***************************************************************************)
(* A module is found whatever its speed and age, and its position comes    *)
(* every tick, once nothing has been lost for two sweeps and a silence.    *)
(***************************************************************************)
THEOREM ModuleIsFound == Spec => []ModuleFound
<1>1. IInv => ModuleFound
  BY FoundOnceCalm DEF IInv
<1> QED BY <1>1, Invariance, PTL
=============================================================================
