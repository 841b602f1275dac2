---------------------------- MODULE ConfigStore ----------------------------
(***************************************************************************)
(* The settings of a node: the copy in memory, which the web interface     *)
(* changes, and the file hal/ConfigStore.cpp keeps, written to a temporary *)
(* file and renamed, read once when the node starts.                       *)
(*                                                                         *)
(* Power may go, or the node restart, between any two steps of a save.     *)
(***************************************************************************)
EXTENDS Naturals

CONSTANTS Part,       \* the parts of the settings that are put to use differently
          Radios,     \* those of them that switch a radio on
          BootParts,  \* the others that only reach the node when it starts
          Checked,    \* those of BootParts whose change applyLiveConfig looks for
          Configs,    \* the settings that validate
          Defaults,   \* Settings{}
          Flashed,    \* Defaults with the name and passphrase flashed into the image
          Absent,     \* of a file: there is none, or it is empty
          Unreadable, \* of a file: cut short, not JSON, or settings that do not validate
          MaxRequests \* bound: requests to change or save the settings

ASSUME SettingsAssumption ==
    /\ Configs \subseteq [Part -> BOOLEAN] /\ {Defaults, Flashed} \subseteq Configs
    /\ Radios \subseteq Part /\ Checked \subseteq BootParts /\ BootParts \subseteq Part
    /\ Radios \cap BootParts = {} /\ MaxRequests \in Nat
    /\ Absent \notin Configs /\ Unreadable \notin Configs /\ Absent # Unreadable

VARIABLES live,     \* /config.json: settings, or what else is there
          temp,     \* /config.new
          boot,     \* how far setup() is: "fresh" once it found no file, "blind" if it could not
                    \* open the one there is and takes that for a first boot as well
          mounted,  \* mounted_
          cfg,      \* g_settings
          booted,   \* what the node was built from when it started; g_boot is part of it
          rebootRequired, \* reboot_required_
          job,      \* the save under way: its step, its settings and who called it
          recent,   \* was the last save answered less than kSaveMinIntervalMs ago?
          requests, \* bound: requests left
          sound,    \* bound: do the flash and the memory for its files never fail in this behaviour?
          kept,     \* history: the settings the last completed save wrote, Absent if none
          asked,    \* history: the settings the last save begun was to write
          lapse     \* history: what has kept a save from being all or nothing

fileVars == <<live, temp, kept, asked, lapse>>
ramVars == <<cfg, booted, rebootRequired, recent>>
storeVars == <<fileVars, ramVars, boot, mounted, job, requests, sound>>

Content == Configs \cup {Absent, Unreadable}
Steps == {"open", "write", "remove", "rename"}
Callers == {"load", "setup", "save", "reset"}
Jobs == [step : Steps, what : Configs, caller : Callers]
NoJob == [step |-> "none", what |-> Defaults, caller |-> "load"]

StoreInit ==
    /\ live \in Configs \cup {Absent, Unreadable} /\ temp \in {Absent, Unreadable}
    /\ boot = "off" /\ mounted = FALSE
    /\ cfg = Defaults /\ booted = Defaults
    /\ rebootRequired = FALSE /\ recent = FALSE
    /\ job = NoJob /\ requests \in 0..MaxRequests /\ sound \in BOOLEAN
    /\ kept = live /\ asked = live /\ lapse = {}

\* WebServer.cpp: the routes exist once setup() is over, and are called one at a time.
Ready == boot = "up" /\ job = NoJob
Request == Ready /\ requests > 0 /\ requests' = requests - 1

\* ConfigStore::begin: two failures to mount and the files are wiped.
Mount ==
    /\ boot = "off" /\ boot' = "mounted"
    /\ \/ mounted' = TRUE /\ UNCHANGED fileVars
       \/ ~sound /\ mounted' = FALSE /\ UNCHANGED fileVars
       \/ /\ ~sound /\ mounted' = TRUE
          /\ live' = Absent /\ temp' = Absent /\ kept' = Absent /\ asked' = Absent
          /\ UNCHANGED lapse
    /\ UNCHANGED <<ramVars, job, requests, sound>>

\* setup(): the radios, the cipher and the node are built from g_settings.
Start(settings) == boot' = "up" /\ cfg' = settings /\ booted' = settings
Begin(settings, caller) ==
    /\ job' = [step |-> "open", what |-> settings, caller |-> caller]
    /\ asked' = settings /\ UNCHANGED <<live, temp, kept, lapse>>

\* Mutant: a file that does not parse is taken for no file at all.
LoadRepairs ==
    /\ boot = "mounted" /\ UNCHANGED <<rebootRequired, recent, mounted, requests, sound>>
    /\ \/ /\ ~mounted \/ live \in Configs
          /\ Start(IF mounted THEN live ELSE Defaults) /\ UNCHANGED <<fileVars, job>>
       \/ /\ mounted /\ live \notin Configs
          /\ boot' = "fresh" /\ Begin(Defaults, "load") /\ UNCHANGED <<cfg, booted>>

\* ConfigStore::load, and setup() up to the flashed name and passphrase.  A file that does not
\* parse, or is read wrongly, is left alone; one that cannot be opened is taken for no file.
Load ==
    /\ boot = "mounted"
    /\ \/ /\ ~mounted \/ live = Unreadable \/ (~sound /\ live # Absent)
          /\ Start(Defaults) /\ UNCHANGED <<fileVars, job>>
       \/ /\ mounted /\ live \in Configs
          /\ Start(live) /\ UNCHANGED <<fileVars, job>>
       \/ /\ mounted
          /\ \/ live = Absent /\ boot' = "fresh"
             \/ ~sound /\ live # Absent /\ boot' = "blind"
          /\ Begin(Defaults, "load") /\ UNCHANGED <<cfg, booted>>
    /\ UNCHANGED <<rebootRequired, recent, mounted, requests, sound>>

\* What the caller does once save() has returned.
Return(saved) ==
    LET caller == job.caller IN
    /\ recent' = (recent \/ (saved /\ caller = "save"))
    /\ rebootRequired' = (rebootRequired \/ caller = "reset")
    /\ \/ /\ caller \in {"save", "reset"} /\ job' = NoJob
          /\ UNCHANGED <<boot, cfg, booted, asked>>
       \/ /\ caller = "load" /\ Flashed # Defaults
          /\ job' = [step |-> "open", what |-> Flashed, caller |-> "setup"]
          /\ cfg' = Flashed /\ asked' = Flashed /\ UNCHANGED <<boot, booted>>
       \/ /\ caller = "setup" \/ (caller = "load" /\ Flashed = Defaults)
          /\ Start(cfg) /\ job' = NoJob /\ UNCHANGED asked
    /\ UNCHANGED <<mounted, requests, sound>>

Advance(step) ==
    /\ job' = [job EXCEPT !.step = step]
    /\ UNCHANGED <<ramVars, boot, mounted, requests, sound, asked>>
Committing == job.step = "rename"

\* Mutant: the old file is removed before the new one is written.
OpenRemovingLive ==
    /\ job.step = "open"
    /\ \/ mounted /\ live' = Absent /\ temp' = Unreadable /\ Advance("write")
       \/ ~(sound /\ mounted) /\ live' = live /\ temp' = temp /\ Return(FALSE)
    /\ UNCHANGED <<kept, lapse>>

\* ConfigStore::save.  A write that was cut short is taken for a whole one, and whether the
\* old file could be removed is not looked at: the rename replaces what is there.
Open ==
    /\ job.step = "open"
    /\ \/ mounted /\ temp' = Unreadable /\ Advance("write")
       \/ ~(sound /\ mounted) /\ temp' = temp /\ Return(FALSE)
    /\ UNCHANGED <<live, kept, lapse>>
WriteTemp ==
    /\ job.step = "write"
    /\ \/ temp' = job.what /\ lapse' = lapse /\ Advance("remove")
       \/ ~sound /\ temp' = Unreadable /\ lapse' = lapse \cup {"short"} /\ Advance("remove")
       \/ ~sound /\ temp' = Absent /\ lapse' = lapse /\ Return(FALSE)
    /\ UNCHANGED <<live, kept>>
RemoveLive ==
    /\ job.step = "remove"
    /\ live' = Absent \/ (~sound /\ live' = live)
    /\ Advance("rename") /\ UNCHANGED <<temp, kept, lapse>>
Rename ==
    /\ Committing
    /\ \/ /\ live' = temp /\ temp' = Absent /\ kept' = job.what
          /\ lapse' = IF temp = job.what THEN {} ELSE lapse
          /\ Return(TRUE)
       \/ /\ ~sound /\ lapse' = lapse \cup {"rename"} /\ Return(FALSE)
          /\ UNCHANGED <<live, temp, kept>>

\* The power goes, or the node restarts: what was in memory is lost.
Halt ==
    /\ boot # "off" /\ boot' = "off" /\ mounted' = FALSE
    /\ cfg' = Defaults /\ booted' = Defaults /\ rebootRequired' = FALSE /\ recent' = FALSE
    /\ job' = NoJob
    /\ lapse' = IF Committing THEN lapse \cup {"gap"} ELSE lapse
    /\ UNCHANGED <<live, temp, kept, asked, requests, sound>>

\* applyLiveConfig, as far as it tells that a change waits for a restart.
WaitsForRestart(settings) ==
    \/ \E part \in Checked : settings[part] # booted[part]
    \/ \E radio \in Radios : settings[radio] /\ ~booted[radio]

\* Mutant: changing the settings back takes the banner down, whatever was saved meanwhile.
PostConfigAnew(settings) ==
    /\ Request
    /\ cfg' = settings /\ rebootRequired' = WaitsForRestart(settings)
    /\ UNCHANGED <<fileVars, booted, recent, boot, mounted, job, sound>>

\* POST /api/config: merged as a whole, or refused and nothing changed.
PostConfig(settings) ==
    /\ Request
    /\ cfg' = settings
    /\ rebootRequired' = (rebootRequired \/ WaitsForRestart(settings))
    /\ UNCHANGED <<fileVars, booted, recent, boot, mounted, job, sound>>

\* POST /api/config/save, refused within kSaveMinIntervalMs of the last one that worked.
PostSave ==
    /\ Request /\ ~recent /\ Begin(cfg, "save")
    /\ UNCHANGED <<ramVars, boot, mounted, sound>>
Cool ==
    /\ recent /\ recent' = FALSE
    /\ UNCHANGED <<fileVars, cfg, booted, rebootRequired, boot, mounted, job, requests, sound>>

\* POST /api/config/reset.
PostReset ==
    /\ Request /\ cfg' = Defaults /\ Begin(Defaults, "reset")
    /\ UNCHANGED <<booted, rebootRequired, recent, boot, mounted, sound>>

SaveStep == Open \/ WriteTemp \/ RemoveLive \/ Rename
StoreStep ==
    \/ Mount \/ Load \/ SaveStep \/ Cool \/ PostSave \/ PostReset
    \/ \E settings \in Configs : PostConfig(settings)
StoreNext == StoreStep \/ Halt
StoreSpec == StoreInit /\ [][StoreNext]_storeVars

-----------------------------------------------------------------------------
(* Properties *)

StoreTypeOK ==
    /\ live \in Content /\ temp \in Content
    /\ boot \in {"off", "mounted", "fresh", "blind", "up"} /\ mounted \in BOOLEAN
    /\ cfg \in Configs /\ booted \in Configs /\ rebootRequired \in BOOLEAN
    /\ job \in Jobs \cup {NoJob} /\ recent \in BOOLEAN
    /\ requests \in 0..MaxRequests /\ sound \in BOOLEAN
    /\ kept \in Content /\ asked \in Content /\ lapse \subseteq {"short", "rename", "gap"}

\* Power lost or a step failing anywhere in a save leaves the settings of the last save
\* that completed, whole.  Three lapses excepted, which the code lets through: a write cut
\* short, a rename that failed, and power lost between the removal and the rename.  The
\* defaults a start saves count as saved; FileKept says when it may save them.
SavedSurvives == lapse = {} /\ ~Committing => live = kept

\* A start of the node, however often repeated, never replaces a settings file that is there,
\* readable or not: only a save or a reset somebody asked for does.  (Formatting, after two
\* failures to mount, takes every file; the first start writes the flashed settings over the
\* defaults it has just written; and a file that cannot be opened is written over.)
FileKept ==
    [][ live # Absent /\ live' # live
        => boot \in {"off", "blind"} \/ job.caller \in {"setup", "save", "reset"} ]_storeVars

InForce(settings) ==
    /\ \A part \in Checked : settings[part] = booted[part]
    /\ \A radio \in Radios : settings[radio] => booted[radio]

\* Without the banner that a restart is needed, the node already runs, of what applyLiveConfig
\* can tell, the settings in memory and those the next start would read, whatever was changed,
\* changed back, saved and reset in between.  (Those in the file only while the flash does not
\* fail: a node that could not read it runs the defaults, and shows no banner.)
BannerShown ==
    Ready /\ ~rebootRequired => InForce(cfg) /\ (sound /\ live \in Configs => InForce(live))

\* What the documentation says of an interrupted save: the old file or the new one is there.
OldOrNewSurvives == boot = "off" => live \in {kept, asked}

\* What the header says of load: a file it could not read has not been touched by the start.
FileUntouched ==
    [][ live # Absent /\ live' # live
        => boot = "off" \/ job.caller \in {"setup", "save", "reset"} ]_storeVars
=============================================================================
