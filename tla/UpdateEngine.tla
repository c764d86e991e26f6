---------------------------- MODULE UpdateEngine ----------------------------
(***************************************************************************)
(* The update engine (class Updater): the description of a distribution is  *)
(* fetched, its files are downloaded into the temporary folder, and they   *)
(* are deployed into the working directory with a backup of what they      *)
(* replace.  A file is its version, 0 is no file.  Update commands may name *)
(* one distribution after the other, each of them any number of times.     *)
(***************************************************************************)
EXTENDS Naturals, Sequences, FiniteSets

CONSTANTS
    Files,      \* file names of the working directory and the distributions
    Initial,    \* the version of each on the disk before the first update
    Releases,   \* the distributions: in each the version of each file, 0 unlisted
    Settings,   \* files of a component with skip_existing
    Optional,   \* files of an optional component
    Partial,    \* TRUE: only some components of the distributions are updated
    MaxFails,   \* CUpdater::MaxFails
    MaxFaults   \* bound: failing file operations and stops of the program

ASSUME EngineAssumption ==
    /\ Initial \in [Files -> Nat]
    /\ Releases \in Seq([Files -> Nat]) /\ Releases # <<>>
    /\ Settings \subseteq Files /\ Optional \subseteq Files
    /\ Partial \in BOOLEAN /\ MaxFails \in Nat \ {0} /\ MaxFaults \in Nat

VARIABLES
    disk,       \* the working directory
    temp,       \* the files that are whole in the temporary folders, which
                \* are named by component and version: pairs <<file, version>>
    saved,      \* the distributions whose configuration is stored, 0 one of before
    backups,    \* the files in the backup folder of any deploy
    release,    \* the distribution the last command has named
    stage,      \* what the engine is doing
    left,       \* the files the stage still has to handle
    line,       \* "busy" with the front task; "grew" when its last try failed
                \* and had new data
    fails,      \* m_FailCount
    result,     \* the error code of done()
    before,     \* the working directory when deploy() began
    clean,      \* FALSE: the roll back ignored an error
    held,       \* history: the files deploys found, but for spared ones
    deployed,   \* history: the distribution of the last deploy that went through
    torn,       \* history: one was cut off since, or not rolled back cleanly
    faults

storage == <<disk, temp, saved, backups>>
command == <<release, fails, result>>
rolling == <<before, clean>>
record  == <<held, deployed, torn>>
engineVars == <<storage, command, rolling, record, stage, left, line, faults>>

\* "stalled" is a download nothing goes on with.
Stages == {"idle", "describe", "download", "stalled", "ready", "backup",
           "delete", "install", "post", "undo", "restore", "done"}

\* The part of deploy() in which the directory is no version at all.
Changing == {"delete", "install", "post", "undo", "restore"}

\* What neither replaces a file that exists nor, optional, has to come at all.
Spared == Settings \cup Optional

TypeOK ==
    /\ disk \in [Files -> Nat] /\ before \in [Files -> Nat]
    /\ temp \subseteq Files \X Nat /\ backups \subseteq Files \X Nat
    /\ saved \subseteq 0..Len(Releases)
    /\ release \in DOMAIN Releases
    /\ stage \in Stages
    /\ left \subseteq Files
    /\ fails \in 0..MaxFails
    /\ result \in {"none", "ok", "network", "unknown", "deploy"}
    /\ line \in {"quiet", "busy", "grew"}
    /\ clean \in BOOLEAN /\ torn \in BOOLEAN
    /\ held \subseteq (Files \ Spared) \X (Nat \ {0})
    /\ deployed \in 0..Len(Releases)
    /\ faults \in 0..MaxFaults

EngineInit ==
    /\ disk = Initial /\ temp = {} /\ saved \in {{}, {0}} /\ backups = {}
    /\ release = 1 /\ fails = 0 /\ result = "none"
    /\ stage = "idle" /\ left = {} /\ line = "quiet"
    /\ before = disk /\ clean = TRUE
    /\ held = {} /\ deployed = 0 /\ torn = FALSE
    /\ faults = 0

-----------------------------------------------------------------------------
(* What there is to do *)

\* The version of a file in the distribution.
Wanted(f) == Releases[release][f]
Listed == {f \in Files : Wanted(f) # 0}

\* Neither removed nor restored by the deploy.
Kept == Spared \cap Listed

\* oldFiles: what the deploy removes, without what it brings itself.
OldFiles ==
    {f \in Files :
        /\ before[f] \notin {0, Wanted(f)}
        /\ Partial => f \in Listed
        /\ f \notin Kept}

\* newFiles: the listed files the disk does not have in this version.
NewFiles == {f \in Listed : before[f] # Wanted(f)}

\* The download tasks: listed files neither installed nor downloaded before.
Tasks == {f \in Listed : disk[f] # Wanted(f) /\ <<f, Wanted(f)>> \notin temp}

FrontTask == CHOOSE f \in left : TRUE

Fault == faults < MaxFaults /\ faults' = faults + 1

-----------------------------------------------------------------------------
(* Description and download *)

Done(code) == stage' = "done" /\ left' = {} /\ result' = code

\* The update command for a distribution reaches a new process of the updater.
RunUpdate ==
    /\ stage = "idle"
    /\ release' \in DOMAIN Releases
    /\ stage' = "describe" /\ left' = {} /\ fails' = 0 /\ result' = "none"
    /\ clean' = TRUE
    /\ UNCHANGED <<storage, line, before, record, faults>>

\* Mutant: the configuration is stored when it has been fetched.
DescribedSaved ==
    /\ stage = "describe"
    /\ stage' = "download" /\ left' = Tasks /\ saved' = {release}
    /\ UNCHANGED <<disk, temp, backups, command, line, rolling, record, faults>>

\* The first description a terminal gets is stored at once.
Described ==
    /\ stage = "describe"
    /\ stage' = "download" /\ left' = Tasks
    /\ saved' = IF saved = {} THEN {release} ELSE saved
    /\ UNCHANGED <<disk, temp, backups, command, line, rolling, record, faults>>

\* A file of the directory cannot be read for its checksum: downloadComponents
\* leaves it at a line in the log.
ChecksumFails ==
    /\ stage = "describe" /\ Fault
    /\ stage' = "stalled"
    /\ saved' = IF saved = {} THEN {release} ELSE saved
    /\ UNCHANGED <<disk, temp, backups, command, left, line, rolling, record>>

\* Mutant: the failures of the description are never too many.
NotDescribedForever(wait) ==
    /\ stage = "describe"
    /\ IF wait THEN fails' = fails + 1 /\ UNCHANGED <<stage, left, result>>
               ELSE Done("network") /\ UNCHANGED fails
    /\ UNCHANGED <<storage, release, line, rolling, record, faults>>

\* The server does not answer or tells to wait: another try in ten minutes,
\* unless there were too many; an answer that is no description ends it.
NotDescribed(wait) ==
    /\ stage = "describe"
    /\ IF wait /\ fails < MaxFails
         THEN fails' = fails + 1 /\ UNCHANGED <<stage, left, result>>
         ELSE Done("network") /\ UNCHANGED fails
    /\ UNCHANGED <<storage, release, line, rolling, record, faults>>

\* download(): the front task goes to the network, now or after a pause.
StartTask ==
    /\ stage = "download" /\ left # {} /\ line # "busy"
    /\ line' = "busy"
    /\ UNCHANGED <<storage, command, stage, left, rolling, record, faults>>

\* Its answer, downloadComplete().
Answered(news) ==
    /\ stage = "download" /\ left # {}
    /\ line = "busy" /\ line' = IF news THEN "grew" ELSE "quiet"
    /\ UNCHANGED <<disk, saved, backups, release, rolling, record, faults>>

GoToNextFile == left' = left \ {FrontTask} /\ fails' = 0 /\ UNCHANGED <<stage, result>>

Fetched ==
    /\ Answered(FALSE) /\ GoToNextFile
    /\ temp' = temp \cup {<<FrontTask, Wanted(FrontTask)>>}

\* One more failure of the front task; the count stops the download when it
\* has reached the limit and this try brought nothing new.
Failed(news) ==
    IF fails + 1 >= MaxFails /\ ~news
    THEN IF FrontTask \in Optional
         THEN GoToNextFile
         ELSE Done("network") /\ UNCHANGED fails
    ELSE /\ fails' = IF fails < MaxFails THEN fails + 1 ELSE fails
         /\ UNCHANGED <<stage, left, result>>

\* A connection lost: what came stays and is continued at the next try.  The
\* size of the file has changed or not, as often as the line and a server that
\* sends too much will have it.
FetchFails(news) == Answered(news) /\ Failed(news) /\ UNCHANGED temp

\* Mutant: what came wrong counts as something new.
VerifyFailsAsNews ==
    /\ Answered(FALSE) /\ UNCHANGED temp
    /\ IF FrontTask \in Optional THEN GoToNextFile ELSE Failed(TRUE)

\* The file came whole and wrong: it is thrown away; an optional one is
\* given up at once.
VerifyFails ==
    /\ Answered(FALSE) /\ UNCHANGED temp
    /\ IF FrontTask \in Optional THEN GoToNextFile ELSE Failed(FALSE)

DownloadAccomplished ==
    /\ stage = "download" /\ left = {}
    /\ stage' = "ready"
    /\ UNCHANGED <<storage, command, left, line, rolling, record, faults>>

-----------------------------------------------------------------------------
(* Deploy *)

\* Mutant: only what is replaced is backed up, not what is removed.
DeployReplaced ==
    /\ stage = "ready"
    /\ UNCHANGED <<storage, command, line, clean, deployed, torn, faults>>
    /\ before' = disk
    /\ stage' = "backup" /\ left' = OldFiles' \cap Listed
    /\ held' = held \cup {<<f, disk[f]>> : f \in {g \in Files \ Spared : disk[g] # 0}}

Deploy ==
    /\ stage = "ready"
    /\ UNCHANGED <<storage, command, line, clean, deployed, torn, faults>>
    /\ before' = disk
    /\ stage' = "backup" /\ left' = OldFiles'
    /\ held' = held \cup {<<f, disk[f]>> : f \in {g \in Files \ Spared : disk[g] # 0}}

CopyToBackup(f) ==
    /\ stage = "backup" /\ f \in left
    /\ backups' = backups \cup {<<f, disk[f]>>} /\ left' = left \ {f}
    /\ UNCHANGED <<disk, temp, saved, command, stage, line, rolling, record, faults>>

\* Nothing was touched yet.
BackupFails ==
    /\ stage = "backup" /\ Fault
    /\ Done("unknown")
    /\ UNCHANGED <<storage, release, fails, line, rolling, record>>

\* Mutant: of the backup only what has no new file is restored.
ProceedToRestore ==
    /\ left = {}
    /\ \/ stage = "backup" /\ stage' = "delete" /\ left' = OldFiles
       \/ stage = "delete" /\ stage' = "install" /\ left' = NewFiles
       \/ stage = "install" /\ stage' = "post" /\ left' = {}
       \/ stage = "undo" /\ stage' = "restore" /\ left' = OldFiles \ NewFiles
    /\ UNCHANGED <<storage, command, line, rolling, record, faults>>

\* The next part of deploy() begins when one has handled all its files.
Proceed ==
    /\ left = {}
    /\ \/ stage = "backup" /\ stage' = "delete" /\ left' = OldFiles
       \/ stage = "delete" /\ stage' = "install" /\ left' = NewFiles
       \/ stage = "install" /\ stage' = "post" /\ left' = {}
       \/ stage = "undo" /\ stage' = "restore" /\ left' = OldFiles
    /\ UNCHANGED <<storage, command, line, rolling, record, faults>>

\* What deleteFiles and deploy of a component leave of one file.
DeleteFile(f) ==
    /\ stage = "delete" /\ f \in left
    /\ disk' = [disk EXCEPT ![f] = 0] /\ left' = left \ {f}
    /\ UNCHANGED <<temp, saved, backups, command, stage, line, rolling, record, faults>>

Installed(f) ==
    IF \/ f \in Optional /\ <<f, Wanted(f)>> \notin temp
       \/ f \in Settings /\ disk[f] # 0
    THEN disk[f] ELSE Wanted(f)

InstallFile(f) ==
    /\ stage = "install" /\ f \in left
    /\ disk' = [disk EXCEPT ![f] = Installed(f)] /\ left' = left \ {f}
    /\ UNCHANGED <<temp, saved, backups, command, stage, line, rolling, record, faults>>

\* An exception while the directory is changed, by a file that cannot be
\* removed or written, or by a post action: the backup is restored.  The file
\* it happened at may be gone, removed to make room for the new one.
DeployFails ==
    /\ stage \in {"delete", "install", "post"} /\ Fault
    /\ \/ UNCHANGED disk
       \/ \E f \in left : /\ stage = "install" /\ Installed(f) = Wanted(f)
                          /\ disk' = [disk EXCEPT ![f] = 0]
    /\ stage' = "undo" /\ left' = NewFiles
    /\ UNCHANGED <<temp, saved, backups, command, line, rolling, record>>

\* Post actions done, empty folders removed, the configuration stored, in the
\* place of the others when it is of a whole distribution.
DeploySucceeds ==
    /\ stage = "post"
    /\ saved' = IF Partial THEN saved \cup {release} ELSE {release}
    /\ deployed' = release /\ torn' = FALSE
    /\ Done("ok")
    /\ UNCHANGED <<disk, temp, backups, release, fails, line, rolling, held, faults>>

\* deleteFiles(newFiles, true) and copyFiles(..., oldFiles, true): an error is
\* ignored, and a copy onto a file that is there is one.
UndoFile(f) ==
    /\ stage = "undo" /\ f \in left /\ left' = left \ {f}
    /\ \/ disk' = [disk EXCEPT ![f] = 0] /\ UNCHANGED clean
       \/ disk[f] # 0 /\ clean' = FALSE /\ UNCHANGED disk
    /\ UNCHANGED <<temp, saved, backups, command, stage, line, before, record, faults>>

RestoreFile(f) ==
    /\ stage = "restore" /\ f \in left /\ left' = left \ {f}
    /\ \/ /\ disk' = [disk EXCEPT ![f] = IF @ = 0 THEN before[f] ELSE @]
          /\ UNCHANGED clean
       \/ disk[f] = 0 /\ clean' = FALSE /\ UNCHANGED disk
    /\ UNCHANGED <<temp, saved, backups, command, stage, line, before, record, faults>>

RolledBack ==
    /\ stage = "restore" /\ left = {}
    /\ torn' = (torn \/ ~clean)
    /\ Done("deploy")
    /\ UNCHANGED <<storage, release, fails, line, rolling, held, deployed, faults>>

-----------------------------------------------------------------------------
(* The process ends, after done() or in the middle *)

Over ==
    /\ stage' = "idle" /\ left' = {} /\ line' = "quiet"
    /\ torn' = (torn \/ stage \in Changing)
    /\ UNCHANGED <<storage, command, rolling, held, deployed>>

Quit == stage = "done" /\ Over /\ UNCHANGED faults

Stop == stage \notin {"idle", "done"} /\ Fault /\ Over

Downloading ==
    \/ Described \/ ChecksumFails \/ \E wait \in BOOLEAN : NotDescribed(wait)
    \/ StartTask \/ Fetched \/ \E news \in BOOLEAN : FetchFails(news)
    \/ VerifyFails \/ DownloadAccomplished

Deploying ==
    \/ BackupFails \/ Proceed \/ DeployFails \/ DeploySucceeds \/ RolledBack
    \/ \E f \in Files : \/ CopyToBackup(f) \/ DeleteFile(f) \/ InstallFile(f)
                        \/ UndoFile(f) \/ RestoreFile(f)

EngineNext == RunUpdate \/ Downloading \/ Deploy \/ Deploying \/ Quit \/ Stop

EngineSpec == EngineInit /\ [][EngineNext]_engineVars /\ WF_engineVars(Downloading)

-----------------------------------------------------------------------------
(* Properties *)

\* A file an update replaces or removes is never gone: what a deploy has found is
\* on the disk or in a backup folder, whatever failed and wherever the program was
\* stopped, through any sequence of distributions.
NothingLost == \A c \in held : disk[c[1]] = c[2] \/ c \in backups

\* A deploy that failed and could do what it tried leaves the files it had
\* backed up, and the places of the new ones, as they were.
RestoresReplaced ==
    stage = "done" /\ result = "deploy" /\ clean =>
        \A f \in Files \ Kept : disk[f] = before[f]

\* The same of every file: what updateengine.md calls rollback.
RollsBack ==
    stage = "done" /\ result = "deploy" /\ clean => disk = before

\* What checkIntegrity and a reader of the directory expect of a distribution: its
\* files and, when it was a whole one, no others.  Spared files are not looked at.
Whole(r, d) ==
    \A f \in Files \ Spared :
        Releases[r][f] # 0 \/ ~Partial => d[f] = Releases[r][f]

\* The last distribution whose deploy went through is the one stored and the one on
\* the disk: whatever mixture of versions deploys cut off before it had left, and
\* whatever has failed and was rolled back since, of this distribution or others.
\* Not so between a deploy that is cut off and the next one that goes through.
DeployedStands ==
    deployed # 0 /\ ~torn /\ stage \notin Changing =>
        deployed \in saved /\ Whole(deployed, disk)

\* A line and a server that fail for good end the download: it may go on for ever
\* only while failing tries bring new data again and again.
DownloadEnds ==
    <>[](line # "grew") => (stage = "download" ~> stage # "download")

-----------------------------------------------------------------------------
(* The inductive invariant *)

BackingUp ==
    stage = "backup" =>
        /\ disk = before
        /\ left \subseteq OldFiles
        /\ \A f \in OldFiles \ left : <<f, before[f]>> \in backups

Remaining ==
    /\ stage \in {"delete", "restore"} => left \subseteq OldFiles
    /\ stage \in {"install", "undo"} => left \subseteq NewFiles

\* What deploys have found in other versions than this one is backed up.
FoundBefore ==
    stage \in Changing \cup {"backup"} =>
        \A c \in held : c[2] = before[c[1]] \/ c \in backups

\* What deploy() may have changed: what it has a backup of, or brings itself.
Changes ==
    stage \in Changing =>
        /\ \A f \in OldFiles : <<f, before[f]>> \in backups
        /\ \A f \in Files \ NewFiles :
                disk[f] = before[f] \/ (disk[f] = 0 /\ f \in OldFiles)

Deleting ==
    stage = "delete" =>
        \A f \in Files : disk[f] = IF f \in OldFiles \ left THEN 0 ELSE before[f]

Installing ==
    stage \in {"install", "post"} =>
        /\ \A f \in OldFiles \ Listed : disk[f] = 0
        /\ \A f \in Listed \ Kept : disk[f] = Wanted(f) \/ (stage = "install" /\ f \in left)

RollingBack ==
    clean =>
        /\ stage = "undo" => \A f \in NewFiles \ left : disk[f] = 0
        /\ stage = "restore" =>
               \A f \in Files \ Kept :
                   disk[f] = before[f] \/ (disk[f] = 0 /\ f \in OldFiles \cap left)

\* The directory the deploy began with is the one the last one had left.
StoodBefore ==
    deployed # 0 /\ ~torn /\ stage \in Changing \cup {"backup"} =>
        deployed \in saved /\ Whole(deployed, before)

\* What every step of the engine preserves: it ties the files on the disk, in
\* the part of deploy() under way, to the directory deploy() began with.
EngineInv ==
    /\ TypeOK
    /\ NothingLost /\ RestoresReplaced /\ DeployedStands
    /\ BackingUp /\ Remaining /\ FoundBefore /\ Changes
    /\ Deleting /\ Installing /\ RollingBack /\ StoodBefore

=============================================================================
