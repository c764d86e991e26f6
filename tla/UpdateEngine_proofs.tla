------------------------- MODULE UpdateEngine_proofs -------------------------
(***************************************************************************)
(* EngineInv of UpdateEngine is inductive, for every set of files, every   *)
(* distribution and any number of failures and stops: one lemma for each   *)
(* part of deploy(), and one for everything the engine does outside of it.  *)
(***************************************************************************)
EXTENDS UpdateEngine, TLAPS

-----------------------------------------------------------------------------
(* Types *)

\* What a deploy removes and what it brings are files.
LEMMA FileSets ==
    /\ OldFiles \subseteq Files /\ NewFiles \subseteq Listed /\ NewFiles \subseteq Files
    /\ Kept \subseteq Spared /\ Listed \subseteq Files
BY DEF OldFiles, NewFiles, Listed, Kept

\* The distributions are numbered from 1, and their versions are numbers.
LEMMA ReleasesAreVersions ==
    /\ Len(Releases) \in Nat /\ DOMAIN Releases = 1..Len(Releases)
    /\ \A r \in DOMAIN Releases, f \in Files : Releases[r][f] \in Nat
<1>1. Releases \in Seq([Files -> Nat])
  BY EngineAssumption
<1>2. Len(Releases) \in Nat /\ DOMAIN Releases = 1..Len(Releases)
  BY <1>1
<1>3. \A r \in DOMAIN Releases : Releases[r] \in [Files -> Nat]
  BY <1>1
<1>4. QED
  BY <1>2, <1>3

\* The front task of a list is one of it.
LEMMA FrontTaskIsLeft ==
    ASSUME TypeOK, left # {}
    PROVE  FrontTask \in left /\ FrontTask \in Files
BY DEF TypeOK, FrontTask

\* A file operation that fails and a stop are counted up to the bound.
LEMMA FaultType ==
    ASSUME TypeOK, Fault
    PROVE  faults' \in 0..MaxFaults
BY EngineAssumption DEF TypeOK, Fault

\* What a step may leave as it is, and what it may do to the rest.
LEMMA SameStorage ==
    ASSUME TypeOK, UNCHANGED <<disk, backups, release, before, clean, held, deployed, torn>>,
           temp' \subseteq Files \X Nat, saved' \subseteq 0..Len(Releases),
           stage' \in Stages, left' \subseteq Files, fails' \in 0..MaxFails,
           result' \in {"none", "ok", "network", "unknown", "deploy"},
           line' \in {"quiet", "busy", "grew"}, faults' \in 0..MaxFaults
    PROVE  TypeOK'
BY DEF TypeOK

\* One more failure of a task, or the next one.
LEMMA FailedType ==
    ASSUME TypeOK, NEW news \in BOOLEAN, Failed(news) \/ GoToNextFile
    PROVE  /\ stage' \in Stages /\ left' \subseteq Files /\ fails' \in 0..MaxFails
           /\ result' \in {"none", "ok", "network", "unknown", "deploy"}
<1> USE EngineAssumption
<1>1. CASE GoToNextFile
  BY <1>1 DEF GoToNextFile, TypeOK
<1>2. CASE Done("network") /\ UNCHANGED fails
  BY <1>2 DEF Done, TypeOK, Stages
<1>3. CASE /\ fails' = IF fails < MaxFails THEN fails + 1 ELSE fails
           /\ UNCHANGED <<stage, left, result>>
  BY <1>3 DEF TypeOK
<1>4. QED
  BY <1>1, <1>2, <1>3 DEF Failed

\* Description and download keep the types.
LEMMA DownloadingType ==
    ASSUME TypeOK, Downloading
    PROVE  TypeOK'
<1> USE EngineAssumption
<1>0. /\ UNCHANGED <<disk, backups, release, before, clean, held, deployed, torn>>
      /\ temp \subseteq Files \X Nat /\ saved \subseteq 0..Len(Releases)
      /\ stage \in Stages /\ left \subseteq Files /\ fails \in 0..MaxFails
      /\ result \in {"none", "ok", "network", "unknown", "deploy"}
      /\ line \in {"quiet", "busy", "grew"} /\ faults \in 0..MaxFaults
      /\ Tasks \subseteq Files /\ {release} \subseteq 0..Len(Releases)
  <2>1. UNCHANGED <<disk, backups, release, before, clean, held, deployed, torn>>
    BY DEF Downloading, Described, ChecksumFails, NotDescribed, StartTask, Fetched,
           FetchFails, VerifyFails, DownloadAccomplished, Answered, storage, command,
           rolling, record
  <2>2. Tasks \subseteq Files /\ {release} \subseteq 0..Len(Releases)
    BY ReleasesAreVersions DEF Tasks, Listed, TypeOK
  <2>3. QED
    BY <2>1, <2>2 DEF TypeOK
<1>1. CASE Described \/ ChecksumFails
  <2>1. saved' \subseteq 0..Len(Releases) /\ stage' \in Stages /\ left' \subseteq Files
    BY <1>0, <1>1 DEF Described, ChecksumFails, Stages
  <2>2. UNCHANGED <<temp, fails, result, line>>
    BY <1>1 DEF Described, ChecksumFails, command
  <2>3. faults' \in 0..MaxFaults
    BY <1>0, <1>1, FaultType DEF Described, ChecksumFails
  <2>4. QED
    BY <1>0, <2>1, <2>2, <2>3, SameStorage
<1>2. ASSUME NEW wait \in BOOLEAN, NotDescribed(wait)
      PROVE  TypeOK'
  <2>1. UNCHANGED <<temp, saved, line, faults>>
    BY <1>2 DEF NotDescribed, storage
  <2>2. /\ stage' \in Stages /\ left' \subseteq Files /\ fails' \in 0..MaxFails
        /\ result' \in {"none", "ok", "network", "unknown", "deploy"}
    BY <1>0, <1>2 DEF NotDescribed, Done, Stages
  <2>3. QED
    BY <1>0, <2>1, <2>2, SameStorage
<1>3. CASE StartTask \/ DownloadAccomplished
  BY <1>0, <1>3, SameStorage DEF StartTask, DownloadAccomplished, storage, command, Stages
<1>4. CASE Fetched
  <2>1. FrontTask \in Files /\ Wanted(FrontTask) \in Nat
    BY <1>4, FrontTaskIsLeft, ReleasesAreVersions DEF Fetched, Answered, Wanted, TypeOK
  <2>2. temp' \subseteq Files \X Nat /\ UNCHANGED <<saved, faults>>
    BY <1>0, <1>4, <2>1 DEF Fetched, Answered
  <2>3. line' \in {"quiet", "busy", "grew"}
    BY <1>4 DEF Fetched, Answered
  <2>4. /\ stage' \in Stages /\ left' \subseteq Files /\ fails' \in 0..MaxFails
        /\ result' \in {"none", "ok", "network", "unknown", "deploy"}
    BY <1>4, FailedType DEF Fetched
  <2>5. QED
    BY <1>0, <2>2, <2>3, <2>4, SameStorage
<1>5. ASSUME NEW news \in BOOLEAN, NEW more \in BOOLEAN, Answered(news), UNCHANGED temp,
             Failed(more) \/ GoToNextFile
      PROVE  TypeOK'
  <2>1. line' \in {"quiet", "busy", "grew"} /\ UNCHANGED <<temp, saved, faults>>
    BY <1>5 DEF Answered
  <2>2. /\ stage' \in Stages /\ left' \subseteq Files /\ fails' \in 0..MaxFails
        /\ result' \in {"none", "ok", "network", "unknown", "deploy"}
    BY <1>5, FailedType
  <2>3. QED
    BY <1>0, <2>1, <2>2, SameStorage
<1>6. CASE VerifyFails \/ \E news \in BOOLEAN : FetchFails(news)
  BY <1>5, <1>6 DEF VerifyFails, FetchFails
<1>7. QED
  BY <1>1, <1>2, <1>3, <1>4, <1>6 DEF Downloading

\* Deploying and rolling back keep the types.
LEMMA DeployingType ==
    ASSUME TypeOK, Deploying
    PROVE  TypeOK'
<1> USE FileSets, FaultType DEF storage, command, rolling, record
<1>1. CASE BackupFails
  BY <1>1 DEF BackupFails, Done, TypeOK, Stages
<1>2. CASE Proceed
  BY <1>2 DEF Proceed, TypeOK, Stages
<1>3. CASE DeployFails
  <2>1. disk' \in [Files -> Nat]
    BY <1>3 DEF DeployFails, TypeOK
  <2>2. QED
    BY <1>3, <2>1 DEF DeployFails, TypeOK, Stages
<1>4. CASE DeploySucceeds
  <2>1. release \in 0..Len(Releases)
    BY ReleasesAreVersions DEF TypeOK
  <2>2. QED
    BY <1>4, <2>1 DEF DeploySucceeds, Done, TypeOK, Stages
<1>5. CASE RolledBack
  BY <1>5 DEF RolledBack, Done, TypeOK, Stages
<1>6. ASSUME NEW f \in Files, CopyToBackup(f)
      PROVE  TypeOK'
  BY <1>6 DEF CopyToBackup, TypeOK
<1>7. ASSUME NEW f \in Files, DeleteFile(f)
      PROVE  TypeOK'
  BY <1>7 DEF DeleteFile, TypeOK
<1>8. ASSUME NEW f \in Files, InstallFile(f)
      PROVE  TypeOK'
  <2>1. Installed(f) \in Nat
    BY ReleasesAreVersions DEF Installed, Wanted, TypeOK
  <2>2. QED
    BY <1>8, <2>1 DEF InstallFile, TypeOK
<1>9. ASSUME NEW f \in Files, UndoFile(f)
      PROVE  TypeOK'
  <2>1. disk' = [disk EXCEPT ![f] = 0] \/ disk' = disk
    BY <1>9 DEF UndoFile
  <2>2. disk' \in [Files -> Nat]
    BY <2>1 DEF TypeOK
  <2>3. clean' \in BOOLEAN
    BY <1>9 DEF UndoFile, TypeOK
  <2>4. QED
    BY <1>9, <2>2, <2>3 DEF UndoFile, TypeOK
<1>10. ASSUME NEW f \in Files, RestoreFile(f)
      PROVE  TypeOK'
  <2>1. disk' \in [Files -> Nat]
    BY <1>10 DEF RestoreFile, TypeOK
  <2>2. QED
    BY <1>10, <2>1 DEF RestoreFile, TypeOK
<1>11. QED
  BY <1>1, <1>2, <1>3, <1>4, <1>5, <1>6, <1>7, <1>8, <1>9, <1>10 DEF Deploying

\* Every step of the engine keeps the types.
LEMMA TypeStep ==
    ASSUME TypeOK, EngineNext
    PROVE  TypeOK'
<1> USE DEF storage, command, rolling, record
<1>1. CASE RunUpdate
  BY <1>1, EngineAssumption DEF RunUpdate, TypeOK, Stages
<1>2. CASE Deploy
  <2>1. OldFiles' \subseteq Files
    BY DEF OldFiles
  <2>2. {<<f, disk[f]>> : f \in {g \in Files \ Spared : disk[g] # 0}}
            \subseteq (Files \ Spared) \X (Nat \ {0})
    BY DEF TypeOK
  <2>3. QED
    BY <1>2, <2>1, <2>2 DEF Deploy, TypeOK, Stages
<1>3. CASE Quit \/ Stop
  BY <1>3, FaultType DEF Quit, Stop, Over, TypeOK, Stages
<1>4. QED
  BY <1>1, <1>2, <1>3, DownloadingType, DeployingType DEF EngineNext

-----------------------------------------------------------------------------
(* The parts of the invariant that speak of deploy() only, the part a step   *)
(* outside of it does not touch, and what each step of it does to them.      *)

Parts == EngineInv /\ TypeOK'

\* While files are changed, what a deploy has found is on the disk or in a backup:
\* a file that is to be brought in another version is one that is to be removed.
LEMMA FoundIsThere ==
    TypeOK /\ stage \in Changing /\ FoundBefore /\ Changes => NothingLost
<1> SUFFICES ASSUME TypeOK, stage \in Changing, FoundBefore, Changes,
                    NEW c \in held, c \notin backups
             PROVE  disk[c[1]] = c[2]
  BY DEF NothingLost
<1>1. PICK f \in Files \ Spared, v \in Nat \ {0} : c = <<f, v>>
  BY DEF TypeOK
<1>2. before[f] = v /\ f \notin Kept
  BY <1>1 DEF FoundBefore, Kept
<1>3. f \notin OldFiles
  BY <1>1, <1>2 DEF Changes
<1>4. f \notin NewFiles
  BY <1>1, <1>2, <1>3 DEF OldFiles, NewFiles
<1>5. disk[f] = before[f]
  BY <1>1, <1>3, <1>4 DEF Changes
<1>6. QED
  BY <1>1, <1>2, <1>5

\* Initially nothing was changed.
LEMMA InvInit == EngineInit => EngineInv
<1> SUFFICES ASSUME EngineInit
             PROVE  EngineInv
  OBVIOUS
<1>1. TypeOK
  <2>1. 1 \in DOMAIN Releases
    BY EngineAssumption, ReleasesAreVersions
  <2>2. 0 \in 0..Len(Releases) /\ 0 \in 0..MaxFails /\ 0 \in 0..MaxFaults
    BY EngineAssumption, ReleasesAreVersions
  <2>3. saved \subseteq 0..Len(Releases) /\ disk \in [Files -> Nat] /\ before = disk
    BY <2>2, EngineAssumption DEF EngineInit
  <2>4. QED
    BY <2>1, <2>2, <2>3 DEF EngineInit, TypeOK, Stages
<1>2. NothingLost /\ RestoresReplaced /\ DeployedStands
  BY DEF EngineInit, NothingLost, RestoresReplaced, DeployedStands
<1>3. BackingUp /\ Remaining /\ FoundBefore /\ StoodBefore
  BY DEF EngineInit, BackingUp, Remaining, FoundBefore, StoodBefore, Changing
<1>4. Changes /\ Deleting /\ Installing /\ RollingBack
  BY DEF EngineInit, Changes, Changing, Deleting, Installing, RollingBack
<1>5. QED
  BY <1>1, <1>2, <1>3, <1>4 DEF EngineInv

\* A step that leaves the files alone and ends outside of deploy().
LEMMA Outside ==
    ASSUME Parts, UNCHANGED <<disk, before, backups, held>>,
           stage' \notin Changing \cup {"backup"},
           RestoresReplaced', DeployedStands'
    PROVE  EngineInv'
<1>1. NothingLost'
  BY DEF Parts, EngineInv, NothingLost
<1>2. BackingUp' /\ Remaining' /\ FoundBefore' /\ StoodBefore'
  BY DEF BackingUp, Remaining, FoundBefore, StoodBefore, Changing
<1>3. Changes' /\ Deleting' /\ Installing' /\ RollingBack'
  BY DEF Changes, Changing, Deleting, Installing, RollingBack
<1>4. QED
  BY <1>1, <1>2, <1>3 DEF Parts, EngineInv

\* The command, the download and the end of the process, wherever it was.
LEMMA OutsideSteps ==
    ASSUME Parts, RunUpdate \/ Downloading \/ Over \/ BackupFails
    PROVE  EngineInv'
<1> USE DEF storage, command, rolling, record
<1>1. /\ UNCHANGED <<disk, before, backups, held, deployed>>
      /\ stage' \in {"idle", "describe", "download", "stalled", "ready", "done"}
      /\ saved # {} => UNCHANGED saved
      /\ torn' = (torn \/ stage \in Changing)
      /\ stage' = "done" => result' \in {"network", "unknown"}
  <2>1. CASE RunUpdate
    BY <2>1 DEF RunUpdate, Changing, Parts, EngineInv, TypeOK
  <2>2. CASE Described \/ ChecksumFails \/ \E wait \in BOOLEAN : NotDescribed(wait)
    BY <2>2 DEF Described, ChecksumFails, NotDescribed, Done, Changing, Parts, EngineInv,
                TypeOK
  <2>3. CASE StartTask \/ Fetched \/ DownloadAccomplished
    BY <2>3 DEF StartTask, Fetched, DownloadAccomplished, Answered, GoToNextFile,
                Changing, Parts, EngineInv, TypeOK
  <2>4. CASE VerifyFails \/ \E news \in BOOLEAN : FetchFails(news)
    BY <2>4 DEF FetchFails, VerifyFails, Answered, Failed, GoToNextFile, Done, Changing,
                Parts, EngineInv, TypeOK
  <2>5. CASE Over
    BY <2>5 DEF Over
  <2>6. CASE BackupFails
    BY <2>6 DEF BackupFails, Done, Changing, Parts, EngineInv, TypeOK
  <2>7. QED
    BY <2>1, <2>2, <2>3, <2>4, <2>5, <2>6 DEF Downloading
<1>2. RestoresReplaced' /\ stage' \notin Changing \cup {"backup"}
  BY <1>1 DEF RestoresReplaced, Changing
<1>3. DeployedStands'
  <2>1. SUFFICES ASSUME deployed # 0, ~torn, stage \notin Changing
                 PROVE  deployed \in saved' /\ Whole(deployed, disk)
    BY <1>1 DEF DeployedStands, Whole
  <2>2. deployed \in saved /\ Whole(deployed, disk)
    BY <2>1 DEF Parts, EngineInv, DeployedStands
  <2>3. QED
    BY <1>1, <2>2
<1>4. QED
  BY <1>1, <1>2, <1>3, Outside

\* deploy() begins: the directory is remembered, nothing is backed up yet.
LEMMA DeployKeeps ==
    ASSUME Parts, Deploy
    PROVE  EngineInv'
<1>1. /\ UNCHANGED <<disk, saved, backups, deployed, torn>> /\ before' = disk
      /\ stage = "ready" /\ stage' = "backup" /\ left' = OldFiles'
      /\ held' = held \cup {<<f, disk[f]>> : f \in {g \in Files \ Spared : disk[g] # 0}}
  BY DEF Deploy, storage
<1>2. \A c \in held' : disk[c[1]] = c[2] \/ c \in backups
  BY <1>1 DEF Parts, EngineInv, NothingLost
<1>3. NothingLost' /\ FoundBefore'
  BY <1>1, <1>2 DEF NothingLost, FoundBefore
<1>4. RestoresReplaced' /\ Remaining' /\ BackingUp'
  BY <1>1 DEF RestoresReplaced, Remaining, BackingUp
<1>5. DeployedStands' /\ StoodBefore'
  <2>1. stage \notin Changing
    BY <1>1 DEF Changing
  <2>2. QED
    BY <1>1, <2>1 DEF Parts, EngineInv, DeployedStands, StoodBefore, Whole
<1>6. Changes' /\ Deleting' /\ Installing' /\ RollingBack'
  BY <1>1 DEF Changes, Changing, Deleting, Installing, RollingBack
<1>7. QED
  BY <1>3, <1>4, <1>5, <1>6 DEF Parts, EngineInv

\* One file more is in the backup.
LEMMA CopyToBackupKeeps ==
    ASSUME Parts, NEW f \in Files, CopyToBackup(f)
    PROVE  EngineInv'
<1>1. /\ UNCHANGED <<disk, saved, before, release, held, deployed, torn>>
      /\ backups' = backups \cup {<<f, disk[f]>>}
      /\ stage = "backup" /\ stage' = "backup" /\ left' = left \ {f}
  BY DEF CopyToBackup, command, rolling, record
<1>2. OldFiles' = OldFiles
  BY <1>1 DEF OldFiles, Kept, Listed, Wanted
<1>3. NothingLost' /\ FoundBefore'
  BY <1>1 DEF Parts, EngineInv, NothingLost, FoundBefore
<1>4. RestoresReplaced' /\ Remaining'
  BY <1>1 DEF RestoresReplaced, Remaining
<1>5. BackingUp'
  BY <1>1, <1>2 DEF Parts, EngineInv, BackingUp
<1>6. DeployedStands' /\ StoodBefore'
  BY <1>1 DEF Parts, EngineInv, DeployedStands, StoodBefore, Whole, Changing
<1>7. Changes' /\ Deleting' /\ Installing' /\ RollingBack'
  BY <1>1 DEF Changes, Changing, Deleting, Installing, RollingBack
<1>8. QED
  BY <1>3, <1>4, <1>5, <1>6, <1>7 DEF Parts, EngineInv

\* From one part of deploy() to the next: the backup is complete before the
\* first file goes, everything old is gone before the first new one comes.
LEMMA ProceedKeeps ==
    ASSUME Parts, Proceed
    PROVE  EngineInv'
<1>1. /\ UNCHANGED <<disk, saved, backups, release, before, clean, held, deployed, torn>>
      /\ left = {}
  BY DEF Proceed, storage, command, rolling, record
<1>2. OldFiles' = OldFiles /\ NewFiles' = NewFiles /\ Listed' = Listed /\ Kept' = Kept
  BY <1>1 DEF OldFiles, NewFiles, Kept, Listed, Wanted
<1>3. stage \in Changing \cup {"backup"} /\ stage' \in Changing
  BY DEF Proceed, Changing
<1>4. NothingLost' /\ FoundBefore' /\ DeployedStands' /\ StoodBefore'
  BY <1>1, <1>3 DEF Parts, EngineInv, NothingLost, FoundBefore, DeployedStands, StoodBefore,
                    Whole
<1>5. RestoresReplaced' /\ BackingUp' /\ Remaining'
  BY <1>2, <1>3 DEF RestoresReplaced, BackingUp, Remaining, Proceed, Changing
<1>6. Changes'
  <2>1. CASE stage = "backup"
    BY <1>1, <1>2, <2>1 DEF Parts, EngineInv, BackingUp, Changes
  <2>2. CASE stage \in Changing
    BY <1>1, <1>2, <2>2 DEF Parts, EngineInv, Changes
  <2>3. QED
    BY <1>3, <2>1, <2>2
<1>7. Deleting'
  BY <1>1, <1>2 DEF Parts, EngineInv, BackingUp, Deleting, Proceed
<1>8. Installing'
  <2>1. CASE stage = "delete" /\ stage' = "install" /\ left' = NewFiles
    <3>1. \A f \in OldFiles \ Listed : disk[f] = 0
      BY <1>1, <2>1, FileSets DEF Parts, EngineInv, Deleting
    <3>2. \A f \in Listed \ Kept : disk[f] = Wanted(f) \/ f \in NewFiles
      <4>1. SUFFICES ASSUME NEW f \in Listed \ Kept, f \notin NewFiles
                     PROVE  disk[f] = Wanted(f)
        OBVIOUS
      <4>2. f \in Files /\ before[f] = Wanted(f) /\ f \notin OldFiles
        BY <4>1, FileSets DEF NewFiles, OldFiles
      <4>3. QED
        BY <2>1, <4>2 DEF Parts, EngineInv, Deleting
    <3>3. QED
      BY <1>1, <1>2, <2>1, <3>1, <3>2 DEF Installing, Wanted
  <2>2. CASE stage = "install" /\ stage' = "post"
    BY <1>1, <1>2, <2>2 DEF Parts, EngineInv, Installing, Wanted
  <2>3. CASE stage' \notin {"install", "post"}
    BY <2>3 DEF Installing
  <2>4. QED
    BY <2>1, <2>2, <2>3 DEF Proceed
<1>9. RollingBack'
  <2>1. CASE stage = "undo" /\ stage' = "restore" /\ left' = OldFiles
    <3>1. ASSUME clean, NEW f \in Files \ Kept
          PROVE  disk[f] = before[f] \/ (disk[f] = 0 /\ f \in OldFiles)
      <4>1. CASE f \in NewFiles
        BY <1>1, <2>1, <3>1, <4>1 DEF Parts, EngineInv, RollingBack, NewFiles, OldFiles
      <4>2. CASE f \notin NewFiles
        BY <2>1, <3>1, <4>2 DEF Parts, EngineInv, Changes, Changing
      <4>3. QED
        BY <4>1, <4>2
    <3>2. QED
      BY <1>1, <1>2, <2>1, <3>1 DEF RollingBack
  <2>2. CASE stage' \notin {"undo", "restore"}
    BY <2>2 DEF RollingBack
  <2>3. QED
    BY <2>1, <2>2 DEF Proceed
<1>10. QED
  BY <1>4, <1>5, <1>6, <1>7, <1>8, <1>9 DEF Parts, EngineInv

\* The part of the invariant about which files may have been changed at all, after a
\* step of the changing parts that touches one file it has to handle, or none.
LEMMA ChangesOneFile ==
    ASSUME Parts, stage \in Changing, stage' \in Changing,
           UNCHANGED <<saved, backups, release, before, held, deployed, torn>>,
           NEW f \in Files, f \in OldFiles \/ f \in NewFiles,
           \A g \in Files \ {f} : disk'[g] = disk[g],
           f \in NewFiles \/ disk'[f] \in {disk[f], 0, before[f]}
    PROVE  /\ NothingLost' /\ FoundBefore' /\ DeployedStands' /\ StoodBefore'
           /\ Changes' /\ BackingUp' /\ RestoresReplaced'
           /\ OldFiles' = OldFiles /\ NewFiles' = NewFiles /\ Listed' = Listed
           /\ Kept' = Kept
<1>1. OldFiles' = OldFiles /\ NewFiles' = NewFiles /\ Listed' = Listed /\ Kept' = Kept
  BY DEF OldFiles, NewFiles, Kept, Listed, Wanted
<1>2. Changes'
  BY <1>1 DEF Parts, EngineInv, Changes
<1>3. FoundBefore' /\ DeployedStands' /\ StoodBefore'
  BY DEF Parts, EngineInv, FoundBefore, DeployedStands, StoodBefore, Whole
<1>4. NothingLost'
  <2>1. (TypeOK /\ stage \in Changing /\ FoundBefore /\ Changes => NothingLost)'
    BY FoundIsThere, PTL
  <2>2. QED
    BY <1>2, <1>3, <2>1 DEF Parts, Changing
<1>5. BackingUp' /\ RestoresReplaced'
  BY DEF BackingUp, RestoresReplaced, Changing
<1>6. QED
  BY <1>1, <1>2, <1>3, <1>4, <1>5

\* An old file is removed.
LEMMA DeleteFileKeeps ==
    ASSUME Parts, NEW f \in Files, DeleteFile(f)
    PROVE  EngineInv'
<1>1. /\ UNCHANGED <<saved, backups, release, before, clean, held, deployed, torn>>
      /\ stage = "delete" /\ stage' = "delete" /\ left' = left \ {f} /\ f \in OldFiles
  BY DEF Parts, EngineInv, Remaining, DeleteFile, command, rolling, record
<1>2. disk'[f] = 0 /\ \A g \in Files \ {f} : disk'[g] = disk[g]
  BY DEF Parts, EngineInv, TypeOK, DeleteFile
<1>3. /\ NothingLost' /\ FoundBefore' /\ DeployedStands' /\ StoodBefore'
      /\ Changes' /\ BackingUp' /\ RestoresReplaced'
      /\ OldFiles' = OldFiles /\ NewFiles' = NewFiles /\ Listed' = Listed /\ Kept' = Kept
  BY <1>1, <1>2, ChangesOneFile DEF Changing
<1>4. Installing' /\ RollingBack'
  BY <1>1 DEF Installing, RollingBack
<1>5. Remaining' /\ Deleting'
  BY <1>1, <1>2, <1>3 DEF Parts, EngineInv, Remaining, Deleting
<1>6. QED
  BY <1>3, <1>4, <1>5 DEF Parts, EngineInv

\* A new file is put in its place, or what is there is kept.
LEMMA InstallFileKeeps ==
    ASSUME Parts, NEW f \in Files, InstallFile(f)
    PROVE  EngineInv'
<1>1. /\ UNCHANGED <<saved, backups, release, before, clean, held, deployed, torn>>
      /\ stage = "install" /\ stage' = "install" /\ left' = left \ {f} /\ f \in NewFiles
  BY DEF Parts, EngineInv, Remaining, InstallFile, command, rolling, record
<1>2. /\ f \notin Spared => disk'[f] = Wanted(f)
      /\ \A g \in Files \ {f} : disk'[g] = disk[g]
  BY DEF Parts, EngineInv, TypeOK, InstallFile, Installed, Spared
<1>3. /\ NothingLost' /\ FoundBefore' /\ DeployedStands' /\ StoodBefore'
      /\ Changes' /\ BackingUp' /\ RestoresReplaced'
      /\ OldFiles' = OldFiles /\ NewFiles' = NewFiles /\ Listed' = Listed /\ Kept' = Kept
  BY <1>1, <1>2, ChangesOneFile DEF Changing
<1>4. Remaining' /\ Deleting' /\ RollingBack'
  BY <1>1, <1>3 DEF Parts, EngineInv, Remaining, Deleting, RollingBack
<1>5. Installing'
  <2>1. f \in Listed /\ (f \notin Kept => disk'[f] = Wanted(f))
    BY <1>1, <1>2, FileSets DEF Kept
  <2>2. OldFiles \subseteq Files /\ Listed \subseteq Files
    BY FileSets
  <2>3. \A g \in OldFiles \ Listed : disk'[g] = 0
    BY <1>1, <1>2, <2>1, <2>2 DEF Parts, EngineInv, Installing
  <2>4. \A g \in Listed \ Kept : disk'[g] = Wanted(g) \/ g \in left \ {f}
    BY <1>1, <1>2, <2>1, <2>2 DEF Parts, EngineInv, Installing
  <2>5. QED
    BY <1>1, <1>3, <2>3, <2>4 DEF Installing, Wanted
<1>6. QED
  BY <1>3, <1>4, <1>5 DEF Parts, EngineInv

\* An exception: the roll back begins, the file it happened at may be gone.
LEMMA DeployFailsKeeps ==
    ASSUME Parts, DeployFails
    PROVE  EngineInv'
<1>1. /\ UNCHANGED <<saved, backups, release, before, clean, held, deployed, torn>>
      /\ stage \in Changing /\ stage' = "undo" /\ left' = NewFiles
  BY DEF DeployFails, Changing, command, rolling, record
<1>2. OldFiles' = OldFiles /\ NewFiles' = NewFiles
  BY <1>1 DEF OldFiles, NewFiles, Kept, Listed, Wanted
<1>3. /\ NothingLost' /\ FoundBefore' /\ DeployedStands' /\ StoodBefore'
      /\ Changes' /\ BackingUp' /\ RestoresReplaced'
  <2>1. CASE UNCHANGED disk
    <3>1. NothingLost' /\ FoundBefore' /\ DeployedStands' /\ StoodBefore'
      BY <1>1, <2>1 DEF Parts, EngineInv, NothingLost, FoundBefore, DeployedStands,
                        StoodBefore, Whole, Changing
    <3>2. Changes' /\ BackingUp' /\ RestoresReplaced'
      BY <1>1, <1>2, <2>1 DEF Parts, EngineInv, Changes, BackingUp, RestoresReplaced
    <3>3. QED
      BY <3>1, <3>2
  <2>2. ASSUME NEW f \in left, stage = "install", disk' = [disk EXCEPT ![f] = 0]
        PROVE  /\ NothingLost' /\ FoundBefore' /\ DeployedStands' /\ StoodBefore'
               /\ Changes' /\ BackingUp' /\ RestoresReplaced'
    <3>1. f \in NewFiles /\ f \in Files
      BY <2>2 DEF Parts, EngineInv, Remaining, TypeOK
    <3>2. disk'[f] = 0 /\ \A g \in Files \ {f} : disk'[g] = disk[g]
      BY <2>2 DEF Parts, EngineInv, TypeOK
    <3>3. QED
      BY <1>1, <3>1, <3>2, ChangesOneFile DEF Changing
  <2>3. QED
    BY <2>1, <2>2 DEF DeployFails
<1>4. Remaining' /\ Deleting' /\ Installing' /\ RollingBack'
  BY <1>1, <1>2 DEF Remaining, Deleting, Installing, RollingBack
<1>5. QED
  BY <1>3, <1>4 DEF Parts, EngineInv

\* The new configuration is stored: the directory is the new version, whatever it
\* was before.
LEMMA DeploySucceedsKeeps ==
    ASSUME Parts, DeploySucceeds
    PROVE  EngineInv'
<1>1. /\ UNCHANGED <<disk, release, before, backups, held>> /\ stage = "post"
      /\ stage' = "done" /\ result' = "ok" /\ deployed' = release /\ release \in saved'
  BY DEF DeploySucceeds, Done, rolling
<1>2. Whole(release, disk)
  <2>1. ASSUME NEW f \in Files \ Spared, Wanted(f) # 0
        PROVE  disk[f] = Wanted(f)
    BY <1>1, <2>1 DEF Parts, EngineInv, Installing, Listed, Kept
  <2>2. ASSUME ~Partial, NEW f \in Files \ Spared, Wanted(f) = 0
        PROVE  disk[f] = 0
    <3>1. f \notin Listed /\ f \notin NewFiles
      BY <2>2, FileSets DEF Listed
    <3>2. CASE f \in OldFiles
      BY <1>1, <3>1, <3>2 DEF Parts, EngineInv, Installing
    <3>3. CASE f \notin OldFiles
      <4>1. disk[f] = before[f]
        BY <1>1, <2>2, <3>1, <3>3 DEF Parts, EngineInv, Changes, Changing
      <4>2. before[f] = 0
        BY <2>2, <3>3 DEF OldFiles, Kept
      <4>3. QED
        BY <4>1, <4>2
    <3>4. QED
      BY <3>2, <3>3
  <2>3. QED
    BY <2>1, <2>2 DEF Whole, Wanted
<1>3. RestoresReplaced' /\ DeployedStands'
  BY <1>1, <1>2 DEF RestoresReplaced, DeployedStands, Whole
<1>4. QED
  BY <1>1, <1>3, Outside DEF Changing

\* A file the deploy brought is removed again, or cannot be.
LEMMA UndoFileKeeps ==
    ASSUME Parts, NEW f \in Files, UndoFile(f)
    PROVE  EngineInv'
<1>1. /\ UNCHANGED <<saved, backups, release, before, held, deployed, torn>>
      /\ stage = "undo" /\ stage' = "undo" /\ left' = left \ {f} /\ f \in NewFiles
  BY DEF Parts, EngineInv, Remaining, UndoFile, command, record
<1>2. /\ clean' => clean /\ disk'[f] = 0
      /\ \A g \in Files \ {f} : disk'[g] = disk[g]
  BY DEF Parts, EngineInv, TypeOK, UndoFile
<1>3. /\ NothingLost' /\ FoundBefore' /\ DeployedStands' /\ StoodBefore'
      /\ Changes' /\ BackingUp' /\ RestoresReplaced'
      /\ OldFiles' = OldFiles /\ NewFiles' = NewFiles /\ Listed' = Listed /\ Kept' = Kept
  BY <1>1, <1>2, ChangesOneFile DEF Changing
<1>4. Remaining' /\ Deleting' /\ Installing'
  BY <1>1, <1>3 DEF Parts, EngineInv, Remaining, Deleting, Installing
<1>5. RollingBack'
  BY <1>1, <1>2, <1>3, FileSets DEF Parts, EngineInv, RollingBack
<1>6. QED
  BY <1>3, <1>4, <1>5 DEF Parts, EngineInv

\* A file is copied back from the backup, or cannot be.
LEMMA RestoreFileKeeps ==
    ASSUME Parts, NEW f \in Files, RestoreFile(f)
    PROVE  EngineInv'
<1>1. /\ UNCHANGED <<saved, backups, release, before, held, deployed, torn>>
      /\ stage = "restore" /\ stage' = "restore" /\ left' = left \ {f} /\ f \in OldFiles
  BY DEF Parts, EngineInv, Remaining, RestoreFile, command, record
<1>2. /\ disk'[f] \in {disk[f], before[f]}
      /\ clean' => clean /\ (disk[f] = 0 => disk'[f] = before[f])
                         /\ (disk[f] # 0 => disk'[f] = disk[f])
      /\ \A g \in Files \ {f} : disk'[g] = disk[g]
  BY DEF Parts, EngineInv, TypeOK, RestoreFile
<1>3. /\ NothingLost' /\ FoundBefore' /\ DeployedStands' /\ StoodBefore'
      /\ Changes' /\ BackingUp' /\ RestoresReplaced'
      /\ OldFiles' = OldFiles /\ NewFiles' = NewFiles /\ Listed' = Listed /\ Kept' = Kept
  BY <1>1, <1>2, ChangesOneFile DEF Changing
<1>4. Remaining' /\ Deleting' /\ Installing'
  BY <1>1, <1>3 DEF Parts, EngineInv, Remaining, Deleting, Installing
<1>5. RollingBack'
  BY <1>1, <1>2, <1>3 DEF Parts, EngineInv, RollingBack
<1>6. QED
  BY <1>3, <1>4, <1>5 DEF Parts, EngineInv

\* The roll back is over: what was backed up is back, and with it the version
\* that stood before.
LEMMA RolledBackKeeps ==
    ASSUME Parts, RolledBack
    PROVE  EngineInv'
<1>1. /\ UNCHANGED <<disk, saved, release, before, backups, clean, held, deployed>>
      /\ stage = "restore" /\ left = {} /\ stage' = "done" /\ torn' = (torn \/ ~clean)
  BY DEF RolledBack, Done, storage, rolling
<1>2. clean => \A f \in Files \ Kept : disk[f] = before[f]
  BY <1>1 DEF Parts, EngineInv, RollingBack
<1>3. RestoresReplaced'
  BY <1>1, <1>2 DEF RestoresReplaced, Kept, Listed, Wanted
<1>4. DeployedStands'
  <2>1. SUFFICES ASSUME deployed # 0, ~torn, clean
                 PROVE  deployed \in saved /\ Whole(deployed, disk)
    BY <1>1 DEF DeployedStands, Whole
  <2>2. deployed \in saved /\ Whole(deployed, before)
    BY <1>1, <2>1 DEF Parts, EngineInv, StoodBefore, Changing
  <2>3. \A f \in Files \ Spared : disk[f] = before[f]
    BY <1>2, <2>1 DEF Kept
  <2>4. QED
    BY <2>2, <2>3 DEF Whole
<1>5. QED
  BY <1>1, <1>3, <1>4, Outside DEF Changing

-----------------------------------------------------------------------------
(* The invariant and what follows from it *)

\* A step that leaves the engine alone, but for the faults it counts.
LEMMA InvElsewhere ==
    ASSUME EngineInv, TypeOK',
           UNCHANGED <<storage, command, rolling, record, stage, left>>
    PROVE  EngineInv'
<1> USE DEF storage, command, rolling, record
<1>1. OldFiles' = OldFiles /\ NewFiles' = NewFiles /\ Listed' = Listed /\ Kept' = Kept
  BY DEF OldFiles, NewFiles, Kept, Listed, Wanted
<1>2. NothingLost' /\ RestoresReplaced' /\ DeployedStands' /\ StoodBefore' /\ FoundBefore'
  BY <1>1 DEF EngineInv, NothingLost, RestoresReplaced, DeployedStands, StoodBefore, Whole,
              FoundBefore
<1>3. BackingUp' /\ Remaining' /\ Changes' /\ Deleting'
  BY <1>1 DEF EngineInv, BackingUp, Remaining, Changes, Deleting
<1>4. Installing' /\ RollingBack'
  BY <1>1 DEF EngineInv, Installing, RollingBack, Wanted
<1>5. QED
  BY <1>2, <1>3, <1>4 DEF EngineInv

\* Every step of the engine preserves the invariant.
LEMMA InvNext == EngineInv /\ [EngineNext]_engineVars => EngineInv'
<1> SUFFICES ASSUME EngineInv, [EngineNext]_engineVars
             PROVE  EngineInv'
  OBVIOUS
<1>1. CASE UNCHANGED engineVars
  <2>1. TypeOK'
    BY <1>1 DEF engineVars, storage, command, rolling, record, EngineInv, TypeOK
  <2>2. QED
    BY <1>1, <2>1, InvElsewhere DEF engineVars
<1>2. CASE EngineNext
  <2>1. Parts
    BY <1>2, TypeStep DEF Parts, EngineInv
  <2>2. CASE RunUpdate \/ Downloading \/ Quit \/ Stop
    BY <2>1, <2>2, OutsideSteps DEF Quit, Stop
  <2>3. CASE Deploy
    BY <2>1, <2>3, DeployKeeps
  <2>4. CASE Deploying
    <3>1. CASE BackupFails \/ Proceed \/ DeployFails \/ DeploySucceeds \/ RolledBack
      BY <2>1, <3>1, OutsideSteps, ProceedKeeps, DeployFailsKeeps, DeploySucceedsKeeps,
         RolledBackKeeps
    <3>2. ASSUME NEW f \in Files,
                 \/ CopyToBackup(f) \/ DeleteFile(f) \/ InstallFile(f)
                 \/ UndoFile(f) \/ RestoreFile(f)
          PROVE  EngineInv'
      BY <2>1, <3>2, CopyToBackupKeeps, DeleteFileKeeps, InstallFileKeeps, UndoFileKeeps,
         RestoreFileKeeps
    <3>3. QED
      BY <2>4, <3>1, <3>2 DEF Deploying
  <2>5. QED
    BY <1>2, <2>2, <2>3, <2>4 DEF EngineNext
<1>3. QED
  BY <1>1, <1>2

\* The invariant holds in every state, whatever fails and wherever it stops.
THEOREM EngineInvariant == EngineSpec => []EngineInv
BY InvInit, InvNext, PTL DEF EngineSpec

=============================================================================
