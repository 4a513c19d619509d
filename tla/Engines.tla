------------------------------ MODULE Engines -------------------------------
(***************************************************************************)
(* Runs and restores of a job by its engine (internal/engines, the         *)
(* decisions of runner.Run and runner.Restore), under settings that change *)
(* meanwhile: where a backup goes, which exit codes are a success, what    *)
(* the retention leaves, and what a restore puts where.                    *)
(*                                                                         *)
(* Mounts, run.pid and overlapping runs are JobRun's: a share is mounted   *)
(* for the length of a run or restore, and one run lasts at a time.  It    *)
(* backs up, forgets and writes its result, one after the other, and may   *)
(* be killed between them.  It works on the settings it has read: what is  *)
(* edited meanwhile is edited after it here, and a job is not deleted in   *)
(* the middle of its run.                                                  *)
(***************************************************************************)
EXTENDS Settings

CONSTANTS
  File,    \* entries of the source directory
  Top,     \* one of them: it is named like the first component of the path
  Sub,     \* another: the directory that the path "part" names
  Gone,    \* a source directory that is not there
  Policies,\* bound: the retentions of jobs that run
  MaxRuns, \* bound: snapshots
  MaxDay   \* bound: days

ASSUME EngineAssumption ==
  /\ Top \in File /\ Sub \in File /\ Sub # Top
  /\ {MaxRuns, MaxDay} \subseteq Nat

VARIABLES
  path,    \* the job's source path
  source,  \* the entries of the directory there
  repo,    \* the snapshots in each place
  mirror,  \* the files that rsync has put in each place
  out,     \* the directory last restored or downloaded to
  run,     \* the run that lasts: its next step and its result so far
  lastRun, \* last_run.json, NoRun when missing or not to be read
  untold,  \* history: snapshots of which no result has told (yet)
  taken,   \* snapshots taken: the next one's number
  today

data == <<path, source, repo, mirror, out, run, lastRun, untold, taken, today>>
vars == <<settings, data>>

\* A directory and one in it.
Path == {"whole", "part"}
Place == {"disk", "share", "bucket"}
Snapshot == [no : 1..MaxRuns, day : 0..MaxDay, path : Path, files : SUBSET File]
Result ==
  [status : {"none", "success", "failure"}, program : Program \cup {Blank},
   place : Place, no : 0..MaxRuns, files : SUBSET File]
NoRun == [status |-> "none", program |-> Blank, place |-> "disk", no |-> 0, files |-> {}]
Idle == [next |-> "none", result |-> NoRun]
NotRestored == [of |-> 0, from |-> "whole", files |-> {}, root |-> {}, nested |-> {}]
Mirror == MaxRuns + 1     \* what a restore is of, when not of a snapshot
Download == MaxRuns + 2

TypeOK ==
  /\ SettingsTypeOK
  /\ path \in Path /\ source \in (SUBSET File) \cup {Gone}
  /\ repo \in [Place -> SUBSET Snapshot] /\ mirror \in [Place -> SUBSET File]
  /\ out \in [of : 0..Download, from : Path, files : SUBSET File, root : SUBSET File,
              nested : SUBSET File]
  /\ run \in [next : {"none", "forget", "record"}, result : Result]
  /\ lastRun \in Result /\ untold \subseteq 1..MaxRuns
  /\ taken \in 0..MaxRuns /\ today \in 0..MaxDay

Init ==
  /\ InitSettings
  /\ path = "whole" /\ source = File
  /\ repo = [p \in Place |-> {}] /\ mirror = [p \in Place |-> {}]
  /\ out = NotRestored /\ run = Idle /\ lastRun = NoRun /\ untold = {}
  /\ taken = 0 /\ today = 0

\* The place below the job's destination path.  A share is mounted at the
\* job's own mount point; any other path is a directory of this machine.
PlaceOf(j) ==
  CASE j.dest = "s3" -> "bucket"
    [] j.dest = "share" /\ j.onShare -> "share"
    [] OTHER -> "disk"

\* Bound: jobs that run.  Schedules, checks and the source's type play no
\* part in what a run does.
Runs(j) ==
  /\ j # NoJob
  /\ j.ret \in Policies /\ j.sched = Manual /\ j.checks = "off" /\ j.source = "local"

\* validateSupportedSlice, for runs and restores alike.
Supported(j) == Runs(j) /\ j.enabled /\ source # Gone

\* Nothing has been run, and nothing has happened where it would run.
Untouched ==
  /\ source = File /\ path = "whole" /\ lastRun = NoRun /\ taken = 0
  /\ mirror = [p \in Place |-> {}]

\* The commands that change the settings.  Deleting a job may wipe a local
\* destination; last_run.json lies in the job's directory.
\* Bound: where something has run, jobs stay ones that run.
SettingsStep ==
  /\ NextSettings
  /\ \A j \in {toml'} \ {NoJob} : Untouched \/ Runs(j)
  /\ lastRun' = IF toml' = NoJob \/ door' # door THEN NoRun ELSE lastRun
  /\ \/ UNCHANGED <<repo, mirror>>
     \/ /\ toml # NoJob /\ toml' = NoJob
        /\ toml.dest = "local"
        /\ repo' = [repo EXCEPT !["disk"] = {}]
        /\ mirror' = [mirror EXCEPT !["disk"] = {}]
  /\ UNCHANGED <<path, source, out, run, untold, taken, today>>

\* The source path alone is edited, in the wizard or by job edit, which takes
\* any; SourceChanges says what lies there.  A job made for the other directory
\* is one edited so.
EditSource ==
  /\ Runs(toml)
  /\ edits < MaxEdits /\ edits' = edits + 1
  /\ path' \in Path \ {path}
  /\ UNCHANGED <<toml, secrets, door, chosen, backedOut>>
  /\ UNCHANGED <<source, repo, mirror, out, run, lastRun, untold, taken, today>>

-----------------------------------------------------------------------------
(***************************************************************************)
(* Runs.                                                                   *)
(***************************************************************************)
\* Mutant of ResticSucceeds: 1 for 3.
ResticSucceedsOne(exit) == exit \in {0, 1}

ResticSucceeds(exit) == exit \in {0, 3}
RsyncSucceeds(exit) == exit \in {0, 24}

\* restic ends with 0 when it has read all, with 3 when it could not read some
\* files and saved the others, with 1 without a snapshot.
ResticExits(exit, read) ==
  CASE exit = 0 -> read = source
    [] exit = 3 -> read # source
    [] OTHER -> read = source

\* A run that has done with its engine: its next step, and what it will write.
Fails == run' = [next |-> "record", result |-> [NoRun EXCEPT !.status = "failure"]]
Succeeds(next, no, read) ==
  run' = [next |-> next,
          result |-> [status |-> "success", program |-> toml.program,
                      place |-> PlaceOf(toml), no |-> no, files |-> read]]

RunRestic ==
  /\ Supported(toml) /\ toml.program = "restic"
  /\ taken < MaxRuns
  /\ \E exit \in {0, 1, 3}, read \in SUBSET source :
       /\ "restic" \in secrets \/ exit = 1
       /\ ResticExits(exit, read)
       /\ LET s == [no |-> taken + 1, day |-> today, path |-> path, files |-> read]
          IN  IF exit = 1 THEN UNCHANGED <<repo, taken, untold>>
              ELSE /\ repo' = [repo EXCEPT ![PlaceOf(toml)] = @ \cup {s}]
                   /\ taken' = s.no /\ untold' = untold \cup {s.no}
       /\ IF ResticSucceeds(exit) THEN Succeeds("forget", taken', read) ELSE Fails
  /\ UNCHANGED <<settings, path, source, mirror, out, lastRun, today>>

\* restic forget may fail or be cut off when it has removed some; the backup
\* is a success still.
RunForget(S) == {left \in SUBSET S : Forgets(ForgetFlags(toml.ret), S) \subseteq left}

Forget ==
  /\ run.next = "forget"
  /\ \E left \in RunForget(repo[PlaceOf(toml)]) :
       repo' = [repo EXCEPT ![PlaceOf(toml)] = left]
  /\ run' = [run EXCEPT !.next = "record"]
  /\ UNCHANGED <<settings, path, source, mirror, out, lastRun, untold, taken, today>>

\* A write that fails is a warning: the earlier result stays, or a cut one.
WriteLastRun ==
  /\ run.next = "record"
  /\ \/ lastRun' = run.result /\ untold' = untold \ {run.result.no}
     \/ lastRun' \in {lastRun, NoRun} /\ UNCHANGED untold
  /\ run' = Idle
  /\ UNCHANGED <<settings, path, source, repo, mirror, out, taken, today>>

\* The process is stopped, or dies.
Killed ==
  /\ run # Idle /\ run' = Idle
  /\ UNCHANGED <<settings, path, source, repo, mirror, out, lastRun, untold, taken, today>>

\* A dry run saves no snapshot and leaves last_run.json, but forgets.
DryRun ==
  /\ Supported(toml) /\ toml.program = "restic" /\ "restic" \in secrets
  /\ \E left \in RunForget(repo[PlaceOf(toml)]) :
       repo' = [repo EXCEPT ![PlaceOf(toml)] = left]
  /\ UNCHANGED <<settings, path, source, mirror, out, run, lastRun, untold, taken, today>>

\* rsync without --delete: what it has read is added.  It ends with 24 when
\* files vanished under it, with another code when it could not read some.
RunRsync ==
  /\ Supported(toml) /\ toml.program = "rsync"
  /\ \E exit \in {0, 23, 24}, read \in SUBSET source :
       /\ exit = 0 => read = source
       /\ source' = IF exit = 24 THEN read ELSE source
       /\ mirror' = [mirror EXCEPT ![PlaceOf(toml)] = @ \cup read]
       /\ IF RsyncSucceeds(exit) THEN Succeeds("record", 0, read) ELSE Fails
  /\ UNCHANGED <<settings, path, repo, out, lastRun, untold, taken, today>>

-----------------------------------------------------------------------------
(***************************************************************************)
(* Restores.  A restore that fails says so, and what it leaves is not kept *)
(* here.  The directory is named after the job and the snapshot, so that   *)
(* the same snapshot restored again meets what is there.                   *)
(***************************************************************************)
Restored(of, from, files, root, nested) ==
  [of |-> of, from |-> from, files |-> files, root |-> root, nested |-> nested]

\* What restic has put below the path is moved to the top, each entry in the
\* place of what bears its name there, and the emptied path is removed.  Where
\* one cannot be replaced or moved, this ends.  An entry named like the path's
\* first component takes the path's place: what has not been moved goes with it.
MovedUp(root, files) ==
  {<<root \cup files, {}>> : f \in {f \in {Top} : f \notin files}}
  \cup {<<root \cup moved, {}>> :
          moved \in {m \in SUBSET (files \ {Top}) : Top \in files}}
  \cup UNION {{<<(root \ {f}) \cup moved, files \ moved>> : moved \in SUBSET (files \ {f})} : f \in files}

\* Mutant of FlattenResticRestore: the path is removed though a file is left.
FlattenAndRemove(root, s) == {<<root \cup moved, {}>> : moved \in SUBSET s.files}

\* restic puts the files below the path they were taken under, and those below
\* the job's present path are moved up.  Set to a directory in the earlier one,
\* that directory's contents are, and all else is removed with the path; set
\* to the directory above, the earlier one is moved as a whole, and its files
\* stay below its path.
FlattenResticRestore(root, s) ==
  IF s.path = path THEN MovedUp(root, s.files)
  ELSE {<<root, s.files>>}
       \cup {<<root \cup {f}, {}>> : f \in {f \in {Sub} \cap s.files : s.path = "whole" /\ path = "part"}}

\* The wizard lists the snapshots without mounting a share, and then restores
\* with the checks of a run.
Listed == IF PlaceOf(toml) = "share" THEN {} ELSE repo[PlaceOf(toml)]

RestoreRestic ==
  /\ Supported(toml) /\ toml.program = "restic" /\ "restic" \in secrets
  /\ \E s \in Listed :
     \E left \in FlattenResticRestore(IF out.of = s.no THEN out.root ELSE {}, s) :
       out' = Restored(s.no, s.path, s.files, left[1], left[2])
  /\ UNCHANGED <<settings, path, source, repo, mirror, run, lastRun, untold, taken, today>>

RestoreRsync ==
  /\ Supported(toml) /\ toml.program = "rsync"
  /\ LET files == mirror[PlaceOf(toml)]
     IN  out' = Restored(Mirror, path, files, files \cup (IF out.of = Mirror THEN out.root ELSE {}), {})
  /\ UNCHANGED <<settings, path, source, repo, mirror, run, lastRun, untold, taken, today>>

\* repo-dump-zip for the server: files that restic does not deliver are left
\* out of the archive, which ends as a whole one.
AddPathsToZip(files) == SUBSET files

DownloadZip ==
  /\ Runs(toml) /\ toml.program = "restic" /\ "restic" \in secrets
  /\ \E s \in repo[PlaceOf(toml)] : \E got \in AddPathsToZip(s.files) :
       out' = Restored(Download, s.path, s.files, got, {})
  /\ UNCHANGED <<settings, path, source, repo, mirror, run, lastRun, untold, taken, today>>

-----------------------------------------------------------------------------
\* Bound: nothing changes where nothing runs.
SourceChanges ==
  /\ Runs(toml)
  /\ \E files \in (SUBSET File) \cup {Gone} : files # source /\ source' = files
  /\ UNCHANGED <<settings, path, repo, mirror, out, run, lastRun, untold, taken, today>>

\* Bound: days pass where the retention counts them.
DayPasses ==
  /\ Runs(toml) /\ toml.ret.mode = "tiered"
  /\ \E s \in repo[PlaceOf(toml)] : s.day = today
  /\ today < MaxDay /\ today' = today + 1
  /\ UNCHANGED <<settings, path, source, repo, mirror, out, run, lastRun, untold, taken>>

\* Bound: once something is restored, only restores follow.
Next ==
  \/ /\ run = Idle
     /\ \/ /\ out = NotRestored
           /\ \/ SettingsStep
              \/ EditSource
              \/ RunRestic
              \/ DryRun
              \/ RunRsync
              \/ SourceChanges
              \/ DayPasses
        \/ RestoreRestic
        \/ RestoreRsync
        \/ DownloadZip
  \/ Forget
  \/ WriteLastRun
  \/ Killed

Spec == Init /\ [][Next]_vars

-----------------------------------------------------------------------------
(***************************************************************************)
(* Properties.                                                             *)
(***************************************************************************)

\* While last_run.json says "success", what that run read is where it put it,
\* or something newer whose run could not tell of it: in spite of retention,
\* dry runs, kills, results that cannot be written and changes of the settings
\* (Run, runForget, WriteLastRun).
SuccessIsInPlace ==
  lastRun.status = "success" =>
    IF lastRun.program = "restic"
    THEN \E s \in repo[lastRun.place] :
           \/ s.no = lastRun.no /\ s.files = lastRun.files
           \/ s.no > lastRun.no /\ s.no \in untold
    ELSE lastRun.files \subseteq mirror[lastRun.place]

\* A snapshot of a directory, with the one that the job has been set to since.
Narrowed == out.from = "whole" /\ path = "part" /\ Sub \in out.files

\* After a restore that reports success, every file of the snapshot is at the
\* top of the target or in the path below it (flattenResticRestore), but for
\* a source with an entry named like its path's first component, and a job
\* set to a directory in it since.
RestoredWhole ==
  out.of \in 1..Mirror =>
    \/ out.files \subseteq out.root \cup out.nested
    \/ out.of # Mirror /\ Top \in out.files /\ out.from = path
    \/ out.of # Mirror /\ Narrowed

(***************************************************************************)
(* What comments, prompts and documents say and the code does not keep.    *)
(***************************************************************************)

\* "On any failure the data is intact at nestedDir" (flattenResticRestore).
RestoreTopName ==
  out.of \in 1..Mirror /\ ~Narrowed => out.files \subseteq out.root \cup out.nested

\* The same, of a snapshot taken before the source path was edited.
RestoreAfterEdit ==
  out.of \in 1..Mirror /\ out.from # path => out.files \subseteq out.root \cup out.nested

\* A snapshot that last_run.json tells of as a success can be restored
\* (BackupResult.SnapshotID): not when a later run was killed after forgetting
\* it, or could not write its result.
ToldIsThere ==
  lastRun.status = "success" /\ lastRun.program = "restic" /\ run = Idle =>
    \E s \in repo[lastRun.place] : s.no = lastRun.no

\* "rsync mirrors the source exactly - deleted source files are removed from
\* the destination on the next run" (promptRetention).
MirrorExact ==
  lastRun.status = "success" /\ lastRun.program = "rsync" => mirror[lastRun.place] = lastRun.files

\* A job whose destination is a share backs up to the share.
SuccessIsOnShare ==
  lastRun.status = "success" /\ toml # NoJob /\ toml.dest = "share" => lastRun.place # "disk"

\* "DRY RUN --- no data will be written" (runner.Run): it loses none either.
DryRunWritesNothing == [][DryRun => UNCHANGED repo]_vars

\* "Restore backup" of the menu (RUNBOOK.md): what a job has backed up can be
\* restored when its source is lost.
RestoreAfterLoss ==
  toml # NoJob /\ Runs(toml) /\ toml.program = "restic" /\ "restic" \in secrets
    /\ repo[PlaceOf(toml)] # {} => Supported(toml) /\ Listed # {}

\* A download that ends well has all the files asked for.
DownloadWhole == out.of = Download => out.files \subseteq out.root
=============================================================================
