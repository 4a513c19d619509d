------------------------------ MODULE JobStore ------------------------------
(***************************************************************************)
(* The job directories (internal/jobs/store.go, config.LoadJob and         *)
(* SaveJob), the commands and menus that create, import, edit, delete,     *)
(* export and restore jobs (cli/api.go, cli/cli.go, cli/config_backup.go,  *)
(* cli/dr_restore.go), and the daemon that reads them underneath: its      *)
(* reload and its disaster-recovery backup.                                *)
(*                                                                         *)
(* A job is two files, job.toml and secrets.env, that belong together: the *)
(* repository named in one opens with the password in the other.  Nothing  *)
(* locks them, and os.WriteFile truncates a file before it writes it.      *)
(***************************************************************************)
EXTENDS Naturals, FiniteSets

CONSTANTS
  Id,          \* job IDs, the names of directories; numbers for their order
  NoId,
  Session,     \* CLI processes: menus, commands, the server's SSH session
  Absent,      \* a file that is not there, a job that is not loaded
  Blank,       \* a file without content: truncated, or keys without values
  Overlap,     \* whether two sessions may work on one job, or on the files of
               \* one export, at a time
  MayRestore,  \* whether backups are restored
  MaxBirths,   \* bound: jobs created
  MaxOps,      \* bound: commands
  MaxFaults    \* bound: crashes, failures to write or to remove

Birth == 1..MaxBirths

ASSUME IdAssumption == IsFiniteSet(Id) /\ Id \subseteq Nat /\ NoId \notin Id
ASSUME FlagAssumption == {Overlap, MayRestore} \subseteq BOOLEAN
ASSUME BoundAssumption == MaxBirths \in Nat \ {0} /\ MaxOps \in Nat /\ MaxFaults \in Nat

\* A job.toml: the creation it stems from, 0 when it was saved over a blank
\* file, and the number of edits since.
Toml == [birth : Birth \cup {0}, edit : Nat]

ASSUME ContentAssumption ==
  {Absent, Blank} \cap (Toml \cup Birth) = {} /\ Absent # Blank

VARIABLES
  dir,         \* the directories there are
  toml,        \* job.toml of each job
  secrets,     \* secrets.env of each job: the creation it stems from
  exported,    \* the files in the directory that jobs are exported to
  op,          \* what each session does
  reader,      \* what the daemon reads: a reload or a backup
  view,        \* the jobs the daemon has loaded
  snapshot,    \* the last backup
  broken,      \* history: crashes, failed removals and late runs left these
  torn,        \* history: a restore left these without a whole pair
  cut,         \* history: the last export to that directory stopped between its
               \* files, or its job lacked a whole pair
  mixed,       \* history: these were imported while it was so
  bounds       \* history: counters of the bounds

store == <<dir, toml, secrets>>
daemon == <<reader, view, snapshot>>
history == <<broken, torn, cut, mixed>>
vars == <<store, exported, op, daemon, history, bounds>>

Pair == [toml : Toml \cup {Absent, Blank}, secrets : Birth \cup {Absent, Blank}]
NoPair == [toml |-> Absent, secrets |-> Absent]

Restores == {"restore", "recover", "dr-restore"}
Kind == {"create", "import", "edit", "delete", "export"} \cup Restores
ExportPc == {"out toml", "fill out toml", "out secrets", "fill out secrets"}
Pc == {"mkdir", "toml", "fill toml", "secrets", "fill secrets", "script", "remove"} \cup ExportPc
Idle == [kind |-> "idle", id |-> NoId, pc |-> "idle", pair |-> NoPair]
Reading == {"idle", "reload", "backup", "down"}
NotReading == [doing |-> "idle", todo |-> {}, at |-> NoId, toml |-> Absent,
               lists |-> FALSE, out |-> [i \in Id |-> NoPair]]

TypeOK ==
  /\ dir \subseteq Id
  /\ toml \in [Id -> Toml \cup {Absent, Blank}]
  /\ secrets \in [Id -> Birth \cup {Absent, Blank}]
  /\ exported \in Pair
  /\ op \in [Session -> [kind : Kind, id : Id, pc : Pc, pair : Pair] \cup {Idle}]
  /\ reader \in [doing : Reading, todo : SUBSET Id, at : Id \cup {NoId},
                 toml : Toml \cup {Absent, Blank}, lists : BOOLEAN, out : [Id -> Pair]]
  /\ view \in [Id -> Pair] /\ snapshot \in [Id -> Pair]
  /\ broken \subseteq Id /\ torn \subseteq Id /\ mixed \subseteq Id /\ cut \in BOOLEAN
  /\ bounds \in [{"births", "ops", "faults"} -> Nat]

-----------------------------------------------------------------------------
(***************************************************************************)
(* Reading and writing one job.                                            *)
(***************************************************************************)

\* LoadJob succeeds: both files can be read.  An empty job.toml parses.
Loadable(i) == toml[i] # Absent /\ secrets[i] # Absent

\* ParseJobTOML of an empty file is a job without any setting.
Parsed(t) == IF t = Blank THEN [birth |-> 0, edit |-> 0] ELSE t

Free(i) == Overlap \/ \A p \in Session : op[p].id # i
ExportFree == Overlap \/ \A p \in Session : op[p].kind \notin {"export", "import"}

Counts(b, max) == bounds[b] < max /\ bounds' = [bounds EXCEPT ![b] = @ + 1]

Start(p, kind, i, pc, pair) ==
  /\ op[p] = Idle
  /\ Free(i)
  /\ Counts("ops", MaxOps)
  /\ op' = [op EXCEPT ![p] = [kind |-> kind, id |-> i, pc |-> pc, pair |-> pair]]
  /\ UNCHANGED <<store, exported, daemon, history>>

Goto(p, pc) == op' = [op EXCEPT ![p].pc = pc]
Done(p) == op' = [op EXCEPT ![p] = Idle]
At(p, pc) == op[p].pc = pc

\* One job, or only what an earlier export left of it.
Init ==
  /\ dir \in SUBSET Id
  /\ toml = [i \in Id |-> IF i \in dir THEN [birth |-> 1, edit |-> 0] ELSE Absent]
  /\ secrets = [i \in Id |-> IF i \in dir THEN 1 ELSE Absent]
  /\ Cardinality(dir) < 2
  /\ exported = IF dir = {} THEN [toml |-> [birth |-> 1, edit |-> 0], secrets |-> 1] ELSE NoPair
  /\ op = [p \in Session |-> Idle]
  /\ reader = NotReading
  /\ view = [i \in Id |-> [toml |-> toml[i], secrets |-> secrets[i]]]
  /\ snapshot = [i \in Id |-> NoPair]
  /\ broken = {} /\ torn = {} /\ mixed = {} /\ cut = FALSE
  /\ bounds = [births |-> 1, ops |-> 0, faults |-> 0]

-----------------------------------------------------------------------------
(***************************************************************************)
(* The commands.  A menu waits for its operator between the load and the   *)
(* save of a job.                                                          *)
(***************************************************************************)

\* Mutant of Exists: looks for job.toml.
ExistsFile(i) == toml[i] # Absent

Exists(i) == i \in dir

\* jobs.Create: a new job with its secrets.
Create(p, i) ==
  /\ ~Exists(i)
  /\ bounds.births < MaxBirths
  /\ op[p] = Idle /\ Free(i) /\ bounds.ops < MaxOps
  /\ bounds' = [bounds EXCEPT !.births = @ + 1, !.ops = @ + 1]
  /\ LET b == bounds.births + 1 IN
     op' = [op EXCEPT ![p] = [kind |-> "create", id |-> i, pc |-> "mkdir",
                              pair |-> [toml |-> [birth |-> b, edit |-> 0], secrets |-> b]]]
  /\ UNCHANGED <<store, exported, daemon, history>>

ApiCreate(p, i) == Create(p, i)
CreateWizard(p, i) == Create(p, i)
ImportLegacy(p, i) == Create(p, i)

\* jobs.Import of the exported job.toml, whatever it stems from, under a new ID.
Import(p, i) ==
  /\ exported.toml # Absent
  /\ ~Exists(i)
  /\ ExportFree
  /\ Start(p, "import", i, "mkdir", [toml |-> Parsed(exported.toml), secrets |-> Absent])

ImportV2(p, i) == Import(p, i)

\* Load, change and save.
Edit(p, i) ==
  /\ Loadable(i)
  /\ Start(p, "edit", i, "toml",
           [toml |-> [Parsed(toml[i]) EXCEPT !.edit = @ + 1], secrets |-> Absent])

ApiEdit(p, i) == Edit(p, i)
ApiEnableDisable(p, i) == Edit(p, i)
ApiScheduleSet(p, i) == Edit(p, i)
ApiRetentionSet(p, i) == Edit(p, i)
ApiNotificationsSet(p, i) == Edit(p, i)
ReconfigureWizard(p, i) == Edit(p, i)
ConfigureSchedule(p, i) == Edit(p, i)
ConfigureNotifications(p, i) == Edit(p, i)
ConfigureRetention(p, i) == Edit(p, i)

\* jobs.Delete, which both callers precede with a load.
Delete(p, i) == Loadable(i) /\ Start(p, "delete", i, "remove", NoPair)

ApiDelete(p, i) == Delete(p, i)
RemoveJob(p, i) == Delete(p, i)

\* jobs.Export
Export(p, i) ==
  /\ Exists(i)
  /\ ExportFree
  /\ Start(p, "export", i, "out toml", NoPair)

\* A restore takes the jobs of the backup one after the other, each as a step
\* of its own here.  `config restore' gives up when a copy fails,
ConfigRestore(p, i) ==
  /\ MayRestore /\ snapshot[i] # NoPair
  /\ Start(p, "restore", i, "mkdir", snapshot[i])

\* the recovery of a node goes on,
Recover(p, i) ==
  /\ MayRestore /\ snapshot[i] # NoPair
  /\ Start(p, "recover", i, "mkdir", snapshot[i])

\* and so does --dr-restore, which stops the daemon for the time.
DRRestore(p, i) ==
  /\ MayRestore /\ snapshot[i] # NoPair
  /\ op[p] = Idle /\ Free(i)
  /\ Counts("ops", MaxOps)
  /\ op' = [op EXCEPT ![p] = [kind |-> "dr-restore", id |-> i, pc |-> "mkdir", pair |-> snapshot[i]]]
  /\ reader' = [NotReading EXCEPT !.doing = "down"]
  /\ view' = [j \in Id |-> NoPair]
  /\ UNCHANGED <<store, exported, snapshot, history>>

Command(p, i) ==
  \/ ApiCreate(p, i) \/ CreateWizard(p, i) \/ ImportLegacy(p, i) \/ ImportV2(p, i)
  \/ ApiEdit(p, i) \/ ApiEnableDisable(p, i) \/ ApiScheduleSet(p, i)
  \/ ApiRetentionSet(p, i) \/ ApiNotificationsSet(p, i) \/ ReconfigureWizard(p, i)
  \/ ConfigureSchedule(p, i) \/ ConfigureNotifications(p, i) \/ ConfigureRetention(p, i)
  \/ ApiDelete(p, i) \/ RemoveJob(p, i) \/ Export(p, i)
  \/ ConfigRestore(p, i) \/ Recover(p, i) \/ DRRestore(p, i)

-----------------------------------------------------------------------------
(***************************************************************************)
(* The steps of a command.                                                 *)
(***************************************************************************)

\* The end of a command; --dr-restore starts the daemon again, and only warns
\* when it cannot.
End(p) ==
  /\ Done(p)
  /\ reader' \in IF op[p].kind = "dr-restore" THEN {NotReading, reader} ELSE {reader}
  /\ UNCHANGED <<view, snapshot>>

\* The pair stems from one creation, or has no secrets of another.
Whole(pair) ==
  /\ Absent \notin {pair.toml, pair.secrets}
  /\ \/ pair.toml = Blank \/ pair.secrets = Blank
     \/ Parsed(pair.toml).birth \in {0, pair.secrets}

MakeDir(p) ==
  /\ At(p, "mkdir")
  /\ dir' = dir \cup {op[p].id}
  /\ Goto(p, "toml")
  /\ torn' = IF op[p].kind \in Restores THEN torn \cup {op[p].id} ELSE torn
  /\ UNCHANGED <<toml, secrets, exported, daemon, broken, cut, mixed, bounds>>

\* os.WriteFile opens job.toml; a restore skips what the backup lacks.
OpenToml(p) ==
  /\ At(p, "toml")
  /\ op[p].id \in dir
  /\ IF op[p].pair.toml = Absent
     THEN Goto(p, "secrets") /\ UNCHANGED toml
     ELSE Goto(p, "fill toml") /\ toml' = [toml EXCEPT ![op[p].id] = Blank]
  /\ UNCHANGED <<dir, secrets, exported, daemon, history, bounds>>

FillToml(p) ==
  /\ At(p, "fill toml")
  /\ toml' = [toml EXCEPT ![op[p].id] = op[p].pair.toml]
  /\ IF op[p].kind = "edit" THEN End(p) ELSE Goto(p, "secrets") /\ UNCHANGED daemon
  /\ UNCHANGED <<dir, secrets, exported, history, bounds>>

\* After a restore without failure the pair is as good as the backup's.
Restored(p) ==
  IF Whole(op[p].pair) THEN torn' = torn \ {op[p].id} /\ mixed' = mixed \ {op[p].id}
  ELSE UNCHANGED <<torn, mixed>>

\* An import reads the exported secrets only now; without them the keys stay
\* empty.
Source(p) ==
  IF op[p].kind # "import" THEN op[p].pair.secrets
  ELSE IF exported.secrets = Absent THEN Blank ELSE exported.secrets

SkipSecrets(p) ==
  /\ At(p, "secrets")
  /\ op[p].id \in dir
  /\ op[p].kind \in Restores /\ op[p].pair.secrets = Absent
  /\ End(p)
  /\ UNCHANGED <<store, exported, history, bounds>>

OpenSecrets(p) ==
  /\ At(p, "secrets")
  /\ op[p].id \in dir
  /\ Source(p) # Absent
  /\ op' = [op EXCEPT ![p].pc = "fill secrets", ![p].pair.secrets = Source(p)]
  /\ secrets' = [secrets EXCEPT ![op[p].id] = Blank]
  /\ mixed' = IF op[p].kind = "import" /\ cut THEN mixed \cup {op[p].id} ELSE mixed
  /\ UNCHANGED <<dir, toml, exported, daemon, broken, torn, cut, bounds>>

FillSecrets(p) ==
  /\ At(p, "fill secrets")
  /\ secrets' = [secrets EXCEPT ![op[p].id] = op[p].pair.secrets]
  /\ IF op[p].kind \in Restores THEN End(p) /\ Restored(p)
     ELSE Goto(p, "script") /\ UNCHANGED <<daemon, torn, mixed>>
  /\ UNCHANGED <<dir, toml, exported, broken, cut, bounds>>

WriteScript(p) ==
  /\ At(p, "script")
  /\ Done(p)
  /\ UNCHANGED <<store, exported, daemon, history, bounds>>

\* os.RemoveAll takes one file after the other, in any order,
RemoveFile(p) ==
  /\ At(p, "remove")
  /\ \/ /\ toml[op[p].id] # Absent
        /\ toml' = [toml EXCEPT ![op[p].id] = Absent]
        /\ UNCHANGED secrets
     \/ /\ secrets[op[p].id] # Absent
        /\ secrets' = [secrets EXCEPT ![op[p].id] = Absent]
        /\ UNCHANGED toml
  /\ UNCHANGED <<dir, exported, op, daemon, history, bounds>>

\* and the directory at last.
RemoveDir(p) ==
  /\ At(p, "remove")
  /\ toml[op[p].id] = Absent /\ secrets[op[p].id] = Absent
  /\ dir' = dir \ {op[p].id}
  /\ broken' = broken \ {op[p].id} /\ torn' = torn \ {op[p].id} /\ mixed' = mixed \ {op[p].id}
  /\ Done(p)
  /\ UNCHANGED <<toml, secrets, exported, daemon, cut, bounds>>

\* Export copies job.toml and then secrets.env, of a job it has not loaded: it
\* reads the one of the job and truncates the one in its directory,
OpenExport(p) ==
  /\ LET i == op[p].id IN
     \/ /\ At(p, "out toml") /\ toml[i] # Absent
        /\ exported' = [exported EXCEPT !.toml = Blank]
        /\ op' = [op EXCEPT ![p].pc = "fill out toml", ![p].pair.toml = toml[i]]
     \/ /\ At(p, "out secrets") /\ secrets[i] # Absent
        /\ exported' = [exported EXCEPT !.secrets = Blank]
        /\ op' = [op EXCEPT ![p].pc = "fill out secrets", ![p].pair.secrets = secrets[i]]
  /\ cut' = TRUE
  /\ UNCHANGED <<store, daemon, broken, torn, mixed, bounds>>

\* writes it,
FillExport(p) ==
  /\ \/ /\ At(p, "fill out toml")
        /\ exported' = [exported EXCEPT !.toml = op[p].pair.toml]
        /\ Goto(p, "out secrets")
        /\ UNCHANGED cut
     \/ /\ At(p, "fill out secrets")
        /\ exported' = [exported EXCEPT !.secrets = op[p].pair.secrets]
        /\ Done(p)
        /\ cut' = (op[p].id \in torn \cup mixed)
  /\ UNCHANGED <<store, daemon, broken, torn, mixed, bounds>>

\* and leaves everything as it is when it can do the one or the other no more.
ExportFails(p) ==
  /\ op[p].pc \in ExportPc
  /\ \/ /\ \/ At(p, "out toml") /\ toml[op[p].id] = Absent
           \/ At(p, "out secrets") /\ secrets[op[p].id] = Absent
        /\ UNCHANGED bounds
     \/ Counts("faults", MaxFaults)
  /\ Done(p)
  /\ UNCHANGED <<store, exported, daemon, history>>

Writing == {"toml", "fill toml", "secrets", "fill secrets", "script"}

\* Mutant of CleanUp: the directory of a failed import stays.
CleanUpCreated(p) == IF op[p].kind = "create" THEN Goto(p, "remove") ELSE Done(p)

\* Create and Import remove the directory when a write fails.
CleanUp(p) == IF op[p].kind \in {"create", "import"} THEN Goto(p, "remove") ELSE Done(p)

\* A write fails, as it must once the directory is gone: the file stays as the
\* truncation left it.
WriteFails(p) ==
  /\ op[p].pc \in Writing
  /\ op[p].kind \notin {"recover", "dr-restore"}
  /\ IF op[p].id \in dir THEN Counts("faults", MaxFaults) ELSE UNCHANGED bounds
  /\ CleanUp(p)
  /\ UNCHANGED <<store, exported, daemon, history>>

\* copyFileRecover's error is not looked at: the next file follows.
CopyFails(p) ==
  /\ op[p].pc \in Writing
  /\ op[p].kind \in {"recover", "dr-restore"}
  /\ Counts("faults", MaxFaults)
  /\ IF op[p].pc \in {"toml", "fill toml"}
     THEN op' = [op EXCEPT ![p].pc = "secrets", ![p].pair.toml = Absent] /\ UNCHANGED daemon
     ELSE End(p)
  /\ UNCHANGED <<store, exported, history>>

\* MkdirAll or RemoveAll fails half way: nothing is cleaned up.
DirectoryFails(p) ==
  /\ op[p].pc \in {"mkdir", "remove"}
  /\ op[p].kind \notin {"recover", "dr-restore"}
  /\ Counts("faults", MaxFaults)
  /\ Done(p)
  /\ dir' \in IF op[p].pc = "mkdir" THEN {dir, dir \cup {op[p].id}} ELSE {dir}
  /\ broken' = broken \cup {op[p].id}
  /\ UNCHANGED <<toml, secrets, exported, daemon, torn, cut, mixed>>

\* The process is killed; after --dr-restore's stop nobody starts the daemon.
Crash(p) ==
  /\ op[p] # Idle
  /\ Counts("faults", MaxFaults)
  /\ Done(p)
  /\ broken' = IF op[p].kind = "export" THEN broken ELSE broken \cup {op[p].id}
  /\ UNCHANGED <<store, exported, daemon, torn, cut, mixed>>

Steps(p) ==
  \/ MakeDir(p) \/ OpenToml(p) \/ FillToml(p)
  \/ SkipSecrets(p) \/ OpenSecrets(p) \/ FillSecrets(p) \/ WriteScript(p)
  \/ RemoveFile(p) \/ RemoveDir(p)
  \/ OpenExport(p) \/ FillExport(p) \/ ExportFails(p)
  \/ WriteFails(p) \/ CopyFails(p) \/ DirectoryFails(p) \/ Crash(p)

-----------------------------------------------------------------------------
(***************************************************************************)
(* The daemon.                                                             *)
(***************************************************************************)

\* reload and buildSchedule (jobs.LoadAll), and a backup: the directories
\* there are at the beginning.
Begin(doing) ==
  /\ reader = NotReading
  /\ reader' = [reader EXCEPT !.doing = doing, !.todo = dir]
  /\ UNCHANGED <<store, exported, op, view, snapshot, history>>

BeginReload == Begin("reload") /\ UNCHANGED bounds

BeginBackup == MayRestore /\ Counts("ops", MaxOps) /\ Begin("backup")

\* `config backup', by a command; one reads at a time here.
ConfigBackup == MayRestore /\ Counts("ops", MaxOps) /\ Begin("backup")

\* job.toml of job i, the next one by name; a reload passes over a job it
\* cannot load.
ReadToml(i) ==
  /\ i \in reader.todo /\ reader.at = NoId
  /\ \A j \in reader.todo : i <= j
  /\ reader' = IF toml[i] = Absent /\ reader.doing = "reload"
               THEN [reader EXCEPT !.todo = @ \ {i}]
               ELSE [reader EXCEPT !.at = i, !.toml = toml[i],
                               !.lists = reader.doing = "backup" /\ secrets[i] # Absent]
  /\ UNCHANGED <<store, exported, op, view, snapshot, history, bounds>>

\* Mutant of ReadSecrets: one job that cannot be loaded ends the reload.
ReadSecretsOfAll ==
  /\ reader.at # NoId
  /\ LET i == reader.at
         next == [reader EXCEPT !.todo = @ \ {i}, !.at = NoId, !.toml = Absent, !.lists = FALSE] IN
     reader' =
       IF secrets[i] = Absent /\ (reader.doing = "reload" \/ reader.lists) THEN NotReading
       ELSE [next EXCEPT !.out[i] = [toml |-> reader.toml, secrets |-> secrets[i]]]
  /\ UNCHANGED <<store, exported, op, view, snapshot, history, bounds>>

\* secrets.env of the same job.  A backup that finds a file it has listed gone
\* fails as a whole.
ReadSecrets ==
  /\ reader.at # NoId
  /\ LET i == reader.at
         next == [reader EXCEPT !.todo = @ \ {i}, !.at = NoId, !.toml = Absent, !.lists = FALSE] IN
     reader' =
       IF reader.doing = "backup" /\ reader.lists /\ secrets[i] = Absent THEN NotReading
       ELSE IF reader.doing = "reload" /\ secrets[i] = Absent THEN next
       ELSE [next EXCEPT !.out[i] = [toml |-> reader.toml, secrets |-> secrets[i]]]
  /\ UNCHANGED <<store, exported, op, view, snapshot, history, bounds>>

EndReading ==
  /\ reader.doing \in {"reload", "backup"} /\ reader.todo = {}
  /\ IF reader.doing = "reload" THEN view' = reader.out /\ UNCHANGED snapshot
     ELSE snapshot' = reader.out /\ UNCHANGED view
  /\ reader' = NotReading
  /\ UNCHANGED <<store, exported, op, history, bounds>>

\* A run of a job the daemon has loaded makes its log directory.
RunStarts(i) ==
  /\ view[i] # NoPair
  /\ i \notin dir
  /\ dir' = dir \cup {i}
  /\ broken' = broken \cup {i}
  /\ UNCHANGED <<toml, secrets, exported, op, daemon, torn, cut, mixed, bounds>>

\* Settings, Restart Daemon, for a daemon that was left stopped.
RestartDaemon ==
  /\ reader.doing = "down"
  /\ reader' = NotReading
  /\ UNCHANGED <<store, exported, op, view, snapshot, history, bounds>>

Reads == BeginReload \/ (\E i \in Id : ReadToml(i)) \/ ReadSecrets \/ EndReading

Next ==
  \/ \E p \in Session, i \in Id : Command(p, i)
  \/ \E p \in Session : Steps(p)
  \/ Reads \/ BeginBackup \/ ConfigBackup
  \/ \E i \in Id : RunStarts(i)
  \/ RestartDaemon

\* The reload ticker never stops; nobody hurries an operator.
Spec == Init /\ [][Next]_vars /\ WF_vars(Reads)

-----------------------------------------------------------------------------
(***************************************************************************)
(* Properties.                                                             *)
(***************************************************************************)

\* A job that can be loaded has its own secrets or none, never those of
\* another job: at every step of every command and after every crash, unless
\* a restore left it torn, or its ID was given to what an export that stopped
\* between its two files left over another job's.
NeverAnothersSecrets ==
  \A i \in Id \ (torn \cup mixed) :
    Loadable(i) => Whole([toml |-> toml[i], secrets |-> secrets[i]])

\* The code does not keep this when a process is killed or a file cannot be
\* written: an export to a directory used before, stopped between its files,
\* leaves one job's settings with another's secrets, and jobs.Import takes
\* them for a job.
AlwaysWhole == \A i \in Id : Loadable(i) => Whole([toml |-> toml[i], secrets |-> secrets[i]])

\* A directory that keeps its ID from being used, because it is neither a job
\* nor free, stems from a crash, a failed mkdir or removal, a late run or a
\* restore: a write that fails never leaves one.
OnlyBrokenIdsStick ==
  \A i \in dir \ (broken \cup torn) : (\A p \in Session : op[p].id # i) => Loadable(i)

OnDisk == [i \in Id |-> IF Loadable(i) THEN [toml |-> toml[i], secrets |-> secrets[i]] ELSE NoPair]

\* Once the operators leave the job files alone, a daemon that is up has
\* loaded every job that can be loaded, as it is on disk, whatever a crash
\* left in other directories.
DaemonFollowsDisk == <>[](reader.doing # "down" => view = OnDisk)

\* The code does not keep this: --dr-restore killed after it stopped the
\* daemon (dr_restore.go, steps 4 to 7) leaves the node without one.
DaemonComesBack == []((\A p \in Session : op[p] = Idle) => reader.doing # "down")

\* The code does not keep this: the save of a menu that has waited for its
\* operator undoes what a command saved in the meantime.
SaveKeepsOthers ==
  [][\A p \in Session : op[p].kind = "edit" /\ At(p, "toml") /\ op'[p].pc = "fill toml" =>
       \/ toml[op[p].id] \in {Absent, Blank}
       \/ toml[op[p].id].edit < op[p].pair.toml.edit]_vars
=============================================================================
