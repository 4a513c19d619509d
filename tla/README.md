# LSS Backup CLI: specification and proofs

TLA+ modules for `src/v2`, the Go program that backs up a node with restic or
rsync, runs scheduled jobs in a daemon and reports to a management server.
The v1 shell scripts in the root of the repository are not modelled.

Contents: 1 the system, 2 plan and status, 3 to 10 one section per group of
modules (state and actions, runs, bounds, fairness, proofs), 11 what the code
says and does not do, 12 limits.

## 1. The system

One **daemon** (`daemon.Run`) and any number of short-lived **CLI processes**
(interactive menu `cli.go`, scriptable `api.go`, and the commands the server
runs over its SSH tunnel) work on the same files; there is no server process
on the node and no shared memory between processes. restic, rsync, mount,
systemd and the management server are external.

| Part | State it keeps | Operations | Talks to | Module |
|---|---|---|---|---|
| Audit queue (`audit/`) | `audit.jsonl`, `audit_seq`, `audit_acked_seq`, `audit_chain_head`, flock `audit.lock` | Append, ReadBatch, AckUpTo, trim, migrateLegacy | every command emits; reporting reads and acknowledges | `AuditQueue` |
| Reporting (`reporting/`) | in-process flags (reconcile set, update, secrets, uninstall), `credentials_sent` | build, send, apply the answer | server; audit, dr, sshcreds | `ServerCommands`, `AuditQueue`, `Vault` |
| Scheduler (`daemon/daemon.go`) | scheduled jobs with next run, running job, tickers | fire, finish, reload, heartbeat | runner, reporting, job store | `Scheduler` |
| Runner (`runner/`) | `run.pid`, `progress`, `last_run`, mounts | Run, Restore, StopJob | mount, engines, reporting | `JobRun`, `Engines` |
| Engines (`engines/`) | repositories, mirrored directories, restored files | run, forget, restore, download | restic, rsync | `Engines` |
| Job store (`jobs/`, `config/`) | one directory per job: `job.toml`, `secrets.env`, script; `config.toml` | Create, Import, Export, Delete, load/save | CLI, daemon reload | `JobStore` |
| Settings (`schedule/`, `retention/`, `legacyimport/`, forms of `cli/`) | the content of `job.toml` | choose, convert, edit | scheduler, engines | `Settings` |
| Commands (`cli/`) | none of their own | create, edit, schedule, retention, enable, run, stop, restore, delete, configure | job store, runner, audit, daemon reload | in each of them |
| DR (`dr/`) | `dr_config.enc`, `dr_status.json`, force flag | UpdateConfig, RunBackup, IsDue, restore | server, restic | `ServerCommands`, `JobStore` |
| SSH credentials (`sshcreds/`, `regen_creds.go`) | encrypted credentials, key, `credentials_sent`, OS user | create, regenerate, send, confirm | reporting, OS | `Vault` |
| Configuration backup and recovery (`config_backup.go`, `setup_recover.go`) | restic repository of the node's configuration | back up, restore, recover from DR | job store, audit files | `JobStore` |
| Tunnel (`tunnel/`) | key pair, ssh child | connect, reconnect, register key | server | `NodeLife` |
| Uninstall (`uninstall/`) | manifest, installed files | doUninstall, final heartbeat | daemon, reporting | `NodeLife` |
| Restart, updates and PID lock (`restart_unix.go`, `updatecheck/`, `acquirePIDLock`) | `daemon.pid`, the program | acquire, kill, start, replace | systemd | `NodeLife` |

**What is hard here.** Several processes on one set of files with a single
lock (the audit flock) and no other; writes that are not atomic or not
checked; a daemon that keeps a schedule in memory while CLI processes change
it on disk; heartbeats that are sent from goroutines and processes
independently and answered in any order; jobs that share a mount point;
commands of the server consumed from flags that are cleared before the work
is done; inputs that pass several validators which disagree. `PROJECT.json`
lists each of these hazards at the line where it bites.

**What makes each part correct.** Audit: numbers have no gap, none is used
twice, what is acknowledged is on the server, everything emitted gets there.
Scheduler: an enabled job fires at its times, not twice at once, and
configuration changes take effect without losing a due run. Runner: `run.pid`
tells the truth, a running job keeps its mounts. Credentials: what the server
holds opens the node, and the node's files and users fit together. Reporting:
a command of the server is carried out in the end. Job store: a job has its
own secrets, a failure leaves no unusable ID, the daemon sees what is on disk.
Settings: what is planned and kept is what the operator chose. Engines: a
success is a success, a restore is whole. The node's life: one daemon, which
comes back; the server knows what became of the node.

## 2. Plan and status

| Modules | Runs | Proofs | Section |
|---|---|---|---|
| `AuditDelivery`, `AuditQueue` | `AuditFaults`, `AuditReliable` | `AuditQueueProofs` | 3 |
| `Scheduler` | `SchedSingle`, `SchedPunctual`, `SchedLive` | `SchedulerProofs` | 4 |
| `JobRun` | `RunAlone`, `RunTogether` | `JobRunProofs` | 5 |
| `Vault` | `VaultHeals` | `VaultProofs` | 6 |
| `ServerCommands` | `CommandsMet` | `ServerCommandsProofs` | 7 |
| `JobStore` | `StoreWhole` | `JobStoreProofs` | 8 |
| `Settings`, `Engines` (extends `Settings`) | `JobsRun` | `EnginesProofs` | 9 |
| `NodeLife` | `LifeWhole` | `NodeLifeProofs` | 10 |

Each group has a module `MC...` with the values TLC uses. `AuditQueue`
implements `AuditDelivery` (a refinement, checked and proved); `Engines`
composes the settings with runs, forgetting and restores under them.
`JobStore` contains the daemon's reload and the backups that read the files,
so that the interleavings of sections 4 and 8 meet there.

Every safety property of a run is now also a theorem, some under a condition
that section 12 collects. Next, in this order:

1. `AuditRollback`: counters that move back (a restored configuration backup,
   a power failure that undoes unsynced files), and `migrateLegacy`.
2. Abstract specifications: what a heartbeat promises to the server's commands
   and what the job store promises to the scheduler (a file is a version
   somebody saved), with the refinements and their proofs.
3. Proofs of what the conditions leave open: which exemptions a property needs
   when two commands replace the credentials, or two runs share a mount.

## 3. The audit queue

### State and actions

`AuditQueue.tla` is `audit/queue.go` with the part of `reporting/` that ships
the events. The files are variables (`log`, `seqFile`, `ackedFile`,
`chainHead`), `torn` says that the last line of `audit.jsonl` has no newline.
`Append` is one action per file operation, because a process may die between
any two and each may fail:

| Code (`queue.go`) | Action |
|---|---|
| 127-172 lock, read counter and head, build the event | `BeginAppend` |
| 174-186 write and fsync the line | `WriteLine`, `ShortWrite`, `AbortAppend` |
| 191 `audit_seq` | `CommitSeq`, `AbortAppend` |
| 194-196 `audit_chain_head` | `CommitChainHead`, `LoseChainHead` |
| 199, 293-354 trim, return, unlock | `FinishAppend`, `TrimFails`, `TrimCutShort` |
| a process dies | `Crash` |
| 216-257 `ReadBatch`, without the flock | `BeginReport` reads the mark, `ReadBatch` the log |
| 263-282 `AckUpTo` from `http.go` 150-156 | `AckUpTo` |
| `emit.go` 26-35, `cli.go` 2895-2920 | `Restart`, `ConfigureConsole` |

The content of an event is a number that differs for every call; the HMAC is
the number of the event it was chained to. The server is external and is what
the comments say of it: it keeps the first event under a number, and
acknowledges the end of its gapless run, up to the first break of the chain
when it verifies the chain. `ReadBatch` takes the process's mutex only; the
model lets it run at any time, which includes the cases the mutex excludes.

`AuditDelivery.tla` is the promise: numbers are issued one by one, the server
stores issued numbers, the acknowledged mark moves forward to a number up to
which everything is stored. `AuditQueue!DeliverySpec` is that specification
under the refinement mapping `issued <- Issued`, `stored <-` the numbers the
server holds, `acked <- ackedFile`.

### Runs

| Run | Question | Result |
|---|---|---|
| `AuditFaults` | two processes, every disk fault and crashes, lost, late and reordered heartbeats: is there ever a silent gap, is the mark always covered, is the queue an implementation of the promise? | no gap, covered, yes |
| `AuditReliable` | no crash and no disk fault, lossy network, console configured late: does everything arrive, in one chain? | yes |

`AckedMeansDelivered` and `ChainLinked` hold without crashes only (section 11).

**Bounds.** Two processes are enough for every race on the lock; three
events with a cap of two or three lines and a trim to one or two reach
trims before and after acknowledgements; a batch cap of one or two makes the
backlog span heartbeats;
two messages at once reorder; one or two faults of each kind place a fault at
every step. **Fairness** (`FairSpec`): an `Append` that holds the lock runs
on; the daemon's five-minute ticker sends heartbeats for ever
(`daemon.go`, heartbeat ticker), and among infinitely many some get through.
Nobody has to append, fail or restart. `CHECK_DEADLOCK FALSE`: when the
bounded number of events is appended the model may stop.

### Proofs

`AuditQueueProofs.tla` proves, for all processes, caps, bounds and fault
budgets: `QueueInvariant` (`Spec => []IInv`), hence `TypeCorrect`, `GapFree`
(`NoSilentGap`) and `AckSound` (`AckedIsHeld`), and `Implements`
(`Spec => DeliverySpec`). None of the three safety properties is inductive:
`IInv` adds that exactly the lock's holder is inside `Append` (`LockInv`),
how its event relates to the counter and the end of the file in each stage
(`AppendInv`), that everything on the wire and on the server was once a line
with a number at most one ahead of the counter (`WrittenInv`), and that every
acknowledgement under way is covered by what the server holds (`WireInv`).
The proof has one lemma per group of actions and uses only the assumptions
on the constants.

What holds only while less goes wrong has its condition in the theorem:

- `DeliveredAsAcked` (`AckedMeansDelivered`) and `NumbersAreUnique`
  (`SeqNeverReused`) for `AppendsSucceed`: no `Append` dies, gets an error or
  is written short; the network, the keys and even trims that are cut short
  may do what they like. `AckedIsHeld` speaks of numbers; `NumberInv` makes a
  number an event: only the holder of the lock has one that is ahead of the
  counter, and an event whose `Append` succeeded shares its number with no
  line, not even with one that a torn line has swallowed.
- `ChainUnbroken` (`ChainLinked`) for `FaultFree`: nothing fails. `HeadInv`
  says when the saved head is the last line: not between the write of a line
  and that of the head, which is why a crash there forks the chain. Processes
  that still have no key, or an old one, and trims do no harm.

Liveness (`EventuallyShipped`) is model-checked.

## 4. The scheduler

### State and actions

`Scheduler.tla` is `loop` in `daemon/daemon.go` with the goroutines it
starts and the `job.toml` files that other processes rewrite.

| Code (`daemon.go`) | Action |
|---|---|
| 235-277 the timer of the earliest job | `Fire`, `Skip` |
| 208-226, 309-358 `reloadTicker` | `ReloadTick` |
| 228-233 trigger file, SIGHUP | `ReloadOnDemand` |
| 279-281 `jobDoneCh` | `JobDone` |
| 195-206, 504-629 a heartbeat that works in the loop | `Wait`, `EndWait` |
| 250-266 the goroutine of a run | `RunEnds`, `SendDone` |
| 46-145, 284-307 process start, `buildSchedule` | `Start`, `Exit` |
| 147-163 the update or DR backup the first heartbeat asks for, then the ticker | `EndStart` |
| `job.go` 121-132, `reload.go`, `store.go` 137-143 | `BeginSave`, `EndSave`, `LoseSave`, `Delete` |

A cron expression is the set of positions of a cyclic clock at which it
fires; an entry of the schedule holds the ticks to `nextRun`, 0 when it is due
or overdue. An idle loop serves what is ready before the clock moves; a
waiting one does not, so jobs get overdue; and a starting one, which has read the
schedule and not made its ticker yet, serves nothing either. Several ready branches are taken
in any order, as `select` does. The heartbeat ticker itself is left out: a
heartbeat may come at any time. `nextFile` is `next_run.json` as a position
of the clock. Failing writes of it, and the report a goroutine builds from
the loop's slice, are left out.

### Runs

| Run | Question | Result |
|---|---|---|
| `SchedSingle` | one job, edited, half written, deleted; waits, at the start too, restart: does the schedule follow the disk, is a next run the first time of its schedule, does one job overlap itself? | yes, yes, no |
| `SchedPunctual` | two jobs, reloads between the times, no waits: is every due run started, or skipped for a run that is under way? | yes |
| `SchedLive` | two jobs due together, runs that may outlast their period and overlap: does each run for ever, and do the goroutines get rid of their messages? | yes |

`NoOverlap` holds for one job only and `DueRunsFire` for a loop without waits
(section 11). `EditsApplied` counts from the first tick of the ticker: while the
daemon begins with an update or a backup, an edit waits for it and then for a
whole interval (`EditsAppliedAtOnce`, section 11). `EveryRunIsOver` allows runs
that never all end, each overtaken by the next: then messages go on being sent.

**Bounds.** A clock of four (three in `SchedLive`) ticks with a reload every two or three puts
reloads before, on and after the times jobs fire; two jobs are what it takes
to confuse one `runningJobID` and to fill `jobDoneCh`; two edits and one restart allow an edit while
another is lost or while the daemon is down; `MaxRuns` two lets a job overlap
itself. **Fairness**: `select` picks among ready branches at random, so a
branch that is ready again and again is taken (SF); handlers return, runs end,
a file that is being written gets written, time passes, and the service
manager restarts the daemon (`Restart=always` in `install-cli.sh`). Edits,
exits and heartbeats need not happen.

### Proofs

`SchedulerProofs.tla` proves, for all jobs, expressions, times, clocks, reload
intervals and bounds: `SchedulerInvariant` (`Spec => []IInv`) and from it
`TypeCorrect`, `NextRunsAreNext`, `NextFilesAgree`, `SkipsAreJustified`
(`SkippedOnlyWhenRunning`) and `EditsReachTheSchedule` (`EditsApplied`). The
invariant is needed because none of these sees the whole picture: a next run
stays the first time of its expression only if time passes by one tick for
the clock, the entry and `next_run.json` together (`Timely`); an edit reaches
the schedule in time only if its age and the ticks to the next reload never
add up to more than an interval once the ticker has ticked (`Applied`), which `EditsApplied` reads off
where the age is at its bound. The proof has one lemma per action, on top of
lemmas about the cyclic clock (the smallest distance to a set of positions
exists and is met after exactly that many ticks). The assumptions are those on
the constants.

Two more theorems have a condition. `SingleJobNeverOverlaps` (`NoOverlap`) is
about a node with one job: `RunningIsKnown` keeps `runningJobID` at that job
from the start of its goroutine until its message is taken; with two jobs the
message of one clears the other. `OnlyReloadsDropRuns` (`DueRunsFire`) is about
behaviours in which no reload is ready while a run is due (`ReloadsOffBeat`):
whatever else happens, waits, edits and skips included, a due run is started or
skipped for one that is not over, so that a reload is all that can drop it.
Liveness is model-checked.

## 5. Runs of a job

### State and actions

`JobRun.tla` is one job with a network destination and possibly a network
source, and everybody who works on it: runs of the daemon, runs, restores and
repository commands of CLI processes, and `job stop`. `stage` is how far an
activity is in `Run` (`runner.go` 31-138), `Restore` (140-184) or a command
around `mountIfNeededForRepo` (`cli.go` 2773-2805); `mounts` counts the shares
stacked on a mount point.

| Code | Action |
|---|---|
| `runner.go` 186-224 | guard of `DaemonRun`, `CliStarts`; `Refuse` |
| `mount_unix.go` 15-25, 27-56 | `CheckMounted`, then `MountShare` or `MountFails` |
| `runner.go` 62-84, `runpid.go` 33-43 | `WriteRunPID`, `EngineReturns`, `RemoveRunPID` |
| `mount_unix.go` 58-77 | `Unmount` |
| `runpid.go` 94-135 | `StopReads`, `StopChecks`, `StopSignals`, `StopSeesEnd`, `StopGivesUp` |
| a process dies, a signal is handled | `Kill`, `Terminates` |

Looking for the mount and mounting are two steps; looking and unmounting are
one, because nothing happens when the look is out of date. Mounting,
unmounting and writing `run.pid` may fail for any reason; the code goes on after
the latter two with a warning or nothing, the share stays, and the file may be
missing, or emptied. An umount that meets an engine at work fails as well
(`Busy`). `left` is a history variable: what was mounted or written when a
process died or an umount failed, until something releases it. That the list of
mounts cannot be read, or `run.pid` not be removed, is left out, and so are the
engines' children, `last_run.json` and `run_progress.json`. This is the
Linux code; on Windows nothing is mounted on a directory.

### Runs

| Run | Question | Result |
|---|---|---|
| `RunAlone` | one activity at a time, both ends on shares, failing mounts, unmounts and writes, dying processes: does the engine have its shares, is none mounted twice, is everything released that was not left by a death or a failed unmount? | yes |
| `RunTogether` | two activities and stops, the destination on a share, the same failures: is a job that is shown as running being run? | yes, unless process IDs are used again |

**Bounds.** Two activities and the daemon are three processes; one killed
process and two failures put the faults at every step; `RunAlone` has two
kills and two failures, so that a run can meet the leftovers of two and fail
over them itself. Nothing here is a liveness
property: no fairness is assumed.

### Proofs

`JobRunProofs.tla` proves `TypeCorrect` without conditions, and

- `RunningIsRunning`: while process IDs are not used again (`~ReusePids`), a
  job that `run.pid` shows as running is being run by that process, for any
  number of activities, processes, stops and kills. `PidInvariant` is the invariant
  behind it; `PidInv` says which activity the file names: one between `WriteRunPID` and `RemoveRunPID`
  (`Recorded`), unless the process is dead. It stands because whoever removes
  the file removes it whoever wrote it: the file may be missing, never wrong.
- `AloneIsMounted` (`MountedWhileRunning`), `AloneIsMountedOnce`
  (`MountedOnce`) and `AloneIsReleased` (`Released`): a job that is not stopped
  (`~MayStop`) and whose activities follow one another (one slot), whatever is
  killed and whichever mounts, unmounts and writes fail. They follow from
  `AloneInvariant`: `AloneInv` relates the stage to what it holds (`Orderly`):
  which shares are mounted between which stages, when `run.pid` names the
  activity, and that what else is mounted or written is in `left`. The proof
  puts the invariant into a table of stages (`OrderlyTable`) and goes through
  the steps of a run.

That a run can be found through `run.pid` (`RunDetected`) is not among them: the
code ignores the error of the write, and the configurations `RunOverlap` and
`RunStops` refute it even without one.

Both conditions are necessary: without them the configurations `RunUnmounted`,
`RunOverlap` and `RunStops` of section 11 refute the properties.

## 6. SSH credentials

### State and actions

`Vault.tla` is the user the server logs in with: `ssh-credentials.enc`
(`file`), its key (`encKey`), the flag `credentials_sent`, the `lss_*` users of
the system, and the server's `vault`. A user and his password are one number,
and so is an encryption password; `Opens` says which key opens which file.

| Code | Action |
|---|---|
| `regen_creds.go` 14-53, `setup_auto.go` 44-71, `cli.go` 2927-2998 | `Regenerate`, `Setup`, `Wizard` begin a command; its steps follow in its own order |
| `create_linux.go`, `cleanup.go` | `DeleteUser`, `CreateUser`, `CreateUserFails`, `CleanupOldUsers` |
| `sshcreds.go` 85-127 | `Save`, `WriteCutShort`, `SaveEncKey`, `Remove` |
| `credentials.go` 14-18 | `ClearCredentialsSent` |
| `cli.go` 2999-3037 | `Mismatch`, `Dies` |
| `credentials.go` 31-68 | `LoadPendingCredentials` reads the two files, `SendHeartbeat` reads them again for the hash |
| `http.go` 113-148, 205-215 | `Lose`, `ApplyAnswer` |

The server is external: it keeps the credentials it gets and confirms them,
and asks for them again when its vault is empty or, with `ServerChecksHash`,
when the hash in a heartbeat is not that of what it holds.

### Run

`VaultHeals`: commands that are cut short at any step race with heartbeats
whose answers come late or never. Does a command that completes leave the node
consistent (`AtRest`), does the vault only ever hold a user with the key that
belongs to him (`VaultHeldTogether`), and does it end up with what the node
has (`VaultCatchesUp`)? Yes.

**Bounds.** One command at a time, two heartbeats, two credentials created, one
interruption, one loss, one emptied vault: a late confirmation of the first
credentials meets the flag that the second ones have cleared, which is the
shortest way to lose credentials. **Fairness.** The daemon goes on sending
heartbeats and those that are not lost are answered; nothing is assumed of
commands. With two commands at a time, and with a server that does not compare
hashes, the properties fail (section 11).

### Proofs

`VaultProofs.tla` proves, for any number of connections, credentials,
interruptions and losses: `TypeCorrect`, and `HeldTogether`
(`VaultHeldTogether`) for any number of commands, too. The vault is at the end
of a chain that starts with the two files: `HeldInv` says that what lies in
the file, in the heartbeat under construction and on the wire has been saved as
a whole. `CompletedMeansWhole` (`AtRest`) is about commands that follow one another
(`OneCommand`; section 11 refutes it for two). `AtRest` says nothing while a
command is under way, so it is not inductive; `RestInv` adds, for each step of
each command, what the ones before it have left (`Progress`): from which step
on the new user exists, the file holds the new credentials and the key is
theirs.

## 7. Commands of the server

### State and actions

`ServerCommands.tla` is what the server asks for and how the daemon does it:
updates, exports of secrets, sizes of repositories, an uninstall with or
without the data, settings for DR backups. Answers of heartbeats set flags
in memory (`pending`); the next tick consumes them.

| Code | Action |
|---|---|
| `daemon.go` 195-206 | `Tick`, in the order of the code: |
| 605-629, `dr/backup.go`, `dr.go` 118-141 | `BeginDRBackup`, `EndDRBackup` |
| 504-552 | `SkipUpdate`, `RemoteUpdate` |
| 559-576, `nodeexport` | `ExportSecrets` |
| 578-603 | `MaybeUninstall` |
| 419-498, 631-658 | `FireReport` (`Report`, `RepoSizes`) |
| 128-133, 660-702, `cli.go` 2807-2829 | `OnConnected`, `SendInitialHeartbeat`, `FireImmediateReport` with `MenuApplies` |
| `http.go` 158-203, `dr.go` 82-98 | `ApplyAnswer` with `TakeSettings`, `UpdateConfig` |
| `dr.go` 67-80, `cli.go` 2831-2925, `dr_now.go` | `DaemonStarts`, `ConfigureConsole`, `DRNow` |
| the process ends | `Ends` in `RemoteUpdate`, `MaybeUninstall`, `Crash` |

External: the server repeats a request until a heartbeat shows the effect. Its
DR settings are in an answer when they have changed since the last answer that
had them, and perhaps otherwise: "Omitted when unchanged" (`reporter.go` 24-26)
is a permission to leave them out (`Answers`). The network is a set of messages:
equal ones count once, and any may arrive next. A CLI command sends heartbeats
too, whose answers set flags in a process that ends: its requests are swallowed.
A menu that has run a DR backup has a DR manager of its own, made from
`dr_config.enc` (`dr_now.go` 18), which takes over the settings of the answers to
its own heartbeats and writes them under the daemon's manager (`MenuApplies`).

### Run

`CommandsMet`: heartbeats are lost and reordered, the daemon ends in the middle
of a tick, the console's settings change, a menu writes DR settings. Is every
request met in the end (`RequestsAreMet`)? Are DR settings that the daemon takes
over tried without waiting for the interval, also those that arrive while a backup
runs (`ChangesAreTried`)? Does a restart read the settings that the daemon's
manager uses (`DROnDisk`, unless a menu has written there since), and is data
destroyed only where the server asked for that (`DestroyedOnRequest`)? Yes. That the
daemon ends up with the settings the server wants is not among them: see
`DRFollowsServer` in section 11.

**Bounds.** Two heartbeats under way (`MaxConn`), two requests or changes of the
settings, one fault (an end of the daemon, a change of the console, a menu with a
DR manager, a loss, an update, an uninstall, a statistic or a write that fails).
`OnConnected` leaves one of the heartbeats to the loop.
**Fairness.** The service manager restarts the daemon (also after an uninstall
that failed and ended with `os.Exit(0)`: the unit says `Restart=always`), its loop
goes on, and the network goes on: a message may be overtaken for ever by others,
but not the kind that shows what is done. Nothing is assumed of `TimePasses`: the
interval may be longer than anyone waits. Excused and named in the module: a
daemon that starts reads the settings and has forgotten that it should back up at
once (`read`), a menu that writes under the daemon (`foreign`), and a daemon that
was started before the console was configured, which has no DR manager until it is
restarted (`mgr.there`).

Left out: the heartbeat that the loop sends after the machine slept (`daemon.go`
212-222), which is one more of the same kind; and two processes that write
`dr_config.enc.tmp` at the same moment.

### Proofs

`ServerCommandsProofs.tla` proves, for any settings, requests, connections and
faults: `TypeCorrect`, `ManagerOnDisk` (`DROnDisk`, a menu's writes included) and `UninstalledAsAsked`
(`DestroyedOnRequest`). The second is inductive only together with where a
request may be (`UninstallInv`): with the server, in an answer on the wire or
among the daemon's flags, each of which the server has asked for at some time;
no step makes "destroy" of "keep". The two liveness properties are
model-checked.

## 8. The job store

### State and actions

`JobStore.tla` is `jobs/store.go` with the commands, menus, backups and
restores that use it, file operation by file operation: the directory of a job,
`job.toml`, `secrets.env`. The content of a file is the creation it stems from
and, for `job.toml`, the number of edits; `Blank` is a file that has been
truncated and not yet written.

| Code | Action |
|---|---|
| `store.go` 203-231, 145-171, `api.go`, `cli.go` | `ApiCreate`, `CreateWizard`, `ImportLegacy`, `ImportV2` |
| `store.go` 128-135; the nine callers that load, change and save | `ApiEdit` ... `ConfigureRetention` |
| `store.go` 137-143 | `ApiDelete`, `RemoveJob`; `RemoveFile`, `RemoveDir` |
| `store.go` 173-194, 331-358, `job.go` 121-132 | `MakeDir`, `OpenToml`, `FillToml`, `OpenSecrets`, `FillSecrets`, `WriteScript` |
| `store.go` 360-398 | `OpenExport`, `FillExport`, `ExportFails` |
| `store.go` 226-280, `config_backup.go` 347-380, `setup_recover.go` 219-242 | `WriteFails` with `CleanUp`, `DirectoryFails`, `CopyFails`; `Crash` |
| `config_backup.go` 105-171, `setup_recover.go` 190-213, `dr_restore.go` 21-81 | `ConfigRestore`, `Recover`, `DRRestore`, job by job |
| `daemon.go` 225-345, `dr/backup.go` 25-202 | `BeginReload`, `BeginBackup`, `ConfigBackup`, `ReadToml`, `ReadSecrets`, `EndReading` |
| `runner.go` 301-317 | `RunStarts` makes the directory of a deleted job again |

An export writes `job.toml` and then `secrets.env`, and may fail or be killed
before, in and after either; the directory may be one that was used before, and at
the start it may hold an earlier export. An import takes whatever files it finds
there, as `jobs.Import` does, and fails when one is missing. What then goes wrong is
in history variables: `cut` says that the export's two files are not of one job,
`mixed` has the IDs that such an export was imported to.

### Run

`StoreWhole`: one session at a time, while the daemon reloads and backs up; a
write fails or a process is killed between any two writes. Does a job ever have
another's secrets (`NeverAnothersSecrets`)? Does a failed write leave an ID that
can neither be used nor created (`OnlyBrokenIdsStick`)? Does the daemon end with
the jobs on disk (`DaemonFollowsDisk`)? No, no, yes. The exemptions are
variables: `broken` (crashes, failed removals, late runs), `torn` (a restore that
was cut short between a job's two files) and `mixed` (the import of an export that
was). Section 11 has what happens in the last (`StoreCutExport`).

**Bounds.** Two IDs, so that a listing and a reading see different jobs; two
creations, so that an ID is used again; three commands and one fault.
**Fairness.** Only the reload's ticker and its reading; no command has to end.
One reader works at a time.

### Proofs

`JobStoreProofs.tla` proves `TypeCorrect` for all constants and, for any IDs, any
number of sessions, creations, commands and faults, as long as no two sessions
work on one job at a time (`~Overlap`; sessions on different jobs interleave
freely, but of exports and imports, which share a directory, one lasts at a time):
`SecretsStayWithTheirJob` (`NeverAnothersSecrets`) and `FailedWritesLeaveNoId`
(`OnlyBrokenIdsStick`). Both follow from `StoreInvariant`: `StoreInv` says what each
file of a job may hold at each step of the command that works on it (`Progress`),
and that a job nobody works on is free or whole unless it is listed as `broken`,
`torn` or `mixed`; `ShareInv` says the same of the export. One lemma, `Frame`,
carries the jobs and sessions that a step does not touch, so that each action is
proved for its own job only. `WholeUndisturbed` says what is needed for no
exemption at all: without restores, failures and kills, every job that can be
loaded has its own secrets (`AlwaysWhole`), whatever is created, imported, edited,
exported and deleted.

## 9. Settings and engines

### State and actions

`Settings.tla` follows the inputs of a job to `job.toml`: what each of the
wizard, the scriptable commands, the v1 and the v2 import accepts
(`PromptSchedule`, `BuildSchedule`, `ConvertSchedule`, `PromptRetention`,
`BuildRetention`, `ConvertRetention`), what it becomes (`ToCronExpression`,
`ForgetFlags`), and what it says it is (`Meant`, `Describes`). A cron field is a
set of tokens; a schedule means a set of days and times on a calendar, a policy
a set of snapshots that stay. The library that plans (`ParseStandard`) and what
restic keeps under a flag (`Forgets`) are external. The second half of the
module has one action per command that creates or changes a job: the doors
`CreateWizard`, `ApiCreate`, `ImportLegacy`, `ImportRenamed`, the menus
`Configure...`, the commands `Api...`, the edit wizard `Reconfigure`, `DeleteJob`.

`Engines.tla` extends it with the repository of each place (disk, share,
bucket), the directory that rsync fills, the directory of a restore, the job's
source path, and `last_run.json`. A run is three steps, and it may be killed
between them: the engine backs up, restic forgets, the result is written. Forgetting
may fail when it has removed a part (`RunForget`), and writing the result may fail,
which is a warning in the code: the earlier result stays, or a cut one
(`WriteLastRun`). Of snapshots whose run did not get to tell of them `untold` keeps
the numbers. A snapshot has the path it was taken under, and a restore moves up what
lies below the path that the job has *now* (`FlattenResticRestore`).

| Code | Action |
|---|---|
| `engines.go` 67-129, `runner.go` 79-125 | `RunRestic`; `DryRun` |
| `engines.go` 131-135, 157-175 | `Forget` with `RunForget` |
| `runner.go` 126-133, `result.go` 94-108 | `WriteLastRun`; `Killed` |
| `cli.go` 679-688, `api.go` 470-473 | `EditSource` |
| `engines.go` 426-495 | `RunRsync` |
| `engines.go` 177-269, `cli.go` 3144-3260 | `RestoreRestic` with `FlattenResticRestore` and `Listed` |
| `engines.go` 506-527 | `RestoreRsync` |
| `cli.go` 2564-2771 | `DownloadZip` |
| the machine | `SourceChanges`, `DayPasses` |

### Run

`JobsRun` asks five questions of every reachable job. Is it planned for the
times that were chosen (`ScheduledAsChosen`)? Does its repository hold what its
policy describes (`PrunedAsDescribed`, over all sets of seven snapshots of up to
ten weeks)? Does a job from the wizard have the passwords its settings need,
whatever is edited (`PasswordsSuffice`)? Are the files of a run that
`last_run.json` calls a success where it put them, or is there a newer snapshot
whose run could not tell of it, in spite of forgetting, dry runs, kills, failed
writes and edits (`SuccessIsInPlace`)? Is a restore that reports success whole,
although moving the files up may stop half way or meet files of an earlier
restore (`RestoredWhole`)? Yes; the exemptions are part of the properties
(weekdays 7, capitals and clocks beyond 23:59; a window without tiers; settings
lost by going back; a program that was changed to restic; a snapshot that a run
forgot before it was killed or failed to tell of itself; an entry named like its
path's first component; a job set to a directory in the one that the snapshot was
taken of), and section 11 has what happens in them.

**Bounds.** The values are in `MCEngines`: days of a long and a short month on
which all kinds of schedule differ, expressions of each form, counts around
zero, durations of each unit, two edits, two snapshots on two days, two files of
which one bears the name of the path and the other is the directory that the path
may be set to. `Runs` restricts the jobs that run to two
policies, a manual schedule and a local source, because nothing in a run
depends on the rest; a job that has run stays one that does; days pass where the
retention counts them; after the first restore only restores follow. One run lasts
at a time (overlapping runs are section 5), and settings are edited before or after
it: a run works on the copy it has read, so that an edit in its middle does nothing to
it. A deletion in the middle of a run is left out. Nothing here is a liveness property.

What a failed restore leaves behind is not modelled: it says that it failed.
A share is mounted for the length of a run (mounts are section 5).

### Proofs

`EnginesProofs.tla` proves the five properties for all inputs, tiers, calendars,
files and bounds: `PlannedAsChosen`, `PrunesAsDescribed`, `PasswordsStay`,
`SuccessStays` and `RestoresWhole`, from `EnginesInvariant` (`TypeCorrect` with
it). What is assumed are the named assumptions on the constants: clocks, lists of
days, counts and durations are made of integers, as the parsers deliver them,
and days have a date and a weekday (`InputAssumption`); snapshots are numbered
in the order in which they were taken (`TakenAssumption`); weekdays are written
with integers, and a shorthand stands for weekdays the library takes
(`CronAssumption`).

- *Settings.* `SettingsInv` says which door lets in which program, schedule and
  policy. Behind it are two lemmas about the operators: `PlannedAsMeant`
  (every schedule is planned for what it says, or is one of those that
  `Misplanned` names), kind by kind; and `AsDescribedUnlessWindow` (what
  `ForgetFlags` makes restic keep is what `Describe` promises, for every set of
  snapshots). The latter needs that restic's newest-of-each-period selection
  keeps one snapshot of each of the last n periods of a tier (`TierKeeps`).
- *Engines.* `SuccessIsInPlace` is not inductive: a dry run, a later policy or a
  run that is killed afterwards forgets snapshots, and could forget the last success.
  `LastRunInv` says that the *newest* snapshot of its place is its own or one that no
  result tells of, `RunInv` that what a run is about to tell is the newest of its
  place, and `ForgetsKeepsNewest` that no policy which forgets at all forgets the
  newest, wherever it is cut off.
  `RestoredWhole` rests on `Flattened`: whichever part of the moves fails or
  is blocked, a file is at the top or still in the path below it; with an edited
  path the only loss is the one that `Narrowed` names.

The proof of `PlannedAsMeant` found an expression for which meaning and plan
differed in the model: an open step on the weekdays (`1/2`), where the library
counts up to 6. `Meant` now says so, and `MCEngines` has such an expression.

## 10. The node's life

### State and actions

`NodeLife.tla` is the daemon's process: starts by the service manager and by
hand, `daemon.pid`, restarts, updates, the tunnel's key pair, and the
uninstaller. Each process ID has a place in `Run` (`exec`, `locking`, past the
lock), the program it runs, and its tunnel manager.

| Code | Action |
|---|---|
| `daemon.go` 715-767 | `AcquirePIDLock`, `WritePIDLock` (two steps), `PidIsAlive` |
| `tunnel.go` 257-306, `daemon.go` 102-136 | `LoadKey`, `GenerateKey`, `WritePublicKey`, `KeyFails`; `SendInitialHeartbeat` registers the key |
| `daemon.go` 451-470, `tunnel.go` 93-255 | `Heartbeat`, `Connect`, `ConnectionLost` |
| `cli.go` 359-520, `daemon.go` 500-552, `check.go` 42-174, `replace_unix.go` | `BeginUpdate`, `ReplaceBinary` (a rename, or a copy that ends in `CopyEnds`), `CommandKilled` |
| `restart_unix.go` 16-110 | `KillAllDaemons`, `RemoveStaleLock`, `Restart`, `ExitForUpdate` |
| `status_unix.go` 28-48, `daemon.go` 769-772 | `StopService`, `StartService`, `HandStops` |
| `uninstall.go` 33-113, `stopservice_unix.go` 17-49 | `BeginUninstall`, `StopDaemonService`, `UnregisterDaemonService` |
| `uninstall.go` 137-184, 355-375, `hb.go` 26-63 | `DestroyLocalBackupData`, `SendUninstallCompleteHB`, `RemoveInstalledData` |
| the machine, systemd | `ServiceStarts`, `Crash`, `PowerLoss`, `Reuse`, `StopDeadline`, `RunWrites` |

A daemon that carries out an uninstall stops its own service, ignores the
SIGTERM and goes on until systemd's timeout kills it (`StopDeadline`). A copy of
the program across file systems may be cut short. The uninstaller looks at few
errors: `systemctl stop`, `disable` and the removal of the unit may fail
(`StopDaemonService`, `UnregisterDaemonService`), jobs that cannot be loaded are
skipped without being counted (`LoadAll`, `store.go` 108-111), while a destination
that cannot be removed and a directory of jobs that cannot be read are reported as
failures (`DestroyLocalBackupData`). Where a unit stays, the model takes it to be
still enabled; one that is disabled starts less often.

`happened` names the accidents that properties exempt: starts that overlap, a PID
that goes to another program while `daemon.pid` has it, a copy that is cut short, a
key pair or key file that was written in part, a lost report, a unit that stays
(`unit`), a job that is skipped (`skipped`), a run that writes to a destination
after it is destroyed (`run`).

### Run

`LifeWhole`: is there one daemon (`OneDaemon`), is no old program left after an
update (`UpdatedMeansAll`), is the server told no more about an uninstall than what
is done, and before the node forgets it (`ServerKnows`), and do the daemon and the
tunnel come back (`DaemonComesBack`, `TunnelComesUp`)? Yes, up to those accidents;
section 11 has what happens in each of them (`LifeCorners`).

**Bounds.** Two PIDs, four key pairs (the model uses the smallest that no file,
process or server has, and never runs out of four), three faults, two commands.
**Fairness.** `Restart=always` in the unit; processes run;
heartbeats and connections are tried again (`tunnel.go` reconnects, the
five-minute ticker); a command that was begun goes on, unless it is killed.
Linux with systemd; one command at a time; the console stays configured. Not
modelled: versions and downloads (they fail or not), the rename of a running
program on Windows, the Task Scheduler, daemons that a menu starts directly,
the backup that the uninstaller offers, managed dependencies.

### Proofs

`NodeLifeProofs.tla` proves, for any number of PIDs, keys, faults and commands:
`LifeInvariant` (`Spec => []LifeInv`) and from it `TypeCorrect`,
`OneDaemonHolds`, `UpdatedHolds` and `ServerKnowsHolds`. `OneDaemon` alone is
not inductive: `LockInv` adds that a daemon past the lock is the one that
`daemon.pid` names and that one about to write it is alone, as long as no
overlap has happened. `ProgramInv` follows an update through its restart: from
the kill on, only what is installed is started. `UninstallInv` says what each
step of the uninstaller has behind it, with the same exemptions as `ServerKnows`. Each action is a step of one of the
lemmas `LockStep`, `ProgramStep`, `UninstallStep`, over lemmas about the shared
helpers (`EndWith`, `Starts`, `Goes`). Liveness is model-checked.

## 11. What the code says and does not do

Next to the runs, `tla/` keeps configurations that ask more than the code
keeps. They are used with the MC module of the component (`MCAuditQueue` for
`Audit...`, `MCScheduler` for `Sched...`, `MCJobRun` for `Run...`, `MCVault`,
`MCServerCommands` for `Commands...`, `MCJobStore` for `Store...`, `MCEngines` for
`Jobs...`, `MCNodeLife` for `Life...`), for
example `tlc -config RunOverlap.cfg MCJobRun`. Each property in them fails;
where a configuration has several, leave one in to see how. They are not runs
of `PROJECT.json`, which keep one question each.

| Configuration | Property | What the code says | What it does |
|---|---|---|---|
| `AuditTornLine` | `AppendIsDurable` | `queue.go:124` "a crash after Append means the event is durably persisted" | after a short write (disk full) the next event continues the unfinished line and is lost although its `Append` succeeded |
| `AuditCrash` | `SeqNeverReused` | `event.go:45` "a per-node monotonic counter that never rewinds or reuses a value" | a crash between `queue.go:182` and `191` leaves the number to the next event |
| | `AckedMeansDelivered` | `queue.go:189` "the event is still safely persisted; worst case is a duplicate seq" | the server keeps the first event under the number; the other is acknowledged with it and never arrives |
| | `ChainLinked` | `hmac.go:12` "forming an append-only chain" | a crash between `queue.go:191` and `195` leaves the old head, and the chain forks |
| `AuditTrimUnacked` | `RemovedOnlyAfterAck` | `payload.go:282` "Events are removed from the queue only after the server ACKs them" | the trim does not look at the acknowledged mark |
| `AuditRotation` | `ChainRestartsOnRotation` | `hmac.go:22` `""` "for the first event after a chain reset / PSK rotation" | a new PSK does not clear `audit_chain_head` |
| `AuditTrimCut` | `TrimKeepsNewest` | `queue.go:291` "keeping the last logTrimTo lines" | write errors are ignored (344-345): a cut copy replaces the log |
| `SchedOverlap` | `NoOverlap` | `daemon.go:170` "used to skip re-triggering a running job" | `runningJobID` holds one job: with two, a running one is started again |
| `SchedLostRun` | `DueRunsFire` | `daemon.go:310` "the existing nextRun is preserved" | of a job that got due while the loop waited, a reload computes a new one: the run is dropped |
| `SchedCorners` | `DisabledNeverFires` | `ADMIN.md:89` "the daemon won't fire them" | after a long wait the old timer may be taken before the reload |
| | `EditsAppliedAtOnce` | `daemon.go:36` job files are read again every 60 seconds | the ticker is made after the update or backup the daemon begins with (158-161): an edit made meanwhile waits for both |
| | `ManualHasNoNextRun` | `result.go:39` nil if the "job has a manual schedule" | nothing removes `next_run.json` |
| `RunOverlap` | `RunDetected` | `runner.go:62` "so running jobs can be detected and stopped" | a second run of the job takes over `run.pid`, and the first to end removes it |
| `RunStops` | `RunDetected` | `runpid.go:39` "removes run.pid ... after completion" | `job stop` removes the file of a run that started since it looked |
| | `StopHitsRunner` | `runpid.go:95` "Returns an error if the job is not running" | a run of the daemon that ends between the look and the signal leaves the daemon to be terminated |
| | `SeenRunningIsRunning` | `runpid.go:81` "verifying the process is alive" | another process with the ID counts |
| `RunUnmounted` | `MountedWhileRunning` | `mount_unix.go:21` "Skip if already mounted." | two activities share a mount, and the one that mounted it unmounts it under the other |
| `RunNetworkSource` | `NetworkSourceRuns` | `mount.go:1` "handles on-demand mounting" | the source is looked for before it is mounted: a job with a network source is refused |
| `VaultTwoCommands` | `AtRest` | a node has one set of credentials | the commands take no lock: two of them leave one's file with the other's user or key |
| `VaultNoHash` | `VaultCatchesUp` | `payload.go:70` sent "until the server responds with credentials_received: true" | a late confirmation of old credentials stops the new ones; only a server that compares hashes asks again |
| `CommandsCorners` | `DRFollowsServer` | `reporter.go:24` "pushed when the server wants this node to start/update DR backups. Omitted when unchanged" | one answer may be all there is: when it is lost, goes to a CLI process or is overtaken by an earlier one, the daemon keeps the earlier settings |
| | `OneDRConfig` | `dr.go:24` "The CLI caches it locally" | a menu's own manager rewrites `dr_config.enc` under the daemon's, which goes on with what it had |
| `StoreOverlap` | `SaveKeepsOthers` | the menus show and change one setting | they save the job as it was when the menu was opened (`cli.go:3314`) and undo what a command saved meanwhile |
| | `NeverAnothersSecrets` | `store.go:222` an ID that is in use is refused | it looks before it makes the directory: two commands that create one ID mix their files |
| `StoreCutExport` | `AlwaysWhole` | `store.go:145` an import makes a job of an exported one | an export that is cut short between its two files (`store.go:363-377`), in a directory that was used before, leaves one job's settings with another's secrets; the import checks neither |
| `StoreDaemonDown` | `DaemonComesBack` | `dr_restore.go:65-81` stops the daemon, restores, starts it | killed in between, it leaves the node without one |
| `JobsCorners` | `AllPlanned` | `cron.go:76` "cron also accepts 7 as Sunday" | the library takes 0 to 6: a job with a 7 is never planned |
| | `AllPrunedAsDescribed` | `retention.go:69,87` "not fully configured" | a window without tiers is called that and prunes all the same |
| | `GoingBackChangesNothing` | `prompt.go:145` "Enter to go back" | in the edit wizard it goes on with an empty value: the schedule becomes manual, the program empty, the job disabled |
| | `RestoreTopName` | `engines.go:221` "On any failure the data is intact at nestedDir" | an entry named like the first component of the path: to make room, the directory it is moved from is removed |
| | `RestoreAfterLoss` | `RUNBOOK.md:111` "I need to restore a single file" | the restore checks that the source exists (`runner.go:218`), and lists the snapshots of a share without mounting it (`cli.go:3175`) |
| | `RestoreAfterEdit` | `engines.go:221` (the same) | what is moved up lies below the path that the job has now (`engines.go:204`): after an edit to a directory in it, the rest of an earlier snapshot is removed with its top component (265-267), and the restore ends well |
| | `ToldIsThere` | the `snapshot_id` in `last_run.json` is that of the last run | a run that is killed after it forgot, or cannot write its result (a warning, `runner.go:127-129`), leaves a success whose snapshot is gone |
| | `DownloadWhole` | the menu downloads the chosen files and directories as a ZIP | what cannot be read is left out, and the download ends well |
| | `SuccessIsOnShare` | a network destination is mounted for a run | a job of type smb or nfs takes any `--dest` (`api.go:353`): beside the mount point, the run succeeds on the local disk |
| | `MirrorExact` | `cli.go:3699` "rsync mirrors the source exactly - deleted source files are removed from the destination on the next run", `ADMIN.md:140` | rsync runs without `--delete` |
| | `DryRunWritesNothing` | `runner.go:68` "no data will be written" | `restic forget --prune` runs all the same |
| `LifeCorners` | `NeverTwoDaemons` | `daemon.go:717` "to prevent multiple daemon instances" | looking at `daemon.pid` and writing it are two steps: starts that overlap both get in |
| | `StaleLockIsOverwritten` | `daemon.go:748` "Stale PID file - process is gone. Overwrite it." | another program with the ID keeps the daemon out |
| | `ProgramIsWhole` | `replace_unix.go:26` "Fall back to sudo mv" | across file systems that is a copy, and a copy that is cut short is what the service starts |
| | `KeyPairHeals` | `tunnel.go:93` "Load or generate the key pair" | a private key whose public half was not written is loaded with an empty one, and the server never learns it |
| | `TunnelSurvivesFullDisk` | (the same) | an error there ends the tunnel's goroutine until the daemon restarts |
| | `ToldIsDone` | `hb.go:17` "No silent data loss, no false-positive DeleteNode()" | a job that cannot be loaded is skipped (`store.go:108-111`): its data stays, and the server is told that it is destroyed |
| | `UnregisteredIsGone` | `uninstall.go:125` "By this point the destructive work (daemon stopped, service unregistered, ...) is done" | the errors of `systemctl` and of removing the unit are ignored (`stopservice_unix.go:21-39`) |
| | `DestroyedStays` | `uninstall.go:112` "Stop the daemon before touching the filesystem" | a backup that works on under another process writes after its destination was destroyed |
| | `UninstallIsTold` | `hb.go:17` "No silent data loss" | a daemon that uninstalls itself stops its own service and is killed by systemd's timeout before it reports |

Further divergences met while reading, without a property of their own:
`MIGRATION_V1_TO_V2.md:125` says that v1's `YES-FULL` becomes `keep-within`,
`legacyimport.go:300-327` makes it tiers, a number of snapshots or nothing; a
duration without a unit counts 0 there, where the comment at 424 promises the
number itself; v1's password of the
destination becomes the source's NFS password; in the import wizard "leave
blank to keep above" cancels; the scriptable `destroy` refuses shares and
buckets, which the menu destroys.

## 12. Limits

**Model-checked only.** Liveness (`EventuallyShipped`, `EveryJobRuns`,
`EveryRunIsOver`, `VaultCatchesUp`, `RequestsAreMet`, `ChangesAreTried`,
`DaemonFollowsDisk`, `DaemonComesBack`, `TunnelComesUp`), because the provers
handle neither fairness nor `ENABLED` here. Everything else that a run checks is
proved.

**Conditions.** These properties are checked on instances, and proved, under a
condition:

| Property | Condition | in the theorem |
|---|---|---|
| `AckedMeansDelivered` | no crash, error or short write in `Append` | `AppendsSucceed` |
| `ChainLinked` | no crash and no disk fault | `FaultFree` |
| `NoOverlap` | one job | `OneJob` |
| `DueRunsFire` | no reload is ready while a run is due | `[]ReloadsOffBeat` |
| `MountedWhileRunning`, `MountedOnce`, `Released` | activities follow one another, no stops | `~MayStop`, one slot |
| `SeenRunningIsRunning` | process IDs are not used again | `~ReusePids` |
| `AtRest` | one command at a time | `OneCommand` |
| `NeverAnothersSecrets`, `OnlyBrokenIdsStick` | no two sessions on one job, or one directory of exports | `~Overlap` |
| `AlwaysWhole` (not in a run) | besides, no restore, failure or kill | `~MayRestore`, `MaxFaults = 0` |

`VaultCatchesUp` is checked with a server that compares hashes. Section 11 has
what happens without these conditions. The exemptions of the other properties
are named in their definitions: `EditsApplied` (until the reload ticker, made after
the startup update and backup, is an interval old), `DROnDisk` and `ChangesAreTried` (`foreign`, `read`), the store's
properties (`broken`, `torn`, `mixed`), `SuccessIsInPlace` and `RestoredWhole`
(`untold`, `Narrowed`), `OneDaemon`, `ServerKnows` and the liveness of `NodeLife`
(`happened`).

Every theorem is about the models: their abstractions are listed with each
module, and restic, rsync, the operating system and the server are taken as
described there.

**Not modelled.**

- The per-job audit log, the activity log and the log cleanup: lines for
  people, which nothing reads back.
- Health checks, hardware information, the user interface and the platform's
  paths: they read and print; the installation of managed dependencies.
- The v1 shell scripts (replaced by `src/v2`), the install and release scripts.
- The variants for Windows and macOS; where Linux differs, the models are the
  Linux code.
- `run_progress.json` and the job section of heartbeats, which show and do not
  steer; the children of the engines, which survive a killed run.
- `migrateLegacy` and audit counters that a restored configuration moves back
  (planned, section 2); the content of `config.toml` in a restore.
- Browsing, making and validating destinations; making and locking
  repositories, which restic does.
