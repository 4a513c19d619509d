------------------------------- MODULE JobRun -------------------------------
(***************************************************************************)
(* One job with a network destination, and perhaps a network source, run,  *)
(* restored, browsed and stopped by several processes: internal/runner,    *)
(* internal/mount and mountIfNeededForRepo.                                *)
(*                                                                         *)
(* The processes share the job's mount points and its run.pid, and no      *)
(* lock.  An activity is a run, a restore or a look into the repository;   *)
(* it belongs to the daemon or to a CLI process of its own.  A process     *)
(* that dies leaves out its deferred calls.  restic and rsync are the      *)
(* stage "engine".                                                         *)
(***************************************************************************)
EXTENDS Naturals, FiniteSets

CONSTANTS
  Slot,             \* room for activities at a time
  Pid,              \* process IDs
  NoPid,            \* run.pid absent, daemon not running
  SourceIsNetwork,  \* whether the source is an SMB or NFS share
  ReusePids,        \* whether a process may get the ID of one that run.pid
                    \* still names
  MayStop,          \* whether `job stop' is used
  MaxKills,         \* bound: processes that die
  MaxFails          \* bound: mounts, unmounts and writes that fail

ASSUME PidAssumption == NoPid \notin Pid
ASSUME FlagAssumption ==
  /\ SourceIsNetwork \in BOOLEAN
  /\ ReusePids \in BOOLEAN
  /\ MayStop \in BOOLEAN
ASSUME BoundAssumption == MaxKills \in Nat /\ MaxFails \in Nat

Role == {"source", "destination"}
Kind == {"run", "restore", "browse"}

\* What an activity should not leave behind.
Leftover == Role \cup {"run.pid"}

\* Where an activity is: an operation and the mount point it concerns.
Idle == <<"idle", "none">>
Engine == <<"engine", "none">>
Stage ==
  {Idle, Engine, <<"write pid", "none">>, <<"remove pid", "none">>}
    \cup ({"check", "mount", "unmount"} \X Role)

VARIABLES
  dir,      \* whether the directory of each mount point exists
  mounts,   \* shares mounted on it, one over the other
  runPid,   \* run.pid
  alive,    \* processes
  termed,   \* processes that got SIGTERM and have not ended yet
  daemon,   \* the daemon's ID
  stage, kind, owner,   \* the activities
  stop,     \* `job stop': its step and the ID it read
  refused,  \* history: a run was refused because its source does not exist
  left,     \* history: what was there when a process died or an unmount failed,
            \* and has not been cleared since
  kills, fails          \* history: counters of the bounds

mountPoints == <<dir, mounts>>
processes == <<alive, termed, daemon>>
activities == <<stage, kind, owner>>
vars == <<mountPoints, runPid, processes, activities, stop, refused, left, kills, fails>>

TypeOK ==
  /\ dir \in [Role -> BOOLEAN]
  /\ mounts \in [Role -> Nat]
  /\ runPid \in Pid \cup {NoPid}
  /\ alive \subseteq Pid
  /\ termed \subseteq alive
  /\ daemon \in alive \cup {NoPid}
  /\ stage \in [Slot -> Stage]
  /\ kind \in [Slot -> Kind]
  /\ owner \in [Slot -> Pid \cup {NoPid}]
  /\ stop \in [step : {"idle", "check", "signal", "wait"}, pid : Pid \cup {NoPid}]
  /\ refused \in BOOLEAN
  /\ left \subseteq Leftover
  /\ kills \in Nat
  /\ fails \in Nat

\* A mount point may be left over from a mount that failed.
Init ==
  /\ dir \in [Role -> BOOLEAN]
  /\ mounts = [r \in Role |-> 0]
  /\ runPid = NoPid
  /\ alive = {}
  /\ termed = {}
  /\ daemon = NoPid
  /\ stage = [s \in Slot |-> Idle]
  /\ kind = [s \in Slot |-> "run"]
  /\ owner = [s \in Slot |-> NoPid]
  /\ stop = [step |-> "idle", pid |-> NoPid]
  /\ refused = FALSE
  /\ left = {}
  /\ kills = 0
  /\ fails = 0

NewPids == Pid \ (alive \cup IF ReusePids THEN {} ELSE {runPid, stop.pid})

GoTo(s, st) == stage' = [stage EXCEPT ![s] = st]

\* The activity returns; the process of a CLI command ends with it.
Return(s) ==
  /\ GoTo(s, Idle)
  /\ IF owner[s] = daemon
     THEN UNCHANGED <<alive, termed>>
     ELSE alive' = alive \ {owner[s]} /\ termed' = termed \ {owner[s]}

Proceed(s, st) == GoTo(s, st) /\ UNCHANGED <<alive, termed>>

\* What is mounted or written now.
Present == {r \in Role : mounts[r] > 0} \cup IF runPid = NoPid THEN {} ELSE {"run.pid"}

\* p ends where it is, with all its activities.
Ends(p) ==
  /\ left' = left \cup Present
  /\ alive' = alive \ {p}
  /\ termed' = termed \ {p}
  /\ daemon' = IF daemon = p THEN NoPid ELSE daemon
  /\ stage' = [s \in Slot |-> IF owner[s] = p THEN Idle ELSE stage[s]]

-----------------------------------------------------------------------------
(***************************************************************************)
(* Run, Restore, mountIfNeeded, mountIfNeededForRepo.                      *)
(***************************************************************************)

MountsSource(k) == k = "run" /\ SourceIsNetwork

\* validateSupportedSlice looks for the source directory before it is mounted.
SourceMissing(k) == k \in {"run", "restore"} /\ SourceIsNetwork /\ ~dir["source"]

Starts(s, k, p) ==
  /\ stage[s] = Idle
  /\ kind' = [kind EXCEPT ![s] = k]
  /\ owner' = [owner EXCEPT ![s] = p]
  /\ GoTo(s, <<"check", IF MountsSource(k) THEN "source" ELSE "destination">>)
  /\ UNCHANGED <<mountPoints, runPid, termed, daemon, stop, refused, left, kills, fails>>

DaemonRun(s) ==
  /\ daemon # NoPid
  /\ ~SourceMissing("run")
  /\ Starts(s, "run", daemon)
  /\ UNCHANGED alive

CliStarts(s) ==
  \E k \in Kind, p \in NewPids :
    /\ ~SourceMissing(k)
    /\ Starts(s, k, p)
    /\ alive' = alive \cup {p}

Refuse ==
  /\ SourceMissing("run")
  /\ refused' = TRUE
  /\ UNCHANGED <<mountPoints, runPid, processes, activities, stop, left, kills, fails>>

AfterMount(s, r) ==
  IF r = "source" THEN <<"check", "destination">>
  ELSE IF kind[s] = "run" THEN <<"write pid", "none">>
  ELSE Engine

\* Mutant of CheckMounted: takes an existing directory for a mounted share.
CheckDirectory(s, r) ==
  /\ stage[s] = <<"check", r>>
  /\ dir' = [dir EXCEPT ![r] = TRUE]
  /\ Proceed(s, IF dir[r] THEN AfterMount(s, r) ELSE <<"mount", r>>)
  /\ UNCHANGED <<mounts, runPid, daemon, kind, owner, stop, refused, left, kills, fails>>

\* Mutant of CheckMounted: does not look whether a share is mounted.
CheckNothing(s, r) ==
  /\ stage[s] = <<"check", r>>
  /\ dir' = [dir EXCEPT ![r] = TRUE]
  /\ Proceed(s, <<"mount", r>>)
  /\ UNCHANGED <<mounts, runPid, daemon, kind, owner, stop, refused, left, kills, fails>>

\* Mount makes the directory and looks whether a share is mounted on it.
CheckMounted(s, r) ==
  /\ stage[s] = <<"check", r>>
  /\ dir' = [dir EXCEPT ![r] = TRUE]
  /\ Proceed(s, IF mounts[r] > 0 THEN AfterMount(s, r) ELSE <<"mount", r>>)
  /\ UNCHANGED <<mounts, runPid, daemon, kind, owner, stop, refused, left, kills, fails>>

MountShare(s, r) ==
  /\ stage[s] = <<"mount", r>>
  /\ dir[r]
  /\ mounts' = [mounts EXCEPT ![r] = @ + 1]
  /\ Proceed(s, AfterMount(s, r))
  /\ UNCHANGED <<dir, runPid, daemon, kind, owner, stop, refused, left, kills, fails>>

\* Mutant of MountFails: returns without the deferred unmount.
MountFailsAbruptly(s, r) ==
  /\ stage[s] = <<"mount", r>>
  /\ fails < MaxFails
  /\ fails' = fails + 1
  /\ Return(s)
  /\ UNCHANGED <<mountPoints, runPid, daemon, kind, owner, stop, refused, left, kills>>

\* The mount command fails, or another activity has removed the directory:
\* the deferred unmount of the source, if there is one, and an error.
MountFails(s, r) ==
  /\ stage[s] = <<"mount", r>>
  /\ IF dir[r] THEN fails < MaxFails /\ fails' = fails + 1 ELSE UNCHANGED fails
  /\ IF r = "destination" /\ MountsSource(kind[s])
     THEN Proceed(s, <<"unmount", "source">>)
     ELSE Return(s)
  /\ UNCHANGED <<mountPoints, runPid, daemon, kind, owner, stop, refused, left, kills>>

\* An error of the write, which may have emptied the file, is ignored.
WriteRunPID(s) ==
  /\ stage[s] = <<"write pid", "none">>
  /\ \/ runPid' = owner[s] /\ UNCHANGED fails
     \/ fails < MaxFails /\ fails' = fails + 1 /\ runPid' \in {runPid, NoPid}
  /\ Proceed(s, Engine)
  /\ UNCHANGED <<mountPoints, daemon, kind, owner, stop, refused, left, kills>>

\* The engine succeeds or fails: the deferred calls follow either way.
EngineReturns(s) ==
  /\ stage[s] = Engine
  /\ Proceed(s, IF kind[s] = "run" THEN <<"remove pid", "none">>
                                   ELSE <<"unmount", "destination">>)
  /\ UNCHANGED <<mountPoints, runPid, daemon, kind, owner, stop, refused, left, kills, fails>>

\* Mutant of RemoveRunPID: the file stays.
RemoveRunPIDForgotten(s) ==
  /\ stage[s] = <<"remove pid", "none">>
  /\ Proceed(s, <<"unmount", "destination">>)
  /\ UNCHANGED <<mountPoints, runPid, daemon, kind, owner, stop, refused, left, kills, fails>>

RemoveRunPID(s) ==
  /\ stage[s] = <<"remove pid", "none">>
  /\ runPid' = NoPid
  /\ left' = left \ {"run.pid"}
  /\ Proceed(s, <<"unmount", "destination">>)
  /\ UNCHANGED <<mountPoints, daemon, kind, owner, stop, refused, kills, fails>>

\* An engine of another activity uses the share.
Busy(s, r) ==
  \E t \in Slot \ {s} :
    stage[t] = Engine /\ (r = "destination" \/ MountsSource(kind[t]))

\* Unmount: the topmost share, and then the directory if none is left.
ReleaseMount(r) ==
  /\ mounts' = [mounts EXCEPT ![r] = @ - 1]
  /\ dir' = [dir EXCEPT ![r] = mounts[r] > 1]
  /\ left' = left \ {r}
  /\ UNCHANGED fails

\* umount may fail for an engine that has files open, or for any other reason:
\* a warning, and the share stays.
UmountFails(s, r) ==
  /\ IF Busy(s, r) THEN UNCHANGED fails ELSE fails < MaxFails /\ fails' = fails + 1
  /\ left' = left \cup {r}
  /\ UNCHANGED mountPoints

Unmount(s, r) ==
  /\ stage[s] = <<"unmount", r>>
  /\ \/ mounts[r] = 0 /\ UNCHANGED <<mountPoints, left, fails>>
     \/ mounts[r] > 0 /\ (ReleaseMount(r) \/ UmountFails(s, r))
  /\ IF r = "destination" /\ MountsSource(kind[s])
     THEN Proceed(s, <<"unmount", "source">>)
     ELSE Return(s)
  /\ UNCHANGED <<runPid, daemon, kind, owner, stop, refused, kills>>

-----------------------------------------------------------------------------
(***************************************************************************)
(* Processes.                                                              *)
(***************************************************************************)

DaemonStarts ==
  /\ daemon = NoPid
  /\ \E p \in NewPids :
       /\ daemon' = p
       /\ alive' = alive \cup {p}
  /\ UNCHANGED <<mountPoints, runPid, termed, activities, stop, refused, left, kills, fails>>

\* A crash, an update, a shutdown.
Kill(p) ==
  /\ kills < MaxKills
  /\ kills' = kills + 1
  /\ Ends(p)
  /\ UNCHANGED <<mountPoints, runPid, kind, owner, stop, refused, fails>>

\* SIGTERM: a CLI process dies of it, the daemon's loop returns without
\* waiting for the goroutines of its jobs.
Terminates(p) ==
  /\ Ends(p)
  /\ UNCHANGED <<mountPoints, runPid, kind, owner, stop, refused, kills, fails>>

-----------------------------------------------------------------------------
(***************************************************************************)
(* StopJob.                                                                *)
(***************************************************************************)

StopGoesTo(step) == stop' = [stop EXCEPT !.step = step]

StopReturns == stop' = [step |-> "idle", pid |-> NoPid]

StopReads ==
  /\ MayStop
  /\ stop.step = "idle"
  /\ runPid # NoPid
  /\ stop' = [step |-> "check", pid |-> runPid]
  /\ UNCHANGED <<mountPoints, runPid, processes, activities, refused, left, kills, fails>>

\* A stale run.pid is removed.
StopChecks ==
  /\ stop.step = "check"
  /\ IF stop.pid \in alive
     THEN StopGoesTo("signal") /\ UNCHANGED runPid
     ELSE StopReturns /\ runPid' = NoPid
  /\ UNCHANGED <<mountPoints, processes, activities, refused, left, kills, fails>>

StopSignals ==
  /\ stop.step = "signal"
  /\ IF stop.pid \in alive
     THEN StopGoesTo("wait") /\ termed' = termed \cup {stop.pid}
     ELSE StopReturns /\ UNCHANGED termed
  /\ UNCHANGED <<mountPoints, runPid, alive, daemon, activities, refused, left, kills, fails>>

StopSeesEnd ==
  /\ stop.step = "wait"
  /\ stop.pid \notin alive
  /\ runPid' = NoPid
  /\ StopReturns
  /\ UNCHANGED <<mountPoints, processes, activities, refused, left, kills, fails>>

\* After five seconds: an error, or with --force SIGKILL.
StopGivesUp ==
  /\ stop.step = "wait"
  /\ StopReturns
  /\ \/ UNCHANGED <<runPid, processes, stage, left>>
     \/ stop.pid \in alive /\ runPid' = NoPid /\ Ends(stop.pid)
  /\ UNCHANGED <<mountPoints, kind, owner, refused, kills, fails>>

RunStep(s) ==
  \/ \E r \in Role :
       CheckMounted(s, r) \/ MountShare(s, r) \/ MountFails(s, r) \/ Unmount(s, r)
  \/ WriteRunPID(s)
  \/ EngineReturns(s)
  \/ RemoveRunPID(s)

Next ==
  \/ \E s \in Slot : DaemonRun(s) \/ CliStarts(s) \/ RunStep(s)
  \/ Refuse
  \/ DaemonStarts
  \/ \E p \in alive : Kill(p)
  \/ \E p \in termed : Terminates(p)
  \/ StopReads \/ StopChecks \/ StopSignals \/ StopSeesEnd \/ StopGivesUp

Spec == Init /\ [][Next]_vars

-----------------------------------------------------------------------------
(***************************************************************************)
(* Properties.                                                             *)
(***************************************************************************)

Runs(s) == kind[s] = "run" /\ stage[s] # Idle

\* While an engine works, the shares it works on are mounted (mount.Mount,
\* mount.Unmount: leftovers of earlier runs included).
MountedWhileRunning ==
  \A s \in Slot :
    stage[s] = Engine =>
      /\ mounts["destination"] > 0
      /\ MountsSource(kind[s]) => mounts["source"] > 0

\* A run that is in its engine can be found through run.pid ("Write run PID so
\* running jobs can be detected and stopped").
RunDetected ==
  \A s \in Slot : stage[s] = Engine /\ kind[s] = "run" => runPid = owner[s]

\* A job that IsJobRunning reports is being run by the process that run.pid
\* names.
SeenRunningIsRunning ==
  runPid \in alive => \E s \in Slot : Runs(s) /\ owner[s] = runPid

\* An idle job has no share mounted and no run.pid but what a process that died
\* or a failed unmount left and no later activity has cleared, whichever mounts
\* and writes failed (the deferred calls of Run and Restore).
Released == (\A s \in Slot : stage[s] = Idle) => Present \subseteq left

\* No share is mounted over itself, whatever died or could not be unmounted before
\* (mount.Mount: "Skip if already mounted").
MountedOnce == \A r \in Role : mounts[r] <= 1

\* StopJob signals only a process that runs the job ("Returns an error if the
\* job is not running").
StopHitsRunner ==
  [][stop.step = "signal" /\ stop'.step = "wait" =>
       \E s \in Slot : Runs(s) /\ owner[s] = stop.pid]_vars

\* A run of a job whose source is a share that can be mounted is not refused
\* (package mount: "on-demand mounting and unmounting of SMB (CIFS) and NFS
\* shares for backup source and destination endpoints").
NetworkSourceRuns == ~refused

-----------------------------------------------------------------------------
(***************************************************************************)
(* The inductive invariants behind these properties (JobRunProofs).        *)
(***************************************************************************)

\* Activity s is between the writing and the removal of run.pid.
Recorded(s) == kind[s] = "run" /\ stage[s] \in {Engine, <<"remove pid", "none">>}

\* A process that lives and is in run.pid has a run that has not yet removed the
\* file; whoever is about to write or to remove it is a run.
PidInv ==
  /\ TypeOK
  /\ \A s \in Slot : stage[s] \in {<<"write pid", "none">>, <<"remove pid", "none">>} => kind[s] = "run"
  /\ runPid \in alive => \E s \in Slot : Recorded(s) /\ owner[s] = runPid

\* The stages between the mounting and the unmounting of role r's share.
Holding(r) ==
  {<<"write pid", "none">>, Engine, <<"remove pid", "none">>, <<"unmount", "destination">>}
    \cup IF r = "source"
         THEN {<<"check", "destination">>, <<"mount", "destination">>, <<"unmount", "source">>}
         ELSE {}

Holds(s, r) ==
  /\ stage[s] \in Holding(r)
  /\ r = "source" => MountsSource(kind[s])

\* The activity's shares are mounted, once; what else is mounted or written was
\* left by a death or a failed unmount.
Orderly(s) ==
  /\ stage[s] \in {<<"write pid", "none">>, <<"remove pid", "none">>} => kind[s] = "run"
  /\ stage[s] \in {<<"check", "source">>, <<"mount", "source">>, <<"unmount", "source">>}
       => MountsSource(kind[s])
  /\ \A r \in Role :
       /\ mounts[r] \in {0, 1}
       /\ Holds(s, r) => mounts[r] = 1
       /\ mounts[r] = 1 => Holds(s, r) \/ r \in left
       /\ stage[s] = <<"mount", r>> => mounts[r] = 0
  /\ runPid # NoPid => Recorded(s) \/ "run.pid" \in left

\* Without `job stop'; for room for one activity at a time.
AloneInv ==
  /\ TypeOK
  /\ stop.step = "idle" /\ termed = {}
  /\ \A s \in Slot : Orderly(s)
=============================================================================
