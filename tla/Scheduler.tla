----------------------------- MODULE Scheduler ------------------------------
(***************************************************************************)
(* The daemon's main loop (internal/daemon/daemon.go): the in-memory       *)
(* schedule, the timer of the earliest job, the reload ticker and the      *)
(* reload trigger, the goroutines that run jobs, and jobDoneCh; and the    *)
(* CLI processes that rewrite job.toml files underneath it.                *)
(*                                                                         *)
(* Time is a clock that turns through Cycle ticks: a cron expression is    *)
(* the set of positions of the clock at which it fires.  A next run is     *)
(* kept as the number of ticks until it is due, 0 when it is due or        *)
(* overdue.  The heartbeat ticker is left out: a heartbeat may come at any *)
(* time, and with it whatever makes the loop wait (a DR backup, restic     *)
(* stats) or end (an update).                                              *)
(***************************************************************************)
EXTENDS Naturals, FiniteSets

CONSTANTS
  Job,           \* job IDs
  NoJob,         \* runningJobID and jobDoneCh when empty
  Expr,          \* schedules
  Times,         \* Times[x]: the positions at which schedule x fires
  Cycle,         \* length of the clock's cycle
  ReloadEvery,   \* reloadInterval in ticks
  StartAt,       \* positions of the clock at which the daemon may start
  MayWait,       \* whether a heartbeat may keep the loop waiting
  NoConf,        \* a job.toml that is missing or half written
  Unscheduled,   \* a job that is not in the in-memory schedule
  MaxRuns,       \* bound: goroutines of one job
  MaxEdits,      \* bound: edits of job.toml files
  MaxExits       \* bound: ends of the daemon process

Clock == 0..(Cycle - 1)

ASSUME JobAssumption == NoJob \notin Job
ASSUME ClockAssumption ==
  /\ Cycle \in Nat \ {0}
  /\ ReloadEvery \in Nat \ {0}
  /\ StartAt \subseteq Clock
  /\ Times \in [Expr -> SUBSET Clock]
ASSUME FlagAssumption == MayWait \in BOOLEAN
ASSUME BoundAssumption ==
  /\ MaxRuns \in Nat
  /\ MaxEdits \in Nat
  /\ MaxExits \in Nat

\* The fields of config.Job the scheduler looks at.
Conf == [enabled : BOOLEAN, expr : Expr]

\* scheduledJob: the schedule it was loaded with and the ticks to nextRun.
Entry == [expr : Expr, left : Nat]

ASSUME NoValueAssumption == NoConf \notin Conf /\ Unscheduled \notin Entry

VARIABLES
  clock,         \* position of the wall clock
  conf,          \* job.toml of each job on disk
  saving,        \* what a CLI process is writing to it, NoConf when nothing
  nextFile,      \* next_run.json: a position of the clock, Cycle when absent
  loop,          \* "starting" (before the ticker is made), "select", "waiting"
                 \* in a handler, or "down"
  sched,         \* scheduled
  runningJobID,
  running,       \* goroutines inside svc.Run, per job
  ended,         \* goroutines that still have to send on jobDoneCh
  jobDoneCh,     \* its buffer
  reloadIn,      \* ticks to the next tick of reloadTicker
  reloadDue,     \* reloadTicker.C holds a tick
  reloadCh,      \* reloadCh holds a request, or the trigger file is there
  age,           \* history: ticks since job.toml last changed, saturating
  ticked,        \* history: reloadTicker has ticked since it was made
  edits, exits   \* history: counters of the bounds

files == <<conf, saving, nextFile>>
goroutines == <<running, ended, jobDoneCh>>
tickers == <<reloadIn, reloadDue, reloadCh>>
history == <<age, ticked, edits, exits>>
vars == <<clock, files, loop, sched, runningJobID, goroutines, tickers, history>>

MaxAge == ReloadEvery

TypeOK ==
  /\ clock \in Clock
  /\ conf \in [Job -> Conf \cup {NoConf}]
  /\ saving \in [Job -> Conf \cup {NoConf}]
  /\ nextFile \in [Job -> 0..Cycle]
  /\ loop \in {"starting", "select", "waiting", "down"}
  /\ sched \in [Job -> Entry \cup {Unscheduled}]
  /\ runningJobID \in Job \cup {NoJob}
  /\ running \in [Job -> Nat]
  /\ ended \in [Job -> Nat]
  /\ jobDoneCh \in Job \cup {NoJob}
  /\ reloadIn \in 1..ReloadEvery
  /\ reloadDue \in BOOLEAN
  /\ reloadCh \in BOOLEAN
  /\ age \in [Job -> 0..MaxAge]
  /\ ticked \in BOOLEAN
  /\ edits \in Nat
  /\ exits \in Nat

-----------------------------------------------------------------------------
(***************************************************************************)
(* nextRunAfter, buildSchedule, reload.                                    *)
(***************************************************************************)

\* The position of the clock d ticks from now, d \in 0..Cycle.
Ahead(d) == IF clock + d < Cycle THEN clock + d ELSE clock + d - Cycle

\* The ticks after which schedule x fires, counted from now (exclusive).
Upcoming(x) == {d \in 1..Cycle : Ahead(d) \in Times[x]}

\* nextRunAfter; undefined when the schedule is manual, does not parse or
\* never fires.
NextRunAfter(x) == CHOOSE d \in Upcoming(x) : \A e \in Upcoming(x) : d <= e

\* Whether a loaded job gets a place in the schedule.
Schedulable(c) == c # NoConf /\ c.enabled /\ Upcoming(c.expr) # {}

FromNow(c) == [expr |-> c.expr, left |-> NextRunAfter(c.expr)]

Built == [j \in Job |-> IF Schedulable(conf[j]) THEN FromNow(conf[j]) ELSE Unscheduled]

\* The next run of job j is kept if its schedule is the same and it is not due.
Kept(j) ==
  /\ sched[j] # Unscheduled
  /\ sched[j].expr = conf[j].expr
  /\ sched[j].left > 0

\* Mutant of Reloaded: keeps the next run although the schedule has changed.
ReloadedKeepingAll ==
  [j \in Job |->
     IF ~Schedulable(conf[j]) THEN Unscheduled
     ELSE IF sched[j] # Unscheduled /\ sched[j].left > 0
     THEN [expr |-> conf[j].expr, left |-> sched[j].left]
     ELSE FromNow(conf[j])]

\* Mutant of Reloaded: a job that was switched off stays.
ReloadedKeepingDisabled ==
  [j \in Job |->
     IF Schedulable(conf[j]) THEN (IF Kept(j) THEN sched[j] ELSE FromNow(conf[j]))
     ELSE sched[j]]

Reloaded ==
  [j \in Job |->
     IF ~Schedulable(conf[j]) THEN Unscheduled
     ELSE IF Kept(j) THEN sched[j]
     ELSE FromNow(conf[j])]

\* writeNextRun for the jobs of J, which are in schedule s.  It fails when the
\* job's directory is gone, and not if a run has made it again.
WriteNextRun(J, s) ==
  \E gone \in SUBSET {j \in J : conf[j] = NoConf /\ nextFile[j] = Cycle} :
    nextFile' = [j \in Job |-> IF j \in J \ gone THEN Ahead(s[j].left)
                               ELSE nextFile[j]]

ScheduledIn(s) == {j \in Job : s[j] # Unscheduled}

Init ==
  /\ clock \in StartAt
  /\ conf \in [Job -> Conf]
  /\ saving = [j \in Job |-> NoConf]
  /\ loop = "starting"
  /\ sched = Built
  /\ nextFile = [j \in Job |-> IF sched[j] = Unscheduled THEN Cycle
                               ELSE Ahead(sched[j].left)]
  /\ runningJobID = NoJob
  /\ running = [j \in Job |-> 0]
  /\ ended = [j \in Job |-> 0]
  /\ jobDoneCh = NoJob
  /\ reloadIn = ReloadEvery
  /\ reloadDue = FALSE
  /\ reloadCh = FALSE
  /\ age = [j \in Job |-> 0]
  /\ ticked = FALSE
  /\ edits = 0
  /\ exits = 0

-----------------------------------------------------------------------------
(***************************************************************************)
(* The branches of select.                                                 *)
(***************************************************************************)

\* Goroutines of job j that have not been taken note of.
InFlight(j) == running[j] + ended[j] + (IF jobDoneCh = j THEN 1 ELSE 0)

Due(j) == sched[j] # Unscheduled /\ sched[j].left = 0

\* Mutant of Rescheduled: moves every job that is due.
RescheduledAll(j) ==
  [k \in Job |-> IF Due(k) THEN [sched[k] EXCEPT !.left = NextRunAfter(sched[k].expr)]
                 ELSE sched[k]]

\* The schedule after j was fired or skipped: its next run from now, or
\* without j when there is none.
Rescheduled(j) ==
  [sched EXCEPT ![j] = IF Upcoming(sched[j].expr) = {} THEN Unscheduled ELSE
                         [@ EXCEPT !.left = NextRunAfter(sched[j].expr)]]

Reschedule(j) ==
  /\ sched' = Rescheduled(j)
  /\ WriteNextRun({j} \cap ScheduledIn(sched'), sched')

\* Mutant of Fire: does not look whether the job is running.
FireAlways(j) ==
  /\ loop = "select"
  /\ Due(j)
  /\ InFlight(j) < MaxRuns
  /\ runningJobID' = j
  /\ running' = [running EXCEPT ![j] = @ + 1]
  /\ Reschedule(j)
  /\ UNCHANGED <<clock, conf, saving, loop, ended, jobDoneCh, tickers, history>>

\* The timer of the earliest job: its goroutine starts.  Overdue jobs come in
\* any order.
Fire(j) ==
  /\ loop = "select"
  /\ Due(j)
  /\ runningJobID # j
  /\ InFlight(j) < MaxRuns
  /\ runningJobID' = j
  /\ running' = [running EXCEPT ![j] = @ + 1]
  /\ Reschedule(j)
  /\ UNCHANGED <<clock, conf, saving, loop, ended, jobDoneCh, tickers, history>>

\* "already running, skipping".
Skip(j) ==
  /\ loop = "select"
  /\ Due(j)
  /\ runningJobID = j
  /\ Reschedule(j)
  /\ UNCHANGED <<clock, conf, saving, loop, runningJobID, goroutines, tickers, history>>

\* Mutant of Reload: does not write next_run.json.
ReloadUnwritten ==
  /\ sched' = Reloaded
  /\ UNCHANGED <<clock, files, loop, runningJobID, goroutines, history>>

\* reload, for the ticker or for the trigger; a job the reload takes up anew
\* gets its next_run.json.
Reload ==
  /\ sched' = Reloaded
  /\ WriteNextRun({j \in Job : Schedulable(conf[j]) /\ ~Kept(j)}, sched')
  /\ UNCHANGED <<clock, conf, saving, loop, runningJobID, goroutines, history>>

ReloadTick ==
  /\ loop = "select"
  /\ reloadDue
  /\ reloadDue' = FALSE
  /\ UNCHANGED <<reloadIn, reloadCh>>
  /\ Reload

ReloadOnDemand ==
  /\ loop = "select"
  /\ reloadCh
  /\ reloadCh' = FALSE
  /\ UNCHANGED <<reloadIn, reloadDue>>
  /\ Reload

\* Mutant of JobDone: takes only the message of the job in runningJobID.
JobDoneMatching ==
  /\ loop = "select"
  /\ jobDoneCh # NoJob
  /\ jobDoneCh = runningJobID
  /\ jobDoneCh' = NoJob
  /\ runningJobID' = NoJob
  /\ UNCHANGED <<clock, files, loop, sched, running, ended, tickers, history>>

\* Mutant of JobDone: runningJobID is left.
JobDoneForgets ==
  /\ loop = "select"
  /\ jobDoneCh # NoJob
  /\ jobDoneCh' = NoJob
  /\ UNCHANGED <<clock, files, loop, sched, runningJobID, running, ended, tickers, history>>

\* Whichever job has finished, runningJobID is cleared.
JobDone ==
  /\ loop = "select"
  /\ jobDoneCh # NoJob
  /\ jobDoneCh' = NoJob
  /\ runningJobID' = NoJob
  /\ UNCHANGED <<clock, files, loop, sched, running, ended, tickers, history>>

\* A heartbeat runs a DR backup, restic stats or a download inside the loop.
Wait ==
  /\ loop = "select"
  /\ MayWait
  /\ loop' = "waiting"
  /\ UNCHANGED <<clock, files, sched, runningJobID, goroutines, tickers, history>>

EndWait ==
  /\ loop = "waiting"
  /\ loop' = "select"
  /\ UNCHANGED <<clock, files, sched, runningJobID, goroutines, tickers, history>>

-----------------------------------------------------------------------------
(***************************************************************************)
(* The goroutines of jobs, the process, the clock and the CLI.             *)
(***************************************************************************)

RunEnds(j) ==
  /\ running[j] > 0
  /\ running' = [running EXCEPT ![j] = @ - 1]
  /\ ended' = [ended EXCEPT ![j] = @ + 1]
  /\ UNCHANGED <<clock, files, loop, sched, runningJobID, jobDoneCh, tickers, history>>

SendDone(j) ==
  /\ ended[j] > 0
  /\ jobDoneCh = NoJob
  /\ jobDoneCh' = j
  /\ ended' = [ended EXCEPT ![j] = @ - 1]
  /\ UNCHANGED <<clock, files, loop, sched, runningJobID, running, tickers, history>>

\* A signal, a remote update or a crash ends the process and its goroutines; a
\* trigger file the poller has not taken yet stays.
Exit ==
  /\ loop # "down"
  /\ exits < MaxExits
  /\ exits' = exits + 1
  /\ loop' = "down"
  /\ sched' = [j \in Job |-> Unscheduled]
  /\ runningJobID' = NoJob
  /\ running' = [j \in Job |-> 0]
  /\ ended' = [j \in Job |-> 0]
  /\ jobDoneCh' = NoJob
  /\ reloadDue' = FALSE
  /\ reloadCh' \in {reloadCh, FALSE}
  /\ UNCHANGED <<clock, files, reloadIn, age, ticked, edits>>

\* The service manager starts it again: buildSchedule.
Start ==
  /\ loop = "down"
  /\ loop' = "starting"
  /\ sched' = Built
  /\ WriteNextRun(ScheduledIn(Built), Built)
  /\ UNCHANGED <<clock, conf, saving, runningJobID, goroutines, tickers, history>>

\* The update or DR backup that the first heartbeat asked for is over; only
\* now the reload ticker is made.
EndStart ==
  /\ loop = "starting"
  /\ loop' = "select"
  /\ reloadIn' = ReloadEvery
  /\ ticked' = FALSE
  /\ UNCHANGED <<clock, files, sched, runningJobID, goroutines, reloadDue, reloadCh, age,
                 edits, exits>>

\* An idle loop serves what is ready before the clock moves on; a start that
\* has nothing to wait for takes no time.
Ready ==
  \/ /\ loop = "select"
     /\ \/ \E j \in Job : Due(j)
        \/ reloadDue \/ reloadCh \/ jobDoneCh # NoJob
  \/ loop = "starting" /\ ~MayWait

\* There is a reload ticker.
Ticking == loop \in {"select", "waiting"}

Tick ==
  /\ ~Ready
  /\ clock' = Ahead(1)
  /\ sched' = [j \in Job |-> IF sched[j] = Unscheduled \/ Due(j) THEN sched[j]
                             ELSE [sched[j] EXCEPT !.left = @ - 1]]
  /\ CASE ~Ticking -> UNCHANGED <<reloadIn, reloadDue, ticked>>
       [] Ticking /\ reloadIn = 1 ->
            reloadIn' = ReloadEvery /\ reloadDue' = TRUE /\ ticked' = TRUE
       [] Ticking /\ reloadIn > 1 ->
            reloadIn' = reloadIn - 1 /\ UNCHANGED <<reloadDue, ticked>>
  /\ age' = [j \in Job |-> IF age[j] < MaxAge THEN age[j] + 1 ELSE MaxAge]
  /\ UNCHANGED <<files, loop, runningJobID, goroutines, reloadCh, edits, exits>>

\* SaveJob: os.WriteFile truncates the file and then writes it.
BeginSave(j) ==
  /\ edits < MaxEdits
  /\ saving[j] = NoConf
  /\ \E c \in Conf : saving' = [saving EXCEPT ![j] = c]
  /\ conf' = [conf EXCEPT ![j] = NoConf]
  /\ age' = [age EXCEPT ![j] = 0]
  /\ edits' = edits + 1
  /\ UNCHANGED <<clock, nextFile, loop, sched, runningJobID, goroutines, tickers, ticked, exits>>

\* The menu then triggers a reload, the scriptable commands do not.
EndSave(j) ==
  /\ saving[j] # NoConf
  /\ conf' = [conf EXCEPT ![j] = saving[j]]
  /\ saving' = [saving EXCEPT ![j] = NoConf]
  /\ age' = [age EXCEPT ![j] = 0]
  /\ reloadCh' \in {reloadCh, TRUE}
  /\ UNCHANGED <<clock, nextFile, loop, sched, runningJobID, goroutines, reloadIn,
                 reloadDue, ticked, edits, exits>>

\* The process that saves dies half way.
LoseSave(j) ==
  /\ edits < MaxEdits
  /\ saving[j] # NoConf
  /\ saving' = [saving EXCEPT ![j] = NoConf]
  /\ edits' = edits + 1
  /\ UNCHANGED <<clock, conf, nextFile, loop, sched, runningJobID, goroutines, tickers,
                 age, ticked, exits>>

\* The job's directory is removed.
Delete(j) ==
  /\ edits < MaxEdits
  /\ conf[j] # NoConf
  /\ conf' = [conf EXCEPT ![j] = NoConf]
  /\ nextFile' = [nextFile EXCEPT ![j] = Cycle]
  /\ age' = [age EXCEPT ![j] = 0]
  /\ edits' = edits + 1
  /\ UNCHANGED <<clock, saving, loop, sched, runningJobID, goroutines, tickers, ticked, exits>>

Next ==
  \/ \E j \in Job :
       \/ Fire(j) \/ Skip(j) \/ RunEnds(j) \/ SendDone(j)
       \/ BeginSave(j) \/ EndSave(j) \/ LoseSave(j) \/ Delete(j)
  \/ ReloadTick \/ ReloadOnDemand \/ JobDone
  \/ Wait \/ EndWait
  \/ Exit \/ Start \/ EndStart
  \/ Tick

Spec == Init /\ [][Next]_vars

\* select picks among the ready branches at random, so each is served in the
\* end; handlers return, runs end, files get written, the service manager
\* restarts the daemon.  Nobody has to edit, exit or send a heartbeat.
Fairness ==
  /\ WF_vars(Tick)
  /\ SF_vars(ReloadTick)
  /\ SF_vars(ReloadOnDemand)
  /\ SF_vars(JobDone)
  /\ WF_vars(EndWait)
  /\ WF_vars(Start)
  /\ WF_vars(EndStart)
  /\ \A j \in Job :
       /\ SF_vars(Fire(j))
       /\ SF_vars(Skip(j))
       /\ WF_vars(RunEnds(j))
       /\ SF_vars(SendDone(j))
       /\ WF_vars(EndSave(j))

FairSpec == Spec /\ Fairness

-----------------------------------------------------------------------------
(***************************************************************************)
(* Properties.                                                             *)
(***************************************************************************)

\* A next run that is not due yet is the first time the job's own schedule
\* fires: edits, reloads, restarts and skipped runs leave no stale or skipped
\* time behind (reload, nextRunAfter).
NextRunIsNext ==
  \A j \in Job :
    sched[j] # Unscheduled /\ sched[j].left > 0 =>
      sched[j].left = NextRunAfter(sched[j].expr)

\* next_run.json never names another time than the next run of the scheduled
\* job: reload writes it for every job it takes up anew (writeNextRun).
NextFileAgrees ==
  \A j \in Job :
    sched[j] # Unscheduled /\ sched[j].left > 0 =>
      nextFile[j] \in {Cycle, Ahead(sched[j].left)}

\* A job the loop takes for running is running, or has just ended: no run is
\* skipped for one that is over (runningJobID).
SkippedOnlyWhenRunning == runningJobID # NoJob => InFlight(runningJobID) > 0

\* The schedule has job j as job.toml has it.
Matches(j) ==
  IF Schedulable(conf[j])
  THEN sched[j] # Unscheduled /\ sched[j].expr = conf[j].expr
  ELSE sched[j] = Unscheduled

\* A job.toml that has not changed for a reload interval is what the idle loop
\* works with, as soon as its ticker is as old: edits, deletions and half-written
\* files take effect, those made while the daemon was starting included.
EditsApplied ==
  \A j \in Job :
    loop = "select" /\ ticked /\ ~reloadDue /\ age[j] = MaxAge => Matches(j)

\* The same from the moment the loop runs (reloadInterval).
EditsAppliedAtOnce ==
  \A j \in Job : loop = "select" /\ ~reloadDue /\ age[j] = MaxAge => Matches(j)

\* The daemon never runs a job twice at a time (runningJobID: "used to skip
\* re-triggering a running job").
NoOverlap == \A j \in Job : running[j] <= 1

\* A run that is due is started, or skipped because the job is running; it is
\* not dropped while the job stays as it is (reload: "For jobs whose schedule
\* has not changed, the existing nextRun is preserved").
DueRunsFire ==
  [][\A j \in Job :
       Due(j) /\ sched'[j] # sched[j] /\ conf[j] # NoConf /\ conf[j].enabled
         /\ conf[j].expr = sched[j].expr /\ loop' # "down"
       => running'[j] > running[j] \/ InFlight(j) > 0]_vars

\* No run starts for a job that has been disabled for a whole reload interval
\* (ADMIN.md: "Disabled jobs stay in the list but the daemon won't fire them").
DisabledNeverFires ==
  [][\A j \in Job :
       running'[j] > running[j] /\ conf[j] # NoConf /\ age[j] = MaxAge => conf[j].enabled]_vars

\* next_run.json exists only for jobs with an automatic schedule
\* (LoadNextRun: nil if "job has a manual schedule").
ManualHasNoNextRun ==
  \A j \in Job :
    loop = "select" /\ ~reloadDue /\ age[j] = MaxAge /\ conf[j] # NoConf
      /\ Times[conf[j].expr] = {}
    => nextFile[j] = Cycle

\* Once the edits are over, every enabled job with a schedule is run again and
\* again, whatever other jobs, waits and reloads are in the way.
EveryJobRuns ==
  \A j \in Job :
    []<>(~Schedulable(conf[j]) \/ running[j] > 0)

\* Every job comes to rest, or its goroutines, where one run begins before the
\* last is over, go on getting rid of their messages: none waits for ever on a
\* jobDoneCh that the loop has stopped serving.
EveryRunIsOver ==
  \A j \in Job : []<>(running[j] + ended[j] = 0) \/ []<><<SendDone(j)>>_vars

-----------------------------------------------------------------------------
(***************************************************************************)
(* The inductive invariant behind TypeOK, NextRunIsNext, NextFileAgrees,   *)
(* SkippedOnlyWhenRunning and EditsApplied (SchedulerProofs).              *)
(***************************************************************************)

\* A job that is in the schedule has times; a next run that is not due is the
\* first of them, and next_run.json does not name another.
Timely(j) ==
  sched[j] # Unscheduled =>
    /\ Times[sched[j].expr] # {}
    /\ sched[j].left > 0 =>
         /\ sched[j].left = NextRunAfter(sched[j].expr)
         /\ nextFile[j] \in {Cycle, Ahead(sched[j].left)}

\* What differs from job.toml changed after the last tick of reloadTicker.
Applied(j) ==
  Ticking /\ ticked /\ ~reloadDue => Matches(j) \/ age[j] + reloadIn <= ReloadEvery

\* Each next run is the first of its job's times, each difference from the
\* files is young, and each job taken for running is in flight: what reload,
\* the timer and jobDoneCh maintain together.
IInv ==
  /\ TypeOK
  /\ SkippedOnlyWhenRunning
  /\ \A j \in Job : Timely(j) /\ Applied(j)

\* What NoOverlap rests on where there is only one job: runningJobID is that
\* job from the start of its goroutine until its message is taken.
RunningIsKnown ==
  \A j \in Job : InFlight(j) <= 1 /\ (InFlight(j) = 1 => runningJobID = j)
=============================================================================
