--------------------------- MODULE JobRunProofs -----------------------------
(***************************************************************************)
(* For any number of processes, activities, kills and failing mounts: the  *)
(* types of JobRun, what run.pid implies while process IDs are not used    *)
(* again, and that a job with one activity at a time works on mounted      *)
(* shares, can be detected and leaves nothing behind.                      *)
(***************************************************************************)
EXTENDS JobRun, TLAPS

USE DEF mountPoints, processes, activities, vars

(***************************************************************************)
(* Types.                                                                  *)
(***************************************************************************)

\* The stages an activity can move on to.
LEMMA StageType ==
  /\ \A s, r : AfterMount(s, r) \in Stage
  /\ \A r \in Role : {<<"check", r>>, <<"mount", r>>, <<"unmount", r>>} \subseteq Stage
  /\ {Idle, Engine, <<"write pid", "none">>, <<"remove pid", "none">>} \subseteq Stage
  /\ {"source", "destination"} \subseteq Role
  BY DEF AfterMount, Stage, Role

LEMMA ProceedType ==
  ASSUME TypeOK, NEW s \in Slot, NEW st \in Stage, Proceed(s, st)
  PROVE  stage' \in [Slot -> Stage] /\ alive' = alive /\ termed' = termed
  BY DEF Proceed, GoTo, TypeOK

LEMMA ReturnType ==
  ASSUME TypeOK, NEW s \in Slot, Return(s), daemon' = daemon
  PROVE  /\ stage' \in [Slot -> Stage]
         /\ alive' \subseteq alive /\ termed' \subseteq alive'
         /\ daemon' \in alive' \cup {NoPid}
  BY StageType DEF Return, GoTo, TypeOK

LEMMA EndsType ==
  ASSUME TypeOK, NEW p \in Pid, Ends(p)
  PROVE  /\ stage' \in [Slot -> Stage]
         /\ alive' \subseteq alive /\ termed' \subseteq alive'
         /\ daemon' \in alive' \cup {NoPid}
         /\ left' \subseteq Leftover
  BY StageType DEF Ends, Present, Leftover, TypeOK

LEMMA ReleaseType ==
  ASSUME TypeOK, NEW r \in Role, mounts[r] > 0, ReleaseMount(r)
  PROVE  dir' \in [Role -> BOOLEAN] /\ mounts' \in [Role -> Nat] /\ left' \subseteq Leftover
<1>1. mounts' \in [Role -> Nat]
  BY DEF ReleaseMount, TypeOK
<1>2. dir' \in [Role -> BOOLEAN]
  <2>1. (mounts[r] > 1) \in BOOLEAN
    OBVIOUS
  <2> QED
    BY <2>1, Zenon DEF ReleaseMount, TypeOK
<1>3. left' \subseteq Leftover
  BY DEF ReleaseMount, TypeOK
<1> QED
  BY <1>1, <1>2, <1>3

\* What a step of a run leaves of the types.
LEMMA RunStepType ==
  ASSUME TypeOK, NEW s \in Slot, RunStep(s)
  PROVE  TypeOK'
<1>1. ASSUME NEW r \in Role, CheckMounted(s, r) PROVE TypeOK'
  <2>1. stage' \in [Slot -> Stage] /\ alive' = alive /\ termed' = termed
    BY <1>1, ProceedType, StageType DEF CheckMounted
  <2>2. dir' \in [Role -> BOOLEAN]
    BY <1>1 DEF CheckMounted, TypeOK
  <2> QED
    BY <1>1, <2>1, <2>2 DEF CheckMounted, TypeOK
<1>2. ASSUME NEW r \in Role, MountShare(s, r) PROVE TypeOK'
  <2>1. stage' \in [Slot -> Stage] /\ alive' = alive /\ termed' = termed
    BY <1>2, ProceedType, StageType DEF MountShare
  <2>2. mounts' \in [Role -> Nat]
    BY <1>2 DEF MountShare, TypeOK
  <2> QED
    BY <1>2, <2>1, <2>2 DEF MountShare, TypeOK
<1>3. ASSUME NEW r \in Role, MountFails(s, r) PROVE TypeOK'
  <2>1. /\ stage' \in [Slot -> Stage]
        /\ alive' \subseteq alive /\ termed' \subseteq alive'
        /\ daemon' \in alive' \cup {NoPid}
    BY <1>3, ProceedType, ReturnType, StageType DEF MountFails, TypeOK
  <2>2. fails' \in Nat
    BY <1>3 DEF MountFails, TypeOK
  <2> QED
    BY <1>3, <2>1, <2>2 DEF MountFails, TypeOK
<1>4. ASSUME NEW r \in Role, Unmount(s, r) PROVE TypeOK'
  <2>1. /\ stage' \in [Slot -> Stage]
        /\ alive' \subseteq alive /\ termed' \subseteq alive'
        /\ daemon' \in alive' \cup {NoPid}
    BY <1>4, ProceedType, ReturnType, StageType DEF Unmount, TypeOK
  <2>2. /\ dir' \in [Role -> BOOLEAN] /\ mounts' \in [Role -> Nat]
        /\ left' \subseteq Leftover /\ fails' \in Nat
    <3>1. CASE mounts[r] = 0
      BY <1>4, <3>1 DEF Unmount, ReleaseMount, UmountFails, TypeOK
    <3>2. CASE mounts[r] > 0 /\ ReleaseMount(r)
      BY <3>2, ReleaseType DEF ReleaseMount, TypeOK
    <3>3. CASE UmountFails(s, r)
      BY <3>3 DEF UmountFails, Leftover, TypeOK
    <3> QED
      BY <1>4, <3>1, <3>2, <3>3 DEF Unmount
  <2> QED
    BY <1>4, <2>1, <2>2 DEF Unmount, TypeOK
<1>5. CASE WriteRunPID(s)
  <2>1. stage' \in [Slot -> Stage] /\ alive' = alive /\ termed' = termed
    BY <1>5, ProceedType, StageType DEF WriteRunPID
  <2>2. /\ runPid' = owner[s] \/ runPid' = runPid \/ runPid' = NoPid
        /\ fails' = fails \/ fails' = fails + 1
    BY <1>5 DEF WriteRunPID
  <2>3. runPid' \in Pid \cup {NoPid} /\ fails' \in Nat
    BY <2>2 DEF TypeOK
  <2> QED
    BY <1>5, <2>1, <2>3 DEF WriteRunPID, TypeOK
<1>6. CASE EngineReturns(s)
  <2>1. stage' \in [Slot -> Stage] /\ alive' = alive /\ termed' = termed
    BY <1>6, ProceedType, StageType DEF EngineReturns
  <2> QED
    BY <1>6, <2>1 DEF EngineReturns, TypeOK
<1>7. CASE RemoveRunPID(s)
  <2>1. stage' \in [Slot -> Stage] /\ alive' = alive /\ termed' = termed
    BY <1>7, ProceedType, StageType DEF RemoveRunPID
  <2> QED
    BY <1>7, <2>1 DEF RemoveRunPID, TypeOK
<1> QED
  BY <1>1, <1>2, <1>3, <1>4, <1>5, <1>6, <1>7 DEF RunStep

\* Every step keeps the types.
LEMMA TypeStep ==
  ASSUME TypeOK, [Next]_vars
  PROVE  TypeOK'
<1>1. ASSUME NEW s \in Slot, DaemonRun(s) PROVE TypeOK'
  BY <1>1, StageType DEF DaemonRun, Starts, GoTo, TypeOK, Kind
<1>2. ASSUME NEW s \in Slot, CliStarts(s) PROVE TypeOK'
  <2>1. PICK k \in Kind, p \in NewPids : Starts(s, k, p) /\ alive' = alive \cup {p}
    BY <1>2 DEF CliStarts
  <2>2. p \in Pid
    BY DEF NewPids
  <2>3. stage' \in [Slot -> Stage]
    BY <2>1, StageType DEF Starts, GoTo, TypeOK
  <2> QED
    BY <2>1, <2>2, <2>3 DEF Starts, TypeOK
<1>3. CASE Refuse
  BY <1>3 DEF Refuse, TypeOK
<1>4. CASE DaemonStarts
  BY <1>4 DEF DaemonStarts, NewPids, TypeOK
<1>5. ASSUME NEW p \in alive, Kill(p) PROVE TypeOK'
  BY <1>5, EndsType DEF Kill, TypeOK
<1>6. ASSUME NEW p \in termed, Terminates(p) PROVE TypeOK'
  BY <1>6, EndsType DEF Terminates, TypeOK
<1>7. CASE StopReads
  BY <1>7 DEF StopReads, TypeOK
<1>8. CASE StopChecks
  BY <1>8 DEF StopChecks, StopGoesTo, StopReturns, TypeOK
<1>9. CASE StopSignals
  BY <1>9 DEF StopSignals, StopGoesTo, StopReturns, TypeOK
<1>10. CASE StopSeesEnd
  BY <1>10 DEF StopSeesEnd, StopReturns, TypeOK
<1>11. CASE StopGivesUp
  BY <1>11, EndsType DEF StopGivesUp, StopReturns, TypeOK
<1>12. ASSUME NEW s \in Slot, RunStep(s) PROVE TypeOK'
  BY <1>12, RunStepType
<1>13. CASE UNCHANGED vars
  BY <1>13 DEF TypeOK
<1> QED
  BY <1>1, <1>2, <1>3, <1>4, <1>5, <1>6, <1>7, <1>8, <1>9, <1>10, <1>11, <1>12, <1>13
     DEF Next

LEMMA InitTypes ==
  ASSUME Init
  PROVE  TypeOK
<1>1. /\ stage \in [Slot -> Stage] /\ kind \in [Slot -> Kind]
      /\ owner \in [Slot -> Pid \cup {NoPid}] /\ mounts \in [Role -> Nat]
  BY StageType DEF Init, Kind
<1>2. stop \in [step : {"idle", "check", "signal", "wait"}, pid : Pid \cup {NoPid}]
  BY DEF Init
<1> QED
  BY <1>1, <1>2 DEF Init, TypeOK

\* The types of processes, files and activities, for any number of them.
THEOREM TypeCorrect == Spec => []TypeOK
<1>1. Init => TypeOK
  BY InitTypes
<1>2. TypeOK /\ [Next]_vars => TypeOK'
  BY TypeStep
<1> QED
  BY <1>1, <1>2, PTL DEF Spec

(***************************************************************************)
(* What run.pid implies.                                                   *)
(***************************************************************************)

\* What an activity does at a stage, whatever the mount point.
LEMMA Operation ==
  /\ Idle[1] = "idle" /\ Engine[1] = "engine"
  /\ <<"write pid", "none">>[1] = "write pid" /\ <<"remove pid", "none">>[1] = "remove pid"
  /\ \A r : <<"check", r>>[1] = "check" /\ <<"mount", r>>[1] = "mount" /\ <<"unmount", r>>[1] = "unmount"
  BY DEF Idle, Engine

\* An activity at another stage can do as it likes.
LEMMA PidStands ==
  ASSUME PidInv, NEW s \in Slot, ~Recorded(s),
         \A t \in Slot \ {s} : UNCHANGED <<stage[t], kind[t], owner[t]>>,
         runPid' \in alive' => runPid' = runPid /\ runPid \in alive,
         stage[s]' \in {<<"write pid", "none">>, <<"remove pid", "none">>} => kind[s]' = "run",
         TypeOK'
  PROVE  PidInv'
  BY DEF PidInv, Recorded

\* A process that ends takes its activities along.
LEMMA PidAfterEnd ==
  ASSUME PidInv, NEW p \in Pid, Ends(p), UNCHANGED <<kind, owner>>,
         runPid' \in {runPid, NoPid}, TypeOK'
  PROVE  PidInv'
<1>1. ASSUME NEW s \in Slot, stage'[s] \in {<<"write pid", "none">>, <<"remove pid", "none">>}
      PROVE  kind'[s] = "run"
  BY <1>1 DEF PidInv, Ends, TypeOK, Idle
<1>2. ASSUME runPid' \in alive'
      PROVE  \E s \in Slot : Recorded(s)' /\ owner'[s] = runPid'
  <2>1. runPid' = runPid /\ runPid \in alive /\ runPid # p
    <3>1. alive' = alive \ {p} /\ NoPid \notin alive
      BY PidAssumption DEF Ends, PidInv, TypeOK
    <3> QED
      BY <1>2, <3>1
  <2>2. PICK s \in Slot : Recorded(s) /\ owner[s] = runPid
    BY <2>1 DEF PidInv
  <2>3. stage'[s] = stage[s]
    BY <2>1, <2>2 DEF Ends
  <2> QED
    BY <2>1, <2>2, <2>3 DEF Recorded
<1> QED
  BY <1>1, <1>2 DEF PidInv

\* Every step of a run keeps it.
LEMMA PidRunStep ==
  ASSUME PidInv, NEW s \in Slot, RunStep(s), TypeOK'
  PROVE  PidInv'
<1>0. /\ TypeOK /\ stage \in [Slot -> Stage] /\ kind \in [Slot -> Kind]
      /\ owner \in [Slot -> Pid \cup {NoPid}] /\ alive \subseteq Pid
      /\ runPid \in Pid \cup {NoPid} /\ NoPid \notin Pid
  BY PidAssumption DEF PidInv, TypeOK
<1> DEFINE Others == \A t \in Slot \ {s} : UNCHANGED <<stage[t], kind[t], owner[t]>>
<1>1. ASSUME NEW r \in Role, CheckMounted(s, r) PROVE PidInv'
  <2>1. Others /\ ~Recorded(s) /\ runPid' = runPid /\ alive' = alive
    BY <1>0, <1>1 DEF CheckMounted, Proceed, GoTo, Recorded, Engine
  <2>2. stage[s]' \in {<<"write pid", "none">>, <<"remove pid", "none">>} => kind[s]' = "run"
    BY <1>0, <1>1 DEF CheckMounted, Proceed, GoTo, AfterMount, Engine
  <2> QED
    BY <2>1, <2>2, PidStands
<1>2. ASSUME NEW r \in Role, MountShare(s, r) PROVE PidInv'
  <2>1. Others /\ ~Recorded(s) /\ runPid' = runPid /\ alive' = alive
    BY <1>0, <1>2 DEF MountShare, Proceed, GoTo, Recorded, Engine
  <2>2. stage[s]' \in {<<"write pid", "none">>, <<"remove pid", "none">>} => kind[s]' = "run"
    BY <1>0, <1>2 DEF MountShare, Proceed, GoTo, AfterMount, Engine
  <2> QED
    BY <2>1, <2>2, PidStands
<1>3. ASSUME NEW r \in Role, MountFails(s, r) \/ Unmount(s, r) PROVE PidInv'
  <2>1. stage[s] \in {<<"mount", r>>, <<"unmount", r>>} /\ runPid' = runPid
    BY <1>3 DEF MountFails, Unmount
  <2>2. Proceed(s, <<"unmount", "source">>) \/ Return(s)
    BY <1>3 DEF MountFails, Unmount
  <2>3. kind' = kind /\ owner' = owner
    BY <1>3 DEF MountFails, Unmount
  <2>4. PICK st \in {<<"unmount", "source">>, Idle} : stage' = [stage EXCEPT ![s] = st]
    BY <2>2 DEF Proceed, Return, GoTo
  <2>5. alive' \subseteq alive
    BY <2>2 DEF Proceed, Return
  <2>6. Others
    BY <1>0, <2>3, <2>4
  <2>7. ~Recorded(s)
    BY <2>1, Operation DEF Recorded
  <2>8. stage'[s] \notin {<<"write pid", "none">>, <<"remove pid", "none">>}
    BY <1>0, <2>4, Operation
  <2> QED
    BY <2>1, <2>5, <2>6, <2>7, <2>8, PidStands
<1>4. CASE WriteRunPID(s)
  <2>1. /\ stage' = [stage EXCEPT ![s] = Engine] /\ kind[s] = "run"
        /\ runPid' \in {owner[s], runPid, NoPid} /\ UNCHANGED <<kind, owner, alive>>
    BY <1>4 DEF WriteRunPID, Proceed, GoTo, PidInv
  <2>2. Recorded(s)'
    BY <1>0, <2>1 DEF Recorded
  <2>3. \A t \in Slot : stage'[t] \in {<<"write pid", "none">>, <<"remove pid", "none">>}
          => kind'[t] = "run"
    BY <1>0, <2>1 DEF PidInv, Engine
  <2>4. \A t \in Slot : Recorded(t) => Recorded(t)'
    BY <1>0, <2>1 DEF Recorded
  <2>5. CASE runPid' = owner[s]
    BY <2>1, <2>2, <2>3, <2>5 DEF PidInv
  <2>6. CASE runPid' = runPid
    BY <2>1, <2>3, <2>4, <2>6 DEF PidInv
  <2>7. CASE runPid' = NoPid
    BY <1>0, <2>1, <2>3, <2>7 DEF PidInv
  <2> QED
    BY <2>1, <2>5, <2>6, <2>7
<1>5. CASE EngineReturns(s)
  <2>1. /\ stage[s] = Engine
        /\ stage' = [stage EXCEPT ![s] = IF kind[s] = "run" THEN <<"remove pid", "none">>
                                        ELSE <<"unmount", "destination">>]
        /\ UNCHANGED <<kind, owner, alive, runPid>>
    BY <1>5 DEF EngineReturns, Proceed, GoTo
  <2>2. \A t \in Slot : Recorded(t) => Recorded(t)'
    BY <1>0, <2>1 DEF Recorded
  <2>3. \A t \in Slot : stage'[t] \in {<<"write pid", "none">>, <<"remove pid", "none">>}
          => kind'[t] = "run"
    BY <1>0, <2>1 DEF PidInv
  <2> QED
    BY <2>1, <2>2, <2>3 DEF PidInv
<1>6. CASE RemoveRunPID(s)
  <2>1. runPid' = NoPid /\ stage' = [stage EXCEPT ![s] = <<"unmount", "destination">>]
        /\ UNCHANGED <<kind, alive>>
    BY <1>6 DEF RemoveRunPID, Proceed, GoTo
  <2>2. \A t \in Slot : stage'[t] \in {<<"write pid", "none">>, <<"remove pid", "none">>}
          => kind'[t] = "run"
    BY <1>0, <2>1 DEF PidInv
  <2> QED
    BY <1>0, <2>1, <2>2 DEF PidInv
<1> QED
  BY <1>1, <1>2, <1>3, <1>4, <1>5, <1>6 DEF RunStep

LEMMA PidStep ==
  ASSUME PidInv, [Next]_vars, ~ReusePids
  PROVE  PidInv'
<1>0. /\ TypeOK /\ stage \in [Slot -> Stage] /\ alive \subseteq Pid
      /\ runPid \in Pid \cup {NoPid} /\ NoPid \notin Pid /\ TypeOK'
      /\ kind \in [Slot -> Kind] /\ owner \in [Slot -> Pid \cup {NoPid}]
  BY TypeStep, PidAssumption DEF PidInv, TypeOK
<1>1. ASSUME NEW s \in Slot, NEW k, NEW p, Starts(s, k, p),
             runPid \in alive' => runPid \in alive
      PROVE  PidInv'
  <2>1. \A t \in Slot \ {s} : UNCHANGED <<stage[t], kind[t], owner[t]>>
    BY <1>0, <1>1 DEF Starts, GoTo
  <2>2. ~Recorded(s) /\ runPid' = runPid
    BY <1>1 DEF Starts, Recorded, Idle, Engine
  <2>3. stage'[s] \notin {<<"write pid", "none">>, <<"remove pid", "none">>}
    BY <1>0, <1>1 DEF Starts, GoTo
  <2> QED
    BY <1>0, <1>1, <2>1, <2>2, <2>3, PidStands
<1>2. ASSUME NEW s \in Slot, DaemonRun(s) PROVE PidInv'
  BY <1>1, <1>2 DEF DaemonRun
<1>3. ASSUME NEW s \in Slot, CliStarts(s) PROVE PidInv'
  <2>1. PICK k \in Kind, p \in NewPids : Starts(s, k, p) /\ alive' = alive \cup {p}
    BY <1>3 DEF CliStarts
  <2>2. p # runPid
    BY DEF NewPids
  <2> QED
    BY <1>1, <2>1, <2>2
<1>4. CASE UNCHANGED <<runPid, stage, kind, owner>> /\ (runPid \in alive' => runPid \in alive)
  BY <1>0, <1>4 DEF PidInv, Recorded
<1>5. CASE runPid' = NoPid /\ UNCHANGED <<stage, kind, owner, alive>>
  BY <1>0, <1>5 DEF PidInv
<1>6. CASE Refuse
  BY <1>4, <1>6 DEF Refuse
<1>7. CASE DaemonStarts
  <2>1. PICK p \in NewPids : alive' = alive \cup {p}
    BY <1>7 DEF DaemonStarts
  <2>2. p # runPid
    BY DEF NewPids
  <2> QED
    BY <1>4, <1>7, <2>1, <2>2 DEF DaemonStarts
<1>8. ASSUME NEW p \in alive, Kill(p) PROVE PidInv'
  BY <1>0, <1>8, PidAfterEnd DEF Kill
<1>9. ASSUME NEW p \in termed, Terminates(p) PROVE PidInv'
  BY <1>0, <1>9, PidAfterEnd DEF Terminates, TypeOK
<1>10. CASE StopReads
  BY <1>4, <1>10 DEF StopReads
<1>11. CASE StopChecks
  BY <1>4, <1>5, <1>11 DEF StopChecks
<1>12. CASE StopSignals
  BY <1>4, <1>12 DEF StopSignals
<1>13. CASE StopSeesEnd
  BY <1>5, <1>13 DEF StopSeesEnd
<1>14. CASE StopGivesUp
  BY <1>0, <1>4, <1>14, PidAfterEnd DEF StopGivesUp
<1>15. ASSUME NEW s \in Slot, RunStep(s) PROVE PidInv'
  BY <1>0, <1>15, PidRunStep
<1>16. CASE UNCHANGED vars
  BY <1>4, <1>16
<1> QED
  BY <1>2, <1>3, <1>6, <1>7, <1>8, <1>9, <1>10, <1>11, <1>12, <1>13, <1>14, <1>15, <1>16
     DEF Next

\* While process IDs are not used again, a process that lives and is in run.pid has
\* a run that has not yet removed the file: any number of runs, restores, stops,
\* kills.
THEOREM PidInvariant ==
  ASSUME ~ReusePids
  PROVE  Spec => []PidInv
<1>1. Init => PidInv
  <2> SUFFICES ASSUME Init PROVE PidInv
    OBVIOUS
  <2>1. TypeOK
    BY InitTypes
  <2> QED
    BY <2>1, PidAssumption DEF Init, PidInv, Idle
<1>2. PidInv /\ [Next]_vars => PidInv'
  BY PidStep
<1> QED
  BY <1>1, <1>2, PTL DEF Spec

\* A job that IsJobRunning reports is then being run by the process that run.pid
\* names.
THEOREM RunningIsRunning ==
  ASSUME ~ReusePids
  PROVE  Spec => []SeenRunningIsRunning
<1>1. Spec => []PidInv
  BY PidInvariant
<1>2. PidInv => SeenRunningIsRunning
  <2>1. \A s \in Slot : Recorded(s) => kind[s] = "run" /\ stage[s] # Idle
    BY Operation DEF Recorded
  <2> QED
    BY <2>1 DEF PidInv, SeenRunningIsRunning, Runs
<1> QED
  BY <1>1, <1>2, PTL

(***************************************************************************)
(* One activity at a time.                                                 *)
(***************************************************************************)

\* A stage is an operation and a mount point.
LEMMA StageEqual == \A q, r, p, t : <<q, r>> = <<p, t>> <=> q = p /\ r = t
  OBVIOUS

\* At which stages an activity holds the destination, and the source.
LEMMA HoldingDestination ==
  /\ Idle \notin Holding("destination")
  /\ {Engine, <<"write pid", "none">>, <<"remove pid", "none">>, <<"unmount", "destination">>}
       \subseteq Holding("destination")
  /\ \A r : <<"check", r>> \notin Holding("destination") /\ <<"mount", r>> \notin Holding("destination")
  /\ <<"unmount", "source">> \notin Holding("destination")
  BY StageEqual, Zenon DEF Holding, Idle, Engine

LEMMA HoldingSource ==
  /\ Idle \notin Holding("source")
  /\ {Engine, <<"write pid", "none">>, <<"remove pid", "none">>, <<"unmount", "destination">>,
       <<"unmount", "source">>, <<"check", "destination">>, <<"mount", "destination">>}
       \subseteq Holding("source")
  /\ <<"check", "source">> \notin Holding("source")
  /\ <<"mount", "source">> \notin Holding("source")
  BY StageEqual, Zenon DEF Holding, Idle, Engine

PidStage == {<<"write pid", "none">>, <<"remove pid", "none">>}
SourceStage == {<<"check", "source">>, <<"mount", "source">>, <<"unmount", "source">>}

\* What an activity holds and shows at stage st.
AtStage(st) ==
  LET hs == st \in Holding("source")
      hd == st \in Holding("destination")
      rec == st \in {Engine, <<"remove pid", "none">>}
  IN  /\ st = Idle =>
           ~hs /\ ~hd /\ ~rec /\ st \notin PidStage /\ st \notin SourceStage
      /\ st \in {<<"check", "source">>, <<"mount", "source">>} =>
           ~hs /\ ~hd /\ ~rec /\ st \notin PidStage
      /\ st = <<"unmount", "source">> =>
           hs /\ ~hd /\ ~rec /\ st \notin PidStage
      /\ st \in {<<"check", "destination">>, <<"mount", "destination">>} =>
           hs /\ ~hd /\ ~rec /\ st \notin PidStage /\ st \notin SourceStage
      /\ st = <<"unmount", "destination">> =>
           hs /\ hd /\ ~rec /\ st \notin PidStage /\ st \notin SourceStage
      /\ st = <<"write pid", "none">> =>
           hs /\ hd /\ ~rec /\ st \notin SourceStage
      /\ st = Engine =>
           hs /\ hd /\ rec /\ st \notin PidStage /\ st \notin SourceStage
      /\ st = <<"remove pid", "none">> =>
           hs /\ hd /\ rec /\ st \notin SourceStage

LEMMA AtEachStage == \A st : AtStage(st)
<1> SUFFICES ASSUME NEW st PROVE AtStage(st)
  OBVIOUS
<1>1. CASE st = Idle
  BY <1>1, StageEqual, Zenon DEF AtStage, PidStage, SourceStage, Holding, Idle, Engine
<1>2. CASE st = <<"check", "source">>
  BY <1>2, StageEqual, Zenon DEF AtStage, PidStage, SourceStage, Holding, Idle, Engine
<1>3. CASE st = <<"mount", "source">>
  BY <1>3, StageEqual, Zenon DEF AtStage, PidStage, SourceStage, Holding, Idle, Engine
<1>4. CASE st = <<"unmount", "source">>
  BY <1>4, StageEqual, Zenon DEF AtStage, PidStage, SourceStage, Holding, Idle, Engine
<1>5. CASE st = <<"check", "destination">>
  BY <1>5, StageEqual, Zenon DEF AtStage, PidStage, SourceStage, Holding, Idle, Engine
<1>6. CASE st = <<"mount", "destination">>
  BY <1>6, StageEqual, Zenon DEF AtStage, PidStage, SourceStage, Holding, Idle, Engine
<1>7. CASE st = <<"unmount", "destination">>
  BY <1>7, StageEqual, Zenon DEF AtStage, PidStage, SourceStage, Holding, Idle, Engine
<1>8. CASE st = <<"write pid", "none">>
  BY <1>8, StageEqual, Zenon DEF AtStage, PidStage, SourceStage, Holding, Idle, Engine
<1>9. CASE st = Engine
  BY <1>9, StageEqual, Zenon DEF AtStage, PidStage, SourceStage, Holding, Idle, Engine
<1>10. CASE st = <<"remove pid", "none">>
  BY <1>10, StageEqual, Zenon DEF AtStage, PidStage, SourceStage, Holding, Idle, Engine
<1> QED
  BY <1>1, <1>2, <1>3, <1>4, <1>5, <1>6, <1>7, <1>8, <1>9, <1>10 DEF AtStage

\* Role r's share is mounted at most once, surely if b, and only then unless it is
\* one of l.
Share(m, l, r, b) == m[r] \in {0, 1} /\ (b => m[r] = 1) /\ (m[r] = 1 => b \/ r \in l)

\* The activity holds the source, and the destination.
Only(m, l, src, dst) == Share(m, l, "source", src) /\ Share(m, l, "destination", dst)

\* No run.pid is needed, nor there unless it is one of l.
Quiet(rp, l) == rp # NoPid => "run.pid" \in l

\* What Orderly says of an activity of kind k at stage st.
OrderlyOf(st, k, m, rp, l) ==
  LET holds(r) == st \in Holding(r) /\ (r = "source" => MountsSource(k))
      rec == k = "run" /\ st \in {Engine, <<"remove pid", "none">>}
  IN  /\ st \in PidStage => k = "run"
      /\ st \in SourceStage => MountsSource(k)
      /\ \A r \in Role :
           /\ m[r] \in {0, 1}
           /\ holds(r) => m[r] = 1
           /\ m[r] = 1 => holds(r) \/ r \in l
           /\ st = <<"mount", r>> => m[r] = 0
      /\ rp # NoPid => rec \/ "run.pid" \in l

LEMMA OrderlyIs ==
  ASSUME NEW s
  PROVE  /\ Orderly(s) <=> OrderlyOf(stage[s], kind[s], mounts, runPid, left)
         /\ Orderly(s)' <=> OrderlyOf(stage'[s], kind'[s], mounts', runPid', left')
  BY DEF Orderly, OrderlyOf, Holds, Recorded, PidStage, SourceStage

\* The same, stage by stage.
OrderlyTable(st, k, m, rp, l) ==
  LET ms == MountsSource(k)
  IN  /\ st = Idle =>
           (OrderlyOf(st, k, m, rp, l) <=> Only(m, l, FALSE, FALSE) /\ Quiet(rp, l))
      /\ st = <<"check", "source">> =>
           (OrderlyOf(st, k, m, rp, l) <=> ms /\ Only(m, l, FALSE, FALSE) /\ Quiet(rp, l))
      /\ st = <<"mount", "source">> =>
           (OrderlyOf(st, k, m, rp, l) <=>
              ms /\ m["source"] = 0 /\ Only(m, l, FALSE, FALSE) /\ Quiet(rp, l))
      /\ st = <<"unmount", "source">> =>
           (OrderlyOf(st, k, m, rp, l) <=> ms /\ Only(m, l, TRUE, FALSE) /\ Quiet(rp, l))
      /\ st = <<"check", "destination">> =>
           (OrderlyOf(st, k, m, rp, l) <=> Only(m, l, ms, FALSE) /\ Quiet(rp, l))
      /\ st = <<"mount", "destination">> =>
           (OrderlyOf(st, k, m, rp, l) <=>
              m["destination"] = 0 /\ Only(m, l, ms, FALSE) /\ Quiet(rp, l))
      /\ st = <<"unmount", "destination">> =>
           (OrderlyOf(st, k, m, rp, l) <=> Only(m, l, ms, TRUE) /\ Quiet(rp, l))
      /\ st = <<"write pid", "none">> =>
           (OrderlyOf(st, k, m, rp, l) <=> k = "run" /\ Only(m, l, ms, TRUE) /\ Quiet(rp, l))
      /\ st = Engine =>
           (OrderlyOf(st, k, m, rp, l) <=> Only(m, l, ms, TRUE) /\ (k = "run" \/ Quiet(rp, l)))
      /\ st = <<"remove pid", "none">> =>
           (OrderlyOf(st, k, m, rp, l) <=> k = "run" /\ Only(m, l, ms, TRUE))

LEMMA OrderlyAtStage ==
  ASSUME NEW st, NEW k, NEW m, NEW rp, NEW l
  PROVE  OrderlyTable(st, k, m, rp, l)
<1> DEFINE hs == st \in Holding("source")
<1> DEFINE hd == st \in Holding("destination")
<1> DEFINE rec == st \in {Engine, <<"remove pid", "none">>}
<1> DEFINE ms == MountsSource(k)
<1>1. OrderlyOf(st, k, m, rp, l) <=>
        /\ st \in PidStage => k = "run"
        /\ st \in SourceStage => ms
        /\ Only(m, l, hs /\ ms, hd)
        /\ st = <<"mount", "source">> => m["source"] = 0
        /\ st = <<"mount", "destination">> => m["destination"] = 0
        /\ rp # NoPid => (k = "run" /\ rec) \/ "run.pid" \in l
  BY DEF OrderlyOf, Role, Only, Share
<1>2. ASSUME st = Idle
     PROVE  OrderlyOf(st, k, m, rp, l) <=> Only(m, l, FALSE, FALSE) /\ Quiet(rp, l)
  <2>1. ~hs /\ ~hd /\ ~rec /\ st \notin PidStage /\ st \notin SourceStage
    BY <1>2, AtEachStage DEF AtStage, PidStage, SourceStage
  <2>2. st # <<"mount", "source">> /\ st # <<"mount", "destination">>
    BY <1>2, StageEqual, Zenon DEF Idle, Engine
  <2> HIDE DEF hs, hd, rec, ms
  <2> QED
    BY <1>1, <1>2, <2>1, <2>2 DEF Only, Share, Quiet
<1>3. ASSUME st = <<"check", "source">>
     PROVE  OrderlyOf(st, k, m, rp, l) <=> ms /\ Only(m, l, FALSE, FALSE) /\ Quiet(rp, l)
  <2>1. ~hs /\ ~hd /\ ~rec /\ st \notin PidStage /\ st \in SourceStage
    BY <1>3, AtEachStage DEF AtStage, PidStage, SourceStage
  <2>2. st # <<"mount", "source">> /\ st # <<"mount", "destination">>
    BY <1>3, StageEqual, Zenon DEF Idle, Engine
  <2> HIDE DEF hs, hd, rec, ms
  <2> QED
    BY <1>1, <1>3, <2>1, <2>2 DEF Only, Share, Quiet
<1>4. ASSUME st = <<"mount", "source">>
     PROVE  OrderlyOf(st, k, m, rp, l) <=> ms /\ m["source"] = 0 /\ Only(m, l, FALSE, FALSE) /\ Quiet(rp, l)
  <2>1. ~hs /\ ~hd /\ ~rec /\ st \notin PidStage /\ st \in SourceStage
    BY <1>4, AtEachStage DEF AtStage, PidStage, SourceStage
  <2>2. st # <<"mount", "destination">>
    BY <1>4, StageEqual, Zenon DEF Idle, Engine
  <2> HIDE DEF hs, hd, rec, ms
  <2> QED
    BY <1>1, <1>4, <2>1, <2>2 DEF Only, Share, Quiet
<1>5. ASSUME st = <<"unmount", "source">>
     PROVE  OrderlyOf(st, k, m, rp, l) <=> ms /\ Only(m, l, TRUE, FALSE) /\ Quiet(rp, l)
  <2>1. hs /\ ~hd /\ ~rec /\ st \notin PidStage /\ st \in SourceStage
    BY <1>5, AtEachStage DEF AtStage, PidStage, SourceStage
  <2>2. st # <<"mount", "source">> /\ st # <<"mount", "destination">>
    BY <1>5, StageEqual, Zenon DEF Idle, Engine
  <2> HIDE DEF hs, hd, rec, ms
  <2> QED
    BY <1>1, <1>5, <2>1, <2>2 DEF Only, Share, Quiet
<1>6. ASSUME st = <<"check", "destination">>
     PROVE  OrderlyOf(st, k, m, rp, l) <=> Only(m, l, ms, FALSE) /\ Quiet(rp, l)
  <2>1. hs /\ ~hd /\ ~rec /\ st \notin PidStage /\ st \notin SourceStage
    BY <1>6, AtEachStage DEF AtStage, PidStage, SourceStage
  <2>2. st # <<"mount", "source">> /\ st # <<"mount", "destination">>
    BY <1>6, StageEqual, Zenon DEF Idle, Engine
  <2> HIDE DEF hs, hd, rec, ms
  <2> QED
    BY <1>1, <1>6, <2>1, <2>2 DEF Only, Share, Quiet
<1>7. ASSUME st = <<"mount", "destination">>
     PROVE  OrderlyOf(st, k, m, rp, l) <=> m["destination"] = 0 /\ Only(m, l, ms, FALSE) /\ Quiet(rp, l)
  <2>1. hs /\ ~hd /\ ~rec /\ st \notin PidStage /\ st \notin SourceStage
    BY <1>7, AtEachStage DEF AtStage, PidStage, SourceStage
  <2>2. st # <<"mount", "source">>
    BY <1>7, StageEqual, Zenon DEF Idle, Engine
  <2> HIDE DEF hs, hd, rec, ms
  <2> QED
    BY <1>1, <1>7, <2>1, <2>2 DEF Only, Share, Quiet
<1>8. ASSUME st = <<"unmount", "destination">>
     PROVE  OrderlyOf(st, k, m, rp, l) <=> Only(m, l, ms, TRUE) /\ Quiet(rp, l)
  <2>1. hs /\ hd /\ ~rec /\ st \notin PidStage /\ st \notin SourceStage
    BY <1>8, AtEachStage DEF AtStage, PidStage, SourceStage
  <2>2. st # <<"mount", "source">> /\ st # <<"mount", "destination">>
    BY <1>8, StageEqual, Zenon DEF Idle, Engine
  <2> HIDE DEF hs, hd, rec, ms
  <2> QED
    BY <1>1, <1>8, <2>1, <2>2 DEF Only, Share, Quiet
<1>9. ASSUME st = <<"write pid", "none">>
     PROVE  OrderlyOf(st, k, m, rp, l) <=> k = "run" /\ Only(m, l, ms, TRUE) /\ Quiet(rp, l)
  <2>1. hs /\ hd /\ ~rec /\ st \in PidStage /\ st \notin SourceStage
    BY <1>9, AtEachStage DEF AtStage, PidStage, SourceStage
  <2>2. st # <<"mount", "source">> /\ st # <<"mount", "destination">>
    BY <1>9, StageEqual, Zenon DEF Idle, Engine
  <2> HIDE DEF hs, hd, rec, ms
  <2> QED
    BY <1>1, <1>9, <2>1, <2>2 DEF Only, Share, Quiet
<1>10. ASSUME st = Engine
     PROVE  OrderlyOf(st, k, m, rp, l) <=> Only(m, l, ms, TRUE) /\ (k = "run" \/ Quiet(rp, l))
  <2>1. hs /\ hd /\ rec /\ st \notin PidStage /\ st \notin SourceStage
    BY <1>10, AtEachStage DEF AtStage, PidStage, SourceStage
  <2>2. st # <<"mount", "source">> /\ st # <<"mount", "destination">>
    BY <1>10, StageEqual, Zenon DEF Idle, Engine
  <2> HIDE DEF hs, hd, rec, ms
  <2> QED
    BY <1>1, <1>10, <2>1, <2>2 DEF Only, Share, Quiet
<1>11. ASSUME st = <<"remove pid", "none">>
     PROVE  OrderlyOf(st, k, m, rp, l) <=> k = "run" /\ Only(m, l, ms, TRUE)
  <2>1. hs /\ hd /\ rec /\ st \in PidStage /\ st \notin SourceStage
    BY <1>11, AtEachStage DEF AtStage, PidStage, SourceStage
  <2>2. st # <<"mount", "source">> /\ st # <<"mount", "destination">>
    BY <1>11, StageEqual, Zenon DEF Idle, Engine
  <2> HIDE DEF hs, hd, rec, ms
  <2> QED
    BY <1>1, <1>11, <2>1, <2>2 DEF Only, Share, Quiet
<1> QED
  BY <1>2, <1>3, <1>4, <1>5, <1>6, <1>7, <1>8, <1>9, <1>10, <1>11 DEF OrderlyTable

LEMMA AloneRunStep ==
  ASSUME AloneInv, NEW s \in Slot, Slot = {s}, RunStep(s), TypeOK'
  PROVE  Orderly(s)'
<1>0. /\ stage \in [Slot -> Stage] /\ mounts \in [Role -> Nat] /\ kind[s] \in Kind
      /\ Role = {"source", "destination"}
      /\ OrderlyOf(stage[s], kind[s], mounts, runPid, left)
  BY OrderlyIs DEF AloneInv, TypeOK, Role
<1>t. /\ OrderlyTable(stage[s], kind[s], mounts, runPid, left)
      /\ OrderlyTable(stage'[s], kind'[s], mounts', runPid', left')
  BY OrderlyAtStage
<1> DEFINE ms == MountsSource(kind[s])
<1> SUFFICES OrderlyOf(stage'[s], kind'[s], mounts', runPid', left')
  BY OrderlyIs
<1>1. ASSUME NEW r \in Role, CheckMounted(s, r)
      PROVE  OrderlyOf(stage'[s], kind'[s], mounts', runPid', left')
  <2>1. /\ stage[s] = <<"check", r>> /\ UNCHANGED <<mounts, runPid, kind, left>>
        /\ stage'[s] = IF mounts[r] > 0 THEN AfterMount(s, r) ELSE <<"mount", r>>
    BY <1>0, <1>1 DEF CheckMounted, Proceed, GoTo
  <2>2. CASE r = "source"
    <3>1. ms /\ Only(mounts, left, FALSE, FALSE) /\ Quiet(runPid, left)
      BY <1>0, <2>1, <2>2, <1>t DEF OrderlyTable
    <3>2. CASE mounts["source"] = 0
      <4>1. stage'[s] = <<"mount", "source">>
        BY <2>1, <2>2, <3>2
      <4> QED
        BY <2>1, <3>1, <3>2, <4>1, <1>t DEF OrderlyTable
    <3>3. CASE mounts["source"] = 1
      <4>1. stage'[s] = <<"check", "destination">>
        BY <2>1, <2>2, <3>3 DEF AfterMount
      <4>2. Only(mounts, left, ms, FALSE)
        BY <3>1, <3>3 DEF Only, Share
      <4> QED
        BY <2>1, <3>1, <4>1, <4>2, <1>t DEF OrderlyTable
    <3> QED
      BY <3>1, <3>2, <3>3 DEF Only, Share
  <2>3. CASE r = "destination"
    <3>1. Only(mounts, left, ms, FALSE) /\ Quiet(runPid, left)
      BY <1>0, <2>1, <2>3, <1>t DEF OrderlyTable
    <3>2. CASE mounts["destination"] = 0
      <4>1. stage'[s] = <<"mount", "destination">>
        BY <2>1, <2>3, <3>2
      <4>2. /\ mounts'["destination"] = 0 /\ Quiet(runPid', left')
            /\ Only(mounts', left', MountsSource(kind'[s]), FALSE)
        BY <2>1, <3>1, <3>2
      <4> QED
        BY <4>1, <4>2, <1>t DEF OrderlyTable
    <3>3. CASE mounts["destination"] = 1
      <4>1. stage'[s] = IF kind[s] = "run" THEN <<"write pid", "none">> ELSE Engine
        <5>1. mounts[r] > 0
          BY <2>3, <3>3
        <5> QED
          BY <2>1, <2>3, <5>1 DEF AfterMount
      <4>2. Only(mounts, left, ms, TRUE)
        BY <3>1, <3>3 DEF Only, Share
      <4> QED
        BY <2>1, <3>1, <4>1, <4>2, <1>t DEF OrderlyTable
    <3> QED
      BY <3>1, <3>2, <3>3 DEF Only, Share
  <2> QED
    BY <1>0, <2>2, <2>3
<1>2. ASSUME NEW r \in Role, MountShare(s, r)
      PROVE  OrderlyOf(stage'[s], kind'[s], mounts', runPid', left')
  <2>1. /\ stage[s] = <<"mount", r>> /\ UNCHANGED <<runPid, kind, left>>
        /\ mounts' = [mounts EXCEPT ![r] = @ + 1]
        /\ stage'[s] = AfterMount(s, r)
    BY <1>0, <1>2 DEF MountShare, Proceed, GoTo
  <2>2. CASE r = "source"
    <3>1. ms /\ mounts["source"] = 0 /\ Only(mounts, left, FALSE, FALSE) /\ Quiet(runPid, left)
      BY <1>0, <2>1, <2>2, <1>t DEF OrderlyTable
    <3>2. mounts'["source"] = 1 /\ mounts'["destination"] = mounts["destination"]
      BY <1>0, <2>1, <2>2, <3>1
    <3>3. Only(mounts', left, ms, FALSE)
      BY <3>1, <3>2 DEF Only, Share
    <3>4. stage'[s] = <<"check", "destination">>
      BY <2>1, <2>2 DEF AfterMount
    <3> QED
      BY <2>1, <3>1, <3>3, <3>4, <1>t DEF OrderlyTable
  <2>3. CASE r = "destination"
    <3>1. mounts["destination"] = 0 /\ Only(mounts, left, ms, FALSE) /\ Quiet(runPid, left)
      BY <1>0, <2>1, <2>3, <1>t DEF OrderlyTable
    <3>2. mounts'["destination"] = 1 /\ mounts'["source"] = mounts["source"]
      BY <1>0, <2>1, <2>3, <3>1
    <3>3. Only(mounts', left, ms, TRUE)
      BY <3>1, <3>2 DEF Only, Share
    <3>4. stage'[s] = IF kind[s] = "run" THEN <<"write pid", "none">> ELSE Engine
      BY <2>1, <2>3 DEF AfterMount
    <3> QED
      BY <2>1, <3>1, <3>3, <3>4, <1>t DEF OrderlyTable
  <2> QED
    BY <1>0, <2>2, <2>3
<1>3. ASSUME NEW r \in Role, MountFails(s, r)
      PROVE  OrderlyOf(stage'[s], kind'[s], mounts', runPid', left')
  <2>1. /\ stage[s] = <<"mount", r>> /\ UNCHANGED <<mounts, runPid, kind, left>>
        /\ stage'[s] = IF r = "destination" /\ ms THEN <<"unmount", "source">> ELSE Idle
    BY <1>0, <1>3 DEF MountFails, Proceed, Return, GoTo
  <2>2. CASE r = "source"
    BY <1>0, <2>1, <2>2, <1>t DEF OrderlyTable
  <2>3. CASE r = "destination"
    BY <1>0, <2>1, <2>3, <1>t DEF OrderlyTable, Only, Share
  <2> QED
    BY <1>0, <2>2, <2>3
<1>4. ASSUME NEW r \in Role, Unmount(s, r)
      PROVE  OrderlyOf(stage'[s], kind'[s], mounts', runPid', left')
  <2>1. /\ stage[s] = <<"unmount", r>> /\ UNCHANGED <<runPid, kind>>
        /\ stage'[s] = IF r = "destination" /\ ms THEN <<"unmount", "source">> ELSE Idle
    BY <1>0, <1>4 DEF Unmount, Proceed, Return, GoTo
  <2>2. \/ /\ mounts' = [mounts EXCEPT ![r] = @ - 1] /\ left' = left \ {r}
        \/ /\ mounts' = mounts /\ left' = left \cup {r}
        \/ /\ mounts[r] = 0 /\ mounts' = mounts /\ left' = left
    BY <1>4 DEF Unmount, ReleaseMount, UmountFails
  <2>3. CASE r = "source"
    <3>1. ms /\ Only(mounts, left, TRUE, FALSE) /\ Quiet(runPid, left)
      BY <1>0, <2>1, <2>3, <1>t DEF OrderlyTable
    <3>2. Only(mounts', left', FALSE, FALSE) /\ Quiet(runPid', left')
      BY <1>0, <2>1, <2>2, <2>3, <3>1 DEF Only, Share, Quiet
    <3> QED
      BY <2>1, <2>3, <3>2, <1>t DEF OrderlyTable
  <2>4. CASE r = "destination"
    <3>1. Only(mounts, left, ms, TRUE) /\ Quiet(runPid, left)
      BY <1>0, <2>1, <2>4, <1>t DEF OrderlyTable
    <3>2. Only(mounts', left', ms, FALSE) /\ Quiet(runPid', left')
      BY <1>0, <2>1, <2>2, <2>4, <3>1 DEF Only, Share, Quiet
    <3>3. CASE ms
      <4>1. Only(mounts', left', TRUE, FALSE)
        BY <3>2, <3>3 DEF Only, Share
      <4> QED
        BY <2>1, <2>4, <3>2, <3>3, <4>1, <1>t DEF OrderlyTable
    <3>4. CASE ~ms
      <4>1. Only(mounts', left', FALSE, FALSE)
        BY <3>2, <3>4 DEF Only, Share
      <4> QED
        BY <2>1, <2>4, <3>2, <3>4, <4>1, <1>t DEF OrderlyTable
    <3> QED
      BY <3>3, <3>4
  <2> QED
    BY <1>0, <2>3, <2>4
<1>5. CASE WriteRunPID(s)
  <2>1. /\ stage[s] = <<"write pid", "none">> /\ UNCHANGED <<mounts, kind, left>>
        /\ stage'[s] = Engine
    BY <1>0, <1>5 DEF WriteRunPID, Proceed, GoTo
  <2> QED
    BY <1>0, <2>1, <1>t DEF OrderlyTable
<1>6. CASE EngineReturns(s)
  <2>1. /\ stage[s] = Engine /\ UNCHANGED <<mounts, runPid, kind, left>>
        /\ stage'[s] = IF kind[s] = "run" THEN <<"remove pid", "none">>
                                          ELSE <<"unmount", "destination">>
    BY <1>0, <1>6 DEF EngineReturns, Proceed, GoTo
  <2> QED
    BY <1>0, <2>1, <1>t DEF OrderlyTable
<1>7. CASE RemoveRunPID(s)
  <2>1. /\ stage[s] = <<"remove pid", "none">> /\ UNCHANGED <<mounts, kind>>
        /\ left' = left \ {"run.pid"}
        /\ runPid' = NoPid /\ stage'[s] = <<"unmount", "destination">>
    BY <1>0, <1>7 DEF RemoveRunPID, Proceed, GoTo
  <2>2. Only(mounts, left, ms, TRUE)
    BY <1>0, <2>1, <1>t DEF OrderlyTable
  <2>3. Only(mounts', left', ms, TRUE) /\ Quiet(runPid', left')
    BY <2>1, <2>2 DEF Only, Share, Quiet
  <2> QED
    BY <2>1, <2>3, <1>t DEF OrderlyTable
<1> QED
  BY <1>1, <1>2, <1>3, <1>4, <1>5, <1>6, <1>7 DEF RunStep

\* An activity that has not started, and one that was killed.
LEMMA AloneStarts ==
  ASSUME AloneInv, NEW s \in Slot, NEW k \in Kind, NEW p, Starts(s, k, p)
  PROVE  Orderly(s)'
<1>1. /\ OrderlyTable(stage[s], kind[s], mounts, runPid, left)
      /\ OrderlyTable(stage'[s], kind'[s], mounts', runPid', left')
  BY OrderlyAtStage
<1>2. /\ stage[s] = Idle /\ kind'[s] = k /\ UNCHANGED <<mounts, runPid, left>>
      /\ stage'[s] = <<"check", IF MountsSource(k) THEN "source" ELSE "destination">>
  BY DEF Starts, GoTo, AloneInv, TypeOK, mountPoints
<1>3. Only(mounts, left, FALSE, FALSE) /\ Quiet(runPid, left)
  BY <1>1, <1>2, OrderlyIs DEF OrderlyTable, AloneInv
<1>4. OrderlyOf(stage'[s], kind'[s], mounts', runPid', left')
  <2>1. CASE MountsSource(k)
    BY <1>1, <1>2, <1>3, <2>1 DEF OrderlyTable
  <2>2. CASE ~MountsSource(k)
    <3>1. Only(mounts, left, MountsSource(k), FALSE)
      BY <1>3, <2>2 DEF Only, Share
    <3> QED
      BY <1>1, <1>2, <1>3, <2>2, <3>1 DEF OrderlyTable
  <2> QED
    BY <2>1, <2>2
<1> QED
  BY <1>4, OrderlyIs

LEMMA AloneKill ==
  ASSUME AloneInv, NEW s \in Slot, NEW p, Kill(p)
  PROVE  Orderly(s)'
<1>1. /\ OrderlyTable(stage'[s], kind'[s], mounts', runPid', left')
      /\ UNCHANGED <<mounts, runPid, kind>>
      /\ stage'[s] = IF owner[s] = p THEN Idle ELSE stage[s]
      /\ left' = left \cup Present /\ mounts \in [Role -> Nat]
  BY OrderlyAtStage DEF Kill, Ends, AloneInv, TypeOK, mountPoints
<1>2. CASE stage'[s] = Idle
  <2>1. \A r \in Role : mounts[r] \in {0, 1}
    BY DEF AloneInv, Orderly
  <2>2. \A r \in Role : mounts[r] = 1 => r \in left'
    BY <1>1 DEF Present
  <2>3. Only(mounts', left', FALSE, FALSE)
    BY <1>1, <2>1, <2>2 DEF Only, Share, Role
  <2>4. Quiet(runPid', left')
    BY <1>1 DEF Quiet, Present
  <2> QED
    BY <1>1, <1>2, <2>3, <2>4, OrderlyIs DEF OrderlyTable
<1>3. CASE stage'[s] = stage[s]
  BY <1>1, <1>3 DEF Orderly, Holds, Recorded, AloneInv
<1> QED
  BY <1>1, <1>2, <1>3

LEMMA AloneStep ==
  ASSUME ~MayStop, NEW s0, Slot = {s0}, AloneInv, [Next]_vars
  PROVE  AloneInv'
<1>1. TypeOK /\ TypeOK' /\ stop.step = "idle" /\ termed = {}
  BY TypeStep DEF AloneInv
<1>2. ASSUME \A s \in Slot : Orderly(s)', UNCHANGED stop, termed' \subseteq termed
      PROVE  AloneInv'
  BY <1>1, <1>2 DEF AloneInv
<1>3. ASSUME UNCHANGED <<stage, kind, owner, mounts, runPid, left>>,
             UNCHANGED stop, termed' \subseteq termed
      PROVE  AloneInv'
  <2>1. ASSUME NEW s \in Slot PROVE Orderly(s)'
    BY <1>3, <2>1 DEF AloneInv, Orderly, Holds, Recorded
  <2> QED
    BY <1>2, <1>3, <2>1
<1>4. ASSUME NEW s \in Slot, DaemonRun(s) PROVE AloneInv'
  <2>1. Starts(s, "run", daemon)
    BY <1>4 DEF DaemonRun
  <2>2. Orderly(s)'
    BY <2>1, AloneStarts DEF AloneInv, Kind
  <2> QED
    BY <1>2, <2>1, <2>2 DEF Starts
<1>5. ASSUME NEW s \in Slot, CliStarts(s) PROVE AloneInv'
  <2>1. PICK k \in Kind, p \in NewPids : Starts(s, k, p)
    BY <1>5 DEF CliStarts
  <2>2. Orderly(s)'
    BY <2>1, AloneStarts DEF AloneInv
  <2> QED
    BY <1>2, <2>1, <2>2 DEF Starts
<1>6. ASSUME NEW s \in Slot, RunStep(s) PROVE AloneInv'
  <2>1. Orderly(s)'
    BY <1>1, <1>6, AloneRunStep DEF AloneInv
  <2>2. UNCHANGED stop /\ termed' \subseteq termed
    BY <1>6 DEF RunStep, CheckMounted, MountShare, MountFails, Unmount, WriteRunPID,
                EngineReturns, RemoveRunPID, Proceed, Return
  <2> QED
    BY <1>2, <2>1, <2>2
<1>7. CASE Refuse
  BY <1>3, <1>7 DEF Refuse, mountPoints, processes, activities
<1>8. CASE DaemonStarts
  BY <1>3, <1>8 DEF DaemonStarts, mountPoints, activities
<1>9. ASSUME NEW p \in alive, Kill(p) PROVE AloneInv'
  <2>1. ASSUME NEW s \in Slot PROVE Orderly(s)'
    BY <1>9, AloneKill DEF AloneInv
  <2> QED
    BY <1>2, <1>9, <2>1 DEF Kill, Ends
<1>10. ~StopReads /\ ~StopChecks /\ ~StopSignals /\ ~StopSeesEnd /\ ~StopGivesUp
  BY <1>1 DEF StopReads, StopChecks, StopSignals, StopSeesEnd, StopGivesUp
<1>11. CASE UNCHANGED vars
  BY <1>3, <1>11 DEF vars, mountPoints, processes, activities
<1> QED
  BY <1>1, <1>4, <1>5, <1>6, <1>7, <1>8, <1>9, <1>10, <1>11 DEF Next

\* The invariant of activities that follow one another without `job stop',
\* whatever is killed and whichever mounts fail.
THEOREM AloneInvariant ==
  ASSUME ~MayStop, NEW s0, Slot = {s0}
  PROVE  Spec => []AloneInv
<1>1. Init => AloneInv
  <2> SUFFICES ASSUME Init PROVE AloneInv
    OBVIOUS
  <2>1. ASSUME NEW s \in Slot PROVE Orderly(s)
    <3>1. stage[s] = Idle /\ mounts["source"] = 0 /\ mounts["destination"] = 0 /\ runPid = NoPid
      BY <2>1 DEF Init, Role
    <3>2. Only(mounts, left, FALSE, FALSE) /\ Quiet(runPid, left)
      BY <3>1 DEF Only, Share, Quiet
    <3>3. OrderlyTable(stage[s], kind[s], mounts, runPid, left)
      BY OrderlyAtStage
    <3> QED
      BY <3>1, <3>2, <3>3, OrderlyIs DEF OrderlyTable
  <2> QED
    BY <2>1, InitTypes DEF Init, AloneInv
<1>2. AloneInv /\ [Next]_vars => AloneInv'
  BY AloneStep
<1> QED
  BY <1>1, <1>2, PTL DEF Spec

\* What the invariant says of the engine's shares, of mounts and of the end.
LEMMA AloneImplies ==
  ASSUME NEW s0, Slot = {s0}, AloneInv
  PROVE  MountedWhileRunning /\ MountedOnce /\ Released
<1>1. ASSUME NEW s \in Slot
      PROVE  OrderlyTable(stage[s], kind[s], mounts, runPid, left)
             /\ OrderlyOf(stage[s], kind[s], mounts, runPid, left)
  BY OrderlyIs, OrderlyAtStage DEF AloneInv
<1>2. MountedWhileRunning
  <2> SUFFICES ASSUME NEW s \in Slot, stage[s] = Engine
               PROVE  /\ mounts["destination"] > 0
                      /\ MountsSource(kind[s]) => mounts["source"] > 0
    BY DEF MountedWhileRunning
  <2>1. Only(mounts, left, MountsSource(kind[s]), TRUE)
    BY <1>1 DEF OrderlyTable
  <2> QED
    BY <2>1 DEF Only, Share
<1>3. MountedOnce
  <2>1. Orderly(s0)
    BY DEF AloneInv
  <2>2. \A r \in Role : mounts[r] \in {0, 1}
    BY <2>1, Zenon DEF Orderly
  <2> QED
    BY <2>2 DEF MountedOnce
<1>4. Released
  <2> SUFFICES ASSUME stage[s0] = Idle PROVE Present \subseteq left
    BY DEF Released
  <2>1. Only(mounts, left, FALSE, FALSE) /\ Quiet(runPid, left)
    BY <1>1 DEF OrderlyTable
  <2> QED
    BY <2>1 DEF Present, Only, Share, Quiet, Role
<1> QED
  BY <1>2, <1>3, <1>4

\* While an engine of such a job works, the shares it works on are mounted
\* (mount.Mount, mount.Unmount).
THEOREM AloneIsMounted ==
  ASSUME ~MayStop, NEW s0, Slot = {s0}
  PROVE  Spec => []MountedWhileRunning
<1>1. Spec => []AloneInv
  BY AloneInvariant
<1>2. AloneInv => MountedWhileRunning
  BY AloneImplies
<1> QED
  BY <1>1, <1>2, PTL

\* No share of such a job is mounted over itself, whatever died or could not be
\* unmounted before (mount.Mount).
THEOREM AloneIsMountedOnce ==
  ASSUME ~MayStop, NEW s0, Slot = {s0}
  PROVE  Spec => []MountedOnce
<1>1. Spec => []AloneInv
  BY AloneInvariant
<1>2. AloneInv => MountedOnce
  BY AloneImplies
<1> QED
  BY <1>1, <1>2, PTL

\* Such a job leaves no mounted share and no run.pid behind but what a death or a
\* failed unmount left (the deferred calls of Run and Restore).
THEOREM AloneIsReleased ==
  ASSUME ~MayStop, NEW s0, Slot = {s0}
  PROVE  Spec => []Released
<1>1. Spec => []AloneInv
  BY AloneInvariant
<1>2. AloneInv => Released
  BY AloneImplies
<1> QED
  BY <1>1, <1>2, PTL
=============================================================================
