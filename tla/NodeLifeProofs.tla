--------------------------- MODULE NodeLifeProofs ---------------------------
(***************************************************************************)
(* For any process IDs, key pairs and bounds: the types of NodeLife, that  *)
(* the PID lock keeps daemons apart, that no old program is left after an  *)
(* update, and that the server is told the truth about an uninstall.       *)
(***************************************************************************)
EXTENDS NodeLife, TLAPS

USE DEF disk

(***************************************************************************)
(* Types.                                                                  *)
(***************************************************************************)

\* The record of a process, and of the command under way.
ProcType == [at : {"none", "other"} \cup Early \cup Past, program : {"old", "new"},
             round : {1, 2}, public : Key \cup {None}, signer : Key \cup {None}]

CmdType == [at : {"none", "install", "copy", "kill", "unlock", "restart", "stop",
                  "unregister", "destroy", "report", "failed", "remove"},
            by : Pid \cup {NoPid}, destroy : BOOLEAN]

LEMMA TypeIs == TypeOK => proc \in [Pid -> ProcType] /\ cmd \in CmdType
  BY DEF TypeOK, ProcType, CmdType

LEMMA DeadType == Dead \in ProcType /\ Idle \in CmdType
  BY DEF Dead, Idle, ProcType, CmdType, Early, Past

LEMMA BoundTypes ==
  ASSUME TypeOK, Fault \/ Command \/ bounds' = bounds
  PROVE  bounds' \in [{"faults", "commands"} -> Nat]
  BY DEF TypeOK, Fault, Command

\* What the end of processes leaves of the types.
LEMMA EndType ==
  ASSUME TypeOK, NEW S, NEW a \in SUBSET Accident, EndWith(S, a)
  PROVE  /\ proc' \in [Pid -> ProcType]
         /\ up' \subseteq Pid
         /\ main' \in Pid \cup {NoPid}
         /\ happened' \subseteq Accident
  BY TypeIs, DeadType DEF EndWith, TypeOK, Accident

LEMMA TerminateType ==
  ASSUME TypeOK, NEW S, Terminate(S)
  PROVE  /\ proc' \in [Pid -> ProcType]
         /\ up' \subseteq Pid
         /\ main' \in Pid \cup {NoPid}
         /\ lock' \in Pid \cup {NoPid}
         /\ happened' \subseteq Accident
<1>1. EndWith(S, {}) /\ {} \in SUBSET Accident
  BY DEF Terminate, End
<1>2. lock' \in Pid \cup {NoPid}
  BY DEF Terminate, TypeOK
<1> QED
  BY <1>1, <1>2, EndType

LEMMA StartsType ==
  ASSUME TypeOK, NEW p \in Pid, Starts(p)
  PROVE  proc' \in [Pid -> ProcType]
  BY TypeIs DEF Starts, ProcType, Dead, None, Early

\* A process that only moves on.
LEMMA AtType ==
  ASSUME TypeOK, NEW p \in Pid, NEW a \in {"none", "other"} \cup Early \cup Past,
         proc' = [proc EXCEPT ![p].at = a]
  PROVE  proc' \in [Pid -> ProcType]
<1>1. proc \in [Pid -> ProcType]
  BY TypeIs
<1>2. [proc[p] EXCEPT !.at = a] \in ProcType
  BY <1>1 DEF ProcType
<1> QED
  BY <1>1, <1>2

LEMMA LoadedType ==
  ASSUME TypeOK, NEW p \in Pid, NEW k \in Key \cup {None}, NEW s \in Key \cup {None}, Loaded(p, k, s)
  PROVE  proc' \in [Pid -> ProcType]
<1> DEFINE new == [proc[p] EXCEPT !.public = k,
                                  !.signer = IF proc[p].round = 2 THEN s ELSE None,
                                  !.at = IF proc[p].round = 2 THEN "run" ELSE "hello"]
<1>1. proc \in [Pid -> ProcType]
  BY TypeIs
<1>2. new \in ProcType
  BY <1>1 DEF ProcType, Past
<1> QED
  BY <1>1, <1>2 DEF Loaded

LEMMA GoesType ==
  ASSUME TypeOK, NEW step \in {"copy", "kill", "unlock", "restart", "unregister", "destroy",
                               "report", "failed", "remove"}, Goes(step)
  PROVE  cmd' \in CmdType
  BY TypeIs DEF Goes, CmdType

LEMMA AccidentType ==
  /\ {} \in SUBSET Accident /\ {"overlap"} \in SUBSET Accident
  /\ \A b \in {{}, {"overlap"}, {"reuse"}, {"copy"}, {"key"}, {"disk"},
               {"lost"}, {"run"}, {"unit"}, {"skipped"}} : b \subseteq Accident
  BY DEF Accident

\* Starts of daemons keep the types.
LEMMA StartTypes ==
  ASSUME TypeOK, ServiceStarts \/ HandStarts \/ Reuse
  PROVE  TypeOK'
<1>1. ASSUME ServiceStarts PROVE TypeOK'
  <2>1. proc' \in [Pid -> ProcType] /\ main' \in Pid
    BY <1>1, StartsType DEF ServiceStarts
  <2> QED
    BY <1>1, <2>1 DEF ServiceStarts, TypeOK, ProcType
<1>2. ASSUME HandStarts PROVE TypeOK'
  <2>1. proc' \in [Pid -> ProcType]
    BY <1>2, StartsType DEF HandStarts
  <2>2. bounds' \in [{"faults", "commands"} -> Nat]
    BY <1>2, BoundTypes DEF HandStarts
  <2> QED
    BY <1>2, <2>1, <2>2 DEF HandStarts, TypeOK, ProcType
<1>3. ASSUME Reuse PROVE TypeOK'
  <2>1. proc' \in [Pid -> ProcType]
    BY <1>3, AtType DEF Reuse, TypeOK
  <2>2. bounds' \in [{"faults", "commands"} -> Nat]
    BY <1>3, BoundTypes DEF Reuse
  <2> QED
    BY <1>3, <2>1, <2>2 DEF Reuse, TypeOK, ProcType, Accident
<1> QED
  BY <1>1, <1>2, <1>3

\* The way of a daemon past the lock, to its tunnel, keeps the types.
LEMMA ProcessTypes ==
  ASSUME TypeOK, NEW p \in Pid,
         ProcessStep(p) \/ KeyFails(p) \/ Heartbeat(p) \/ Connect(p) \/ ConnectionLost(p)
  PROVE  TypeOK'
<1>1. ASSUME AcquirePIDLock(p) PROVE TypeOK'
  <2>1. CASE PidIsAlive(lock)
    BY <1>1, <2>1, EndType, AccidentType DEF AcquirePIDLock, End, TypeOK, ProcType
  <2>2. CASE ~PidIsAlive(lock)
    <3>1. proc' \in [Pid -> ProcType]
      BY <1>1, <2>2, AtType DEF AcquirePIDLock, Early
    <3> QED
      BY <1>1, <2>2, <3>1 DEF AcquirePIDLock, TypeOK, ProcType, Accident
  <2> QED
    BY <2>1, <2>2
<1>2. ASSUME WritePIDLock(p) PROVE TypeOK'
  <2>1. proc' \in [Pid -> ProcType]
    BY <1>2, AtType DEF WritePIDLock, Past
  <2> QED
    BY <1>2, <2>1 DEF WritePIDLock, TypeOK, ProcType
<1>3. ASSUME LoadKey(p) PROVE TypeOK'
  <2>1. proc' \in [Pid -> ProcType]
    BY <1>3, LoadedType DEF LoadKey, TypeOK
  <2> QED
    BY <1>3, <2>1 DEF LoadKey, TypeOK, ProcType
<1>4. ASSUME GenerateKey(p) PROVE TypeOK'
  <2>1. PICK new \in Key \ InUse :
          /\ keys' = [keys EXCEPT !.priv = new]
          /\ proc' = [proc EXCEPT ![p] = [@ EXCEPT !.at = "pub", !.signer = new]]
    BY <1>4 DEF GenerateKey
  <2>2. [proc[p] EXCEPT !.at = "pub", !.signer = new] \in ProcType
    <3>1. proc[p] \in ProcType
      BY TypeIs
    <3> QED
      BY <3>1 DEF ProcType, Past
  <2>3. proc' \in [Pid -> ProcType]
    BY <2>1, <2>2, TypeIs
  <2>4. keys' \in [priv : Key \cup {None, Torn}, pub : Key \cup {None}]
    BY <2>1 DEF TypeOK
  <2> QED
    BY <1>4, <2>3, <2>4 DEF GenerateKey, TypeOK, ProcType
<1>5. ASSUME WritePublicKey(p) PROVE TypeOK'
  <2>1. proc[p].signer \in Key \cup {None}
    BY TypeIs DEF ProcType
  <2>2. proc' \in [Pid -> ProcType]
    BY <1>5, <2>1, LoadedType DEF WritePublicKey
  <2>3. keys' \in [priv : Key \cup {None, Torn}, pub : Key \cup {None}]
    BY <1>5, <2>1 DEF WritePublicKey, TypeOK
  <2> QED
    BY <1>5, <2>2, <2>3 DEF WritePublicKey, TypeOK, ProcType
<1>6. ASSUME SendInitialHeartbeat(p) PROVE TypeOK'
  <2>1. [proc[p] EXCEPT !.at = "keys", !.round = 2] \in ProcType
    <3>1. proc[p] \in ProcType
      BY TypeIs
    <3> QED
      BY <3>1 DEF ProcType, Past
  <2>2. proc' \in [Pid -> ProcType]
    BY <1>6, <2>1, TypeIs DEF SendInitialHeartbeat
  <2>3. authorized' \in Key \cup {None}
    BY <1>6, TypeIs DEF SendInitialHeartbeat, Registers, TypeOK, ProcType
  <2>4. bounds' \in [{"faults", "commands"} -> Nat]
    BY <1>6, BoundTypes DEF SendInitialHeartbeat, Registers
  <2> QED
    BY <1>6, <2>2, <2>3, <2>4 DEF SendInitialHeartbeat, TypeOK, ProcType
<1>7. ASSUME KeyFails(p) PROVE TypeOK'
  <2>1. proc[p].public \in Key \cup {None}
    BY TypeIs DEF ProcType
  <2>2. proc' \in [Pid -> ProcType]
    BY <1>7, <2>1, LoadedType DEF KeyFails
  <2>3. keys' \in [priv : Key \cup {None, Torn}, pub : Key \cup {None}]
    BY <1>7 DEF KeyFails, TypeOK
  <2>4. bounds' \in [{"faults", "commands"} -> Nat]
    BY <1>7, BoundTypes DEF KeyFails
  <2> QED
    BY <1>7, <2>2, <2>3, <2>4 DEF KeyFails, TypeOK, ProcType, Accident
<1>8. ASSUME Heartbeat(p) PROVE TypeOK'
  BY <1>8, TypeIs DEF Heartbeat, TypeOK, ProcType
<1>9. ASSUME Connect(p) \/ ConnectionLost(p) PROVE TypeOK'
  BY <1>9 DEF Connect, ConnectionLost, TypeOK
<1> QED
  BY <1>1, <1>2, <1>3, <1>4, <1>5, <1>6, <1>7, <1>8, <1>9 DEF ProcessStep

\* Ends of processes and the DR restore keep the types.
LEMMA EndTypes ==
  ASSUME TypeOK, (\E p \in Pid : Crash(p)) \/ PowerLoss \/ HandStops \/ StopService \/ StartService
  PROVE  TypeOK'
<1>1. ASSUME NEW p \in Pid, Crash(p) PROVE TypeOK'
  <2>1. EndWith({p}, {}) /\ {} \in SUBSET Accident
    BY <1>1 DEF Crash, End
  <2>2. cmd' \in CmdType
    BY <1>1, TypeIs, DeadType DEF Crash, CommandEnds
  <2>3. keys' \in [priv : Key \cup {None, Torn}, pub : Key \cup {None}]
    BY <1>1 DEF Crash, TypeOK
  <2>4. bounds' \in [{"faults", "commands"} -> Nat]
    BY <1>1, BoundTypes DEF Crash
  <2> QED
    BY <1>1, <2>1, <2>2, <2>3, <2>4, EndType DEF Crash, TypeOK, ProcType, CmdType
<1>2. ASSUME PowerLoss PROVE TypeOK'
  <2>1. proc' \in [Pid -> ProcType] /\ cmd' \in CmdType
    BY <1>2, DeadType DEF PowerLoss
  <2>2. bounds' \in [{"faults", "commands"} -> Nat]
    BY <1>2, BoundTypes DEF PowerLoss
  <2> QED
    BY <1>2, <2>1, <2>2 DEF PowerLoss, ServiceRestarts, TypeOK, ProcType, CmdType, Accident
<1>3. ASSUME HandStops PROVE TypeOK'
  <2>1. PICK p \in Daemons : Terminate({p})
    BY <1>3 DEF HandStops
  <2> QED
    BY <1>3, <2>1, TerminateType DEF HandStops, TypeOK, ProcType
<1>4. ASSUME StopService PROVE TypeOK'
  <2>1. bounds' \in [{"faults", "commands"} -> Nat]
    BY <1>4, BoundTypes DEF StopService
  <2> QED
    BY <1>4, <2>1, TerminateType DEF StopService, TypeOK, ProcType
<1>5. ASSUME StartService PROVE TypeOK'
  BY <1>5 DEF StartService, TypeOK
<1> QED
  BY <1>1, <1>2, <1>3, <1>4, <1>5

\* The steps of commands keep the types.
LEMMA CommandTypes ==
  ASSUME TypeOK,
         \/ \E by \in Runner : BeginUpdate(by) \/ BeginUninstall(by)
         \/ BeginRestart \/ CommandStep \/ CommandKilled \/ StopDeadline \/ RunWrites
  PROVE  TypeOK'
<1>1. ASSUME NEW by \in Runner, NEW step \in {"install", "kill", "stop"}, NEW destroy \in BOOLEAN,
             Begin(by, step, destroy)
      PROVE  TypeOK'
  <2>1. by \in Pid \cup {NoPid}
    BY DEF Runner
  <2>2. cmd' \in CmdType
    BY <1>1, <2>1 DEF Begin, CmdType
  <2>3. bounds' \in [{"faults", "commands"} -> Nat]
    BY <1>1, BoundTypes DEF Begin
  <2> QED
    BY <1>1, <2>2, <2>3 DEF Begin, TypeOK, CmdType
<1>2. ASSUME NEW by \in Runner, BeginUpdate(by) \/ BeginUninstall(by) PROVE TypeOK'
  BY <1>1, <1>2 DEF BeginUpdate, BeginUninstall
<1>3. ASSUME BeginRestart PROVE TypeOK'
  BY <1>1, <1>3 DEF BeginRestart, Runner
<1>4. ASSUME ReplaceBinary PROVE TypeOK'
  <2>1. cmd' \in CmdType
    BY <1>4, GoesType, DeadType DEF ReplaceBinary
  <2>2. bounds' \in [{"faults", "commands"} -> Nat]
    BY <1>4, BoundTypes DEF ReplaceBinary
  <2> QED
    BY <1>4, <2>1, <2>2 DEF ReplaceBinary, TypeOK, CmdType
<1>5. ASSUME CopyEnds PROVE TypeOK'
  BY <1>5, GoesType DEF CopyEnds, TypeOK, CmdType
<1>6. ASSUME KillAllDaemons PROVE TypeOK'
  <2>1. cmd' \in CmdType
    <3>1. PICK step \in {"unlock", "restart"} : Goes(step)
      BY <1>6 DEF KillAllDaemons
    <3> QED
      BY <3>1, GoesType
  <2> QED
    BY <1>6, <2>1, EndType, AccidentType DEF KillAllDaemons, End, TypeOK, ProcType, CmdType
<1>7. ASSUME RemoveStaleLock PROVE TypeOK'
  <2>1. cmd' \in CmdType
    BY <1>7, GoesType DEF RemoveStaleLock
  <2> QED
    BY <1>7, <2>1 DEF RemoveStaleLock, TypeOK, CmdType, Accident
<1>8. ASSUME Restart PROVE TypeOK'
  <2>1. updated' \in BOOLEAN
    BY <1>8 DEF Restart, TypeOK
  <2>2. cmd' \in CmdType
    BY <1>8, DeadType DEF Restart
  <2> QED
    BY <1>8, <2>1, <2>2, TerminateType DEF Restart, ServiceRestarts, TypeOK, ProcType, CmdType
<1>9. ASSUME ExitForUpdate PROVE TypeOK'
  <2>1. cmd' \in CmdType
    BY <1>9, DeadType DEF ExitForUpdate
  <2>2. lock' \in Pid \cup {NoPid}
    BY <1>9 DEF ExitForUpdate, TypeOK
  <2> QED
    BY <1>9, <2>1, <2>2, EndType, AccidentType
       DEF ExitForUpdate, End, ServiceRestarts, TypeOK, ProcType, CmdType
<1>10. ASSUME CommandKilled PROVE TypeOK'
  <2>1. cmd' \in CmdType
    BY <1>10, DeadType DEF CommandKilled
  <2>2. bounds' \in [{"faults", "commands"} -> Nat]
    BY <1>10, BoundTypes DEF CommandKilled
  <2> QED
    BY <1>10, <2>1, <2>2 DEF CommandKilled, TypeOK, CmdType, Accident
<1>11. ASSUME StopDaemonService PROVE TypeOK'
  <2>1. cmd' \in CmdType
    BY <1>11, GoesType DEF StopDaemonService
  <2>2. CASE Terminate({main} \ {cmd.by}) /\ bounds' = bounds
    BY <1>11, <2>1, <2>2, TerminateType DEF StopDaemonService, TypeOK, ProcType, CmdType
  <2>3. CASE Fault /\ happened' = happened \cup {"unit"} /\ UNCHANGED <<unit, main, proc, lock, up>>
    <3>1. bounds' \in [{"faults", "commands"} -> Nat]
      BY <2>3, BoundTypes
    <3> QED
      BY <1>11, <2>1, <2>3, <3>1 DEF StopDaemonService, TypeOK, CmdType, Accident
  <2> QED
    BY <1>11, <2>2, <2>3 DEF StopDaemonService
<1>12. ASSUME StopDeadline PROVE TypeOK'
  <2>1. proc' \in [Pid -> ProcType] /\ cmd' \in CmdType
    BY <1>12, TypeIs, DeadType DEF StopDeadline
  <2>2. bounds' \in [{"faults", "commands"} -> Nat]
    BY <1>12, BoundTypes DEF StopDeadline
  <2> QED
    BY <1>12, <2>1, <2>2 DEF StopDeadline, TypeOK, ProcType, CmdType, Accident
<1>13. ASSUME UnregisterDaemonService PROVE TypeOK'
  <2>1. cmd' \in CmdType
    BY <1>13, GoesType DEF UnregisterDaemonService
  <2>2. bounds' \in [{"faults", "commands"} -> Nat]
    BY <1>13, BoundTypes DEF UnregisterDaemonService
  <2>3. happened' \subseteq Accident
    BY <1>13 DEF UnregisterDaemonService, TypeOK, Accident
  <2> QED
    BY <1>13, <2>1, <2>2, <2>3 DEF UnregisterDaemonService, TypeOK, CmdType
<1>14. ASSUME DestroyLocalBackupData PROVE TypeOK'
  <2>1. cmd' \in CmdType
    BY <1>14, GoesType DEF DestroyLocalBackupData
  <2>2. bounds' \in [{"faults", "commands"} -> Nat]
    BY <1>14, BoundTypes DEF DestroyLocalBackupData
  <2>3. happened' \subseteq Accident
    BY <1>14 DEF DestroyLocalBackupData, TypeOK, Accident
  <2> QED
    BY <1>14, <2>1, <2>2, <2>3 DEF DestroyLocalBackupData, TypeOK, CmdType
<1>15. ASSUME RunWrites PROVE TypeOK'
  <2>1. bounds' \in [{"faults", "commands"} -> Nat]
    BY <1>15, BoundTypes DEF RunWrites
  <2> QED
    BY <1>15, <2>1 DEF RunWrites, TypeOK, Accident
<1>16. ASSUME SendUninstallCompleteHB PROVE TypeOK'
  <2>1. cmd' \in CmdType
    BY <1>16, GoesType DEF SendUninstallCompleteHB
  <2>2. bounds' \in [{"faults", "commands"} -> Nat]
    BY <1>16, BoundTypes DEF SendUninstallCompleteHB
  <2>3. told' \in {"nothing", "retained", "destroyed", "failed"}
    BY <1>16 DEF SendUninstallCompleteHB, TypeOK
  <2>4. happened' \subseteq Accident
    BY <1>16 DEF SendUninstallCompleteHB, TypeOK, Accident
  <2> QED
    BY <1>16, <2>1, <2>2, <2>3, <2>4 DEF SendUninstallCompleteHB, TypeOK, CmdType
<1>17. ASSUME RemoveInstalledData PROVE TypeOK'
  <2>1. PICK a \in SUBSET Accident : EndWith({cmd.by}, a)
    BY <1>17, AccidentType DEF RemoveInstalledData
  <2>2. cmd' \in CmdType
    BY <1>17, DeadType DEF RemoveInstalledData
  <2>3. keys' \in [priv : Key \cup {None, Torn}, pub : Key \cup {None}]
    BY <1>17 DEF RemoveInstalledData
  <2> QED
    BY <1>17, <2>1, <2>2, <2>3, EndType DEF RemoveInstalledData, TypeOK, ProcType, CmdType
<1> QED
  BY <1>2, <1>3, <1>4, <1>5, <1>6, <1>7, <1>8, <1>9, <1>10, <1>11, <1>12, <1>13, <1>14, <1>15,
     <1>16, <1>17 DEF CommandStep

LEMMA TypeStep == TypeOK /\ [Next]_vars => TypeOK'
<1> SUFFICES ASSUME TypeOK, [Next]_vars PROVE TypeOK'
  OBVIOUS
<1>1. CASE UNCHANGED vars
  BY <1>1 DEF vars, TypeOK
<1> QED
  BY <1>1, StartTypes, ProcessTypes, EndTypes, CommandTypes DEF Next

LEMMA TypeInit == Init => TypeOK
<1> SUFFICES ASSUME Init PROVE TypeOK
  OBVIOUS
<1>1. proc \in [Pid -> ProcType] /\ cmd \in CmdType
  BY DeadType DEF Init
<1> QED
  BY <1>1 DEF Init, TypeOK, ProcType, CmdType, None

\* Files, processes, commands and what the server knows keep their types.
THEOREM TypeCorrect == Spec => []TypeOK
  BY TypeInit, TypeStep, PTL DEF Spec

(***************************************************************************)
(* The PID lock.                                                           *)
(***************************************************************************)

\* Nobody gets past the lock or to the lock, and it changes only when nobody
\* past it is left.
LEMMA LockKept ==
  ASSUME LockInv, happened \subseteq happened',
         "overlap" \notin happened =>
            \A q \in Pid : /\ At(q, Past)' => At(q, Past) /\ lock' = lock
                           /\ At(q, {"locking"})' => At(q, {"locking"})
  PROVE  LockInv'
  BY DEF LockInv, At, Past

LEMMA EndKeepsLock ==
  ASSUME TypeOK, LockInv, NEW S, NEW a, EndWith(S, a), lock' = lock
  PROVE  LockInv'
<1>1. \A q \in Pid : proc'[q] = proc[q] \/ proc'[q].at = "none"
  BY DEF EndWith, Dead
<1>2. happened \subseteq happened'
  BY DEF EndWith
<1> QED
  BY <1>1, <1>2, LockKept DEF At, Past

\* Whoever removes daemon.pid at its end is the only one past the lock.
LEMMA TerminateKeepsLock ==
  ASSUME TypeOK, LockInv, NEW S, EndWith(S, {}),
         NEW T \in SUBSET (S \cap Pid),
         lock' = IF \E p \in T : At(p, Past) THEN NoPid ELSE lock
  PROVE  LockInv'
<1>1. \A q \in Pid : \/ proc'[q] = proc[q] /\ q \notin S
                     \/ proc'[q].at = "none"
  BY DEF EndWith, Dead
<1>2. happened \subseteq happened'
  BY DEF EndWith
<1>3. ASSUME "overlap" \notin happened, NEW q \in Pid, At(q, Past)'
      PROVE  At(q, Past) /\ lock' = lock
  <2>1. proc'[q] = proc[q] /\ q \notin S
    BY <1>1, <1>3 DEF At, Past
  <2>2. At(q, Past)
    BY <1>3, <2>1 DEF At
  <2>3. ASSUME NEW p \in T, At(p, Past) PROVE FALSE
    BY <1>3, <2>1, <2>2, <2>3 DEF LockInv
  <2> QED
    BY <2>2, <2>3
<1> QED
  BY <1>1, <1>2, <1>3, LockKept DEF At

LEMMA LockStarts ==
  ASSUME TypeOK, LockInv, ServiceStarts \/ HandStarts \/ Reuse
  PROVE  LockInv'
<1>1. happened \subseteq happened' /\ lock' = lock
  BY DEF ServiceStarts, HandStarts, Reuse
<1>2. PICK p \in Pid : \/ Starts(p)
                       \/ p = lock /\ proc' = [proc EXCEPT ![p].at = "other"]
  BY DEF ServiceStarts, HandStarts, Reuse, TypeOK
<1>3. \A q \in Pid : proc'[q] = proc[q] \/ proc'[q].at \in {"exec", "other"}
  BY <1>2, TypeIs DEF Starts, Dead, ProcType
<1> QED
  BY <1>1, <1>3, LockKept DEF At, Past

\* The read of daemon.pid finds everybody who is past it; who comes to write it
\* next to another one is an accident.
LEMMA LockProcess ==
  ASSUME TypeOK, LockInv, NEW p \in Pid,
         ProcessStep(p) \/ KeyFails(p) \/ Heartbeat(p) \/ Connect(p) \/ ConnectionLost(p)
  PROVE  LockInv'
<1> proc \in [Pid -> ProcType]
  BY TypeIs
<1>1. ASSUME AcquirePIDLock(p), PidIsAlive(lock) PROVE LockInv'
  BY <1>1, EndKeepsLock DEF AcquirePIDLock, End
<1>2. ASSUME AcquirePIDLock(p), ~PidIsAlive(lock) PROVE LockInv'
  <2>1. proc' = [proc EXCEPT ![p].at = "locking"] /\ lock' = lock
    BY <1>2 DEF AcquirePIDLock
  <2>2. SUFFICES ASSUME "overlap" \notin happened'
                 PROVE  \A q \in Pid : /\ At(q, Past)' => lock' = q
                                       /\ At(q, {"locking"})' =>
                                            \A r \in Pid : At(r, Past \cup {"locking"})' => r = q
    BY DEF LockInv, At
  <2>3. "overlap" \notin happened /\ \A q \in Pid : ~At(q, {"locking"})
    BY <1>2, <2>2 DEF AcquirePIDLock
  <2>4. \A q \in Pid : ~At(q, Past)
    BY <1>2, <2>3, PidAssumption DEF LockInv, PidIsAlive, At, Past
  <2>5. \A q \in Pid : q # p => proc'[q] = proc[q]
    BY <2>1
  <2>6. proc'[p].at = "locking"
    BY <2>1 DEF ProcType
  <2> QED
    BY <2>3, <2>4, <2>5, <2>6 DEF At, Past
<1>3. ASSUME WritePIDLock(p) PROVE LockInv'
  <2>1. lock' = p /\ proc'[p].at = "keys" /\ \A q \in Pid : q # p => proc'[q] = proc[q]
    BY <1>3 DEF WritePIDLock, ProcType
  <2>2. "overlap" \notin happened => \A q \in Pid : At(q, Past \cup {"locking"}) => q = p
    BY <1>3 DEF WritePIDLock, LockInv
  <2>3. happened' = happened
    BY <1>3 DEF WritePIDLock
  <2> QED
    BY <2>1, <2>2, <2>3 DEF LockInv, At, Past
<1>4. ASSUME LoadKey(p) \/ GenerateKey(p) \/ WritePublicKey(p) \/ KeyFails(p)
             \/ SendInitialHeartbeat(p)
      PROVE  LockInv'
  <2>1. At(p, Past) /\ lock' = lock /\ happened \subseteq happened'
    BY <1>4 DEF LoadKey, GenerateKey, WritePublicKey, KeyFails, SendInitialHeartbeat, At, Past
  <2>2. \A q \in Pid : q # p => proc'[q] = proc[q]
    BY <1>4 DEF LoadKey, GenerateKey, WritePublicKey, KeyFails, SendInitialHeartbeat, Loaded
  <2>3. proc'[p].at # "locking"
    <3>1. CASE LoadKey(p) \/ WritePublicKey(p) \/ KeyFails(p)
      <4>1. PICK k, s : Loaded(p, k, s)
        BY <3>1 DEF LoadKey, WritePublicKey, KeyFails
      <4>2. proc'[p].at = IF proc[p].round = 2 THEN "run" ELSE "hello"
        BY <4>1 DEF Loaded, ProcType
      <4> QED
        BY <4>2
    <3>2. CASE GenerateKey(p)
      BY <3>2 DEF GenerateKey, ProcType
    <3>3. CASE SendInitialHeartbeat(p)
      BY <3>3 DEF SendInitialHeartbeat, ProcType
    <3> QED
      BY <1>4, <3>1, <3>2, <3>3
  <2> QED
    BY <2>1, <2>2, <2>3, LockKept DEF At
<1>5. ASSUME Heartbeat(p) \/ Connect(p) \/ ConnectionLost(p) PROVE LockInv'
  BY <1>5, LockKept DEF Heartbeat, Connect, ConnectionLost, At
<1> QED
  BY <1>1, <1>2, <1>3, <1>4, <1>5 DEF ProcessStep

LEMMA LockEnds ==
  ASSUME TypeOK, LockInv,
         (\E p \in Pid : Crash(p)) \/ PowerLoss \/ HandStops \/ StopService \/ StartService
  PROVE  LockInv'
<1>1. ASSUME NEW p \in Pid, Crash(p) PROVE LockInv'
  BY <1>1, EndKeepsLock DEF Crash, End
<1>2. ASSUME PowerLoss PROVE LockInv'
  BY <1>2, LockKept DEF PowerLoss, Dead, At, Past
<1>3. ASSUME NEW S, Terminate(S) PROVE LockInv'
  BY <1>3, TerminateKeepsLock DEF Terminate, End
<1>4. ASSUME StartService PROVE LockInv'
  BY <1>4, LockKept DEF StartService, At
<1> QED
  BY <1>1, <1>2, <1>3, <1>4 DEF HandStops, StopService

LEMMA LockCommands ==
  ASSUME TypeOK, LockInv,
         \/ \E by \in Runner : BeginUpdate(by) \/ BeginUninstall(by)
         \/ BeginRestart \/ CommandStep \/ CommandKilled \/ StopDeadline \/ RunWrites
  PROVE  LockInv'
<1>1. ASSUME UNCHANGED <<proc, lock>>, happened \subseteq happened' PROVE LockInv'
  BY <1>1, LockKept DEF At
<1>2. ASSUME NEW by, BeginUpdate(by) \/ BeginUninstall(by) \/ BeginRestart PROVE LockInv'
  BY <1>1, <1>2 DEF BeginUpdate, BeginUninstall, BeginRestart, Begin
<1>3. ASSUME ReplaceBinary \/ CopyEnds \/ CommandKilled \/ UnregisterDaemonService
             \/ DestroyLocalBackupData \/ RunWrites \/ SendUninstallCompleteHB
      PROVE  LockInv'
  BY <1>1, <1>3 DEF ReplaceBinary, CopyEnds, CommandKilled, UnregisterDaemonService,
                    DestroyLocalBackupData, RunWrites, SendUninstallCompleteHB
<1>4. ASSUME KillAllDaemons PROVE LockInv'
  BY <1>4, EndKeepsLock DEF KillAllDaemons, End
<1>5. ASSUME RemoveStaleLock PROVE LockInv'
  <2>1. "overlap" \notin happened' => "overlap" \notin happened /\ Daemons = {}
    BY <1>5 DEF RemoveStaleLock
  <2> QED
    BY <1>5, <2>1 DEF RemoveStaleLock, LockInv, Daemons, At, Early, Past
<1>6. ASSUME Restart \/ StopDaemonService PROVE LockInv'
  <2>1. CASE \E S : Terminate(S)
    BY <2>1, TerminateKeepsLock DEF Terminate, End
  <2>2. CASE UNCHANGED <<proc, lock>> /\ happened \subseteq happened'
    BY <1>1, <2>2
  <2> QED
    BY <1>6, <2>1, <2>2 DEF Restart, StopDaemonService
<1>7. ASSUME ExitForUpdate PROVE LockInv'
  <2> DEFINE T == {main} \ {cmd.by, NoPid}
  <2>1. T \in SUBSET ({cmd.by, main} \cap Pid)
    BY DEF TypeOK
  <2>2. lock' = IF \E p \in T : At(p, Past) THEN NoPid ELSE lock
    BY <1>7 DEF ExitForUpdate
  <2> HIDE DEF T
  <2> QED
    BY <1>7, <2>1, <2>2, TerminateKeepsLock DEF ExitForUpdate, End
<1>8. ASSUME StopDeadline PROVE LockInv'
  <2>1. lock' = lock /\ happened \subseteq happened'
    BY <1>8 DEF StopDeadline
  <2>2. \A q \in Pid : proc'[q] = proc[q] \/ proc'[q].at = "none"
    BY <1>8, TypeIs DEF StopDeadline, Dead
  <2> QED
    BY <2>1, <2>2, LockKept DEF At, Past
<1>9. ASSUME RemoveInstalledData PROVE LockInv'
  <2>1. "overlap" \notin happened' => Daemons \subseteq {cmd.by}
    BY <1>9 DEF RemoveInstalledData, EndWith
  <2>2. \A q \in Pid : \/ proc'[q] = proc[q] /\ q # cmd.by
                       \/ proc'[q].at = "none"
    BY <1>9 DEF RemoveInstalledData, EndWith, Dead
  <2> QED
    BY <2>1, <2>2 DEF LockInv, Daemons, At, Early, Past
<1> QED
  BY <1>2, <1>3, <1>4, <1>5, <1>6, <1>7, <1>8, <1>9 DEF CommandStep

LEMMA LockStep == TypeOK /\ LockInv /\ [Next]_vars => LockInv'
<1> SUFFICES ASSUME TypeOK, LockInv, [Next]_vars PROVE LockInv'
  OBVIOUS
<1>1. CASE UNCHANGED vars
  BY <1>1 DEF vars, LockInv, At
<1> QED
  BY <1>1, LockStarts, LockProcess, LockEnds, LockCommands DEF Next

(***************************************************************************)
(* The program that daemons run.                                           *)
(***************************************************************************)

\* Whoever runs is one that ran before or one that starts with what is installed.
LEMMA ProgramKept ==
  ASSUME TypeOK, ProgramInv, updated' = updated, binary' = binary,
         cmd'.at \in {"unlock", "restart"} => cmd'.at = cmd.at,
         \A q \in Pid : At(q, Early \cup Past)' =>
            \/ At(q, Early \cup Past) /\ proc'[q].program = proc[q].program
            \/ binary \in {"old", "new"} /\ proc'[q].program = binary
  PROVE  ProgramInv'
<1>1. updated' => binary' # "old"
  BY DEF ProgramInv
<1>2. ASSUME updated' \/ (cmd'.at \in {"unlock", "restart"} /\ binary' # "old"),
             NEW q \in Pid, At(q, Early \cup Past)'
      PROVE  proc'[q].program = "new"
  <2>1. updated \/ (cmd.at \in {"unlock", "restart"} /\ binary # "old")
    BY <1>2
  <2> QED
    BY <1>2, <2>1 DEF ProgramInv, Daemons
<1> QED
  BY <1>1, <1>2 DEF ProgramInv, Daemons, At

LEMMA EndKeepsProgram ==
  ASSUME TypeOK, ProgramInv, NEW S, NEW a, EndWith(S, a),
         updated' = updated, binary' = binary,
         cmd'.at \in {"unlock", "restart"} => cmd'.at = cmd.at
  PROVE  ProgramInv'
<1>1. \A q \in Pid : proc'[q] = proc[q] \/ proc'[q].at = "none"
  BY DEF EndWith, Dead
<1> QED
  BY <1>1, ProgramKept DEF At, Early, Past

LEMMA ProgramStarts ==
  ASSUME TypeOK, ProgramInv, ServiceStarts \/ HandStarts \/ Reuse
  PROVE  ProgramInv'
<1>1. updated' = updated /\ binary' = binary /\ cmd' = cmd
  BY DEF ServiceStarts, HandStarts, Reuse
<1>2. PICK p \in Pid : \/ Starts(p)
                       \/ p = lock /\ proc' = [proc EXCEPT ![p].at = "other"]
  BY DEF ServiceStarts, HandStarts, Reuse, TypeOK
<1>3. \A q \in Pid : \/ proc'[q] = proc[q]
                     \/ proc'[q].at = "other"
                     \/ binary \in {"old", "new"} /\ proc'[q].program = binary
  BY <1>2, TypeIs DEF Starts, Dead, ProcType
<1> QED
  BY <1>1, <1>3, ProgramKept DEF At, Early, Past

LEMMA ProgramProcess ==
  ASSUME TypeOK, ProgramInv, NEW p \in Pid,
         ProcessStep(p) \/ KeyFails(p) \/ Heartbeat(p) \/ Connect(p) \/ ConnectionLost(p)
  PROVE  ProgramInv'
<1> proc \in [Pid -> ProcType]
  BY TypeIs
<1>1. updated' = updated /\ binary' = binary /\ cmd' = cmd
  BY DEF ProcessStep, AcquirePIDLock, WritePIDLock, LoadKey, GenerateKey, WritePublicKey,
         SendInitialHeartbeat, KeyFails, Heartbeat, Connect, ConnectionLost
<1>2. ASSUME proc'[p].program = proc[p].program, At(p, Early \cup Past),
             \A q \in Pid : q # p => proc'[q] = proc[q]
      PROVE  ProgramInv'
  BY <1>1, <1>2, ProgramKept DEF At
<1>3. ASSUME AcquirePIDLock(p), PidIsAlive(lock) PROVE ProgramInv'
  BY <1>1, <1>3, EndKeepsProgram DEF AcquirePIDLock, End
<1>4. ASSUME AcquirePIDLock(p), ~PidIsAlive(lock) PROVE ProgramInv'
  BY <1>2, <1>4 DEF AcquirePIDLock, ProcType, At, Early
<1>5. ASSUME WritePIDLock(p) PROVE ProgramInv'
  BY <1>2, <1>5 DEF WritePIDLock, ProcType, At, Early
<1>6. ASSUME LoadKey(p) \/ WritePublicKey(p) \/ KeyFails(p) PROVE ProgramInv'
  <2>1. PICK k, s : Loaded(p, k, s)
    BY <1>6 DEF LoadKey, WritePublicKey, KeyFails
  <2>2. proc'[p].program = proc[p].program /\ \A q \in Pid : q # p => proc'[q] = proc[q]
    BY <2>1 DEF Loaded, ProcType
  <2> QED
    BY <1>2, <1>6, <2>2 DEF LoadKey, WritePublicKey, KeyFails, At, Past
<1>7. ASSUME GenerateKey(p) PROVE ProgramInv'
  BY <1>2, <1>7 DEF GenerateKey, ProcType, At, Past
<1>8. ASSUME SendInitialHeartbeat(p) PROVE ProgramInv'
  BY <1>2, <1>8 DEF SendInitialHeartbeat, ProcType, At, Past
<1>9. ASSUME Heartbeat(p) \/ Connect(p) \/ ConnectionLost(p) PROVE ProgramInv'
  BY <1>1, <1>9, ProgramKept DEF Heartbeat, Connect, ConnectionLost, At
<1> QED
  BY <1>3, <1>4, <1>5, <1>6, <1>7, <1>8, <1>9 DEF ProcessStep

LEMMA ProgramEnds ==
  ASSUME TypeOK, ProgramInv,
         (\E p \in Pid : Crash(p)) \/ PowerLoss \/ HandStops \/ StopService \/ StartService
  PROVE  ProgramInv'
<1>1. ASSUME NEW p \in Pid, Crash(p) PROVE ProgramInv'
  BY <1>1, EndKeepsProgram DEF Crash, End, CommandEnds, Idle
<1>2. ASSUME PowerLoss PROVE ProgramInv'
  BY <1>2, ProgramKept DEF PowerLoss, Dead, Idle, At, Early, Past
<1>3. ASSUME NEW S, Terminate(S), updated' = updated, binary' = binary, cmd' = cmd PROVE ProgramInv'
  BY <1>3, EndKeepsProgram DEF Terminate, End
<1>4. ASSUME StartService PROVE ProgramInv'
  BY <1>4, ProgramKept DEF StartService, At
<1> QED
  BY <1>1, <1>2, <1>3, <1>4 DEF HandStops, StopService

\* The kill leaves no daemon, and the steps after it only those that start anew.
LEMMA ProgramCommands ==
  ASSUME TypeOK, ProgramInv,
         \/ \E by \in Runner : BeginUpdate(by) \/ BeginUninstall(by)
         \/ BeginRestart \/ CommandStep \/ CommandKilled \/ StopDeadline \/ RunWrites
  PROVE  ProgramInv'
<1>1. ASSUME UNCHANGED <<proc, binary, updated>>,
             cmd'.at \in {"unlock", "restart"} => cmd'.at = cmd.at
      PROVE  ProgramInv'
  BY <1>1, ProgramKept DEF At
<1>2. ASSUME NEW by, BeginUpdate(by) \/ BeginUninstall(by) \/ BeginRestart PROVE ProgramInv'
  BY <1>1, <1>2 DEF BeginUpdate, BeginUninstall, BeginRestart, Begin
<1>3. ASSUME ReplaceBinary \/ CopyEnds PROVE ProgramInv'
  <2>1. proc' = proc /\ updated' = updated
    BY <1>3 DEF ReplaceBinary, CopyEnds
  <2>2. cmd'.at \notin {"unlock", "restart"}
    BY <1>3, TypeIs DEF ReplaceBinary, CopyEnds, Goes, Idle, CmdType
  <2>3. binary' \in {binary, "new", "broken"}
    BY <1>3 DEF ReplaceBinary, CopyEnds
  <2> QED
    BY <2>1, <2>2, <2>3 DEF ProgramInv, Daemons, At
<1>4. ASSUME CommandKilled \/ UnregisterDaemonService \/ DestroyLocalBackupData \/ RunWrites
             \/ SendUninstallCompleteHB
      PROVE  ProgramInv'
  <2>1. cmd' = cmd \/ cmd'.at \notin {"unlock", "restart"}
    BY <1>4, TypeIs DEF CommandKilled, UnregisterDaemonService, DestroyLocalBackupData, RunWrites,
                        SendUninstallCompleteHB, Goes, Idle, CmdType
  <2> QED
    BY <1>1, <1>4, <2>1 DEF CommandKilled, UnregisterDaemonService, DestroyLocalBackupData, RunWrites,
                            SendUninstallCompleteHB
<1>5. ASSUME KillAllDaemons PROVE ProgramInv'
  <2>1. Daemons' = {}
    BY <1>5 DEF KillAllDaemons, End, EndWith, Daemons, Dead, At, Early, Past
  <2>2. updated' = updated /\ binary' = binary
    BY <1>5 DEF KillAllDaemons
  <2> QED
    BY <2>1, <2>2 DEF ProgramInv
<1>6. ASSUME RemoveStaleLock PROVE ProgramInv'
  <2>1. cmd.at = "unlock" /\ cmd'.at = "restart"
    BY <1>6, TypeIs DEF RemoveStaleLock, Goes, CmdType
  <2>2. UNCHANGED <<proc, binary, updated>>
    BY <1>6 DEF RemoveStaleLock
  <2> QED
    BY <2>1, <2>2 DEF ProgramInv, Daemons, At
<1>7. ASSUME Restart PROVE ProgramInv'
  <2>1. \A q \in Pid : proc'[q] = proc[q] \/ proc'[q].at = "none"
    BY <1>7 DEF Restart, Terminate, End, EndWith, Dead
  <2>2. /\ cmd.at = "restart" /\ cmd'.at = "none"
        /\ updated' = (updated \/ binary = "new") /\ binary' = binary
    BY <1>7 DEF Restart, Idle
  <2> QED
    BY <2>1, <2>2 DEF ProgramInv, Daemons, At, Early, Past
<1>8. ASSUME ExitForUpdate PROVE ProgramInv'
  BY <1>8, EndKeepsProgram DEF ExitForUpdate, End, Idle
<1>9. ASSUME StopDaemonService PROVE ProgramInv'
  <2>1. cmd'.at = "unregister"
    BY <1>9, TypeIs DEF StopDaemonService, Goes, CmdType
  <2>2. CASE \E S : Terminate(S)
    BY <1>9, <2>1, <2>2, EndKeepsProgram DEF StopDaemonService, Terminate, End
  <2>3. CASE UNCHANGED proc
    BY <1>1, <1>9, <2>1, <2>3 DEF StopDaemonService
  <2> QED
    BY <1>9, <2>2, <2>3 DEF StopDaemonService
<1>10. ASSUME StopDeadline PROVE ProgramInv'
  <2>1. \A q \in Pid : proc'[q] = proc[q] \/ proc'[q].at = "none"
    BY <1>10, TypeIs DEF StopDeadline, Dead
  <2> QED
    BY <1>10, <2>1, ProgramKept DEF StopDeadline, Idle, At, Early, Past
<1>11. ASSUME RemoveInstalledData PROVE ProgramInv'
  <2>1. \A q \in Pid : proc'[q] = proc[q] \/ proc'[q].at = "none"
    BY <1>11 DEF RemoveInstalledData, EndWith, Dead
  <2>2. binary' = "none" /\ cmd'.at = "none" /\ updated' = updated
    BY <1>11 DEF RemoveInstalledData, Idle
  <2> QED
    BY <2>1, <2>2 DEF ProgramInv, Daemons, At, Early, Past
<1> QED
  BY <1>2, <1>3, <1>4, <1>5, <1>6, <1>7, <1>8, <1>9, <1>10, <1>11 DEF CommandStep

LEMMA ProgramStep == TypeOK /\ ProgramInv /\ [Next]_vars => ProgramInv'
<1> SUFFICES ASSUME TypeOK, ProgramInv, [Next]_vars PROVE ProgramInv'
  OBVIOUS
<1>1. CASE UNCHANGED vars
  BY <1>1 DEF vars, ProgramInv, Daemons, At
<1> QED
  BY <1>1, ProgramStarts, ProgramProcess, ProgramEnds, ProgramCommands DEF Next

(***************************************************************************)
(* The uninstaller.                                                        *)
(***************************************************************************)

\* Nothing of what the uninstaller relies on comes back.
LEMMA UninstallKept ==
  ASSUME UninstallInv,
         unit = "gone" => unit' = "gone",
         cmd' = cmd \/ cmd'.at \notin {"destroy", "report", "failed", "remove"},
         data' = data, told' = told, binary' = "none" => binary = "none",
         happened \subseteq happened'
  PROVE  UninstallInv'
  BY DEF UninstallInv, Excused

LEMMA UninstallProcess ==
  ASSUME TypeOK, UninstallInv,
         \/ ServiceStarts \/ HandStarts \/ Reuse
         \/ \E p \in Pid : \/ ProcessStep(p) \/ KeyFails(p) \/ Heartbeat(p)
                           \/ Connect(p) \/ ConnectionLost(p) \/ Crash(p)
         \/ PowerLoss \/ HandStops \/ StopService \/ StartService
  PROVE  UninstallInv'
<1>1. ASSUME ServiceStarts \/ HandStarts \/ Reuse PROVE UninstallInv'
  BY <1>1, UninstallKept DEF ServiceStarts, HandStarts, Reuse
<1>2. ASSUME NEW p \in Pid, ProcessStep(p) PROVE UninstallInv'
  <2>1. UNCHANGED <<unit, cmd, data, told, binary>>
    BY <1>2 DEF ProcessStep, AcquirePIDLock, WritePIDLock, LoadKey, GenerateKey, WritePublicKey,
                SendInitialHeartbeat
  <2>2. happened \subseteq happened'
    BY <1>2 DEF ProcessStep, AcquirePIDLock, WritePIDLock, LoadKey, GenerateKey, WritePublicKey,
                SendInitialHeartbeat, End, EndWith
  <2> QED
    BY <2>1, <2>2, UninstallKept
<1>3. ASSUME NEW p \in Pid, KeyFails(p) \/ Heartbeat(p) \/ Connect(p) \/ ConnectionLost(p)
      PROVE  UninstallInv'
  BY <1>3, UninstallKept DEF KeyFails, Heartbeat, Connect, ConnectionLost
<1>4. ASSUME NEW p \in Pid, Crash(p) PROVE UninstallInv'
  BY <1>4, UninstallKept DEF Crash, End, EndWith, CommandEnds, Idle
<1>5. ASSUME PowerLoss PROVE UninstallInv'
  BY <1>5, UninstallKept DEF PowerLoss, ServiceRestarts, Idle
<1>6. ASSUME HandStops \/ StopService \/ StartService PROVE UninstallInv'
  BY <1>6, UninstallKept DEF HandStops, StopService, StartService, Terminate, End, EndWith
<1> QED
  BY <1>1, <1>2, <1>3, <1>4, <1>5, <1>6

\* Each step of the uninstaller finds what the one before has done.
LEMMA UninstallCommands ==
  ASSUME TypeOK, UninstallInv,
         \/ \E by \in Runner : BeginUpdate(by) \/ BeginUninstall(by)
         \/ BeginRestart \/ CommandStep \/ CommandKilled \/ StopDeadline \/ RunWrites
  PROVE  UninstallInv'
<1> cmd \in CmdType
  BY TypeIs
<1>1. ASSUME NEW by, BeginUpdate(by) \/ BeginUninstall(by) \/ BeginRestart PROVE UninstallInv'
  <2>1. PICK step \in {"install", "kill", "stop"} : \E w, d : Begin(w, step, d)
    BY <1>1 DEF BeginUpdate, BeginUninstall, BeginRestart
  <2> QED
    BY <2>1, UninstallKept DEF Begin
<1>2. ASSUME ReplaceBinary \/ CopyEnds \/ RemoveStaleLock PROVE UninstallInv'
  BY <1>2, UninstallKept DEF ReplaceBinary, CopyEnds, RemoveStaleLock, Goes, CmdType, Idle
<1>3. ASSUME KillAllDaemons \/ Restart \/ ExitForUpdate \/ StopDaemonService PROVE UninstallInv'
  <2>1. happened \subseteq happened'
    BY <1>3 DEF KillAllDaemons, Restart, ExitForUpdate, StopDaemonService, Terminate, End, EndWith
  <2>2. unit = "gone" => unit' = "gone"
    BY <1>3 DEF KillAllDaemons, Restart, ExitForUpdate, StopDaemonService, ServiceRestarts
  <2>3. cmd'.at \in {"unlock", "restart", "none", "unregister"}
    BY <1>3 DEF KillAllDaemons, Restart, ExitForUpdate, StopDaemonService, Goes, CmdType, Idle
  <2>4. UNCHANGED <<data, told, binary>>
    BY <1>3 DEF KillAllDaemons, Restart, ExitForUpdate, StopDaemonService
  <2> QED
    BY <2>1, <2>2, <2>3, <2>4, UninstallKept
<1>4. ASSUME CommandKilled \/ StopDeadline PROVE UninstallInv'
  BY <1>4, UninstallKept DEF CommandKilled, StopDeadline, Idle
<1>5. ASSUME UnregisterDaemonService PROVE UninstallInv'
  BY <1>5 DEF UnregisterDaemonService, UninstallInv, Excused, Goes, CmdType
<1>6. ASSUME DestroyLocalBackupData PROVE UninstallInv'
  BY <1>6 DEF DestroyLocalBackupData, UninstallInv, Excused, Goes, CmdType, TypeOK
<1>7. ASSUME RunWrites PROVE UninstallInv'
  BY <1>7 DEF RunWrites, UninstallInv, Excused
<1>8. ASSUME SendUninstallCompleteHB PROVE UninstallInv'
  <2>1. /\ cmd.at \in {"report", "failed"} /\ cmd'.at = "remove" /\ unit' = unit
        /\ UNCHANGED <<data, binary>> /\ happened \subseteq happened'
    BY <1>8 DEF SendUninstallCompleteHB, Goes, CmdType
  <2>2. CASE told' = (IF cmd.at = "failed" THEN "failed"
                      ELSE IF cmd.destroy THEN "destroyed" ELSE "retained")
    BY <2>1, <2>2 DEF UninstallInv, Excused
  <2>3. CASE told' = told /\ "lost" \in happened'
    BY <2>1, <2>3 DEF UninstallInv, Excused
  <2> QED
    BY <1>8, <2>2, <2>3 DEF SendUninstallCompleteHB
<1>9. ASSUME RemoveInstalledData PROVE UninstallInv'
  BY <1>9 DEF RemoveInstalledData, EndWith, UninstallInv, Excused, Idle
<1> QED
  BY <1>1, <1>2, <1>3, <1>4, <1>5, <1>6, <1>7, <1>8, <1>9 DEF CommandStep

LEMMA UninstallStep == TypeOK /\ UninstallInv /\ [Next]_vars => UninstallInv'
<1> SUFFICES ASSUME TypeOK, UninstallInv, [Next]_vars PROVE UninstallInv'
  OBVIOUS
<1>1. CASE UNCHANGED vars
  BY <1>1 DEF vars, UninstallInv, Excused
<1> QED
  BY <1>1, UninstallProcess, UninstallCommands DEF Next

(***************************************************************************)
(* The theorems.                                                           *)
(***************************************************************************)

LEMMA LifeInit == Init => LifeInv
<1> SUFFICES ASSUME Init PROVE LifeInv
  OBVIOUS
<1>1. \A p \in Pid : proc[p].at = "none"
  BY DEF Init, Dead
<1>2. LockInv
  BY <1>1 DEF LockInv, At, Past
<1>3. ProgramInv
  BY <1>1 DEF Init, Idle, ProgramInv, Daemons, At, Early, Past
<1>4. UninstallInv
  BY DEF Init, Idle, UninstallInv, Excused
<1> QED
  BY <1>2, <1>3, <1>4, TypeInit DEF LifeInv

\* The inductive invariant: its parts are kept by every step.
THEOREM LifeInvariant == Spec => []LifeInv
<1>1. LifeInv /\ [Next]_vars => LifeInv'
  BY TypeStep, LockStep, ProgramStep, UninstallStep DEF LifeInv
<1> QED
  BY <1>1, LifeInit, PTL DEF Spec

\* The PID lock keeps daemons apart (acquirePIDLock), however many processes,
\* crashes and commands there are, unless a start overlaps with another one or
\* with the removal of daemon.pid.
THEOREM OneDaemonHolds == Spec => []OneDaemon
<1>1. LifeInv => OneDaemon
  BY DEF LifeInv, LockInv, OneDaemon, AtMostOne
<1> QED
  BY <1>1, LifeInvariant, PTL

\* No daemon of the old program outlives an update (killAllDaemons).
THEOREM UpdatedHolds == Spec => []UpdatedMeansAll
<1>1. LifeInv => UpdatedMeansAll
  BY DEF LifeInv, ProgramInv, UpdatedMeansAll
<1> QED
  BY <1>1, LifeInvariant, PTL

\* The server is told no more than is done, unless systemctl fails, a job is skipped
\* or somebody writes to a destination again, and is told before the node forgets
\* it (SendUninstallCompleteHB and the order of uninstall.Run).
THEOREM ServerKnowsHolds == Spec => []ServerKnows
<1>1. LifeInv => ServerKnows
  BY DEF LifeInv, UninstallInv, ServerKnows
<1> QED
  BY <1>1, LifeInvariant, PTL
=============================================================================
