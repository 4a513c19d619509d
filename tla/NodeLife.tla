------------------------------ MODULE NodeLife ------------------------------
(***************************************************************************)
(* The life of the daemon's process on a node (Linux): the start under the *)
(* service manager and the PID lock (daemon/daemon.go Run, acquirePIDLock),*)
(* the restart by a command (daemon/restart_unix.go), the update of the    *)
(* program (updatecheck, maybeRunRemoteUpdate), the reverse tunnel's key   *)
(* pair and connection (tunnel/tunnel.go) and the uninstaller              *)
(* (uninstall/uninstall.go, hb.go), which a command or the daemon itself   *)
(* runs.  The node is registered with a management server.                 *)
(***************************************************************************)
EXTENDS Naturals, FiniteSets

CONSTANTS
  Pid,          \* process IDs
  NoPid,        \* none of them; as `by' of a command: a CLI process
  Key,          \* key pairs, as many as can be told apart at a time
  MaxFaults,    \* bound: crashes, failures, losses and accidents of timing
  MaxCommands   \* bound: commands, and daemons that are started by hand

ASSUME PidAssumption == NoPid \notin Pid /\ IsFiniteSet(Pid)
ASSUME KeyAssumption == Key \subseteq Nat \ {0, 1}
ASSUME BoundAssumption == MaxFaults \in Nat /\ MaxCommands \in Nat

\* What a key file holds when it holds no key: nothing, or a part of one.
None == 0
Torn == 1

VARIABLES
  unit,         \* the service: "on", "off" (stopped) or "gone"
  main,         \* its process
  proc,         \* per process ID: where it is, its program, its tunnel manager
  lock,         \* daemon.pid
  binary,       \* the installed program; "broken" when it is copied in part
  keys,         \* tunnel_key and tunnel_key.pub
  authorized,   \* the server: the key it lets in
  up,           \* daemons whose tunnel is connected
  cmd,          \* the command under way, and who runs it
  data,         \* the backups on local destinations
  told,         \* the server: the uninstall_complete it has got
  updated,      \* history: a restart has followed the installation
  happened,     \* history: accidents that some properties exempt
  bounds        \* history: counters of the bounds

disk == <<lock, binary, keys>>
vars == <<unit, main, proc, disk, authorized, up, cmd, data, told, updated, happened, bounds>>

\* Where a daemon is in Run: before the lock, and past it.
Early == {"exec", "locking"}
Past == {"keys", "pub", "hello", "run"}
Accident == {"overlap", "reuse", "copy", "key", "disk", "lost", "run", "unit", "skipped"}

Dead == [at |-> "none", program |-> "old", round |-> 1, public |-> None, signer |-> None]
Idle == [at |-> "none", by |-> NoPid, destroy |-> FALSE]

TypeOK ==
  /\ unit \in {"on", "off", "gone"} /\ main \in Pid \cup {NoPid} /\ lock \in Pid \cup {NoPid}
  /\ proc \in [Pid -> [at : {"none", "other"} \cup Early \cup Past, program : {"old", "new"},
                       round : {1, 2}, public : Key \cup {None}, signer : Key \cup {None}]]
  /\ binary \in {"old", "new", "broken", "none"}
  /\ keys \in [priv : Key \cup {None, Torn}, pub : Key \cup {None}]
  /\ authorized \in Key \cup {None} /\ up \subseteq Pid
  /\ cmd \in [at : {"none", "install", "copy", "kill", "unlock", "restart", "stop",
                    "unregister", "destroy", "report", "failed", "remove"},
              by : Pid \cup {NoPid}, destroy : BOOLEAN]
  /\ data \in {"kept", "gone"} /\ told \in {"nothing", "retained", "destroyed", "failed"}
  /\ updated \in BOOLEAN /\ happened \subseteq Accident
  /\ bounds \in [{"faults", "commands"} -> Nat]

Init ==
  /\ unit = "on" /\ main = NoPid /\ proc = [p \in Pid |-> Dead] /\ lock = NoPid
  /\ binary = "old" /\ keys = [priv |-> None, pub |-> None] /\ authorized = None
  /\ up = {} /\ cmd = Idle /\ data = "kept" /\ told = "nothing"
  /\ updated = FALSE /\ happened = {}
  /\ bounds = [b \in {"faults", "commands"} |-> 0]

Fault == bounds["faults"] < MaxFaults /\ bounds' = [bounds EXCEPT !["faults"] = @ + 1]
Command == bounds["commands"] < MaxCommands /\ bounds' = [bounds EXCEPT !["commands"] = @ + 1]

At(p, S) == proc[p].at \in S
Daemons == {p \in Pid : At(p, Early \cup Past)}

\* The processes S end, in whatever they were about: a command they run ends
\* too, and a key pair of which only the private half is written stays so.
EndWith(S, accidents) ==
  /\ proc' = [p \in Pid |-> IF p \in S THEN Dead ELSE proc[p]]
  /\ up' = up \ S
  /\ main' = IF main \in S THEN NoPid ELSE main
  /\ happened' = happened \cup accidents
                          \cup (IF \E p \in S \cap Pid : At(p, {"pub"}) THEN {"key"} ELSE {})
                          \cup (IF cmd.by \in S /\ cmd.at = "copy" THEN {"copy"} ELSE {})

End(S) == EndWith(S, {})

CommandEnds(S) == cmd' = IF cmd.by \in S THEN Idle ELSE cmd

\* SIGTERM: once past the lock, a daemon removes daemon.pid, whatever it names.
Terminate(S) ==
  /\ End(S)
  /\ lock' = IF \E p \in S \cap Pid : At(p, Past) THEN NoPid ELSE lock

-----------------------------------------------------------------------------
(***************************************************************************)
(* The start of a daemon.                                                  *)
(***************************************************************************)

\* A PID that daemon.pid still names comes round again by accident only.
Starts(p) ==
  /\ At(p, {"none"}) /\ p # lock
  /\ binary \in {"old", "new"}
  /\ proc' = [proc EXCEPT ![p] = [Dead EXCEPT !.at = "exec", !.program = binary]]

ServiceStarts ==
  /\ unit = "on" /\ main = NoPid
  /\ \E p \in Pid : Starts(p) /\ main' = p
  /\ UNCHANGED <<unit, disk, authorized, up, cmd, data, told, updated, happened, bounds>>

\* `lss-backup-cli daemon' in a terminal, next to the service.
HandStarts ==
  /\ Command
  /\ \E p \in Pid : Starts(p)
  /\ UNCHANGED <<unit, main, disk, authorized, up, cmd, data, told, updated, happened>>

\* The PID of a dead daemon becomes that of another program.
Reuse ==
  /\ Fault
  /\ lock # NoPid /\ At(lock, {"none"})
  /\ proc' = [proc EXCEPT ![lock].at = "other"]
  /\ happened' = happened \cup {"reuse"}
  /\ UNCHANGED <<unit, main, disk, authorized, up, cmd, data, told, updated>>

\* Mutant of PidIsAlive: any daemon.pid is taken for a daemon.
PidIsThere(p) == p # NoPid

PidIsAlive(p) == p # NoPid /\ ~At(p, {"none"})

\* Mutant of AcquirePIDLock: a start that is refused removes the file.
AcquireOrRemove(p) ==
  /\ At(p, {"exec"})
  /\ IF PidIsAlive(lock)
     THEN End({p}) /\ lock' = NoPid
     ELSE /\ proc' = [proc EXCEPT ![p].at = "locking"]
          /\ happened' = happened \cup IF \E q \in Pid : At(q, {"locking"}) THEN {"overlap"} ELSE {}
          /\ UNCHANGED <<main, up, lock>>
  /\ UNCHANGED <<unit, binary, keys, authorized, cmd, data, told, updated, bounds>>

\* The lock is read first and written later.  Two starts overlap when both
\* find no daemon.
AcquirePIDLock(p) ==
  /\ At(p, {"exec"})
  /\ IF PidIsAlive(lock)
     THEN End({p})
     ELSE /\ proc' = [proc EXCEPT ![p].at = "locking"]
          /\ happened' = happened \cup IF \E q \in Pid : At(q, {"locking"}) THEN {"overlap"} ELSE {}
          /\ UNCHANGED <<main, up>>
  /\ UNCHANGED <<unit, disk, authorized, cmd, data, told, updated, bounds>>

WritePIDLock(p) ==
  /\ At(p, {"locking"})
  /\ lock' = p
  /\ proc' = [proc EXCEPT ![p].at = "keys"]
  /\ UNCHANGED <<unit, main, binary, keys, authorized, up, cmd, data, told, updated, happened, bounds>>

-----------------------------------------------------------------------------
(***************************************************************************)
(* The tunnel: loadOrGenerateKey in NewManager (round 1) and in Run (round *)
(* 2), with the first heartbeat between the two.                           *)
(***************************************************************************)

\* A load ends with the manager's public key, and in Run with its signer; on
\* the way, `signer' is the pair that is generated.
Loaded(p, public, signer) ==
  proc' = [proc EXCEPT ![p] =
             [@ EXCEPT !.public = public,
                       !.signer = IF proc[p].round = 2 THEN signer ELSE None,
                       !.at = IF proc[p].round = 2 THEN "run" ELSE "hello"]]

\* Mutant of Readable: a key file that does not parse is not replaced.
ReadableIfThere == keys.priv # None

Readable == keys.priv \in Key

\* The private key decides; the public one is whatever the other file holds.
LoadKey(p) ==
  /\ At(p, {"keys"}) /\ Readable
  /\ Loaded(p, keys.pub, IF keys.priv \in Key THEN keys.priv ELSE None)
  /\ UNCHANGED <<unit, main, disk, authorized, up, cmd, data, told, updated, happened, bounds>>

InUse == {keys.priv, keys.pub, authorized} \cup {proc[p].public : p \in Pid}
                                          \cup {proc[p].signer : p \in Pid}

\* The private key is written, then the public one.  The new pair is one that
\* nobody has (the smallest number stands for it).
GenerateKey(p) ==
  /\ At(p, {"keys"}) /\ ~Readable
  /\ \E new \in Key \ InUse :
       /\ \A k \in Key \ InUse : new <= k
       /\ keys' = [keys EXCEPT !.priv = new]
       /\ proc' = [proc EXCEPT ![p] = [@ EXCEPT !.at = "pub", !.signer = new]]
  /\ UNCHANGED <<unit, main, lock, binary, authorized, up, cmd, data, told, updated, happened, bounds>>

WritePublicKey(p) ==
  /\ At(p, {"pub"})
  /\ keys' = [keys EXCEPT !.pub = proc[p].signer]
  /\ Loaded(p, proc[p].signer, proc[p].signer)
  /\ UNCHANGED <<unit, main, lock, binary, authorized, up, cmd, data, told, updated, happened, bounds>>

\* Either file fails to be written.  In Run, the tunnel's goroutine gives up.
KeyFails(p) ==
  /\ Fault
  /\ \/ At(p, {"keys"}) /\ ~Readable /\ keys' = [keys EXCEPT !.priv = Torn]
     \/ At(p, {"pub"}) /\ keys' = [keys EXCEPT !.pub = None]
  /\ Loaded(p, proc[p].public, None)
  /\ happened' = happened \cup {"disk"}
  /\ UNCHANGED <<unit, main, lock, binary, authorized, up, cmd, data, told, updated>>

\* A heartbeat registers the public key it carries, if it arrives.
Registers(p) ==
  \/ authorized' = (IF proc[p].public = None THEN authorized ELSE proc[p].public) /\ UNCHANGED bounds
  \/ UNCHANGED authorized /\ Fault

SendInitialHeartbeat(p) ==
  /\ At(p, {"hello"})
  /\ Registers(p)
  /\ proc' = [proc EXCEPT ![p] = [@ EXCEPT !.at = "keys", !.round = 2]]
  /\ UNCHANGED <<unit, main, disk, up, cmd, data, told, updated, happened>>

Heartbeat(p) ==
  /\ At(p, {"run"})
  /\ proc[p].public \notin {None, authorized}
  /\ authorized' = proc[p].public
  /\ UNCHANGED <<unit, main, proc, disk, up, cmd, data, told, updated, happened, bounds>>

Connect(p) ==
  /\ At(p, {"run"}) /\ p \notin up
  /\ proc[p].signer # None /\ proc[p].signer = authorized
  /\ up' = up \cup {p}
  /\ UNCHANGED <<unit, main, proc, disk, authorized, cmd, data, told, updated, happened, bounds>>

ConnectionLost(p) ==
  /\ p \in up
  /\ up' = up \ {p}
  /\ UNCHANGED <<unit, main, proc, disk, authorized, cmd, data, told, updated, happened, bounds>>

-----------------------------------------------------------------------------
(***************************************************************************)
(* Ends of processes.                                                      *)
(***************************************************************************)

\* A daemon that dies while it writes its private key leaves a part of it.
Crash(p) ==
  /\ p \in Daemons
  /\ Fault
  /\ End({p}) /\ CommandEnds({p})
  /\ \/ UNCHANGED keys
     \/ At(p, {"keys"}) /\ ~Readable /\ keys' = [keys EXCEPT !.priv = Torn]
  /\ UNCHANGED <<unit, lock, binary, authorized, data, told, updated>>

\* A restart by the service manager starts a stopped service as well.
ServiceRestarts == unit' = IF unit = "gone" THEN "gone" ELSE "on"

\* The service is started at boot when it is enabled.
PowerLoss ==
  /\ Fault
  /\ proc' = [p \in Pid |-> Dead] /\ up' = {} /\ main' = NoPid
  /\ cmd' = Idle
  /\ ServiceRestarts
  /\ happened' = happened \cup (IF \E p \in Pid : At(p, {"pub"}) THEN {"key"} ELSE {})
                          \cup (IF cmd.at = "copy" THEN {"copy"} ELSE {})
  /\ UNCHANGED <<disk, authorized, data, told, updated>>

\* Ctrl-C of a daemon in a terminal.
HandStops ==
  /\ \E p \in Daemons \ {main} : cmd.by # p /\ Terminate({p})
  /\ UNCHANGED <<unit, binary, keys, authorized, cmd, data, told, updated, bounds>>

\* The DR restore stops the service and starts it when it is done.
StopService ==
  /\ unit = "on" /\ cmd = Idle
  /\ Command
  /\ unit' = "off"
  /\ Terminate({main})
  /\ UNCHANGED <<binary, keys, authorized, cmd, data, told, updated>>

StartService ==
  /\ unit = "off" /\ cmd = Idle
  /\ unit' = "on"
  /\ UNCHANGED <<main, proc, disk, authorized, up, cmd, data, told, updated, happened, bounds>>

-----------------------------------------------------------------------------
(***************************************************************************)
(* Updates and restarts.                                                   *)
(***************************************************************************)

\* Whoever runs a command: a CLI process, or a daemon in its heartbeat tick.
Runner == {NoPid} \cup {p \in Pid : At(p, {"run"})}

Begin(by, step, destroy) ==
  /\ cmd = Idle
  /\ Command
  /\ cmd' = [at |-> step, by |-> by, destroy |-> destroy]
  /\ UNCHANGED <<unit, main, proc, disk, authorized, up, data, told, updated, happened>>

Goes(step) == cmd' = [cmd EXCEPT !.at = step]

\* Check compares the release with the version of the process that asks;
\* InstallFromURL, for the daemon only, installs what the server names.
BeginUpdate(by) ==
  /\ by = NoPid => binary = "old"
  /\ Begin(by, "install", FALSE)

BeginRestart == binary # "none" /\ Begin(NoPid, "kill", FALSE)

\* A rename; or, across file systems, a copy that takes its time; or neither,
\* when the download fails.
ReplaceBinary ==
  /\ cmd.at = "install"
  /\ \/ binary' = "new" /\ Goes("kill") /\ UNCHANGED bounds
     \/ binary' = "broken" /\ Goes("copy") /\ UNCHANGED bounds
     \/ Fault /\ cmd' = Idle /\ UNCHANGED binary
  /\ UNCHANGED <<unit, main, proc, lock, keys, authorized, up, data, told, updated, happened>>

CopyEnds ==
  /\ cmd.at = "copy"
  /\ binary' = "new" /\ Goes("kill")
  /\ UNCHANGED <<unit, main, proc, lock, keys, authorized, up, data, told, updated, happened, bounds>>

\* Mutant of KillAllDaemons: only the daemon that daemon.pid names is killed.
KillLockHolder ==
  /\ cmd.at = "kill" /\ cmd.by = NoPid
  /\ End(Daemons \cap {main})
  /\ Goes(IF Daemons = {} THEN "restart" ELSE "unlock")
  /\ UNCHANGED <<unit, disk, authorized, data, told, updated, bounds>>

\* RestartService: pgrep finds the daemons that are started by hand, too.  When it
\* finds none, daemon.pid is left alone.
KillAllDaemons ==
  /\ cmd.at = "kill" /\ cmd.by = NoPid
  /\ End(Daemons)
  /\ Goes(IF Daemons = {} THEN "restart" ELSE "unlock")
  /\ UNCHANGED <<unit, disk, authorized, data, told, updated, bounds>>

\* Its os.Remove of daemon.pid; a daemon may have taken the lock since.
RemoveStaleLock ==
  /\ cmd.at = "unlock"
  /\ lock' = NoPid
  /\ Goes("restart")
  /\ happened' = happened \cup IF Daemons # {} THEN {"overlap"} ELSE {}
  /\ UNCHANGED <<unit, main, proc, binary, keys, authorized, up, data, told, updated, bounds>>

Restart ==
  /\ cmd.at = "restart"
  /\ ServiceRestarts
  /\ Terminate({main})
  /\ cmd' = Idle
  /\ updated' = (updated \/ binary = "new")
  /\ UNCHANGED <<binary, keys, authorized, data, told, bounds>>

\* triggerServiceRestart and os.Exit(1), which skips the removal of daemon.pid.
ExitForUpdate ==
  /\ cmd.at = "kill" /\ cmd.by # NoPid
  /\ End({cmd.by, main}) /\ cmd' = Idle
  /\ lock' = IF main \notin {cmd.by, NoPid} /\ At(main, Past) THEN NoPid ELSE lock
  /\ ServiceRestarts
  /\ UNCHANGED <<binary, keys, authorized, data, told, updated, bounds>>

\* A CLI process is interrupted between two of its steps.
CommandKilled ==
  /\ cmd # Idle /\ cmd.by = NoPid
  /\ Fault
  /\ cmd' = Idle
  /\ happened' = happened \cup IF cmd.at = "copy" THEN {"copy"} ELSE {}
  /\ UNCHANGED <<unit, main, proc, disk, authorized, up, data, told, updated>>

-----------------------------------------------------------------------------
(***************************************************************************)
(* The uninstaller.                                                        *)
(***************************************************************************)

BeginUninstall(by) ==
  /\ binary # "none"
  /\ \E destroy \in BOOLEAN : Begin(by, "stop", destroy)

\* systemctl stop ends the service's process, unless that is the one that
\* uninstalls: its handler of SIGTERM ends the loop, which it never returns to.
\* When systemctl fails, the uninstaller goes on all the same.
StopDaemonService ==
  /\ cmd.at = "stop"
  /\ Goes("unregister")
  /\ \/ /\ unit' = IF unit = "gone" THEN "gone" ELSE "off"
        /\ Terminate({main} \ {cmd.by})
        /\ UNCHANGED bounds
     \/ /\ Fault
        /\ happened' = happened \cup {"unit"}
        /\ UNCHANGED <<unit, main, proc, lock, up>>
  /\ UNCHANGED <<binary, keys, authorized, data, told, updated>>

\* ... but the service manager kills it when its patience is at an end.
StopDeadline ==
  /\ cmd.by # NoPid /\ cmd.by = main
  /\ cmd.at \in {"unregister", "destroy", "report", "failed", "remove"}
  /\ Fault
  /\ proc' = [proc EXCEPT ![main] = Dead] /\ up' = up \ {main} /\ main' = NoPid
  /\ cmd' = Idle
  /\ UNCHANGED <<unit, disk, authorized, data, told, updated, happened>>

\* Mutant of UnregisterDaemonService: the report goes first.
UnregisterAndReport ==
  /\ cmd.at = "unregister"
  /\ unit' = "gone"
  /\ Goes("report")
  /\ UNCHANGED <<main, proc, disk, authorized, up, data, told, updated, happened, bounds>>

\* A unit that cannot be disabled and removed stays, which is a warning at most.
UnregisterDaemonService ==
  /\ cmd.at = "unregister"
  /\ Goes("destroy")
  /\ \/ unit' = "gone" /\ UNCHANGED <<happened, bounds>>
     \/ Fault /\ happened' = happened \cup {"unit"} /\ UNCHANGED unit
  /\ UNCHANGED <<main, proc, disk, authorized, up, data, told, updated>>

\* Mutant of DestroyLocalBackupData: what cannot be removed does not count.
DestroyUncounted ==
  /\ cmd.at = "destroy"
  /\ Goes("report")
  /\ \/ data' = (IF cmd.destroy THEN "gone" ELSE data) /\ UNCHANGED bounds
     \/ cmd.destroy /\ Fault /\ UNCHANGED data
  /\ UNCHANGED <<unit, main, proc, disk, authorized, up, told, updated, happened>>

\* A destination that cannot be removed, or a directory of jobs that cannot be
\* read, is reported and does not stop the uninstaller.  A job that cannot be
\* loaded is skipped: its destination stays, and nothing counts it.
DestroyLocalBackupData ==
  /\ cmd.at = "destroy"
  /\ \/ /\ Goes("report")
        /\ data' = (IF cmd.destroy THEN "gone" ELSE data)
        /\ UNCHANGED <<happened, bounds>>
     \/ /\ cmd.destroy /\ Fault /\ Goes("failed")
        /\ UNCHANGED <<data, happened>>
     \/ /\ cmd.destroy /\ Fault /\ Goes("report")
        /\ happened' = happened \cup {"skipped"}
        /\ UNCHANGED data
  /\ UNCHANGED <<unit, main, proc, disk, authorized, up, told, updated>>

\* A run of another process, of a command or of a daemon that is left, writes its
\* destination anew.
RunWrites ==
  /\ data = "gone"
  /\ Fault
  /\ data' = "kept"
  /\ happened' = happened \cup {"run"}
  /\ UNCHANGED <<unit, main, proc, disk, authorized, up, cmd, told, updated>>

\* Two attempts, of which both may fail.
SendUninstallCompleteHB ==
  /\ cmd.at \in {"report", "failed"}
  /\ Goes("remove")
  /\ \/ /\ told' = (IF cmd.at = "failed" THEN "failed"
                   ELSE IF cmd.destroy THEN "destroyed" ELSE "retained")
        /\ UNCHANGED <<happened, bounds>>
     \/ Fault /\ happened' = happened \cup {"lost"} /\ UNCHANGED told
  /\ UNCHANGED <<unit, main, proc, disk, authorized, up, data, updated>>

\* The program, its configuration and its state; the daemon then exits.  A
\* daemon that was started by hand loses its daemon.pid.
RemoveInstalledData ==
  /\ cmd.at = "remove"
  /\ binary' = "none" /\ lock' = NoPid /\ keys' = [priv |-> None, pub |-> None]
  /\ EndWith({cmd.by}, IF Daemons \subseteq {cmd.by} THEN {} ELSE {"overlap"})
  /\ cmd' = Idle
  /\ UNCHANGED <<unit, authorized, data, told, updated, bounds>>

-----------------------------------------------------------------------------
ProcessStep(p) ==
  \/ AcquirePIDLock(p) \/ WritePIDLock(p)
  \/ LoadKey(p) \/ GenerateKey(p) \/ WritePublicKey(p) \/ SendInitialHeartbeat(p)

CommandStep ==
  \/ ReplaceBinary \/ CopyEnds \/ KillAllDaemons \/ RemoveStaleLock \/ Restart
  \/ ExitForUpdate
  \/ StopDaemonService \/ UnregisterDaemonService \/ DestroyLocalBackupData
  \/ SendUninstallCompleteHB \/ RemoveInstalledData

Next ==
  \/ ServiceStarts \/ HandStarts \/ Reuse
  \/ \E p \in Pid : \/ ProcessStep(p) \/ KeyFails(p) \/ Heartbeat(p)
                    \/ Connect(p) \/ ConnectionLost(p) \/ Crash(p)
  \/ PowerLoss \/ HandStops \/ StopService \/ StartService
  \/ \E by \in Runner : BeginUpdate(by) \/ BeginUninstall(by)
  \/ BeginRestart \/ CommandStep \/ CommandKilled
  \/ StopDeadline \/ RunWrites

Spec == Init /\ [][Next]_vars

\* The service manager starts the service again whenever it ends
\* (Restart=always), processes run, heartbeats and reconnections are tried on.
Fairness ==
  /\ WF_vars(ServiceStarts)
  /\ \A p \in Pid : WF_vars(ProcessStep(p) \/ Heartbeat(p) \/ Connect(p))
  /\ WF_vars(CommandStep)

FairSpec == Spec /\ Fairness

-----------------------------------------------------------------------------
(***************************************************************************)
(* Properties.                                                             *)
(***************************************************************************)

AtMostOne == \A p, q \in Pid : At(p, Past) /\ At(q, Past) => p = q

\* The PID lock keeps daemons apart, those of the service and those that are
\* started by hand, across crashes, stale lock files and restarts, as long as
\* no start falls into another one's read and write of daemon.pid, and nobody
\* removes it under a daemon, as RestartService and the uninstaller may
\* (acquirePIDLock: "to prevent multiple daemon instances").
OneDaemon == "overlap" \notin happened => AtMostOne

\* Once the update has restarted the service, no daemon is left that runs the
\* program before it, whoever started it (killAllDaemons).
UpdatedMeansAll == updated => \A p \in Daemons : proc[p].program = "new"

Excused(S) == happened \cap S # {}

\* The server is told no more than what is done, and is told before the node
\* forgets how to reach it (hb.go: "No silent data loss, no false-positive
\* DeleteNode()"), whatever is interrupted, fails and is counted, or is asked for
\* again.  What it is told may be wrong when systemctl fails, when a job is
\* skipped, or when somebody writes to a destination afterwards; and only a
\* report that is lost leaves it in the dark.
ServerKnows ==
  /\ told \in {"retained", "destroyed"} => unit = "gone" \/ Excused({"unit"})
  /\ told = "destroyed" => data = "gone" \/ Excused({"run", "skipped"})
  /\ binary = "none" => told # "nothing" \/ Excused({"lost"})

(***************************************************************************)
(* The inductive invariant behind these three (NodeLifeProofs).            *)
(***************************************************************************)

\* A daemon past the lock is named by daemon.pid, and one that is about to write
\* it is alone.
LockInv ==
  "overlap" \notin happened =>
    \A p \in Pid :
      /\ At(p, Past) => lock = p
      /\ At(p, {"locking"}) => \A q \in Pid : At(q, Past \cup {"locking"}) => q = p

\* From the kill on, whoever starts runs what is installed.
ProgramInv ==
  /\ updated => binary # "old"
  /\ updated \/ (cmd.at \in {"unlock", "restart"} /\ binary # "old") =>
       \A p \in Daemons : proc[p].program = "new"

\* What each step of the uninstaller has behind it.
UninstallInv ==
  /\ cmd.at \in {"destroy", "report", "failed", "remove"} => unit = "gone" \/ Excused({"unit"})
  /\ told \in {"retained", "destroyed"} => unit = "gone" \/ Excused({"unit"})
  /\ (cmd.at = "report" /\ cmd.destroy) \/ told = "destroyed" =>
       data = "gone" \/ Excused({"run", "skipped"})
  /\ cmd.at = "remove" \/ binary = "none" => told # "nothing" \/ Excused({"lost"})

LifeInv == TypeOK /\ LockInv /\ ProgramInv /\ UninstallInv

(***************************************************************************)
(* Liveness.                                                               *)
(***************************************************************************)

\* The service is to run, and there is a program.
Wanted == unit = "on" /\ binary # "none"

\* As long as the service is not stopped, a daemon comes back from every end of
\* the one before, unless its PID goes to another program while daemon.pid
\* names it, or the copy of the program is cut short.
DaemonComesBack ==
  []<>(~Wanted \/ (\E p \in Pid : At(p, Past)) \/ Excused({"reuse", "copy"}))

\* The server learns the key that the tunnel uses, and the tunnel comes up
\* again whatever ends it, even if the daemon died while it wrote the private
\* key, except when the pair of files was left incomplete.
TunnelComesUp ==
  []<>(~Wanted \/ up # {} \/ Excused({"reuse", "copy", "key", "disk", "overlap"}))

(***************************************************************************)
(* What the code does not keep (further configurations).                   *)
(***************************************************************************)

\* Two daemons never work at the same time.
NeverTwoDaemons == AtMostOne

\* daemon.pid of a daemon that is gone is overwritten ("Stale PID file").
StaleLockIsOverwritten ==
  []<>(~Wanted \/ (\E p \in Pid : At(p, Past)) \/ Excused({"copy"}))

\* An update leaves the old program or the new one.
ProgramIsWhole ==
  []<>(~Wanted \/ (\E p \in Pid : At(p, Past)) \/ Excused({"reuse"}))

\* A key pair that was written in part is made good.
KeyPairHeals ==
  []<>(~Wanted \/ up # {} \/ Excused({"reuse", "copy", "disk", "overlap"}))

\* The tunnel survives a disk that is full for a while.
TunnelSurvivesFullDisk ==
  []<>(~Wanted \/ up # {} \/ Excused({"reuse", "copy", "key", "overlap"}))

\* Data that the server is told is destroyed is destroyed (hb.go: "No silent data
\* loss, no false-positive DeleteNode()"), while nobody writes it anew.
ToldIsDone == told = "destroyed" => data = "gone" \/ Excused({"run"})

\* Data that the server is told is destroyed stays destroyed, while no job is
\* skipped.
DestroyedStays == told = "destroyed" => data = "gone" \/ Excused({"skipped"})

\* A node of which the server is told that it is uninstalled has no service left
\* (uninstall.go: "By this point the destructive work (daemon stopped, service
\* unregistered, data wiped if requested) is done").
UnregisteredIsGone == told \in {"retained", "destroyed"} => unit = "gone"

\* A node that is taken out of service tells the server so in the end, unless
\* the message is lost.
UninstallIsTold == unit = "gone" ~> (told # "nothing" \/ Excused({"lost"}))
=============================================================================
