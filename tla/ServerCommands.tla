--------------------------- MODULE ServerCommands ---------------------------
(***************************************************************************)
(* What the management server asks of a node in the answers to heartbeats, *)
(* and the node's disaster-recovery backup: reporting/http.go,             *)
(* reporting/reconcile.go, reporting/remote_update.go, internal/dr, the    *)
(* heartbeat tick of daemon/daemon.go and the commands --dr-run-now and    *)
(* Configure Management Console.                                           *)
(*                                                                         *)
(* An answer only sets flags in the memory of the process that sent the    *)
(* heartbeat; the daemon's next tick acts on its own.  The flags are lost  *)
(* with the process, so the server asks again until a heartbeat shows that *)
(* the work is done; DR settings that have not changed it may omit.        *)
(* Heartbeats are sent by goroutines: their answers arrive in any order,   *)
(* and while a tick works.  CLI commands send heartbeats as well, and a    *)
(* menu that has run a DR backup takes settings over with a DR manager of  *)
(* its own, in the daemon's dr_config.enc.                                 *)
(***************************************************************************)
EXTENDS Naturals, FiniteSets

CONSTANTS
  MaxConn,     \* bound: heartbeats and answers under way at a time
  DRConfig,    \* DR settings the server may push
  Disabled,    \* those of them that turn DR off
  NoConfig,    \* no settings
  Commands,    \* what the server may ask for
  MaxAsks,     \* bound: times the server asks or changes the DR settings
  MaxFaults    \* bound: ends of the daemon, changes of the console's settings,
               \* menus with a DR manager,
               \* losses on the network, updates, uninstalls, statistics and
               \* writes that fail

Uninstall == {"retain data", "destroy data"}

ASSUME ConfigAssumption == NoConfig \notin DRConfig /\ Disabled \subseteq DRConfig
ASSUME CommandAssumption ==
  Commands \subseteq {"update", "export", "sizes"} \cup Uninstall
ASSUME BoundAssumption == MaxConn \in Nat /\ MaxAsks \in Nat /\ MaxFaults \in Nat

\* The tick's calls in their order; "down" is no daemon, "initial" its first
\* heartbeat, "backup" a DR backup that runs.
Step == {"down", "initial", "idle", "backup", "update", "export", "uninstall", "report"}

VARIABLES
  asks, wanted,    \* the server: open requests, DR settings
  told,            \* the DR settings in the last of its answers that had some
  console,         \* config.toml: whether reporting is enabled, and the PSK
  drFile,          \* dr_config.enc: settings and the PSK that encrypts them
  oldStatus,       \* whether the last backup in dr_status.json is an interval ago
  version, node,   \* the installed program; "installed" or what uninstall left
  step,            \* where the daemon's loop is
  mgr,             \* the daemon's DR manager: settings, PSK, or not there
  due,             \* whether its last backup is an interval ago
  pending,         \* flags set by answers
  export,          \* pendingSecretsExport
  conn,            \* heartbeats and answers under way; of equal ones, one
  using,           \* the settings the running backup has read
  menu,            \* a menu's DR manager
  menuAnswer,      \* settings in the answer under way to it
  asked,           \* history: the uninstalls the server has ever asked for
  tried,           \* history: settings of the last backup that was attempted
                   \* since the daemon's settings changed
  read,            \* history: the daemon's settings are those it read at its start
  foreign,         \* history: a menu wrote dr_config.enc since the daemon did
                   \* or read it
  bounds           \* history: counters of the bounds

server == <<asks, wanted, told, asked>>
disk == <<console, drFile, oldStatus, version, node>>
memory == <<mgr, due, pending, export, using>>
session == <<menu, menuAnswer>>
history == <<tried, read, foreign>>
vars == <<server, disk, step, memory, session, conn, history, bounds>>

Config == DRConfig \cup {NoConfig}
Enabled(c) == c \in DRConfig \ Disabled
NoManager == [there |-> FALSE, cfg |-> NoConfig, psk |-> 0]
Message == [state : {"request", "answer"}, sender : {"daemon", "ended"},
            shows : SUBSET Commands, asks : SUBSET (Commands \cup {"force"}), dr : Config]

TypeOK ==
  /\ asks \subseteq Commands /\ asked \subseteq Uninstall /\ pending \subseteq Commands \cup {"force"}
  /\ wanted \in Config /\ told \in Config /\ using \in Config /\ tried \in Config
  /\ menuAnswer \in Config
  /\ console \in [enabled : BOOLEAN, psk : Nat]
  /\ drFile \in [cfg : Config, psk : Nat]
  /\ oldStatus \in BOOLEAN /\ due \in BOOLEAN /\ export \in BOOLEAN
  /\ read \in BOOLEAN /\ foreign \in BOOLEAN
  /\ version \in {"old", "new"}
  /\ node \in {"installed"} \cup Uninstall
  /\ step \in Step
  /\ mgr \in [there : BOOLEAN, cfg : Config, psk : Nat]
  /\ menu \in [there : BOOLEAN, cfg : Config, psk : Nat]
  /\ conn \subseteq Message
  /\ bounds \in [{"asks", "faults"} -> Nat]

Init ==
  /\ asks = {} /\ wanted = NoConfig /\ told = NoConfig /\ asked = {}
  /\ console \in [enabled : BOOLEAN, psk : {1}]
  /\ drFile = [cfg |-> NoConfig, psk |-> 0]
  /\ oldStatus = TRUE
  /\ version = "old" /\ node = "installed"
  /\ step = "down"
  /\ mgr = NoManager /\ due = TRUE /\ pending = {} /\ export = FALSE /\ using = NoConfig
  /\ menu = NoManager /\ menuAnswer = NoConfig
  /\ conn = {}
  /\ tried = NoConfig /\ read = FALSE /\ foreign = FALSE
  /\ bounds = [b \in {"asks", "faults"} |-> 0]

Counts(b, max) == bounds[b] < max /\ bounds' = [bounds EXCEPT ![b] = @ + 1]

-----------------------------------------------------------------------------
(***************************************************************************)
(* The server.                                                             *)
(***************************************************************************)

ServerAsks(k) ==
  /\ Counts("asks", MaxAsks)
  /\ k = "update" => version = "old"
  /\ asks' = (IF k \in Uninstall THEN asks \ Uninstall ELSE asks) \cup {k}
  /\ asked' = asked \cup ({k} \cap Uninstall)
  /\ UNCHANGED <<wanted, told, disk, step, memory, session, conn, history>>

ServerSetsDR(c) ==
  /\ Counts("asks", MaxAsks)
  /\ wanted # c
  /\ wanted' = c
  /\ UNCHANGED <<asks, told, asked, disk, step, memory, session, conn, history>>

\* The DR settings of an answer: those wanted, or, if they have not changed,
\* perhaps none.
Answers(c) ==
  \/ c = wanted /\ told' = wanted
  \/ c = NoConfig /\ told = wanted /\ UNCHANGED told

\* A request is open until a heartbeat shows its effect: the version, the
\* exported secrets, the sizes.  An answer may ask for a DR backup as well.
\* Nobody reads the answer to a process that has ended.
ServerReceives(m) ==
  /\ m.state = "request"
  /\ asks' = asks \ m.shows
  /\ \E force \in SUBSET {"force"}, c \in Config :
       /\ IF force = {} THEN UNCHANGED bounds ELSE Counts("asks", MaxAsks)
       /\ Answers(c)
       /\ conn' = (conn \ {m}) \cup
            IF m.sender = "ended" THEN {}
            ELSE {[m EXCEPT !.state = "answer", !.shows = {}, !.asks = asks' \cup force, !.dr = c]}
  /\ UNCHANGED <<wanted, asked, disk, step, memory, session, history>>

\* The network, the timeout or an answer that is not 2xx.
Lose(m) ==
  /\ Counts("faults", MaxFaults)
  /\ conn' = conn \ {m}
  /\ UNCHANGED <<server, disk, step, memory, session, history>>

-----------------------------------------------------------------------------
(***************************************************************************)
(* Heartbeats and their answers.                                           *)
(***************************************************************************)

Send(shows) ==
  /\ Cardinality(conn) < MaxConn
  /\ conn' = conn \cup {[state |-> "request", sender |-> "daemon", shows |-> shows \cap Commands,
                         asks |-> {}, dr |-> NoConfig]}

VersionShows == IF version = "new" THEN {"update"} ELSE {}

\* The sizes that restic fails to compute are missing from this heartbeat.
RepoSizes(sizes) ==
  \/ sizes = pending \cap {"sizes"} /\ UNCHANGED bounds
  \/ sizes = {} /\ "sizes" \in pending /\ Counts("faults", MaxFaults)

\* Mutant of Report: the export is dropped before it is attached.
ReportLate ==
  \E sizes \in SUBSET {"sizes"} :
    /\ RepoSizes(sizes)
    /\ Send(VersionShows \cup sizes)
    /\ export' = FALSE
    /\ pending' = pending \ {"sizes"}

Report ==
  \E sizes \in SUBSET {"sizes"} :
    /\ RepoSizes(sizes)
    /\ Send(VersionShows \cup sizes
                           \cup IF export THEN {"export"} ELSE {})
    /\ export' = FALSE
    /\ pending' = pending \ {"sizes"}

\* At the end of a tick; the heartbeat is skipped when reporting is disabled.
FireReport ==
  /\ step = "report"
  /\ step' = "idle"
  /\ IF console.enabled
     THEN Report
     ELSE UNCHANGED <<conn, export, pending, bounds>>
  /\ UNCHANGED <<server, disk, mgr, due, using, session, history>>

\* The tunnel's goroutine reports whenever the tunnel connects (and leaves room
\* for a heartbeat of the loop, which is a limit of the model).
OnConnected ==
  /\ step \notin {"down", "initial"}
  /\ Cardinality(conn) + 1 < MaxConn
  /\ console.enabled
  /\ Report
  /\ UNCHANGED <<server, disk, step, mgr, due, using, session, history>>

\* The daemon's first heartbeat takes neither secrets nor sizes along.
SendInitialHeartbeat ==
  /\ step = "initial"
  /\ step' = "idle"
  /\ IF console.enabled THEN Send(VersionShows) ELSE UNCHANGED conn
  /\ UNCHANGED <<server, disk, memory, session, history, bounds>>

\* Heartbeats of CLI commands, which show the program's version and end before
\* anyone reads the flags of the answer; its DR settings are for a menu that has
\* a manager, and for nobody otherwise.
FireImmediateReport ==
  /\ node = "installed"
  /\ console.enabled
  /\ menuAnswer = NoConfig
  /\ asks' = asks \ VersionShows
  /\ \E c \in Config :
       /\ Answers(c)
       /\ menuAnswer' = IF menu.there /\ c # menu.cfg THEN c ELSE NoConfig
  /\ UNCHANGED <<wanted, asked, disk, step, memory, menu, conn, history, bounds>>

\* dr_config.enc is written under the manager's PSK, and read under one's own.
SaveConfig(m, c) == drFile' = [cfg |-> c, psk |-> m.psk]
LoadConfig(psk) == IF drFile.psk = psk THEN drFile.cfg ELSE NoConfig
NewManager(psk) == [there |-> TRUE, cfg |-> LoadConfig(psk), psk |-> psk]

\* The answer gets lost, or its settings cannot be saved; or the menu's manager
\* takes them over.
MenuApplies ==
  /\ node = "installed"
  /\ menuAnswer # NoConfig
  /\ menuAnswer' = NoConfig
  /\ \/ UNCHANGED <<menu, drFile, foreign>>
     \/ /\ SaveConfig(menu, menuAnswer)
        /\ menu' = [menu EXCEPT !.cfg = menuAnswer]
        /\ foreign' = TRUE
  /\ UNCHANGED <<server, console, oldStatus, version, node, step, memory, conn, tried, read, bounds>>

\* Mutant of UpdateConfig: an error of saving goes unnoticed.
UpdateConfigUnsaved(c) ==
  /\ mgr' = [mgr EXCEPT !.cfg = c]
  /\ drFile' \in {drFile, [cfg |-> c, psk |-> mgr.psk]}

\* New settings are saved before they are used.
UpdateConfig(c) ==
  /\ SaveConfig(mgr, c)
  /\ mgr' = [mgr EXCEPT !.cfg = c]

\* Mutant of ApplyAnswer: RetainData is not looked at.
ApplyAnswerDestroys(m) ==
  /\ m.state = "answer"
  /\ conn' = conn \ {m}
  /\ pending' = pending \cup m.asks
                  \cup IF "retain data" \in m.asks THEN {"destroy data"} ELSE {}
  /\ UNCHANGED <<server, disk, step, mgr, due, export, using, session, history, bounds>>

\* The settings of an answer are the manager's, or become so, which forces a
\* backup, or cannot be saved.
TakeSettings(c) ==
  IF ~mgr.there \/ c \in {NoConfig, mgr.cfg}
  THEN UNCHANGED <<mgr, drFile, history, bounds>>
  ELSE \/ /\ UpdateConfig(c)
          /\ tried' = NoConfig /\ read' = FALSE /\ foreign' = FALSE
          /\ UNCHANGED bounds
       \/ Counts("faults", MaxFaults) /\ UNCHANGED <<mgr, drFile, history>>

\* The last word on an uninstall counts.
ApplyAnswer(m) ==
  /\ m.state = "answer"
  /\ conn' = conn \ {m}
  /\ TakeSettings(m.dr)
  /\ LET old == IF m.asks \cap Uninstall # {} THEN pending \ Uninstall ELSE pending
     IN pending' = old \cup m.asks \cup IF mgr' # mgr THEN {"force"} ELSE {}
  /\ UNCHANGED <<server, console, oldStatus, version, node, step, due, export, using, session>>

-----------------------------------------------------------------------------
(***************************************************************************)
(* The heartbeat tick.                                                     *)
(***************************************************************************)

\* The ticker fires.  IsDue, or a forced run; RunBackup copies the settings at
\* its start.
BeginDRBackup ==
  /\ step = "idle"
  /\ LET force == "force" \in pending
         runs == mgr.there /\ (force \/ (due /\ Enabled(mgr.cfg)))
     IN IF runs
        THEN /\ step' = "backup"
             /\ using' = mgr.cfg
             /\ pending' = pending \ {"force"}
        ELSE step' = "update" /\ UNCHANGED <<using, pending>>
  /\ UNCHANGED <<server, disk, mgr, due, export, session, conn, history, bounds>>

\* dr_status.json has the time of the attempt.
SaveStatus == oldStatus' = FALSE

\* Mutant of EndDRBackup: the flag is cleared when the backup is done.
EndDRBackupClears ==
  /\ step = "backup"
  /\ step' = "update"
  /\ due' = FALSE /\ SaveStatus
  /\ tried' = using
  /\ using' = NoConfig
  /\ pending' = pending \ {"force"}
  /\ UNCHANGED <<server, console, drFile, version, node, mgr, export, session, conn, read,
                 foreign, bounds>>

\* RecordSuccess or RecordFailure: either way the next one is an interval away.
EndDRBackup ==
  /\ step = "backup"
  /\ step' = "update"
  /\ due' = FALSE /\ SaveStatus
  /\ tried' = using
  /\ using' = NoConfig
  /\ UNCHANGED <<server, console, drFile, version, node, mgr, pending, export, session, conn,
                 read, foreign, bounds>>

\* The interval passes, for the manager and for dr_status.json.
TimePasses ==
  /\ ~due \/ ~oldStatus
  /\ due' = TRUE /\ oldStatus' = TRUE
  /\ UNCHANGED <<server, console, drFile, version, node, step, mgr, pending, export, using,
                 session, conn, history, bounds>>

\* The process ends: its memory is gone, and nobody reads its answers.
Ends ==
  /\ step' = "down"
  /\ mgr' = NoManager /\ due' = TRUE /\ pending' = {} /\ export' = FALSE /\ using' = NoConfig
  /\ conn' = {[m EXCEPT !.sender = "ended"] : m \in {n \in conn : n.state = "request"}}

\* Nothing is asked; the program is up to date already; or the download, the
\* check or the installation fails.
SkipUpdate ==
  /\ step = "update"
  /\ step' = "export"
  /\ pending' = pending \ {"update"}
  /\ IF "update" \in pending /\ version = "old" THEN Counts("faults", MaxFaults) ELSE UNCHANGED bounds
  /\ UNCHANGED <<server, disk, mgr, due, export, using, session, conn, history>>

\* The new program is installed and the daemon exits, with what is left of the
\* tick, for the service manager to start it again.
RemoteUpdate ==
  /\ step = "update"
  /\ "update" \in pending
  /\ version' = "new"
  /\ Ends
  /\ UNCHANGED <<server, console, drFile, oldStatus, node, session, history, bounds>>

\* The jobs' passwords wait for the next heartbeat.
Collect == export' = TRUE

ExportSecrets ==
  /\ step = "export"
  /\ step' = "uninstall"
  /\ IF "export" \in pending THEN Collect ELSE UNCHANGED export
  /\ pending' = pending \ {"export"}
  /\ UNCHANGED <<server, disk, mgr, due, using, session, conn, history, bounds>>

\* The uninstaller (module NodeLife), which may fail before it has done
\* anything, and os.Exit(0) either way.
MaybeUninstall ==
  /\ step = "uninstall"
  /\ IF pending \cap Uninstall = {}
     THEN step' = "report" /\ UNCHANGED <<node, memory, conn, bounds>>
     ELSE /\ \/ node' \in pending \cap Uninstall /\ UNCHANGED bounds
             \/ Counts("faults", MaxFaults) /\ UNCHANGED node
          /\ Ends
  /\ UNCHANGED <<server, console, drFile, oldStatus, version, session, history>>

-----------------------------------------------------------------------------
(***************************************************************************)
(* The daemon and the commands.                                            *)
(***************************************************************************)

\* NewManager: settings that the PSK of config.toml decrypts, and the status.
DaemonStarts ==
  /\ step = "down"
  /\ node = "installed"
  /\ step' = "initial"
  /\ mgr' = IF console.enabled THEN NewManager(console.psk) ELSE NoManager
  /\ due' = oldStatus
  /\ read' = TRUE /\ foreign' = FALSE
  /\ UNCHANGED <<server, disk, pending, export, using, session, conn, tried, bounds>>

Crash ==
  /\ step # "down"
  /\ Counts("faults", MaxFaults)
  /\ Ends
  /\ UNCHANGED <<server, disk, session, history>>

\* Reporting is turned on or off, perhaps with a new PSK; the daemon reloads
\* its jobs and keeps its DR manager.
ConfigureConsole ==
  /\ node = "installed"
  /\ Counts("faults", MaxFaults)
  /\ \/ console' = [console EXCEPT !.enabled = FALSE]
     \/ \E p \in {0, 1} : console' = [enabled |-> TRUE, psk |-> console.psk + p]
  /\ UNCHANGED <<server, drFile, oldStatus, version, node, step, memory, session, conn, history>>

\* --dr-run-now, Settings, --regenerate-credentials: a manager of their own, which
\* a menu keeps until it ends.
DRNow ==
  /\ node = "installed"
  /\ console.enabled
  /\ menuAnswer = NoConfig
  /\ \/ UNCHANGED <<menu, bounds>>
     \/ menu' = NewManager(console.psk) /\ Counts("faults", MaxFaults)
  /\ IF Enabled(LoadConfig(console.psk)) THEN SaveStatus ELSE UNCHANGED oldStatus
  /\ UNCHANGED <<server, console, drFile, version, node, step, memory, menuAnswer, conn, history>>

Tick ==
  \/ BeginDRBackup \/ EndDRBackup
  \/ SkipUpdate \/ RemoteUpdate \/ ExportSecrets \/ MaybeUninstall \/ FireReport

Next ==
  \/ \E k \in Commands : ServerAsks(k)
  \/ \E c \in DRConfig : ServerSetsDR(c)
  \/ \E m \in conn : ServerReceives(m) \/ Lose(m) \/ ApplyAnswer(m)
  \/ OnConnected
  \/ Tick
  \/ FireImmediateReport \/ MenuApplies
  \/ TimePasses \/ DaemonStarts \/ SendInitialHeartbeat
  \/ Crash \/ ConfigureConsole \/ DRNow

Spec == Init /\ [][Next]_vars

\* The service manager starts the daemon, its loop goes on, and the network goes
\* on: a message may be overtaken for ever, but not those that show what is done.
\* The interval of DR backups may be long: nothing is assumed of TimePasses.
Fairness ==
  /\ WF_vars(DaemonStarts)
  /\ WF_vars(SendInitialHeartbeat)
  /\ WF_vars(Tick)
  /\ WF_vars(\E m \in conn : ServerReceives(m))
  /\ \A k \in {"update", "export", "sizes"} :
       WF_vars(\E m \in conn : k \in m.shows /\ ServerReceives(m))
  /\ WF_vars(\E m \in conn : ApplyAnswer(m))

FairSpec == Spec /\ Fairness

-----------------------------------------------------------------------------
(***************************************************************************)
(* Properties.                                                             *)
(***************************************************************************)

\* The node does not talk to the server any more.
Silent == node # "installed" \/ ~console.enabled

\* No request stays open for ever, whichever answers are lost, whichever end of
\* the daemon drops its flags, and whichever flags a CLI command swallows
\* (reconcile.go: "a daemon restart drops the pending set; the server will
\* re-request on the next heartbeat"), and a node that the server asks to
\* uninstall does not stay in service.
RequestsAreMet ==
  /\ \A k \in {"update", "export", "sizes"} : []<>(k \notin asks \/ Silent)
  /\ []<>(asks \cap Uninstall = {} \/ Silent)

\* DR settings that the daemon takes over are tried without waiting for the
\* interval, also those that arrive while a backup with the earlier ones runs,
\* unless others replace them or the daemon ends: the next one reads them and has
\* forgotten that it should (http.go: "first config or config change -> run immediately").
ChangesAreTried ==
  \A c \in DRConfig : (mgr.cfg = c /\ ~read) ~> (tried = c \/ mgr.cfg # c)

\* What the daemon's manager uses is what a restart under its PSK reads again,
\* unless a menu wrote there (UpdateConfig persists before it takes over).
DROnDisk ==
  mgr.cfg # NoConfig /\ ~foreign => drFile = [cfg |-> mgr.cfg, psk |-> mgr.psk]

\* The DR settings that the server pushes last are taken over by a daemon that has
\* a manager (reporter.go: "DRConfig is pushed when the server wants this node to
\* start/update DR backups").
DRFollowsServer == <>[](Silent \/ ~mgr.there \/ wanted \in {NoConfig, mgr.cfg})

\* The daemon's DR settings are those in dr_config.enc (Config: "The CLI caches it
\* locally").
OneDRConfig == mgr.there => mgr.cfg = LoadConfig(mgr.psk)

\* Data is destroyed only on a node for which the server asked for that
\* (UninstallNode.RetainData).
DestroyedOnRequest == node \in asked \cup {"installed"}
=============================================================================
