------------------------ MODULE ServerCommandsProofs ------------------------
(***************************************************************************)
(* For any number of heartbeats under way, DR settings, requests, faults,  *)
(* menus and restarts: the types of ServerCommands, that the daemon's DR   *)
(* manager uses no settings that a restart would not read again, unless a  *)
(* menu wrote dr_config.enc, and that a node is uninstalled only in a way  *)
(* the server has asked for.                                               *)
(***************************************************************************)
EXTENDS ServerCommands, TLAPS

USE DEF server, disk, memory, session, history, vars

(***************************************************************************)
(* Types.                                                                  *)
(***************************************************************************)

Manager == [there : BOOLEAN, cfg : Config, psk : Nat]
Counters == [{"asks", "faults"} -> Nat]

LEMMA NoManagerType == NoManager \in Manager /\ NoManager.cfg = NoConfig
  BY DEF NoManager, Manager, Config

LEMMA InitType == Init => TypeOK
<1> SUFFICES ASSUME Init PROVE TypeOK
  OBVIOUS
<1>1. console \in [enabled : BOOLEAN, psk : Nat]
  BY DEF Init
<1> QED
  BY <1>1, NoManagerType DEF Init, TypeOK, Manager, Config, Step

LEMMA CountsType ==
  ASSUME bounds \in Counters, NEW b \in {"asks", "faults"}, NEW max, Counts(b, max)
  PROVE  bounds' \in Counters
  BY DEF Counts, Counters

\* A heartbeat that is sent asks for nothing.
LEMMA SendNext ==
  ASSUME conn \subseteq Message, NEW shows, Send(shows)
  PROVE  conn' \subseteq Message /\ \A m \in conn' : m \in conn \/ m.asks = {}
<1> DEFINE new == [state |-> "request", sender |-> "daemon", shows |-> shows \cap Commands,
                   asks |-> {}, dr |-> NoConfig]
<1>1. new \in Message /\ new.asks = {}
  BY DEF Message, Config
<1>2. conn' = conn \cup {new}
  BY DEF Send
<1> HIDE DEF new
<1> QED
  BY <1>1, <1>2

\* What the end of the daemon leaves.
LEMMA EndsNext ==
  ASSUME conn \subseteq Message, Ends
  PROVE  /\ conn' \subseteq Message
         /\ \A m \in conn' : \E n \in conn : m.asks = n.asks
         /\ mgr' \in Manager /\ mgr'.cfg = NoConfig
         /\ step' \in Step /\ pending' = {} /\ export' \in BOOLEAN /\ due' \in BOOLEAN
         /\ using' \in Config
<1>1. \A m \in conn' : \E n \in conn : m = [n EXCEPT !.sender = "ended"]
  BY DEF Ends
<1>2. ASSUME NEW n \in conn
      PROVE  [n EXCEPT !.sender = "ended"] \in Message
             /\ [n EXCEPT !.sender = "ended"].asks = n.asks
  BY DEF Message
<1>3. conn' \subseteq Message /\ \A m \in conn' : \E n \in conn : m.asks = n.asks
  BY <1>1, <1>2
<1> QED
  BY <1>3, NoManagerType DEF Ends, Config, Step

\* The settings in an answer are the server's.
LEMMA AnswersType ==
  ASSUME TypeOK, NEW c \in Config, Answers(c)
  PROVE  told' \in Config
  BY DEF Answers, TypeOK

\* The server's answer has its requests.
LEMMA ReceivesNext ==
  ASSUME TypeOK, NEW m \in conn, ServerReceives(m)
  PROVE  /\ conn' \subseteq Message
         /\ bounds' \in Counters
         /\ told' \in Config
         /\ asks' \subseteq asks
         /\ \A n \in conn' : n \in conn \/ n.asks \subseteq asks \cup {"force"}
<1>1. conn \subseteq Message /\ bounds \in Counters
  BY DEF TypeOK, Counters
<1>2. PICK force \in SUBSET {"force"}, c \in Config :
        /\ IF force = {} THEN UNCHANGED bounds ELSE Counts("asks", MaxAsks)
        /\ Answers(c)
        /\ conn' = (conn \ {m}) \cup
             IF m.sender = "ended" THEN {}
             ELSE {[m EXCEPT !.state = "answer", !.shows = {}, !.asks = asks' \cup force, !.dr = c]}
  BY DEF ServerReceives
<1>3. asks' = asks \ m.shows
  BY DEF ServerReceives
<1>4. bounds' \in Counters /\ told' \in Config
  BY <1>1, <1>2, CountsType, AnswersType
<1> DEFINE answer == [m EXCEPT !.state = "answer", !.shows = {}, !.asks = asks' \cup force, !.dr = c]
<1>5. answer \in Message /\ answer.asks = asks' \cup force
  <2>1. asks' \cup force \in SUBSET (Commands \cup {"force"})
    BY <1>3 DEF TypeOK
  <2> QED
    BY <1>1, <2>1 DEF Message
<1>6. \A n \in conn' : n \in conn \/ n = answer
  BY <1>2
<1> HIDE DEF answer
<1> QED
  BY <1>1, <1>3, <1>4, <1>5, <1>6

\* A heartbeat of the daemon, with what it shows.
LEMMA ReportNext ==
  ASSUME TypeOK, Report
  PROVE  /\ conn' \subseteq Message
         /\ \A m \in conn' : m \in conn \/ m.asks = {}
         /\ bounds' \in Counters
         /\ export' = FALSE /\ pending' \subseteq pending
<1>1. conn \subseteq Message /\ bounds \in Counters
  BY DEF TypeOK, Counters
<1>2. PICK sizes \in SUBSET {"sizes"} :
        /\ RepoSizes(sizes)
        /\ Send(VersionShows \cup sizes \cup IF export THEN {"export"} ELSE {})
        /\ export' = FALSE
        /\ pending' = pending \ {"sizes"}
  BY DEF Report
<1>3. bounds' \in Counters
  BY <1>1, <1>2, CountsType DEF RepoSizes
<1> QED
  BY <1>1, <1>2, <1>3, SendNext

\* A manager takes over what it has saved, or keeps what it has.
LEMMA TakeNext ==
  ASSUME TypeOK, NEW c \in Config, TakeSettings(c)
  PROVE  /\ mgr' \in Manager /\ drFile' \in [cfg : Config, psk : Nat]
         /\ tried' \in Config /\ read' \in BOOLEAN /\ foreign' \in BOOLEAN
         /\ bounds' \in Counters
         /\ \/ drFile' = [cfg |-> mgr'.cfg, psk |-> mgr'.psk]
            \/ UNCHANGED <<mgr, drFile, foreign>>
<1>1. mgr \in Manager /\ bounds \in Counters
  BY DEF TypeOK, Manager, Counters
<1>2. CASE UpdateConfig(c) /\ tried' = NoConfig /\ read' = FALSE /\ foreign' = FALSE
           /\ UNCHANGED bounds
  <2>1. drFile' = [cfg |-> c, psk |-> mgr.psk] /\ mgr' = [mgr EXCEPT !.cfg = c]
    BY <1>2 DEF UpdateConfig, SaveConfig
  <2>2. mgr' \in Manager /\ mgr'.cfg = c /\ mgr'.psk = mgr.psk
    BY <1>1, <2>1 DEF Manager
  <2>3. drFile' \in [cfg : Config, psk : Nat]
    BY <1>1, <2>1 DEF Manager
  <2>4. tried' \in Config /\ read' \in BOOLEAN /\ foreign' \in BOOLEAN
    BY <1>2 DEF Config
  <2> QED
    BY <1>1, <1>2, <2>1, <2>2, <2>3, <2>4
<1>3. CASE UNCHANGED <<mgr, drFile, history>> /\ bounds' \in Counters
  BY <1>1, <1>3 DEF TypeOK
<1>4. \/ UpdateConfig(c) /\ tried' = NoConfig /\ read' = FALSE /\ foreign' = FALSE
         /\ UNCHANGED bounds
      \/ UNCHANGED <<mgr, drFile, history>> /\ bounds' \in Counters
  <2>1. CASE UNCHANGED <<mgr, drFile, history, bounds>>
    BY <1>1, <2>1
  <2>2. CASE Counts("faults", MaxFaults) /\ UNCHANGED <<mgr, drFile, history>>
    BY <1>1, <2>2, CountsType
  <2> QED
    BY <2>1, <2>2 DEF TakeSettings
<1> QED
  BY <1>2, <1>3, <1>4

LEMMA ApplyNext ==
  ASSUME TypeOK, NEW m \in conn, ApplyAnswer(m)
  PROVE  /\ conn' \subseteq conn
         /\ pending' \subseteq pending \cup m.asks \cup {"force"}
         /\ m.dr \in Config /\ TakeSettings(m.dr)
<1>1. m \in Message
  BY DEF TypeOK
<1>2. pending' \subseteq pending \cup m.asks \cup {"force"}
  BY DEF ApplyAnswer
<1>3. m.dr \in Config
  BY <1>1 DEF Message
<1> QED
  BY <1>2, <1>3 DEF ApplyAnswer

\* The manager of a process that starts.
LEMMA NewManagerType ==
  ASSUME TypeOK, NEW psk \in Nat
  PROVE  /\ NewManager(psk) \in Manager
         /\ NewManager(psk).cfg # NoConfig => drFile = [cfg |-> NewManager(psk).cfg, psk |-> psk]
         /\ NewManager(psk).psk = psk
<1>1. /\ drFile \in [cfg : Config, psk : Nat]
      /\ drFile = [cfg |-> drFile.cfg, psk |-> drFile.psk]
  BY DEF TypeOK
<1>2. LoadConfig(psk) \in Config
  BY <1>1 DEF LoadConfig, Config
<1>3. LoadConfig(psk) # NoConfig => drFile.psk = psk /\ drFile.cfg = LoadConfig(psk)
  BY DEF LoadConfig
<1> QED
  BY <1>1, <1>2, <1>3 DEF NewManager, Manager

LEMMA StartsNext ==
  ASSUME TypeOK, DaemonStarts
  PROVE  /\ mgr' \in Manager
         /\ mgr'.cfg # NoConfig => drFile = [cfg |-> mgr'.cfg, psk |-> mgr'.psk]
<1>1. console.psk \in Nat
  BY DEF TypeOK
<1>2. CASE ~console.enabled
  BY <1>2, NoManagerType DEF DaemonStarts
<1>3. CASE console.enabled
  BY <1>1, <1>3, NewManagerType DEF DaemonStarts
<1> QED
  BY <1>2, <1>3

-----------------------------------------------------------------------------
\* Every step keeps the types.
LEMMA TypeStep ==
  ASSUME TypeOK, [Next]_vars
  PROVE  TypeOK'
<1> USE DEF TypeOK
<1>0. conn \subseteq Message /\ bounds \in Counters
  BY DEF Counters
<1>1. ASSUME NEW k \in Commands, ServerAsks(k) PROVE TypeOK'
  <2>1. bounds' \in Counters
    BY <1>0, <1>1, CountsType DEF ServerAsks
  <2> QED
    BY <1>1, <2>1 DEF ServerAsks, Counters
<1>2. ASSUME NEW c \in DRConfig, ServerSetsDR(c) PROVE TypeOK'
  <2>1. bounds' \in Counters
    BY <1>0, <1>2, CountsType DEF ServerSetsDR
  <2> QED
    BY <1>2, <2>1 DEF ServerSetsDR, Config, Counters
<1>3. ASSUME NEW m \in conn, ServerReceives(m) PROVE TypeOK'
  <2>1. UNCHANGED <<wanted, asked, disk, step, memory, session, history>>
    BY <1>3 DEF ServerReceives
  <2> QED
    BY <1>3, <2>1, ReceivesNext DEF Counters
<1>4. ASSUME NEW m \in conn, Lose(m) PROVE TypeOK'
  <2>1. bounds' \in Counters /\ conn' \subseteq Message
    BY <1>0, <1>4, CountsType DEF Lose
  <2> QED
    BY <1>4, <2>1 DEF Lose, Counters
<1>5. ASSUME NEW m \in conn, ApplyAnswer(m) PROVE TypeOK'
  <2>1. pending' \subseteq Commands \cup {"force"} /\ conn' \subseteq Message
    <3>1. m.asks \subseteq Commands \cup {"force"}
      BY <1>0 DEF Message
    <3> QED
      BY <1>0, <1>5, <3>1, ApplyNext
  <2>2. UNCHANGED <<server, console, oldStatus, version, node, step, due, export, using, session>>
    BY <1>5 DEF ApplyAnswer
  <2>3. /\ mgr' \in Manager /\ drFile' \in [cfg : Config, psk : Nat]
        /\ tried' \in Config /\ read' \in BOOLEAN /\ foreign' \in BOOLEAN
        /\ bounds' \in Counters
    BY <1>5, ApplyNext, TakeNext
  <2> QED
    BY <2>1, <2>2, <2>3 DEF Manager, Counters
<1>6. CASE OnConnected
  <2>1. UNCHANGED <<server, disk, step, mgr, due, using, session, history>> /\ Report
    BY <1>6 DEF OnConnected
  <2> QED
    BY <2>1, ReportNext DEF Counters
<1>7. CASE TimePasses
  BY <1>7 DEF TimePasses
<1>8. CASE BeginDRBackup
  BY <1>8 DEF BeginDRBackup, Step
<1>9. CASE EndDRBackup
  <2>1. /\ UNCHANGED <<server, console, drFile, version, node, mgr, pending, export, session, conn,
                       read, foreign, bounds>>
        /\ step' = "update" /\ due' = FALSE /\ oldStatus' = FALSE /\ tried' = using
        /\ using' = NoConfig
    BY <1>9 DEF EndDRBackup, SaveStatus
  <2>2. NoConfig \in Config /\ "update" \in Step
    BY DEF Config, Step
  <2>3. step' \in Step /\ due' \in BOOLEAN /\ oldStatus' \in BOOLEAN
    BY <2>1, <2>2
  <2> QED
    BY <2>1, <2>2, <2>3
<1>10. CASE SkipUpdate
  <2>1. bounds' \in Counters
    BY <1>0, <1>10, CountsType DEF SkipUpdate
  <2> QED
    BY <1>10, <2>1 DEF SkipUpdate, Step, Counters
<1>11. CASE RemoteUpdate
  <2>1. Ends /\ version' = "new"
        /\ UNCHANGED <<server, console, drFile, oldStatus, node, session, history, bounds>>
    BY <1>11 DEF RemoteUpdate
  <2> QED
    BY <1>0, <2>1, EndsNext DEF Manager
<1>12. CASE ExportSecrets
  BY <1>12 DEF ExportSecrets, Collect, Step
<1>13. CASE MaybeUninstall
  <2>1. UNCHANGED <<server, console, drFile, oldStatus, version, session, history>>
    BY <1>13 DEF MaybeUninstall
  <2>2. CASE pending \cap Uninstall = {}
    BY <1>13, <2>1, <2>2 DEF MaybeUninstall, Step
  <2>3. CASE pending \cap Uninstall # {}
    <3>1. Ends /\ node' \in {node} \cup Uninstall
      BY <1>13, <2>3 DEF MaybeUninstall
    <3>2. bounds' \in Counters
      BY <1>0, <1>13, <2>3, CountsType DEF MaybeUninstall
    <3> QED
      BY <1>0, <2>1, <3>1, <3>2, EndsNext DEF Manager, Counters
  <2> QED
    BY <2>2, <2>3
<1>14. CASE FireReport
  <2>1. UNCHANGED <<server, disk, mgr, due, using, session, history>> /\ step' \in Step
    BY <1>14 DEF FireReport, Step
  <2>2. CASE console.enabled
    <3>1. Report
      BY <1>14, <2>2 DEF FireReport
    <3> QED
      BY <2>1, <3>1, ReportNext DEF Counters
  <2>3. CASE ~console.enabled
    BY <1>14, <2>1, <2>3 DEF FireReport
  <2> QED
    BY <2>2, <2>3
<1>15. CASE FireImmediateReport
  <2>1. PICK c \in Config :
          /\ Answers(c)
          /\ menuAnswer' = IF menu.there /\ c # menu.cfg THEN c ELSE NoConfig
    BY <1>15 DEF FireImmediateReport
  <2>2. told' \in Config /\ menuAnswer' \in Config
    BY <2>1, AnswersType DEF Config
  <2>3. /\ asks' \subseteq asks
        /\ UNCHANGED <<wanted, asked, disk, step, memory, menu, conn, history, bounds>>
    BY <1>15 DEF FireImmediateReport
  <2> QED
    BY <2>2, <2>3
<1>16. CASE DaemonStarts
  <2>1. /\ UNCHANGED <<server, disk, pending, export, using, session, conn, tried, bounds>>
        /\ step' \in Step /\ due' = oldStatus /\ read' \in BOOLEAN /\ foreign' \in BOOLEAN
    BY <1>16 DEF DaemonStarts, Step
  <2> QED
    BY <1>16, <2>1, StartsNext DEF Manager
<1>17. CASE SendInitialHeartbeat
  <2>1. UNCHANGED <<server, disk, memory, session, history, bounds>> /\ step' \in Step
    BY <1>17 DEF SendInitialHeartbeat, Step
  <2>2. conn' \subseteq Message
    BY <1>0, <1>17, SendNext DEF SendInitialHeartbeat
  <2> QED
    BY <2>1, <2>2
<1>18. CASE Crash
  <2>1. Ends /\ UNCHANGED <<server, disk, session, history>> /\ bounds' \in Counters
    BY <1>0, <1>18, CountsType DEF Crash
  <2> QED
    BY <1>0, <2>1, EndsNext DEF Manager, Counters
<1>19. CASE ConfigureConsole
  <2>1. bounds' \in Counters
    BY <1>0, <1>19, CountsType DEF ConfigureConsole
  <2>2. console' \in [enabled : BOOLEAN, psk : Nat]
    <3>1. CASE console' = [console EXCEPT !.enabled = FALSE]
      BY <3>1
    <3>2. ASSUME NEW p \in {0, 1}, console' = [enabled |-> TRUE, psk |-> console.psk + p]
          PROVE  console' \in [enabled : BOOLEAN, psk : Nat]
      <4>1. console.psk + p \in Nat
        OBVIOUS
      <4> QED
        BY <3>2, <4>1
    <3> QED
      BY <1>19, <3>1, <3>2 DEF ConfigureConsole
  <2> QED
    BY <1>19, <2>1, <2>2 DEF ConfigureConsole, Counters
<1>20. CASE DRNow
  <2>1. bounds' \in Counters
    BY <1>0, <1>20, CountsType DEF DRNow
  <2>2. menu' \in Manager
    BY <1>20, NewManagerType DEF DRNow, Manager
  <2>3. oldStatus' \in BOOLEAN
    BY <1>20 DEF DRNow, SaveStatus
  <2>4. UNCHANGED <<server, console, drFile, version, node, step, memory, menuAnswer, conn, history>>
    BY <1>20 DEF DRNow
  <2> QED
    BY <2>1, <2>2, <2>3, <2>4 DEF Manager, Counters
<1>21. CASE MenuApplies
  <2>1. /\ menuAnswer' \in Config
        /\ UNCHANGED <<server, console, oldStatus, version, node, step, memory, conn, tried, read,
                       bounds>>
    BY <1>21 DEF MenuApplies, Config
  <2>2. CASE UNCHANGED <<menu, drFile, foreign>>
    BY <2>1, <2>2
  <2>3. CASE SaveConfig(menu, menuAnswer) /\ menu' = [menu EXCEPT !.cfg = menuAnswer]
             /\ foreign' = TRUE
    <3>1. menu' \in [there : BOOLEAN, cfg : Config, psk : Nat]
      BY <2>3
    <3>2. drFile' \in [cfg : Config, psk : Nat]
      BY <2>3 DEF SaveConfig
    <3> QED
      BY <2>1, <2>3, <3>1, <3>2
  <2> QED
    BY <1>21, <2>2, <2>3 DEF MenuApplies
<1>22. CASE UNCHANGED vars
  BY <1>22
<1> QED
  BY <1>1, <1>2, <1>3, <1>4, <1>5, <1>6, <1>7, <1>8, <1>9, <1>10, <1>11, <1>12, <1>13, <1>14,
     <1>15, <1>16, <1>17, <1>18, <1>19, <1>20, <1>21, <1>22 DEF Next, Tick

\* Flags, heartbeats, settings and histories keep their types.
THEOREM TypeCorrect == Spec => []TypeOK
<1>1. TypeOK /\ [Next]_vars => TypeOK'
  BY TypeStep
<1> QED
  BY <1>1, InitType, PTL DEF Spec

(***************************************************************************)
(* The settings of the DR manager.                                         *)
(***************************************************************************)

\* The daemon's manager only takes over settings that it has written, or reads
\* them, and what others write there is noticed (foreign).
LEMMA ManagerNext ==
  ASSUME TypeOK, [Next]_vars
  PROVE  \/ UNCHANGED <<mgr, drFile, foreign>>
         \/ mgr'.cfg = NoConfig
         \/ drFile' = [cfg |-> mgr'.cfg, psk |-> mgr'.psk]
         \/ foreign' = TRUE
<1>0. conn \subseteq Message
  BY DEF TypeOK
<1>1. CASE \/ \E k \in Commands : ServerAsks(k)
           \/ \E c \in DRConfig : ServerSetsDR(c)
           \/ \E m \in conn : ServerReceives(m) \/ Lose(m)
           \/ OnConnected
  BY <1>1 DEF ServerAsks, ServerSetsDR, ServerReceives, Lose, OnConnected
<1>2. CASE BeginDRBackup \/ EndDRBackup \/ SkipUpdate \/ ExportSecrets \/ FireReport
  BY <1>2 DEF BeginDRBackup, EndDRBackup, SkipUpdate, ExportSecrets, FireReport
<1>3. CASE \/ FireImmediateReport \/ TimePasses \/ SendInitialHeartbeat \/ ConfigureConsole
           \/ DRNow \/ UNCHANGED vars
  BY <1>3 DEF FireImmediateReport, TimePasses, SendInitialHeartbeat, ConfigureConsole, DRNow
<1>4. CASE RemoteUpdate \/ Crash
  BY <1>0, <1>4, EndsNext DEF RemoteUpdate, Crash
<1>5. CASE MaybeUninstall
  BY <1>0, <1>5, EndsNext DEF MaybeUninstall
<1>6. ASSUME NEW m \in conn, ApplyAnswer(m)
      PROVE  \/ UNCHANGED <<mgr, drFile, foreign>>
             \/ drFile' = [cfg |-> mgr'.cfg, psk |-> mgr'.psk]
  BY <1>6, ApplyNext, TakeNext
<1>7. CASE DaemonStarts
  BY <1>7, StartsNext DEF DaemonStarts
<1>8. CASE MenuApplies
  BY <1>8 DEF MenuApplies
<1> QED
  BY <1>1, <1>2, <1>3, <1>4, <1>5, <1>6, <1>7, <1>8 DEF Next, Tick

\* Whichever settings the server pushes, whoever changes the PSK and whenever
\* the daemon ends: the daemon's manager uses no settings that are not in
\* dr_config.enc, under its own PSK, unless a menu has written there since.
THEOREM ManagerOnDisk == Spec => []DROnDisk
<1>1. Init => DROnDisk
  BY DEF Init, DROnDisk, NoManager
<1>2. TypeOK /\ DROnDisk /\ [Next]_vars => DROnDisk'
  BY ManagerNext DEF DROnDisk
<1> QED
  BY <1>1, <1>2, TypeCorrect, PTL DEF Spec

(***************************************************************************)
(* Uninstalling.                                                           *)
(***************************************************************************)

\* What the server, its answers and the daemon's flags ask for was asked for
\* by the server.
UninstallInv ==
  /\ DestroyedOnRequest
  /\ asks \cap Uninstall \subseteq asked
  /\ pending \cap Uninstall \subseteq asked
  /\ \A m \in conn : m.asks \cap Uninstall \subseteq asked

\* Requests only go from the server to its answers, and from there to flags.
LEMMA RequestsNext ==
  ASSUME TypeOK, [Next]_vars
  PROVE  /\ asked \subseteq asked'
         /\ asks' \cap Uninstall \subseteq asks \cup asked'
         /\ \A m \in conn' : \/ \E n \in conn : m.asks = n.asks
                             \/ m.asks \subseteq asks \cup {"force"}
         /\ \A k \in pending' : k \in pending \cup {"force"} \/ \E m \in conn : k \in m.asks
         /\ node' = node \/ node' \in pending \cap Uninstall
<1>0. conn \subseteq Message
  BY DEF TypeOK
<1> DEFINE Kept == asked' = asked /\ asks' \subseteq asks
           Held == node' = node /\ pending' \subseteq pending \cup {"force"}
           Sends == \A m \in conn' : m.asks = {} \/ \E n \in conn : m.asks = n.asks
<1>1. ASSUME NEW k \in Commands, ServerAsks(k)
      PROVE  /\ asked \subseteq asked' /\ asks' \cap Uninstall \subseteq asks \cup asked'
             /\ Held /\ Sends
  BY <1>1 DEF ServerAsks
<1>2. ASSUME NEW c \in DRConfig, ServerSetsDR(c) PROVE Kept /\ Held /\ Sends
  BY <1>2 DEF ServerSetsDR
<1>3. ASSUME NEW m \in conn, ServerReceives(m)
      PROVE  /\ Kept /\ Held
             /\ \A n \in conn' : n \in conn \/ n.asks \subseteq asks \cup {"force"}
  BY <1>3, ReceivesNext DEF ServerReceives
<1>4. ASSUME NEW m \in conn, Lose(m) PROVE Kept /\ Held /\ Sends
  BY <1>4 DEF Lose
<1>5. ASSUME NEW m \in conn, ApplyAnswer(m)
      PROVE  /\ Kept /\ node' = node /\ Sends
             /\ pending' \subseteq pending \cup m.asks \cup {"force"}
  <2>1. Sends /\ pending' \subseteq pending \cup m.asks \cup {"force"}
    BY <1>5, ApplyNext
  <2> QED
    BY <1>5, <2>1 DEF ApplyAnswer
<1>6. CASE OnConnected
  <2>1. Report /\ UNCHANGED <<server, disk>>
    BY <1>6 DEF OnConnected
  <2> QED
    BY <2>1, ReportNext
<1>7. CASE BeginDRBackup \/ EndDRBackup \/ SkipUpdate \/ ExportSecrets
  BY <1>7 DEF BeginDRBackup, EndDRBackup, SkipUpdate, ExportSecrets
<1>8. CASE RemoteUpdate \/ Crash
  <2>1. Ends /\ UNCHANGED <<server, node>>
    BY <1>8 DEF RemoteUpdate, Crash
  <2> QED
    BY <1>0, <2>1, EndsNext
<1>9. CASE MaybeUninstall
  <2>1. Kept
    BY <1>9 DEF MaybeUninstall
  <2>2. CASE pending \cap Uninstall = {}
    BY <1>9, <2>1, <2>2 DEF MaybeUninstall
  <2>3. CASE pending \cap Uninstall # {}
    <3>1. Ends /\ node' \in {node} \cup (pending \cap Uninstall)
      BY <1>9, <2>3 DEF MaybeUninstall
    <3>2. Sends /\ pending' = {}
      BY <1>0, <3>1, EndsNext
    <3> QED
      BY <2>1, <3>1, <3>2
  <2> QED
    BY <2>2, <2>3
<1>10. CASE FireReport
  <2>1. UNCHANGED <<server, disk>>
    BY <1>10 DEF FireReport
  <2>2. CASE console.enabled
    <3>1. Report
      BY <1>10, <2>2 DEF FireReport
    <3> QED
      BY <2>1, <3>1, ReportNext
  <2>3. CASE ~console.enabled
    BY <1>10, <2>1, <2>3 DEF FireReport
  <2> QED
    BY <2>2, <2>3
<1>11. CASE SendInitialHeartbeat
  <2>1. Kept /\ Held
    BY <1>11 DEF SendInitialHeartbeat
  <2>2. Sends
    BY <1>0, <1>11, SendNext DEF SendInitialHeartbeat
  <2> QED
    BY <2>1, <2>2
<1>12. CASE \/ FireImmediateReport \/ TimePasses \/ ConfigureConsole \/ DRNow \/ DaemonStarts
            \/ MenuApplies \/ UNCHANGED vars
  BY <1>12 DEF FireImmediateReport, TimePasses, ConfigureConsole, DRNow, DaemonStarts, MenuApplies
<1> HIDE DEF Kept, Held, Sends
<1> QED
  <2> USE DEF Kept, Held, Sends
  <2>1. CASE \E k \in Commands : ServerAsks(k)
    BY <1>1, <2>1
  <2>2. CASE \E c \in DRConfig : ServerSetsDR(c)
    BY <1>2, <2>2
  <2>3. CASE \E m \in conn : ServerReceives(m)
    BY <1>3, <2>3
  <2>4. CASE \E m \in conn : Lose(m)
    BY <1>4, <2>4
  <2>5. CASE \E m \in conn : ApplyAnswer(m)
    BY <1>5, <2>5
  <2> QED
    BY <1>6, <1>7, <1>8, <1>9, <1>10, <1>11, <1>12, <2>1, <2>2, <2>3, <2>4, <2>5 DEF Next, Tick

\* Whatever is lost, late, repeated or swallowed by a restart: a node is
\* uninstalled only in a way the server has asked for, and its data destroyed
\* only when the server has asked for that.
THEOREM UninstalledAsAsked == Spec => []DestroyedOnRequest
<1>1. Init => UninstallInv
  BY DEF Init, UninstallInv, DestroyedOnRequest
<1>2. TypeOK /\ UninstallInv /\ [Next]_vars => UninstallInv'
  <2> SUFFICES ASSUME TypeOK, UninstallInv, [Next]_vars PROVE UninstallInv'
    OBVIOUS
  <2>1. "force" \notin Uninstall
    BY DEF Uninstall
  <2> QED
    BY <2>1, RequestsNext DEF UninstallInv, DestroyedOnRequest
<1>3. UninstallInv => DestroyedOnRequest
  BY DEF UninstallInv
<1> QED
  BY <1>1, <1>2, <1>3, TypeCorrect, PTL DEF Spec
=============================================================================
