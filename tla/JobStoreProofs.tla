--------------------------- MODULE JobStoreProofs ---------------------------
(***************************************************************************)
(* For any number of job IDs, sessions, jobs, commands and failures: the   *)
(* types of JobStore and, where two sessions never work on one job at a    *)
(* time, that no job gets another's secrets, that failed writes leave no   *)
(* ID unusable, and that without restores and faults no jobs are mixed.    *)
(***************************************************************************)
EXTENDS JobStore, FiniteSetTheorems, TLAPS

USE DEF store, daemon, history, vars, ExportPc

(***************************************************************************)
(* Types.                                                                  *)
(***************************************************************************)

OpType == [kind : Kind, id : Id, pc : Pc, pair : Pair]
ReaderType == [doing : Reading, todo : SUBSET Id, at : Id \cup {NoId},
               toml : Toml \cup {Absent, Blank}, lists : BOOLEAN, out : [Id -> Pair]]

LEMMA PairTypes ==
  /\ NoPair \in Pair
  /\ \A t \in Toml \cup {Absent, Blank}, s \in Birth \cup {Absent, Blank} :
       [toml |-> t, secrets |-> s] \in Pair
  /\ \A x \in Pair : x.toml \in Toml \cup {Absent, Blank} /\ x.secrets \in Birth \cup {Absent, Blank}
  BY DEF Pair, NoPair

LEMMA ParsedType ==
  ASSUME NEW t \in Toml \cup {Blank}
  PROVE  /\ Parsed(t) \in Toml
         /\ [Parsed(t) EXCEPT !.edit = @ + 1] \in Toml
         /\ [Parsed(t) EXCEPT !.edit = @ + 1].birth = Parsed(t).birth
<1>1. Parsed(t) \in Toml
  BY DEF Parsed, Toml
<1> QED
  BY <1>1 DEF Toml

LEMMA NotReadingType == NotReading \in ReaderType /\ [NotReading EXCEPT !.doing = "down"] \in ReaderType
<1>1. [i \in Id |-> NoPair] \in [Id -> Pair]
  BY PairTypes
<1> QED
  BY <1>1 DEF NotReading, ReaderType, Reading

\* What a session at a step of a command is.
LEMMA OpFacts ==
  ASSUME TypeOK, NEW p \in Session, op[p].pc \in Pc
  PROVE  op[p] \in OpType /\ op[p] # Idle
<1>1. op[p] \in OpType \cup {Idle}
  BY DEF TypeOK, OpType
<1>2. Idle.pc = "idle" /\ "idle" \notin Pc
  BY DEF Idle, Pc
<1> QED
  BY <1>1, <1>2

LEMMA GotoType ==
  ASSUME TypeOK, NEW p \in Session, op[p].pc \in Pc, NEW pc \in Pc, Goto(p, pc)
  PROVE  /\ op' \in [Session -> OpType \cup {Idle}]
         /\ op'[p].kind = op[p].kind /\ op'[p].id = op[p].id /\ op'[p].pair = op[p].pair
         /\ op'[p].pc = pc
<1>1. op[p] \in OpType /\ op \in [Session -> OpType \cup {Idle}]
  BY OpFacts DEF TypeOK, OpType
<1>2. op' = [op EXCEPT ![p] = [op[p] EXCEPT !.pc = pc]]
  BY <1>1 DEF Goto
<1>3. [op[p] EXCEPT !.pc = pc] \in OpType
  BY <1>1 DEF OpType
<1> QED
  BY <1>1, <1>2, <1>3 DEF OpType

LEMMA DoneType ==
  ASSUME TypeOK, NEW p \in Session, Done(p)
  PROVE  op' \in [Session -> OpType \cup {Idle}] /\ op'[p] = Idle
  BY DEF TypeOK, OpType, Done

LEMMA CountsType ==
  ASSUME TypeOK, NEW b \in {"births", "ops", "faults"}, NEW max, Counts(b, max)
  PROVE  bounds' \in [{"births", "ops", "faults"} -> Nat]
  BY DEF TypeOK, Counts

LEMMA EndType ==
  ASSUME TypeOK, NEW p \in Session, End(p)
  PROVE  /\ op' \in [Session -> OpType \cup {Idle}] /\ op'[p] = Idle
         /\ reader' \in ReaderType /\ UNCHANGED <<view, snapshot>>
<1>1. reader' \in ReaderType
  BY NotReadingType DEF End, TypeOK, ReaderType
<1> QED
  BY <1>1, DoneType DEF End

LEMMA InitType == Init => TypeOK
<1> SUFFICES ASSUME Init PROVE TypeOK
  OBVIOUS
<1>2. 1 \in Birth /\ [birth |-> 1, edit |-> 0] \in Toml
  BY BoundAssumption DEF Birth, Toml
<1>3. toml \in [Id -> Toml \cup {Absent, Blank}] /\ secrets \in [Id -> Birth \cup {Absent, Blank}]
  BY <1>2 DEF Init
<1>4. view \in [Id -> Pair] /\ snapshot \in [Id -> Pair]
  BY <1>3, PairTypes DEF Init
<1>5. bounds \in [{"births", "ops", "faults"} -> Nat]
  BY DEF Init
<1>6. exported \in Pair
  BY <1>2, PairTypes DEF Init
<1>7. reader \in ReaderType
  BY NotReadingType DEF Init
<1> QED
  BY <1>3, <1>4, <1>5, <1>6, <1>7 DEF Init, TypeOK, ReaderType

\* A command that starts.
LEMMA StartType ==
  ASSUME TypeOK, NEW p \in Session, NEW i \in Id, NEW kind \in Kind, NEW pc \in Pc,
         NEW pair \in Pair, Start(p, kind, i, pc, pair)
  PROVE  TypeOK'
<1>1. [kind |-> kind, id |-> i, pc |-> pc, pair |-> pair] \in OpType
  BY DEF OpType
<1>2. op' \in [Session -> OpType \cup {Idle}]
  BY <1>1 DEF Start, TypeOK, OpType
<1>3. bounds' \in [{"births", "ops", "faults"} -> Nat]
  BY CountsType DEF Start
<1> QED
  BY <1>2, <1>3 DEF Start, TypeOK, OpType

LEMMA CreateType ==
  ASSUME TypeOK, NEW p \in Session, NEW i \in Id, Create(p, i)
  PROVE  /\ bounds.births + 1 \in Birth /\ [birth |-> bounds.births + 1, edit |-> 0] \in Toml
         /\ TypeOK'
<1> DEFINE b == bounds.births + 1
           o == [kind |-> "create", id |-> i, pc |-> "mkdir",
                 pair |-> [toml |-> [birth |-> b, edit |-> 0], secrets |-> b]]
<1>1. bounds \in [{"births", "ops", "faults"} -> Nat]
  BY DEF TypeOK
<1>2. b \in Birth
  BY <1>1, BoundAssumption DEF Create, Birth
<1>3. [birth |-> b, edit |-> 0] \in Toml
  BY <1>2 DEF Toml
<1>4. o \in OpType
  BY <1>2, <1>3, PairTypes DEF OpType, Kind, Pc
<1>5. op' = [op EXCEPT ![p] = o]
  BY DEF Create
<1> HIDE DEF o
<1>6. op' \in [Session -> OpType \cup {Idle}]
  BY <1>4, <1>5 DEF TypeOK, OpType
<1>7. bounds' \in [{"births", "ops", "faults"} -> Nat]
  <2>1. bounds.births + 1 \in Nat /\ bounds.ops + 1 \in Nat
    BY <1>1
  <2> QED
    BY <1>1, <2>1 DEF Create
<1> QED
  BY <1>2, <1>3, <1>6, <1>7 DEF Create, TypeOK, OpType

LEMMA CommandType ==
  ASSUME TypeOK, NEW p \in Session, NEW i \in Id, Command(p, i)
  PROVE  TypeOK'
<1>0. snapshot[i] \in Pair
  BY DEF TypeOK
<1>1. CASE Create(p, i)
  BY <1>1, CreateType
<1>2. CASE Import(p, i)
  <2>1. exported.toml \in Toml \cup {Blank}
    BY <1>2, PairTypes DEF Import, TypeOK
  <2>2. [toml |-> Parsed(exported.toml), secrets |-> Absent] \in Pair
    BY <2>1, ParsedType, PairTypes
  <2> QED
    BY <1>2, <2>2, StartType DEF Import, Kind, Pc
<1>3. CASE Edit(p, i)
  <2>1. toml[i] \in Toml \cup {Blank}
    BY <1>3 DEF Edit, Loadable, TypeOK
  <2>2. [toml |-> [Parsed(toml[i]) EXCEPT !.edit = @ + 1], secrets |-> Absent] \in Pair
    BY <2>1, ParsedType, PairTypes
  <2> QED
    BY <1>3, <2>2, StartType DEF Edit, Kind, Pc
<1>4. CASE Delete(p, i)
  BY <1>4, PairTypes, StartType DEF Delete, Kind, Pc
<1>5. CASE Export(p, i)
  BY <1>5, PairTypes, StartType DEF Export, Kind, Pc
<1>6. CASE ConfigRestore(p, i)
  BY <1>0, <1>6, StartType DEF ConfigRestore, Kind, Pc, Restores
<1>7. CASE Recover(p, i)
  BY <1>0, <1>7, StartType DEF Recover, Kind, Pc, Restores
<1>8. CASE DRRestore(p, i)
  <2>1. [kind |-> "dr-restore", id |-> i, pc |-> "mkdir", pair |-> snapshot[i]] \in OpType
    BY <1>0 DEF OpType, Kind, Pc, Restores
  <2>2. op' \in [Session -> OpType \cup {Idle}]
    BY <1>8, <2>1 DEF DRRestore, TypeOK, OpType
  <2>3. bounds' \in [{"births", "ops", "faults"} -> Nat]
    BY <1>8, CountsType DEF DRRestore
  <2>4. reader' \in ReaderType /\ view' \in [Id -> Pair]
    BY <1>8, NotReadingType, PairTypes DEF DRRestore
  <2> QED
    BY <1>8, <2>2, <2>3, <2>4 DEF DRRestore, TypeOK, OpType, ReaderType
<1> QED
  BY <1>1, <1>2, <1>3, <1>4, <1>5, <1>6, <1>7, <1>8
     DEF Command, ApiCreate, CreateWizard, ImportLegacy, ImportV2, ApiEdit, ApiEnableDisable,
         ApiScheduleSet, ApiRetentionSet, ApiNotificationsSet, ReconfigureWizard,
         ConfigureSchedule, ConfigureNotifications, ConfigureRetention, ApiDelete, RemoveJob

-----------------------------------------------------------------------------
\* The steps of a command.
LEMMA StepsType ==
  ASSUME TypeOK, NEW p \in Session, Steps(p)
  PROVE  TypeOK'
<1> USE DEF At
<1>0. /\ op[p].pc \in Pc => op[p].id \in Id /\ op[p].pair \in Pair
      /\ toml \in [Id -> Toml \cup {Absent, Blank}]
      /\ secrets \in [Id -> Birth \cup {Absent, Blank}]
      /\ op[p].pair.toml \in Toml \cup {Absent, Blank} \/ op[p].pc \notin Pc
      /\ op[p].pair.secrets \in Birth \cup {Absent, Blank} \/ op[p].pc \notin Pc
  BY OpFacts, PairTypes DEF OpType, TypeOK
<1>1. CASE MakeDir(p)
  <2>1. op' \in [Session -> OpType \cup {Idle}]
    BY <1>1, GotoType DEF MakeDir, Pc
  <2> QED
    BY <1>0, <1>1, <2>1 DEF MakeDir, TypeOK, OpType, Pc
<1>2. CASE OpenToml(p)
  <2>1. op' \in [Session -> OpType \cup {Idle}]
    BY <1>2, GotoType DEF OpenToml, Pc
  <2>2. toml' \in [Id -> Toml \cup {Absent, Blank}]
    BY <1>0, <1>2 DEF OpenToml
  <2> QED
    BY <1>2, <2>1, <2>2 DEF OpenToml, TypeOK, OpType
<1>3. CASE FillToml(p)
  <2>1. toml' \in [Id -> Toml \cup {Absent, Blank}]
    BY <1>0, <1>3 DEF FillToml, Pc
  <2>2. /\ op' \in [Session -> OpType \cup {Idle}] /\ reader' \in ReaderType
        /\ UNCHANGED <<view, snapshot>>
    BY <1>3, GotoType, EndType DEF FillToml, Pc, TypeOK, ReaderType
  <2> QED
    BY <1>3, <2>1, <2>2 DEF FillToml, TypeOK, OpType, ReaderType
<1>14. CASE SkipSecrets(p)
  BY <1>14, EndType DEF SkipSecrets, TypeOK, OpType, ReaderType
<1>4. CASE OpenSecrets(p)
  <2>1. secrets' \in [Id -> Birth \cup {Absent, Blank}]
    BY <1>0, <1>4 DEF OpenSecrets
  <2>2. op[p] \in OpType /\ op \in [Session -> OpType \cup {Idle}] /\ mixed' \subseteq Id
    BY <1>4, OpFacts DEF OpenSecrets, Pc, TypeOK, OpType
  <2>3. Source(p) \in Birth \cup {Absent, Blank}
    BY <2>2, PairTypes DEF Source, OpType, TypeOK
  <2>4. [op[p] EXCEPT !.pc = "fill secrets", !.pair.secrets = Source(p)] \in OpType
    BY <2>2, <2>3 DEF OpType, Pc, Pair
  <2>5. op' = [op EXCEPT ![p] = [op[p] EXCEPT !.pc = "fill secrets", !.pair.secrets = Source(p)]]
    BY <1>4, <2>2 DEF OpenSecrets
  <2>6. op' \in [Session -> OpType \cup {Idle}]
    BY <2>2, <2>4, <2>5
  <2> QED
    BY <1>4, <2>1, <2>2, <2>6 DEF OpenSecrets, TypeOK, OpType, ReaderType
<1>5. CASE FillSecrets(p)
  <2>1. secrets' \in [Id -> Birth \cup {Absent, Blank}]
    BY <1>0, <1>5 DEF FillSecrets, Pc
  <2>2. /\ op' \in [Session -> OpType \cup {Idle}] /\ reader' \in ReaderType
        /\ UNCHANGED <<view, snapshot>>
    BY <1>5, GotoType, EndType DEF FillSecrets, Pc, TypeOK, ReaderType
  <2>3. torn' \subseteq Id /\ mixed' \subseteq Id
    BY <1>5 DEF FillSecrets, Restored, TypeOK
  <2> QED
    BY <1>5, <2>1, <2>2, <2>3 DEF FillSecrets, TypeOK, OpType, ReaderType
<1>6. CASE WriteScript(p)
  BY <1>6, DoneType DEF WriteScript, TypeOK, OpType
<1>7. CASE RemoveFile(p)
  <2>1. toml' \in [Id -> Toml \cup {Absent, Blank}] /\ secrets' \in [Id -> Birth \cup {Absent, Blank}]
    BY <1>0, <1>7 DEF RemoveFile
  <2> QED
    BY <1>7, <2>1 DEF RemoveFile, TypeOK
<1>8. CASE RemoveDir(p)
  BY <1>8, DoneType DEF RemoveDir, TypeOK, OpType
<1>9. CASE OpenExport(p)
  <2> DEFINE i == op[p].id
  <2>1. op[p] \in OpType /\ op \in [Session -> OpType \cup {Idle}] /\ i \in Id
    BY <1>9, OpFacts DEF OpenExport, Pc, TypeOK, OpType
  <2> HIDE DEF i
  <2>2. CASE op[p].pc = "out toml"
    <3>1. [op[p] EXCEPT !.pc = "fill out toml", !.pair.toml = toml[i]] \in OpType
      BY <1>0, <2>1 DEF OpType, Pc, Pair
    <3>2. /\ op' = [op EXCEPT ![p] = [op[p] EXCEPT !.pc = "fill out toml", !.pair.toml = toml[i]]]
          /\ exported' = [exported EXCEPT !.toml = Blank]
      BY <1>9, <2>1, <2>2 DEF OpenExport, i
    <3> QED
      BY <1>9, <2>1, <3>1, <3>2 DEF OpenExport, TypeOK, OpType, Pair
  <2>3. CASE op[p].pc = "out secrets"
    <3>1. [op[p] EXCEPT !.pc = "fill out secrets", !.pair.secrets = secrets[i]] \in OpType
      BY <1>0, <2>1 DEF OpType, Pc, Pair
    <3>2. /\ op' = [op EXCEPT ![p] = [op[p] EXCEPT !.pc = "fill out secrets", !.pair.secrets = secrets[i]]]
          /\ exported' = [exported EXCEPT !.secrets = Blank]
      BY <1>9, <2>1, <2>3 DEF OpenExport, i
    <3> QED
      BY <1>9, <2>1, <3>1, <3>2 DEF OpenExport, TypeOK, OpType, Pair
  <2> QED
    BY <1>9, <2>2, <2>3 DEF OpenExport
<1>15. CASE FillExport(p)
  <2>1. op' \in [Session -> OpType \cup {Idle}]
    BY <1>15, GotoType, DoneType DEF FillExport, Pc
  <2>2. exported' \in Pair
    BY <1>0, <1>15 DEF FillExport, TypeOK, Pair, Pc
  <2>3. cut' \in BOOLEAN
    <3>1. CASE UNCHANGED cut
      BY <3>1 DEF TypeOK
    <3>2. CASE cut' = (op[p].id \in torn \cup mixed)
      <4>1. (op[p].id \in torn \cup mixed) \in BOOLEAN
        OBVIOUS
      <4> QED
        BY <3>2, <4>1
    <3> QED
      BY <1>15, <3>1, <3>2 DEF FillExport
  <2> QED
    BY <1>15, <2>1, <2>2, <2>3 DEF FillExport, TypeOK, OpType
<1>16. CASE ExportFails(p)
  <2>1. bounds' \in [{"births", "ops", "faults"} -> Nat]
    BY <1>16, CountsType DEF ExportFails, TypeOK
  <2> QED
    BY <1>16, <2>1, DoneType DEF ExportFails, TypeOK, OpType
<1>10. CASE WriteFails(p)
  <2>1. op' \in [Session -> OpType \cup {Idle}]
    BY <1>10, GotoType, DoneType DEF WriteFails, CleanUp, Writing, Pc
  <2>2. bounds' \in [{"births", "ops", "faults"} -> Nat]
    BY <1>10, CountsType DEF WriteFails, TypeOK
  <2> QED
    BY <1>10, <2>1, <2>2 DEF WriteFails, TypeOK, OpType
<1>11. CASE CopyFails(p)
  <2>1. bounds' \in [{"births", "ops", "faults"} -> Nat]
    BY <1>11, CountsType DEF CopyFails
  <2>2. UNCHANGED <<store, exported, history>> /\ op[p].pc \in Pc
    BY <1>11 DEF CopyFails, Writing, Pc
  <2>3. CASE op[p].pc \in {"toml", "fill toml"}
    <3>1. op[p] \in OpType /\ op \in [Session -> OpType \cup {Idle}]
      BY <2>2, OpFacts DEF TypeOK, OpType
    <3>2. [op[p] EXCEPT !.pc = "secrets", !.pair.toml = Absent] \in OpType
      BY <3>1 DEF OpType, Pc, Pair
    <3>3. op' = [op EXCEPT ![p] = [op[p] EXCEPT !.pc = "secrets", !.pair.toml = Absent]]
      BY <1>11, <2>3, <3>1 DEF CopyFails
    <3>4. op' \in [Session -> OpType \cup {Idle}]
      BY <3>1, <3>2, <3>3
    <3> QED
      BY <1>11, <2>1, <2>2, <2>3, <3>4 DEF CopyFails, TypeOK, OpType
  <2>4. CASE op[p].pc \notin {"toml", "fill toml"}
    BY <1>11, <2>1, <2>2, <2>4, EndType DEF CopyFails, TypeOK, OpType, ReaderType
  <2> QED
    BY <2>3, <2>4
<1>12. CASE DirectoryFails(p)
  <2>1. bounds' \in [{"births", "ops", "faults"} -> Nat]
    BY <1>12, CountsType DEF DirectoryFails
  <2>2. op[p].id \in Id
    BY <1>0, <1>12 DEF DirectoryFails, Pc
  <2> QED
    BY <1>12, <2>1, <2>2, DoneType DEF DirectoryFails, TypeOK, OpType
<1>13. CASE Crash(p)
  <2>1. bounds' \in [{"births", "ops", "faults"} -> Nat]
    BY <1>13, CountsType DEF Crash
  <2>2. op[p].id \in Id
    BY <1>13 DEF Crash, TypeOK
  <2> QED
    BY <1>13, <2>1, <2>2, DoneType DEF Crash, TypeOK, OpType
<1> QED
  BY <1>1, <1>2, <1>3, <1>4, <1>5, <1>6, <1>7, <1>8, <1>9, <1>10, <1>11, <1>12, <1>13,
     <1>14, <1>15, <1>16 DEF Steps

\* The daemon's reading.
LEMMA ReadsType ==
  ASSUME TypeOK,
         \/ Reads \/ BeginBackup \/ ConfigBackup \/ RestartDaemon
         \/ \E i \in Id : RunStarts(i)
  PROVE  TypeOK'
<1>0. reader \in ReaderType
  BY DEF TypeOK, ReaderType
<1>1. ASSUME NEW doing \in {"reload", "backup"}, Begin(doing) PROVE reader' \in ReaderType
  BY <1>0, <1>1 DEF Begin, ReaderType, Reading, TypeOK
<1>2. CASE BeginReload
  <2>1. reader' \in ReaderType
    BY <1>1, <1>2 DEF BeginReload
  <2> QED
    BY <1>2, <2>1 DEF BeginReload, Begin, TypeOK, ReaderType
<1>3. CASE BeginBackup \/ ConfigBackup
  <2>1. reader' \in ReaderType /\ bounds' \in [{"births", "ops", "faults"} -> Nat]
    BY <1>1, <1>3, CountsType DEF BeginBackup, ConfigBackup
  <2> QED
    BY <1>3, <2>1 DEF BeginBackup, ConfigBackup, Begin, TypeOK, ReaderType
<1>4. ASSUME NEW i \in Id, ReadToml(i) PROVE TypeOK'
  <2>1. toml[i] \in Toml \cup {Absent, Blank}
    BY DEF TypeOK
  <2>2. reader' \in ReaderType
    BY <1>0, <1>4, <2>1 DEF ReadToml, ReaderType
  <2> QED
    BY <1>4, <2>2 DEF ReadToml, TypeOK, ReaderType
<1>5. CASE ReadSecrets
  <2> DEFINE i == reader.at
             next == [reader EXCEPT !.todo = @ \ {i}, !.at = NoId, !.toml = Absent, !.lists = FALSE]
             pair == [toml |-> reader.toml, secrets |-> secrets[i]]
  <2>1. i \in Id
    BY <1>0, <1>5 DEF ReadSecrets, ReaderType
  <2>2. next \in ReaderType
    BY <1>0 DEF ReaderType
  <2>3. pair \in Pair
    BY <1>0, <2>1, PairTypes DEF ReaderType, TypeOK
  <2>4. [next EXCEPT !.out[i] = pair] \in ReaderType
    <3> HIDE DEF next, pair
    <3> QED
      BY <2>1, <2>2, <2>3 DEF ReaderType
  <2>5. reader' \in {NotReading, next, [next EXCEPT !.out[i] = pair]}
    BY <1>5 DEF ReadSecrets
  <2>6. reader' \in ReaderType
    <3> HIDE DEF next, pair
    <3> QED
      BY <2>2, <2>4, <2>5, NotReadingType
  <2> QED
    BY <1>5, <2>6 DEF ReadSecrets, TypeOK, ReaderType
<1>6. CASE EndReading
  <2>1. view' \in [Id -> Pair] /\ snapshot' \in [Id -> Pair]
    BY <1>0, <1>6 DEF EndReading, TypeOK, ReaderType
  <2> QED
    BY <1>6, <2>1, NotReadingType DEF EndReading, TypeOK, ReaderType
<1>7. ASSUME NEW i \in Id, RunStarts(i) PROVE TypeOK'
  BY <1>7 DEF RunStarts, TypeOK
<1>8. CASE RestartDaemon
  BY <1>8, NotReadingType DEF RestartDaemon, TypeOK, ReaderType
<1> QED
  BY <1>2, <1>3, <1>4, <1>5, <1>6, <1>7, <1>8 DEF Reads

LEMMA TypeStep ==
  ASSUME TypeOK, [Next]_vars
  PROVE  TypeOK'
<1>1. CASE UNCHANGED vars
  BY <1>1 DEF TypeOK
<1> QED
  BY <1>1, CommandType, StepsType, ReadsType DEF Next

\* Job files, exports, sessions, reloads and backups keep their types.
THEOREM TypeCorrect == Spec => []TypeOK
<1>1. TypeOK /\ [Next]_vars => TypeOK'
  BY TypeStep
<1> QED
  BY <1>1, InitType, PTL DEF Spec

(***************************************************************************)
(* Whole jobs.                                                             *)
(***************************************************************************)

\* A directory that is there for a job that can be loaded, or excused.
Usable(i) == i \in dir \ (broken \cup torn) => Loadable(i)

\* A restore or the import of a cut export left the pair as it is.
Excused(i) == i \in torn \cup mixed

\* What a command has done to the files of job i when it is about to take a step.
Progress(o, i) ==
  /\ o.kind = "edit" =>
       /\ o.pc \in {"toml", "fill toml"}
       /\ Loadable(i)
       /\ o.pair.toml \in Toml
       /\ Excused(i) \/ secrets[i] = Blank \/ o.pair.toml.birth \in {0, secrets[i]}
  /\ o.kind = "delete" => o.pc = "remove"
  /\ o.kind = "export" => o.pc \in ExportPc /\ Usable(i)
  /\ o.kind \in {"create", "import"} =>
       /\ o.pc \notin ExportPc
       /\ o.pair.toml \in Toml
       /\ o.kind = "create" => o.pair.secrets \in Birth /\ Whole(o.pair)
       /\ o.pc \notin {"mkdir", "remove"} => i \in dir
       /\ o.pc \in {"fill secrets", "script"} =>
            o.pair.secrets \in Birth \cup {Blank} /\ (Excused(i) \/ Whole(o.pair))
       /\ o.pc \in {"mkdir", "toml"} => toml[i] = Absent
       /\ o.pc = "fill toml" => toml[i] = Blank
       /\ o.pc \in {"secrets", "fill secrets", "script"} => toml[i] = o.pair.toml
       /\ o.pc \in {"mkdir", "toml", "fill toml", "secrets"} => secrets[i] = Absent
       /\ o.pc = "fill secrets" => secrets[i] = Blank
       /\ o.pc = "script" => secrets[i] = o.pair.secrets
  /\ o.kind \in Restores =>
       /\ o.pc \in {"mkdir", "toml", "fill toml", "secrets", "fill secrets"}
       /\ o.pc = "mkdir" => Usable(i)
       /\ o.pc # "mkdir" => i \in dir /\ i \in torn
       /\ o.pc \in {"secrets", "fill secrets"} /\ o.pair.toml # Absent => toml[i] = o.pair.toml

\* The files of job i, on which o is at work.
Fits(o, i) ==
  /\ i \in dir \/ (toml[i] = Absent /\ secrets[i] = Absent)
  /\ Excused(i) \/ ~Loadable(i) \/ Whole([toml |-> toml[i], secrets |-> secrets[i]])
  /\ o = Idle => Usable(i)
  /\ Progress(o, i)

\* Sessions work on different jobs, and every job fits what is done to it.
StoreInv ==
  /\ TypeOK
  /\ \A p, q \in Session : p # q /\ op[p] # Idle => op[p].id # op[q].id
  /\ \A i \in Id : (\A p \in Session : op[p].id # i) => Fits(Idle, i)
  /\ \A p \in Session : op[p] # Idle => Fits(op[p], op[p].id)

\* The moments at which an import has not read the exported secrets yet.
Before == {"mkdir", "toml", "fill toml", "secrets"}

\* An export has copied the files of its job up to here.
Copied(o) ==
  /\ o.pc # "out toml" => cut /\ o.pair.toml = toml[o.id] /\ toml[o.id] # Absent
  /\ o.pc \in {"out secrets", "fill out secrets"} => exported.toml = o.pair.toml
  /\ o.pc = "fill out secrets" => o.pair.secrets = secrets[o.id] /\ secrets[o.id] # Absent

\* One session at a time uses the export directory, and what is there after an
\* export that was not cut is the pair of one job.
ShareInv ==
  /\ \A p, q \in Session : p # q /\ op[p].kind \in {"export", "import"} =>
       op[q].kind \notin {"export", "import"}
  /\ ~cut /\ exported.toml # Absent => Whole(exported)
  /\ \A p \in Session : op[p].kind = "import" /\ op[p].pc \in Before =>
       op[p].pair.toml = Parsed(exported.toml) /\ exported.toml # Absent
  /\ \A p \in Session : op[p].kind = "export" => Copied(op[p])

LEMMA Names == Absent \notin Toml /\ Absent \notin Birth /\ Blank \notin Toml /\ Blank \notin Birth
               /\ Absent # Blank
  BY ContentAssumption

LEMMA IdleFacts == Idle.kind = "idle" /\ Idle.id = NoId /\ Idle.pc = "idle"
  BY DEF Idle

\* What fits a job still does when nothing of the job has changed but its
\* directory, which may be new and excused.
LEMMA Grown ==
  ASSUME NEW j, NEW o, Fits(o, j), toml'[j] = toml[j], secrets'[j] = secrets[j],
         Loadable(j)' <=> Loadable(j), Excused(j)' <=> Excused(j), j \in torn' <=> j \in torn,
         j \in dir => j \in dir', Usable(j) => Usable(j)'
  PROVE  Fits(o, j)'
<1> HIDE DEF ExportPc
<1>1. (j \in dir \/ (toml[j] = Absent /\ secrets[j] = Absent))'
  BY DEF Fits
<1>2. (Excused(j) \/ ~Loadable(j) \/ Whole([toml |-> toml[j], secrets |-> secrets[j]]))'
  BY DEF Fits, Whole, Parsed
<1>3. (o = Idle => Usable(j))'
  BY DEF Fits
<1>4. Progress(o, j)'
  <2>1. Progress(o, j)
    BY DEF Fits
  <2> QED
    BY <2>1 DEF Progress
<1> QED
  BY <1>1, <1>2, <1>3, <1>4 DEF Fits

LEMMA SameJob ==
  ASSUME NEW j, NEW o, Fits(o, j), toml'[j] = toml[j], secrets'[j] = secrets[j],
         j \in dir' <=> j \in dir, j \in broken' <=> j \in broken,
         j \in torn' <=> j \in torn, j \in mixed' <=> j \in mixed
  PROVE  Fits(o, j)'
<1>1. Loadable(j)' <=> Loadable(j)
  BY DEF Loadable
<1>2. Excused(j)' <=> Excused(j)
  BY DEF Excused
<1>3. Usable(j) => Usable(j)'
  BY <1>1 DEF Usable
<1> QED
  BY <1>1, <1>2, <1>3, Grown

\* A session's step that leaves all jobs but its own alone.
LEMMA Frame ==
  ASSUME StoreInv, TypeOK', NEW p \in Session, NEW i \in Id,
         \A q \in Session : q # p => op'[q] = op[q] /\ op[q].id # i,
         op[p] = Idle \/ op[p].id = i,
         op'[p] = Idle \/ op'[p].id = i,
         \A j \in Id \ {i} : /\ toml'[j] = toml[j] /\ secrets'[j] = secrets[j]
                             /\ j \in dir' <=> j \in dir
                             /\ j \in broken' <=> j \in broken
                             /\ j \in torn' <=> j \in torn
                             /\ j \in mixed' <=> j \in mixed,
         Fits(op[p], i)'
  PROVE  StoreInv'
<1> HIDE DEF ExportPc
<1>1. ASSUME NEW j \in Id \ {i}, NEW o, Fits(o, j) PROVE Fits(o, j)'
  BY <1>1, SameJob
<1>2. \A q, r \in Session : q # r /\ op'[q] # Idle => op'[q].id # op'[r].id
  <2>1. \A q \in Session : op[q] # Idle => op[q].id \in Id
    BY DEF StoreInv, TypeOK
  <2> QED
    BY <2>1, IdAssumption, IdleFacts DEF StoreInv
<1>3. ASSUME NEW j \in Id, \A q \in Session : op'[q].id # j PROVE Fits(Idle, j)'
  <2>1. CASE j = i
    BY <1>3, <2>1 DEF Fits, Excused, Progress, Usable, Loadable
  <2>2. CASE j # i
    <3>1. \A q \in Session : op[q].id # j
      BY <1>3, <2>2, IdAssumption, IdleFacts
    <3>2. Fits(Idle, j)
      BY <3>1 DEF StoreInv
    <3> QED
      BY <1>1, <2>2, <3>2
  <2> QED
    BY <2>1, <2>2
<1>4. ASSUME NEW q \in Session, op'[q] # Idle PROVE Fits(op[q], op[q].id)'
  <2>1. CASE q = p
    <3>1. op'[q].id = i
      BY <1>4, <2>1
    <3> QED
      BY <2>1, <3>1
  <2>2. CASE q # p
    <3>1. op'[q] = op[q] /\ op[q].id \in Id \ {i}
      BY <1>4, <2>2 DEF StoreInv, TypeOK
    <3>2. Fits(op[q], op[q].id)
      BY <1>4, <3>1 DEF StoreInv
    <3>3. PICK o : o = op[q] /\ o = op'[q]
      BY <3>1
    <3>4. PICK j \in Id \ {i} : j = o.id
      BY <3>1, <3>3
    <3>5. Fits(o, j)
      BY <3>2, <3>3, <3>4
    <3>6. Fits(o, j)'
      BY <1>1, <3>5
    <3> QED
      BY <3>3, <3>4, <3>6
  <2> QED
    BY <2>1, <2>2
<1> QED
  BY <1>2, <1>3, <1>4 DEF StoreInv

\* What is known of a session at work.
LEMMA Own ==
  ASSUME StoreInv, NEW p \in Session, op[p] # Idle
  PROVE  /\ op[p] \in OpType /\ op[p].id \in Id /\ op[p].kind \in Kind /\ op[p].pc \in Pc
         /\ Fits(op[p], op[p].id)
         /\ \A q \in Session : q # p => op[q].id # op[p].id
<1>1. op[p] \in OpType
  BY DEF StoreInv, TypeOK, OpType
<1> QED
  BY <1>1 DEF StoreInv, OpType

\* A command that starts on a job no session is at work on.
LEMMA StartStep ==
  ASSUME StoreInv, ~Overlap, TypeOK', NEW p \in Session, NEW i \in Id, NEW o,
         op[p] = Idle, Free(i), o.id = i, op' = [op EXCEPT ![p] = o],
         UNCHANGED <<store, exported, history>>,
         o # Idle, Fits(Idle, i) => Progress(o, i)
  PROVE  StoreInv'
<1>1. \A q \in Session : op[q].id # i
  BY DEF Free
<1>2. Fits(Idle, i)
  BY <1>1 DEF StoreInv
<1>3. op'[p] = o /\ \A q \in Session : q # p => op'[q] = op[q]
  BY DEF StoreInv, TypeOK
<1>4. Fits(o, i)
  BY <1>2 DEF Fits
<1>5. Fits(op[p], i)'
  BY <1>3, <1>4 DEF Fits, Excused, Progress, Usable, Loadable
<1> QED
  BY <1>1, <1>3, <1>5, Frame

LEMMA CommandStep ==
  ASSUME StoreInv, ~Overlap, TypeOK', NEW p \in Session, NEW i \in Id, Command(p, i)
  PROVE  StoreInv'
<1>0. TypeOK /\ Idle.kind \notin Kind /\ (Fits(Idle, i) => Usable(i))
  BY IdleFacts DEF StoreInv, Fits, Kind, Restores
<1> USE DEF Kind, Restores
<1>1. CASE Create(p, i)
  <2> DEFINE b == bounds.births + 1
             o == [kind |-> "create", id |-> i, pc |-> "mkdir",
                   pair |-> [toml |-> [birth |-> b, edit |-> 0], secrets |-> b]]
  <2>1. b \in Birth /\ [birth |-> b, edit |-> 0] \in Toml
    BY <1>0, <1>1, CreateType
  <2>5. Whole(o.pair)
    BY <2>1, Names DEF Whole, Parsed
  <2>2. Fits(Idle, i) => Progress(o, i)
    BY <1>1, <2>1, <2>5 DEF Create, Exists, Fits, Excused, Progress
  <2>3. op[p] = Idle /\ Free(i) /\ op' = [op EXCEPT ![p] = o]
        /\ UNCHANGED <<store, exported, history>>
    BY <1>1 DEF Create
  <2>4. o.id = i /\ o # Idle
    BY IdleFacts
  <2> HIDE DEF o
  <2> QED
    BY <2>2, <2>3, <2>4, StartStep
<1>2. ASSUME NEW kind \in Kind, NEW pc, NEW pair, Start(p, kind, i, pc, pair),
             Fits(Idle, i) => Progress([kind |-> kind, id |-> i, pc |-> pc, pair |-> pair], i)
      PROVE  StoreInv'
  <2> DEFINE o == [kind |-> kind, id |-> i, pc |-> pc, pair |-> pair]
  <2>1. op[p] = Idle /\ Free(i) /\ op' = [op EXCEPT ![p] = o]
        /\ UNCHANGED <<store, exported, history>>
    BY <1>2 DEF Start
  <2>2. o.id = i /\ o # Idle
    BY <1>0
  <2> HIDE DEF o
  <2> QED
    BY <1>2, <2>1, <2>2, StartStep DEF o
<1>3. CASE Import(p, i)
  <2> DEFINE pair == [toml |-> Parsed(exported.toml), secrets |-> Absent]
  <2>1. exported.toml \in Toml \cup {Blank}
    BY <1>0, <1>3, PairTypes DEF Import, TypeOK
  <2>2. pair.toml \in Toml
    BY <2>1, ParsedType
  <2> HIDE DEF pair
  <2>3. Fits(Idle, i) => Progress([kind |-> "import", id |-> i, pc |-> "mkdir", pair |-> pair], i)
    BY <1>3, <2>2 DEF Import, Exists, Fits, Progress
  <2>4. Start(p, "import", i, "mkdir", pair)
    BY <1>3 DEF Import, pair
  <2> QED
    BY <1>2, <2>3, <2>4
<1>4. CASE Edit(p, i)
  <2> DEFINE t == [Parsed(toml[i]) EXCEPT !.edit = @ + 1]
             pair == [toml |-> t, secrets |-> Absent]
  <2>1. toml[i] \in Toml \cup {Blank} /\ secrets[i] # Absent
    BY <1>0, <1>4 DEF Edit, Loadable, TypeOK
  <2>2. t \in Toml /\ t.birth = Parsed(toml[i]).birth
    BY <2>1, ParsedType
  <2>3. Parsed(Blank).birth = 0
    BY DEF Parsed
  <2> HIDE DEF t
  <2>4. ASSUME Fits(Idle, i)
        PROVE  Excused(i) \/ secrets[i] = Blank \/ t.birth \in {0, secrets[i]}
    BY <2>1, <2>2, <2>3, <2>4, Names DEF Fits, Excused, Loadable, Whole
  <2>5. Fits(Idle, i) => Progress([kind |-> "edit", id |-> i, pc |-> "toml", pair |-> pair], i)
    BY <1>4, <2>2, <2>4 DEF Edit, Progress
  <2>6. Start(p, "edit", i, "toml", pair)
    BY <1>4 DEF Edit, t
  <2> HIDE DEF pair
  <2> QED
    BY <1>2, <2>5, <2>6
<1>5. CASE Delete(p, i)
  <2>1. Progress([kind |-> "delete", id |-> i, pc |-> "remove", pair |-> NoPair], i)
    BY DEF Progress
  <2> QED
    BY <1>2, <1>5, <2>1 DEF Delete
<1>6. CASE Export(p, i)
  <2>1. Fits(Idle, i) => Progress([kind |-> "export", id |-> i, pc |-> "out toml", pair |-> NoPair], i)
    BY <1>0 DEF Progress
  <2> QED
    BY <1>2, <1>6, <2>1 DEF Export
<1>7. ASSUME NEW kind \in Restores
      PROVE  Fits(Idle, i) => Progress([kind |-> kind, id |-> i, pc |-> "mkdir", pair |-> snapshot[i]], i)
  BY <1>0, <1>7 DEF Progress
<1>8. CASE ConfigRestore(p, i) \/ Recover(p, i)
  BY <1>2, <1>7, <1>8 DEF ConfigRestore, Recover
<1>9. CASE DRRestore(p, i)
  <2> DEFINE o == [kind |-> "dr-restore", id |-> i, pc |-> "mkdir", pair |-> snapshot[i]]
  <2>1. op[p] = Idle /\ Free(i) /\ op' = [op EXCEPT ![p] = o]
        /\ UNCHANGED <<store, exported, history>>
    BY <1>9 DEF DRRestore
  <2>2. o.id = i /\ o # Idle
    BY <1>0
  <2>3. Fits(Idle, i) => Progress(o, i)
    BY <1>7
  <2> HIDE DEF o
  <2> QED
    BY <2>1, <2>2, <2>3, StartStep
<1> QED
  BY <1>1, <1>3, <1>4, <1>5, <1>6, <1>8, <1>9
     DEF Command, ApiCreate, CreateWizard, ImportLegacy, ImportV2, ApiEdit, ApiEnableDisable,
         ApiScheduleSet, ApiRetentionSet, ApiNotificationsSet, ReconfigureWizard,
         ConfigureSchedule, ConfigureNotifications, ConfigureRetention, ApiDelete, RemoveJob

-----------------------------------------------------------------------------
\* A session that moves on leaves the others alone.
LEMMA GotoFrame ==
  ASSUME StoreInv, NEW p \in Session, op[p].pc \in Pc, NEW pc \in Pc, Goto(p, pc)
  PROVE  /\ op'[p].kind = op[p].kind /\ op'[p].id = op[p].id /\ op'[p].pair = op[p].pair
         /\ op'[p].pc = pc /\ op'[p] # Idle
         /\ \A q \in Session : q # p => op'[q] = op[q] /\ op[q].id # op[p].id
<1>1. op[p] # Idle /\ TypeOK
  BY OpFacts DEF StoreInv
<1>2. \A q \in Session : q # p => op'[q] = op[q]
  BY <1>1 DEF Goto, TypeOK
<1>3. op'[p].pc # Idle.pc
  BY <1>1, GotoType, IdleFacts DEF Pc
<1> QED
  BY <1>1, <1>2, <1>3, GotoType, Own

LEMMA DoneFrame ==
  ASSUME StoreInv, NEW p \in Session, op[p] # Idle, Done(p)
  PROVE  /\ op'[p] = Idle
         /\ \A q \in Session : q # p => op'[q] = op[q] /\ op[q].id # op[p].id
<1>1. \A q \in Session : q # p => op'[q] = op[q]
  BY DEF Done, StoreInv, TypeOK
<1> QED
  BY <1>1, Own, DoneType DEF StoreInv

\* Steps of writing, each with the whole of what it changes.
LEMMA MakeDirStep ==
  ASSUME StoreInv, TypeOK', NEW p \in Session, MakeDir(p)
  PROVE  StoreInv'
<1>1. op[p].pc = "mkdir" /\ op[p].pc \in Pc /\ op[p] # Idle
  BY IdleFacts DEF MakeDir, At, Pc
<1>2. PICK i \in Id : i = op[p].id /\ op[p].kind \in Kind /\ Fits(op[p], i)
  BY <1>1, Own
<1>3. /\ op'[p].kind = op[p].kind /\ op'[p].id = i /\ op'[p].pair = op[p].pair
      /\ op'[p].pc = "toml" /\ op'[p] # Idle
      /\ \A q \in Session : q # p => op'[q] = op[q] /\ op[q].id # i
  BY <1>1, <1>2, GotoFrame DEF MakeDir, Pc
<1>4. /\ dir' = dir \cup {i} /\ UNCHANGED <<toml, secrets, exported, broken, mixed>>
      /\ torn \subseteq torn' /\ torn' \subseteq torn \cup {i}
      /\ op[p].kind \in Restores => i \in torn'
  BY <1>2 DEF MakeDir
<1>5. Fits(op[p], i)'
  <2>1. i \in dir' /\ (Excused(i) \/ ~Loadable(i) \/ Whole([toml |-> toml[i], secrets |-> secrets[i]]))'
    BY <1>2, <1>4 DEF Fits, Excused, Loadable, Whole
  <2>2. CASE op[p].kind \in Restores
    BY <1>1, <1>2, <1>3, <1>4, <2>1, <2>2 DEF Fits, Excused, Progress, Restores
  <2>3. CASE op[p].kind \in {"create", "import"}
    BY <1>1, <1>2, <1>3, <1>4, <2>1, <2>3 DEF Fits, Excused, Progress, Restores, Whole
  <2>4. op[p].kind \in Restores \cup {"create", "import"}
    BY <1>1, <1>2 DEF Fits, Excused, Progress, Kind
  <2> QED
    BY <2>2, <2>3, <2>4
<1> QED
  BY <1>2, <1>3, <1>4, <1>5, Frame

LEMMA OpenTomlStep ==
  ASSUME StoreInv, TypeOK', NEW p \in Session, OpenToml(p)
  PROVE  StoreInv'
<1>1. op[p].pc = "toml" /\ op[p].pc \in Pc /\ op[p] # Idle
  BY IdleFacts DEF OpenToml, At, Pc
<1>2. PICK i \in Id : i = op[p].id /\ op[p].kind \in Kind /\ Fits(op[p], i)
  BY <1>1, Own
<1>0. {"secrets", "fill toml"} \subseteq Pc
  BY DEF Pc
<1>9. PICK pc \in Pc : /\ pc = IF op[p].pair.toml = Absent THEN "secrets" ELSE "fill toml"
                       /\ Goto(p, pc)
  BY <1>0 DEF OpenToml
<1>3. /\ op'[p].kind = op[p].kind /\ op'[p].id = i /\ op'[p].pair = op[p].pair
      /\ op'[p].pc = IF op[p].pair.toml = Absent THEN "secrets" ELSE "fill toml"
      /\ op'[p] # Idle
      /\ \A q \in Session : q # p => op'[q] = op[q] /\ op[q].id # i
  BY <1>1, <1>2, <1>9, GotoFrame
<1>4. /\ UNCHANGED <<dir, secrets, exported, broken, torn, mixed>> /\ i \in dir
      /\ toml' = IF op[p].pair.toml = Absent THEN toml ELSE [toml EXCEPT ![i] = Blank]
  BY <1>2 DEF OpenToml
<1>5. toml \in [Id -> Toml \cup {Absent, Blank}]
  BY DEF StoreInv, TypeOK
<1>6. toml'[i] = IF op[p].pair.toml = Absent THEN toml[i] ELSE Blank
  BY <1>2, <1>4, <1>5
<1>7. Fits(op[p], i)'
  <2>1. i \in dir' /\ (Excused(i) \/ ~Loadable(i) \/ Whole([toml |-> toml[i], secrets |-> secrets[i]]))'
    BY <1>2, <1>4, <1>6 DEF Fits, Excused, Loadable, Whole
  <2>2. CASE op[p].kind \in Restores
    BY <1>1, <1>2, <1>3, <1>4, <2>1, <2>2 DEF Fits, Excused, Progress, Restores
  <2>3. CASE op[p].kind \in {"create", "import"}
    BY <1>1, <1>2, <1>3, <1>4, <1>6, <2>1, <2>3, Names DEF Fits, Excused, Progress, Restores, Whole
  <2>4. CASE op[p].kind = "edit"
    BY <1>1, <1>2, <1>3, <1>4, <1>6, <2>1, <2>4, Names DEF Fits, Excused, Progress, Restores, Loadable
  <2>5. op[p].kind \in Restores \cup {"create", "import", "edit"}
    BY <1>1, <1>2 DEF Fits, Excused, Progress, Kind
  <2> QED
    BY <2>2, <2>3, <2>4, <2>5
<1> QED
  BY <1>2, <1>3, <1>4, <1>5, <1>7, Frame

LEMMA FillTomlStep ==
  ASSUME StoreInv, TypeOK', NEW p \in Session, FillToml(p)
  PROVE  StoreInv'
<1>1. op[p].pc = "fill toml" /\ op[p].pc \in Pc /\ op[p] # Idle
  BY IdleFacts DEF FillToml, At, Pc
<1>2. PICK i \in Id : i = op[p].id /\ op[p].kind \in Kind /\ Fits(op[p], i)
  BY <1>1, Own
<1>3. CASE op[p].kind = "edit"
  <2>1. op'[p] = Idle /\ \A q \in Session : q # p => op'[q] = op[q] /\ op[q].id # i
    BY <1>1, <1>2, <1>3, DoneFrame DEF FillToml, End
  <2>2. UNCHANGED <<dir, secrets, exported, broken, torn, mixed>> /\ toml' = [toml EXCEPT ![i] = op[p].pair.toml]
    BY <1>2 DEF FillToml
  <2>3. toml \in [Id -> Toml \cup {Absent, Blank}]
    BY DEF StoreInv, TypeOK
  <2>4. toml'[i] = op[p].pair.toml
    BY <2>2, <2>3
  <2>5. /\ i \in dir /\ op[p].pair.toml \in Toml /\ secrets[i] # Absent
        /\ Excused(i) \/ secrets[i] = Blank \/ op[p].pair.toml.birth \in {0, secrets[i]}
    BY <1>2, <1>3 DEF Fits, Excused, Progress, Loadable
  <2>6. Fits(op[p], i)'
    BY <2>1, <2>2, <2>4, <2>5, Names, IdleFacts
       DEF Fits, Excused, Progress, Usable, Loadable, Restores, Whole, Parsed
  <2> QED
    BY <1>2, <2>1, <2>2, <2>3, <2>6, Frame
<1>4. CASE op[p].kind # "edit"
  <2>1. /\ op'[p].kind = op[p].kind /\ op'[p].id = i /\ op'[p].pair = op[p].pair
        /\ op'[p].pc = "secrets" /\ op'[p] # Idle
        /\ \A q \in Session : q # p => op'[q] = op[q] /\ op[q].id # i
    BY <1>1, <1>2, <1>4, GotoFrame DEF FillToml, Pc
  <2>2. UNCHANGED <<dir, secrets, exported, broken, torn, mixed>> /\ toml' = [toml EXCEPT ![i] = op[p].pair.toml]
    BY <1>2 DEF FillToml
  <2>3. toml \in [Id -> Toml \cup {Absent, Blank}]
    BY DEF StoreInv, TypeOK
  <2>4. toml'[i] = op[p].pair.toml
    BY <2>2, <2>3
  <2>5. Fits(op[p], i)'
    <3>1. CASE op[p].kind \in Restores
      BY <1>1, <1>2, <2>1, <2>2, <2>4, <3>1 DEF Fits, Excused, Progress, Restores
    <3>2. CASE op[p].kind \in {"create", "import"}
      BY <1>1, <1>2, <2>1, <2>2, <2>4, <3>2 DEF Fits, Excused, Progress, Restores, Loadable, Whole
    <3>3. op[p].kind \in Restores \cup {"create", "import"}
      BY <1>1, <1>2, <1>4 DEF Fits, Excused, Progress, Kind
    <3> QED
      BY <3>1, <3>2, <3>3
  <2> QED
    BY <1>2, <2>1, <2>2, <2>3, <2>5, Frame
<1> QED
  BY <1>3, <1>4

LEMMA SkipSecretsStep ==
  ASSUME StoreInv, TypeOK', NEW p \in Session, SkipSecrets(p)
  PROVE  StoreInv'
<1>1. op[p].pc = "secrets" /\ op[p].pc \in Pc /\ op[p] # Idle
  BY IdleFacts DEF SkipSecrets, At, Pc
<1>2. PICK i \in Id : i = op[p].id /\ op[p].kind \in Kind /\ Fits(op[p], i)
  BY <1>1, Own
<1>3. UNCHANGED <<dir, toml, secrets, exported, broken, torn, mixed>>
  BY DEF SkipSecrets
<1>4. op'[p] = Idle /\ \A q \in Session : q # p => op'[q] = op[q] /\ op[q].id # i
  BY <1>1, <1>2, DoneFrame DEF SkipSecrets, End
<1>5. i \in dir /\ i \in torn
  BY <1>1, <1>2 DEF SkipSecrets, Fits, Progress
<1>6. Fits(op[p], i)'
  BY <1>3, <1>4, <1>5, IdleFacts DEF Fits, Excused, Progress, Usable, Restores
<1> QED
  BY <1>2, <1>3, <1>4, <1>6, Frame

\* What OpenSecrets does to its session.
LEMMA OpenSecretsOp ==
  ASSUME StoreInv, NEW p \in Session, OpenSecrets(p)
  PROVE  /\ op[p] \in OpType /\ op[p].pc = "secrets" /\ op[p] # Idle /\ op'[p] # Idle
         /\ op'[p].kind = op[p].kind /\ op'[p].id = op[p].id /\ op'[p].pc = "fill secrets"
         /\ op'[p].pair = [op[p].pair EXCEPT !.secrets = Source(p)]
         /\ \A q \in Session : q # p => op'[q] = op[q] /\ op[q].id # op[p].id
<1>1. op[p].pc = "secrets" /\ op[p].pc \in Pc /\ op[p] # Idle
  BY IdleFacts DEF OpenSecrets, At, Pc
<1>2. op[p] \in OpType /\ op \in [Session -> OpType \cup {Idle}]
  BY <1>1, Own DEF StoreInv, TypeOK, OpType
<1>3. op' = [op EXCEPT ![p] = [op[p] EXCEPT !.pc = "fill secrets", !.pair.secrets = Source(p)]]
  BY <1>2 DEF OpenSecrets
<1>4. op'[p] = [op[p] EXCEPT !.pc = "fill secrets", !.pair.secrets = Source(p)]
  BY <1>2, <1>3
<1>5. /\ op'[p].kind = op[p].kind /\ op'[p].id = op[p].id /\ op'[p].pc = "fill secrets"
      /\ op'[p].pair = [op[p].pair EXCEPT !.secrets = Source(p)]
  BY <1>2, <1>4 DEF OpType
<1>6. op'[p] # Idle
  BY <1>5, IdleFacts
<1> QED
  BY <1>1, <1>2, <1>3, <1>5, <1>6, Own

LEMMA OpenSecretsStep ==
  ASSUME StoreInv, ShareInv, TypeOK', NEW p \in Session, OpenSecrets(p)
  PROVE  StoreInv'
<1>1. op[p].pc = "secrets" /\ op[p] \in OpType /\ op[p] # Idle
  BY OpenSecretsOp
<1>2. PICK i \in Id : i = op[p].id /\ op[p].kind \in Kind /\ Fits(op[p], i)
  BY <1>1, Own
<1>3. PICK s : s = Source(p)
  OBVIOUS
<1>4. /\ op'[p].kind = op[p].kind /\ op'[p].id = i /\ op'[p].pc = "fill secrets" /\ op'[p] # Idle
      /\ op'[p].pair.toml = op[p].pair.toml /\ op'[p].pair.secrets = s
      /\ \A q \in Session : q # p => op'[q] = op[q] /\ op[q].id # i
  <2>1. op[p].pair \in Pair /\ op'[p].pair = [op[p].pair EXCEPT !.secrets = s]
    BY <1>1, <1>3, OpenSecretsOp DEF OpType
  <2>2. op'[p].pair.toml = op[p].pair.toml /\ op'[p].pair.secrets = s
    BY <2>1 DEF Pair
  <2> QED
    BY <1>2, <2>2, OpenSecretsOp
<1>5. /\ UNCHANGED <<dir, toml, exported, broken, torn>> /\ i \in dir /\ s # Absent
      /\ secrets' = [secrets EXCEPT ![i] = Blank]
      /\ mixed \subseteq mixed' /\ mixed' \subseteq mixed \cup {i}
      /\ op[p].kind = "import" /\ cut => i \in mixed'
  BY <1>2, <1>3 DEF OpenSecrets
<1>6. secrets \in [Id -> Birth \cup {Absent, Blank}]
  BY DEF StoreInv, TypeOK
<1>7. secrets'[i] = Blank /\ (Excused(i) \/ ~Loadable(i) \/ Whole([toml |-> toml[i], secrets |-> secrets[i]]))'
  <2>1. secrets'[i] = Blank
    BY <1>5, <1>6
  <2> QED
    BY <2>1, Names DEF Loadable, Whole
<1>8. Fits(op[p], i)'
  <2>1. CASE op[p].kind \in Restores
    BY <1>1, <1>2, <1>4, <1>5, <1>7, <2>1 DEF Fits, Excused, Progress, Restores
  <2>2. CASE op[p].kind = "create"
    <3>1. s = op[p].pair.secrets /\ s \in Birth /\ Whole(op[p].pair) /\ op[p].pair.toml \in Toml
          /\ toml[i] = op[p].pair.toml
      BY <1>1, <1>2, <1>3, <2>2 DEF Source, Fits, Progress
    <3>2. Whole(op'[p].pair)
      BY <1>4, <3>1 DEF Whole
    <3> QED
      BY <1>2, <1>4, <1>5, <1>7, <2>2, <3>1, <3>2 DEF Fits, Excused, Progress, Restores, Whole
  <2>3. CASE op[p].kind = "import"
    <3>1. op[p].pair.toml \in Toml /\ toml[i] = op[p].pair.toml
      BY <1>1, <1>2, <2>3 DEF Fits, Progress
    <3>2. /\ op[p].pair.toml = Parsed(exported.toml) /\ exported.toml # Absent
          /\ s = IF exported.secrets = Absent THEN Blank ELSE exported.secrets
      BY <1>1, <1>3, <2>3 DEF ShareInv, Before, Source
    <3>3. s \in Birth \cup {Blank}
      BY <3>2, PairTypes DEF StoreInv, TypeOK
    <3>4. ~cut => Whole(op'[p].pair)
      <4>1. Parsed(Parsed(exported.toml)) = Parsed(exported.toml)
        BY <3>1, <3>2, Names DEF Parsed
      <4>2. ASSUME ~cut
            PROVE  /\ exported.secrets # Absent
                   /\ \/ exported.toml = Blank \/ exported.secrets = Blank
                      \/ Parsed(exported.toml).birth \in {0, exported.secrets}
        BY <3>2, <4>2 DEF ShareInv, Whole
      <4>3. exported.toml = Blank => Parsed(exported.toml).birth = 0
        BY DEF Parsed
      <4>4. op'[p].pair.toml = Parsed(exported.toml) /\ op'[p].pair.toml # Absent
        BY <1>4, <3>1, <3>2, Names
      <4>5. ~cut => op'[p].pair.secrets = exported.secrets
        BY <1>4, <3>2, <4>2
      <4> QED
        BY <4>1, <4>2, <4>3, <4>4, <4>5 DEF Whole
    <3>5. i \in mixed' \/ Whole(op'[p].pair)
      BY <1>5, <2>3, <3>4
    <3> QED
      BY <1>2, <1>4, <1>5, <1>7, <2>3, <3>1, <3>3, <3>5 DEF Fits, Excused, Progress, Restores, Whole
  <2>4. op[p].kind \in Restores \cup {"create", "import"}
    BY <1>1, <1>2 DEF Fits, Progress, Kind
  <2> QED
    BY <2>1, <2>2, <2>3, <2>4
<1> QED
  BY <1>2, <1>4, <1>5, <1>6, <1>8, Frame

LEMMA FillSecretsStep ==
  ASSUME StoreInv, TypeOK', NEW p \in Session, FillSecrets(p)
  PROVE  StoreInv'
<1>1. op[p].pc = "fill secrets" /\ op[p].pc \in Pc /\ op[p] # Idle
  BY IdleFacts DEF FillSecrets, At, Pc
<1>2. PICK i \in Id : i = op[p].id /\ op[p].kind \in Kind /\ Fits(op[p], i)
  BY <1>1, Own
<1>3. /\ UNCHANGED <<dir, toml, exported, broken>>
      /\ secrets' = [secrets EXCEPT ![i] = op[p].pair.secrets]
  BY <1>2 DEF FillSecrets
<1>5. secrets'[i] = op[p].pair.secrets
  BY <1>3 DEF StoreInv, TypeOK
<1>6. secrets \in [Id -> Birth \cup {Absent, Blank}]
  BY DEF StoreInv, TypeOK
<1>7. CASE op[p].kind \in Restores
  <2>1. op'[p] = Idle /\ \A q \in Session : q # p => op'[q] = op[q] /\ op[q].id # i
    BY <1>1, <1>2, <1>7, DoneFrame DEF FillSecrets, End
  <2>2. /\ torn' = IF Whole(op[p].pair) THEN torn \ {i} ELSE torn
        /\ mixed' = IF Whole(op[p].pair) THEN mixed \ {i} ELSE mixed
    BY <1>2, <1>7 DEF FillSecrets, Restored
  <2>3. i \in dir /\ i \in torn /\ (op[p].pair.toml # Absent => toml[i] = op[p].pair.toml)
    BY <1>1, <1>2, <1>7 DEF Fits, Excused, Progress
  <2>4. CASE Whole(op[p].pair)
    <3>1. /\ toml'[i] = op[p].pair.toml /\ secrets'[i] = op[p].pair.secrets
          /\ toml'[i] # Absent /\ secrets'[i] # Absent
      BY <1>3, <1>5, <2>3, <2>4 DEF Whole
    <3>2. \/ toml'[i] = Blank \/ secrets'[i] = Blank
          \/ Parsed(op[p].pair.toml).birth \in {0, secrets'[i]}
      BY <2>4, <3>1 DEF Whole
    <3> QED
      <4>1. Fits(op[p], i)'
        BY <1>3, <2>1, <2>3, <3>1, <3>2, IdleFacts
           DEF Fits, Excused, Progress, Usable, Restores, Loadable, Whole, Parsed
      <4> QED
        BY <1>2, <1>3, <1>6, <2>1, <2>2, <4>1, Frame
  <2>5. CASE ~Whole(op[p].pair)
    <3>1. Fits(op[p], i)'
      BY <1>3, <2>1, <2>2, <2>3, <2>5, IdleFacts DEF Fits, Excused, Progress, Usable, Restores
    <3> QED
      BY <1>2, <1>3, <1>6, <2>1, <2>2, <3>1, Frame
  <2> QED
    BY <2>4, <2>5
<1>8. CASE op[p].kind \notin Restores
  <2>1. /\ op'[p].kind = op[p].kind /\ op'[p].id = i /\ op'[p].pair = op[p].pair
        /\ op'[p].pc = "script" /\ op'[p] # Idle
        /\ \A q \in Session : q # p => op'[q] = op[q] /\ op[q].id # i
    BY <1>1, <1>2, <1>8, GotoFrame DEF FillSecrets, Pc
  <2>2. UNCHANGED <<torn, mixed>>
    BY <1>8 DEF FillSecrets
  <2>3. op[p].kind \in {"create", "import"}
    BY <1>1, <1>2, <1>8 DEF Fits, Excused, Progress, Kind
  <2>4. /\ i \in dir /\ (Excused(i) \/ Whole(op[p].pair)) /\ toml[i] = op[p].pair.toml
        /\ op[p].pair.toml \in Toml /\ op[p].pair.secrets \in Birth \cup {Blank}
    BY <1>1, <1>2, <2>3 DEF Fits, Excused, Progress
  <2>5. secrets'[i] = op[p].pair.secrets
    BY <1>5, <2>4
  <2>6. Fits(op[p], i)'
    <3>1. Excused(i)' \/ Whole([toml |-> op[p].pair.toml, secrets |-> op[p].pair.secrets])
      BY <1>3, <2>2, <2>4 DEF Excused, Whole
    <3>2. toml'[i] = op[p].pair.toml /\ secrets'[i] = op[p].pair.secrets /\ i \in dir'
      BY <1>3, <2>4, <2>5
    <3>3. (Excused(i) \/ ~Loadable(i) \/ Whole([toml |-> toml[i], secrets |-> secrets[i]]))'
      BY <3>1, <3>2
    <3>4. op[p].kind = "create" => Whole(op[p].pair) /\ op[p].pair.secrets \in Birth
      BY <1>2 DEF Fits, Progress
    <3>5. Progress(op[p], i)'
      BY <1>3, <2>1, <2>2, <2>3, <2>4, <3>2, <3>4 DEF Progress, Excused, Restores
    <3> QED
      BY <2>1, <3>2, <3>3, <3>5 DEF Fits
  <2> QED
    BY <1>2, <1>3, <1>6, <2>1, <2>2, <2>6, Frame
<1> QED
  BY <1>7, <1>8

\* Steps that write no file of the job.
LEMMA QuietStep ==
  ASSUME StoreInv, TypeOK', NEW p \in Session,
         WriteScript(p) \/ ExportFails(p) \/ Crash(p) \/ (FillExport(p) /\ Done(p))
  PROVE  StoreInv'
<1>1. op[p] # Idle
  BY IdleFacts DEF WriteScript, ExportFails, FillExport, Crash, At
<1>2. PICK i \in Id : i = op[p].id /\ op[p].kind \in Kind /\ op[p].pc \in Pc /\ Fits(op[p], i)
  BY <1>1, Own
<1>3. op'[p] = Idle /\ \A q \in Session : q # p => op'[q] = op[q] /\ op[q].id # i
  BY <1>1, <1>2, DoneFrame DEF WriteScript, ExportFails, Crash
<1>4. UNCHANGED <<dir, toml, secrets, torn, mixed>> /\ broken \subseteq broken' /\ broken' \subseteq broken \cup {i}
  BY <1>2 DEF WriteScript, ExportFails, FillExport, Crash
<1>6. Usable(i) \/ i \in broken'
  <2>1. CASE WriteScript(p)
    <3>1. op[p].pc = "script" /\ op[p].kind \in {"create", "import"}
      BY <1>2, <2>1 DEF WriteScript, At, Fits, Excused, Progress, Kind, Restores
    <3>2. toml[i] = op[p].pair.toml /\ secrets[i] = op[p].pair.secrets
          /\ op[p].pair.toml \in Toml /\ op[p].pair.secrets \in Birth \cup {Blank}
      BY <1>2, <3>1 DEF Fits, Progress
    <3> QED
      BY <3>2, Names DEF Usable, Loadable
  <2>2. CASE ExportFails(p) \/ FillExport(p)
    <3>1. op[p].pc \in ExportPc
      BY <2>2 DEF ExportFails, FillExport, At
    <3>2. op[p].kind = "export"
      BY <1>2, <3>1 DEF Fits, Progress, Kind, Restores
    <3> QED
      BY <1>2, <3>2 DEF Fits, Progress
  <2>3. CASE Crash(p)
    BY <1>2, <2>3 DEF Crash, Fits, Progress
  <2> QED
    BY <2>1, <2>2, <2>3
<1>7. Fits(op[p], i)'
  <2>1. (Excused(i) \/ ~Loadable(i) \/ Whole([toml |-> toml[i], secrets |-> secrets[i]]))'
    BY <1>2, <1>4 DEF Fits, Excused, Loadable, Whole
  <2> QED
    BY <1>2, <1>3, <1>4, <1>6, <2>1, IdleFacts DEF Fits, Progress, Usable, Loadable, Restores
<1> QED
  BY <1>2, <1>3, <1>4, <1>7, Frame

\* What a step of an export that goes on does to its session.
LEMMA ExportOp ==
  ASSUME StoreInv, NEW p \in Session, OpenExport(p) \/ FillExport(p)
  PROVE  /\ op[p] \in OpType /\ op[p].pc \in ExportPc /\ op[p] # Idle /\ op[p].kind = "export"
         /\ \A q \in Session : q # p => op'[q] = op[q] /\ op[q].id # op[p].id
         /\ \/ Done(p)
            \/ /\ op'[p].kind = op[p].kind /\ op'[p].id = op[p].id /\ op'[p].pc \in ExportPc
               /\ op'[p] # Idle
         /\ OpenExport(p) /\ op[p].pc = "out toml" =>
              op'[p].pc = "fill out toml" /\ op'[p].pair = [op[p].pair EXCEPT !.toml = toml[op[p].id]]
         /\ OpenExport(p) /\ op[p].pc = "out secrets" =>
              op'[p].pc = "fill out secrets" /\ op'[p].pair = [op[p].pair EXCEPT !.secrets = secrets[op[p].id]]
         /\ FillExport(p) /\ op[p].pc = "fill out toml" =>
              op'[p].pc = "out secrets" /\ op'[p].pair = op[p].pair
<1>1. op[p].pc \in ExportPc /\ op[p].pc \in Pc /\ op[p] # Idle
  BY IdleFacts DEF OpenExport, FillExport, At, Pc
<1>2. op[p] \in OpType /\ op \in [Session -> OpType \cup {Idle}]
  BY <1>1, Own DEF StoreInv, TypeOK, OpType
<1>3. op[p].kind = "export"
  BY <1>1, Own DEF Fits, Progress, Kind, Restores
<1>4. \A q \in Session : q # p => op[q].id # op[p].id
  BY <1>1, Own
<1>5. CASE OpenExport(p) /\ op[p].pc = "out toml"
  <2>1. op' = [op EXCEPT ![p] = [op[p] EXCEPT !.pc = "fill out toml", !.pair.toml = toml[op[p].id]]]
    BY <1>2, <1>5 DEF OpenExport, At
  <2>2. op'[p] = [op[p] EXCEPT !.pc = "fill out toml", !.pair.toml = toml[op[p].id]]
    BY <1>2, <2>1
  <2>3. /\ op'[p].kind = op[p].kind /\ op'[p].id = op[p].id /\ op'[p].pc = "fill out toml"
        /\ op'[p].pair = [op[p].pair EXCEPT !.toml = toml[op[p].id]]
    BY <1>2, <2>2 DEF OpType
  <2>4. ~FillExport(p)
    BY <1>5 DEF FillExport, At
  <2> QED
    BY <1>1, <1>2, <1>3, <1>4, <1>5, <2>1, <2>3, <2>4, IdleFacts DEF ExportPc
<1>6. CASE OpenExport(p) /\ op[p].pc = "out secrets"
  <2>1. op' = [op EXCEPT ![p] = [op[p] EXCEPT !.pc = "fill out secrets", !.pair.secrets = secrets[op[p].id]]]
    BY <1>2, <1>6 DEF OpenExport, At
  <2>2. op'[p] = [op[p] EXCEPT !.pc = "fill out secrets", !.pair.secrets = secrets[op[p].id]]
    BY <1>2, <2>1
  <2>3. /\ op'[p].kind = op[p].kind /\ op'[p].id = op[p].id /\ op'[p].pc = "fill out secrets"
        /\ op'[p].pair = [op[p].pair EXCEPT !.secrets = secrets[op[p].id]]
    BY <1>2, <2>2 DEF OpType
  <2>4. ~FillExport(p)
    BY <1>6 DEF FillExport, At
  <2> QED
    BY <1>1, <1>2, <1>3, <1>4, <1>6, <2>1, <2>3, <2>4, IdleFacts DEF ExportPc
<1>7. CASE FillExport(p) /\ op[p].pc = "fill out toml"
  <2>1. Goto(p, "out secrets") /\ ~OpenExport(p)
    BY <1>7 DEF FillExport, OpenExport, At
  <2> QED
    BY <1>1, <1>2, <1>3, <1>7, <2>1, GotoFrame DEF Pc
<1>8. CASE FillExport(p) /\ op[p].pc = "fill out secrets"
  <2>1. Done(p) /\ ~OpenExport(p)
    BY <1>8 DEF FillExport, OpenExport, At
  <2> QED
    BY <1>1, <1>2, <1>3, <1>8, <2>1, DoneFrame
<1> QED
  BY <1>5, <1>6, <1>7, <1>8 DEF OpenExport, FillExport, At

\* An export goes on.
LEMMA ExportStep ==
  ASSUME StoreInv, TypeOK', NEW p \in Session, OpenExport(p) \/ FillExport(p), ~Done(p)
  PROVE  StoreInv'
<1>1. op[p] # Idle /\ op[p].kind = "export"
  BY ExportOp
<1>2. PICK i \in Id : i = op[p].id /\ Fits(op[p], i)
  BY <1>1, Own
<1>3. /\ op'[p].kind = "export" /\ op'[p].id = i /\ op'[p].pc \in ExportPc /\ op'[p] # Idle
      /\ \A q \in Session : q # p => op'[q] = op[q] /\ op[q].id # i
  BY <1>1, <1>2, ExportOp
<1>4. UNCHANGED <<dir, toml, secrets, broken, torn, mixed>>
  BY DEF OpenExport, FillExport
<1>5. (Excused(i) \/ ~Loadable(i) \/ Whole([toml |-> toml[i], secrets |-> secrets[i]]))'
  BY <1>2, <1>4 DEF Fits, Excused, Loadable, Whole
<1>6. Fits(op[p], i)'
  BY <1>1, <1>2, <1>3, <1>4, <1>5 DEF Fits, Progress, Usable, Loadable, Restores
<1> QED
  BY <1>2, <1>3, <1>4, <1>6, Frame

LEMMA RemoveFileStep ==
  ASSUME StoreInv, TypeOK', NEW p \in Session, RemoveFile(p)
  PROVE  StoreInv'
<1>1. op[p].pc = "remove" /\ op[p] # Idle
  BY IdleFacts DEF RemoveFile, At
<1>2. PICK i \in Id : i = op[p].id /\ op[p].kind \in Kind /\ Fits(op[p], i)
  BY <1>1, Own
<1>3. /\ UNCHANGED <<dir, exported, op, broken, torn, mixed>>
      /\ \/ toml' = [toml EXCEPT ![i] = Absent] /\ UNCHANGED secrets
         \/ secrets' = [secrets EXCEPT ![i] = Absent] /\ UNCHANGED toml
  BY <1>2 DEF RemoveFile
<1>4. toml \in [Id -> Toml \cup {Absent, Blank}] /\ secrets \in [Id -> Birth \cup {Absent, Blank}]
  BY DEF StoreInv, TypeOK
<1>5. \/ toml'[i] = Absent /\ secrets'[i] = secrets[i]
      \/ secrets'[i] = Absent /\ toml'[i] = toml[i]
  BY <1>3, <1>4
<1>6. op[p].kind \in {"delete", "create", "import"}
  BY <1>1, <1>2 DEF Fits, Excused, Progress, Kind, Restores
<1>7. Fits(op[p], i)'
  BY <1>1, <1>2, <1>3, <1>5, <1>6 DEF Fits, Excused, Progress, Loadable, Restores
<1> QED
  BY <1>1, <1>2, <1>3, <1>4, <1>7, Own, Frame

LEMMA RemoveDirStep ==
  ASSUME StoreInv, TypeOK', NEW p \in Session, RemoveDir(p)
  PROVE  StoreInv'
<1>1. op[p] # Idle
  BY IdleFacts DEF RemoveDir, At
<1>2. PICK i \in Id : i = op[p].id
  BY <1>1, Own
<1>3. op'[p] = Idle /\ \A q \in Session : q # p => op'[q] = op[q] /\ op[q].id # i
  BY <1>1, <1>2, DoneFrame DEF RemoveDir
<1>4. /\ UNCHANGED <<toml, secrets, exported>> /\ toml[i] = Absent /\ secrets[i] = Absent
      /\ dir' = dir \ {i} /\ broken' = broken \ {i} /\ torn' = torn \ {i} /\ mixed' = mixed \ {i}
  BY <1>2 DEF RemoveDir
<1>5. Fits(op[p], i)'
  BY <1>3, <1>4, IdleFacts DEF Fits, Excused, Progress, Usable, Loadable, Restores
<1> QED
  BY <1>2, <1>3, <1>4, <1>5, Frame

\* A write that fails is cleaned up, or hits a job that can be loaded already,
\* or a restore.
LEMMA WriteFailsStep ==
  ASSUME StoreInv, TypeOK', NEW p \in Session, WriteFails(p)
  PROVE  StoreInv'
<1>1. op[p].pc \in Writing /\ op[p].pc \in Pc /\ op[p] # Idle
  BY IdleFacts DEF WriteFails, Writing, Pc
<1>2. PICK i \in Id : i = op[p].id /\ op[p].kind \in Kind /\ Fits(op[p], i)
  BY <1>1, Own
<1>3. UNCHANGED <<dir, toml, secrets, exported, broken, torn, mixed>>
  BY DEF WriteFails
<1>5. (Excused(i) \/ ~Loadable(i) \/ Whole([toml |-> toml[i], secrets |-> secrets[i]]))'
  BY <1>2, <1>3 DEF Fits, Excused, Loadable, Whole
<1>6. CASE op[p].kind \in {"create", "import"}
  <2>1. /\ op'[p].kind = op[p].kind /\ op'[p].id = i /\ op'[p].pair = op[p].pair
        /\ op'[p].pc = "remove" /\ op'[p] # Idle
        /\ \A q \in Session : q # p => op'[q] = op[q] /\ op[q].id # i
    BY <1>1, <1>2, <1>6, GotoFrame DEF WriteFails, CleanUp, Pc
  <2>2. Fits(op[p], i)'
    BY <1>2, <1>3, <1>5, <1>6, <2>1 DEF Fits, Excused, Progress, Restores
  <2> QED
    BY <1>2, <1>3, <2>1, <2>2, Frame
<1>7. CASE op[p].kind \notin {"create", "import"}
  <2>1. op'[p] = Idle /\ \A q \in Session : q # p => op'[q] = op[q] /\ op[q].id # i
    BY <1>1, <1>2, <1>7, DoneFrame DEF WriteFails, CleanUp
  <2>2. Loadable(i) \/ i \in torn
    BY <1>1, <1>2, <1>7 DEF Fits, Excused, Progress, Writing, Kind, Restores
  <2>3. Fits(op[p], i)'
    BY <1>2, <1>3, <1>5, <2>1, <2>2, IdleFacts DEF Fits, Excused, Progress, Usable, Loadable, Restores
  <2> QED
    BY <1>2, <1>3, <2>1, <2>3, Frame
<1> QED
  BY <1>6, <1>7

LEMMA CopyFailsStep ==
  ASSUME StoreInv, TypeOK', NEW p \in Session, CopyFails(p)
  PROVE  StoreInv'
<1>1. op[p].pc \in Writing /\ op[p].pc \in Pc /\ op[p] # Idle /\ op[p].kind \in Restores
  BY IdleFacts DEF CopyFails, Writing, Pc, Restores
<1>2. PICK i \in Id : i = op[p].id /\ op[p].kind \in Kind /\ Fits(op[p], i) /\ op[p] \in OpType
  BY <1>1, Own
<1>3. UNCHANGED <<dir, toml, secrets, exported, broken, torn, mixed>> /\ i \in dir /\ i \in torn
  BY <1>1, <1>2 DEF CopyFails, Fits, Excused, Progress, Writing
<1>5. CASE op[p].pc \in {"toml", "fill toml"}
  <2>1. op' = [op EXCEPT ![p].pc = "secrets", ![p].pair.toml = Absent]
    BY <1>5 DEF CopyFails
  <2>2. op \in [Session -> OpType \cup {Idle}]
    BY DEF StoreInv, TypeOK, OpType
  <2>3. /\ op'[p].kind = op[p].kind /\ op'[p].id = i /\ op'[p].pc = "secrets"
        /\ op'[p].pair.toml = Absent
    BY <1>2, <2>1, <2>2 DEF OpType, Pair
  <2>4. \A q \in Session : q # p => op'[q] = op[q] /\ op[q].id # i
    BY <1>1, <1>2, <2>1, <2>2, Own
  <2>5. op'[p] # Idle
    BY <2>3, IdleFacts
  <2>6. Fits(op[p], i)'
    BY <1>1, <1>3, <2>3, <2>5 DEF Fits, Excused, Progress, Restores
  <2> QED
    BY <1>2, <1>3, <2>3, <2>4, <2>6, Frame
<1>6. CASE op[p].pc \notin {"toml", "fill toml"}
  <2>1. op'[p] = Idle /\ \A q \in Session : q # p => op'[q] = op[q] /\ op[q].id # i
    BY <1>1, <1>2, <1>6, DoneFrame DEF CopyFails, End
  <2>2. Fits(op[p], i)'
    BY <1>3, <2>1, IdleFacts DEF Fits, Excused, Progress, Usable, Restores
  <2> QED
    BY <1>2, <1>3, <2>1, <2>2, Frame
<1> QED
  BY <1>5, <1>6

LEMMA DirectoryFailsStep ==
  ASSUME StoreInv, TypeOK', NEW p \in Session, DirectoryFails(p)
  PROVE  StoreInv'
<1>1. op[p].pc \in {"mkdir", "remove"} /\ op[p] # Idle
  BY IdleFacts DEF DirectoryFails
<1>2. PICK i \in Id : i = op[p].id /\ Fits(op[p], i)
  BY <1>1, Own
<1>3. op'[p] = Idle /\ \A q \in Session : q # p => op'[q] = op[q] /\ op[q].id # i
  BY <1>1, <1>2, DoneFrame DEF DirectoryFails
<1>4. /\ UNCHANGED <<toml, secrets, exported, torn, mixed>> /\ dir \subseteq dir' /\ dir' \subseteq dir \cup {i}
      /\ broken' = broken \cup {i}
  BY <1>2 DEF DirectoryFails
<1>5. (Excused(i) \/ ~Loadable(i) \/ Whole([toml |-> toml[i], secrets |-> secrets[i]]))'
  BY <1>2, <1>4 DEF Fits, Excused, Loadable, Whole
<1>6. Fits(op[p], i)'
  BY <1>2, <1>3, <1>4, <1>5, IdleFacts DEF Fits, Excused, Progress, Usable, Restores
<1> QED
  BY <1>2, <1>3, <1>4, <1>6, Frame

\* The daemon reads, a late run makes a directory, or nothing happens.
LEMMA DaemonStep ==
  ASSUME StoreInv, TypeOK',
         \/ UNCHANGED vars
         \/ Reads \/ BeginBackup \/ ConfigBackup \/ RestartDaemon
         \/ \E i \in Id : RunStarts(i)
  PROVE  StoreInv'
<1>1. /\ UNCHANGED <<toml, secrets, exported, op, torn, cut, mixed>>
      /\ \/ UNCHANGED <<dir, broken>>
         \/ \E i \in Id : dir' = dir \cup {i} /\ broken' = broken \cup {i}
  BY DEF Reads, BeginReload, BeginBackup, ConfigBackup, Begin, ReadToml, ReadSecrets, EndReading,
         RestartDaemon, RunStarts
<1> HIDE DEF ExportPc
<1>2. ASSUME NEW j \in Id, NEW o, Fits(o, j) PROVE Fits(o, j)'
  <2>1. /\ toml'[j] = toml[j] /\ secrets'[j] = secrets[j]
        /\ j \in torn' <=> j \in torn
        /\ j \in mixed' <=> j \in mixed
    BY <1>1
  <2>2. Loadable(j)' <=> Loadable(j)
    BY <2>1 DEF Loadable
  <2>3. Excused(j)' <=> Excused(j)
    BY <2>1 DEF Excused
  <2>4. (j \in dir => j \in dir') /\ (Usable(j) => Usable(j)')
    BY <1>1, <2>2 DEF Usable
  <2> QED
    BY <1>2, <2>1, <2>2, <2>3, <2>4, Grown
<1>3. ASSUME NEW j \in Id, \A q \in Session : op'[q].id # j PROVE Fits(Idle, j)'
  BY <1>1, <1>2, <1>3 DEF StoreInv
<1>4. ASSUME NEW q \in Session, op'[q] # Idle PROVE Fits(op[q], op[q].id)'
  <2>1. PICK o : o = op[q] /\ o = op'[q]
    BY <1>1
  <2>2. PICK j \in Id : j = o.id
    BY <1>4, <2>1 DEF TypeOK
  <2>3. Fits(o, j)
    BY <1>4, <2>1, <2>2 DEF StoreInv
  <2>4. Fits(o, j)'
    BY <1>2, <2>3
  <2> QED
    BY <2>1, <2>2, <2>4 DEF Fits, Excused, Progress, Usable, Loadable
<1> QED
  BY <1>1, <1>3, <1>4 DEF StoreInv

LEMMA StoreStep ==
  ASSUME StoreInv, ShareInv, ~Overlap, [Next]_vars
  PROVE  StoreInv'
<1>1. TypeOK'
  BY TypeStep DEF StoreInv
<1>2. ASSUME NEW p \in Session, OpenExport(p) \/ FillExport(p) PROVE StoreInv'
  <2>1. CASE Done(p)
    <3>1. FillExport(p)
      BY <1>2, <2>1, ExportOp, DoneFrame, IdleFacts DEF OpenExport, At
    <3> QED
      BY <1>1, <2>1, <3>1, QuietStep
  <2> QED
    BY <1>1, <1>2, <2>1, ExportStep
<1>3. ASSUME NEW p \in Session, Steps(p) PROVE StoreInv'
  BY <1>1, <1>2, <1>3, MakeDirStep, OpenTomlStep, FillTomlStep, SkipSecretsStep, OpenSecretsStep,
     FillSecretsStep, QuietStep, RemoveFileStep, RemoveDirStep, WriteFailsStep, CopyFailsStep,
     DirectoryFailsStep
     DEF Steps
<1> QED
  BY <1>1, <1>3, CommandStep, DaemonStep DEF Next

-----------------------------------------------------------------------------
\* The export directory: a session's step that leaves it and all jobs but its
\* own alone.
LEMMA ShareFrame ==
  ASSUME StoreInv, ShareInv, NEW p \in Session, op[p] # Idle, UNCHANGED <<exported, cut>>,
         \A q \in Session : q # p => op'[q] = op[q] /\ op[q].id # op[p].id,
         \A j \in Id \ {op[p].id} : toml'[j] = toml[j] /\ secrets'[j] = secrets[j],
         \/ op'[p] = Idle
         \/ /\ op'[p].kind = op[p].kind /\ op[p].kind # "export"
            /\ op'[p].kind = "import" /\ op'[p].pc \in Before =>
                 op[p].pc \in Before /\ op'[p].pair.toml = op[p].pair.toml
  PROVE  ShareInv'
<1>1. op'[p].kind \in {"export", "import"} => op'[p].kind = op[p].kind
  BY IdleFacts
<1>2. \A q, r \in Session : q # r /\ op'[q].kind \in {"export", "import"} =>
        op'[r].kind \notin {"export", "import"}
  BY <1>1 DEF ShareInv
<1>3. \A q \in Session : op'[q].kind = "import" /\ op'[q].pc \in Before =>
        op'[q].pair.toml = Parsed(exported.toml) /\ exported.toml # Absent
  BY IdleFacts DEF ShareInv
<1>4. ASSUME NEW q \in Session, op'[q].kind = "export" PROVE Copied(op[q])'
  <2>1. q # p /\ op'[q] = op[q] /\ op[q].kind = "export"
    BY <1>4, IdleFacts
  <2>2. op[q] # Idle
    BY <2>1, IdleFacts
  <2>3. op[q].id \in Id \ {op[p].id}
    BY <2>1, <2>2, Own
  <2>4. PICK o : o = op[q] /\ o = op'[q] /\ o.id \in Id \ {op[p].id}
    BY <2>1, <2>3
  <2>5. Copied(o)
    BY <2>1, <2>4 DEF ShareInv
  <2>6. Copied(o)'
    BY <2>4, <2>5 DEF Copied
  <2> QED
    BY <2>4, <2>6 DEF Copied
<1>5. (~cut /\ exported.toml # Absent => Whole(exported))'
  BY DEF ShareInv, Whole, Parsed
<1> QED
  BY <1>2, <1>3, <1>4, <1>5 DEF ShareInv, Parsed

\* A command that starts.
LEMMA StartShare ==
  ASSUME StoreInv, ShareInv, NEW p \in Session, NEW o, op[p] = Idle,
         op' = [op EXCEPT ![p] = o], UNCHANGED <<store, exported, history>>,
         o.kind \in {"export", "import"} =>
           \A q \in Session : op[q].kind \notin {"export", "import"},
         o.kind = "import" => o.pair.toml = Parsed(exported.toml) /\ exported.toml # Absent,
         o.kind = "export" => o.pc = "out toml"
  PROVE  ShareInv'
<1>1. op'[p] = o /\ \A q \in Session : q # p => op'[q] = op[q]
  BY DEF StoreInv, TypeOK
<1>2. \A q, r \in Session : q # r /\ op'[q].kind \in {"export", "import"} =>
        op'[r].kind \notin {"export", "import"}
  BY <1>1 DEF ShareInv
<1>3. \A q \in Session : op'[q].kind = "import" /\ op'[q].pc \in Before =>
        op'[q].pair.toml = Parsed(exported.toml) /\ exported.toml # Absent
  BY <1>1 DEF ShareInv
<1>4. ASSUME NEW q \in Session, op'[q].kind = "export" PROVE Copied(op[q])'
  <2>1. CASE q = p
    <3>1. op'[q].pc = "out toml"
      BY <1>1, <1>4, <2>1
    <3> QED
      BY <3>1 DEF Copied
  <2>2. CASE q # p
    <3>1. op'[q] = op[q] /\ Copied(op[q])
      BY <1>1, <1>4, <2>2 DEF ShareInv
    <3> QED
      BY <3>1 DEF Copied
  <2> QED
    BY <2>1, <2>2
<1>5. (~cut /\ exported.toml # Absent => Whole(exported))'
  BY DEF ShareInv, Whole, Parsed
<1> QED
  BY <1>2, <1>3, <1>4, <1>5 DEF ShareInv, Parsed

LEMMA CommandShare ==
  ASSUME StoreInv, ShareInv, ~Overlap, NEW p \in Session, NEW i \in Id, Command(p, i)
  PROVE  ShareInv'
<1>1. ASSUME NEW kind, NEW pc, NEW pair, Start(p, kind, i, pc, pair),
             kind \in {"export", "import"} =>
               \A q \in Session : op[q].kind \notin {"export", "import"},
             kind = "import" => pair.toml = Parsed(exported.toml) /\ exported.toml # Absent,
             kind = "export" => pc = "out toml"
      PROVE  ShareInv'
  <2> DEFINE o == [kind |-> kind, id |-> i, pc |-> pc, pair |-> pair]
  <2>1. op[p] = Idle /\ op' = [op EXCEPT ![p] = o] /\ UNCHANGED <<store, exported, history>>
    BY <1>1 DEF Start
  <2>2. o.kind = kind /\ o.pc = pc /\ o.pair = pair
    OBVIOUS
  <2> HIDE DEF o
  <2> QED
    BY <1>1, <2>1, <2>2, StartShare
<1>2. CASE Create(p, i)
  <2> DEFINE b == bounds.births + 1
             o == [kind |-> "create", id |-> i, pc |-> "mkdir",
                   pair |-> [toml |-> [birth |-> b, edit |-> 0], secrets |-> b]]
  <2>1. op[p] = Idle /\ op' = [op EXCEPT ![p] = o] /\ UNCHANGED <<store, exported, history>>
    BY <1>2 DEF Create
  <2>2. o.kind = "create"
    OBVIOUS
  <2> HIDE DEF o
  <2> QED
    BY <2>1, <2>2, StartShare
<1>3. CASE Import(p, i)
  <2>1. PICK t : t = Parsed(exported.toml)
    OBVIOUS
  <2>2. Start(p, "import", i, "mkdir", [toml |-> t, secrets |-> Absent])
    BY <1>3, <2>1 DEF Import
  <2>3. exported.toml # Absent /\ \A q \in Session : op[q].kind \notin {"export", "import"}
    BY <1>3 DEF Import, ExportFree
  <2>4. PICK pair : pair = [toml |-> t, secrets |-> Absent]
    OBVIOUS
  <2>5. Start(p, "import", i, "mkdir", pair) /\ pair.toml = Parsed(exported.toml)
    BY <2>1, <2>2, <2>4
  <2> QED
    BY <1>1, <2>3, <2>5
<1>4. CASE Edit(p, i) \/ Delete(p, i) \/ ConfigRestore(p, i) \/ Recover(p, i)
  <2>1. PICK kind, pc, pair : kind \in {"edit", "delete", "restore", "recover"} /\ Start(p, kind, i, pc, pair)
    BY <1>4 DEF Edit, Delete, ConfigRestore, Recover
  <2> QED
    BY <1>1, <2>1
<1>5. CASE Export(p, i)
  BY <1>1, <1>5 DEF Export, ExportFree
<1>6. CASE DRRestore(p, i)
  <2> DEFINE o == [kind |-> "dr-restore", id |-> i, pc |-> "mkdir", pair |-> snapshot[i]]
  <2>1. op[p] = Idle /\ op' = [op EXCEPT ![p] = o] /\ UNCHANGED <<store, exported, history>>
    BY <1>6 DEF DRRestore
  <2>2. o.kind = "dr-restore"
    OBVIOUS
  <2> HIDE DEF o
  <2> QED
    BY <2>1, <2>2, StartShare
<1> QED
  BY <1>2, <1>3, <1>4, <1>5, <1>6
     DEF Command, ApiCreate, CreateWizard, ImportLegacy, ImportV2, ApiEdit, ApiEnableDisable,
         ApiScheduleSet, ApiRetentionSet, ApiNotificationsSet, ReconfigureWizard,
         ConfigureSchedule, ConfigureNotifications, ConfigureRetention, ApiDelete, RemoveJob

\* The steps of an export.
LEMMA ExportShare ==
  ASSUME StoreInv, ShareInv, NEW p \in Session, OpenExport(p) \/ FillExport(p)
  PROVE  ShareInv'
<1>1. PICK o \in OpType : o = op[p] /\ o.kind = "export" /\ o.pc \in ExportPc /\ o # Idle
  BY ExportOp
<1>2. PICK i \in Id : i = o.id /\ Fits(o, i)
  BY <1>1, Own
<1>3. \A q \in Session : q # p => op'[q] = op[q] /\ op[q].kind \notin {"export", "import"}
  BY <1>1, ExportOp DEF ShareInv
<1>4. op'[p].kind # "import" /\ (op'[p].kind = "export" \/ op'[p] = Idle)
  BY <1>1, ExportOp, DoneFrame, IdleFacts
<1>5. Copied(o)
  BY <1>1 DEF ShareInv
<1>6. UNCHANGED <<dir, toml, secrets, torn, mixed>> /\ exported \in Pair
  BY DEF OpenExport, FillExport, StoreInv, TypeOK
<1>7. toml[i] \in Toml \cup {Absent, Blank} /\ secrets[i] \in Birth \cup {Absent, Blank}
      /\ exported.toml \in Toml \cup {Absent, Blank}
  BY <1>6, PairTypes DEF StoreInv, TypeOK
<1>8. ASSUME op'[p].kind = "export" => Copied(op[p])',
             (~cut /\ exported.toml # Absent => Whole(exported))'
      PROVE  ShareInv'
  <2>1. \A q, r \in Session : q # r /\ op'[q].kind \in {"export", "import"} =>
          op'[r].kind \notin {"export", "import"}
    BY <1>3
  <2>2. \A q \in Session : op'[q].kind # "import"
    BY <1>3, <1>4
  <2>3. \A q \in Session : op'[q].kind = "export" => q = p
    BY <1>3
  <2>4. ASSUME NEW q \in Session, op'[q].kind = "export" PROVE Copied(op[q])'
    <3>1. q = p
      BY <2>3, <2>4
    <3> QED
      BY <1>8, <2>4, <3>1
  <2> QED
    BY <1>8, <2>1, <2>2, <2>4 DEF ShareInv
<1>9. CASE OpenExport(p) /\ o.pc = "out toml"
  <2>1. /\ op'[p].pc = "fill out toml" /\ op'[p].id = i /\ op'[p].pair.toml = toml[i]
        /\ toml[i] # Absent /\ cut'
    <3>1. (op'[p].pc = "fill out toml" /\ op'[p].id = i) \/ Done(p)
      BY <1>1, <1>2, <1>9, ExportOp
    <3>2. op'[p].pc = "fill out toml" /\ op'[p].pair = [o.pair EXCEPT !.toml = toml[i]]
      BY <1>1, <1>2, <1>9, ExportOp
    <3>3. ~Done(p)
      BY <1>1, <3>2, DoneFrame, IdleFacts
    <3>4. op'[p].pair.toml = toml[i]
      BY <1>1, <3>2 DEF OpType, Pair
    <3>5. toml[i] # Absent /\ cut'
      BY <1>1, <1>2, <1>9 DEF OpenExport, At
    <3> QED
      BY <3>1, <3>2, <3>3, <3>4, <3>5
  <2>2. Copied(op[p])'
    BY <1>6, <2>1 DEF Copied
  <2> QED
    BY <1>8, <2>1, <2>2
<1>10. CASE OpenExport(p) /\ o.pc = "out secrets"
  <2>1. /\ op'[p].pc = "fill out secrets" /\ op'[p].pair = [o.pair EXCEPT !.secrets = secrets[i]]
    BY <1>1, <1>2, <1>10, ExportOp
  <2>2. op'[p].id = i
    BY <1>1, <1>2, <2>1, ExportOp, DoneFrame, IdleFacts
  <2>3. op'[p].pair.toml = o.pair.toml /\ op'[p].pair.secrets = secrets[i]
    BY <1>1, <2>1 DEF OpType, Pair
  <2>4. secrets[i] # Absent /\ cut' /\ exported' = [exported EXCEPT !.secrets = Blank]
    BY <1>1, <1>2, <1>10 DEF OpenExport, At
  <2>5. exported'.toml = exported.toml
    BY <1>6, <2>4 DEF Pair
  <2>6. o.pair.toml = toml[i] /\ toml[i] # Absent /\ exported.toml = o.pair.toml
    BY <1>2, <1>5, <1>10 DEF Copied
  <2>7. Copied(op[p])'
    BY <1>6, <2>1, <2>2, <2>3, <2>4, <2>5, <2>6 DEF Copied
  <2> QED
    BY <1>8, <2>4, <2>7
<1>11. CASE FillExport(p) /\ o.pc = "fill out toml"
  <2>1. op'[p].pc = "out secrets" /\ op'[p].pair = o.pair
    BY <1>1, <1>11, ExportOp
  <2>2. op'[p].id = i
    BY <1>1, <1>2, <2>1, ExportOp, DoneFrame, IdleFacts
  <2>3. exported' = [exported EXCEPT !.toml = o.pair.toml] /\ UNCHANGED cut
    BY <1>1, <1>11 DEF FillExport, At
  <2>4. exported'.toml = o.pair.toml
    BY <1>6, <2>3 DEF Pair
  <2>5. o.pair.toml = toml[i] /\ toml[i] # Absent /\ cut
    BY <1>2, <1>5, <1>11 DEF Copied
  <2>6. Copied(op[p])'
    BY <1>6, <2>1, <2>2, <2>3, <2>4, <2>5 DEF Copied
  <2> QED
    BY <1>8, <2>3, <2>5, <2>6
<1>12. CASE FillExport(p) /\ o.pc = "fill out secrets"
  <2>1. Done(p) /\ exported' = [exported EXCEPT !.secrets = o.pair.secrets]
        /\ cut' = (i \in torn \cup mixed)
    BY <1>1, <1>2, <1>12 DEF FillExport, At
  <2>2. op'[p] = Idle
    BY <1>1, <2>1, DoneFrame
  <2>3. exported'.toml = exported.toml /\ exported'.secrets = o.pair.secrets
    BY <1>6, <2>1 DEF Pair
  <2>4. /\ o.pair.toml = toml[i] /\ toml[i] # Absent /\ exported.toml = o.pair.toml
        /\ o.pair.secrets = secrets[i] /\ secrets[i] # Absent
    BY <1>2, <1>5, <1>12 DEF Copied
  <2>5. Excused(i) \/ Whole([toml |-> toml[i], secrets |-> secrets[i]])
    BY <1>2, <2>4 DEF Fits, Loadable
  <2>6. (~cut /\ exported.toml # Absent => Whole(exported))'
    BY <2>1, <2>3, <2>4, <2>5 DEF Excused, Whole, Parsed
  <2> QED
    BY <1>8, <2>2, <2>6, IdleFacts
<1> QED
  BY <1>1, <1>9, <1>10, <1>11, <1>12 DEF OpenExport, FillExport, At

LEMMA StepsShare ==
  ASSUME StoreInv, ShareInv, NEW p \in Session, Steps(p)
  PROVE  ShareInv'
<1> USE DEF At
<1>1. CASE OpenExport(p) \/ FillExport(p)
  BY <1>1, ExportShare
<1>2. CASE ~(OpenExport(p) \/ FillExport(p))
  <2>1. op[p].pc \in Pc \/ op[p] # Idle
    BY <1>2 DEF Steps, MakeDir, OpenToml, FillToml, SkipSecrets, OpenSecrets, FillSecrets, WriteScript,
       RemoveFile, RemoveDir, ExportFails, WriteFails, CopyFails, DirectoryFails, Crash, Writing, Pc
  <2>2. op[p] # Idle /\ op[p].pc \in Pc /\ op[p].id \in Id /\ Fits(op[p], op[p].id) /\ op[p].kind \in Kind
        /\ op[p] \in OpType
    BY <2>1, Own, OpFacts DEF StoreInv
  <2>3. UNCHANGED <<exported, cut>>
    BY <1>2 DEF Steps, MakeDir, OpenToml, FillToml, SkipSecrets, OpenSecrets, FillSecrets, WriteScript,
       RemoveFile, RemoveDir, ExportFails, WriteFails, CopyFails, DirectoryFails, Crash, Restored
  <2>4. \A j \in Id \ {op[p].id} : toml'[j] = toml[j] /\ secrets'[j] = secrets[j]
    <3>1. toml \in [Id -> Toml \cup {Absent, Blank}] /\ secrets \in [Id -> Birth \cup {Absent, Blank}]
      BY DEF StoreInv, TypeOK
    <3>2. \/ UNCHANGED toml \/ \E x : toml' = [toml EXCEPT ![op[p].id] = x]
      BY <1>2 DEF Steps, MakeDir, OpenToml, FillToml, SkipSecrets, OpenSecrets, FillSecrets, WriteScript,
         RemoveFile, RemoveDir, ExportFails, WriteFails, CopyFails, DirectoryFails, Crash
    <3>3. \/ UNCHANGED secrets \/ \E x : secrets' = [secrets EXCEPT ![op[p].id] = x]
      BY <1>2 DEF Steps, MakeDir, OpenToml, FillToml, SkipSecrets, OpenSecrets, FillSecrets, WriteScript,
         RemoveFile, RemoveDir, ExportFails, WriteFails, CopyFails, DirectoryFails, Crash
    <3> QED
      BY <3>1, <3>2, <3>3
  <2>5. CASE Done(p)
    BY <2>2, <2>3, <2>4, <2>5, DoneFrame, ShareFrame
  <2>6. ASSUME NEW pc \in Pc, Goto(p, pc), pc \in Before => op[p].pc \in Before,
               op[p].kind # "export"
        PROVE  ShareInv'
    <3>1. /\ op'[p].kind = op[p].kind /\ op'[p].pair = op[p].pair /\ op'[p].pc = pc
          /\ \A q \in Session : q # p => op'[q] = op[q] /\ op[q].id # op[p].id
      BY <2>2, <2>6, GotoFrame
    <3> QED
      BY <2>2, <2>3, <2>4, <2>6, <3>1, ShareFrame
  <2>7. op[p].pc \notin ExportPc => op[p].kind # "export"
    BY <2>2 DEF Fits, Progress
  <2>8. CASE MakeDir(p) \/ OpenToml(p) \/ FillToml(p)
    BY <2>5, <2>6, <2>7, <2>8 DEF MakeDir, OpenToml, FillToml, End, Pc, Before
  <2>9. CASE SkipSecrets(p) \/ FillSecrets(p) \/ WriteScript(p)
    BY <2>5, <2>6, <2>7, <2>9 DEF SkipSecrets, FillSecrets, WriteScript, End, Pc, Before
  <2>10. CASE RemoveDir(p) \/ ExportFails(p) \/ DirectoryFails(p) \/ Crash(p)
    BY <2>5, <2>10 DEF RemoveDir, ExportFails, DirectoryFails, Crash
  <2>11. CASE WriteFails(p)
    BY <2>5, <2>6, <2>11 DEF WriteFails, CleanUp, Pc, Before
  <2>12. CASE OpenSecrets(p)
    <3>1. op[p].pc = "secrets" /\ op'[p].kind = op[p].kind /\ op'[p].pc = "fill secrets"
          /\ \A q \in Session : q # p => op'[q] = op[q] /\ op[q].id # op[p].id
      BY <2>12, OpenSecretsOp
    <3> QED
      BY <2>2, <2>3, <2>4, <2>7, <3>1, ShareFrame DEF Before
  <2>13. CASE RemoveFile(p)
    <3>1. op[p].pc = "remove" /\ UNCHANGED op
      BY <2>13 DEF RemoveFile
    <3>2. \A q \in Session : q # p => op[q].id # op[p].id
      BY <2>2, Own
    <3> QED
      BY <2>2, <2>3, <2>4, <2>7, <3>1, <3>2, ShareFrame DEF Before
  <2>14. CASE CopyFails(p)
    <3>1. CASE op[p].pc \notin {"toml", "fill toml"}
      BY <2>5, <2>14, <3>1 DEF CopyFails, End
    <3>2. CASE op[p].pc \in {"toml", "fill toml"}
      <4>1. op' = [op EXCEPT ![p].pc = "secrets", ![p].pair.toml = Absent]
            /\ op[p].kind \in {"recover", "dr-restore"}
        BY <2>14, <3>2 DEF CopyFails
      <4>2. op \in [Session -> OpType \cup {Idle}]
        BY DEF StoreInv, TypeOK, OpType
      <4>3. op'[p].kind = op[p].kind /\ \A q \in Session : q # p => op'[q] = op[q]
        BY <2>2, <4>1, <4>2 DEF OpType
      <4>4. \A q \in Session : q # p => op[q].id # op[p].id
        BY <2>2, Own
      <4> QED
        BY <2>2, <2>3, <2>4, <4>1, <4>3, <4>4, ShareFrame
    <3> QED
      BY <3>1, <3>2
  <2> QED
    BY <1>2, <2>8, <2>9, <2>10, <2>11, <2>12, <2>13, <2>14 DEF Steps
<1> QED
  BY <1>1, <1>2

LEMMA ShareStep ==
  ASSUME StoreInv, ShareInv, ~Overlap, [Next]_vars
  PROVE  ShareInv'
<1>1. CASE \/ UNCHANGED vars \/ Reads \/ BeginBackup \/ ConfigBackup \/ RestartDaemon
           \/ \E i \in Id : RunStarts(i)
  <2>1. UNCHANGED <<toml, secrets, exported, op, cut>>
    BY <1>1 DEF Reads, BeginReload, BeginBackup, ConfigBackup, Begin, ReadToml, ReadSecrets,
       EndReading, RestartDaemon, RunStarts
  <2> QED
    BY <2>1 DEF ShareInv, Copied, Whole, Parsed
<1> QED
  BY <1>1, CommandShare, StepsShare DEF Next

LEMMA InitShare == Init => ShareInv
<1> SUFFICES ASSUME Init PROVE ShareInv
  OBVIOUS
<1>1. \A p \in Session : op[p] = Idle
  BY DEF Init
<1>2. exported.toml # Absent => Whole(exported)
  <2>1. 1 \in Birth /\ [birth |-> 1, edit |-> 0] \in Toml
    BY BoundAssumption DEF Birth, Toml
  <2>2. Parsed([birth |-> 1, edit |-> 0]).birth = 1
    BY <2>1, Names DEF Parsed
  <2>3. exported = NoPair \/ exported = [toml |-> [birth |-> 1, edit |-> 0], secrets |-> 1]
    BY DEF Init
  <2> QED
    BY <2>1, <2>2, <2>3, Names DEF Whole, NoPair
<1> QED
  BY <1>1, <1>2, IdleFacts DEF ShareInv

LEMMA InitStore == Init => StoreInv
<1> SUFFICES ASSUME Init PROVE StoreInv
  OBVIOUS
<1>1. TypeOK
  BY InitType
<1>2. \A p \in Session : op[p] = Idle
  BY DEF Init
<1>3. \A i \in Id : Fits(Idle, i)
  <2>1. ASSUME NEW i \in Id, i \in dir PROVE Fits(Idle, i)
    <3>1. toml[i] = [birth |-> 1, edit |-> 0] /\ secrets[i] = 1
      BY <2>1 DEF Init
    <3>2. 1 \in Birth /\ [birth |-> 1, edit |-> 0] \in Toml
      BY BoundAssumption DEF Birth, Toml
    <3>3. Parsed([birth |-> 1, edit |-> 0]).birth = 1
      BY <3>2, Names DEF Parsed
    <3> QED
      BY <2>1, <3>1, <3>2, <3>3, Names, IdleFacts
         DEF Fits, Excused, Progress, Usable, Loadable, Restores, Whole
  <2>2. ASSUME NEW i \in Id, i \notin dir PROVE Fits(Idle, i)
    BY <2>2, IdleFacts DEF Init, Fits, Excused, Progress, Usable, Loadable, Restores
  <2> QED
    BY <2>1, <2>2
<1> QED
  BY <1>1, <1>2, <1>3 DEF Init, StoreInv

\* Where sessions work on different jobs, every job is at each moment as the
\* step of the command at work on it has left it.
THEOREM StoreInvariant == ~Overlap => (Spec => [](StoreInv /\ ShareInv))
<1> SUFFICES ASSUME ~Overlap PROVE Spec => [](StoreInv /\ ShareInv)
  OBVIOUS
<1>1. StoreInv /\ ShareInv /\ [Next]_vars => (StoreInv /\ ShareInv)'
  BY StoreStep, ShareStep
<1> QED
  BY <1>1, InitStore, InitShare, PTL DEF Spec

\* Whichever write fails, whichever process is killed between two writes, and
\* whatever the daemon reads or backs up meanwhile: a job that can be loaded
\* has its own secrets or none.
THEOREM SecretsStayWithTheirJob == ~Overlap => (Spec => []NeverAnothersSecrets)
<1> SUFFICES ASSUME ~Overlap PROVE Spec => []NeverAnothersSecrets
  OBVIOUS
<1>1. StoreInv => NeverAnothersSecrets
  <2> SUFFICES ASSUME StoreInv, NEW i \in Id \ (torn \cup mixed), Loadable(i)
               PROVE  Whole([toml |-> toml[i], secrets |-> secrets[i]])
    BY DEF NeverAnothersSecrets
  <2>1. \E o : Fits(o, i)
    <3>1. CASE \E p \in Session : op[p].id = i
      BY <3>1, IdAssumption, IdleFacts DEF StoreInv
    <3>2. CASE \A p \in Session : op[p].id # i
      BY <3>2 DEF StoreInv
    <3> QED
      BY <3>1, <3>2
  <2> QED
    BY <2>1 DEF Fits, Excused
<1> QED
  BY <1>1, StoreInvariant, PTL

\* A write that fails never leaves a directory that is neither a job nor free.
THEOREM FailedWritesLeaveNoId == ~Overlap => (Spec => []OnlyBrokenIdsStick)
<1> SUFFICES ASSUME ~Overlap PROVE Spec => []OnlyBrokenIdsStick
  OBVIOUS
<1>1. StoreInv => OnlyBrokenIdsStick
  BY DEF StoreInv, OnlyBrokenIdsStick, Fits, Excused, Usable, TypeOK
<1> QED
  BY <1>1, StoreInvariant, PTL

\* Where nothing is restored and nothing fails or is killed: no job is torn or
\* mixed, an export is cut only while it is written, and only a command that
\* makes or deletes a job has half of it on disk.
Undisturbed ==
  /\ torn = {} /\ mixed = {}
  /\ \A p \in Session : op[p].kind \notin Restores
  /\ cut => \E p \in Session : op[p].kind = "export" /\ op[p].pc # "out toml"
  /\ \A i \in Id : toml[i] = Absent \/ secrets[i] # Absent
       \/ \E p \in Session : op[p].id = i /\ op[p].kind \in {"create", "import", "delete"}

LEMMA UndisturbedStep ==
  ASSUME StoreInv, ShareInv, Undisturbed, ~Overlap, ~MayRestore, MaxFaults = 0, [Next]_vars
  PROVE  Undisturbed'
<1>0. op \in [Session -> OpType \cup {Idle}] /\ Idle.kind \notin Kind /\ TypeOK
  BY IdleFacts DEF StoreInv, TypeOK, OpType, Kind, Restores
<1>1. ~Counts("faults", MaxFaults)
  BY <1>0 DEF Counts, TypeOK
<1>2. ASSUME NEW p \in Session, NEW i \in Id, Command(p, i) PROVE Undisturbed'
  <2>1. ASSUME NEW o, op[p] = Idle, op' = [op EXCEPT ![p] = o], o.kind \notin Restores,
               UNCHANGED <<store, history>>
        PROVE  Undisturbed'
    <3>1. op'[p] = o /\ \A q \in Session : q # p => op'[q] = op[q]
      BY <1>0, <2>1
    <3>2. op[p].kind \notin {"create", "import", "delete", "export"}
      BY <2>1, IdleFacts
    <3>3. UNCHANGED <<toml, secrets, torn, cut, mixed>>
      BY <2>1
    <3>4. \A q \in Session : op'[q].kind \notin Restores
      BY <2>1, <3>1 DEF Undisturbed
    <3>5. cut' => \E q \in Session : op'[q].kind = "export" /\ op'[q].pc # "out toml"
      BY <3>1, <3>2, <3>3 DEF Undisturbed
    <3>6. ASSUME NEW j \in Id, toml[j] # Absent, secrets[j] = Absent
          PROVE  \E q \in Session : op'[q].id = j /\ op'[q].kind \in {"create", "import", "delete"}
      <4>1. PICK q \in Session : op[q].id = j /\ op[q].kind \in {"create", "import", "delete"}
        BY <3>6 DEF Undisturbed
      <4> QED
        BY <3>1, <3>2, <4>1
    <3> QED
      BY <3>3, <3>4, <3>5, <3>6 DEF Undisturbed
  <2>2. ASSUME NEW kind, kind \notin Restores, NEW pc, NEW pair, Start(p, kind, i, pc, pair)
        PROVE  Undisturbed'
    <3> DEFINE o == [kind |-> kind, id |-> i, pc |-> pc, pair |-> pair]
    <3>1. op[p] = Idle /\ op' = [op EXCEPT ![p] = o] /\ UNCHANGED <<store, history>> /\ o.kind = kind
      BY <2>2 DEF Start
    <3> HIDE DEF o
    <3> QED
      BY <2>1, <2>2, <3>1
  <2>3. CASE Create(p, i)
    <3> DEFINE b == bounds.births + 1
               o == [kind |-> "create", id |-> i, pc |-> "mkdir",
                     pair |-> [toml |-> [birth |-> b, edit |-> 0], secrets |-> b]]
    <3>1. op[p] = Idle /\ op' = [op EXCEPT ![p] = o] /\ UNCHANGED <<store, history>> /\ o.kind = "create"
      BY <2>3 DEF Create
    <3> HIDE DEF o
    <3> QED
      BY <2>1, <3>1 DEF Restores
  <2>4. CASE Import(p, i) \/ Edit(p, i) \/ Delete(p, i) \/ Export(p, i)
    BY <2>2, <2>4 DEF Import, Edit, Delete, Export, Restores
  <2> QED
    BY <1>2, <2>3, <2>4
       DEF Command, ApiCreate, CreateWizard, ImportLegacy, ImportV2, ApiEdit, ApiEnableDisable,
           ApiScheduleSet, ApiRetentionSet, ApiNotificationsSet, ReconfigureWizard,
           ConfigureSchedule, ConfigureNotifications, ConfigureRetention, ApiDelete, RemoveJob,
           ConfigRestore, Recover, DRRestore
<1>3. ASSUME NEW p \in Session, Steps(p) PROVE Undisturbed'
  <2> USE DEF At
  <2>1. op[p] # Idle
    BY <1>3, IdleFacts DEF Steps, MakeDir, OpenToml, FillToml, SkipSecrets, OpenSecrets, FillSecrets,
       WriteScript, RemoveFile, RemoveDir, OpenExport, FillExport, ExportFails, WriteFails, CopyFails,
       DirectoryFails, Crash, Writing
  <2>2. PICK i \in Id : /\ i = op[p].id /\ op[p].kind \in Kind /\ op[p].pc \in Pc /\ Fits(op[p], i)
                        /\ \A q \in Session : q # p => op[q].id # i
    BY <2>1, Own
  <2>3. op[p].kind \notin Restores /\ ~DirectoryFails(p) /\ ~Crash(p) /\ ~CopyFails(p)
    BY <1>1 DEF Undisturbed, DirectoryFails, Crash, CopyFails, Restores
  <2>4. ~WriteFails(p)
    <3>1. ASSUME op[p].pc \in Writing PROVE i \in dir
      <4>1. op[p].kind \in {"create", "import", "edit"}
        BY <2>2, <2>3, <3>1 DEF Fits, Progress, Kind, Writing
      <4> QED
        BY <2>2, <3>1, <4>1 DEF Fits, Progress, Writing, Loadable
    <3> QED
      BY <1>1, <2>2, <3>1 DEF WriteFails
  <2>5. toml \in [Id -> Toml \cup {Absent, Blank}] /\ secrets \in [Id -> Birth \cup {Absent, Blank}]
    BY <1>0 DEF TypeOK
  <2>6. ASSUME /\ \A q \in Session : q # p => op'[q] = op[q]
               /\ op'[p] = Idle \/ (op'[p].kind = op[p].kind /\ op'[p].id = i)
               /\ UNCHANGED <<torn, mixed>>
               /\ \A j \in Id \ {i} : toml'[j] = toml[j] /\ secrets'[j] = secrets[j]
               /\ \/ op'[p] # Idle /\ op[p].kind \in {"create", "import", "delete"}
                  \/ toml'[i] = Absent \/ secrets'[i] # Absent
               /\ cut' => \E q \in Session : op'[q].kind = "export" /\ op'[q].pc # "out toml"
        PROVE  Undisturbed'
    <3>1. ASSUME NEW j \in Id
          PROVE  toml'[j] = Absent \/ secrets'[j] # Absent
                 \/ \E q \in Session : op'[q].id = j /\ op'[q].kind \in {"create", "import", "delete"}
      <4>1. CASE j = i
        BY <2>6, <4>1
      <4>2. CASE j # i
        <5>1. ASSUME NEW q \in Session, op[q].id = j PROVE op'[q] = op[q]
          BY <2>2, <2>6, <4>2, <5>1
        <5>2. toml[j] = Absent \/ secrets[j] # Absent
              \/ \E q \in Session : op[q].id = j /\ op[q].kind \in {"create", "import", "delete"}
          BY DEF Undisturbed
        <5>3. toml'[j] = toml[j] /\ secrets'[j] = secrets[j]
          BY <2>6, <4>2
        <5> QED
          BY <5>1, <5>2, <5>3
      <4> QED
        BY <4>1, <4>2
    <3>2. \A q \in Session : op'[q].kind \notin Restores
      BY <1>0, <2>3, <2>6 DEF Undisturbed, Kind
    <3> QED
      BY <2>6, <3>1, <3>2 DEF Undisturbed
  <2>7. ASSUME op[p].kind # "export" \/ op[p].pc = "out toml",
               \A q \in Session : q # p => op'[q] = op[q], UNCHANGED cut
        PROVE  cut' => \E q \in Session : op'[q].kind = "export" /\ op'[q].pc # "out toml"
    BY <2>7 DEF Undisturbed
  <2>8. op[p].pc \notin ExportPc => op[p].kind # "export"
    BY <2>2 DEF Fits, Progress
  <2>9. CASE OpenExport(p) \/ FillExport(p)
    <3>1. /\ op[p].kind = "export" /\ UNCHANGED <<toml, secrets, torn, mixed>>
          /\ \A q \in Session : q # p => op'[q] = op[q]
      BY <2>9, ExportOp DEF OpenExport, FillExport
    <3>2. toml[i] = Absent \/ secrets[i] # Absent
      BY <2>2, <3>1 DEF Undisturbed
    <3>3. CASE Done(p)
      <4>1. op'[p] = Idle
        BY <2>1, <3>3, DoneFrame
      <4>2. ~cut'
        <5>1. op[p].pc = "fill out secrets" /\ FillExport(p)
          BY <2>9, <4>1, ExportOp, IdleFacts DEF OpenExport, FillExport
        <5> QED
          BY <5>1 DEF FillExport, Undisturbed
      <4> QED
        BY <2>6, <3>1, <3>2, <4>1, <4>2
    <3>4. CASE ~Done(p)
      <4>1. op'[p].kind = "export" /\ op'[p].id = i /\ op'[p].pc # "out toml"
        <5>1. op'[p].kind = "export" /\ op'[p].id = i
          BY <2>2, <2>9, <3>1, <3>4, ExportOp
        <5>2. op'[p].pc \in {"fill out toml", "fill out secrets", "out secrets"}
          BY <2>9, <3>4, ExportOp DEF OpenExport, FillExport
        <5> QED
          BY <5>1, <5>2
      <4> QED
        BY <2>6, <3>1, <3>2, <4>1
    <3> QED
      BY <3>3, <3>4
  <2>10. CASE ExportFails(p)
    <3>1. /\ op'[p] = Idle /\ UNCHANGED <<toml, secrets, torn, cut, mixed>>
          /\ \A q \in Session : q # p => op'[q] = op[q]
      BY <2>1, <2>10, DoneFrame DEF ExportFails
    <3>2. op[p].kind = "export"
      BY <2>2, <2>10 DEF ExportFails, Fits, Progress, Kind, Restores
    <3>3. toml[i] = Absent \/ secrets[i] # Absent
      BY <2>2, <3>2 DEF Undisturbed
    <3>4. op[p].pc = "out toml"
      BY <1>1, <2>2, <2>10, <3>2, <3>3 DEF ExportFails, ShareInv, Copied
    <3> QED
      BY <2>6, <2>7, <3>1, <3>3, <3>4
  <2>11. CASE MakeDir(p)
    <3>1. op'[p].kind = op[p].kind /\ op'[p].id = i /\ \A q \in Session : q # p => op'[q] = op[q]
      BY <2>2, <2>11, GotoFrame DEF MakeDir, Pc
    <3>2. UNCHANGED <<toml, secrets, torn, cut, mixed>> /\ op[p].kind \in {"create", "import"}
      BY <2>2, <2>3, <2>11 DEF MakeDir, Fits, Progress, Kind
    <3>3. op'[p] # Idle
      BY <3>1, <3>2, IdleFacts
    <3> QED
      BY <2>6, <2>7, <3>1, <3>2, <3>3
  <2>12. CASE OpenToml(p) \/ FillToml(p)
    <3>1. op[p].kind \in {"create", "import", "edit"}
      BY <2>2, <2>3, <2>12 DEF OpenToml, FillToml, Fits, Progress, Kind
    <3>2. \/ op'[p] = Idle /\ op[p].kind = "edit"
          \/ op'[p].kind = op[p].kind /\ op'[p].id = i /\ op'[p] # Idle
      BY <2>1, <2>2, <2>12, GotoFrame, DoneFrame DEF OpenToml, FillToml, End, Pc
    <3>3. \A q \in Session : q # p => op'[q] = op[q]
      BY <2>1, <2>2, <2>12, GotoFrame, DoneFrame DEF OpenToml, FillToml, End, Pc
    <3>4. /\ UNCHANGED <<secrets, torn, cut, mixed>>
          /\ \A j \in Id \ {i} : toml'[j] = toml[j]
      BY <2>2, <2>5, <2>12 DEF OpenToml, FillToml
    <3>5. op[p].kind = "edit" => secrets[i] # Absent
      BY <2>2 DEF Fits, Progress, Loadable
    <3> QED
      BY <2>6, <2>7, <3>1, <3>2, <3>3, <3>4, <3>5
  <2>13. CASE OpenSecrets(p)
    <3>1. /\ op'[p].kind = op[p].kind /\ op'[p].id = i /\ op'[p] # Idle
          /\ \A q \in Session : q # p => op'[q] = op[q]
      BY <2>2, <2>13, OpenSecretsOp
    <3>2. op[p].kind = "import" => ~cut
      BY DEF Undisturbed, ShareInv
    <3>3. /\ UNCHANGED <<toml, torn, cut, mixed>> /\ secrets'[i] = Blank
          /\ \A j \in Id \ {i} : secrets'[j] = secrets[j]
      BY <2>2, <2>5, <2>13, <3>2 DEF OpenSecrets
    <3>4. op[p].kind # "export"
      BY <2>8, <2>13 DEF OpenSecrets
    <3> QED
      BY <2>6, <2>7, <3>1, <3>3, <3>4, Names
  <2>14. CASE FillSecrets(p)
    <3>1. op[p].kind \in {"create", "import"}
      BY <2>2, <2>3, <2>14 DEF FillSecrets, Fits, Progress, Kind
    <3>2. /\ op'[p].kind = op[p].kind /\ op'[p].id = i /\ op'[p] # Idle
          /\ \A q \in Session : q # p => op'[q] = op[q]
      BY <2>2, <2>3, <2>14, GotoFrame DEF FillSecrets, Pc
    <3>3. /\ UNCHANGED <<toml, torn, cut, mixed>> /\ \A j \in Id \ {i} : secrets'[j] = secrets[j]
      BY <2>2, <2>3, <2>5, <2>14 DEF FillSecrets
    <3> QED
      BY <2>6, <2>7, <3>1, <3>2, <3>3
  <2>15. CASE WriteScript(p)
    <3>1. op[p].kind \in {"create", "import"}
      BY <2>2, <2>3, <2>15 DEF WriteScript, Fits, Progress, Kind
    <3>2. secrets[i] = op[p].pair.secrets /\ op[p].pair.secrets \in Birth \cup {Blank}
      BY <2>2, <2>15, <3>1 DEF WriteScript, Fits, Progress
    <3>3. op'[p] = Idle /\ UNCHANGED <<toml, secrets, torn, cut, mixed>>
          /\ \A q \in Session : q # p => op'[q] = op[q]
      BY <2>1, <2>15, DoneFrame DEF WriteScript
    <3> QED
      BY <2>6, <2>7, <3>1, <3>2, <3>3, Names
  <2>16. CASE RemoveFile(p)
    <3>1. op[p].kind \in {"delete", "create", "import"}
      BY <2>2, <2>3, <2>16 DEF RemoveFile, Fits, Progress, Kind
    <3>2. /\ UNCHANGED <<op, torn, cut, mixed>>
          /\ \A j \in Id \ {i} : toml'[j] = toml[j] /\ secrets'[j] = secrets[j]
      BY <2>2, <2>5, <2>16 DEF RemoveFile
    <3> QED
      BY <2>1, <2>2, <2>6, <2>7, <3>1, <3>2
  <2>17. CASE RemoveDir(p)
    <3>1. /\ op'[p] = Idle /\ UNCHANGED <<toml, secrets, cut>> /\ toml[i] = Absent
          /\ torn' = torn \ {i} /\ mixed' = mixed \ {i}
          /\ \A q \in Session : q # p => op'[q] = op[q]
      BY <2>1, <2>2, <2>17, DoneFrame DEF RemoveDir
    <3>2. op[p].kind # "export" /\ UNCHANGED <<torn, mixed>>
      BY <2>8, <2>17, <3>1 DEF RemoveDir, Undisturbed
    <3> QED
      BY <2>6, <2>7, <3>1, <3>2
  <2>18. ~SkipSecrets(p)
    BY <2>3 DEF SkipSecrets
  <2> QED
    BY <1>3, <2>3, <2>4, <2>9, <2>10, <2>11, <2>12, <2>13, <2>14, <2>15, <2>16, <2>17, <2>18 DEF Steps
<1>4. CASE \/ UNCHANGED vars \/ Reads \/ BeginBackup \/ ConfigBackup \/ RestartDaemon
           \/ \E i \in Id : RunStarts(i)
  <2>1. UNCHANGED <<toml, secrets, op, torn, cut, mixed>>
    BY <1>4 DEF Reads, BeginReload, BeginBackup, ConfigBackup, Begin, ReadToml, ReadSecrets,
       EndReading, RestartDaemon, RunStarts
  <2> QED
    BY <2>1 DEF Undisturbed
<1> QED
  BY <1>2, <1>3, <1>4 DEF Next

\* Where nothing is restored, nothing fails and no process is killed, every job
\* that can be loaded has its own secrets: creations, imports, edits, exports
\* and deletions by any number of sessions do not mix jobs.
THEOREM WholeUndisturbed == ~Overlap /\ ~MayRestore /\ MaxFaults = 0 => (Spec => []AlwaysWhole)
<1> SUFFICES ASSUME ~Overlap, ~MayRestore, MaxFaults = 0 PROVE Spec => []AlwaysWhole
  OBVIOUS
<1>1. Init => Undisturbed
  <2> SUFFICES ASSUME Init PROVE Undisturbed
    OBVIOUS
  <2>1. \A p \in Session : op[p] = Idle
    BY DEF Init
  <2>2. \A i \in Id : toml[i] = Absent \/ secrets[i] # Absent
    <3>1. 1 \in Birth
      BY BoundAssumption DEF Birth
    <3> QED
      BY <3>1, Names DEF Init
  <2>3. torn = {} /\ mixed = {} /\ ~cut
    BY DEF Init
  <2> QED
    BY <2>1, <2>2, <2>3, IdleFacts DEF Undisturbed, Restores
<1>2. StoreInv /\ ShareInv /\ Undisturbed /\ [Next]_vars => Undisturbed'
  BY UndisturbedStep
<1>3. NeverAnothersSecrets /\ Undisturbed => AlwaysWhole
  BY DEF NeverAnothersSecrets, Undisturbed, AlwaysWhole
<1> QED
  BY <1>1, <1>2, <1>3, StoreInvariant, SecretsStayWithTheirJob, PTL DEF Spec
=============================================================================
