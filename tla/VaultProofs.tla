---------------------------- MODULE VaultProofs -----------------------------
(***************************************************************************)
(* For any number of connections, credentials, interruptions, losses and   *)
(* emptied vaults: the types of Vault, that the server's vault only holds  *)
(* credentials with the key they were stored under, and, for one command   *)
(* at a time, that a command that completes leaves the node consistent.    *)
(***************************************************************************)
EXTENDS Vault, TLAPS

USE DEF disk, counters, vars

(***************************************************************************)
(* Types.                                                                  *)
(***************************************************************************)

CmdType == [step : Step, op : Op, pair : Pair \cup {NoPair}, old : User \cup {0}]
ConnType == [state : {"idle", "request", "answer"},
             creds : Pair \cup {NoPair}, hash : Pair \cup {NoPair},
             received : BOOLEAN, resend : BOOLEAN]

LEMMA NoCommandType == NoCommand \in CmdType
  BY DEF NoCommand, CmdType, Step, Op

LEMMA QuietType == Quiet \in ConnType
  BY DEF Quiet, ConnType

\* No key of the node opens a file that was written in part.
LEMMA StoredType ==
  ASSUME TypeOK
  PROVE  /\ Stored \in Pair \cup {NoPair}
         /\ Stored # NoPair => Stored = file /\ file \in Pair
<1>1. encKey # MaxCreations + 1
  BY BoundAssumption DEF TypeOK, Key, User, NoKey
<1>2. Opens(encKey, file) => file \in Pair
  BY <1>1 DEF Opens, TypeOK, Torn
<1> QED
  BY <1>2 DEF Stored

\* The new credentials of a command.
LEMMA StartsType ==
  ASSUME TypeOK, NEW c \in Cli, NEW op \in Op, NEW step \in Step,
         NEW old \in User \cup {0}, Starts(c, op, step, old)
  PROVE  /\ TypeOK'
         /\ \E k \in Pair :
              cmd' = [cmd EXCEPT ![c] = [step |-> step, op |-> op, pair |-> k, old |-> old]]
<1>1. PICK key \in IF op = "wizard" THEN 1 .. made + 1 ELSE {made + 1} :
        cmd' = [cmd EXCEPT ![c] = [step |-> step, op |-> op, old |-> old,
                                   pair |-> [user |-> made + 1, key |-> key]]]
  BY DEF Starts
<1>2. made \in Nat /\ made < MaxCreations /\ made + 1 \in 1..MaxCreations /\ made' = made + 1
  BY BoundAssumption DEF Starts, TypeOK
<1>3. key \in 1..MaxCreations
  BY <1>1, <1>2, BoundAssumption
<1>4. [user |-> made + 1, key |-> key] \in Pair
  BY <1>2, <1>3 DEF Pair, Key, User, NoKey
<1>5. [step |-> step, op |-> op, old |-> old, pair |-> [user |-> made + 1, key |-> key]] \in CmdType
  BY <1>4 DEF CmdType
<1>6. cmd' \in [Cli -> CmdType]
  BY <1>1, <1>5 DEF TypeOK, CmdType
<1>7. TypeOK'
  BY <1>2, <1>6, BoundAssumption DEF Starts, TypeOK, CmdType
<1> QED
  BY <1>1, <1>4, <1>7

LEMMA InitType == Init => TypeOK
<1> SUFFICES ASSUME Init PROVE TypeOK
  OBVIOUS
<1>1. cmd \in [Cli -> CmdType] /\ conn \in [Conn -> ConnType]
  BY NoCommandType, QuietType DEF Init
<1>2. made \in 0..MaxCreations /\ {interrupts, losses, vaultLosses} \subseteq Nat
  BY BoundAssumption DEF Init
<1>3. encKey \in Key /\ building \in [busy : BOOLEAN, creds : Pair \cup {NoPair}]
  BY DEF Init, Key, NoKey
<1>4. cmd \in [Cli -> [step : Step, op : Op, pair : Pair \cup {NoPair}, old : User \cup {0}]]
  BY <1>1 DEF CmdType
<1>5. conn \in [Conn -> [state : {"idle", "request", "answer"},
                        creds : Pair \cup {NoPair}, hash : Pair \cup {NoPair},
                        received : BOOLEAN, resend : BOOLEAN]]
  BY <1>1 DEF ConnType
<1> QED
  BY <1>2, <1>3, <1>4, <1>5 DEF Init, TypeOK

LEMMA GoToType ==
  ASSUME cmd \in [Cli -> CmdType], NEW c \in Cli, NEW s \in Step, GoTo(c, s)
  PROVE  cmd' \in [Cli -> CmdType]
  BY DEF GoTo, CmdType

LEMMA NoCommandNext ==
  ASSUME cmd \in [Cli -> CmdType], NEW c \in Cli, cmd' = [cmd EXCEPT ![c] = NoCommand]
  PROVE  cmd' \in [Cli -> CmdType]
  BY NoCommandType

\* What a step leaves of the command that takes it.
LEMMA CommandNext ==
  ASSUME cmd \in [Cli -> CmdType], NEW c \in Cli
  PROVE  /\ \A s \in Step : GoTo(c, s) =>
              /\ cmd'[c].step = s /\ cmd'[c].op = cmd[c].op
              /\ cmd'[c].pair = cmd[c].pair
         /\ cmd' = [cmd EXCEPT ![c] = NoCommand] =>
              /\ cmd'[c].step = "idle" /\ cmd'[c].op = "setup"
  BY DEF GoTo, CmdType, NoCommand

LEMMA InterruptedNext ==
  ASSUME {interrupts, losses, vaultLosses} \subseteq Nat, NEW c \in Cli, Interrupted(c)
  PROVE  interrupts' \in Nat /\ broken' = TRUE /\ cmd' = [cmd EXCEPT ![c] = NoCommand]
<1>1. interrupts \in Nat
  OBVIOUS
<1> QED
  BY <1>1 DEF Interrupted

\* A command that works has credentials.
Working == \A c \in Cli : cmd[c].step # "idle" => cmd[c].pair \in Pair

Types == TypeOK /\ Working

LEMMA StartsWork ==
  ASSUME Types, NEW c \in Cli, NEW op \in Op, NEW step \in Step,
         NEW old \in User \cup {0}, Starts(c, op, step, old)
  PROVE  Types'
<1>1. TypeOK' /\ cmd \in [Cli -> CmdType]
  BY StartsType DEF Types, TypeOK, CmdType
<1>2. PICK k \in Pair :
        cmd' = [cmd EXCEPT ![c] = [step |-> step, op |-> op, pair |-> k, old |-> old]]
  BY StartsType DEF Types
<1>3. Working'
  BY <1>1, <1>2 DEF Types, Working
<1> QED
  BY <1>1, <1>3 DEF Types

\* A command that starts is at its first step, with credentials of its own.
LEMMA StartsNext ==
  ASSUME Types, NEW c \in Cli, NEW op \in Op, NEW step \in Step,
         NEW old \in User \cup {0}, Starts(c, op, step, old)
  PROVE  /\ cmd'[c].step = step /\ cmd'[c].op = op /\ cmd'[c].pair \in Pair
         /\ UNCHANGED file
<1>1. cmd \in [Cli -> CmdType]
  BY DEF Types, TypeOK, CmdType
<1>2. PICK k \in Pair :
        cmd' = [cmd EXCEPT ![c] = [step |-> step, op |-> op, pair |-> k, old |-> old]]
  BY StartsType DEF Types
<1> QED
  BY <1>1, <1>2 DEF Starts

\* A step that moves a command on, or ends it, leaves it its credentials.
LEMMA WorkGoesOn ==
  ASSUME Types, NEW c \in Cli, cmd[c].step # "idle",
         \/ \E s \in Step : GoTo(c, s)
         \/ cmd' = [cmd EXCEPT ![c] = NoCommand]
  PROVE  /\ cmd' \in [Cli -> [step : Step, op : Op, pair : Pair \cup {NoPair}, old : User \cup {0}]]
         /\ Working'
         /\ cmd[c].pair \in Pair
<1>1. cmd \in [Cli -> CmdType]
  BY DEF Types, TypeOK, CmdType
<1>2. cmd' \in [Cli -> CmdType]
  BY <1>1, GoToType, NoCommandNext
<1>3. Working'
  BY <1>1 DEF Types, Working, GoTo, CmdType, NoCommand
<1> QED
  BY <1>2, <1>3 DEF Types, Working, CmdType

\* Every step of a command keeps the types.
LEMMA CommandType ==
  ASSUME Types, NEW c \in Cli, Command(c)
  PROVE  Types'
<1> USE DEF Types
<1>1. CASE Regenerate(c) \/ Setup(c)
  BY <1>1, StartsWork DEF Regenerate, Setup, Op, Step
<1>2. CASE Wizard(c)
  <2>1. file \in Pair => file.user \in User
    BY DEF Pair
  <2> QED
    BY <1>2, <2>1, StartsWork DEF Wizard, Op, Step
<1>3. CASE DeleteUser(c)
  <2>1. /\ cmd[c].step # "idle"
        /\ \/ \E s \in Step : GoTo(c, s)
           \/ cmd' = [cmd EXCEPT ![c] = NoCommand]
    BY <1>3 DEF DeleteUser, AtStep, Step
  <2> QED
    BY <1>3, <2>1, WorkGoesOn DEF DeleteUser, TypeOK
<1>4. CASE Remove(c)
  <2>1. /\ cmd[c].step # "idle"
        /\ \/ \E s \in Step : GoTo(c, s)
           \/ cmd' = [cmd EXCEPT ![c] = NoCommand]
    BY <1>4 DEF Remove, AtStep, Step
  <2> QED
    BY <1>4, <2>1, WorkGoesOn DEF Remove, TypeOK
<1>5. CASE CreateUser(c)
  <2>1. /\ cmd[c].step # "idle"
        /\ \/ \E s \in Step : GoTo(c, s)
           \/ cmd' = [cmd EXCEPT ![c] = NoCommand]
    BY <1>5 DEF CreateUser, AtStep, Step
  <2> QED
    BY <1>5, <2>1, WorkGoesOn DEF CreateUser, Pair, TypeOK
<1>6. CASE CleanupOldUsers(c)
  <2>1. /\ cmd[c].step # "idle"
        /\ \/ \E s \in Step : GoTo(c, s)
           \/ cmd' = [cmd EXCEPT ![c] = NoCommand]
    BY <1>6 DEF CleanupOldUsers, AtStep, Step, Completes
  <2> QED
    BY <1>6, <2>1, WorkGoesOn DEF CleanupOldUsers, Completes, TypeOK
<1>7. CASE Save(c)
  <2>1. /\ cmd[c].step # "idle"
        /\ \/ \E s \in Step : GoTo(c, s)
           \/ cmd' = [cmd EXCEPT ![c] = NoCommand]
    BY <1>7 DEF Save, AtStep, Step
  <2> QED
    BY <1>7, <2>1, WorkGoesOn DEF Save, TypeOK
<1>8. CASE SaveEncKey(c)
  <2>1. /\ cmd[c].step # "idle"
        /\ \/ \E s \in Step : GoTo(c, s)
           \/ cmd' = [cmd EXCEPT ![c] = NoCommand]
    BY <1>8 DEF SaveEncKey, AtStep, Step
  <2> QED
    BY <1>8, <2>1, WorkGoesOn DEF SaveEncKey, Pair, TypeOK
<1>9. CASE ClearCredentialsSent(c)
  <2>1. /\ cmd[c].step # "idle"
        /\ \/ \E s \in Step : GoTo(c, s)
           \/ cmd' = [cmd EXCEPT ![c] = NoCommand]
    BY <1>9 DEF ClearCredentialsSent, AtStep, Step, Completes
  <2> QED
    BY <1>9, <2>1, WorkGoesOn DEF ClearCredentialsSent, Completes, TypeOK
<1>10. CASE Mismatch(c)
  <2>1. /\ cmd[c].step # "idle"
        /\ \/ \E s \in Step : GoTo(c, s)
           \/ cmd' = [cmd EXCEPT ![c] = NoCommand]
    BY <1>10 DEF Mismatch, AtStep, Step
  <2> QED
    BY <1>10, <2>1, WorkGoesOn DEF Mismatch, TypeOK
<1>11. CASE Dies(c)
  <2>1. /\ cmd[c].step # "idle"
        /\ \/ \E s \in Step : GoTo(c, s)
           \/ cmd' = [cmd EXCEPT ![c] = NoCommand]
    BY <1>11 DEF Dies, AtStep, Step, Interrupted
  <2>2. interrupts' \in Nat /\ broken' = TRUE
    BY <1>11 DEF Dies, Interrupted, TypeOK
  <2> QED
    BY <1>11, <2>1, <2>2, WorkGoesOn DEF Dies, TypeOK
<1>12. CASE CreateUserFails(c)
  <2>1. /\ cmd[c].step # "idle"
        /\ \/ \E s \in Step : GoTo(c, s)
           \/ cmd' = [cmd EXCEPT ![c] = NoCommand]
    BY <1>12 DEF CreateUserFails, AtStep, Step, Interrupted
  <2>2. interrupts' \in Nat /\ broken' = TRUE
    BY <1>12, InterruptedNext DEF CreateUserFails, TypeOK
  <2> QED
    BY <1>12, <2>1, <2>2, WorkGoesOn DEF CreateUserFails, Pair, TypeOK
<1>13. CASE WriteCutShort(c)
  <2>1. /\ cmd[c].step # "idle"
        /\ \/ \E s \in Step : GoTo(c, s)
           \/ cmd' = [cmd EXCEPT ![c] = NoCommand]
    BY <1>13 DEF WriteCutShort, AtStep, Step, Interrupted
  <2>2. interrupts' \in Nat /\ broken' = TRUE
    BY <1>13, InterruptedNext DEF WriteCutShort, TypeOK
  <2> QED
    BY <1>13, <2>1, <2>2, WorkGoesOn DEF WriteCutShort, Key, TypeOK
<1> QED
  BY <1>1, <1>2, <1>3, <1>4, <1>5, <1>6, <1>7, <1>8, <1>9, <1>10, <1>11, <1>12, <1>13
     DEF Command

\* So does every step of a heartbeat.
LEMMA HeartbeatType ==
  ASSUME Types,
         \/ LoadPendingCredentials
         \/ \E h \in Conn : SendHeartbeat(h) \/ ServerReceives(h) \/ ApplyAnswer(h) \/ Lose(h)
         \/ ServerLosesVault
  PROVE  Types'
<1> USE DEF ConnType, Types, Working
<1>0. conn \in [Conn -> ConnType]
  BY DEF TypeOK
<1>1. CASE LoadPendingCredentials
  BY <1>1, StoredType DEF LoadPendingCredentials, TypeOK
<1>2. ASSUME NEW h \in Conn, SendHeartbeat(h) PROVE Types'
  <2>1. conn' \in [Conn -> ConnType]
    BY <1>0, <1>2, StoredType, QuietType DEF SendHeartbeat, TypeOK
  <2> QED
    BY <2>1, <1>2 DEF SendHeartbeat, TypeOK
<1>3. ASSUME NEW h \in Conn, ServerReceives(h) PROVE Types'
  <2>1. conn' \in [Conn -> ConnType]
    BY <1>0, <1>3, QuietType DEF ServerReceives
  <2>2. vault' \in Pair \cup {NoPair}
    BY <1>0, <1>3 DEF ServerReceives, TypeOK
  <2> QED
    BY <2>1, <2>2, <1>3 DEF ServerReceives, TypeOK
<1>4. ASSUME NEW h \in Conn, ApplyAnswer(h) PROVE Types'
  <2>1. conn' \in [Conn -> ConnType] /\ sent' \in BOOLEAN
    BY <1>0, <1>4, QuietType DEF ApplyAnswer, TypeOK
  <2> QED
    BY <2>1, <1>4 DEF ApplyAnswer, TypeOK
<1>5. ASSUME NEW h \in Conn, Lose(h) PROVE Types'
  <2>1. conn' \in [Conn -> ConnType]
    BY <1>0, <1>5, QuietType DEF Lose
  <2> QED
    BY <2>1, <1>5 DEF Lose, TypeOK
<1>6. CASE ServerLosesVault
  BY <1>6 DEF ServerLosesVault, TypeOK
<1> QED
  BY <1>1, <1>2, <1>3, <1>4, <1>5, <1>6

LEMMA TypesStep ==
  ASSUME Types, [Next]_vars
  PROVE  Types'
<1>1. CASE UNCHANGED vars
  BY <1>1 DEF Types, TypeOK, Working
<1> QED
  BY <1>1, CommandType, HeartbeatType DEF Next

LEMMA InitTypes == Init => Types
  BY InitType DEF Init, Types, Working, NoCommand

LEMMA TypesInvariant == Spec => []Types
<1>1. Types /\ [Next]_vars => Types'
  BY TypesStep
<1> QED
  BY <1>1, InitTypes, PTL DEF Spec

\* Files, users, commands, heartbeats and the vault keep their types.
THEOREM TypeCorrect == Spec => []TypeOK
<1>1. Types => TypeOK
  BY DEF Types
<1> QED
  BY <1>1, TypesInvariant, PTL

(***************************************************************************)
(* What the server holds.                                                  *)
(***************************************************************************)

\* What a heartbeat carries and what the vault holds was once stored together.
HeldInv ==
  /\ Types
  /\ file \in saved \cup {NoPair, Torn}
  /\ building.creds \in saved \cup {NoPair}
  /\ \A h \in Conn : conn[h].creds \in saved \cup {NoPair}
  /\ VaultHeldTogether

\* A command only adds to what has been stored.
LEMMA CommandSaves ==
  ASSUME NEW c \in Cli, Command(c)
  PROVE  /\ \/ file' \in {file, NoPair, Torn} /\ saved' = saved
            \/ file' = cmd[c].pair /\ saved' = saved \cup {cmd[c].pair}
         /\ UNCHANGED <<building, conn, vault>>
  BY DEF Command, Regenerate, Setup, Wizard, Starts, DeleteUser, Remove, CreateUser,
         CleanupOldUsers, Save, SaveEncKey, ClearCredentialsSent, Mismatch, Dies,
         CreateUserFails, WriteCutShort

LEMMA HeldStep ==
  ASSUME HeldInv, [Next]_vars
  PROVE  HeldInv'
<1>0. Types'
  BY TypesStep DEF HeldInv
<1>1. ASSUME NEW c \in Cli, Command(c) PROVE HeldInv'
  BY <1>0, <1>1, CommandSaves DEF HeldInv, VaultHeldTogether
<1>2. CASE LoadPendingCredentials
  <2>1. Stored \in saved \cup {NoPair}
    BY StoredType DEF HeldInv, Types, Torn, NoPair, Pair, User
  <2> QED
    BY <1>0, <1>2, <2>1 DEF LoadPendingCredentials, HeldInv, VaultHeldTogether
<1>3. ASSUME NEW h \in Conn, SendHeartbeat(h) PROVE HeldInv'
  <2>1. conn \in [Conn -> ConnType]
    BY DEF HeldInv, Types, TypeOK, ConnType
  <2>2. \A g \in Conn : conn'[g].creds \in saved \cup {NoPair}
    BY <2>1, <1>3 DEF SendHeartbeat, HeldInv, Quiet
  <2> QED
    BY <1>0, <1>3, <2>2 DEF SendHeartbeat, HeldInv, VaultHeldTogether
<1>4. ASSUME NEW h \in Conn, ServerReceives(h) PROVE HeldInv'
  <2>1. conn \in [Conn -> ConnType]
    BY DEF HeldInv, Types, TypeOK, ConnType
  <2>2. \A g \in Conn : conn'[g].creds \in saved \cup {NoPair}
    BY <2>1, <1>4 DEF ServerReceives, HeldInv, Quiet
  <2>3. vault' \in saved \cup {NoPair}
    BY <1>4 DEF ServerReceives, HeldInv, VaultHeldTogether
  <2> QED
    BY <1>0, <1>4, <2>2, <2>3 DEF ServerReceives, HeldInv, VaultHeldTogether
<1>5. ASSUME NEW h \in Conn, ApplyAnswer(h) \/ Lose(h) PROVE HeldInv'
  <2>1. conn \in [Conn -> ConnType]
    BY DEF HeldInv, Types, TypeOK, ConnType
  <2>2. /\ conn' = [conn EXCEPT ![h] = Quiet]
        /\ UNCHANGED <<file, saved, building, vault>>
    BY <1>5 DEF ApplyAnswer, Lose
  <2>3. \A g \in Conn : conn'[g].creds \in saved \cup {NoPair}
    BY <2>1, <2>2 DEF HeldInv, Quiet
  <2> QED
    BY <1>0, <2>2, <2>3 DEF HeldInv, VaultHeldTogether
<1>6. CASE ServerLosesVault
  BY <1>0, <1>6 DEF ServerLosesVault, HeldInv, VaultHeldTogether
<1>7. CASE UNCHANGED vars
  BY <1>0, <1>7 DEF HeldInv, VaultHeldTogether
<1> QED
  BY <1>1, <1>2, <1>3, <1>4, <1>5, <1>6, <1>7 DEF Next

\* Whatever commands replace the two files while a heartbeat reads them, and
\* however many heartbeats are lost or late: the vault never holds a user with
\* a key that did not encrypt his credentials.
THEOREM HeldTogether == Spec => []VaultHeldTogether
<1>1. Init => HeldInv
  BY InitTypes DEF Init, HeldInv, VaultHeldTogether, Quiet
<1>2. HeldInv /\ [Next]_vars => HeldInv'
  BY HeldStep
<1>3. HeldInv => VaultHeldTogether
  BY DEF HeldInv
<1> QED
  BY <1>1, <1>2, <1>3, PTL DEF Spec

(***************************************************************************)
(* One command at a time.                                                  *)
(***************************************************************************)
OneCommand == \A c, d \in Cli : c = d

\* The steps of a command establish Progress one after the other.
LEMMA RestStep ==
  ASSUME OneCommand, Types, RestInv, [Next]_vars
  PROVE  RestInv'
<1>0. Types' /\ cmd \in [Cli -> CmdType]
  BY TypesStep DEF Types, TypeOK, CmdType
<1>1. ASSUME NEW c \in Cli, Command(c) PROVE RestInv'
  <2>0. cmd[c] \in CmdType /\ Progress(cmd[c]) /\ \A d \in Cli : d = c
    BY <1>0, <1>1 DEF OneCommand, RestInv
  <2> SUFFICES AtRest' /\ Progress(cmd[c])'
    BY <1>0, <2>0 DEF RestInv, Types
  <2> USE DEF AtRest, Progress, AtStep
  <2>1. CASE Regenerate(c)
    <3>1. cmd'[c].step = "create user" /\ cmd'[c].op = "regenerate" /\ cmd'[c].pair \in Pair
      BY <2>1, StartsNext DEF Regenerate, Op, Step, Types
    <3> QED
      BY <3>1
  <2>2. CASE Setup(c)
    <3>1. cmd'[c].step = "create user" /\ cmd'[c].op = "setup" /\ cmd'[c].pair \in Pair
      BY <2>2, StartsNext DEF Setup, Op, Step, Types
    <3> QED
      BY <3>1
  <2>12. CASE file = NoPair /\ Starts(c, "wizard", "create user", 0)
    <3>1. cmd'[c].step = "create user" /\ cmd'[c].pair \in Pair /\ file' = NoPair
      BY <2>12, StartsNext DEF Op, Step, Types
    <3> QED
      BY <3>1
  <2>13. CASE file \in Pair /\ Starts(c, "wizard", "delete user", file.user)
    <3>1. file.user \in User
      BY <2>13 DEF Pair
    <3>2. cmd'[c].step = "delete user" /\ cmd'[c].pair \in Pair
      BY <2>13, <3>1, StartsNext DEF Op, Step, Types
    <3> QED
      BY <3>2
  <2>3. CASE DeleteUser(c)
    BY <1>0, <2>0, <2>3, CommandNext DEF DeleteUser, Step
  <2>4. CASE Remove(c)
    BY <1>0, <2>0, <2>4, CommandNext DEF Remove, Step
  <2>5. CASE CreateUser(c)
    BY <1>0, <2>0, <2>5, CommandNext DEF CreateUser, Step
  <2>6. CASE CleanupOldUsers(c)
    <3>1. cmd[c].pair.user \in users'
      BY <2>0, <2>6 DEF CleanupOldUsers
    <3>2. CASE cmd[c].op = "regenerate"
      BY <1>0, <2>0, <2>6, <3>1, <3>2, CommandNext DEF CleanupOldUsers, Step
    <3>3. CASE cmd[c].op # "regenerate"
      <4>1. cmd' = [cmd EXCEPT ![c] = NoCommand] /\ UNCHANGED <<file, encKey>>
        BY <2>6, <3>3 DEF CleanupOldUsers, Completes
      <4>2. file = cmd[c].pair /\ encKey = cmd[c].pair.key /\ cmd[c].pair \in Pair
        BY <2>0, <2>6, <3>3 DEF CleanupOldUsers
      <4>3. Opens(encKey, file)'
        BY <4>1, <4>2 DEF Opens, Pair, NoPair, NoKey
      <4> QED
        BY <1>0, <3>1, <4>1, <4>2, <4>3, CommandNext
    <3> QED
      BY <3>2, <3>3
  <2>7. CASE Save(c)
    BY <1>0, <2>0, <2>7, CommandNext DEF Save, Step
  <2>8. CASE SaveEncKey(c)
    BY <1>0, <2>0, <2>8, CommandNext DEF SaveEncKey, Step
  <2>9. CASE ClearCredentialsSent(c)
    <3>1. CASE cmd[c].op = "setup"
      BY <1>0, <2>0, <2>9, <3>1, CommandNext DEF ClearCredentialsSent, Step
    <3>2. CASE cmd[c].op # "setup"
      <4>1. cmd' = [cmd EXCEPT ![c] = NoCommand] /\ UNCHANGED <<file, encKey, users>>
        BY <2>9, <3>2 DEF ClearCredentialsSent, Completes
      <4>2. file = cmd[c].pair /\ encKey = cmd[c].pair.key /\ cmd[c].pair \in Pair
            /\ cmd[c].pair.user \in users
        BY <2>0, <2>9 DEF ClearCredentialsSent
      <4>3. Opens(encKey, file)'
        BY <4>1, <4>2 DEF Opens, Pair, NoPair, NoKey
      <4> QED
        BY <1>0, <4>1, <4>2, <4>3, CommandNext
    <3> QED
      BY <3>1, <3>2
  <2>10. CASE Mismatch(c)
    BY <1>0, <2>0, <2>10, CommandNext DEF Mismatch
  <2>11. CASE Dies(c) \/ CreateUserFails(c) \/ WriteCutShort(c)
    <3>1. broken' = TRUE /\ cmd' = [cmd EXCEPT ![c] = NoCommand]
      BY <2>11 DEF Dies, CreateUserFails, WriteCutShort, Interrupted
    <3> QED
      BY <1>0, <3>1, CommandNext
  <2> QED
    BY <1>1, <2>1, <2>2, <2>3, <2>4, <2>5, <2>6, <2>7, <2>8, <2>9, <2>10, <2>11,
       <2>12, <2>13 DEF Command, Wizard
<1>2. CASE UNCHANGED <<file, encKey, users, cmd, broken>>
  BY <1>0, <1>2 DEF RestInv, AtRest, Progress, AtStep, Opens, Types
<1>3. ~(\E c \in Cli : Command(c)) => UNCHANGED <<file, encKey, users, cmd, broken>>
  <2>1. CASE UNCHANGED vars
    BY <2>1
  <2>2. CASE LoadPendingCredentials \/ ServerLosesVault
    BY <2>2 DEF LoadPendingCredentials, ServerLosesVault
  <2>3. ASSUME NEW h \in Conn, SendHeartbeat(h) \/ ServerReceives(h) \/ ApplyAnswer(h) \/ Lose(h)
        PROVE  UNCHANGED <<file, encKey, users, cmd, broken>>
    BY <2>3 DEF SendHeartbeat, ServerReceives, ApplyAnswer, Lose
  <2> QED
    BY <2>1, <2>2, <2>3 DEF Next
<1> QED
  BY <1>1, <1>2, <1>3

\* Where commands follow one another, the inductive invariant of their steps.
THEOREM RestInvariant == OneCommand => (Spec => []RestInv)
<1> SUFFICES ASSUME OneCommand PROVE Spec => []RestInv
  OBVIOUS
<1>1. Init => RestInv
  <2> SUFFICES ASSUME Init PROVE RestInv
    OBVIOUS
  <2>1. \A c \in Cli : cmd[c].step = "idle" /\ cmd[c].op = "setup"
    BY DEF Init, NoCommand
  <2> QED
    BY <2>1, InitTypes DEF Init, RestInv, Types, AtRest, Progress
<1>2. Types /\ RestInv /\ [Next]_vars => RestInv'
  BY RestStep
<1> QED
  BY <1>1, <1>2, TypesInvariant, PTL DEF Spec

\* Where commands follow one another, one that completes leaves credentials
\* that the node can open, of a user that exists, whichever commands were cut
\* short before at any of their steps.
THEOREM CompletedMeansWhole == OneCommand => (Spec => []AtRest)
<1> SUFFICES ASSUME OneCommand PROVE Spec => []AtRest
  OBVIOUS
<1>1. RestInv => AtRest
  BY DEF RestInv
<1> QED
  BY <1>1, RestInvariant, PTL
=============================================================================
