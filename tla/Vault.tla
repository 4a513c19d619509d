-------------------------------- MODULE Vault --------------------------------
(***************************************************************************)
(* The SSH credentials of a node and their copy in the vault of the        *)
(* management server: internal/sshcreds, reporting/credentials.go, the     *)
(* three commands that replace the credentials (--regenerate-credentials,  *)
(* --setup-auto and --setup-recover, the SSH wizard) and the heartbeats    *)
(* that carry them.                                                        *)
(*                                                                         *)
(* A command works file by file and user by user, without a lock against   *)
(* other commands or against the daemon, and may end at every step.  A     *)
(* heartbeat takes the credentials along as long as the file               *)
(* credentials_sent is missing; the answer to a heartbeat creates or       *)
(* removes that file whenever it arrives.                                  *)
(***************************************************************************)
EXTENDS Naturals, FiniteSets

CONSTANTS
  Cli,               \* room for commands at a time
  Conn,              \* heartbeats under way at a time
  ServerChecksHash,  \* whether the server compares credentials_hash with its vault
  MaxCreations,      \* bound: credentials generated
  MaxInterrupts,     \* bound: commands that die or fail
  MaxLosses,         \* bound: heartbeats and answers that are lost
  MaxVaultLosses     \* bound: times the server loses its vault

ASSUME BoundAssumption ==
  /\ {MaxCreations, MaxInterrupts, MaxLosses, MaxVaultLosses} \subseteq Nat
  /\ ServerChecksHash \in BOOLEAN

\* A user and his password are one number; so is an encryption password.
User == 1 .. MaxCreations
NoKey == 0
Key == User \cup {NoKey}

\* ssh-credentials.enc: the credentials of a user, encrypted with a key.
Pair == [user : User, key : Key \ {NoKey}]
NoPair == [user |-> 0, key |-> NoKey]      \* no file
Torn == [user |-> 0, key |-> MaxCreations + 1]  \* a file that no key opens

Op == {"regenerate", "setup", "wizard"}
Step == {"idle", "delete user", "remove file", "create user", "cleanup",
         "save", "save key", "clear flag"}

VARIABLES
  file,       \* ssh-credentials.enc
  encKey,     \* ssh-enc-key
  sent,       \* whether credentials_sent exists
  users,      \* the lss_* users of the operating system
  made,       \* credentials generated
  cmd,        \* the commands: step, operation, new credentials, user to delete
  building,   \* the heartbeat the daemon puts together
  conn,       \* heartbeats and answers under way
  vault,      \* the server's copy
  broken,     \* history: a command ended early and none has completed since
  saved,      \* history: what ssh-credentials.enc has held
  interrupts, losses, vaultLosses  \* history: counters of the bounds

disk == <<file, encKey, users>>
counters == <<interrupts, losses, vaultLosses>>
vars == <<disk, sent, made, cmd, building, conn, vault, broken, saved, counters>>

NoCommand == [step |-> "idle", op |-> "setup", pair |-> NoPair, old |-> 0]
Quiet == [state |-> "idle", creds |-> NoPair, hash |-> NoPair,
          received |-> FALSE, resend |-> FALSE]

TypeOK ==
  /\ file \in Pair \cup {NoPair, Torn}
  /\ encKey \in Key
  /\ sent \in BOOLEAN
  /\ users \subseteq User
  /\ made \in 0 .. MaxCreations
  /\ cmd \in [Cli -> [step : Step, op : Op, pair : Pair \cup {NoPair}, old : User \cup {0}]]
  /\ building \in [busy : BOOLEAN, creds : Pair \cup {NoPair}]
  /\ conn \in [Conn -> [state : {"idle", "request", "answer"},
                        creds : Pair \cup {NoPair}, hash : Pair \cup {NoPair},
                        received : BOOLEAN, resend : BOOLEAN]]
  /\ vault \in Pair \cup {NoPair}
  /\ broken \in BOOLEAN
  /\ saved \subseteq Pair
  /\ {interrupts, losses, vaultLosses} \subseteq Nat

Init ==
  /\ file = NoPair /\ encKey = NoKey /\ users = {}
  /\ sent = FALSE
  /\ made = 0
  /\ cmd = [c \in Cli |-> NoCommand]
  /\ building = [busy |-> FALSE, creds |-> NoPair]
  /\ conn = [h \in Conn |-> Quiet]
  /\ vault = NoPair
  /\ broken = FALSE
  /\ saved = {}
  /\ interrupts = 0 /\ losses = 0 /\ vaultLosses = 0

\* The encryption authenticates: Load fails unless the key is the file's own.
Opens(key, pair) == pair # NoPair /\ key # NoKey /\ pair.key = key

\* What the daemon can read: LoadEncKey, then Load.
Stored == IF Opens(encKey, file) THEN file ELSE NoPair

-----------------------------------------------------------------------------
(***************************************************************************)
(* The commands.                                                           *)
(***************************************************************************)

GoTo(c, step) == cmd' = [cmd EXCEPT ![c].step = step]

AtStep(c, step) == cmd[c].step = step

\* Generated credentials are new; the operator of the wizard may type an
\* encryption password that was in use before.
Starts(c, op, step, old) ==
  /\ AtStep(c, "idle")
  /\ made < MaxCreations
  /\ made' = made + 1
  /\ \E key \in IF op = "wizard" THEN 1 .. made + 1 ELSE {made + 1} :
       cmd' = [cmd EXCEPT ![c] = [step |-> step, op |-> op, old |-> old,
                                  pair |-> [user |-> made + 1, key |-> key]]]
  /\ UNCHANGED <<disk, sent, building, conn, vault, broken, saved, counters>>

Regenerate(c) == Starts(c, "regenerate", "create user", 0)

\* Credentials that exist are left alone.
Setup(c) == file = NoPair /\ Starts(c, "setup", "create user", 0)

\* Existing credentials are reset only by who can decrypt them.
Wizard(c) ==
  \/ file = NoPair /\ Starts(c, "wizard", "create user", 0)
  \/ file \in Pair /\ Starts(c, "wizard", "delete user", file.user)

\* The wizard goes on when the deletion fails.
DeleteUser(c) ==
  /\ AtStep(c, "delete user")
  /\ users' \in {users, users \ {cmd[c].old}}
  /\ GoTo(c, "remove file")
  /\ UNCHANGED <<file, encKey, sent, made, building, conn, vault, broken, saved, counters>>

Remove(c) ==
  /\ AtStep(c, "remove file")
  /\ file' = NoPair
  /\ GoTo(c, "create user")
  /\ UNCHANGED <<encKey, users, sent, made, building, conn, vault, broken, saved, counters>>

CreateUser(c) ==
  /\ AtStep(c, "create user")
  /\ users' = users \cup {cmd[c].pair.user}
  /\ GoTo(c, IF cmd[c].op = "regenerate" THEN "cleanup" ELSE "save")
  /\ UNCHANGED <<file, encKey, sent, made, building, conn, vault, broken, saved, counters>>

\* The last step of a command.
Completes(c) == cmd' = [cmd EXCEPT ![c] = NoCommand] /\ broken' = FALSE

\* Mutant of CleanupOldUsers: spares no user.
CleanupAllUsers(c) ==
  /\ AtStep(c, "cleanup")
  /\ users' \in SUBSET users
  /\ IF cmd[c].op = "regenerate" THEN GoTo(c, "save") /\ UNCHANGED broken ELSE Completes(c)
  /\ UNCHANGED <<file, encKey, sent, made, building, conn, vault, saved, counters>>

\* A user that cannot be removed stays.
CleanupOldUsers(c) ==
  /\ AtStep(c, "cleanup")
  /\ \E left \in SUBSET users : users' = left \cup (users \cap {cmd[c].pair.user})
  /\ IF cmd[c].op = "regenerate" THEN GoTo(c, "save") /\ UNCHANGED broken ELSE Completes(c)
  /\ UNCHANGED <<file, encKey, sent, made, building, conn, vault, saved, counters>>

Save(c) ==
  /\ AtStep(c, "save")
  /\ file' = cmd[c].pair
  /\ saved' = saved \cup {cmd[c].pair}
  /\ GoTo(c, "save key")
  /\ UNCHANGED <<encKey, users, sent, made, building, conn, vault, broken, counters>>

SaveEncKey(c) ==
  /\ AtStep(c, "save key")
  /\ encKey' = cmd[c].pair.key
  /\ GoTo(c, "clear flag")
  /\ UNCHANGED <<file, users, sent, made, building, conn, vault, broken, saved, counters>>

ClearCredentialsSent(c) ==
  /\ AtStep(c, "clear flag")
  /\ sent' = FALSE
  /\ IF cmd[c].op = "setup" THEN GoTo(c, "cleanup") /\ UNCHANGED broken ELSE Completes(c)
  /\ UNCHANGED <<disk, made, building, conn, vault, saved, counters>>

\* The two passwords typed differ: the wizard leaves, and nothing is stored.
Mismatch(c) ==
  /\ AtStep(c, "save") /\ cmd[c].op = "wizard"
  /\ cmd' = [cmd EXCEPT ![c] = NoCommand]
  /\ UNCHANGED <<disk, sent, made, building, conn, vault, broken, saved, counters>>

Interrupted(c) ==
  /\ interrupts < MaxInterrupts
  /\ interrupts' = interrupts + 1
  /\ broken' = TRUE
  /\ cmd' = [cmd EXCEPT ![c] = NoCommand]

\* The command dies before its next step, or that step fails without effect.
Dies(c) ==
  /\ ~AtStep(c, "idle")
  /\ Interrupted(c)
  /\ UNCHANGED <<disk, sent, made, building, conn, vault, saved, losses, vaultLosses>>

\* The user exists, and setting his password, his group or his sshd_config fails.
CreateUserFails(c) ==
  /\ AtStep(c, "create user")
  /\ users' = users \cup {cmd[c].pair.user}
  /\ Interrupted(c)
  /\ UNCHANGED <<file, encKey, sent, made, building, conn, vault, saved, losses, vaultLosses>>

\* os.WriteFile has truncated the file when it ends.
WriteCutShort(c) ==
  /\ \/ AtStep(c, "save") /\ file' = Torn /\ UNCHANGED encKey
     \/ AtStep(c, "save key") /\ encKey' = NoKey /\ UNCHANGED file
  /\ Interrupted(c)
  /\ UNCHANGED <<users, sent, made, building, conn, vault, saved, losses, vaultLosses>>

-----------------------------------------------------------------------------
(***************************************************************************)
(* Heartbeats.                                                             *)
(***************************************************************************)

\* Mutant of LoadPendingCredentials: takes the two files as they are.
LoadPendingUnchecked ==
  /\ ~building.busy
  /\ building' = [busy |-> TRUE,
                  creds |-> IF sent \/ encKey = NoKey \/ file \notin Pair THEN NoPair
                            ELSE [user |-> file.user, key |-> encKey]]
  /\ UNCHANGED <<disk, sent, made, cmd, conn, vault, broken, saved, counters>>

LoadPendingCredentials ==
  /\ ~building.busy
  /\ building' = [busy |-> TRUE, creds |-> IF sent THEN NoPair ELSE Stored]
  /\ UNCHANGED <<disk, sent, made, cmd, conn, vault, broken, saved, counters>>

\* Mutant of SendHeartbeat: the hash goes along with credentials only.
SendHashOnce(h) ==
  /\ building.busy
  /\ conn[h].state = "idle"
  /\ conn' = [conn EXCEPT ![h] = [Quiet EXCEPT !.state = "request",
                                               !.creds = building.creds,
                                               !.hash = building.creds]]
  /\ building' = [busy |-> FALSE, creds |-> NoPair]
  /\ UNCHANGED <<disk, sent, made, cmd, vault, broken, saved, counters>>

\* ComputeCredentialsHash reads the files a second time.
SendHeartbeat(h) ==
  /\ building.busy
  /\ conn[h].state = "idle"
  /\ conn' = [conn EXCEPT ![h] = [Quiet EXCEPT !.state = "request",
                                               !.creds = building.creds,
                                               !.hash = Stored]]
  /\ building' = [busy |-> FALSE, creds |-> NoPair]
  /\ UNCHANGED <<disk, sent, made, cmd, vault, broken, saved, counters>>

\* Credentials are kept and confirmed; they are asked for when the vault has
\* none or, for a server that checks, when the hash is not that of the vault.
ServerReceives(h) ==
  /\ conn[h].state = "request"
  /\ vault' = IF conn[h].creds # NoPair THEN conn[h].creds ELSE vault
  /\ conn' = [conn EXCEPT ![h] =
       [Quiet EXCEPT !.state = "answer",
                     !.received = conn[h].creds # NoPair,
                     !.resend = \/ vault' = NoPair
                                \/ ServerChecksHash /\ conn[h].hash \notin {NoPair, vault'}]]
  /\ UNCHANGED <<disk, sent, made, cmd, building, broken, saved, counters>>

ServerLosesVault ==
  /\ vaultLosses < MaxVaultLosses
  /\ vaultLosses' = vaultLosses + 1
  /\ vault' = NoPair
  /\ UNCHANGED <<disk, sent, made, cmd, building, conn, broken, saved, interrupts, losses>>

\* MarkCredentialsSent, then ClearCredentialsSent.
ApplyAnswer(h) ==
  /\ conn[h].state = "answer"
  /\ sent' = IF conn[h].resend THEN FALSE ELSE conn[h].received \/ sent
  /\ conn' = [conn EXCEPT ![h] = Quiet]
  /\ UNCHANGED <<disk, made, cmd, building, vault, broken, saved, counters>>

\* The network, the timeout, an answer that is not 2xx, or the daemon's end.
Lose(h) ==
  /\ conn[h].state # "idle"
  /\ losses < MaxLosses
  /\ losses' = losses + 1
  /\ conn' = [conn EXCEPT ![h] = Quiet]
  /\ UNCHANGED <<disk, sent, made, cmd, building, vault, broken, saved, interrupts, vaultLosses>>

Command(c) ==
  \/ Regenerate(c) \/ Setup(c) \/ Wizard(c)
  \/ DeleteUser(c) \/ Remove(c) \/ CreateUser(c) \/ CleanupOldUsers(c)
  \/ Save(c) \/ SaveEncKey(c) \/ ClearCredentialsSent(c)
  \/ Mismatch(c) \/ Dies(c) \/ CreateUserFails(c) \/ WriteCutShort(c)

Next ==
  \/ \E c \in Cli : Command(c)
  \/ LoadPendingCredentials
  \/ \E h \in Conn : SendHeartbeat(h) \/ ServerReceives(h) \/ ApplyAnswer(h) \/ Lose(h)
  \/ ServerLosesVault

Spec == Init /\ [][Next]_vars

\* The daemon keeps sending heartbeats, and a heartbeat that is not lost gets
\* its answer.  Nothing is assumed of the commands.
Fairness ==
  /\ WF_vars(LoadPendingCredentials)
  /\ WF_vars(\E h \in Conn : SendHeartbeat(h))
  /\ \A h \in Conn : WF_vars(ServerReceives(h)) /\ WF_vars(ApplyAnswer(h))

FairSpec == Spec /\ Fairness

-----------------------------------------------------------------------------
(***************************************************************************)
(* Properties.                                                             *)
(***************************************************************************)

\* Between two commands the node can open its own credentials and their user
\* exists, whatever commands were cut short before the last one that completed
\* (regen_creds.go, setup_auto.go: users, file and key are replaced together).
AtRest ==
  ~broken /\ (\A c \in Cli : AtStep(c, "idle")) /\ file # NoPair =>
    Opens(encKey, file) /\ file.user \in users

\* The vault never holds a user with a key that did not encrypt his credentials,
\* although the heartbeat reads the two files while a command replaces them
\* (LoadPendingCredentials returns nil when Load fails).
VaultHeldTogether == vault \in saved \cup {NoPair}

\* Credentials that the node has stored and does not change any more reach the
\* vault and stay there, whichever command died, and whatever answers to
\* heartbeats with earlier credentials arrive late ("until the server responds
\* with credentials_received", "server lost vault entries - resend").
VaultCatchesUp == <>[](Stored # NoPair => vault = Stored)

-----------------------------------------------------------------------------
(***************************************************************************)
(* The inductive invariant behind AtRest, for one command at a time.       *)
(***************************************************************************)

\* What a command has established when it is about to take a step.
Progress(k) ==
  /\ k.step # "idle" => k.pair \in Pair
  /\ k.op = "wizard" /\ k.step \in {"create user", "save"} => file = NoPair
  /\ k.step \in {"save", "save key", "clear flag", "cleanup"} => k.pair.user \in users
  /\ \/ k.step \in {"save key", "clear flag"}
     \/ k.step = "cleanup" /\ k.op # "regenerate"
     => file = k.pair
  /\ \/ k.step = "clear flag"
     \/ k.step = "cleanup" /\ k.op # "regenerate"
     => encKey = k.pair.key

RestInv ==
  /\ TypeOK
  /\ AtRest
  /\ \A c \in Cli : Progress(cmd[c])
=============================================================================
