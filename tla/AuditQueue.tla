----------------------------- MODULE AuditQueue -----------------------------
(***************************************************************************)
(* The audit log of a node (internal/audit) and its way to the management  *)
(* server (the audit part of internal/reporting).                          *)
(*                                                                         *)
(* Several processes - the daemon and any number of CLI invocations -      *)
(* append to one audit.jsonl.  The flock on audit.lock makes Append and    *)
(* AckUpTo exclusive, but Append is a sequence of file operations between  *)
(* which a process can die or a write can fail; ReadBatch takes no file    *)
(* lock at all.  Heartbeats carry the unacknowledged events to the server  *)
(* and may be lost or answered out of order.                               *)
(*                                                                         *)
(* An event's content (timestamp, message, details, HMAC) is abstracted to *)
(* a number `id' that is different for every call of Append; `prev' is the *)
(* id of the event its HMAC was chained to.                                *)
(***************************************************************************)
EXTENDS Naturals, Sequences, FiniteSets

CONSTANTS
  Proc,          \* processes of the node that use the queue
  NoProc,        \* the lock's holder when nobody holds it
  LogMaxLines,   \* logMaxLines (100,000 in the code)
  LogTrimTo,     \* logTrimTo (80,000 in the code)
  BatchCap,      \* AuditEventsPerHeartbeatCap (200 in the code)
  VerifyChain,   \* whether the server checks the HMAC chain (v2.5 protocol)
  InitKey,       \* the PSK at the start: 0 when no console is configured
  MaxKey,        \* bound: PSK values 1..MaxKey
  MaxEmits,      \* bound: calls of Append
  MaxInFlight,   \* bound: heartbeats and answers on the wire
  Budget         \* bound: number of faults of each kind

FaultKind == {"crash", "io", "short", "cut"}

ASSUME ProcAssumption == NoProc \notin Proc
ASSUME TrimAssumption ==
  /\ LogMaxLines \in Nat
  /\ LogTrimTo \in 1..LogMaxLines
ASSUME BatchAssumption == BatchCap \in Nat \ {0}
ASSUME KeyAssumption == MaxKey \in Nat /\ InitKey \in 0..MaxKey
ASSUME BoundAssumption ==
  /\ VerifyChain \in BOOLEAN
  /\ MaxEmits \in Nat
  /\ MaxInFlight \in Nat
  /\ Budget \in [FaultKind -> Nat]

VARIABLES
  \* files of the state directory
  log,         \* audit.jsonl: its lines
  torn,        \* the last line of audit.jsonl has no newline yet
  seqFile,     \* audit_seq
  ackedFile,   \* audit_acked_seq
  chainHead,   \* audit_chain_head: the id of an event, 0 when absent
  confKey,     \* the PSK in config.toml, 0 when reporting is not enabled
  \* processes
  lock,        \* holder of the flock on audit.lock
  pc,          \* where each process is in Append
  cur,         \* the event each process is appending
  psk,         \* Queue.psk, read when the process started
  \* network and server
  hbs,         \* heartbeats being built or on their way
  acks,        \* audit_ack_seq values on their way back
  srv,         \* events the server holds
  \* history
  emitted,     \* number of calls of Append that got the lock
  written,     \* events that have been a complete line of audit.jsonl
  committed,   \* events whose Append returned without an error
  faults       \* faults so far, by kind

disk == <<log, torn, seqFile, ackedFile, chainHead, confKey>>
procs == <<lock, pc, cur, psk>>
net == <<hbs, acks, srv>>
history == <<emitted, written, committed, faults>>
vars == <<disk, procs, net, history>>

Event == [seq : Nat, id : Nat, prev : Nat, key : Nat]

\* A line json.Unmarshal rejects; ReadBatch skips it.
Damaged == [seq |-> 0, id |-> 0, prev |-> 0, key |-> 0]

Readable(l) == l.seq > 0

Heartbeat == [phase : {"read", "sent"}, acked : Nat, batch : SUBSET Event]

Stage == {"idle", "write", "commit", "head", "trim"}

TypeOK ==
  /\ log \in Seq(Event)
  /\ torn \in BOOLEAN
  /\ seqFile \in Nat
  /\ ackedFile \in Nat
  /\ chainHead \in Nat
  /\ confKey \in Nat
  /\ lock \in Proc \cup {NoProc}
  /\ pc \in [Proc -> Stage]
  /\ cur \in [Proc -> Event]
  /\ psk \in [Proc -> Nat]
  /\ hbs \subseteq Heartbeat
  /\ acks \subseteq Nat
  /\ srv \subseteq Event
  /\ emitted \in Nat
  /\ written \subseteq Event
  /\ committed \subseteq Event
  /\ faults \in [FaultKind -> Nat]

Init ==
  /\ log = <<>>
  /\ torn = FALSE
  /\ seqFile = 0
  /\ ackedFile = 0
  /\ chainHead = 0
  /\ confKey = InitKey
  /\ lock = NoProc
  /\ pc = [p \in Proc |-> "idle"]
  /\ cur = [p \in Proc |-> Damaged]
  /\ psk = [p \in Proc |-> InitKey]
  /\ hbs = {}
  /\ acks = {}
  /\ srv = {}
  /\ emitted = 0
  /\ written = {}
  /\ committed = {}
  /\ faults = [k \in FaultKind |-> 0]

Fault(k) ==
  /\ faults[k] < Budget[k]
  /\ faults' = [faults EXCEPT ![k] = @ + 1]

GoTo(p, stage) == pc' = [pc EXCEPT ![p] = stage]

\* The deferred releaseLock and the return of Append.
Release(p) ==
  /\ lock' = NoProc
  /\ GoTo(p, "idle")

-----------------------------------------------------------------------------
(***************************************************************************)
(* Append, one action per file operation.                                  *)
(***************************************************************************)

\* The event Append builds from the counter and the chain head it read.
\* Without a PSK the event carries no HMAC.
NewEvent(p) ==
  [seq  |-> seqFile + 1,
   id   |-> emitted + 1,
   prev |-> IF psk[p] = 0 THEN 0 ELSE chainHead,
   key  |-> psk[p]]

\* Mutant of BeginAppend: without the flock.
BeginAppendUnlocked(p) ==
  /\ pc[p] = "idle"
  /\ emitted < MaxEmits
  /\ lock' = p
  /\ GoTo(p, "write")
  /\ cur' = [cur EXCEPT ![p] = NewEvent(p)]
  /\ emitted' = emitted + 1
  /\ UNCHANGED <<disk, psk, net, written, committed, faults>>

\* Mutant of BeginAppend: the flow before nextSeqLocked was retired, which
\* moves the counter before the event is written.
BeginAppendOldFlow(p) ==
  /\ pc[p] = "idle"
  /\ lock = NoProc
  /\ emitted < MaxEmits
  /\ lock' = p
  /\ GoTo(p, "write")
  /\ cur' = [cur EXCEPT ![p] = NewEvent(p)]
  /\ seqFile' = seqFile + 1
  /\ emitted' = emitted + 1
  /\ UNCHANGED <<log, torn, ackedFile, chainHead, confKey, psk, net, written,
                 committed, faults>>

BeginAppend(p) ==
  /\ pc[p] = "idle"
  /\ lock = NoProc
  /\ emitted < MaxEmits
  /\ lock' = p
  /\ GoTo(p, "write")
  /\ cur' = [cur EXCEPT ![p] = NewEvent(p)]
  /\ emitted' = emitted + 1
  /\ UNCHANGED <<disk, psk, net, written, committed, faults>>

\* O_APPEND continues an unfinished last line: the two together are one
\* line that no longer parses.
AfterWrite(line) ==
  IF torn THEN [log EXCEPT ![Len(log)] = Damaged] ELSE Append(log, line)

WriteLine(p) ==
  /\ pc[p] = "write"
  /\ log' = AfterWrite(cur[p])
  /\ torn' = FALSE
  /\ written' = IF torn THEN written ELSE written \cup {cur[p]}
  /\ GoTo(p, "commit")
  /\ UNCHANGED <<seqFile, ackedFile, chainHead, confKey, lock, cur, psk, net,
                 emitted, committed, faults>>

\* The write stops part of the way (disk full): Append returns the error and
\* the bytes stay.  What is there may even be the whole JSON object, lacking
\* only its newline.
ShortWrite(p) ==
  /\ pc[p] = "write"
  /\ Fault("short")
  /\ \E line \in {Damaged, cur[p]} :
       /\ log' = AfterWrite(line)
       /\ written' = IF ~torn /\ Readable(line) THEN written \cup {line}
                                                ELSE written
  /\ torn' = TRUE
  /\ Release(p)
  /\ UNCHANGED <<seqFile, ackedFile, chainHead, confKey, cur, psk, net,
                 emitted, committed>>

\* Opening or writing audit.jsonl fails cleanly, or (after the write) Sync
\* or the write of audit_seq fails: Append returns the error.
AbortAppend(p) ==
  /\ pc[p] \in {"write", "commit"}
  /\ Fault("io")
  /\ Release(p)
  /\ UNCHANGED <<disk, cur, psk, net, emitted, written, committed>>

CommitSeq(p) ==
  /\ pc[p] = "commit"
  /\ seqFile' = cur[p].seq
  /\ GoTo(p, IF cur[p].key = 0 THEN "trim" ELSE "head")
  /\ UNCHANGED <<log, torn, ackedFile, chainHead, confKey, lock, cur, psk,
                 net, history>>

\* Mutant of CommitChainHead: the head is not saved.
CommitChainHeadForgotten(p) ==
  /\ pc[p] = "head"
  /\ GoTo(p, "trim")
  /\ UNCHANGED <<disk, lock, cur, psk, net, history>>

CommitChainHead(p) ==
  /\ pc[p] = "head"
  /\ chainHead' = cur[p].id
  /\ GoTo(p, "trim")
  /\ UNCHANGED <<log, torn, seqFile, ackedFile, confKey, lock, cur, psk, net,
                 history>>

\* writeChainHead ignores its error.
LoseChainHead(p) ==
  /\ pc[p] = "head"
  /\ Fault("io")
  /\ GoTo(p, "trim")
  /\ UNCHANGED <<disk, lock, cur, psk, net, emitted, written, committed>>

\* Mutant of Kept: the oldest lines instead of the newest.
KeptOldest ==
  IF Len(log) <= LogMaxLines THEN log ELSE SubSeq(log, 1, LogTrimTo)

\* The lines trimLocked copies: all of them up to the cap, else the last
\* LogTrimTo.
Kept ==
  IF Len(log) <= LogMaxLines
  THEN log
  ELSE SubSeq(log, Len(log) - LogTrimTo + 1, Len(log))

FinishAppend(p) ==
  /\ pc[p] = "trim"
  /\ log' = Kept
  /\ committed' = committed \cup {cur[p]}
  /\ Release(p)
  /\ UNCHANGED <<torn, seqFile, ackedFile, chainHead, confKey, cur, psk, net,
                 emitted, written, faults>>

\* trimLocked gives up (open, create, Sync or rename fails) and keeps the log.
TrimFails(p) ==
  /\ pc[p] = "trim"
  /\ Len(log) > LogMaxLines
  /\ Fault("io")
  /\ committed' = committed \cup {cur[p]}
  /\ Release(p)
  /\ UNCHANGED <<disk, cur, psk, net, emitted, written>>

\* trimLocked ignores the errors of its writes: when the disk fills up it
\* syncs what fitted into the temporary file and renames that over the log.
TrimCutShort(p) ==
  /\ pc[p] = "trim"
  /\ Len(log) > LogMaxLines
  /\ Fault("cut")
  /\ \E n \in 0..(LogTrimTo - 1) :
       \/ log' = SubSeq(Kept, 1, n) /\ torn' = FALSE
       \/ log' = Append(SubSeq(Kept, 1, n), Damaged) /\ torn' = TRUE
  /\ committed' = committed \cup {cur[p]}
  /\ Release(p)
  /\ UNCHANGED <<seqFile, ackedFile, chainHead, confKey, cur, psk, net,
                 emitted, written>>

-----------------------------------------------------------------------------
(***************************************************************************)
(* Processes start, die and are reconfigured.                              *)
(***************************************************************************)

\* A process dies inside Append; the kernel drops its flock.  Its successor
\* reads the PSK of the day.
Crash(p) ==
  /\ pc[p] # "idle"
  /\ Fault("crash")
  /\ Release(p)
  /\ psk' = [psk EXCEPT ![p] = confKey]
  /\ UNCHANGED <<disk, cur, net, emitted, written, committed>>

\* audit.Init of a new process.
Restart(p) ==
  /\ pc[p] = "idle"
  /\ psk[p] # confKey
  /\ psk' = [psk EXCEPT ![p] = confKey]
  /\ UNCHANGED <<disk, lock, pc, cur, net, history>>

\* The management console wizard saves another PSK; running processes keep
\* the one they read, and audit_chain_head stays as it is.
ConfigureConsole ==
  /\ confKey < MaxKey
  /\ confKey' = confKey + 1
  /\ UNCHANGED <<log, torn, seqFile, ackedFile, chainHead, procs, net, history>>

-----------------------------------------------------------------------------
(***************************************************************************)
(* Heartbeats.  ReadBatch reads audit_acked_seq, then audit.jsonl, without *)
(* the file lock.                                                          *)
(***************************************************************************)

Lines == {log[i] : i \in 1..Len(log)}

Pending(acked) == {l \in Lines : l.seq > acked}

\* Mutant of IsBatch: the newest events first.
IsNewestBatch(B, acked) ==
  /\ B \subseteq Pending(acked)
  /\ \A e \in B, f \in Pending(acked) \ B : e.seq >= f.seq
  /\ \/ B = Pending(acked)
     \/ Cardinality(B) = BatchCap
  /\ Cardinality(B) <= BatchCap

\* The first BatchCap events in the order of their seq; sort.Slice may leave
\* events of equal seq in either order.
IsBatch(B, acked) ==
  /\ B \subseteq Pending(acked)
  /\ \A e \in B, f \in Pending(acked) \ B : e.seq <= f.seq
  /\ \/ B = Pending(acked)
     \/ Cardinality(B) = BatchCap
  /\ Cardinality(B) <= BatchCap

BeginReport ==
  /\ Cardinality(hbs) + Cardinality(acks) < MaxInFlight
  /\ hbs' = hbs \cup {[phase |-> "read", acked |-> ackedFile, batch |-> {}]}
  /\ UNCHANGED <<disk, procs, acks, srv, history>>

ReadBatch(h) ==
  /\ h.phase = "read"
  /\ \E B \in SUBSET Pending(h.acked) :
       /\ IsBatch(B, h.acked)
       /\ hbs' = (hbs \ {h}) \cup {[phase |-> "sent", acked |-> h.acked, batch |-> B]}
  /\ UNCHANGED <<disk, procs, acks, srv, history>>

\* A heartbeat or its answer is lost, times out, or is not a 2xx.
LoseHeartbeat(h) ==
  /\ hbs' = hbs \ {h}
  /\ UNCHANGED <<disk, procs, acks, srv, history>>

LoseAck(n) ==
  /\ acks' = acks \ {n}
  /\ UNCHANGED <<disk, procs, hbs, srv, history>>

\* Mutant of AckUpTo: reads the answer as the next number it may send.
AckUpToInclusive(n) ==
  /\ lock = NoProc
  /\ ackedFile' = IF n + 1 > ackedFile THEN n + 1 ELSE ackedFile
  /\ acks' = acks \ {n}
  /\ UNCHANGED <<log, torn, seqFile, chainHead, confKey, procs, hbs, srv, history>>

\* Mutant of AckUpTo: without the comparison with the current mark.
AckUpToUnguarded(n) ==
  /\ lock = NoProc
  /\ ackedFile' = n
  /\ acks' = acks \ {n}
  /\ UNCHANGED <<log, torn, seqFile, chainHead, confKey, procs, hbs, srv, history>>

\* AckUpTo, under the file lock.
AckUpTo(n) ==
  /\ lock = NoProc
  /\ ackedFile' = IF n > ackedFile THEN n ELSE ackedFile
  /\ acks' = acks \ {n}
  /\ UNCHANGED <<log, torn, seqFile, chainHead, confKey, procs, hbs, srv, history>>

-----------------------------------------------------------------------------
(***************************************************************************)
(* The management server (external), as the comments of internal/audit and *)
(* internal/reporting describe it: UNIQUE(node, seq) keeps the first event *)
(* it gets under a number; the acknowledgement is the end of the run of    *)
(* numbers it holds from 1 on, and stops at a break of the HMAC chain.     *)
(***************************************************************************)

\* The event before e that carries an HMAC is the one e is chained to.
ChainOK(S, e) ==
  \/ e.key = 0
  \/ LET before == {f \in S : f.seq < e.seq /\ f.key # 0}
     IN  IF before = {}
         THEN e.prev = 0
         ELSE \E f \in before : f.id = e.prev /\ \A g \in before : g.seq <= f.seq

Held(S, n) == \E e \in S : e.seq = n /\ (VerifyChain => ChainOK(S, e))

IsAckPoint(S, n) ==
  /\ \A m \in 1..n : Held(S, m)
  /\ ~Held(S, n + 1)

\* What UNIQUE keeps when batch B arrives at a server that holds S.
Stores(S, B, T) ==
  /\ T \subseteq B
  /\ \A e \in T : \A f \in S \cup (T \ {e}) : f.seq # e.seq
  /\ \A e \in B : \E f \in S \cup T : f.seq = e.seq

ServerReceive(h) ==
  /\ h.phase = "sent"
  /\ \E T \in SUBSET h.batch :
       /\ Stores(srv, h.batch, T)
       /\ srv' = srv \cup T
  /\ \E n \in 0..emitted : IsAckPoint(srv', n) /\ acks' = acks \cup {n}
  /\ hbs' = hbs \ {h}
  /\ UNCHANGED <<disk, procs, history>>

-----------------------------------------------------------------------------
AppendStep(p) ==
  \/ BeginAppend(p)
  \/ WriteLine(p)
  \/ CommitSeq(p)
  \/ CommitChainHead(p)
  \/ FinishAppend(p)

FaultStep(p) ==
  \/ ShortWrite(p)
  \/ AbortAppend(p)
  \/ LoseChainHead(p)
  \/ TrimFails(p)
  \/ TrimCutShort(p)
  \/ Crash(p)

Next ==
  \/ \E p \in Proc : AppendStep(p) \/ FaultStep(p) \/ Restart(p)
  \/ ConfigureConsole
  \/ BeginReport
  \/ \E h \in hbs : ReadBatch(h) \/ LoseHeartbeat(h) \/ ServerReceive(h)
  \/ \E n \in acks : LoseAck(n) \/ AckUpTo(n)

Spec == Init /\ [][Next]_vars

\* The daemon's ticker keeps sending heartbeats and answers get through now
\* and then; an Append that holds the lock runs on.  Nobody has to call
\* Append, fail, restart or lose a message.
Fairness ==
  /\ \A p \in Proc :
       WF_vars(WriteLine(p) \/ CommitSeq(p) \/ CommitChainHead(p) \/ FinishAppend(p))
  /\ SF_vars(BeginReport)
  /\ SF_vars(\E h \in hbs : ReadBatch(h))
  /\ SF_vars(\E h \in hbs : ServerReceive(h))
  /\ SF_vars(\E n \in acks : AckUpTo(n))

FairSpec == Spec /\ Fairness

-----------------------------------------------------------------------------
(***************************************************************************)
(* Properties.                                                             *)
(***************************************************************************)

\* The sequence numbers below the counter for which an event line exists or
\* existed, plus the one whose line was written before the counter moved.
Issued ==
  IF \E e \in written : e.seq = seqFile + 1 THEN seqFile + 1 ELSE seqFile

Delivery == INSTANCE AuditDelivery
              WITH issued <- Issued,
                   stored <- {e.seq : e \in srv},
                   acked  <- ackedFile

\* The files, the lock and the messages implement the abstract promise:
\* numbers are issued one by one, the server only holds issued numbers, and
\* the mark moves forward only, to an end of the server's gapless run
\* (Append, AckUpTo and doSend, whatever fails, crashes or is reordered).
DeliverySpec == Delivery!Spec

\* The numbers of these lines never decrease, a number is skipped only across
\* a damaged line, and the last one is the counter or the number after it.
Gapless(lines, counter) ==
  /\ \A i, j \in 1..Len(lines) :
       i < j /\ Readable(lines[i]) /\ Readable(lines[j]) => lines[i].seq <= lines[j].seq
  /\ \A i \in 1..(Len(lines) - 1) :
       Readable(lines[i]) /\ Readable(lines[i + 1]) => lines[i + 1].seq <= lines[i].seq + 1
  /\ Len(lines) > 0 /\ Readable(lines[Len(lines)]) =>
       lines[Len(lines)].seq \in {counter, counter + 1}

\* While no trim was cut short, audit.jsonl has no gap but at a damaged line:
\* Append commits the counter after the line, so that a number is not used up
\* by an event whose write failed, whatever crashes in between.
NoSilentGap == faults["cut"] = 0 => Gapless(log, seqFile)

\* Every number up to the acknowledged mark is held by the server, so that
\* ReadBatch hides no number the server still lacks (migrateLegacy's "orphan
\* gap": acked past a seq the server doesn't have).
AckedIsHeld == \A n \in 1..ackedFile : \E e \in srv : e.seq = n

\* An event whose Append succeeded is a line of audit.jsonl until a trim makes
\* room for LogTrimTo lines that are not older (Append: "durably persisted").
AppendIsDurable ==
  \A e \in committed :
    \/ e \in Lines
    \/ /\ Len(log) >= LogTrimTo
       /\ \A l \in Lines : Readable(l) => l.seq >= e.seq

\* An event whose Append succeeded leaves audit.jsonl only once the server's
\* acknowledgement covers it (BuildNodeStatus on the queue's events).
RemovedOnlyAfterAck == \A e \in committed : e \in Lines \/ e.seq <= ackedFile

\* A step that shortens audit.jsonl keeps its last LogTrimTo lines
\* (maybeTrimLocked: "keeping the last logTrimTo lines").
TrimKeepsNewest ==
  [][Len(log') < Len(log) =>
       log' = SubSeq(log, Len(log) - LogTrimTo + 1, Len(log))]_log

\* No two events are ever written under one sequence number (Event.Seq).
SeqNeverReused == \A e, f \in written : e.seq = f.seq => e = f

\* An acknowledged number means that this event, not merely its number, is on
\* the server: the history of the node survives (Append, AckUpTo).
AckedMeansDelivered == \A e \in committed : e.seq <= ackedFile => e \in srv

\* Neighbouring lines with an HMAC are neighbours in the chain
\* (computeEventHMAC, writeChainHead).
ChainLinked ==
  \A i \in 1..(Len(log) - 1) :
    log[i].key # 0 /\ log[i + 1].key # 0 => log[i + 1].prev = log[i].id

\* The first event under another PSK starts a new chain (computeEventHMAC's
\* prevHMAC).
ChainRestartsOnRotation ==
  \A i \in 1..(Len(log) - 1) :
    log[i].key # 0 /\ log[i + 1].key \notin {0, log[i].key} => log[i + 1].prev = 0

\* Every event whose Append succeeded is eventually on the server and behind
\* the acknowledged mark, for good, however many heartbeats it takes.
EventuallyShipped ==
  <>[](\A e \in committed : e \in srv /\ e.seq <= ackedFile)

-----------------------------------------------------------------------------
(***************************************************************************)
(* The inductive invariant behind NoSilentGap, AckedIsHeld and             *)
(* DeliverySpec.                                                           *)
(***************************************************************************)

\* Exactly the holder of the flock is inside Append.
LockInv == \A p \in Proc : pc[p] # "idle" <=> lock = p

\* The event being appended against the counter and the end of the log.
AppendInv ==
  \A p \in Proc :
    /\ pc[p] \in {"write", "commit"} => cur[p].seq = seqFile + 1
    /\ pc[p] \in {"head", "trim"} => cur[p].seq = seqFile /\ seqFile > 0
    /\ pc[p] \in {"commit", "head", "trim"} =>
         /\ ~torn
         /\ Len(log) > 0
         /\ log[Len(log)] \in {cur[p], Damaged}

\* Everything on its way to the server, or there, was once a line of the log,
\* under a number at most one ahead of the counter.
WrittenInv ==
  /\ torn => Len(log) > 0
  /\ \A i \in 1..Len(log) : log[i] \in written \cup {Damaged}
  /\ \A e \in written : e.seq \in 1..(seqFile + 1)
  /\ \A h \in hbs : h.batch \subseteq written
  /\ srv \subseteq written

\* An acknowledgement on its way back is covered by what the server holds.
WireInv == \A n \in acks : \A m \in 1..n : \E e \in srv : e.seq = m

\* What every step of the queue, the network and the server preserves.
IInv ==
  /\ TypeOK
  /\ LockInv
  /\ AppendInv
  /\ WrittenInv
  /\ WireInv
  /\ NoSilentGap
  /\ AckedIsHeld

-----------------------------------------------------------------------------
(***************************************************************************)
(* What AckedMeansDelivered and ChainLinked rest on while nothing fails.   *)
(***************************************************************************)

\* No Append dies or returns an error: its trim may still be cut short.
AppendsSucceed == Budget["crash"] = 0 /\ Budget["io"] = 0 /\ Budget["short"] = 0

\* Nothing fails at all.
FaultFree == AppendsSucceed /\ Budget["cut"] = 0

\* Every event that became a line or whose Append succeeded has a number of
\* its own; only the one whose line was just written is ahead of the counter.
NumberInv ==
  /\ \A e, f \in written \cup committed : e.seq = f.seq => e = f
  /\ \A e \in written \cup committed :
       e.seq <= seqFile \/ \E p \in Proc : pc[p] = "commit" /\ e = cur[p]
  /\ \A e \in committed : e.seq > 0
  /\ \A p \in Proc : \A e \in written \cup committed :
       pc[p] \in {"head", "trim"} /\ e.seq = cur[p].seq => e = cur[p]

\* The saved head is the last line, once its Append has saved it, and what
\* the event about to be written is chained to.
HeadInv ==
  /\ ~torn
  /\ \A i \in 1..Len(log) : log[i] # Damaged
  /\ (\A p \in Proc : pc[p] \notin {"commit", "head"}) =>
       (Len(log) > 0 /\ log[Len(log)].key # 0 => chainHead = log[Len(log)].id)
  /\ \A p \in Proc : pc[p] = "write" /\ cur[p].key # 0 => cur[p].prev = chainHead
=============================================================================
