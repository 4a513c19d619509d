-------------------------- MODULE AuditQueueProofs --------------------------
(***************************************************************************)
(* For any number of processes, any log size and any number of faults: the *)
(* audit log has no silent gap, an acknowledged number is held by the      *)
(* server, and AuditQueue implements AuditDelivery.  While no Append dies  *)
(* or fails an acknowledged number means its event, and while nothing      *)
(* fails the lines of the log are a chain.                                 *)
(***************************************************************************)
EXTENDS AuditQueue, TLAPS

USE DEF FaultKind, Stage, disk, procs, net, history, vars

(***************************************************************************)
(* Types.                                                                  *)
(***************************************************************************)

\* The line that does not parse is typed like an event.
LEMMA DamagedType == Damaged \in Event /\ Damaged.seq = 0
  BY DEF Damaged, Event

\* An event built from a counter, a chain head and a key is an event.
LEMMA NewEventType ==
  ASSUME TypeOK, NEW p \in Proc
  PROVE  NewEvent(p) \in Event /\ NewEvent(p).seq = seqFile + 1
  BY DEF TypeOK, NewEvent, Event

\* O_APPEND leaves a sequence of lines.
LEMMA AfterWriteType ==
  ASSUME TypeOK, NEW l \in Event, torn => Len(log) > 0
  PROVE  AfterWrite(l) \in Seq(Event)
  BY DamagedType DEF TypeOK, AfterWrite

\* A suffix is what a trim keeps.
LEMMA KeptType ==
  ASSUME TypeOK
  PROVE  Kept \in Seq(Event)
  BY TrimAssumption DEF TypeOK, Kept

\* Every step preserves the types (given that only a non-empty log is torn).
LEMMA TypeStep ==
  ASSUME TypeOK, torn => Len(log) > 0, [Next]_vars
  PROVE  TypeOK'
<1> USE DEF TypeOK
<1>1. ASSUME NEW p \in Proc, BeginAppend(p) PROVE TypeOK'
  <2>1. NewEvent(p) \in Event
    BY NewEventType
  <2> QED
    BY <1>1, <2>1 DEF BeginAppend, GoTo
<1>2. ASSUME NEW p \in Proc, WriteLine(p) PROVE TypeOK'
  <2>1. AfterWrite(cur[p]) \in Seq(Event)
    BY AfterWriteType
  <2> QED
    BY <1>2, <2>1 DEF WriteLine, GoTo
<1>3. ASSUME NEW p \in Proc, CommitSeq(p) PROVE TypeOK'
  BY <1>3 DEF CommitSeq, GoTo, Event
<1>4. ASSUME NEW p \in Proc, CommitChainHead(p) PROVE TypeOK'
  BY <1>4 DEF CommitChainHead, GoTo, Event
<1>5. ASSUME NEW p \in Proc, FinishAppend(p) PROVE TypeOK'
  BY <1>5, KeptType DEF FinishAppend, Release, GoTo
<1>6. ASSUME NEW p \in Proc, ShortWrite(p) PROVE TypeOK'
  <2>1. \A l \in {Damaged, cur[p]} : l \in Event /\ AfterWrite(l) \in Seq(Event)
    BY DamagedType, AfterWriteType
  <2> QED
    BY <1>6, <2>1 DEF ShortWrite, Release, GoTo, Fault
<1>7. ASSUME NEW p \in Proc, AbortAppend(p) PROVE TypeOK'
  BY <1>7 DEF AbortAppend, Release, GoTo, Fault
<1>8. ASSUME NEW p \in Proc, LoseChainHead(p) PROVE TypeOK'
  BY <1>8 DEF LoseChainHead, GoTo, Fault
<1>9. ASSUME NEW p \in Proc, TrimFails(p) PROVE TypeOK'
  BY <1>9 DEF TrimFails, Release, GoTo, Fault
<1>10. ASSUME NEW p \in Proc, TrimCutShort(p) PROVE TypeOK'
  <2>1. PICK n \in 0..(LogTrimTo - 1) :
          \/ log' = SubSeq(Kept, 1, n) /\ torn' = FALSE
          \/ log' = Append(SubSeq(Kept, 1, n), Damaged) /\ torn' = TRUE
    BY <1>10 DEF TrimCutShort
  <2>2. n <= Len(Kept)
    BY <1>10, TrimAssumption DEF TrimCutShort, Kept
  <2>3. SubSeq(Kept, 1, n) \in Seq(Event)
    BY <2>2, KeptType, TrimAssumption
  <2>4. Append(SubSeq(Kept, 1, n), Damaged) \in Seq(Event)
    BY <2>3, DamagedType
  <2>5. log' \in Seq(Event)
    BY <2>1, <2>3, <2>4, Zenon
  <2>6. torn' \in BOOLEAN
    BY <2>1, Zenon
  <2> QED
    BY <1>10, <2>5, <2>6 DEF TrimCutShort, Release, GoTo, Fault
<1>11. ASSUME NEW p \in Proc, Crash(p) PROVE TypeOK'
  BY <1>11 DEF Crash, Release, GoTo, Fault
<1>12. ASSUME NEW p \in Proc, Restart(p) PROVE TypeOK'
  BY <1>12 DEF Restart
<1>13. ASSUME ConfigureConsole PROVE TypeOK'
  BY <1>13 DEF ConfigureConsole
<1>14. ASSUME BeginReport PROVE TypeOK'
  BY <1>14 DEF BeginReport, Heartbeat
<1>15. ASSUME NEW h \in hbs, ReadBatch(h) PROVE TypeOK'
  <2>1. Pending(h.acked) \subseteq Event
    BY DEF Pending, Lines
  <2>2. h.acked \in Nat
    BY DEF Heartbeat
  <2> QED
    BY <1>15, <2>1, <2>2 DEF ReadBatch, Heartbeat
<1>16. ASSUME NEW h \in hbs, LoseHeartbeat(h) PROVE TypeOK'
  BY <1>16 DEF LoseHeartbeat
<1>17. ASSUME NEW h \in hbs, ServerReceive(h) PROVE TypeOK'
  BY <1>17 DEF ServerReceive, Heartbeat
<1>18. ASSUME NEW n \in acks, LoseAck(n) PROVE TypeOK'
  BY <1>18 DEF LoseAck
<1>19. ASSUME NEW n \in acks, AckUpTo(n) PROVE TypeOK'
  BY <1>19 DEF AckUpTo
<1>20. CASE UNCHANGED vars
  BY <1>20
<1> QED
  BY <1>1, <1>2, <1>3, <1>4, <1>5, <1>6, <1>7, <1>8, <1>9, <1>10, <1>11, <1>12,
     <1>13, <1>14, <1>15, <1>16, <1>17, <1>18, <1>19, <1>20
     DEF Next, AppendStep, FaultStep

(***************************************************************************)
(* Gapless lines.                                                          *)
(***************************************************************************)

\* Appending the number after the counter, or a damaged line.
LEMMA GaplessAppend ==
  ASSUME NEW lines \in Seq(Event), NEW counter \in Nat, NEW e \in Event,
         Gapless(lines, counter),
         \A i \in 1..Len(lines) : lines[i].seq <= counter + 1,
         e.seq = counter + 1 \/ e.seq = 0
  PROVE  Gapless(Append(lines, e), counter)
<1> DEFINE new == Append(lines, e)
<1>1. Len(new) = Len(lines) + 1 /\ new[Len(lines) + 1] = e /\ Len(lines) \in Nat
  OBVIOUS
<1>2. \A i \in 1..Len(lines) : new[i] = lines[i] /\ lines[i].seq \in Nat
  <2> SUFFICES ASSUME NEW i \in 1..Len(lines) PROVE new[i] = lines[i] /\ lines[i].seq \in Nat
    OBVIOUS
  <2>1. lines[i] \in Event
    OBVIOUS
  <2> QED
    BY <2>1 DEF Event
<1> HIDE DEF new
<1>3. \A i, j \in 1..Len(new) :
        i < j /\ Readable(new[i]) /\ Readable(new[j]) => new[i].seq <= new[j].seq
  BY <1>1, <1>2 DEF Gapless, Readable
<1>4. \A i \in 1..(Len(new) - 1) :
        Readable(new[i]) /\ Readable(new[i + 1]) => new[i + 1].seq <= new[i].seq + 1
  <2> SUFFICES ASSUME NEW i \in 1..Len(lines), Readable(new[i]), Readable(new[i + 1])
               PROVE  new[i + 1].seq <= new[i].seq + 1
    BY <1>1
  <2>1. CASE i = Len(lines)
    BY <1>1, <1>2, <2>1 DEF Gapless, Readable
  <2>2. CASE i # Len(lines)
    <3>1. i \in 1..(Len(lines) - 1) /\ i + 1 \in 1..Len(lines)
      BY <1>1, <2>2
    <3> QED
      BY <1>2, <3>1 DEF Gapless
  <2> QED
    BY <2>1, <2>2
<1>5. Readable(new[Len(new)]) => new[Len(new)].seq \in {counter, counter + 1}
  BY <1>1 DEF Readable
<1> QED
  BY <1>3, <1>4, <1>5 DEF Gapless, new

\* The unfinished last line is run together with the next one.
LEMMA GaplessDamage ==
  ASSUME NEW lines \in Seq(Event), NEW counter \in Nat, Len(lines) > 0,
         Gapless(lines, counter)
  PROVE  Gapless([lines EXCEPT ![Len(lines)] = Damaged], counter)
<1> DEFINE new == [lines EXCEPT ![Len(lines)] = Damaged]
<1>1. Len(new) = Len(lines) /\ ~Readable(new[Len(lines)]) /\ Len(lines) \in Nat
  BY DamagedType DEF Readable
<1>2. ASSUME NEW i \in 1..Len(lines), Readable(new[i])
      PROVE  new[i] = lines[i] /\ i # Len(lines)
  <2>1. i # Len(lines)
    BY <1>1, <1>2
  <2> QED
    BY <2>1
<1> HIDE DEF new
<1>3. \A i, j \in 1..Len(new) :
        i < j /\ Readable(new[i]) /\ Readable(new[j]) => new[i].seq <= new[j].seq
  BY <1>1, <1>2 DEF Gapless
<1>4. \A i \in 1..(Len(new) - 1) :
        Readable(new[i]) /\ Readable(new[i + 1]) => new[i + 1].seq <= new[i].seq + 1
  <2> SUFFICES ASSUME NEW i \in 1..(Len(new) - 1), Readable(new[i]), Readable(new[i + 1])
               PROVE  new[i + 1].seq <= new[i].seq + 1
    OBVIOUS
  <2>1. i \in 1..Len(lines) /\ i + 1 \in 1..Len(lines)
    BY <1>1
  <2>2. new[i] = lines[i] /\ new[i + 1] = lines[i + 1]
    BY <1>2, <2>1
  <2> QED
    BY <1>1, <2>1, <2>2 DEF Gapless
<1>5. ~Readable(new[Len(new)])
  BY <1>1
<1> QED
  BY <1>3, <1>4, <1>5 DEF Gapless, new

\* The counter follows the line that was written.
LEMMA GaplessCommit ==
  ASSUME NEW lines \in Seq(Event), NEW counter \in Nat, Len(lines) > 0,
         Gapless(lines, counter),
         Readable(lines[Len(lines)]) => lines[Len(lines)].seq = counter + 1
  PROVE  Gapless(lines, counter + 1)
BY DEF Gapless

\* Dropping lines from the front.
LEMMA GaplessSuffix ==
  ASSUME NEW lines \in Seq(Event), NEW counter \in Nat, NEW k \in 1..Len(lines),
         Gapless(lines, counter)
  PROVE  Gapless(SubSeq(lines, k, Len(lines)), counter)
<1> DEFINE new == SubSeq(lines, k, Len(lines))
<1>1. Len(new) = Len(lines) - k + 1 /\ Len(lines) \in Nat
  OBVIOUS
<1>2. ASSUME NEW i \in 1..Len(new)
      PROVE  new[i] = lines[i + k - 1] /\ i + k - 1 \in 1..Len(lines)
  BY <1>1
<1> HIDE DEF new
<1>3. ASSUME NEW i \in 1..Len(new), NEW j \in 1..Len(new),
             i < j, Readable(new[i]), Readable(new[j])
      PROVE  new[i].seq <= new[j].seq
  <2> DEFINE m == i + k - 1
             n == j + k - 1
  <2>1. m \in 1..Len(lines) /\ n \in 1..Len(lines) /\ m < n
    BY <1>1, <1>2, <1>3
  <2>2. new[i] = lines[m] /\ new[j] = lines[n]
    BY <1>2
  <2> HIDE DEF m, n
  <2> QED
    BY <1>3, <2>1, <2>2 DEF Gapless
<1>4. ASSUME NEW i \in 1..(Len(new) - 1), Readable(new[i]), Readable(new[i + 1])
      PROVE  new[i + 1].seq <= new[i].seq + 1
  <2> DEFINE m == i + k - 1
  <2>1. i \in 1..Len(new) /\ i + 1 \in 1..Len(new) /\ (i + 1) + k - 1 = m + 1
    BY <1>1
  <2>2. new[i] = lines[m] /\ new[i + 1] = lines[m + 1]
    BY <1>2, <2>1
  <2>3. m \in 1..(Len(lines) - 1)
    BY <1>1
  <2> HIDE DEF m
  <2> QED
    BY <1>4, <2>2, <2>3 DEF Gapless
<1>5. Readable(new[Len(new)]) => new[Len(new)].seq \in {counter, counter + 1}
  <2>1. Len(new) \in 1..Len(new) /\ Len(new) + k - 1 = Len(lines)
    BY <1>1
  <2>2. new[Len(new)] = lines[Len(lines)]
    BY <1>2, <2>1
  <2> QED
    BY <2>2 DEF Gapless
<1> QED
  BY <1>3, <1>4, <1>5 DEF Gapless, new

(***************************************************************************)
(* What Append leaves behind.                                              *)
(***************************************************************************)

\* The holder is the only process inside Append.
LEMMA LockStep ==
  ASSUME TypeOK, LockInv, [Next]_vars
  PROVE  LockInv'
<1> USE ProcAssumption DEF TypeOK, LockInv
<1>1. ASSUME NEW p \in Proc, AppendStep(p) PROVE LockInv'
  BY <1>1 DEF AppendStep, BeginAppend, WriteLine, CommitSeq, CommitChainHead,
              FinishAppend, Release, GoTo
<1>2. ASSUME NEW p \in Proc, FaultStep(p) PROVE LockInv'
  BY <1>2 DEF FaultStep, ShortWrite, AbortAppend, LoseChainHead, TrimFails,
              TrimCutShort, Crash, Release, GoTo
<1>3. ASSUME UNCHANGED <<lock, pc>> PROVE LockInv'
  BY <1>3
<1>4. ASSUME Next,
             ~(\E p \in Proc : AppendStep(p) \/ FaultStep(p))
      PROVE  UNCHANGED <<lock, pc>>
  BY <1>4 DEF Next, Restart, ConfigureConsole, BeginReport, ReadBatch,
              LoseHeartbeat, ServerReceive, LoseAck, AckUpTo
<1>5. CASE UNCHANGED vars
  BY <1>3, <1>5
<1> QED
  BY <1>1, <1>2, <1>3, <1>4, <1>5

\* The lines after a write: the old ones, and at the end the new one, or a
\* damaged one when it was run together with an unfinished line.
LEMMA AfterWriteLines ==
  ASSUME TypeOK, NEW l \in Event, torn => Len(log) > 0,
         NEW new, new = AfterWrite(l)
  PROVE  /\ Len(new) > 0
         /\ new[Len(new)] = IF torn THEN Damaged ELSE l
         /\ \A i \in 1..Len(new) : i # Len(new) => i \in 1..Len(log) /\ new[i] = log[i]
<1> USE DEF TypeOK
<1>1. CASE torn
  <2>1. new = [log EXCEPT ![Len(log)] = Damaged]
    BY <1>1 DEF AfterWrite
  <2>2. Len(new) = Len(log) /\ Len(log) \in Nat /\ Len(log) > 0
    BY <1>1, <2>1
  <2>3. new[Len(log)] = Damaged
    BY <2>1, <2>2
  <2>4. ASSUME NEW i \in 1..Len(log), i # Len(log) PROVE new[i] = log[i]
    <3>1. [log EXCEPT ![Len(log)] = Damaged][i] = log[i]
      BY <2>4
    <3> QED
      BY <2>1, <3>1
  <2> QED
    BY <1>1, <2>2, <2>3, <2>4
<1>2. CASE ~torn
  <2>1. new = Append(log, l)
    BY <1>2 DEF AfterWrite
  <2>2. Len(new) = Len(log) + 1 /\ Len(log) \in Nat
    BY <2>1
  <2> QED
    BY <1>2, <2>1, <2>2
<1> QED
  BY <1>1, <1>2

\* A process inside Append is in step with the counter and the end of the log.
LEMMA AppendStepInv ==
  ASSUME TypeOK, LockInv, AppendInv, torn => Len(log) > 0, [Next]_vars
  PROVE  AppendInv'
<1> USE ProcAssumption DEF TypeOK, LockInv
<1>1. ASSUME NEW p \in Proc, pc[p] # "idle", Release(p) PROVE AppendInv'
  BY <1>1 DEF Release, GoTo, AppendInv
<1>2. ASSUME NEW p \in Proc, BeginAppend(p) PROVE AppendInv'
  BY <1>2, NewEventType DEF BeginAppend, GoTo, AppendInv
<1>3. ASSUME NEW p \in Proc, WriteLine(p) PROVE AppendInv'
  <2>1. \A q \in Proc \ {p} : pc'[q] = "idle"
    BY <1>3 DEF WriteLine, GoTo
  <2>2. pc'[p] = "commit" /\ cur' = cur /\ seqFile' = seqFile /\ ~torn'
    BY <1>3 DEF WriteLine, GoTo
  <2>3. cur[p].seq = seqFile + 1
    BY <1>3 DEF WriteLine, AppendInv
  <2>4. Len(log') > 0 /\ log'[Len(log')] \in {cur[p], Damaged}
    BY <1>3, AfterWriteLines DEF WriteLine
  <2> QED
    BY <2>1, <2>2, <2>3, <2>4 DEF AppendInv
<1>4. ASSUME NEW p \in Proc, CommitSeq(p) PROVE AppendInv'
  <2>1. \A q \in Proc \ {p} : pc'[q] = "idle"
    BY <1>4 DEF CommitSeq, GoTo
  <2>2. pc'[p] \in {"head", "trim"}
    BY <1>4 DEF CommitSeq, GoTo
  <2>3. cur' = cur /\ seqFile' = cur[p].seq /\ UNCHANGED <<log, torn>>
    BY <1>4 DEF CommitSeq
  <2>4. pc[p] = "commit" /\ cur[p].seq = seqFile + 1
    BY <1>4 DEF CommitSeq, AppendInv
  <2>5. ~torn /\ Len(log) > 0 /\ log[Len(log)] \in {cur[p], Damaged}
    BY <2>4 DEF AppendInv
  <2>6. cur'[p].seq = seqFile' /\ seqFile' > 0
    BY <2>3, <2>4
  <2>7. ~torn' /\ Len(log') > 0 /\ log'[Len(log')] \in {cur'[p], Damaged}
    BY <2>3, <2>5
  <2>8. ASSUME NEW q \in Proc
        PROVE  /\ pc'[q] \in {"head", "trim"} => cur'[q].seq = seqFile' /\ seqFile' > 0
               /\ pc'[q] \in {"commit", "head", "trim"} =>
                    ~torn' /\ Len(log') > 0 /\ log'[Len(log')] \in {cur'[q], Damaged}
               /\ pc'[q] \notin {"write", "commit"}
    <3>1. CASE q = p
      BY <2>2, <2>6, <2>7, <3>1
    <3>2. CASE q # p
      BY <2>1, <3>2
    <3> QED
      BY <3>1, <3>2
  <2> QED
    BY <2>8 DEF AppendInv
<1>5. ASSUME NEW p \in Proc, CommitChainHead(p) \/ LoseChainHead(p) PROVE AppendInv'
  <2>1. pc[p] = "head" /\ GoTo(p, "trim") /\ UNCHANGED <<cur, seqFile, log, torn>>
    BY <1>5 DEF CommitChainHead, LoseChainHead
  <2> QED
    BY <2>1 DEF GoTo, AppendInv
<1>6. ASSUME UNCHANGED <<pc, cur, seqFile, log, torn>> PROVE AppendInv'
  BY <1>6 DEF AppendInv
<1>7. ASSUME NEW p \in Proc,
             \/ FinishAppend(p)
             \/ ShortWrite(p)
             \/ AbortAppend(p)
             \/ TrimFails(p)
             \/ TrimCutShort(p)
             \/ Crash(p)
      PROVE  pc[p] # "idle" /\ Release(p)
  BY <1>7 DEF FinishAppend, ShortWrite, AbortAppend, TrimFails, TrimCutShort, Crash
<1>8. ASSUME Next, ~(\E p \in Proc : AppendStep(p) \/ FaultStep(p))
      PROVE  UNCHANGED <<pc, cur, seqFile, log, torn>>
  BY <1>8 DEF Next, Restart, ConfigureConsole, BeginReport, ReadBatch,
              LoseHeartbeat, ServerReceive, LoseAck, AckUpTo
<1>9. CASE UNCHANGED vars
  BY <1>6, <1>9
<1> QED
  BY <1>1, <1>2, <1>3, <1>4, <1>5, <1>6, <1>7, <1>8, <1>9
     DEF Next, AppendStep, FaultStep

(***************************************************************************)
(* What is, or has been, on its way to the server.                         *)
(***************************************************************************)

\* Heartbeats only carry events that were lines of the log.
LEMMA BatchWritten ==
  ASSUME TypeOK, WrittenInv, NEW a \in Nat
  PROVE  Pending(a) \subseteq written
<1>1. ASSUME NEW l \in Pending(a) PROVE l \in written
  <2>1. PICK i \in 1..Len(log) : l = log[i]
    BY <1>1 DEF Pending, Lines
  <2>2. l # Damaged
    BY <1>1, DamagedType DEF Pending
  <2> QED
    BY <2>1, <2>2 DEF WrittenInv
<1> QED
  BY <1>1

\* A trim only drops lines.
LEMMA KeptLines ==
  ASSUME TypeOK
  PROVE  \A i \in 1..Len(Kept) : \E j \in 1..Len(log) : Kept[i] = log[j]
<1> USE TrimAssumption DEF TypeOK
<1>1. CASE Len(log) <= LogMaxLines
  <2>1. Kept = log
    BY <1>1 DEF Kept
  <2> QED
    BY <2>1
<1>2. CASE Len(log) > LogMaxLines
  <2> DEFINE k == Len(log) - LogTrimTo + 1
  <2>1. k \in 1..Len(log)
    BY <1>2
  <2>2. Kept = SubSeq(log, k, Len(log))
    BY <1>2 DEF Kept
  <2>3. Len(Kept) = Len(log) - k + 1
    BY <2>1, <2>2
  <2>4. ASSUME NEW i \in 1..Len(Kept) PROVE Kept[i] = log[i + k - 1] /\ i + k - 1 \in 1..Len(log)
    BY <2>1, <2>2, <2>3
  <2>5. ASSUME NEW i \in 1..Len(Kept) PROVE \E j \in 1..Len(log) : Kept[i] = log[j]
    BY <2>4
  <2> QED
    BY <2>5
<1>3. Len(log) <= LogMaxLines \/ Len(log) > LogMaxLines
  OBVIOUS
<1> QED
  BY <1>1, <1>2, <1>3, Zenon

\* Lines, batches and the server's events stay within what was written.
LEMMA WrittenStep ==
  ASSUME TypeOK, LockInv, AppendInv, WrittenInv, [Next]_vars
  PROVE  WrittenInv'
<1> USE DEF TypeOK
<1>1. ASSUME UNCHANGED <<log, torn, seqFile, hbs, srv, written>> PROVE WrittenInv'
  BY <1>1 DEF WrittenInv
<1>2. ASSUME NEW p \in Proc, NEW l \in Event, l \in {cur[p], Damaged}, pc[p] = "write",
             log' = AfterWrite(l),
             written' = IF ~torn /\ l # Damaged THEN written \cup {l} ELSE written,
             UNCHANGED <<seqFile, hbs, srv>>
      PROVE  WrittenInv'
  <2>1. /\ Len(log') > 0
        /\ log'[Len(log')] = IF torn THEN Damaged ELSE l
        /\ \A i \in 1..Len(log') : i # Len(log') => i \in 1..Len(log) /\ log'[i] = log[i]
    BY <1>2, AfterWriteLines DEF WrittenInv
  <2>2. written \subseteq written' /\ written' \subseteq written \cup ({cur[p]} \ {Damaged})
    BY <1>2
  <2>3. \A e \in written' : e.seq \in 1..(seqFile' + 1)
    BY <1>2, <2>2 DEF WrittenInv, AppendInv
  <2>4. \A i \in 1..Len(log') : log'[i] \in written' \cup {Damaged}
    BY <1>2, <2>1, <2>2 DEF WrittenInv
  <2> QED
    BY <1>2, <2>1, <2>2, <2>3, <2>4 DEF WrittenInv
<1>3. ASSUME NEW p \in Proc, WriteLine(p) PROVE WrittenInv'
  <2>1. cur[p] # Damaged
    BY <1>3, DamagedType DEF WriteLine, AppendInv
  <2> QED
    BY <1>2, <1>3, <2>1 DEF WriteLine
<1>4. ASSUME NEW p \in Proc, ShortWrite(p) PROVE WrittenInv'
  <2>1. PICK l \in {Damaged, cur[p]} :
          /\ log' = AfterWrite(l)
          /\ written' = IF ~torn /\ Readable(l) THEN written \cup {l} ELSE written
    BY <1>4 DEF ShortWrite
  <2>2. Readable(l) <=> l # Damaged
    BY <1>4, DamagedType DEF ShortWrite, AppendInv, Readable
  <2>3. l \in Event
    BY DamagedType
  <2> QED
    BY <1>2, <1>4, <2>1, <2>2, <2>3 DEF ShortWrite
<1>5. ASSUME NEW p \in Proc, CommitSeq(p) PROVE WrittenInv'
  <2>1. seqFile' = seqFile + 1
    BY <1>5 DEF CommitSeq, AppendInv
  <2> QED
    BY <1>5, <2>1 DEF CommitSeq, history, WrittenInv
<1>6. ASSUME NEW p \in Proc, FinishAppend(p) PROVE WrittenInv'
  <2>1. /\ log' = Kept
        /\ ~torn'
        /\ UNCHANGED <<seqFile, hbs, srv, written>>
    BY <1>6 DEF FinishAppend, AppendInv
  <2> QED
    BY <2>1, KeptLines DEF WrittenInv
<1>7. ASSUME NEW p \in Proc, TrimCutShort(p) PROVE WrittenInv'
  <2>1. PICK n \in 0..(LogTrimTo - 1) :
          \/ log' = SubSeq(Kept, 1, n) /\ torn' = FALSE
          \/ log' = Append(SubSeq(Kept, 1, n), Damaged) /\ torn' = TRUE
    BY <1>7 DEF TrimCutShort
  <2>2. n \in 0..Len(Kept) /\ Kept \in Seq(Event)
    BY <1>7, KeptType, TrimAssumption DEF TrimCutShort, Kept
  <2> DEFINE new == SubSeq(Kept, 1, n)
  <2>3. new \in Seq(Event) /\ Len(new) = n /\ \A i \in 1..n : new[i] = Kept[i] /\ i \in 1..Len(Kept)
    BY <2>2
  <2>4. \A i \in 1..n : new[i] \in written \cup {Damaged}
    BY <2>3, KeptLines DEF WrittenInv
  <2> HIDE DEF new
  <2>5. UNCHANGED <<seqFile, hbs, srv, written>>
    BY <1>7 DEF TrimCutShort
  <2>6. CASE log' = new /\ torn' = FALSE
    BY <2>3, <2>4, <2>5, <2>6 DEF WrittenInv
  <2>7. CASE log' = Append(new, Damaged) /\ torn' = TRUE
    <3> DEFINE longer == Append(new, Damaged)
    <3>1. Len(longer) = n + 1 /\ longer[n + 1] = Damaged
      BY <2>2, <2>3, DamagedType
    <3>5. ASSUME NEW i \in 1..n PROVE longer[i] = new[i]
      BY <2>2, <2>3, DamagedType
    <3> HIDE DEF longer
    <3>2. \A i \in 1..Len(longer) : longer[i] \in written \cup {Damaged}
      BY <2>2, <2>4, <3>1, <3>5
    <3>3. Len(longer) > 0
      BY <2>2, <3>1
    <3>4. log' = longer
      BY <2>7 DEF longer
    <3> QED
      BY <2>5, <3>2, <3>3, <3>4 DEF WrittenInv
  <2> QED
    BY <2>1, <2>6, <2>7 DEF new
<1>8. ASSUME BeginReport PROVE WrittenInv'
  BY <1>8 DEF BeginReport, WrittenInv
<1>9. ASSUME NEW h \in hbs, ReadBatch(h) PROVE WrittenInv'
  <2>1. PICK B \in SUBSET Pending(h.acked) :
          hbs' = (hbs \ {h}) \cup {[phase |-> "sent", acked |-> h.acked, batch |-> B]}
    BY <1>9 DEF ReadBatch
  <2>2. h.acked \in Nat
    BY DEF Heartbeat
  <2>3. B \subseteq written
    BY <2>2, BatchWritten
  <2> QED
    BY <1>9, <2>1, <2>3 DEF ReadBatch, WrittenInv
<1>10. ASSUME NEW h \in hbs, LoseHeartbeat(h) \/ ServerReceive(h) PROVE WrittenInv'
  BY <1>10 DEF LoseHeartbeat, ServerReceive, WrittenInv
<1>11. CASE UNCHANGED vars
  BY <1>1, <1>11
<1>12. ASSUME NEW p \in Proc,
              \/ BeginAppend(p) \/ CommitChainHead(p) \/ AbortAppend(p) \/ LoseChainHead(p)
              \/ TrimFails(p) \/ Crash(p) \/ Restart(p)
       PROVE  WrittenInv'
  BY <1>1, <1>12 DEF BeginAppend, CommitChainHead, AbortAppend, LoseChainHead, TrimFails,
                     Crash, Restart
<1>13. ASSUME ConfigureConsole \/ \E n \in acks : LoseAck(n) \/ AckUpTo(n) PROVE WrittenInv'
  BY <1>1, <1>13 DEF ConfigureConsole, LoseAck, AckUpTo
<1> QED
  BY <1>3, <1>4, <1>5, <1>6, <1>7, <1>8, <1>9, <1>10, <1>11, <1>12, <1>13
     DEF Next, AppendStep, FaultStep

(***************************************************************************)
(* Acknowledgements.                                                       *)
(***************************************************************************)

\* An acknowledgement, on its way or recorded, is covered by the server.
LEMMA WireStep ==
  ASSUME TypeOK, WireInv, AckedIsHeld, [Next]_vars
  PROVE  WireInv' /\ AckedIsHeld'
<1> USE DEF TypeOK
<1>1. ASSUME srv \subseteq srv', acks' \subseteq acks, ackedFile' \in acks \cup {ackedFile}
      PROVE  WireInv' /\ AckedIsHeld'
  BY <1>1 DEF WireInv, AckedIsHeld
<1>2. ASSUME NEW h \in hbs, ServerReceive(h) PROVE WireInv' /\ AckedIsHeld'
  <2>1. srv \subseteq srv' /\ ackedFile' = ackedFile
    BY <1>2 DEF ServerReceive
  <2>2. PICK n \in 0..emitted : IsAckPoint(srv', n) /\ acks' = acks \cup {n}
    BY <1>2 DEF ServerReceive
  <2>3. \A m \in 1..n : \E e \in srv' : e.seq = m
    BY <2>2 DEF IsAckPoint, Held
  <2> QED
    BY <2>1, <2>2, <2>3 DEF WireInv, AckedIsHeld
<1>3. ASSUME NEW n \in acks, LoseAck(n) \/ AckUpTo(n) PROVE WireInv' /\ AckedIsHeld'
  BY <1>1, <1>3 DEF LoseAck, AckUpTo
<1>4. ASSUME UNCHANGED <<srv, acks, ackedFile>> PROVE WireInv' /\ AckedIsHeld'
  BY <1>1, <1>4
<1>5. ASSUME NEW p \in Proc, AppendStep(p) \/ FaultStep(p) \/ Restart(p)
      PROVE  UNCHANGED <<srv, acks, ackedFile>>
  BY <1>5 DEF AppendStep, BeginAppend, WriteLine, CommitSeq, CommitChainHead, FinishAppend,
              FaultStep, ShortWrite, AbortAppend, LoseChainHead, TrimFails, TrimCutShort,
              Crash, Restart
<1>6. ASSUME ConfigureConsole \/ BeginReport \/ \E h \in hbs : ReadBatch(h) \/ LoseHeartbeat(h)
      PROVE  UNCHANGED <<srv, acks, ackedFile>>
  BY <1>6 DEF ConfigureConsole, BeginReport, ReadBatch, LoseHeartbeat
<1>7. CASE UNCHANGED vars
  BY <1>4, <1>7
<1> QED
  BY <1>2, <1>3, <1>4, <1>5, <1>6, <1>7 DEF Next

(***************************************************************************)
(* No silent gap.                                                          *)
(***************************************************************************)

\* Every step keeps the log gapless, unless it cuts a trim short.
LEMMA GapStep ==
  ASSUME TypeOK, LockInv, AppendInv, WrittenInv, NoSilentGap, [Next]_vars
  PROVE  NoSilentGap'
<1> SUFFICES ASSUME faults'["cut"] = 0 PROVE Gapless(log, seqFile)'
  BY DEF NoSilentGap
<1> USE DEF TypeOK
<1>1. \A i \in 1..Len(log) : log[i].seq <= seqFile + 1
  BY DamagedType DEF WrittenInv
<1>2. ASSUME faults["cut"] = 0 PROVE Gapless(log, seqFile)
  BY <1>2 DEF NoSilentGap
<1>3. ASSUME faults["cut"] = 0, UNCHANGED <<log, seqFile>> PROVE Gapless(log, seqFile)'
  BY <1>2, <1>3 DEF Gapless
<1>4. ASSUME NEW l \in Event, l.seq \in {0, seqFile + 1}, faults["cut"] = 0,
             log' = AfterWrite(l), seqFile' = seqFile
      PROVE  Gapless(log, seqFile)'
  <2>1. CASE torn
    BY <1>2, <1>4, <2>1, GaplessDamage DEF AfterWrite, WrittenInv
  <2>2. CASE ~torn
    BY <1>1, <1>2, <1>4, <2>2, GaplessAppend DEF AfterWrite
  <2> QED
    BY <2>1, <2>2
<1>5. ASSUME NEW p \in Proc, WriteLine(p) PROVE Gapless(log, seqFile)'
  BY <1>4, <1>5 DEF WriteLine, AppendInv
<1>6. ASSUME NEW p \in Proc, ShortWrite(p) PROVE Gapless(log, seqFile)'
  <2>1. PICK l \in {Damaged, cur[p]} : log' = AfterWrite(l)
    BY <1>6 DEF ShortWrite
  <2>2. l \in Event /\ l.seq \in {0, seqFile + 1}
    BY <1>6, DamagedType DEF ShortWrite, AppendInv
  <2>3. faults["cut"] = 0
    BY <1>6 DEF ShortWrite, Fault
  <2> QED
    BY <1>4, <1>6, <2>1, <2>2, <2>3 DEF ShortWrite
<1>7. ASSUME NEW p \in Proc, CommitSeq(p) PROVE Gapless(log, seqFile)'
  <2>1. seqFile' = seqFile + 1 /\ log' = log
    BY <1>7 DEF CommitSeq, AppendInv
  <2>2. Len(log) > 0 /\ log[Len(log)] \in {cur[p], Damaged}
    BY <1>7 DEF CommitSeq, AppendInv
  <2>3. Readable(log[Len(log)]) => log[Len(log)].seq = seqFile + 1
    BY <1>7, <2>2, DamagedType DEF CommitSeq, AppendInv, Readable
  <2>4. Gapless(log, seqFile)
    BY <1>2, <1>7 DEF CommitSeq, history
  <2> QED
    BY <2>1, <2>2, <2>3, <2>4, GaplessCommit
<1>8. ASSUME NEW p \in Proc, FinishAppend(p) PROVE Gapless(log, seqFile)'
  <2>1. Gapless(log, seqFile) /\ log' = Kept /\ seqFile' = seqFile
    BY <1>2, <1>8 DEF FinishAppend
  <2>2. CASE Len(log) <= LogMaxLines
    BY <2>1, <2>2 DEF Kept
  <2>3. CASE Len(log) > LogMaxLines
    <3>1. Len(log) - LogTrimTo + 1 \in 1..Len(log)
      BY <2>3, TrimAssumption
    <3> QED
      BY <2>1, <2>3, <3>1, GaplessSuffix, TrimAssumption DEF Kept
  <2> QED
    BY <2>2, <2>3, TrimAssumption
<1>9. ASSUME NEW p \in Proc, TrimCutShort(p) PROVE FALSE
  BY <1>9 DEF TrimCutShort, Fault
<1>10. ASSUME NEW p \in Proc,
              \/ BeginAppend(p) \/ CommitChainHead(p) \/ AbortAppend(p) \/ LoseChainHead(p)
              \/ TrimFails(p) \/ Crash(p) \/ Restart(p)
       PROVE  Gapless(log, seqFile)'
  BY <1>3, <1>10 DEF BeginAppend, CommitChainHead, AbortAppend, LoseChainHead, TrimFails,
                     Crash, Restart, Fault
<1>11. ASSUME \/ ConfigureConsole \/ BeginReport
              \/ \E h \in hbs : ReadBatch(h) \/ LoseHeartbeat(h) \/ ServerReceive(h)
              \/ \E n \in acks : LoseAck(n) \/ AckUpTo(n)
       PROVE  Gapless(log, seqFile)'
  BY <1>3, <1>11 DEF ConfigureConsole, BeginReport, ReadBatch, LoseHeartbeat, ServerReceive,
                     LoseAck, AckUpTo
<1>12. CASE UNCHANGED vars
  BY <1>3, <1>12
<1> QED
  BY <1>5, <1>6, <1>7, <1>8, <1>9, <1>10, <1>11, <1>12 DEF Next, AppendStep, FaultStep

(***************************************************************************)
(* The theorems.                                                           *)
(***************************************************************************)

\* The initial state of a fresh installation satisfies the invariant.
LEMMA InitIInv == Init => IInv
<1> SUFFICES ASSUME Init PROVE IInv
  OBVIOUS
<1> USE DEF Init
<1>1. TypeOK
  <2>1. InitKey \in Nat
    BY KeyAssumption
  <2>2. log \in Seq(Event) /\ cur \in [Proc -> Event]
    BY DamagedType
  <2>3. pc \in [Proc -> Stage] /\ psk \in [Proc -> Nat] /\ faults \in [FaultKind -> Nat]
    BY <2>1
  <2>4. hbs \subseteq Heartbeat /\ acks \subseteq Nat /\ srv \subseteq Event
    OBVIOUS
  <2> QED
    BY <2>1, <2>2, <2>3, <2>4 DEF TypeOK
<1>2. LockInv /\ AppendInv
  BY ProcAssumption DEF LockInv, AppendInv
<1>3. WrittenInv /\ WireInv /\ AckedIsHeld
  BY DEF WrittenInv, WireInv, AckedIsHeld
<1>4. NoSilentGap
  BY DEF NoSilentGap, Gapless
<1> QED
  BY <1>1, <1>2, <1>3, <1>4 DEF IInv

\* Every step of the queue, the network and the server preserves it.
LEMMA NextIInv == IInv /\ [Next]_vars => IInv'
<1> SUFFICES ASSUME IInv, [Next]_vars PROVE IInv'
  OBVIOUS
<1>1. torn => Len(log) > 0
  BY DEF IInv, WrittenInv
<1>2. TypeOK'
  BY <1>1, TypeStep DEF IInv
<1>3. LockInv' /\ AppendInv'
  BY <1>1, LockStep, AppendStepInv DEF IInv
<1>4. WrittenInv' /\ NoSilentGap'
  BY WrittenStep, GapStep DEF IInv
<1>5. WireInv' /\ AckedIsHeld'
  BY WireStep DEF IInv
<1> QED
  BY <1>2, <1>3, <1>4, <1>5 DEF IInv

\* The inductive invariant of the audit queue holds in every behaviour.
THEOREM QueueInvariant == Spec => []IInv
  BY InitIInv, NextIInv, PTL DEF Spec

\* The files, processes and messages always have their types.
THEOREM TypeCorrect == Spec => []TypeOK
<1>1. IInv => TypeOK
  BY DEF IInv
<1> QED
  BY <1>1, QueueInvariant, PTL

\* Whatever crashes, fails or is written short, audit.jsonl skips a number only
\* at a damaged line (as long as no trim was cut short).
THEOREM GapFree == Spec => []NoSilentGap
<1>1. IInv => NoSilentGap
  BY DEF IInv
<1> QED
  BY <1>1, QueueInvariant, PTL

\* Whatever is lost or reordered, the node never regards a number as
\* acknowledged that the server does not hold.
THEOREM AckSound == Spec => []AckedIsHeld
<1>1. IInv => AckedIsHeld
  BY DEF IInv
<1> QED
  BY <1>1, QueueInvariant, PTL

(***************************************************************************)
(* AuditQueue implements AuditDelivery.                                    *)
(***************************************************************************)

\* The abstract issue mark is the counter or, between the write of a line and
\* the commit of its number, the number after it.
LEMMA IssuedBounds ==
  ASSUME IInv
  PROVE  /\ Issued \in {seqFile, seqFile + 1}
         /\ Issued \in Nat
         /\ \A e \in written : e.seq \in 1..Issued
BY DEF IInv, TypeOK, WrittenInv, Issued

\* Every step of the detailed specification is an abstract step or a stutter.
LEMMA DeliveryStep == IInv /\ IInv' /\ [Next]_vars => [Delivery!Next]_(Delivery!vars)
<1> SUFFICES ASSUME IInv, IInv', [Next]_vars PROVE [Delivery!Next]_(Delivery!vars)
  OBVIOUS
<1> DEFINE numbers == {e.seq : e \in srv}
<1>10. TypeOK /\ AppendInv /\ WrittenInv /\ WireInv
  BY DEF IInv
<1>1. ASSUME UNCHANGED <<seqFile, written, srv, ackedFile>> PROVE UNCHANGED Delivery!vars
  BY <1>1 DEF Delivery!vars, Issued
<1>2. ASSUME UNCHANGED <<srv, ackedFile>>, Issued' \in {Issued, Issued + 1}
      PROVE  [Delivery!Next]_(Delivery!vars)
  BY <1>2 DEF Delivery!vars, Delivery!Next, Delivery!Issue
<1>3. ASSUME NEW p \in Proc, WriteLine(p) \/ ShortWrite(p) PROVE [Delivery!Next]_(Delivery!vars)
  <2>1. UNCHANGED <<seqFile, srv, ackedFile>>
    BY <1>3 DEF WriteLine, ShortWrite
  <2>2. written \subseteq written'
    BY <1>3 DEF WriteLine, ShortWrite
  <2>3. Issued' \in {Issued, Issued + 1}
    BY <1>10, <2>1, <2>2 DEF Issued, TypeOK
  <2> QED
    BY <1>2, <2>1, <2>3
<1>4. ASSUME NEW p \in Proc, CommitSeq(p) PROVE [Delivery!Next]_(Delivery!vars)
  <2>1. seqFile' = seqFile + 1 /\ UNCHANGED <<written, srv, ackedFile>>
    BY <1>10, <1>4 DEF CommitSeq, AppendInv, net, history
  <2>2. \A e \in written : e.seq # seqFile' + 1
    BY <1>10, <2>1 DEF WrittenInv, TypeOK
  <2>3. Issued' \in {Issued, Issued + 1}
    BY <1>10, <2>1, <2>2 DEF Issued, TypeOK
  <2> QED
    BY <1>2, <2>1, <2>3
<1>5. ASSUME NEW h \in hbs, ServerReceive(h) PROVE [Delivery!Next]_(Delivery!vars)
  <2>1. PICK T \in SUBSET h.batch : srv' = srv \cup T
    BY <1>5 DEF ServerReceive
  <2>2. UNCHANGED <<seqFile, written, ackedFile>>
    BY <1>5 DEF ServerReceive, disk, history
  <2>3. \A e \in T : e.seq \in 1..Issued
    BY <1>10, IssuedBounds DEF WrittenInv
  <2> DEFINE S == {e.seq : e \in T}
  <2>4. S \in SUBSET (1..Issued) /\ {e.seq : e \in srv'} = numbers \cup S
    BY <2>1, <2>3
  <2>5. Issued' = Issued
    BY <2>2 DEF Issued
  <2>6. Delivery!Store
    BY <2>2, <2>4, <2>5 DEF Delivery!Store
  <2> QED
    BY <2>6 DEF Delivery!Next
<1>6. ASSUME NEW n \in acks, AckUpTo(n) PROVE [Delivery!Next]_(Delivery!vars)
  <2>1. UNCHANGED <<seqFile, written, srv>>
    BY <1>6 DEF AckUpTo, history
  <2>2. CASE n <= ackedFile
    <3>1. ackedFile' = ackedFile
      BY <1>10, <1>6, <2>2 DEF AckUpTo, TypeOK
    <3> QED
      BY <1>1, <2>1, <3>1
  <2>3. CASE n > ackedFile
    <3>1. ackedFile' = n /\ n \in Nat /\ n > 0
      BY <1>10, <1>6, <2>3 DEF AckUpTo, TypeOK
    <3>2. 1..n \subseteq numbers
      BY <1>10 DEF WireInv
    <3>3. n \in 1..Issued
      <4>1. PICK e \in srv : e.seq = n
        BY <3>1, <3>2
      <4> QED
        BY <1>10, <4>1, IssuedBounds DEF WrittenInv
    <3>4. Issued' = Issued /\ {e.seq : e \in srv'} = numbers
      BY <2>1 DEF Issued
    <3>5. Delivery!Ack
      BY <2>3, <3>1, <3>2, <3>3, <3>4 DEF Delivery!Ack
    <3> QED
      BY <3>5 DEF Delivery!Next
  <2>4. n \in Nat /\ ackedFile \in Nat
    BY <1>10 DEF TypeOK
  <2> QED
    BY <2>2, <2>3, <2>4
<1>7. ASSUME NEW p \in Proc,
             \/ BeginAppend(p) \/ CommitChainHead(p) \/ FinishAppend(p) \/ AbortAppend(p)
             \/ LoseChainHead(p) \/ TrimFails(p) \/ TrimCutShort(p) \/ Crash(p) \/ Restart(p)
      PROVE  UNCHANGED <<seqFile, written, srv, ackedFile>>
  BY <1>7 DEF BeginAppend, CommitChainHead, FinishAppend, AbortAppend, LoseChainHead, TrimFails,
              TrimCutShort, Crash, Restart
<1>8. ASSUME \/ ConfigureConsole \/ BeginReport
             \/ \E h \in hbs : ReadBatch(h) \/ LoseHeartbeat(h)
             \/ \E n \in acks : LoseAck(n)
      PROVE  UNCHANGED <<seqFile, written, srv, ackedFile>>
  BY <1>8 DEF ConfigureConsole, BeginReport, ReadBatch, LoseHeartbeat, LoseAck
<1>9. CASE UNCHANGED vars
  BY <1>1, <1>9
<1> QED
  BY <1>1, <1>3, <1>4, <1>5, <1>6, <1>7, <1>8, <1>9 DEF Next, AppendStep, FaultStep

\* The detailed specification implements the abstract one: numbers are issued
\* one by one, stored only when issued, and acknowledged only when held.
THEOREM Implements == Spec => DeliverySpec
<1>1. Init => Delivery!Init
  BY DEF Init, Delivery!Init, Issued
<1> QED
  BY <1>1, QueueInvariant, DeliveryStep, PTL DEF Spec, DeliverySpec, Delivery!Spec

(***************************************************************************)
(* While no Append dies or fails, a number is an event.                    *)
(***************************************************************************)

\* Without a fault of Append, only a trim can go wrong.
LEMMA OnlyCuts ==
  ASSUME TypeOK, AppendsSucceed, NEW p \in Proc, FaultStep(p)
  PROVE  TrimCutShort(p)
BY DEF TypeOK, AppendsSucceed, FaultStep, ShortWrite, AbortAppend, LoseChainHead, TrimFails,
       Crash, Fault

\* Every step gives a number to one event only.
LEMMA NumberStep ==
  ASSUME IInv, NumberInv, AppendsSucceed, [Next]_vars
  PROVE  NumberInv'
<1> DEFINE claimed == written \cup committed
<1>1. TypeOK /\ LockInv /\ AppendInv
  BY DEF IInv
<1>2. /\ \A e, f \in claimed : e.seq = f.seq => e = f
      /\ \A e \in claimed : e.seq <= seqFile \/ \E p \in Proc : pc[p] = "commit" /\ e = cur[p]
      /\ \A p \in Proc : \A e \in claimed :
           pc[p] \in {"head", "trim"} /\ e.seq = cur[p].seq => e = cur[p]
      /\ \A e \in committed : e.seq > 0
  BY DEF NumberInv
<1>3. \A e \in claimed : e.seq \in Nat
  BY <1>1 DEF TypeOK, Event
<1>4. ASSUME NEW p \in Proc, pc[p] # "idle" PROVE \A q \in Proc \ {p} : pc[q] = "idle"
  BY <1>1, <1>4, ProcAssumption DEF LockInv
<1>5. ASSUME NEW p \in Proc, pc[p] \in {"write", "commit"}
      PROVE  cur[p].seq = seqFile + 1 /\ seqFile \in Nat
  BY <1>1, <1>5 DEF AppendInv, TypeOK
<1> HIDE DEF claimed
<1>6. ASSUME claimed' = claimed, UNCHANGED <<committed, pc, cur, seqFile>> PROVE NumberInv'
  BY <1>2, <1>6 DEF NumberInv, claimed
<1>7. ASSUME NEW p \in Proc, BeginAppend(p) PROVE NumberInv'
  <2>1. /\ claimed' = claimed /\ committed' = committed
        /\ seqFile' = seqFile
        /\ \A q \in Proc : pc[q] = "idle" /\ pc'[q] \in {"idle", "write"}
    BY <1>1, <1>7, ProcAssumption DEF BeginAppend, GoTo, LockInv, TypeOK, claimed
  <2>2. \A e \in claimed : e.seq <= seqFile
    BY <1>2, <2>1
  <2> QED
    BY <1>2, <2>1, <2>2 DEF NumberInv, claimed
<1>8. ASSUME NEW p \in Proc, WriteLine(p) PROVE NumberInv'
  <2>1. /\ claimed' \subseteq claimed \cup {cur[p]}
        /\ UNCHANGED <<committed, seqFile, cur>>
        /\ pc[p] = "write" /\ pc'[p] = "commit"
        /\ \A q \in Proc \ {p} : pc'[q] = pc[q]
    BY <1>1, <1>8 DEF WriteLine, GoTo, TypeOK, claimed
  <2>2. \A q \in Proc \ {p} : pc[q] = "idle" /\ pc'[q] = "idle"
    BY <1>4, <2>1
  <2>3. \A e \in claimed : e.seq <= seqFile
    BY <1>2, <2>1, <2>2
  <2>4. cur[p].seq = seqFile + 1 /\ seqFile \in Nat
    BY <1>5, <2>1
  <2>5. \A e, f \in claimed' : e.seq = f.seq => e = f
    BY <1>2, <1>3, <2>1, <2>3, <2>4
  <2>6. \A e \in claimed' : e.seq <= seqFile' \/ \E q \in Proc : pc'[q] = "commit" /\ e = cur'[q]
    BY <2>1, <2>3
  <2> QED
    BY <2>1, <2>2, <2>5, <2>6 DEF NumberInv, claimed
<1>9. ASSUME NEW p \in Proc, CommitSeq(p) PROVE NumberInv'
  <2>1. /\ claimed' = claimed /\ committed' = committed
        /\ cur' = cur
        /\ seqFile' = cur[p].seq
        /\ pc[p] = "commit" /\ pc'[p] \in {"head", "trim"}
        /\ \A q \in Proc \ {p} : pc'[q] = pc[q]
    BY <1>1, <1>9 DEF CommitSeq, GoTo, TypeOK, claimed, history
  <2>2. \A q \in Proc \ {p} : pc[q] = "idle" /\ pc'[q] = "idle"
    BY <1>4, <2>1
  <2>3. cur[p].seq = seqFile + 1 /\ seqFile \in Nat
    BY <1>5, <2>1
  <2>4. \A e \in claimed : e.seq <= seqFile \/ e = cur[p]
    BY <1>2, <2>2
  <2>5. \A e \in claimed : e.seq <= seqFile' /\ (e.seq = cur[p].seq => e = cur[p])
    BY <1>3, <2>1, <2>3, <2>4
  <2> QED
    BY <1>2, <2>1, <2>2, <2>5 DEF NumberInv, claimed
<1>10. ASSUME NEW p \in Proc, CommitChainHead(p) PROVE NumberInv'
  <2>1. /\ claimed' = claimed /\ committed' = committed
        /\ UNCHANGED <<cur, seqFile>>
        /\ pc[p] = "head" /\ pc'[p] = "trim"
        /\ \A q \in Proc \ {p} : pc'[q] = pc[q]
    BY <1>1, <1>10 DEF CommitChainHead, GoTo, TypeOK, claimed, history
  <2> QED
    BY <1>2, <2>1 DEF NumberInv, claimed
<1>11. ASSUME NEW p \in Proc, FinishAppend(p) \/ TrimCutShort(p) PROVE NumberInv'
  <2>1. /\ claimed' = claimed \cup {cur[p]}
        /\ committed' = committed \cup {cur[p]}
        /\ UNCHANGED <<cur, seqFile>>
        /\ pc[p] = "trim" /\ pc'[p] = "idle"
        /\ \A q \in Proc \ {p} : pc'[q] = pc[q]
    BY <1>1, <1>11 DEF FinishAppend, TrimCutShort, Release, GoTo, TypeOK, claimed
  <2>2. \A q \in Proc : pc'[q] = "idle" /\ pc[q] # "commit"
    BY <1>4, <2>1
  <2>3. cur[p].seq = seqFile /\ seqFile \in Nat /\ seqFile > 0
    BY <1>1, <2>1 DEF AppendInv, TypeOK
  <2>4. \A e \in claimed : e.seq <= seqFile /\ (e.seq = cur[p].seq => e = cur[p])
    BY <1>2, <2>1, <2>2
  <2>5. \A e, f \in claimed' : e.seq = f.seq => e = f
    BY <1>2, <2>1, <2>4
  <2>6. \A e \in claimed' : e.seq <= seqFile'
    BY <2>1, <2>3, <2>4
  <2>7. \A e \in committed' : e.seq > 0
    BY <1>2, <2>1, <2>3
  <2> QED
    BY <2>2, <2>5, <2>6, <2>7 DEF NumberInv, claimed
<1>12. ASSUME NEW p \in Proc, FaultStep(p) PROVE NumberInv'
  BY <1>1, <1>11, <1>12, OnlyCuts
<1>13. ASSUME Next, ~(\E p \in Proc : AppendStep(p) \/ FaultStep(p)) PROVE NumberInv'
  <2>1. claimed' = claimed /\ UNCHANGED <<committed, pc, cur, seqFile>>
    BY <1>13 DEF Next, Restart, ConfigureConsole, BeginReport, ReadBatch, LoseHeartbeat,
                 ServerReceive, LoseAck, AckUpTo, claimed
  <2> QED
    BY <1>6, <2>1
<1>14. CASE UNCHANGED vars
  BY <1>6, <1>14 DEF claimed
<1> QED
  BY <1>7, <1>8, <1>9, <1>10, <1>11, <1>12, <1>13, <1>14 DEF AppendStep

\* While no Append dies or fails, every step keeps the numbers apart.
LEMMA NumbersApart == AppendsSucceed => (Spec => []NumberInv)
<1> SUFFICES ASSUME AppendsSucceed PROVE Spec => []NumberInv
  OBVIOUS
<1>1. Init => NumberInv
  BY DEF Init, NumberInv
<1>2. IInv /\ NumberInv /\ [Next]_vars => NumberInv'
  BY NumberStep
<1> QED
  BY <1>1, <1>2, QueueInvariant, PTL DEF Spec

\* While no Append dies or fails, no two events are written under one number
\* (Event.Seq): the flock and the counter that follows the line see to it.
THEOREM NumbersAreUnique == AppendsSucceed => (Spec => []SeqNeverReused)
<1> SUFFICES ASSUME AppendsSucceed PROVE Spec => []SeqNeverReused
  OBVIOUS
<1>1. NumberInv => SeqNeverReused
  BY DEF NumberInv, SeqNeverReused
<1>2. Spec => []NumberInv
  BY NumbersApart
<1> QED
  BY <1>1, <1>2, PTL

\* While no Append dies or fails - whatever the server, the network and the
\* trims do, and whichever keys the processes use - an acknowledged number
\* means that this very event is on the server.
THEOREM DeliveredAsAcked == AppendsSucceed => (Spec => []AckedMeansDelivered)
<1> SUFFICES ASSUME AppendsSucceed PROVE Spec => []AckedMeansDelivered
  OBVIOUS
<1>1. Spec => []NumberInv
  BY NumbersApart
<1>2. ASSUME IInv, NumberInv PROVE AckedMeansDelivered
  <2> SUFFICES ASSUME NEW e \in committed, e.seq <= ackedFile PROVE e \in srv
    BY DEF AckedMeansDelivered
  <2>1. e.seq \in 1..ackedFile
    BY <1>2 DEF IInv, TypeOK, Event, NumberInv
  <2>2. PICK f \in srv : f.seq = e.seq
    BY <1>2, <2>1 DEF IInv, AckedIsHeld
  <2>3. f \in written
    BY <1>2 DEF IInv, WrittenInv
  <2> QED
    BY <1>2, <2>2, <2>3 DEF NumberInv
<1> QED
  BY <1>1, <1>2, QueueInvariant, PTL

(***************************************************************************)
(* While nothing fails, the lines are a chain.                             *)
(***************************************************************************)

\* Neighbours with an HMAC are neighbours in the chain.
Chained(lines) ==
  \A i \in 1..(Len(lines) - 1) :
    lines[i].key # 0 /\ lines[i + 1].key # 0 => lines[i + 1].prev = lines[i].id

\* A line whose event was chained to the last line extends the chain.
LEMMA ChainedAppend ==
  ASSUME NEW lines \in Seq(Event), NEW e \in Event, Chained(lines),
         Len(lines) > 0 /\ lines[Len(lines)].key # 0 /\ e.key # 0 =>
           e.prev = lines[Len(lines)].id
  PROVE  Chained(Append(lines, e))
<1> DEFINE new == Append(lines, e)
<1>1. Len(new) = Len(lines) + 1 /\ new[Len(lines) + 1] = e /\ Len(lines) \in Nat
  OBVIOUS
<1>2. \A i \in 1..Len(lines) : new[i] = lines[i]
  OBVIOUS
<1> HIDE DEF new
<1>3. ASSUME NEW i \in 1..(Len(new) - 1), new[i].key # 0, new[i + 1].key # 0
      PROVE  new[i + 1].prev = new[i].id
  <2>1. i \in 1..Len(lines)
    BY <1>1
  <2>2. CASE i = Len(lines)
    BY <1>1, <1>2, <1>3, <2>1, <2>2
  <2>3. CASE i # Len(lines)
    <3>1. i \in 1..(Len(lines) - 1) /\ i + 1 \in 1..Len(lines)
      BY <1>1, <2>1, <2>3
    <3> QED
      BY <1>2, <1>3, <2>1, <3>1 DEF Chained
  <2> QED
    BY <2>2, <2>3
<1> QED
  BY <1>3 DEF Chained, new

\* A suffix of a chain is a chain, and ends where the chain ends.
LEMMA ChainedSuffix ==
  ASSUME NEW lines \in Seq(Event), NEW k \in 1..Len(lines), Chained(lines),
         NEW new, new = SubSeq(lines, k, Len(lines))
  PROVE  /\ Chained(new)
         /\ Len(new) > 0
         /\ new[Len(new)] = lines[Len(lines)]
<1>1. Len(new) = Len(lines) - k + 1 /\ Len(lines) \in Nat
  OBVIOUS
<1>2. ASSUME NEW i \in 1..Len(new) PROVE new[i] = lines[i + k - 1]
  BY <1>1
<1>3. ASSUME NEW i \in 1..(Len(new) - 1), new[i].key # 0, new[i + 1].key # 0
      PROVE  new[i + 1].prev = new[i].id
  <2> DEFINE m == i + k - 1
  <2>1. i \in 1..Len(new) /\ i + 1 \in 1..Len(new) /\ (i + 1) + k - 1 = m + 1
    BY <1>1
  <2>2. new[i] = lines[m] /\ new[i + 1] = lines[m + 1]
    BY <1>2, <2>1
  <2>3. m \in 1..(Len(lines) - 1)
    BY <1>1
  <2> HIDE DEF m
  <2> QED
    BY <1>3, <2>2, <2>3 DEF Chained
<1>4. Len(new) \in 1..Len(new) /\ Len(new) + k - 1 = Len(lines)
  BY <1>1
<1>5. new[Len(new)] = lines[Len(lines)]
  BY <1>2, <1>4
<1> QED
  BY <1>1, <1>3, <1>5 DEF Chained

\* Every step of a node on which nothing fails extends or shortens the chain.
LEMMA ChainStep ==
  ASSUME IInv, HeadInv, Chained(log), FaultFree, [Next]_vars
  PROVE  HeadInv' /\ Chained(log)'
<1>1. TypeOK /\ LockInv /\ AppendInv
  BY DEF IInv
<1>2. /\ ~torn
      /\ \A i \in 1..Len(log) : log[i] # Damaged
      /\ (\A p \in Proc : pc[p] \notin {"commit", "head"}) =>
           (Len(log) > 0 /\ log[Len(log)].key # 0 => chainHead = log[Len(log)].id)
      /\ \A p \in Proc : pc[p] = "write" /\ cur[p].key # 0 => cur[p].prev = chainHead
  BY DEF HeadInv
<1>3. log \in Seq(Event) /\ Len(log) \in Nat
  BY <1>1 DEF TypeOK
<1>4. ASSUME NEW p \in Proc, pc[p] # "idle" PROVE \A q \in Proc \ {p} : pc[q] = "idle"
  BY <1>1, <1>4, ProcAssumption DEF LockInv
<1>5. ASSUME NEW p \in Proc, pc[p] \in {"commit", "head", "trim"}
      PROVE  Len(log) > 0 /\ log[Len(log)] = cur[p]
  BY <1>1, <1>2, <1>3, <1>5 DEF AppendInv
<1>6. ASSUME UNCHANGED <<log, torn, chainHead, pc, cur>> PROVE HeadInv' /\ Chained(log)'
  BY <1>6 DEF HeadInv, Chained
<1>7. ASSUME NEW p \in Proc, BeginAppend(p) PROVE HeadInv' /\ Chained(log)'
  <2>1. /\ UNCHANGED <<log, torn, chainHead>>
        /\ \A q \in Proc : pc[q] = "idle"
        /\ \A q \in Proc \ {p} : pc'[q] = "idle"
        /\ pc'[p] = "write"
        /\ cur'[p] = NewEvent(p)
    BY <1>1, <1>7, ProcAssumption DEF BeginAppend, GoTo, LockInv, TypeOK
  <2>2. NewEvent(p).key # 0 => NewEvent(p).prev = chainHead
    BY DEF NewEvent
  <2> QED
    BY <1>2, <2>1, <2>2 DEF HeadInv, Chained
<1>8. ASSUME NEW p \in Proc, WriteLine(p) PROVE HeadInv' /\ Chained(log)'
  <2>1. /\ log' = Append(log, cur[p])
        /\ ~torn'
        /\ pc[p] = "write" /\ pc'[p] = "commit"
        /\ \A q \in Proc \ {p} : pc'[q] = pc[q]
    BY <1>1, <1>2, <1>8 DEF WriteLine, AfterWrite, GoTo, TypeOK
  <2>2. \A q \in Proc \ {p} : pc[q] = "idle"
    BY <1>4, <2>1
  <2>3. cur[p] \in Event /\ cur[p] # Damaged
    BY <1>1, <2>1, DamagedType DEF AppendInv, TypeOK
  <2>4. Chained(Append(log, cur[p]))
    <3>1. \A q \in Proc : pc[q] \notin {"commit", "head"}
      BY <2>1, <2>2
    <3>2. Len(log) > 0 /\ log[Len(log)].key # 0 /\ cur[p].key # 0 =>
            cur[p].prev = log[Len(log)].id
      BY <1>2, <2>1, <3>1
    <3> QED
      BY <1>3, <2>3, <3>2, ChainedAppend
  <2>5. \A i \in 1..Len(Append(log, cur[p])) : Append(log, cur[p])[i] # Damaged
    BY <1>2, <1>3, <2>3
  <2>6. \A q \in Proc : pc'[q] # "write"
    BY <2>1, <2>2
  <2>7. HeadInv'
    BY <2>1, <2>5, <2>6 DEF HeadInv
  <2> QED
    BY <2>1, <2>4, <2>7 DEF Chained
<1>9. ASSUME NEW p \in Proc, CommitSeq(p) \/ CommitChainHead(p) PROVE HeadInv' /\ Chained(log)'
  <2>1. /\ UNCHANGED <<log, torn>>
        /\ pc[p] \in {"commit", "head"} /\ pc'[p] \in {"head", "trim"}
        /\ \A q \in Proc \ {p} : pc'[q] = pc[q]
        /\ pc'[p] = "trim" => cur[p].key = 0 \/ chainHead' = cur[p].id
    BY <1>1, <1>9 DEF CommitSeq, CommitChainHead, GoTo, TypeOK
  <2>2. \A q \in Proc \ {p} : pc[q] = "idle"
    BY <1>4, <2>1
  <2>3. Len(log) > 0 /\ log[Len(log)] = cur[p]
    BY <1>5, <2>1
  <2>4. \A q \in Proc : pc'[q] # "write"
    BY <2>1, <2>2
  <2>5. pc'[p] = "trim" => (log[Len(log)].key # 0 => chainHead' = log[Len(log)].id)
    BY <2>1, <2>3
  <2> QED
    BY <1>2, <2>1, <2>4, <2>5 DEF HeadInv, Chained
<1>10. ASSUME NEW p \in Proc, FinishAppend(p) PROVE HeadInv' /\ Chained(log)'
  <2>1. /\ UNCHANGED <<torn, chainHead>>
        /\ log' = Kept
        /\ pc[p] = "trim" /\ pc'[p] = "idle"
        /\ \A q \in Proc \ {p} : pc'[q] = pc[q]
    BY <1>1, <1>10 DEF FinishAppend, Release, GoTo, TypeOK
  <2>2. \A q \in Proc \ {p} : pc[q] = "idle"
    BY <1>4, <2>1
  <2>3. Len(log) > 0
    BY <1>5, <2>1
  <2>4. \E k \in 1..Len(log) : Kept = SubSeq(log, k, Len(log))
    <3>1. CASE Len(log) <= LogMaxLines
      BY <1>3, <2>3, <3>1 DEF Kept
    <3>2. CASE Len(log) > LogMaxLines
      BY <1>3, <3>2, TrimAssumption DEF Kept
    <3> QED
      BY <1>3, <3>1, <3>2, TrimAssumption
  <2>5. Chained(log') /\ Len(log') > 0 /\ log'[Len(log')] = log[Len(log)]
    BY <1>3, <2>1, <2>4, ChainedSuffix
  <2>6. \A i \in 1..Len(log') : log'[i] # Damaged
    BY <1>1, <1>2, <2>1, KeptLines
  <2>7. \A q \in Proc : pc[q] \notin {"commit", "head"} /\ pc'[q] # "write"
    BY <2>1, <2>2
  <2>8. HeadInv'
    BY <1>2, <2>1, <2>3, <2>5, <2>6, <2>7 DEF HeadInv
  <2> QED
    BY <2>5, <2>8 DEF Chained
<1>11. ASSUME NEW p \in Proc, FaultStep(p) PROVE FALSE
  <2>1. TrimCutShort(p)
    BY <1>1, <1>11, OnlyCuts DEF FaultFree
  <2> QED
    BY <1>1, <2>1 DEF TrimCutShort, Fault, FaultFree, TypeOK
<1>12. ASSUME Next, ~(\E p \in Proc : AppendStep(p) \/ FaultStep(p))
       PROVE  HeadInv' /\ Chained(log)'
  <2>1. UNCHANGED <<log, torn, chainHead, pc, cur>>
    BY <1>12 DEF Next, Restart, ConfigureConsole, BeginReport, ReadBatch, LoseHeartbeat,
                 ServerReceive, LoseAck, AckUpTo
  <2> QED
    BY <1>6, <2>1
<1>13. CASE UNCHANGED vars
  BY <1>6, <1>13
<1> QED
  BY <1>7, <1>8, <1>9, <1>10, <1>11, <1>12, <1>13 DEF AppendStep

\* While nothing fails - with any number of processes, any trims, and keys
\* that appear and rotate under running processes - neighbouring lines with an
\* HMAC are neighbours in the chain.
THEOREM ChainUnbroken == FaultFree => (Spec => []ChainLinked)
<1> SUFFICES ASSUME FaultFree PROVE Spec => []ChainLinked
  OBVIOUS
<1>1. Init => HeadInv /\ Chained(log)
  BY DEF Init, HeadInv, Chained
<1>2. IInv /\ HeadInv /\ Chained(log) /\ [Next]_vars => HeadInv' /\ Chained(log)'
  BY ChainStep
<1>3. Chained(log) => ChainLinked
  BY DEF Chained, ChainLinked
<1> QED
  BY <1>1, <1>2, <1>3, QueueInvariant, PTL DEF Spec

=============================================================================
