-------------------------- MODULE SchedulerProofs ---------------------------
(***************************************************************************)
(* For any jobs, schedules, clock, reload interval and bounds: the types   *)
(* of Scheduler, that a next run is the first time of the job's schedule   *)
(* and next_run.json agrees with it, that a run is skipped only for one    *)
(* that is not over, that edits take effect within a reload interval, that *)
(* nothing but a reload drops a due run, and that one job never overlaps.  *)
(***************************************************************************)
EXTENDS Scheduler, WellFoundedInduction, TLAPS

USE DEF Clock, MaxAge, files, goroutines, tickers, history, vars

(***************************************************************************)
(* The clock and the times of a schedule.                                  *)
(***************************************************************************)

\* A position up to one cycle ahead is a position of the clock.
LEMMA AheadType ==
  ASSUME clock \in Clock, NEW d \in 0..Cycle
  PROVE  Ahead(d) \in Clock
  BY ClockAssumption DEF Ahead

\* A non-empty set of natural numbers has a smallest element.
LEMMA Smallest ==
  ASSUME NEW S \in SUBSET Nat, S # {}
  PROVE  \E d \in S : \A e \in S : d <= e
<1>1. PICK d \in S : \A e \in S : <<e, d>> \notin OpToRel(<, Nat)
  BY WFMin, NatLessThanWellFounded
<1>2. \A e \in S : ~(e < d)
  BY <1>1 DEF OpToRel
<1> QED
  BY <1>2

\* A schedule has a next time exactly if it has any.
LEMMA UpcomingWhen ==
  ASSUME clock \in Clock, NEW x \in Expr
  PROVE  Upcoming(x) # {} <=> Times[x] # {}
<1>1. ASSUME NEW t \in Times[x] PROVE Upcoming(x) # {}
  <2>1. t \in Clock /\ Cycle \in Nat \ {0}
    BY ClockAssumption
  <2> DEFINE d == IF t > clock THEN t - clock ELSE (t + Cycle) - clock
  <2>2. d \in 1..Cycle /\ Ahead(d) = t
    BY <2>1 DEF Ahead
  <2> QED
    BY <2>2 DEF Upcoming
<1> QED
  BY <1>1 DEF Upcoming

\* The same after a step.
LEMMA UpcomingWhenNext ==
  ASSUME clock' \in Clock, NEW x \in Expr
  PROVE  Upcoming(x)' # {} <=> Times[x] # {}
<1>1. ASSUME NEW t \in Times[x] PROVE Upcoming(x)' # {}
  <2>1. t \in Clock /\ Cycle \in Nat \ {0}
    BY ClockAssumption
  <2>2. PICK c \in Clock : c = clock'
    OBVIOUS
  <2>3. PICK d \in 1..Cycle : t = IF c + d < Cycle THEN c + d ELSE c + d - Cycle
    <3> DEFINE d == IF t > c THEN t - c ELSE (t + Cycle) - c
    <3>1. d \in 1..Cycle /\ t = IF c + d < Cycle THEN c + d ELSE c + d - Cycle
      BY <2>1
    <3> QED
      BY <3>1
  <2>4. d \in Upcoming(x)'
    BY <2>2, <2>3 DEF Upcoming, Ahead
  <2> QED
    BY <2>4
<1> QED
  BY <1>1 DEF Upcoming

\* The next run of a schedule that has times is the first of them.
LEMMA NextRunAfterIsFirst ==
  ASSUME NEW x \in Expr, Upcoming(x) # {}
  PROVE  /\ NextRunAfter(x) \in Upcoming(x)
         /\ NextRunAfter(x) \in 1..Cycle
         /\ \A e \in Upcoming(x) : NextRunAfter(x) <= e
<1>1. Upcoming(x) \in SUBSET Nat /\ Upcoming(x) \subseteq 1..Cycle
  BY ClockAssumption DEF Upcoming
<1>2. \E d \in Upcoming(x) : \A e \in Upcoming(x) : d <= e
  BY <1>1, Smallest
<1> QED
  BY <1>1, <1>2 DEF NextRunAfter

\* Nothing else is.
LEMMA FirstIsNextRunAfter ==
  ASSUME NEW x \in Expr, NEW d \in Upcoming(x), \A e \in Upcoming(x) : d <= e
  PROVE  d = NextRunAfter(x)
<1>1. NextRunAfter(x) \in Upcoming(x) /\ NextRunAfter(x) <= d /\ d <= NextRunAfter(x)
  BY NextRunAfterIsFirst
<1>2. d \in Nat /\ NextRunAfter(x) \in Nat
  BY <1>1, ClockAssumption DEF Upcoming
<1> QED
  BY <1>1, <1>2

\* When the clock moves, each position comes nearer by one tick.
LEMMA AheadTicks ==
  ASSUME clock \in Clock, clock' = Ahead(1), NEW d \in 0..(Cycle - 1)
  PROVE  Ahead(d)' = Ahead(d + 1)
  BY ClockAssumption DEF Ahead

\* And so does a next run that is not due with this tick.
LEMMA NextRunAfterTicks ==
  ASSUME clock \in Clock, clock' = Ahead(1), NEW x \in Expr, Upcoming(x) # {},
         NextRunAfter(x) > 1
  PROVE  NextRunAfter(x)' = NextRunAfter(x) - 1
<1>1. PICK n \in 1..Cycle : n = NextRunAfter(x)
  BY NextRunAfterIsFirst
<1>2. n > 1 /\ Ahead(n) \in Times[x] /\ \A e \in Upcoming(x) : n <= e
  BY <1>1, NextRunAfterIsFirst DEF Upcoming
<1>3. Cycle \in Nat \ {0} /\ n - 1 \in 1..Cycle /\ (n - 1) + 1 = n
  BY <1>2, ClockAssumption
<1>4. Ahead(n - 1)' = Ahead(n)
  BY <1>3, AheadTicks
<1>5. n - 1 \in Upcoming(x)'
  BY <1>2, <1>3, <1>4 DEF Upcoming
<1>6. ASSUME NEW e \in Upcoming(x)' PROVE n - 1 <= e
  <2>1. e \in 1..Cycle /\ Ahead(e)' \in Times[x]
    BY <1>6 DEF Upcoming
  <2>2. CASE e = Cycle
    BY <2>2, <1>3
  <2>3. CASE e # Cycle
    <3>1. e + 1 \in 1..Cycle /\ e \in 0..(Cycle - 1)
      BY <2>1, <2>3, <1>3
    <3>2. Ahead(e + 1) \in Times[x]
      BY <3>1, <2>1, AheadTicks
    <3>3. e + 1 \in Upcoming(x)
      BY <3>1, <3>2 DEF Upcoming
    <3> QED
      BY <3>3, <1>2, <2>1, <1>3
  <2> QED
    BY <2>2, <2>3
<1>7. \A e \in Upcoming(x)' : e \in Nat
  BY <1>3 DEF Upcoming
<1>8. \A d \in Upcoming(x)' : (\A e \in Upcoming(x)' : d <= e) => d = n - 1
  BY <1>5, <1>6, <1>7, <1>3
<1>9. NextRunAfter(x)' = n - 1
  BY <1>5, <1>6, <1>8 DEF NextRunAfter
<1> QED
  BY <1>1, <1>9

\* While the clock stands still, so do next runs.
LEMMA ClockStands ==
  ASSUME clock' = clock
  PROVE  /\ \A x : Upcoming(x)' = Upcoming(x)
         /\ \A x : NextRunAfter(x)' = NextRunAfter(x)
         /\ \A d : Ahead(d)' = Ahead(d)
         /\ \A c : Schedulable(c)' = Schedulable(c)
<1>1. \A d : Ahead(d)' = Ahead(d)
  BY DEF Ahead
<1>2. \A x : Upcoming(x)' = Upcoming(x)
  BY <1>1 DEF Upcoming
<1>3. \A x : NextRunAfter(x)' = NextRunAfter(x)
  BY <1>2 DEF NextRunAfter
<1>4. \A c : Schedulable(c)' = Schedulable(c)
  BY <1>2 DEF Schedulable
<1> QED
  BY <1>1, <1>2, <1>3, <1>4

(***************************************************************************)
(* What reload, buildSchedule and rescheduling compute.                    *)
(***************************************************************************)

\* The schedules a daemon may hold.
Entries == [Job -> Entry \cup {Unscheduled}]

\* A job that is taken up anew gets the first of its times.
LEMMA FromNowIsFirst ==
  ASSUME clock \in Clock, NEW c \in Conf \cup {NoConf}, Schedulable(c)
  PROVE  /\ FromNow(c) \in Entry
         /\ FromNow(c).expr = c.expr
         /\ FromNow(c).left = NextRunAfter(c.expr)
         /\ FromNow(c).left \in 1..Cycle
         /\ Times[c.expr] # {}
<1>1. c \in Conf /\ c.expr \in Expr /\ Upcoming(c.expr) # {}
  BY DEF Schedulable, Conf
<1>2. NextRunAfter(c.expr) \in 1..Cycle /\ Times[c.expr] # {}
  BY <1>1, NextRunAfterIsFirst, UpcomingWhen
<1>3. NextRunAfter(c.expr) \in Nat
  BY <1>2, ClockAssumption
<1> QED
  BY <1>1, <1>2, <1>3 DEF FromNow, Entry

\* writeNextRun leaves a file that names the next run, or none at all.
LEMMA Written ==
  ASSUME TypeOK, NEW J \in SUBSET Job, WriteNextRun(J, sched'),
         \A j \in J : sched'[j].left \in 0..Cycle
  PROVE  /\ nextFile' \in [Job -> 0..Cycle]
         /\ \A j \in J : nextFile'[j] \in {Cycle, Ahead(sched'[j].left)}
         /\ \A j \in Job \ J : nextFile'[j] = nextFile[j]
<1>1. \A j \in J : Ahead(sched'[j].left) \in 0..Cycle
  BY AheadType, ClockAssumption DEF TypeOK
<1> QED
  BY <1>1, ClockAssumption DEF WriteNextRun, TypeOK

\* Firing or skipping a job gives it a new next run.
LEMMA RescheduleStep ==
  ASSUME TypeOK, \A k \in Job : Timely(k), NEW j \in Job, Due(j), Reschedule(j),
         UNCHANGED <<clock, conf>>
  PROVE  /\ sched' \in Entries
         /\ nextFile' \in [Job -> 0..Cycle]
         /\ \A k \in Job : Timely(k)' /\ (Matches(k) => Matches(k)')
<1> DEFINE x == sched[j].expr
<1>1. sched \in Entries /\ sched[j] \in Entry /\ x \in Expr /\ clock \in Clock
  BY DEF TypeOK, Due, Entry, Entries
<1>2. Upcoming(x) # {}
  BY <1>1, UpcomingWhen DEF Timely, Due
<1>3. NextRunAfter(x) \in 1..Cycle /\ NextRunAfter(x) \in Nat
  BY <1>1, <1>2, NextRunAfterIsFirst, ClockAssumption
<1>4. PICK e \in Entry : e = [expr |-> x, left |-> NextRunAfter(x)]
  BY <1>1, <1>3 DEF Entry
<1>5. sched' = [sched EXCEPT ![j] = e]
  <2>1. [sched[j] EXCEPT !.left = NextRunAfter(x)] = e
    BY <1>1, <1>4 DEF Entry
  <2> QED
    BY <1>2, <2>1 DEF Reschedule, Rescheduled
<1>6. sched' \in Entries /\ sched'[j] = e /\ \A k \in Job \ {j} : sched'[k] = sched[k]
  BY <1>1, <1>5 DEF Entries
<1>7. {j} \cap ScheduledIn(sched') = {j}
  BY <1>6, NoValueAssumption DEF ScheduledIn
<1>8. WriteNextRun({j}, sched') /\ sched'[j].left \in 0..Cycle
  BY <1>3, <1>4, <1>6, <1>7 DEF Reschedule
<1>9. /\ nextFile' \in [Job -> 0..Cycle]
      /\ nextFile'[j] \in {Cycle, Ahead(e.left)}
      /\ \A k \in Job \ {j} : nextFile'[k] = nextFile[k]
  BY <1>6, <1>8, Written
<1>10. Timely(j)'
  BY <1>3, <1>4, <1>6, <1>9, ClockStands DEF Timely, Due
<1>11. ASSUME NEW k \in Job, k # j PROVE Timely(k)'
  BY <1>6, <1>9, <1>11, ClockStands DEF Timely
<1>12. ASSUME NEW k \in Job, Matches(k) PROVE Matches(k)'
  <2>1. Schedulable(conf[k])' <=> Schedulable(conf[k])
    BY ClockStands DEF Schedulable
  <2> QED
    BY <1>4, <1>6, <1>12, <2>1, NoValueAssumption DEF Matches, Due
<1> QED
  BY <1>6, <1>9, <1>10, <1>11, <1>12

\* A reload brings the schedule in line with the files.
LEMMA ReloadStep ==
  ASSUME TypeOK, \A k \in Job : Timely(k), Reload
  PROVE  /\ sched' \in Entries
         /\ nextFile' \in [Job -> 0..Cycle]
         /\ \A k \in Job : Timely(k)' /\ Matches(k)'
<1> DEFINE J == {j \in Job : Schedulable(conf[j]) /\ ~Kept(j)}
<1>1. sched \in Entries /\ conf \in [Job -> Conf \cup {NoConf}] /\ clock \in Clock
  BY DEF TypeOK, Entries
<1>2. /\ \A k \in J : sched'[k] = FromNow(conf[k]) /\ Schedulable(conf[k])
      /\ \A k \in Job \ J : sched'[k] = IF Schedulable(conf[k]) THEN sched[k] ELSE Unscheduled
      /\ clock' = clock /\ conf' = conf
      /\ sched' = Reloaded
  BY DEF Reload, Reloaded
<1>3. \A k \in J : /\ sched'[k] \in Entry /\ sched'[k].expr = conf[k].expr
                    /\ sched'[k].left = NextRunAfter(conf[k].expr)
                    /\ sched'[k].left \in 0..Cycle
                    /\ Times[conf[k].expr] # {}
  BY <1>1, <1>2, FromNowIsFirst, ClockAssumption
<1>4. sched' \in Entries
  <2>1. \A k \in Job : Reloaded[k] \in Entry \cup {Unscheduled}
    BY <1>1, <1>2, <1>3 DEF Entries
  <2> QED
    BY <1>2, <2>1 DEF Reloaded, Entries
<1>5. /\ nextFile' \in [Job -> 0..Cycle]
      /\ \A k \in J : nextFile'[k] \in {Cycle, Ahead(sched'[k].left)}
      /\ \A k \in Job \ J : nextFile'[k] = nextFile[k]
  BY <1>3, Written DEF Reload
<1>6. ASSUME NEW k \in J PROVE Timely(k)' /\ Matches(k)'
  <2>1. Schedulable(conf[k])'
    BY <1>2, ClockStands DEF Schedulable
  <2> QED
    BY <1>2, <1>3, <1>5, <2>1, ClockStands, NoValueAssumption DEF Timely, Matches
<1>7. ASSUME NEW k \in Job \ J PROVE Timely(k)' /\ Matches(k)'
  <2>1. Schedulable(conf[k])' <=> Schedulable(conf[k])
    BY <1>2, ClockStands DEF Schedulable
  <2> QED
    BY <1>2, <1>5, <2>1, ClockStands DEF Timely, Matches, Kept
<1> QED
  BY <1>4, <1>5, <1>6, <1>7

\* buildSchedule: the entry of each job.
LEMMA BuiltEntries ==
  ASSUME clock \in Clock, conf \in [Job -> Conf \cup {NoConf}]
  PROVE  /\ Built \in Entries
         /\ \A k \in Job :
              IF Schedulable(conf[k])
              THEN /\ Built[k] \in Entry /\ Built[k].expr = conf[k].expr
                   /\ Built[k].left = NextRunAfter(conf[k].expr)
                   /\ Built[k].left \in 1..Cycle
                   /\ Times[conf[k].expr] # {}
              ELSE Built[k] = Unscheduled
<1>1. \A k \in Job : Schedulable(conf[k]) =>
        /\ FromNow(conf[k]) \in Entry /\ FromNow(conf[k]).expr = conf[k].expr
        /\ FromNow(conf[k]).left = NextRunAfter(conf[k].expr)
        /\ FromNow(conf[k]).left \in 1..Cycle
        /\ Times[conf[k].expr] # {}
  BY FromNowIsFirst
<1> QED
  BY <1>1 DEF Built, Entries

\* A daemon that starts works with the files.
LEMMA StartStep ==
  ASSUME TypeOK, Start
  PROVE  /\ sched' \in Entries
         /\ nextFile' \in [Job -> 0..Cycle]
         /\ \A k \in Job : Timely(k)' /\ Matches(k)'
<1>1. sched' = Built /\ clock' = clock /\ conf' = conf /\ Cycle \in Nat
  BY ClockAssumption DEF Start
<1>2. sched' \in Entries /\ \A k \in Job :
        IF Schedulable(conf[k])
        THEN /\ sched'[k] \in Entry /\ sched'[k].expr = conf[k].expr
             /\ sched'[k].left = NextRunAfter(conf[k].expr)
             /\ sched'[k].left \in 1..Cycle
             /\ Times[conf[k].expr] # {}
        ELSE sched'[k] = Unscheduled
  BY <1>1, BuiltEntries DEF TypeOK
<1>3. ScheduledIn(sched') = {k \in Job : Schedulable(conf[k])}
  BY <1>2, NoValueAssumption DEF ScheduledIn
<1>4. WriteNextRun(ScheduledIn(sched'), sched')
  BY <1>1 DEF Start
<1>5. \A k \in ScheduledIn(sched') : sched'[k].left \in 0..Cycle
  BY <1>1, <1>2, <1>3
<1>6. ScheduledIn(sched') \in SUBSET Job
  BY DEF ScheduledIn
<1>7. /\ nextFile' \in [Job -> 0..Cycle]
      /\ \A k \in ScheduledIn(sched') : nextFile'[k] \in {Cycle, Ahead(sched'[k].left)}
  BY <1>4, <1>5, <1>6, Written
<1>8. ASSUME NEW k \in Job PROVE Timely(k)' /\ Matches(k)'
  <2>1. Schedulable(conf[k])' <=> Schedulable(conf[k])
    BY <1>1, ClockStands DEF Schedulable
  <2> QED
    BY <1>1, <1>2, <1>3, <1>7, <2>1, ClockStands, NoValueAssumption DEF Timely, Matches
<1> QED
  BY <1>2, <1>7, <1>8

\* The reload ticker in a tick of the clock.
LEMMA TickerStep ==
  ASSUME TypeOK, Tick
  PROVE  \/ /\ ~Ticking
            /\ reloadIn' = reloadIn /\ reloadDue' = reloadDue /\ ticked' = ticked
         \/ reloadIn' = ReloadEvery /\ reloadDue' = TRUE /\ ticked' = TRUE
         \/ /\ reloadIn > 1 /\ reloadIn' = reloadIn - 1
            /\ reloadDue' = reloadDue /\ ticked' = ticked
<1>1. reloadIn = 1 \/ reloadIn > 1
  BY ClockAssumption DEF TypeOK
<1>2. CASE ~Ticking
  BY <1>2 DEF Tick
<1>3. CASE Ticking /\ reloadIn = 1
  BY <1>3 DEF Tick
<1>4. CASE Ticking /\ reloadIn > 1
  BY <1>4 DEF Tick
<1> QED
  BY <1>1, <1>2, <1>3, <1>4

\* A tick brings every time nearer.
LEMMA TickStep ==
  ASSUME TypeOK, \A k \in Job : Timely(k), Tick
  PROVE  /\ clock' \in Clock
         /\ sched' \in Entries
         /\ \A k \in Job : Timely(k)' /\ (Matches(k) => Matches(k)')
<1>1. /\ clock' = Ahead(1) /\ nextFile' = nextFile /\ conf' = conf
      /\ clock \in Clock /\ sched \in Entries /\ conf \in [Job -> Conf \cup {NoConf}]
  BY DEF Tick, TypeOK, Entries
<1>2. clock' \in Clock
  BY <1>1, AheadType, ClockAssumption
<1>3. \A k \in Job : sched'[k] = IF sched[k] = Unscheduled \/ Due(k) THEN sched[k]
                                 ELSE [sched[k] EXCEPT !.left = @ - 1]
  BY DEF Tick
<1>4. ASSUME NEW k \in Job, sched[k] # Unscheduled, ~Due(k)
      PROVE  /\ sched[k].left \in Nat \ {0} /\ sched'[k] \in Entry
             /\ sched'[k].expr = sched[k].expr /\ sched'[k].left = sched[k].left - 1
  <2>1. sched[k] \in Entry /\ sched[k].left # 0
    BY <1>1, <1>4 DEF Due, Entries
  <2>2. sched'[k] = [sched[k] EXCEPT !.left = @ - 1]
    BY <1>3, <1>4
  <2> QED
    BY <2>1, <2>2 DEF Entry
<1>5. sched' \in Entries
  <2>1. \A k \in Job : sched'[k] \in Entry \cup {Unscheduled}
    BY <1>1, <1>3, <1>4 DEF Entries
  <2> QED
    BY <2>1 DEF Tick, Entries
<1>6. ASSUME NEW k \in Job, sched[k] # Unscheduled, ~Due(k) PROVE Timely(k)'
  <2>1. PICK x \in Expr, n \in Nat \ {0} : x = sched[k].expr /\ n = sched[k].left
    BY <1>1, <1>4, <1>6 DEF Entries, Entry
  <2>2. /\ Times[x] # {} /\ Upcoming(x) # {} /\ n = NextRunAfter(x)
        /\ nextFile[k] \in {Cycle, Ahead(n)}
    BY <1>1, <1>6, <2>1, UpcomingWhen DEF Timely
  <2>3. n \in 1..Cycle
    BY <2>2, NextRunAfterIsFirst
  <2>4. CASE n = 1
    <3>1. sched'[k].left = 0 /\ sched'[k].expr = x
      <4>1. sched[k].left = 1 /\ sched'[k].left = sched[k].left - 1
        BY <1>4, <1>6, <2>1, <2>4
      <4>2. sched'[k].expr = x
        BY <1>4, <1>6, <2>1
      <4> QED
        BY <4>1, <4>2
    <3> QED
      BY <2>2, <3>1 DEF Timely
  <2>5. CASE n > 1
    <3>1. NextRunAfter(x)' = n - 1
      BY <1>1, <2>2, <2>5, NextRunAfterTicks
    <3>2. n - 1 \in 0..(Cycle - 1) /\ (n - 1) + 1 = n
      BY <2>3, <2>5, ClockAssumption
    <3>3. Ahead(n - 1)' = Ahead(n)
      BY <1>1, <3>2, AheadTicks
    <3> QED
      BY <1>1, <1>4, <1>6, <2>1, <2>2, <3>1, <3>3 DEF Timely
  <2> QED
    BY <2>1, <2>4, <2>5
<1>7. ASSUME NEW k \in Job, sched[k] = Unscheduled \/ Due(k) PROVE Timely(k)'
  <2>1. sched'[k] = sched[k]
    BY <1>3, <1>7
  <2>2. CASE sched[k] = Unscheduled
    BY <2>1, <2>2 DEF Timely
  <2>3. CASE sched[k] # Unscheduled /\ sched[k].left = 0
    BY <2>1, <2>3 DEF Timely
  <2> QED
    BY <1>7, <2>2, <2>3 DEF Due
<1>8. ASSUME NEW k \in Job, Matches(k) PROVE Matches(k)'
  <2>1. Schedulable(conf[k])' <=> Schedulable(conf[k])
    BY <1>1, <1>2, UpcomingWhen, UpcomingWhenNext DEF Schedulable, Conf
  <2> QED
    BY <1>1, <1>3, <1>4, <1>8, <2>1, NoValueAssumption DEF Matches
<1> QED
  BY <1>2, <1>5, <1>6, <1>7, <1>8

(***************************************************************************)
(* The inductive invariant.                                                *)
(***************************************************************************)

LEMMA InitInvariant ==
  ASSUME Init
  PROVE  IInv
<1> USE ClockAssumption
<1>1. clock \in Clock /\ conf \in [Job -> Conf \cup {NoConf}] /\ sched = Built
  BY DEF Init
<1>2. Built \in Entries /\ \A k \in Job :
        IF Schedulable(conf[k])
        THEN /\ Built[k] \in Entry /\ Built[k].expr = conf[k].expr
             /\ Built[k].left = NextRunAfter(conf[k].expr)
             /\ Built[k].left \in 1..Cycle
             /\ Times[conf[k].expr] # {}
        ELSE Built[k] = Unscheduled
  BY <1>1, BuiltEntries
<1>3. nextFile = [j \in Job |-> IF sched[j] = Unscheduled THEN Cycle ELSE Ahead(sched[j].left)]
  BY DEF Init
<1>4. \A k \in Job : nextFile[k] \in 0..Cycle
  <2>1. \A k \in Job : sched[k] # Unscheduled => sched[k].left \in 0..Cycle
    BY <1>1, <1>2
  <2>2. \A k \in Job : sched[k] # Unscheduled => Ahead(sched[k].left) \in Clock
    BY <1>1, <2>1, AheadType
  <2> QED
    BY <1>3, <2>2
<1>5. TypeOK
  <2>1. nextFile \in [Job -> 0..Cycle] /\ sched \in [Job -> Entry \cup {Unscheduled}]
    BY <1>1, <1>2, <1>3, <1>4 DEF Entries
  <2>2. /\ saving \in [Job -> Conf \cup {NoConf}]
        /\ running \in [Job -> Nat] /\ ended \in [Job -> Nat]
        /\ age \in [Job -> 0..MaxAge] /\ reloadIn \in 1..ReloadEvery
    BY DEF Init
  <2> QED
    BY <1>1, <2>1, <2>2 DEF Init, TypeOK
<1>6. SkippedOnlyWhenRunning
  BY DEF Init, SkippedOnlyWhenRunning
<1>7. \A k \in Job : Timely(k) /\ Matches(k)
  BY <1>1, <1>2, <1>3, NoValueAssumption DEF Timely, Matches
<1> QED
  BY <1>5, <1>6, <1>7 DEF IInv, Applied

\* Timely looks only at the schedule, the clock and next_run.json.
LEMMA TimelyStands ==
  ASSUME \A k \in Job : Timely(k), UNCHANGED <<clock, sched, nextFile>>
  PROVE  \A k \in Job : Timely(k)'
  BY ClockStands DEF Timely

\* Every step preserves the types and the next runs.
LEMMA TimelyStep ==
  ASSUME IInv, [Next]_vars
  PROVE  TypeOK' /\ \A k \in Job : Timely(k)'
<1> USE DEF TypeOK
<1>0. TypeOK /\ \A k \in Job : Timely(k)
  BY DEF IInv
<1>1. ASSUME NEW j \in Job, Fire(j) PROVE TypeOK' /\ \A k \in Job : Timely(k)'
  <2>1. sched' \in Entries /\ nextFile' \in [Job -> 0..Cycle] /\ \A k \in Job : Timely(k)'
    BY <1>0, <1>1, RescheduleStep DEF Fire
  <2>2. running' \in [Job -> Nat]
    BY <1>0, <1>1 DEF Fire
  <2> QED
    BY <1>0, <1>1, <2>1, <2>2, Zenon DEF Fire, Entries
<1>2. ASSUME NEW j \in Job, Skip(j) PROVE TypeOK' /\ \A k \in Job : Timely(k)'
  <2>1. sched' \in Entries /\ nextFile' \in [Job -> 0..Cycle] /\ \A k \in Job : Timely(k)'
    BY <1>0, <1>2, RescheduleStep DEF Skip
  <2> QED
    BY <1>0, <1>2, <2>1 DEF Skip, Entries
<1>3. ASSUME NEW j \in Job, RunEnds(j) PROVE TypeOK' /\ \A k \in Job : Timely(k)'
  BY <1>0, <1>3, TimelyStands DEF RunEnds
<1>4. ASSUME NEW j \in Job, SendDone(j) PROVE TypeOK' /\ \A k \in Job : Timely(k)'
  BY <1>0, <1>4, TimelyStands DEF SendDone
<1>5. ASSUME NEW j \in Job, BeginSave(j) PROVE TypeOK' /\ \A k \in Job : Timely(k)'
  BY <1>0, <1>5, TimelyStands, ClockAssumption DEF BeginSave
<1>6. ASSUME NEW j \in Job, EndSave(j) PROVE TypeOK' /\ \A k \in Job : Timely(k)'
  <2>1. conf' \in [Job -> Conf \cup {NoConf}] /\ saving' \in [Job -> Conf \cup {NoConf}]
    BY <1>0, <1>6 DEF EndSave
  <2>2. age' \in [Job -> 0..MaxAge]
    BY <1>0, <1>6, ClockAssumption DEF EndSave
  <2>3. reloadCh' \in BOOLEAN
    BY <1>0, <1>6, Zenon DEF EndSave
  <2>4. \A k \in Job : Timely(k)'
    BY <1>0, <1>6, TimelyStands DEF EndSave
  <2> QED
    BY <1>0, <1>6, <2>1, <2>2, <2>3, <2>4, Zenon DEF EndSave
<1>7. ASSUME NEW j \in Job, LoseSave(j) PROVE TypeOK' /\ \A k \in Job : Timely(k)'
  BY <1>0, <1>7, TimelyStands DEF LoseSave
<1>8. ASSUME NEW j \in Job, Delete(j) PROVE TypeOK' /\ \A k \in Job : Timely(k)'
  <2>1. TypeOK'
    BY <1>0, <1>8, ClockAssumption DEF Delete
  <2>2. ASSUME NEW k \in Job PROVE Timely(k)'
    BY <1>0, <1>8, ClockStands DEF Delete, Timely
  <2> QED
    BY <2>1, <2>2
<1>9. CASE ReloadTick
  <2>1. sched' \in Entries /\ nextFile' \in [Job -> 0..Cycle] /\ \A k \in Job : Timely(k)'
    BY <1>0, <1>9, ReloadStep DEF ReloadTick
  <2> QED
    BY <1>0, <1>9, <2>1 DEF ReloadTick, Reload, Entries
<1>10. CASE ReloadOnDemand
  <2>1. sched' \in Entries /\ nextFile' \in [Job -> 0..Cycle] /\ \A k \in Job : Timely(k)'
    BY <1>0, <1>10, ReloadStep DEF ReloadOnDemand
  <2> QED
    BY <1>0, <1>10, <2>1 DEF ReloadOnDemand, Reload, Entries
<1>11. CASE JobDone
  BY <1>0, <1>11, TimelyStands DEF JobDone
<1>12. CASE Wait
  BY <1>0, <1>12, TimelyStands DEF Wait
<1>13. CASE EndWait
  BY <1>0, <1>13, TimelyStands DEF EndWait
<1>14. CASE Exit
  <2>1. \A k \in Job : Timely(k)'
    BY <1>14 DEF Exit, Timely
  <2> QED
    <3>1. reloadCh' \in BOOLEAN
      BY <1>0, <1>14, Zenon DEF Exit
    <3>2. /\ sched' \in [Job -> Entry \cup {Unscheduled}] /\ exits' \in Nat
          /\ running' \in [Job -> Nat] /\ ended' \in [Job -> Nat]
      BY <1>0, <1>14 DEF Exit
    <3> QED
      BY <1>0, <1>14, <2>1, <3>1, <3>2, Zenon DEF Exit
<1>15. CASE Start
  <2>1. sched' \in Entries /\ nextFile' \in [Job -> 0..Cycle] /\ \A k \in Job : Timely(k)'
    BY <1>0, <1>15, StartStep
  <2> QED
    BY <1>0, <1>15, <2>1, ClockAssumption DEF Start, Entries
<1>16. CASE Tick
  <2>1. clock' \in Clock /\ sched' \in Entries /\ \A k \in Job : Timely(k)'
    BY <1>0, <1>16, TickStep
  <2>2. age' \in [Job -> 0..MaxAge]
    BY <1>0, <1>16, ClockAssumption DEF Tick
  <2>3. /\ \/ reloadIn' = reloadIn \/ reloadIn' = ReloadEvery
           \/ reloadIn > 1 /\ reloadIn' = reloadIn - 1
        /\ reloadDue' \in BOOLEAN /\ ticked' \in BOOLEAN
    BY <1>0, <1>16, TickerStep, Zenon
  <2>4. reloadIn' \in 1..ReloadEvery
    <3>1. reloadIn \in 1..ReloadEvery /\ ReloadEvery \in Nat \ {0}
      BY <1>0, ClockAssumption
    <3>2. \/ reloadIn' = reloadIn \/ reloadIn' = ReloadEvery
          \/ reloadIn > 1 /\ reloadIn' = reloadIn - 1
      BY <2>3, Zenon
    <3> QED
      BY <3>1, <3>2
  <2> QED
    BY <1>0, <1>16, <2>1, <2>2, <2>3, <2>4, Zenon DEF Tick, Entries
<1>17. CASE UNCHANGED vars
  BY <1>0, <1>17, TimelyStands
<1>18. CASE EndStart
  <2>1. \A k \in Job : Timely(k)'
    BY <1>0, <1>18, TimelyStands DEF EndStart
  <2>2. reloadIn' \in 1..ReloadEvery
    BY <1>18, ClockAssumption DEF EndStart
  <2>3. ticked' \in BOOLEAN /\ loop' \in {"starting", "select", "waiting", "down"}
    BY <1>18, Zenon DEF EndStart
  <2> QED
    BY <1>0, <1>18, <2>1, <2>2, <2>3, Zenon DEF EndStart
<1> QED
  BY <1>1, <1>2, <1>3, <1>4, <1>5, <1>6, <1>7, <1>8, <1>9, <1>10, <1>11, <1>12,
     <1>13, <1>14, <1>15, <1>16, <1>17, <1>18 DEF Next

\* A goroutine that starts, ends or sends stays in flight; JobDone and Exit
\* clear runningJobID.
LEMMA SkippedStep ==
  ASSUME IInv, [Next]_vars
  PROVE  SkippedOnlyWhenRunning'
<1> USE DEF SkippedOnlyWhenRunning, InFlight
<1>0. /\ TypeOK /\ SkippedOnlyWhenRunning
      /\ running \in [Job -> Nat] /\ ended \in [Job -> Nat]
      /\ runningJobID \in Job \cup {NoJob} /\ jobDoneCh \in Job \cup {NoJob}
  BY DEF IInv, TypeOK
<1>1. ASSUME NEW j \in Job, Fire(j) PROVE SkippedOnlyWhenRunning'
  BY <1>0, <1>1 DEF Fire
<1>2. ASSUME NEW j \in Job, RunEnds(j) PROVE SkippedOnlyWhenRunning'
  BY <1>0, <1>2 DEF RunEnds
<1>3. ASSUME NEW j \in Job, SendDone(j) PROVE SkippedOnlyWhenRunning'
  BY <1>0, <1>3, JobAssumption DEF SendDone
<1>4. CASE JobDone \/ Exit
  BY <1>4 DEF JobDone, Exit
<1>5. CASE UNCHANGED <<runningJobID, running, ended, jobDoneCh>>
  BY <1>0, <1>5
<1>6. ASSUME NEW j \in Job, Skip(j) \/ BeginSave(j) \/ EndSave(j) \/ LoseSave(j) \/ Delete(j)
      PROVE  SkippedOnlyWhenRunning'
  BY <1>5, <1>6 DEF Skip, BeginSave, EndSave, LoseSave, Delete
<1>7. CASE ReloadTick \/ ReloadOnDemand \/ Wait \/ EndWait \/ Start \/ EndStart \/ Tick
  BY <1>5, <1>7 DEF ReloadTick, ReloadOnDemand, Reload, Wait, EndWait, Start, EndStart, Tick
<1> QED
  BY <1>1, <1>2, <1>3, <1>4, <1>5, <1>6, <1>7 DEF Next

\* An edit makes a job young; a reload or a start makes the schedule match.
LEMMA AppliedStep ==
  ASSUME IInv, [Next]_vars, NEW k \in Job
  PROVE  Applied(k)'
<1> USE DEF Applied, Ticking
<1>0. /\ TypeOK /\ (\A i \in Job : Timely(i)) /\ Applied(k)
      /\ ReloadEvery \in Nat \ {0} /\ reloadIn \in 1..ReloadEvery
      /\ age \in [Job -> 0..MaxAge] /\ age[k] \in 0..ReloadEvery
  BY ClockAssumption DEF IInv, TypeOK
<1>1. ASSUME NEW j \in Job, Fire(j) \/ Skip(j) PROVE Applied(k)'
  <2>1. Matches(k) => Matches(k)'
    BY <1>0, <1>1, RescheduleStep DEF Fire, Skip
  <2> QED
    BY <1>0, <1>1, <2>1 DEF Fire, Skip
<1>2. CASE UNCHANGED <<clock, conf, sched, loop, reloadDue, reloadIn, age, ticked>>
  <2>1. Schedulable(conf[k])' <=> Schedulable(conf[k])
    BY <1>2, ClockStands DEF Schedulable
  <2>2. Matches(k)' <=> Matches(k)
    BY <1>2, <2>1 DEF Matches
  <2> QED
    BY <1>0, <1>2, <2>2
<1>3. ASSUME NEW j \in Job, RunEnds(j) \/ SendDone(j) \/ LoseSave(j) PROVE Applied(k)'
  BY <1>2, <1>3 DEF RunEnds, SendDone, LoseSave
<1>4. ASSUME NEW j \in Job, BeginSave(j) \/ EndSave(j) \/ Delete(j) PROVE Applied(k)'
  <2>1. /\ age' = [age EXCEPT ![j] = 0]
        /\ \E c : conf' = [conf EXCEPT ![j] = c]
        /\ UNCHANGED <<clock, sched, loop, reloadDue, reloadIn, ticked>>
    BY <1>4 DEF BeginSave, EndSave, Delete
  <2>2. CASE k = j
    BY <1>0, <2>1, <2>2
  <2>3. CASE k # j
    <3>1. age'[k] = age[k] /\ conf'[k] = conf[k]
      BY <1>0, <2>1, <2>3 DEF TypeOK
    <3>2. Schedulable(conf[k])' <=> Schedulable(conf[k])
      BY <2>1, <3>1, ClockStands DEF Schedulable
    <3>3. Matches(k)' <=> Matches(k)
      BY <2>1, <3>1, <3>2 DEF Matches
    <3> QED
      BY <1>0, <2>1, <3>1, <3>3
  <2> QED
    BY <2>2, <2>3
<1>5. CASE ReloadTick \/ ReloadOnDemand
  <2>1. Matches(k)'
    BY <1>0, <1>5, ReloadStep DEF ReloadTick, ReloadOnDemand
  <2> QED
    BY <2>1
<1>6. CASE Start
  <2>1. Matches(k)'
    BY <1>0, <1>6, StartStep
  <2> QED
    BY <2>1
<1>7. CASE Exit \/ EndStart
  BY <1>7 DEF Exit, EndStart
<1>8. CASE JobDone
  BY <1>2, <1>8 DEF JobDone
<1>9. CASE Wait \/ EndWait
  <2>1. /\ UNCHANGED <<clock, conf, sched, reloadDue, reloadIn, age, ticked>>
        /\ loop \in {"select", "waiting"}
    BY <1>9 DEF Wait, EndWait
  <2>2. Schedulable(conf[k])' <=> Schedulable(conf[k])
    BY <2>1, ClockStands DEF Schedulable
  <2>3. Matches(k)' <=> Matches(k)
    BY <2>1, <2>2 DEF Matches
  <2> QED
    BY <1>0, <2>1, <2>3
<1>10. CASE Tick
  <2>1. Matches(k) => Matches(k)'
    BY <1>0, <1>10, TickStep
  <2>2. loop' = loop
    BY <1>10 DEF Tick
  <2>3. age'[k] = IF age[k] < MaxAge THEN age[k] + 1 ELSE MaxAge
    BY <1>10 DEF Tick
  <2>4. CASE ~Ticking
    BY <2>2, <2>4
  <2>5. CASE reloadDue' = TRUE
    BY <2>5
  <2>6. CASE /\ reloadIn > 1 /\ reloadIn' = reloadIn - 1
             /\ reloadDue' = reloadDue /\ ticked' = ticked
    <3>1. age[k] + reloadIn <= ReloadEvery => age'[k] + reloadIn' <= ReloadEvery
      BY <1>0, <2>3, <2>6
    <3> QED
      BY <1>0, <2>1, <2>2, <2>6, <3>1, Zenon
  <2> QED
    BY <1>0, <1>10, <2>4, <2>5, <2>6, TickerStep
<1>11. CASE UNCHANGED vars
  BY <1>2, <1>11
<1> QED
  BY <1>1, <1>3, <1>4, <1>5, <1>6, <1>7, <1>8, <1>9, <1>10, <1>11 DEF Next

\* The schedule, next_run.json, runningJobID and the files stay in the relation
\* IInv describes, for any jobs, schedules and interval.
THEOREM SchedulerInvariant == Spec => []IInv
<1>1. Init => IInv
  BY InitInvariant
<1>2. IInv /\ [Next]_vars => IInv'
  <2> SUFFICES ASSUME IInv, [Next]_vars PROVE IInv'
    OBVIOUS
  <2> QED
    BY TimelyStep, SkippedStep, AppliedStep DEF IInv
<1> QED
  BY <1>1, <1>2, PTL DEF Spec

\* The types of the scheduler's state.
THEOREM TypeCorrect == Spec => []TypeOK
<1>1. IInv => TypeOK
  BY DEF IInv
<1> QED
  BY <1>1, SchedulerInvariant, PTL

\* Reloads, restarts, skips and edits never leave a next run that is not the
\* first time of the job's schedule.
THEOREM NextRunsAreNext == Spec => []NextRunIsNext
<1>1. IInv => NextRunIsNext
  BY DEF IInv, Timely, NextRunIsNext
<1> QED
  BY <1>1, SchedulerInvariant, PTL

\* next_run.json never shows another time than the one the loop will fire at.
THEOREM NextFilesAgree == Spec => []NextFileAgrees
<1>1. IInv => NextFileAgrees
  BY DEF IInv, Timely, NextFileAgrees
<1> QED
  BY <1>1, SchedulerInvariant, PTL

\* No run is skipped for one that is over, for any number of jobs.
THEOREM SkipsAreJustified == Spec => []SkippedOnlyWhenRunning
<1>1. IInv => SkippedOnlyWhenRunning
  BY DEF IInv
<1> QED
  BY <1>1, SchedulerInvariant, PTL

\* Once its ticker has ticked, the idle loop works with what was on disk a reload
\* interval ago, unless it has changed since: however long the update or the
\* backup took that the daemon began with.
THEOREM EditsReachTheSchedule == Spec => []EditsApplied
<1>1. ASSUME IInv PROVE EditsApplied
  <2> SUFFICES ASSUME NEW j \in Job, loop = "select", ticked, ~reloadDue,
                      age[j] = MaxAge
               PROVE  Matches(j)
    BY DEF EditsApplied
  <2>1. Applied(j) /\ reloadIn \in 1..ReloadEvery /\ ReloadEvery \in Nat
    BY <1>1, ClockAssumption DEF IInv, TypeOK
  <2>2. ~(age[j] + reloadIn <= ReloadEvery)
    BY <2>1
  <2> QED
    BY <2>1, <2>2 DEF Applied, Ticking
<1> QED
  BY <1>1, SchedulerInvariant, PTL
(***************************************************************************)
(* A node with one job.                                                    *)
(***************************************************************************)

\* runningJobID and jobDoneCh know one job at a time.
OneJob == \A i, j \in Job : i = j

\* Where there is one job, every step keeps runningJobID in step with it.
LEMMA RunningStep ==
  ASSUME OneJob, TypeOK, RunningIsKnown, [Next]_vars
  PROVE  RunningIsKnown'
<1> USE JobAssumption DEF OneJob, TypeOK, RunningIsKnown, InFlight
<1>1. ASSUME NEW j \in Job, Fire(j) PROVE RunningIsKnown'
  BY <1>1 DEF Fire
<1>2. ASSUME NEW j \in Job, RunEnds(j) PROVE RunningIsKnown'
  BY <1>2 DEF RunEnds
<1>3. ASSUME NEW j \in Job, SendDone(j) PROVE RunningIsKnown'
  BY <1>3 DEF SendDone
<1>4. ASSUME JobDone PROVE RunningIsKnown'
  BY <1>4 DEF JobDone
<1>5. ASSUME Exit PROVE RunningIsKnown'
  BY <1>5 DEF Exit
<1>6. ASSUME UNCHANGED <<runningJobID, running, ended, jobDoneCh>> PROVE RunningIsKnown'
  BY <1>6
<1>7. ASSUME NEW j \in Job, Skip(j) \/ BeginSave(j) \/ EndSave(j) \/ LoseSave(j) \/ Delete(j)
      PROVE  UNCHANGED <<runningJobID, running, ended, jobDoneCh>>
  BY <1>7 DEF Skip, BeginSave, EndSave, LoseSave, Delete
<1>8. ASSUME ReloadTick \/ ReloadOnDemand \/ Wait \/ EndWait \/ Start \/ EndStart \/ Tick
      PROVE  UNCHANGED <<runningJobID, running, ended, jobDoneCh>>
  BY <1>8 DEF ReloadTick, ReloadOnDemand, Reload, Wait, EndWait, Start, EndStart, Tick
<1>9. CASE UNCHANGED vars
  BY <1>6, <1>9
<1> QED
  BY <1>1, <1>2, <1>3, <1>4, <1>5, <1>6, <1>7, <1>8, <1>9 DEF Next

\* On a node with one job the daemon never runs it twice at a time, whatever
\* is edited, reloaded, skipped, waited for or restarted (runningJobID).
THEOREM SingleJobNeverOverlaps == OneJob => (Spec => []NoOverlap)
<1> SUFFICES ASSUME OneJob PROVE Spec => []NoOverlap
  OBVIOUS
<1>1. Init => RunningIsKnown
  BY JobAssumption DEF Init, RunningIsKnown, InFlight
<1>2. TypeOK /\ RunningIsKnown /\ [Next]_vars => RunningIsKnown'
  BY RunningStep
<1>3. TypeOK /\ RunningIsKnown => NoOverlap
  BY DEF TypeOK, RunningIsKnown, InFlight, NoOverlap
<1> QED
  BY <1>1, <1>2, <1>3, TypeCorrect, PTL DEF Spec

(***************************************************************************)
(* Only a reload drops a run.                                              *)
(***************************************************************************)

\* Nothing is scheduled while no daemon runs.
DownIsEmpty == loop = "down" => \A j \in Job : sched[j] = Unscheduled

\* No reload is ready while a run is due.
ReloadsOffBeat == (\E j \in Job : Due(j)) => ~reloadDue /\ ~reloadCh

\* Only the start of a daemon fills the schedule that its end has emptied.
LEMMA DownStep ==
  ASSUME DownIsEmpty, [Next]_vars
  PROVE  DownIsEmpty'
<1> USE DEF DownIsEmpty
<1>1. ASSUME NEW j \in Job, Fire(j) \/ Skip(j) PROVE DownIsEmpty'
  BY <1>1 DEF Fire, Skip
<1>2. ASSUME NEW j \in Job, RunEnds(j) \/ SendDone(j) \/ BeginSave(j) \/ EndSave(j)
                             \/ LoseSave(j) \/ Delete(j)
      PROVE  DownIsEmpty'
  BY <1>2 DEF RunEnds, SendDone, BeginSave, EndSave, LoseSave, Delete
<1>3. ASSUME ReloadTick \/ ReloadOnDemand PROVE DownIsEmpty'
  BY <1>3 DEF ReloadTick, ReloadOnDemand, Reload
<1>4. ASSUME JobDone \/ Wait \/ EndWait \/ Exit \/ Start \/ EndStart PROVE DownIsEmpty'
  BY <1>4 DEF JobDone, Wait, EndWait, Exit, Start, EndStart
<1>5. ASSUME Tick PROVE DownIsEmpty'
  BY <1>5 DEF Tick
<1>6. CASE UNCHANGED vars
  BY <1>6
<1> QED
  BY <1>1, <1>2, <1>3, <1>4, <1>5, <1>6 DEF Next

\* A step that takes a due run of an unchanged job off the schedule starts it
\* or skips it for one that is not over.
LEMMA DueStep ==
  ASSUME IInv, DownIsEmpty, ReloadsOffBeat, [Next]_vars,
         NEW j \in Job, Due(j), sched'[j] # sched[j], loop' # "down"
  PROVE  running'[j] > running[j] \/ InFlight(j) > 0
<1>1. TypeOK /\ SkippedOnlyWhenRunning
  BY DEF IInv
<1>2. ASSUME NEW k \in Job, Fire(k) PROVE running'[j] > running[j]
  <2>1. k = j
    BY <1>1, <1>2 DEF Fire, Reschedule, Rescheduled, TypeOK
  <2> QED
    BY <1>1, <1>2, <2>1 DEF Fire, TypeOK
<1>3. ASSUME NEW k \in Job, Skip(k) PROVE InFlight(j) > 0
  <2>1. k = j
    BY <1>1, <1>3 DEF Skip, Reschedule, Rescheduled, TypeOK
  <2>2. runningJobID = j
    BY <1>3, <2>1 DEF Skip
  <2> QED
    BY <1>1, <2>2, JobAssumption DEF SkippedOnlyWhenRunning
<1>4. ASSUME NEW k \in Job, RunEnds(k) \/ SendDone(k) \/ BeginSave(k) \/ EndSave(k)
                             \/ LoseSave(k) \/ Delete(k)
      PROVE  FALSE
  BY <1>4 DEF RunEnds, SendDone, BeginSave, EndSave, LoseSave, Delete
<1>5. ASSUME ReloadTick \/ ReloadOnDemand PROVE FALSE
  BY <1>5 DEF ReloadTick, ReloadOnDemand, ReloadsOffBeat
<1>6. ASSUME JobDone \/ Wait \/ EndWait \/ Exit \/ EndStart PROVE FALSE
  BY <1>6 DEF JobDone, Wait, EndWait, Exit, EndStart
<1>7. ASSUME Start PROVE FALSE
  BY <1>7 DEF Start, DownIsEmpty, Due
<1>8. ASSUME Tick PROVE FALSE
  BY <1>8 DEF Tick, Due
<1>9. CASE UNCHANGED vars
  BY <1>9
<1> QED
  BY <1>2, <1>3, <1>4, <1>5, <1>6, <1>7, <1>8, <1>9 DEF Next

\* As long as no reload is ready while a run is due, every due run is started
\* or skipped for one that is not over, for any jobs and schedules: nothing
\* but a reload drops a run (reload's nextRun.After(now)).
THEOREM OnlyReloadsDropRuns == Spec /\ []ReloadsOffBeat => DueRunsFire
<1>1. Init => DownIsEmpty
  BY DEF Init, DownIsEmpty
<1>2. DownIsEmpty /\ [Next]_vars => DownIsEmpty'
  BY DownStep
<1>3. IInv /\ DownIsEmpty /\ ReloadsOffBeat /\ [Next]_vars =>
        [\A j \in Job :
           Due(j) /\ sched'[j] # sched[j] /\ conf[j] # NoConf /\ conf[j].enabled
             /\ conf[j].expr = sched[j].expr /\ loop' # "down"
           => running'[j] > running[j] \/ InFlight(j) > 0]_vars
  BY DueStep
<1> QED
  BY <1>1, <1>2, <1>3, SchedulerInvariant, PTL DEF Spec, DueRunsFire

=============================================================================
