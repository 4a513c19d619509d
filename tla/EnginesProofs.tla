--------------------------- MODULE EnginesProofs ----------------------------
(***************************************************************************)
(* For any files, clocks, lists, expressions, counts, tiers, days and      *)
(* bounds: the types of Settings and Engines; that a job is planned as was *)
(* chosen; that what is left of its snapshots is what its policy says;     *)
(* that a wizard's job keeps its passwords; that what the last successful  *)
(* run saved is in its place; and that a restore delivers what it took.    *)
(***************************************************************************)
EXTENDS Engines, FiniteSetTheorems, WellFoundedInduction, TLAPS

(***************************************************************************)
(* Types.                                                                  *)
(***************************************************************************)
RetentionType ==
  [mode : {"none", "keep-last", "keep-within", "tiered"}, last : Int, within : Nat,
   keep : [Tier -> Int]]

JobType ==
  [program : Program \cup {Blank}, source : SourceType, dest : DestType, onShare : BOOLEAN,
   enabled : BOOLEAN, sched : Schedules, ret : Retentions, checks : Checks]

\* What is assumed of the inputs that are numbers.
LEMMA Inputs ==
  /\ Doms \subseteq Int /\ Counts \subseteq Int /\ MaxEdits \in Nat
  BY Zenon, InputAssumption

LEMMA Tiers4 == Tier \subseteq {"daily", "weekly", "monthly", "yearly"}
  BY Zenon, InputAssumption

LEMMA DurationsTyped ==
  ASSUME NEW d \in Durations
  PROVE  d[1] \in Int
  BY Zenon, InputAssumption

\* A duration of v1 becomes a number.
LEMMA CountTyped ==
  ASSUME NEW d \in Durations, NEW t \in Tier
  PROVE  durationToCount(d, t) \in Int
<1>1. PICK n : n = d[1]
  OBVIOUS
<1>2. PICK u : u = d[2]
  OBVIOUS
<1>3. n \in Int
  BY <1>1, DurationsTyped
<1>4. t \in {"daily", "weekly", "monthly", "yearly"}
  BY Tiers4
<1>5. \A m \in Int : AtLeastOne(m) \in Int
  BY DEF AtLeastOne
<1>6. /\ n * 7 \in Int /\ n * 30 \in Int /\ n * 365 \in Int /\ n * 4 \in Int
      /\ n * 52 \in Int /\ n * 12 \in Int
      /\ AtLeastOne(n \div 7) \in Int /\ AtLeastOne(n \div 4) \in Int
  BY <1>3, <1>5
<1> QED
  BY <1>1, <1>2, <1>3, <1>4, <1>6 DEF durationToCount

\* The policies that the doors let in have the shape of one.
LEMMA RetentionsTyped == Retentions \subseteq RetentionType
<1>1. /\ Positive \subseteq Nat /\ Positive \subseteq Int
      /\ Tiers \subseteq [Tier -> Int] /\ NoTiers \in [Tier -> Int]
  <2>1. \A n \in Positive : n \in Nat
    <3>1. \A n \in Positive : n \in Int /\ n > 0
      BY Zenon, Inputs DEF Positive
    <3> QED
      BY <3>1
  <2>2. Tiers \subseteq [Tier -> Int]
    BY Inputs DEF Tiers
  <2>3. NoTiers \in [Tier -> Int]
    BY DEF NoTiers
  <2> QED
    BY <2>1, <2>2, <2>3
<1>2. KeepAll \in RetentionType
  BY <1>1 DEF KeepAll, Retention, RetentionType
<1>3. \A n \in Positive \cup {1} : KeepLast(n) \in RetentionType
  BY <1>1 DEF KeepLast, Retention, RetentionType
<1>4. \A n \in Positive : KeepWithin(n) \in RetentionType
  BY <1>1 DEF KeepWithin, Retention, RetentionType
<1>5. \A k \in [Tier -> Int], n \in Nat : Tiered(k, n) \in RetentionType
  BY DEF Tiered, Retention, RetentionType
<1>6. \A d \in [Tier -> Durations] :
        Tiered([t \in Tier |-> durationToCount(d[t], t)], 0) \in RetentionType
  BY <1>5, CountTyped
<1>7. /\ PromptRetention("restic", Manual) \subseteq RetentionType
      /\ AllTiered \subseteq RetentionType
  BY <1>1, <1>2, <1>3, <1>5 DEF PromptRetention, promptTiered, AllTiered
<1>8. BuildRetention \subseteq RetentionType
  BY <1>1, <1>2, <1>3, <1>4, <1>5 DEF BuildRetention
<1>9. ConvertRetention \subseteq RetentionType
  BY <1>1, <1>2, <1>3, <1>6 DEF ConvertRetention
<1> QED
  BY <1>7, <1>8, <1>9 DEF Retentions

\* Every door's policies are among those.
LEMMA PromptsRetentions ==
  ASSUME NEW p, NEW s
  PROVE  PromptRetention(p, s) \subseteq Retentions
<1>1. promptTiered(s) \subseteq AllTiered
  BY DEF promptTiered, AllTiered
<1>2. KeepAll \in BuildRetention /\ \A n \in Positive : KeepLast(n) \in BuildRetention
  BY DEF BuildRetention
<1> QED
  BY <1>1, <1>2 DEF PromptRetention, Retentions

LEMMA JobTyped ==
  ASSUME NEW p \in Program, NEW src \in SourceType, NEW dst \in DestType, NEW on \in BOOLEAN,
         NEW s \in Schedules, NEW r \in Retentions, NEW c \in Checks
  PROVE  Job(p, src, dst, on, s, r, c) \in JobType
  BY DEF Job, JobType

(***************************************************************************)
(* What a command does to the job, its passwords and what was chosen: it   *)
(* makes the job, edits it, copies it or deletes it.                       *)
(***************************************************************************)
Made ==
  \E from \in {"menu", "api", "v1"}, j \in JobType :
    /\ j.program \in Program
    /\ toml' = j /\ door' = <<from, j.program>>
    /\ chosen' = j.sched /\ backedOut' = backedOut
    /\ secrets' \subseteq Needs(j)
    /\ from = "menu" => secrets' = Needs(j)

Edited ==
  /\ toml # NoJob
  /\ toml' \in JobType /\ toml'.source = toml.source /\ toml'.dest = toml.dest
  /\ secrets' = secrets /\ door' = door
  /\ backedOut' \subseteq Setting /\ chosen' \in Schedules
  /\ \/ /\ toml'.sched = toml.sched /\ chosen' = chosen
        /\ "schedule" \in backedOut => "schedule" \in backedOut'
     \/ toml'.sched = chosen'
     \/ "schedule" \in backedOut'

SettingsInv ==
  /\ toml = NoJob \/ toml \in JobType
  /\ secrets \subseteq Secret
  /\ door \in {"menu", "api", "v1", "copy"} \X Program
  /\ chosen \in Schedules
  /\ backedOut \subseteq Setting /\ edits \in 0..MaxEdits

LEMMA NeedsTyped ==
  ASSUME NEW j
  PROVE  Needs(j) \subseteq Secret
  BY DEF Needs, Secret

LEMMA ManualTyped == Manual \in PromptSchedule /\ KeepAll \in Retentions /\ "off" \in Checks
  BY DEF PromptSchedule, Retentions, BuildRetention, Checks

LEMMA MakingStep ==
  ASSUME CreateWizard \/ ApiCreate \/ ImportLegacy
  PROVE  Made
<1>1. CASE CreateWizard
  <2>1. PICK p \in Program, src \in SourceType, s \in PromptSchedule,
             c \in PromptNotifications :
          \E dst \in Destinations(p), r \in PromptRetention(p, s) :
            LET j == Job(p, src, dst, dst = "share", s, r, c)
            IN  Creates("menu", j, Needs(j))
    BY <1>1 DEF CreateWizard
  <2>0. PICK dst \in Destinations(p), r \in PromptRetention(p, s) :
          LET j == Job(p, src, dst, dst = "share", s, r, c)
          IN  Creates("menu", j, Needs(j))
    BY <2>1
  <2> DEFINE j == Job(p, src, dst, dst = "share", s, r, c)
  <2>2. j \in JobType
    <3>1. dst \in DestType /\ s \in Schedules /\ r \in Retentions /\ c \in Checks
          /\ (dst = "share") \in BOOLEAN
      BY PromptsRetentions DEF Destinations, DestType, Schedules, PromptNotifications, Checks
    <3> QED
      BY <3>1, JobTyped
  <2>3. j.program = p
    BY DEF Job
  <2> HIDE DEF j
  <2>4. Creates("menu", j, Needs(j))
    BY <2>0 DEF j
  <2> QED
    BY <2>2, <2>3, <2>4 DEF Made, Creates
<1>2. CASE ApiCreate
  <2>1. PICK p \in Program, on \in BOOLEAN : \E dst \in Destinations(p) :
          LET j == Job(p, "local", dst, dst = "share" /\ on, Manual, KeepAll, "off")
          IN  \E k \in SUBSET Needs(j) : Creates("api", j, k)
    BY <1>2 DEF ApiCreate
  <2>0. PICK dst \in Destinations(p) :
          LET j == Job(p, "local", dst, dst = "share" /\ on, Manual, KeepAll, "off")
          IN  \E k \in SUBSET Needs(j) : Creates("api", j, k)
    BY <2>1
  <2> DEFINE j == Job(p, "local", dst, dst = "share" /\ on, Manual, KeepAll, "off")
  <2>2. j \in JobType
    <3>1. dst \in DestType /\ "local" \in SourceType /\ Manual \in Schedules
          /\ (dst = "share" /\ on) \in BOOLEAN
      BY ManualTyped DEF Destinations, DestType, SourceType, Schedules
    <3> QED
      BY <3>1, JobTyped, ManualTyped
  <2>3. j.program = p
    BY DEF Job
  <2> HIDE DEF j
  <2>4. PICK k \in SUBSET Needs(j) : Creates("api", j, k)
    BY <2>0 DEF j
  <2> QED
    BY <2>2, <2>3, <2>4 DEF Made, Creates
<1>3. CASE ImportLegacy
  <2>1. PICK p \in Program, src \in SourceType, dst \in DestType, s \in ConvertSchedule,
             r \in ConvertRetention, c \in {"off", "on"} :
          LET j == Job(p, src, dst, FALSE, s, r, c)
          IN  \E k \in SUBSET (Needs(j) \ {"dest"}) : Creates("v1", j, k)
    BY <1>3 DEF ImportLegacy
  <2> DEFINE j == Job(p, src, dst, FALSE, s, r, c)
  <2>2. j \in JobType
    <3>1. s \in Schedules /\ r \in Retentions /\ c \in Checks /\ FALSE \in BOOLEAN
      BY DEF Schedules, Retentions, Checks
    <3> QED
      BY <3>1, JobTyped
  <2>3. j.program = p
    BY DEF Job
  <2> HIDE DEF j
  <2>4. PICK k \in SUBSET (Needs(j) \ {"dest"}) : Creates("v1", j, k)
    BY <2>1 DEF j
  <2> QED
    BY <2>2, <2>3, <2>4 DEF Made, Creates
<1> QED
  BY <1>1, <1>2, <1>3

\* A setting other than the schedule.
LEMMA KeptStep ==
  ASSUME SettingsInv, NEW j \in JobType, Save(j), UNCHANGED chosen,
         backedOut' \subseteq Setting, backedOut \ {"program", "enabled"} \subseteq backedOut',
         j.source = toml.source, j.dest = toml.dest, j.sched = toml.sched
  PROVE  Edited
  BY DEF Edited, Save, SettingsInv

LEMMA ChoosingStep ==
  ASSUME SettingsInv, NEW s \in Schedules, Chooses(s)
  PROVE  Edited
<1>1. toml \in JobType /\ toml # NoJob
  BY DEF SettingsInv, Chooses, Save
<1> DEFINE j == [toml EXCEPT !.sched = s]
<1>2. j \in JobType /\ j.source = toml.source /\ j.dest = toml.dest /\ j.sched = s
  BY <1>1 DEF JobType
<1>3. /\ toml' = j /\ chosen' = s /\ backedOut' \subseteq backedOut
      /\ secrets' = secrets /\ door' = door
  BY DEF Chooses, Save
<1> HIDE DEF j
<1> QED
  BY <1>1, <1>2, <1>3 DEF Edited, SettingsInv

LEMMA EditingStep ==
  ASSUME SettingsInv,
         \/ ConfigureSchedule \/ Reconfigure \/ ApiScheduleSet \/ ApiRetentionSet
         \/ ApiNotificationsSet \/ ApiEdit \/ ApiEnableDisable
  PROVE  Edited
<1> USE DEF Kept
<1>0. /\ PromptSchedule \subseteq Schedules /\ BuildSchedule \subseteq Schedules
      /\ Emptied \in Schedules
      /\ \A p, s : PromptRetention(p, s) \subseteq Retentions
      /\ BuildRetention \subseteq Retentions
      /\ PromptNotifications \subseteq Checks
      /\ backedOut \subseteq Setting
  BY PromptsRetentions DEF Schedules, Retentions, PromptNotifications, Checks, SettingsInv
<1>1. toml # NoJob /\ toml \in JobType
  BY DEF SettingsInv, ConfigureSchedule, Reconfigure, ApiScheduleSet, ApiRetentionSet,
         ApiNotificationsSet, ApiEdit, ApiEnableDisable, ReconfigureProgram,
         ReconfigureDestination, ReconfigureSchedule, ConfigureRetention,
         ConfigureNotifications, ReconfigureEnabled, Chooses, Save
<1>2. \A r \in Retentions : LET j == [toml EXCEPT !.ret = r]
        IN j \in JobType /\ j.source = toml.source /\ j.dest = toml.dest /\ j.sched = toml.sched
  BY <1>1 DEF JobType
<1>3. \A c \in Checks : LET j == [toml EXCEPT !.checks = c]
        IN j \in JobType /\ j.source = toml.source /\ j.dest = toml.dest /\ j.sched = toml.sched
  BY <1>1 DEF JobType
<1>4. \A on \in BOOLEAN : LET j == [toml EXCEPT !.onShare = on /\ toml.dest = "share"]
        IN j \in JobType /\ j.source = toml.source /\ j.dest = toml.dest /\ j.sched = toml.sched
  <2> TAKE on \in BOOLEAN
  <2>1. (on /\ toml.dest = "share") \in BOOLEAN
    OBVIOUS
  <2> QED
    BY <1>1, <2>1 DEF JobType
<1>5. \A b \in BOOLEAN : LET j == [toml EXCEPT !.enabled = b]
        IN j \in JobType /\ j.source = toml.source /\ j.dest = toml.dest /\ j.sched = toml.sched
  BY <1>1 DEF JobType
<1>6. \A p \in Program \cup {Blank} : LET j == [toml EXCEPT !.program = p]
        IN j \in JobType /\ j.source = toml.source /\ j.dest = toml.dest /\ j.sched = toml.sched
  BY <1>1 DEF JobType
<1>7. CASE ConfigureSchedule \/ ApiScheduleSet \/ ReconfigureSchedule
  <2>1. CASE \E s \in Schedules : Chooses(s)
    BY <2>1, ChoosingStep
  <2>2. CASE Save([toml EXCEPT !.sched = Emptied]) /\ Loses("schedule")
    <3> DEFINE j == [toml EXCEPT !.sched = Emptied]
    <3>1. j \in JobType /\ j.source = toml.source /\ j.dest = toml.dest
      BY <1>0, <1>1 DEF JobType
    <3>2. toml' = j /\ secrets' = secrets /\ door' = door
      BY <2>2 DEF Save
    <3>3. backedOut' = backedOut \cup {"schedule"} /\ chosen' = chosen
      BY <2>2 DEF Loses
    <3> HIDE DEF j
    <3> QED
      BY <1>0, <1>1, <3>1, <3>2, <3>3 DEF Edited, SettingsInv, Setting
  <2> QED
    BY <1>0, <1>7, <2>1, <2>2 DEF ConfigureSchedule, ApiScheduleSet, ReconfigureSchedule
<1>8. CASE ConfigureRetention \/ ApiRetentionSet
  <2>1. PICK r \in Retentions : Save([toml EXCEPT !.ret = r]) /\ UNCHANGED <<chosen, backedOut>>
    BY <1>0, <1>8 DEF ConfigureRetention, ApiRetentionSet
  <2> QED
    BY <1>0, <1>2, <2>1, KeptStep
<1>9. CASE ConfigureNotifications \/ ApiNotificationsSet
  <2>1. PICK c \in Checks : Save([toml EXCEPT !.checks = c]) /\ UNCHANGED <<chosen, backedOut>>
    BY <1>0, <1>9 DEF ConfigureNotifications, ApiNotificationsSet, Checks
  <2> QED
    BY <1>0, <1>3, <2>1, KeptStep
<1>10. CASE ApiEdit \/ ReconfigureDestination
  <2>1. PICK on \in BOOLEAN : /\ Save([toml EXCEPT !.onShare = on /\ toml.dest = "share"])
                              /\ UNCHANGED <<chosen, backedOut>>
    BY <1>10 DEF ApiEdit, ReconfigureDestination
  <2> QED
    BY <1>0, <1>4, <2>1, KeptStep
<1>11. CASE ApiEnableDisable \/ ReconfigureEnabled
  <2>1. PICK b \in BOOLEAN : /\ Save([toml EXCEPT !.enabled = b]) /\ UNCHANGED chosen
                             /\ \/ backedOut' = backedOut \/ backedOut' = backedOut \ {"enabled"}
                                \/ backedOut' = backedOut \cup {"enabled"}
    BY <1>11 DEF ApiEnableDisable, ReconfigureEnabled, Loses
  <2>2. backedOut' \subseteq Setting /\ backedOut \ {"program", "enabled"} \subseteq backedOut'
    BY <1>0, <2>1 DEF Setting
  <2> QED
    BY <1>5, <2>1, <2>2, KeptStep
<1>12. CASE ReconfigureProgram
  <2>1. PICK p \in Program \cup {Blank} :
          /\ Save([toml EXCEPT !.program = p]) /\ UNCHANGED chosen
          /\ \/ backedOut' = backedOut \ {"program"}
             \/ backedOut' = backedOut \cup {"program"}
    BY <1>12 DEF ReconfigureProgram, Loses
  <2>2. backedOut' \subseteq Setting /\ backedOut \ {"program", "enabled"} \subseteq backedOut'
    BY <1>0, <2>1 DEF Setting
  <2> QED
    BY <1>6, <2>1, <2>2, KeptStep
<1> QED
  BY <1>7, <1>8, <1>9, <1>10, <1>11, <1>12 DEF Reconfigure

LEMMA CommandStep ==
  ASSUME SettingsInv, NextSettings
  PROVE  /\ edits' = edits + 1 /\ edits' \in 0..MaxEdits
         /\ Made \/ Edited \/ ImportRenamed \/ DeleteJob
<1>1. edits' = edits + 1 /\ edits' \in 0..MaxEdits
  BY Inputs DEF NextSettings, SettingsInv
<1> QED
  BY <1>1, MakingStep, EditingStep DEF NextSettings

\* The settings have their types.
LEMMA SettingsStart ==
  ASSUME InitSettings
  PROVE  SettingsInv
  BY ManualTyped, Inputs DEF InitSettings, SettingsInv, Schedules, Program

LEMMA SettingsKept ==
  ASSUME SettingsInv, NextSettings
  PROVE  SettingsInv'
<1>0. /\ edits' \in 0..MaxEdits
      /\ Made \/ Edited \/ ImportRenamed \/ DeleteJob
  BY CommandStep
<1>1. CASE Made
  <2>1. PICK from \in {"menu", "api", "v1"}, j \in JobType :
          /\ j.program \in Program /\ toml' = j /\ door' = <<from, j.program>>
          /\ chosen' = j.sched /\ backedOut' = backedOut /\ secrets' \subseteq Needs(j)
    BY <1>1 DEF Made
  <2>2. j.sched \in Schedules
    BY DEF JobType
  <2> QED
    BY <1>0, <2>1, <2>2, NeedsTyped DEF SettingsInv
<1>2. CASE Edited
  BY <1>0, <1>2 DEF Edited, SettingsInv
<1>3. CASE ImportRenamed
  <2>1. toml \in JobType
    BY <1>3 DEF ImportRenamed, SettingsInv
  <2>2. [toml EXCEPT !.onShare = FALSE] \in JobType
    BY <2>1 DEF JobType
  <2>3. door[2] \in Program
    BY DEF SettingsInv
  <2> QED
    BY <1>0, <1>3, <2>2, <2>3 DEF ImportRenamed, Kept, SettingsInv
<1>4. CASE DeleteJob
  BY <1>0, <1>4, ManualTyped DEF DeleteJob, SettingsInv, Schedules
<1> QED
  BY <1>0, <1>1, <1>2, <1>3, <1>4

(***************************************************************************)
(* A job is planned as its schedule says, one mode after the other.        *)
(***************************************************************************)
LEMMA DaysTyped ==
  ASSUME NEW d \in Days
  PROVE  d.dom \in 1..31 /\ d.month \in 1..12 /\ d.dow \in 0..6
<1>1. Days \subseteq [dom : 1..31, month : 1..12, dow : 0..6]
  BY Zenon, InputAssumption
<1> QED
  BY <1>1

\* A star is every value, a number is itself, and so is a set of numbers.
LEMMA ValuesOfAny ==
  ASSUME NEW min \in Int, NEW max \in Int
  PROVE  /\ Values(Any, min, max) = min..max
         /\ ValidField(Any, min, max) /\ IsStar(Any)
<1>1. Token(Star, Star, 1).lo = Star /\ Token(Star, Star, 1).hi = Star
      /\ Token(Star, Star, 1).step = 1
  BY DEF Token
<1>2. \A n \in min..max : (n - min) % 1 = 0
  OBVIOUS
<1>3. Values(Any, min, max) = {n \in min..max : (n - min) % 1 = 0}
  BY <1>1 DEF Values, Any
<1>4. Values(Any, min, max) = min..max
  BY <1>2, <1>3
<1>5. ValidField(Any, min, max) /\ IsStar(Any)
  BY <1>1 DEF ValidField, ValidToken, Any, IsStar
<1> QED
  BY <1>4, <1>5

LEMMA AnyDay ==
  /\ Values(Any, 1, 31) = 1..31 /\ Values(Any, 0, 6) = 0..6 /\ Values(Any, 1, 12) = 1..12
  /\ ValidField(Any, 1, 31) /\ ValidField(Any, 0, 6) /\ ValidField(Any, 0, 7)
  /\ ValidField(Any, 1, 12) /\ IsStar(Any)
<1>1. \A min, max \in Int : /\ Values(Any, min, max) = min..max
                            /\ ValidField(Any, min, max) /\ IsStar(Any)
  BY ValuesOfAny
<1>2. 0 \in Int /\ 1 \in Int /\ 6 \in Int /\ 7 \in Int /\ 12 \in Int /\ 31 \in Int
  OBVIOUS
<1> HIDE DEF Any
<1> QED
  BY Zenon, <1>1, <1>2

LEMMA ValuesOfNumbers ==
  ASSUME NEW min \in Nat, NEW max \in Nat, NEW S \in SUBSET (min..max)
  PROVE  /\ Values({Token(d, d, 1) : d \in S}, min, max) = S
         /\ ValidField({Token(d, d, 1) : d \in S}, min, max)
<1> DEFINE f == {Token(d, d, 1) : d \in S}
<1>1. \A d \in S : /\ Token(d, d, 1).lo = d /\ Token(d, d, 1).hi = d
                   /\ Token(d, d, 1).step = 1
  BY DEF Token
<1>2. \A d \in S : d \in Int /\ min <= d /\ d <= max /\ d # Star
  BY DEF Star
<1>3. \A d \in S : {n \in d..d : (n - d) % 1 = 0} = {d}
  BY <1>2
<1> DEFINE part(t) == LET lo == IF t.lo = Star THEN min ELSE t.lo
                          hi == IF t.lo = Star \/ (t.step > 1 /\ t.hi = t.lo) THEN max ELSE t.hi
                      IN  {n \in lo..hi : (n - lo) % t.step = 0}
<1>4. \A d \in S : part(Token(d, d, 1)) = {d}
  BY <1>1, <1>2, <1>3
<1>5. Values(f, min, max) = UNION {part(t) : t \in f}
  BY DEF Values
<1> HIDE DEF part
<1>6. UNION {part(t) : t \in f} = S
  <2>1. ASSUME NEW n \in S
        PROVE  n \in UNION {part(t) : t \in f}
    BY <1>4
  <2>2. ASSUME NEW t \in f, NEW n \in part(t)
        PROVE  n \in S
    <3>1. PICK d \in S : t = Token(d, d, 1)
      OBVIOUS
    <3> QED
      BY <1>4, <2>2, <3>1
  <2> QED
    BY <2>1, <2>2
<1>7. ValidField(f, min, max)
  BY <1>1, <1>2 DEF ValidField, ValidToken
<1> QED
  BY <1>5, <1>6, <1>7

LEMMA ValuesOfJust ==
  ASSUME NEW min \in Nat, NEW max \in Nat, NEW n \in min..max
  PROVE  Values(Just(n), min, max) = {n} /\ ValidField(Just(n), min, max)
<1>1. Just(n) = {Token(d, d, 1) : d \in {n}}
  BY DEF Just
<1>2. {n} \in SUBSET (min..max)
  OBVIOUS
<1>3. /\ Values({Token(d, d, 1) : d \in {n}}, min, max) = {n}
      /\ ValidField({Token(d, d, 1) : d \in {n}}, min, max)
  BY <1>2, ValuesOfNumbers
<1> QED
  BY <1>1, <1>3

\* The values of a field of weekdays that the library takes are weekdays.
LEMMA ValuesInRange ==
  ASSUME NEW f, \A t \in f : t.lo \in Int /\ t.hi \in Int /\ t.step \in Int,
         ValidField(f, 0, 6)
  PROVE  Values(f, 0, 6) \subseteq 0..6
<1>1. SUFFICES ASSUME NEW t \in f
               PROVE  LET lo == IF t.lo = Star THEN 0 ELSE t.lo
                          hi == IF t.lo = Star \/ (t.step > 1 /\ t.hi = t.lo) THEN 6 ELSE t.hi
                      IN  lo..hi \subseteq 0..6
  BY DEF Values
<1>2. t.lo = Star \/ (0 <= t.lo /\ t.lo <= t.hi /\ t.hi <= 6)
  BY DEF ValidField, ValidToken
<1> QED
  BY <1>2

\* A schedule with one valid expression is due when that is.
LEMMA DueOfOne ==
  ASSUME NEW s, NEW e, ToCronExpression(s) = {e}, ParseStandard(e)
  PROVE  Due(s) = When(Times(e), DaysOf(e, Values(e.dow, 0, 6)))
<1>1. {x \in ToCronExpression(s) : ParseStandard(x)} = {e}
  OBVIOUS
<1>2. (CHOOSE x \in {e} : TRUE) = e
  OBVIOUS
<1> QED
  BY <1>1, <1>2 DEF Due

\* The expression of a time of day, and of days of the month or weekdays.
TimeOfDay(c) == \E h \in 0..23, m \in 0..59 : c = <<h, m>>

FitDays(dom, dow) ==
  /\ ValidField(dom, 1, 31) /\ ValidField(dow, 0, 6) /\ ValidField(dow, 0, 7)
  /\ IsStar(dom) \/ IsStar(dow)

DaysWith(dom, W) == {d \in Days : d.dom \in Values(dom, 1, 31) /\ d.dow \in W}

LEMMA AtTime ==
  ASSUME NEW c, TimeOfDay(c), NEW dom, NEW dow, FitDays(dom, dow),
         NEW e, e = At(c, dom, dow)
  PROVE  /\ ParseStandard(e) /\ Times(e) = {c} /\ e.dow = dow
         /\ \A W : DaysOf(e, W) = DaysWith(dom, W)
<1> PICK h \in 0..23, m \in 0..59 : c = <<h, m>>
  BY DEF TimeOfDay
<1>1. /\ e.form = "fields" /\ e.minute = Just(m) /\ e.hour = Just(h)
      /\ e.dom = dom /\ e.month = Any /\ e.dow = dow
  BY DEF At
<1>0. 0 \in Nat /\ 23 \in Nat /\ 59 \in Nat
  OBVIOUS
<1>2. Values(e.hour, 0, 23) = {h} /\ ValidField(e.hour, 0, 23)
  <2>1. Values(Just(h), 0, 23) = {h} /\ ValidField(Just(h), 0, 23)
    BY <1>0, ValuesOfJust
  <2> QED
    BY <1>1, <2>1
<1>3. Values(e.minute, 0, 59) = {m} /\ ValidField(e.minute, 0, 59)
  <2>1. Values(Just(m), 0, 59) = {m} /\ ValidField(Just(m), 0, 59)
    BY <1>0, ValuesOfJust
  <2> QED
    BY <1>1, <2>1
<1>4. Values(e.month, 1, 12) = 1..12 /\ ValidField(e.month, 1, 12)
  BY <1>1, AnyDay
<1>5. ParseStandard(e)
  BY <1>1, <1>2, <1>3, <1>4 DEF ParseStandard, ValidateCron, FitDays
<1>6. Times(e) = {c}
  BY <1>2, <1>3 DEF Times
<1>7. \A d \in Days : d.month \in Values(e.month, 1, 12)
  BY <1>4, DaysTyped
<1>8. ASSUME NEW W
      PROVE  DaysOf(e, W) = DaysWith(dom, W)
  BY <1>1, <1>7 DEF DaysOf, DaysWith, FitDays
<1> QED
  BY <1>1, <1>5, <1>6, <1>8

LEMMA ClockTyped ==
  ASSUME NEW c \in Clock, c[1] \in 0..23, c[2] \in 0..59
  PROVE  TimeOfDay(c)
<1>1. c \in Int \X Int
  BY Zenon, InputAssumption
<1> QED
  BY <1>1 DEF TimeOfDay

LEMMA DailyAsMeant ==
  ASSUME NEW c \in Clock, Daily(c) \notin Misplanned, Daily(c) \in Schedules
  PROVE  Due(Daily(c)) = Meant(Daily(c))
<1> DEFINE s == Daily(c)
<1>1. s.mode = "daily" /\ s.clock = c
  BY DEF Daily, Schedule
<1>2. TimeOfDay(c)
  BY <1>1, ClockTyped DEF Misplanned
<1> HIDE DEF s
<1>0. PICK e : e = At(c, Any, Any)
  OBVIOUS
<1>3. ToCronExpression(s) = {e}
  BY <1>0, <1>1 DEF ToCronExpression
<1>4. FitDays(Any, Any)
  BY AnyDay DEF FitDays
<1>5. /\ ParseStandard(e) /\ Times(e) = {c} /\ e.dow = Any
      /\ \A W : DaysOf(e, W) = DaysWith(Any, W)
  BY <1>0, <1>2, <1>4, AtTime
<1>6. DaysWith(Any, 0..6) = Days
  BY AnyDay, DaysTyped DEF DaysWith
<1>7. Due(s) = When({c}, Days)
  <2>1. Due(s) = When(Times(e), DaysOf(e, Values(e.dow, 0, 6)))
    BY Zenon, <1>3, <1>5, DueOfOne
  <2> QED
    BY <1>5, <1>6, <2>1, AnyDay
<1>8. Meant(s) = When({c}, Days)
  BY <1>1 DEF Meant
<1> QED
  BY <1>7, <1>8 DEF s

LEMMA WeeklyAsMeant ==
  ASSUME NEW c \in Clock, NEW days \in SUBSET (1..7),
         Weekly(c, days) \notin Misplanned, Weekly(c, days) \in Schedules
  PROVE  Due(Weekly(c, days)) = Meant(Weekly(c, days))
<1> DEFINE s == Weekly(c, days)
<1>1. s.mode = "weekly" /\ s.clock = c /\ s.days = days
  BY DEF Weekly, Schedule
<1>2. TimeOfDay(c)
  BY <1>1, ClockTyped DEF Misplanned
<1>3. days \subseteq 1..6
  BY <1>1 DEF Misplanned
<1> HIDE DEF s
<1>4. {n % 7 : n \in days} = days
  <2>1. \A n \in days : n % 7 = n
    BY <1>3
  <2> QED
    BY <2>1
<1>5. Meant(s) = When({c}, {d \in Days : d.dow \in days})
  BY <1>1, <1>4 DEF Meant
<1>6. CASE days = {}
  <2>1. ToCronExpression(s) = {}
    BY <1>1, <1>6 DEF ToCronExpression
  <2>2. Due(s) = Never
    BY <2>1 DEF Due
  <2>3. {d \in Days : d.dow \in days} = {}
    BY <1>6
  <2> QED
    BY <1>5, <2>2, <2>3 DEF When, s
<1>7. CASE days # {}
  <2> DEFINE dow == {Token(d, d, 1) : d \in days}
  <2>0. PICK e : e = At(c, Any, dow)
    OBVIOUS
  <2>1. ToCronExpression(s) = {e}
    BY <1>1, <1>7, <2>0 DEF ToCronExpression
  <2>2. /\ Values(dow, 0, 6) = days /\ ValidField(dow, 0, 6) /\ ValidField(dow, 0, 7)
    <3>1. days \in SUBSET (0..6) /\ days \in SUBSET (0..7)
      BY <1>3
    <3>2. 0 \in Nat /\ 6 \in Nat /\ 7 \in Nat
      OBVIOUS
    <3> QED
      BY <3>1, <3>2, ValuesOfNumbers
  <2> HIDE DEF dow
  <2>3. FitDays(Any, dow)
    BY <2>2, AnyDay DEF FitDays
  <2>4. /\ ParseStandard(e) /\ Times(e) = {c} /\ e.dow = dow
        /\ \A W : DaysOf(e, W) = DaysWith(Any, W)
    BY <1>2, <2>0, <2>3, AtTime
  <2>5. DaysWith(Any, days) = {d \in Days : d.dow \in days}
    BY AnyDay, DaysTyped DEF DaysWith
  <2>6. Due(s) = When({c}, {d \in Days : d.dow \in days})
    <3>1. Due(s) = When(Times(e), DaysOf(e, Values(e.dow, 0, 6)))
      BY Zenon, <2>1, <2>4, DueOfOne
    <3> QED
      BY <2>2, <2>4, <2>5, <3>1
  <2> QED
    BY <1>5, <2>6 DEF s
<1> QED
  BY <1>6, <1>7

LEMMA MonthlyAsMeant ==
  ASSUME NEW c \in Clock, NEW dom \in 1..28,
         Monthly(c, dom) \notin Misplanned, Monthly(c, dom) \in Schedules
  PROVE  Due(Monthly(c, dom)) = Meant(Monthly(c, dom))
<1> DEFINE s == Monthly(c, dom)
<1>1. s.mode = "monthly" /\ s.clock = c /\ s.dom = dom
  BY DEF Monthly, Schedule
<1>2. TimeOfDay(c)
  BY <1>1, ClockTyped DEF Misplanned
<1> HIDE DEF s
<1>0. PICK e : e = At(c, Just(dom), Any)
  OBVIOUS
<1>3. ToCronExpression(s) = {e}
  BY <1>0, <1>1 DEF ToCronExpression
<1>4. Values(Just(dom), 1, 31) = {dom} /\ ValidField(Just(dom), 1, 31)
  <2>1. 1 \in Nat /\ 31 \in Nat /\ dom \in 1..31
    OBVIOUS
  <2> QED
    BY <2>1, ValuesOfJust
<1>5. FitDays(Just(dom), Any)
  BY <1>4, AnyDay DEF FitDays
<1>6. /\ ParseStandard(e) /\ Times(e) = {c} /\ e.dow = Any
      /\ \A W : DaysOf(e, W) = DaysWith(Just(dom), W)
  BY <1>0, <1>2, <1>5, AtTime
<1>7. DaysWith(Just(dom), 0..6) = {d \in Days : d.dom = dom}
  BY <1>4, DaysTyped DEF DaysWith
<1>8. Due(s) = When({c}, {d \in Days : d.dom = dom})
  <2>1. Due(s) = When(Times(e), DaysOf(e, Values(e.dow, 0, 6)))
    BY Zenon, <1>3, <1>6, DueOfOne
  <2> QED
    BY <1>6, <1>7, <2>1, AnyDay
<1>9. Meant(s) = When({c}, {d \in Days : d.dom = dom})
  BY <1>1 DEF Meant
<1> QED
  BY <1>8, <1>9 DEF s

LEMMA CustomAsMeant ==
  ASSUME NEW e \in Crons, ValidateCron(e),
         Custom(e) \notin Misplanned, Custom(e) \in Schedules
  PROVE  Due(Custom(e)) = Meant(Custom(e))
<1> DEFINE s == Custom(e)
<1>1. s.mode = "cron" /\ s.cron = e
  BY DEF Custom, Schedule
<1> HIDE DEF s
<1>2. e # NoCron
  BY DEF ValidateCron, NoCron
<1>3. ToCronExpression(s) = {e}
  BY <1>1, <1>2 DEF ToCronExpression
<1>4. /\ e.form # "Shorthand"
      /\ e.form = "fields" => ValidField(e.dow, 0, 6)
  BY <1>1 DEF Misplanned, s
<1>5. ValidField(e.dow, 0, 6)
  BY <1>4, CronAssumption DEF ValidateCron
<1>6. ParseStandard(e)
  BY <1>4 DEF ValidateCron, ParseStandard
<1> DEFINE W == Values(e.dow, 0, 6)
<1>7. W \subseteq 0..6
  BY <1>5, CronAssumption, ValuesInRange
<1> HIDE DEF W
<1>8. {n % 7 : n \in W} = W
  <2>1. \A n \in W : n % 7 = n
    BY <1>7
  <2> QED
    BY <2>1
<1>9. Due(s) = When(Times(e), DaysOf(e, W))
  BY <1>3, <1>6, DueOfOne DEF W
<1>10. Meant(s) = When(Times(e), DaysOf(e, {n % 7 : n \in W}))
  BY <1>1 DEF Meant, W
<1> QED
  BY <1>8, <1>9, <1>10 DEF s

LEMMA NeverAsMeant == Due(Manual) = Meant(Manual) /\ Due(Emptied) = Meant(Emptied)
<1>1. Manual.mode = "manual" /\ Emptied.mode = Blank /\ Blank \notin {"daily", "weekly", "monthly", "cron"}
  BY Zenon DEF Manual, Emptied, Schedule, Blank
<1>2. ToCronExpression(Manual) = {} /\ ToCronExpression(Emptied) = {}
  BY <1>1 DEF ToCronExpression
<1>3. Due(Manual) = Never /\ Due(Emptied) = Never
  BY <1>2 DEF Due
<1>4. Meant(Manual) = Never /\ Meant(Emptied) = Never
  BY <1>1 DEF Meant
<1> QED
  BY <1>3, <1>4

\* Whatever a door lets in is planned as it says, or is named as the exception.
LEMMA PlannedAsMeant == Schedules \subseteq WellPlanned \cup Misplanned
<1> SUFFICES ASSUME NEW s \in Schedules, s \notin Misplanned
             PROVE  Due(s) = Meant(s)
  BY DEF WellPlanned
<1>1. /\ validateHHMM \subseteq Clock /\ NotNegative \subseteq Clock
  BY DEF validateHHMM, NotNegative
<1>2. \A l \in DayLists : l \in SUBSET (Int \X Int)
  BY Zenon, InputAssumption
<1>3. /\ parseDayList \subseteq SUBSET (1..7)
      /\ parseDays \subseteq SUBSET (1..7)
      /\ \A l \in DayLists : parseDaysList(l) \subseteq 1..7
  <2>1. ASSUME NEW l \in DayLists, NEW n \in DaysIn(l),
               \A r \in l : 1 <= r[1] /\ r[2] <= 7
        PROVE  n \in 1..7
    <3>1. PICK r \in l : n \in r[1]..r[2]
      BY DEF DaysIn
    <3>2. r[1] \in Int /\ r[2] \in Int
      BY <1>2
    <3> QED
      BY <2>1, <3>1, <3>2
  <2>2. parseDayList \subseteq SUBSET (1..7)
    BY <2>1 DEF parseDayList
  <2>3. ASSUME NEW l \in DayLists, \A r \in l : r[1] = r[2] /\ r[1] \in 1..7
        PROVE  \A r \in l : 1 <= r[1] /\ r[2] <= 7
    BY <2>3
  <2>4. parseDays \subseteq SUBSET (1..7)
    BY <2>1, <2>3 DEF parseDays
  <2> QED
    BY <2>2, <2>4 DEF parseDaysList
<1>4. \A n \in validateIntRange(1, 28) : n \in 1..28
  BY Inputs DEF validateIntRange
<1>5. \/ s \in {Manual, Emptied}
      \/ \E c \in Clock : s = Daily(c)
      \/ \E c \in Clock, days \in SUBSET (1..7) : s = Weekly(c, days)
      \/ \E c \in Clock, dom \in 1..28 : s = Monthly(c, dom)
      \/ \E e \in Crons : ValidateCron(e) /\ s = Custom(e)
  <2>1. CASE s \in PromptSchedule
    BY <1>1, <1>3, <1>4, <2>1 DEF PromptSchedule
  <2>2. CASE s \in BuildSchedule
    BY <1>1, <1>3, <2>2 DEF BuildSchedule
  <2>3. CASE s \in ConvertSchedule
    <3>1. /\ \A l \in DayLists :
               (IF parseDaysList(l) = {} THEN {1} ELSE parseDaysList(l)) \in SUBSET (1..7)
          /\ \A dom \in Doms : (IF dom \in 1..28 THEN dom ELSE 1) \in 1..28
      BY <1>3
    <3> QED
      BY <2>3, <3>1 DEF ConvertSchedule
  <2> QED
    BY <2>1, <2>2, <2>3 DEF Schedules
<1> QED
  BY <1>5, NeverAsMeant, DailyAsMeant, WeeklyAsMeant, MonthlyAsMeant, CustomAsMeant

(***************************************************************************)
(* The invariants of the settings.                                         *)
(***************************************************************************)

\* The schedule is the one last chosen, but where going back emptied it.
ChosenInv == toml # NoJob => toml.sched = chosen \/ "schedule" \in backedOut

\* A wizard's job has the passwords of its source and destination, and those
\* of restic if it was made for restic, whatever its program is now.
PasswordInv ==
  toml # NoJob /\ door[1] = "menu" =>
    /\ Needs(toml) \ {"restic"} \subseteq secrets
    /\ door[2] = "restic" => "restic" \in secrets

LEMMA SettingsStepKeeps ==
  ASSUME SettingsInv, ChosenInv, PasswordInv, NextSettings
  PROVE  ChosenInv' /\ PasswordInv'
<1>0. Made \/ Edited \/ ImportRenamed \/ DeleteJob
  BY CommandStep
<1>1. CASE Made
  <2>1. PICK from \in {"menu", "api", "v1"}, j \in JobType :
          /\ j.program \in Program /\ toml' = j /\ door' = <<from, j.program>>
          /\ chosen' = j.sched
          /\ from = "menu" => secrets' = Needs(j)
    BY <1>1 DEF Made
  <2>2. ChosenInv'
    BY <2>1 DEF ChosenInv
  <2>3. door'[1] = from /\ door'[2] = j.program
    BY <2>1
  <2>4. j.program = "restic" => "restic" \in Needs(j)
    BY DEF Needs
  <2>5. PasswordInv'
    BY <2>1, <2>3, <2>4 DEF PasswordInv
  <2> QED
    BY <2>2, <2>5
<1>2. CASE Edited
  <2>1. ChosenInv'
    BY <1>2 DEF Edited, ChosenInv
  <2>2. Needs(toml') \ {"restic"} = Needs(toml) \ {"restic"}
    BY <1>2 DEF Edited, Needs
  <2>3. PasswordInv'
    BY <1>2, <2>2 DEF Edited, PasswordInv
  <2> QED
    BY <2>1, <2>3
<1>3. CASE ImportRenamed
  <2>1. toml \in JobType /\ toml # NoJob
    BY <1>3 DEF ImportRenamed, SettingsInv
  <2>2. toml'.sched = toml.sched /\ chosen' = chosen /\ backedOut' = backedOut
    BY <1>3, <2>1 DEF ImportRenamed, Kept, JobType
  <2>3. door'[1] = "copy"
    BY <1>3 DEF ImportRenamed
  <2> QED
    BY <2>1, <2>2, <2>3 DEF ChosenInv, PasswordInv
<1>4. CASE DeleteJob
  BY <1>4 DEF DeleteJob, ChosenInv, PasswordInv
<1> QED
  BY <1>0, <1>1, <1>2, <1>3, <1>4

(***************************************************************************)
(* What restic forget keeps.                                               *)
(***************************************************************************)

\* Snapshots that are numbered up to some number, in order.
Numbered(S) ==
  /\ \E n \in Nat : \A s \in S : s.no \in 1..n /\ s.day \in Nat
  /\ InOrder(S)

\* A non-empty set of natural numbers has a smallest element.
LEMMA Smallest ==
  ASSUME NEW S \in SUBSET Nat, S # {}
  PROVE  \E d \in S : \A e \in S : d <= e
<1>1. PICK d \in S : \A e \in S : <<e, d>> \notin OpToRel(<, Nat)
  BY WFMin, NatLessThanWellFounded
<1>2. \A e \in S : ~(e < d)
  BY <1>1 DEF OpToRel
<1> QED
  BY <1>2

LEMMA NumberedSubset ==
  ASSUME NEW S, Numbered(S), NEW T \in SUBSET S
  PROVE  Numbered(T)
  BY DEF Numbered, InOrder

LEMMA HasNewest ==
  ASSUME NEW S, Numbered(S), S # {}
  PROVE  \E s \in S : IsNewestOf(s, S)
<1>1. PICK n \in Nat : \A s \in S : s.no \in 1..n
  BY DEF Numbered
<1> DEFINE D == {d \in Nat : \E s \in S : d = n - s.no}
<1>2. D # {}
  <2>1. PICK s \in S : TRUE
    OBVIOUS
  <2>2. n - s.no \in D
    BY <1>1
  <2> QED
    BY <2>2
<1>3. PICK d \in D : \A e \in D : d <= e
  BY <1>2, Smallest
<1>4. PICK s \in S : d = n - s.no
  OBVIOUS
<1>5. ASSUME NEW x \in S
      PROVE  x.no <= s.no
  <2>1. n - x.no \in D
    BY <1>1
  <2>2. n - s.no <= n - x.no
    BY <1>3, <1>4, <2>1
  <2> QED
    BY <1>1, <2>2
<1> QED
  BY <1>5 DEF IsNewestOf

LEMMA NumberedFinite ==
  ASSUME NEW S, Numbered(S)
  PROVE  IsFiniteSet(S)
<1>1. PICK n \in Nat : \A s \in S : s.no \in 1..n
  BY DEF Numbered
<1> DEFINE f == [s \in S |-> s.no]
<1>2. f \in Injection(S, 1..n)
  BY <1>1 DEF Injection, IsInjective, Numbered, InOrder
<1>3. IsFiniteSet(1..n)
  BY FS_Interval
<1> QED
  BY <1>2, <1>3, FS_Injection

\* The newest of a set is among the newest n of it, and there are no newest 0.
LEMMA NewestIsKept ==
  ASSUME NEW S, Numbered(S), NEW s \in S, IsNewestOf(s, S), NEW n \in Int, n > 0
  PROVE  s \in Newest(S, n)
<1>1. {x \in S : x.no > s.no} = {}
  BY DEF IsNewestOf, Numbered
<1>2. Cardinality({}) = 0
  BY FS_EmptySet
<1> QED
  BY <1>1, <1>2 DEF Newest

LEMMA NewestNone ==
  ASSUME NEW S, Numbered(S), NEW n \in Int, n <= 0
  PROVE  Newest(S, n) = {}
<1>1. SUFFICES ASSUME NEW s \in S
               PROVE  ~(Cardinality({x \in S : x.no > s.no}) < n)
  BY DEF Newest
<1>2. IsFiniteSet({x \in S : x.no > s.no})
  BY NumberedFinite, FS_Subset
<1>3. Cardinality({x \in S : x.no > s.no}) \in Nat
  BY <1>2, FS_CardinalityType
<1> QED
  BY <1>3

LEMMA WithinNone ==
  ASSUME NEW S, Numbered(S), NEW n \in Int, n <= 0
  PROVE  Within(S, n) = {}
<1>1. SUFFICES ASSUME NEW s \in S
               PROVE  ~(s.day - s.day < n)
  BY DEF Within
<1> QED
  BY DEF Numbered

FlagsType == [last : Nat, within : Nat, keep : [Tier -> Nat]]

LEMMA FlagsTyped ==
  ASSUME NEW r \in RetentionType
  PROVE  ForgetFlags(r) \in FlagsType
<1>1. NoFlags.last = 0 /\ NoFlags.within = 0 /\ NoFlags.keep = [t \in Tier |-> 0]
      /\ NoFlags \in FlagsType
  BY DEF NoFlags, NoTiers, FlagsType
<1>2. (IF r.last > 0 THEN r.last ELSE 0) \in Nat /\ r.within \in Nat
  BY DEF RetentionType
<1>3. [t \in Tier |-> IF r.keep[t] > 0 THEN r.keep[t] ELSE 0] \in [Tier -> Nat]
  BY DEF RetentionType
<1> QED
  BY <1>1, <1>2, <1>3 DEF ForgetFlags, FlagsType

\* The newest snapshots of their periods, and what a tier keeps of them.
Ends(S, t) == {s \in S : IsNewestOf(s, {x \in S : Period(x, t) = Period(s, t)})}

LEMMA ForgetsIs ==
  ASSUME NEW f, NEW S
  PROVE  Forgets(f, S) =
           IF f = NoFlags THEN S
           ELSE Newest(S, f.last) \cup Within(S, f.within)
                \cup UNION {Newest(Ends(S, t), f.keep[t]) : t \in Tier}
  BY DEF Forgets, Ends

\* Something is asked for by flags that are not empty.
LEMMA SomeFlag ==
  ASSUME NEW f \in FlagsType, f # NoFlags
  PROVE  f.last > 0 \/ f.within > 0 \/ \E t \in Tier : f.keep[t] > 0
<1>1. SUFFICES ASSUME f.last = 0, f.within = 0, \A t \in Tier : f.keep[t] = 0
               PROVE  f = NoFlags
  BY DEF FlagsType
<1>2. f.keep = NoTiers
  BY <1>1 DEF FlagsType, NoTiers
<1> QED
  BY <1>1, <1>2 DEF FlagsType, NoFlags

\* Forgetting only takes away, and never the newest.
LEMMA ForgetsLess ==
  ASSUME NEW f \in FlagsType, NEW S
  PROVE  Forgets(f, S) \subseteq S
  BY ForgetsIs DEF Newest, Within, Ends

LEMMA ForgetsKeepsNewest ==
  ASSUME NEW f \in FlagsType, NEW S, Numbered(S), NEW s \in S, IsNewestOf(s, S)
  PROVE  s \in Forgets(f, S)
<1>1. CASE f = NoFlags
  BY <1>1, ForgetsIs
<1>2. CASE f # NoFlags /\ f.last > 0
  <2>1. s \in Newest(S, f.last)
    BY <1>2, NewestIsKept DEF FlagsType
  <2> QED
    BY <1>2, <2>1, ForgetsIs
<1>3. CASE f # NoFlags /\ f.within > 0
  <2>1. ASSUME NEW x \in S
        PROVE  x.day - s.day < f.within
    <3>1. x.no <= s.no /\ x.no \in Int /\ s.no \in Int
      BY DEF IsNewestOf, Numbered
    <3>2. x.day <= s.day /\ x.day \in Int /\ s.day \in Int
      BY <3>1 DEF Numbered, InOrder
    <3> QED
      BY <1>3, <3>2 DEF FlagsType
  <2>2. s \in Within(S, f.within)
    BY <2>1 DEF Within
  <2> QED
    BY <1>3, <2>2, ForgetsIs
<1>4. CASE f # NoFlags /\ \E t \in Tier : f.keep[t] > 0
  <2>1. PICK t \in Tier : f.keep[t] > 0
    BY <1>4
  <2>2. s \in Ends(S, t) /\ Ends(S, t) \in SUBSET S
    BY DEF Ends, IsNewestOf
  <2>3. Numbered(Ends(S, t)) /\ IsNewestOf(s, Ends(S, t))
    BY <2>2, NumberedSubset DEF IsNewestOf
  <2>4. f.keep[t] \in Int
    BY DEF FlagsType
  <2>5. s \in Newest(Ends(S, t), f.keep[t])
    BY <2>1, <2>2, <2>3, <2>4, NewestIsKept
  <2> QED
    BY <1>4, <2>5, ForgetsIs
<1> QED
  BY <1>1, <1>2, <1>3, <1>4, SomeFlag

\* Periods follow the numbers.
LEMMA PeriodsInOrder ==
  ASSUME NEW S, Numbered(S), NEW t \in Tier, NEW s \in S, NEW x \in S
  PROVE  /\ Period(s, t) \in Int /\ Period(x, t) \in Int
         /\ s.no < x.no => Period(s, t) <= Period(x, t)
<1>1. PeriodDays(t) \in {1, 7, 30, 365}
  BY Tiers4 DEF PeriodDays
<1>2. s.day \in Nat /\ x.day \in Nat /\ (s.no < x.no => s.day <= x.day)
  BY DEF Numbered, InOrder
<1>3. \A a, b \in Nat : a <= b => /\ a \div 1 <= b \div 1 /\ a \div 7 <= b \div 7
                                  /\ a \div 30 <= b \div 30 /\ a \div 365 <= b \div 365
  OBVIOUS
<1>4. \A a \in Nat : a \div 1 \in Int /\ a \div 7 \in Int /\ a \div 30 \in Int /\ a \div 365 \in Int
  OBVIOUS
<1> QED
  BY <1>1, <1>2, <1>3, <1>4 DEF Period

\* A period among the last n has its newest snapshot among the newest n ends
\* of periods: those after it are ends of different periods, less than n.
LEMMA TierKeeps ==
  ASSUME NEW S, Numbered(S), NEW t \in Tier, NEW n \in Int, NEW s \in S,
         \A x \in S : Period(x, t) - Period(s, t) < n
  PROVE  \E x \in Newest(Ends(S, t), n) : Period(x, t) = Period(s, t)
<1> DEFINE P == Period(s, t)
           T == {x \in S : Period(x, t) = P}
<1>1. Numbered(T) /\ T # {}
  BY NumberedSubset
<1>2. PICK e \in T : IsNewestOf(e, T)
  BY <1>1, HasNewest
<1>3. e \in Ends(S, t) /\ e \in S /\ Period(e, t) = P
  BY <1>2 DEF Ends
<1> DEFINE later == {x \in Ends(S, t) : x.no > e.no}
<1>4. \A x \in Ends(S, t) : x \in S /\ x.no \in Int /\ e.no \in Int
  BY <1>3 DEF Ends, Numbered
<1>5. ASSUME NEW x \in later
      PROVE  Period(x, t) \in (P + 1)..(P + n - 1)
  <2>1. x \in S /\ x.no > e.no /\ x.no \in Int /\ e.no \in Int
    BY <1>4
  <2>2. Period(x, t) # P
    <3>1. SUFFICES ASSUME Period(x, t) = P
                   PROVE  FALSE
      OBVIOUS
    <3>2. x.no <= e.no
      BY <1>2, <2>1, <3>1 DEF IsNewestOf
    <3> QED
      BY <2>1, <3>2
  <2>3. P \in Int /\ Period(x, t) \in Int /\ P <= Period(x, t)
    BY <1>3, <2>1, PeriodsInOrder
  <2>4. Period(x, t) - P < n
    BY <2>1
  <2> QED
    BY <2>2, <2>3, <2>4
<1>6. ASSUME NEW x \in later, NEW y \in later, Period(x, t) = Period(y, t)
      PROVE  x = y
  <2>1. x \in S /\ y \in S /\ x.no \in Int /\ y.no \in Int
    BY <1>4
  <2>2. x.no <= y.no /\ y.no <= x.no
    BY <1>6, <2>1 DEF Ends, IsNewestOf
  <2> QED
    BY <2>1, <2>2 DEF Numbered, InOrder
<1> DEFINE g == [x \in later |-> Period(x, t)]
<1>7. g \in Injection(later, (P + 1)..(P + n - 1))
  <2> HIDE DEF later
  <2> QED
    BY <1>5, <1>6 DEF Injection, IsInjective
<1>8. P \in Int /\ 0 < n
  <2>1. P \in Int
    BY PeriodsInOrder
  <2>2. P - P < n
    OBVIOUS
  <2> QED
    BY <2>1, <2>2
<1>9. IsFiniteSet((P + 1)..(P + n - 1)) /\ Cardinality((P + 1)..(P + n - 1)) = n - 1
  <2>1. P + 1 \in Int /\ P + n - 1 \in Int
    BY <1>8
  <2>2. (IF P + 1 > P + n - 1 THEN 0 ELSE (P + n - 1) - (P + 1) + 1) = n - 1
    BY <1>8
  <2> HIDE DEF P
  <2> QED
    BY <2>1, <2>2, FS_Interval
<1>10. Cardinality(later) <= n - 1 /\ Cardinality(later) \in Nat
  <2>1. IsFiniteSet(later) /\ Cardinality(later) <= Cardinality((P + 1)..(P + n - 1))
    BY <1>7, <1>9, FS_Injection
  <2> QED
    BY <1>9, <2>1, FS_CardinalityType
<1>11. e \in Newest(Ends(S, t), n)
  BY <1>3, <1>10 DEF Newest
<1> QED
  BY <1>3, <1>11

(***************************************************************************)
(* After a run the repository holds what the description promises.         *)
(***************************************************************************)
LEMMA TiersNone ==
  ASSUME NEW S, Numbered(S), NEW t \in Tier
  PROVE  Newest(Ends(S, t), NoTiers[t]) = {}
<1>1. NoTiers[t] = 0 /\ 0 \in Int /\ 0 <= 0
  BY DEF NoTiers
<1>2. Ends(S, t) \in SUBSET S
  BY DEF Ends
<1>3. Numbered(Ends(S, t))
  BY <1>2, NumberedSubset
<1> QED
  BY <1>1, <1>3, NewestNone

LEMMA LastAsDescribed ==
  ASSUME NEW r \in RetentionType, r.mode = "keep-last", NEW S, Numbered(S)
  PROVE  Describes(r, S, Forgets(ForgetFlags(r), S))
<1>1. r.last \in Int
  BY DEF RetentionType
<1>2. CASE r.last > 0
  <2> PICK f : f = ForgetFlags(r)
    OBVIOUS
  <2>1. f.last = r.last /\ f.within = 0 /\ f.keep = NoTiers /\ f # NoFlags
    BY <1>1, <1>2 DEF ForgetFlags, NoFlags
  <2>2. Within(S, f.within) = {} /\ \A t \in Tier : Newest(Ends(S, t), f.keep[t]) = {}
    BY <2>1, WithinNone, TiersNone
  <2>3. Forgets(f, S) = Newest(S, r.last)
    BY <2>1, <2>2, ForgetsIs
  <2> QED
    BY <1>2, <2>3 DEF Describes
<1>3. CASE ~(r.last > 0)
  <2>1. ForgetFlags(r) = NoFlags
    BY <1>1, <1>3 DEF ForgetFlags, NoFlags
  <2> QED
    BY <1>3, <2>1, ForgetsIs DEF Describes
<1> QED
  BY <1>2, <1>3

LEMMA WithinAsDescribed ==
  ASSUME NEW r \in RetentionType, r.mode = "keep-within", NEW S, Numbered(S)
  PROVE  Describes(r, S, Forgets(ForgetFlags(r), S))
<1>1. r.within \in Nat
  BY DEF RetentionType
<1>2. CASE r.within > 0
  <2> PICK f : f = ForgetFlags(r)
    OBVIOUS
  <2>1. f.last = 0 /\ f.within = r.within /\ f.keep = NoTiers /\ f # NoFlags
    BY <1>1, <1>2 DEF ForgetFlags, NoFlags
  <2>2. Newest(S, f.last) = {} /\ \A t \in Tier : Newest(Ends(S, t), f.keep[t]) = {}
    BY <2>1, NewestNone, TiersNone
  <2>3. Forgets(f, S) = Within(S, r.within)
    BY <2>1, <2>2, ForgetsIs
  <2> QED
    BY <1>2, <2>3 DEF Describes
<1>3. CASE r.within = 0
  <2>1. ForgetFlags(r) = NoFlags
    BY <1>3 DEF ForgetFlags, NoFlags
  <2> QED
    BY <1>3, <2>1, ForgetsIs DEF Describes
<1> QED
  BY <1>1, <1>2, <1>3

LEMMA TieredAsDescribed ==
  ASSUME NEW r \in RetentionType, r.mode = "tiered", NEW S, Numbered(S),
         r.keep # NoTiers \/ r.within = 0
  PROVE  Describes(r, S, Forgets(ForgetFlags(r), S))
<1> PICK f : f = ForgetFlags(r)
  OBVIOUS
<1>1. /\ r.within \in Nat /\ r.keep \in [Tier -> Int]
      /\ f.last = 0 /\ f.within = r.within
      /\ f.keep = [t \in Tier |-> IF r.keep[t] > 0 THEN r.keep[t] ELSE 0]
  BY DEF RetentionType, ForgetFlags, NoFlags
<1>2. CASE f = NoFlags
  <2>1. Forgets(f, S) = S
    BY <1>2, ForgetsIs
  <2>2. \A t \in Tier, s \in S : \E x \in S : Period(x, t) = Period(s, t)
    OBVIOUS
  <2>3. Within(S, r.within) \subseteq S
    BY DEF Within
  <2> QED
    BY <2>1, <2>2, <2>3 DEF Describes
<1>3. CASE f # NoFlags
  <2>1. r.keep # NoTiers
    <3>1. SUFFICES ASSUME r.keep = NoTiers
                   PROVE  FALSE
      OBVIOUS
    <3>2. r.within = 0 /\ f.keep = NoTiers
      BY <1>1, <3>1 DEF NoTiers
    <3>3. f = NoFlags
      BY <1>1, <3>2, SomeFlag, FlagsTyped DEF NoTiers
    <3> QED
      BY <1>3, <3>3
  <2>2. Forgets(f, S) = Newest(S, 0) \cup Within(S, r.within)
                          \cup UNION {Newest(Ends(S, t), f.keep[t]) : t \in Tier}
    BY <1>1, <1>3, ForgetsIs
  <2>3. ASSUME NEW t \in Tier, NEW s \in S, \A x \in S : Period(x, t) - Period(s, t) < r.keep[t]
        PROVE  \E x \in Forgets(f, S) : Period(x, t) = Period(s, t)
    <3>1. Period(s, t) \in Int /\ r.keep[t] \in Int
      BY <1>1, PeriodsInOrder
    <3>2. 0 < r.keep[t]
      <4>1. Period(s, t) - Period(s, t) < r.keep[t]
        BY <2>3
      <4> QED
        BY <3>1, <4>1
    <3>3. f.keep[t] = r.keep[t]
      BY <1>1, <3>2
    <3>4. \E x \in Newest(Ends(S, t), r.keep[t]) : Period(x, t) = Period(s, t)
      BY <2>3, <3>1, TierKeeps
    <3> QED
      BY <2>2, <3>3, <3>4
  <2> QED
    BY <2>1, <2>2, <2>3 DEF Describes
<1> QED
  BY <1>2, <1>3

\* Every policy but a window without tiers prunes as it is described.
LEMMA AsDescribedUnlessWindow ==
  ASSUME NEW r \in Retentions, ~(r.keep = NoTiers /\ r.within > 0) \/ r.mode # "tiered"
  PROVE  r \in Honest
<1>1. r \in RetentionType
  BY RetentionsTyped
<1>2. SUFFICES ASSUME NEW S \in Taken
               PROVE  Describes(r, S, Forgets(ForgetFlags(r), S))
  BY DEF Honest, AsDescribed
<1>3. Numbered(S)
  <2>1. PICK n \in {0} \cup {s.no : s \in S} : /\ \A s \in S : s \in [no : 1..n, day : Nat]
                                              /\ InOrder(S)
    BY TakenAssumption
  <2>2. n \in Nat
    BY <2>1
  <2> QED
    BY <2>1, <2>2 DEF Numbered
<1>4. CASE r.mode = "none"
  <2>1. ForgetFlags(r) = NoFlags
    BY <1>4 DEF ForgetFlags
  <2> QED
    BY <1>4, <2>1, ForgetsIs DEF Describes
<1>5. r.mode \in {"none", "keep-last", "keep-within", "tiered"} /\ r.within \in Nat
  BY <1>1 DEF RetentionType
<1> QED
  BY <1>1, <1>3, <1>4, <1>5, LastAsDescribed, WithinAsDescribed, TieredAsDescribed

(***************************************************************************)
(* Runs and restores.                                                      *)
(***************************************************************************)

\* Snapshots are numbered and dated up to the last one and today.
RepoInv ==
  \A p \in Place :
    /\ \A s \in repo[p] : s.no \in 1..taken /\ s.day \in 0..today
    /\ InOrder(repo[p])

\* Of the place of the last successful run, the newest snapshot is its own or
\* a later one that no result tells of.
LastRunInv ==
  /\ lastRun.no <= taken
  /\ lastRun.status = "success" =>
       IF lastRun.program = "restic"
       THEN \E s \in repo[lastRun.place] :
              /\ IsNewestOf(s, repo[lastRun.place])
              /\ \/ s.no = lastRun.no /\ s.files = lastRun.files
                 \/ s.no > lastRun.no /\ s.no \in untold
       ELSE lastRun.files \subseteq mirror[lastRun.place]

\* What a run will tell as a success is the newest of its place.
RunInv ==
  /\ run.result.no <= taken
  /\ run.next = "forget" => toml # NoJob
  /\ run.result.status = "success" =>
       IF run.result.program = "restic"
       THEN \E s \in repo[run.result.place] :
              /\ IsNewestOf(s, repo[run.result.place])
              /\ s.no = run.result.no /\ s.files = run.result.files
       ELSE run.result.files \subseteq mirror[run.result.place]

OutType ==
  [of : 0..Download, from : Path, files : SUBSET File, root : SUBSET File, nested : SUBSET File]
RunType == [next : {"none", "forget", "record"}, result : Result]

DataInv ==
  /\ path \in Path /\ source \in (SUBSET File) \cup {Gone}
  /\ repo \in [Place -> SUBSET Snapshot] /\ mirror \in [Place -> SUBSET File]
  /\ out \in OutType
  /\ run \in RunType
  /\ lastRun \in Result /\ untold \subseteq 1..MaxRuns
  /\ taken \in 0..MaxRuns /\ today \in 0..MaxDay

\* The inductive invariant of the engines.
EnginesInv ==
  /\ SettingsInv /\ DataInv
  /\ ChosenInv /\ PasswordInv
  /\ RepoInv /\ LastRunInv /\ RunInv /\ RestoredWhole

LEMMA Bounds == MaxRuns \in Nat /\ MaxDay \in Nat /\ Mirror = MaxRuns + 1 /\ Download = MaxRuns + 2
  BY EngineAssumption DEF Mirror, Download

LEMMA PlaceTyped ==
  ASSUME NEW j
  PROVE  PlaceOf(j) \in Place
  BY DEF PlaceOf, Place

LEMMA RepoNumbered ==
  ASSUME RepoInv, DataInv, NEW p \in Place
  PROVE  Numbered(repo[p])
<1>1. taken \in Nat /\ today \in Nat
  BY Bounds DEF DataInv
<1> QED
  BY <1>1 DEF RepoInv, Numbered

LEMMA NoRunTyped == NoRun \in Result /\ Idle \in RunType
<1>1. 0 \in 0..MaxRuns /\ {} \in SUBSET File /\ "disk" \in Place
  BY Bounds DEF Place
<1>2. NoRun \in Result
  BY <1>1 DEF NoRun, Result
<1> QED
  BY <1>2 DEF Idle, RunType

LEMMA EnginesStart ==
  ASSUME Init
  PROVE  EnginesInv
<1>1. SettingsInv
  BY SettingsStart DEF Init
<1>2. ChosenInv /\ PasswordInv
  BY DEF Init, InitSettings, ChosenInv, PasswordInv
<1>3. DataInv
  BY Bounds, NoRunTyped DEF Init, DataInv, NotRestored, OutType, Place, Path
<1>4. RepoInv /\ LastRunInv
  BY DEF Init, RepoInv, LastRunInv, NoRun, InOrder, Place
<1>5. RunInv
  BY DEF Init, RunInv, Idle, NoRun
<1>6. RestoredWhole
  BY DEF Init, RestoredWhole, NotRestored
<1> QED
  BY <1>1, <1>2, <1>3, <1>4, <1>5, <1>6 DEF EnginesInv

LEMMA SettingsStepKeepsAll ==
  ASSUME EnginesInv, SettingsStep, run = Idle
  PROVE  EnginesInv'
<1> USE DEF EnginesInv
<1>1. SettingsInv'
  BY SettingsKept DEF SettingsStep
<1>2. ChosenInv' /\ PasswordInv'
  BY SettingsStepKeeps DEF SettingsStep
<1>3. /\ \A p \in Place : repo'[p] = repo[p] \/ repo'[p] = {}
      /\ repo' \in [Place -> SUBSET Snapshot] /\ mirror' \in [Place -> SUBSET File]
      /\ toml' # NoJob => repo' = repo /\ mirror' = mirror
  BY DEF SettingsStep, DataInv
<1>4. /\ lastRun' = NoRun \/ (lastRun' = lastRun /\ toml' # NoJob)
      /\ path' = path /\ source' = source /\ out' = out /\ taken' = taken /\ today' = today
      /\ run' = run /\ untold' = untold /\ taken \in Nat
  BY Bounds DEF SettingsStep, DataInv
<1>5. DataInv'
  BY <1>3, <1>4, NoRunTyped DEF DataInv
<1>6. RepoInv'
  BY <1>3, <1>4 DEF RepoInv, InOrder
<1>7. LastRunInv'
  BY <1>3, <1>4 DEF LastRunInv, NoRun
<1>8. RunInv'
  BY <1>4 DEF RunInv, Idle, NoRun
<1>9. RestoredWhole'
  BY <1>4 DEF RestoredWhole, Narrowed
<1> QED
  BY <1>1, <1>2, <1>5, <1>6, <1>7, <1>8, <1>9

LEMMA EditSourceKeeps ==
  ASSUME EnginesInv, EditSource, out = NotRestored
  PROVE  EnginesInv'
<1> USE DEF EnginesInv
<1>1. /\ UNCHANGED <<toml, secrets, door, chosen, backedOut>>
      /\ UNCHANGED <<source, repo, mirror, out, run, lastRun, untold, taken, today>>
      /\ path' \in Path
  BY DEF EditSource
<1>2. edits' \in 0..MaxEdits
  BY Inputs DEF EditSource, SettingsInv
<1>3. SettingsInv' /\ ChosenInv' /\ PasswordInv'
  BY <1>1, <1>2 DEF SettingsInv, ChosenInv, PasswordInv
<1>4. DataInv' /\ RepoInv' /\ LastRunInv' /\ RunInv'
  BY <1>1 DEF DataInv, RepoInv, LastRunInv, RunInv
<1>5. RestoredWhole'
  BY <1>1 DEF RestoredWhole, NotRestored
<1> QED
  BY <1>3, <1>4, <1>5

\* Forgetting leaves a part of the snapshots, with the newest of them.
LEMMA Forgotten ==
  ASSUME SettingsInv, toml # NoJob, NEW S, Numbered(S), NEW left \in RunForget(S)
  PROVE  /\ left \subseteq S
         /\ \A s \in S : IsNewestOf(s, S) => s \in left /\ IsNewestOf(s, left)
<1>1. toml.ret \in RetentionType
  BY RetentionsTyped DEF SettingsInv, JobType
<1>2. ForgetFlags(toml.ret) \in FlagsType
  BY <1>1, FlagsTyped
<1>3. left \subseteq S /\ Forgets(ForgetFlags(toml.ret), S) \subseteq left
  BY DEF RunForget
<1>4. left \subseteq S
  BY <1>3
<1>5. ASSUME NEW s \in S, IsNewestOf(s, S)
      PROVE  s \in left /\ IsNewestOf(s, left)
  <2>1. s \in left
    BY <1>2, <1>3, <1>5, ForgetsKeepsNewest
  <2> QED
    BY <1>4, <1>5, <2>1 DEF IsNewestOf
<1> QED
  BY <1>4, <1>5

\* What is kept of one place's snapshots leaves the numbers and days right.
LEMMA PlaceReplaced ==
  ASSUME RepoInv, DataInv, NEW here \in Place, NEW left,
         repo' = [repo EXCEPT ![here] = left],
         \A s \in left : s.no \in 1..taken' /\ s.day \in 0..today', InOrder(left),
         taken' \in Nat, today' \in Nat, taken <= taken', today <= today'
  PROVE  RepoInv'
<1>1. \A p \in Place : repo'[p] = IF p = here THEN left ELSE repo[p]
  BY DEF DataInv
<1>2. taken \in Nat /\ today \in Nat
  BY Bounds DEF DataInv
<1> QED
  BY <1>1, <1>2 DEF RepoInv

\* A run that failed has nothing to tell of.
LEMMA FailedRun ==
  ASSUME EnginesInv, Fails, taken' \in Nat
  PROVE  RunInv' /\ run' \in RunType
<1> DEFINE failed == [NoRun EXCEPT !.status = "failure"]
<1>1. failed \in Result /\ failed.no = 0 /\ failed.status = "failure"
  BY NoRunTyped DEF NoRun, Result
<1> HIDE DEF failed
<1>2. run' = [next |-> "record", result |-> failed]
  BY DEF Fails, failed
<1>3. run'.next = "record" /\ run'.result = failed
  BY <1>2
<1> QED
  BY <1>1, <1>2, <1>3 DEF RunInv, RunType

LEMMA SucceededRun ==
  ASSUME EnginesInv, NEW next \in {"forget", "record"}, NEW no \in 0..MaxRuns,
         NEW read \in SUBSET File, Succeeds(next, no, read), toml.program \in Program
  PROVE  /\ run' \in RunType
         /\ run'.next = next /\ run'.result.status = "success"
         /\ run'.result.program = toml.program /\ run'.result.place = PlaceOf(toml)
         /\ run'.result.no = no /\ run'.result.files = read
<1> DEFINE told == [status |-> "success", program |-> toml.program, place |-> PlaceOf(toml),
                    no |-> no, files |-> read]
<1>1. told \in Result
  BY PlaceTyped DEF Result
<1> HIDE DEF told
<1>2. run' = [next |-> next, result |-> told]
  BY DEF Succeeds, told
<1>3. run' \in RunType /\ run'.next = next /\ run'.result = told
  BY <1>1, <1>2 DEF RunType
<1> QED
  BY <1>3 DEF told

\* A snapshot is added: it is the newest of its place.
LEMMA SavingKeeps ==
  ASSUME EnginesInv, NEW here \in Place, NEW s \in Snapshot,
         s.no = taken + 1, s.day = today, taken < MaxRuns,
         repo' = [repo EXCEPT ![here] = @ \cup {s}],
         taken' = taken + 1, untold' = untold \cup {s.no},
         UNCHANGED <<lastRun, mirror, today>>
  PROVE  /\ RepoInv' /\ LastRunInv'
         /\ repo' \in [Place -> SUBSET Snapshot] /\ taken' \in 0..MaxRuns
         /\ untold' \subseteq 1..MaxRuns
         /\ s \in repo'[here] /\ IsNewestOf(s, repo'[here])
<1> USE DEF EnginesInv
<1>1. taken \in Nat /\ today \in Nat /\ MaxRuns \in Nat /\ taken \in 0..MaxRuns
  BY Bounds DEF DataInv
<1>2. PICK saved : saved = repo[here] \cup {s}
  OBVIOUS
<1>3. repo' = [repo EXCEPT ![here] = saved]
  BY <1>2
<1>4. \A x \in repo[here] : x.no \in 1..taken /\ x.day \in 0..today /\ x \in Snapshot
  BY DEF RepoInv, DataInv
<1>5. \A x \in saved : x.no \in 1..(taken + 1) /\ x.day \in 0..today /\ x \in Snapshot
  BY <1>1, <1>2, <1>4
<1>6. InOrder(saved)
  <2>1. InOrder(repo[here])
    BY DEF RepoInv
  <2>2. SUFFICES ASSUME NEW x \in saved, NEW y \in saved
                 PROVE  (x.no = y.no => x = y) /\ (x.no < y.no => x.day <= y.day)
    BY DEF InOrder
  <2>3. CASE x \in repo[here] /\ y \in repo[here]
    BY <2>1, <2>3 DEF InOrder
  <2>4. CASE x \in repo[here] /\ y = s
    BY <1>1, <1>4, <2>4
  <2>5. CASE x = s /\ y \in repo[here]
    BY <1>1, <1>4, <2>5
  <2>6. CASE x = s /\ y = s
    BY <1>1, <2>6
  <2> QED
    BY <1>2, <2>3, <2>4, <2>5, <2>6
<1>7. s \in saved /\ IsNewestOf(s, saved)
  BY <1>1, <1>2, <1>5 DEF IsNewestOf
<1>8. repo'[here] = saved /\ repo' \in [Place -> SUBSET Snapshot]
  BY <1>3, <1>5 DEF DataInv
<1>9. RepoInv'
  <2>1. taken' \in Nat /\ today' \in Nat /\ taken <= taken' /\ today <= today'
    BY <1>1
  <2>2. \A x \in saved : x.no \in 1..taken' /\ x.day \in 0..today'
    BY <1>5
  <2> QED
    BY <1>3, <1>6, <2>1, <2>2, PlaceReplaced
<1>10. LastRunInv'
  <2>1. lastRun.no \in Nat /\ lastRun.place \in Place
    BY Bounds DEF DataInv, Result
  <2>2. lastRun.no <= taken'
    BY <1>1, <2>1 DEF LastRunInv
  <2>3. CASE lastRun.status = "success" /\ lastRun.program = "restic" /\ lastRun.place = here
    <3>1. s.no > lastRun.no /\ s.no \in untold'
      BY <1>1, <2>1 DEF LastRunInv
    <3> QED
      BY <1>7, <1>8, <2>2, <2>3, <3>1 DEF LastRunInv
  <2>4. CASE lastRun.status = "success" /\ lastRun.program = "restic" /\ lastRun.place # here
    <3>1. repo'[lastRun.place] = repo[lastRun.place]
      BY <2>1, <2>4 DEF DataInv
    <3> QED
      BY <2>2, <2>4, <3>1 DEF LastRunInv
  <2>5. CASE ~(lastRun.status = "success" /\ lastRun.program = "restic")
    BY <2>2, <2>5 DEF LastRunInv
  <2> QED
    BY <2>3, <2>4, <2>5
<1>11. taken' \in 0..MaxRuns /\ untold' \subseteq 1..MaxRuns
  BY <1>1 DEF DataInv
<1> QED
  BY <1>7, <1>8, <1>9, <1>10, <1>11

LEMMA RunResticKeeps ==
  ASSUME EnginesInv, RunRestic
  PROVE  EnginesInv'
<1> USE DEF EnginesInv
<1>1. /\ toml # NoJob /\ taken < MaxRuns /\ source # Gone /\ toml.program = "restic"
      /\ UNCHANGED <<settings, path, source, mirror, out, lastRun, today>>
  BY DEF RunRestic, Supported, Runs
<1>2. PICK here : here = PlaceOf(toml)
  OBVIOUS
<1>3. PICK exit \in {0, 1, 3}, read \in SUBSET source :
        LET s == [no |-> taken + 1, day |-> today, path |-> path, files |-> read]
        IN  /\ IF exit = 1 THEN UNCHANGED <<repo, taken, untold>>
               ELSE /\ repo' = [repo EXCEPT ![here] = @ \cup {s}]
                    /\ taken' = s.no /\ untold' = untold \cup {s.no}
            /\ IF ResticSucceeds(exit) THEN Succeeds("forget", taken', read) ELSE Fails
  BY <1>2 DEF RunRestic
<1>4. /\ here \in Place /\ taken \in Nat /\ today \in Nat /\ taken \in 0..MaxRuns
      /\ read \in SUBSET File /\ MaxRuns \in Nat
  BY <1>1, <1>2, Bounds, PlaceTyped DEF DataInv
<1>5. SettingsInv' /\ ChosenInv' /\ PasswordInv' /\ RestoredWhole'
  BY <1>1 DEF settings, SettingsInv, ChosenInv, PasswordInv, RestoredWhole, Narrowed
<1>6. CASE exit = 1
  <2>1. ~ResticSucceeds(exit)
    BY <1>6 DEF ResticSucceeds
  <2>2. UNCHANGED <<repo, taken, untold>> /\ Fails
    BY <1>3, <1>6, <2>1
  <2>3. RunInv' /\ run' \in RunType
    BY <1>4, <2>2, FailedRun
  <2>4. DataInv' /\ RepoInv' /\ LastRunInv'
    BY <1>1, <2>2, <2>3 DEF DataInv, RepoInv, LastRunInv
  <2> QED
    BY <1>5, <2>3, <2>4
<1>7. CASE exit # 1
  <2>1. ResticSucceeds(exit)
    BY <1>7 DEF ResticSucceeds
  <2>2. PICK s : s = [no |-> taken + 1, day |-> today, path |-> path, files |-> read]
    OBVIOUS
  <2>3. /\ repo' = [repo EXCEPT ![here] = @ \cup {s}]
        /\ taken' = s.no /\ untold' = untold \cup {s.no}
        /\ Succeeds("forget", taken', read)
    BY <1>3, <1>7, <2>1, <2>2
  <2>4. s.no = taken + 1 /\ s.day = today /\ s.files = read /\ s \in Snapshot
    BY <1>1, <1>4, <2>2 DEF Snapshot, DataInv
  <2>5. /\ RepoInv' /\ LastRunInv'
        /\ repo' \in [Place -> SUBSET Snapshot] /\ taken' \in 0..MaxRuns
        /\ untold' \subseteq 1..MaxRuns
        /\ s \in repo'[here] /\ IsNewestOf(s, repo'[here])
    BY <1>1, <1>4, <2>3, <2>4, SavingKeeps
  <2>6. /\ run' \in RunType
        /\ run'.next = "forget" /\ run'.result.status = "success"
        /\ run'.result.program = "restic" /\ run'.result.place = here
        /\ run'.result.no = taken' /\ run'.result.files = read
    BY <1>1, <1>2, <1>4, <2>3, <2>5, SucceededRun DEF Program
  <2>7. toml' = toml
    BY <1>1 DEF settings
  <2>8. RunInv'
    <3>1. run'.result.no <= taken'
      BY <1>4, <2>3, <2>4, <2>6
    <3> QED
      BY <1>1, <2>3, <2>4, <2>5, <2>6, <2>7, <3>1 DEF RunInv
  <2>9. DataInv'
    BY <1>1, <2>5, <2>6 DEF DataInv
  <2> QED
    BY <1>5, <2>5, <2>8, <2>9
<1> QED
  BY <1>6, <1>7

\* Forgetting in one place, by a run or a dry run.
LEMMA ForgettingKeeps ==
  ASSUME EnginesInv, toml # NoJob, NEW here \in Place, NEW left \in RunForget(repo[here]),
         repo' = [repo EXCEPT ![here] = left],
         UNCHANGED <<settings, path, source, mirror, out, lastRun, untold, taken, today>>,
         run' \in RunType, run'.result = run.result, run'.next \in {run.next, "record"}
  PROVE  EnginesInv'
<1> USE DEF EnginesInv
<1>1. taken \in Nat /\ today \in Nat
  BY Bounds DEF DataInv
<1>2. /\ left \subseteq repo[here]
      /\ \A s \in repo[here] : IsNewestOf(s, repo[here]) => s \in left /\ IsNewestOf(s, left)
  BY RepoNumbered, Forgotten
<1>3. SettingsInv' /\ ChosenInv' /\ PasswordInv' /\ RestoredWhole'
  BY DEF settings, SettingsInv, ChosenInv, PasswordInv, RestoredWhole, Narrowed
<1>4. RepoInv'
  <2>1. \A s \in left : s.no \in 1..taken' /\ s.day \in 0..today'
    BY <1>2 DEF RepoInv
  <2>2. InOrder(left)
    BY <1>2 DEF RepoInv, InOrder
  <2>3. taken' \in Nat /\ today' \in Nat /\ taken <= taken' /\ today <= today'
    BY <1>1
  <2> QED
    BY <2>1, <2>2, <2>3, PlaceReplaced
<1>5. DataInv'
  <2>1. repo' \in [Place -> SUBSET Snapshot]
    BY <1>2 DEF DataInv
  <2> QED
    BY <2>1 DEF DataInv, settings
<1>6. /\ \A p \in Place : repo'[p] = IF p = here THEN left ELSE repo[p]
      /\ lastRun.place \in Place /\ run.result.place \in Place
  BY DEF DataInv, Result, RunType
<1>7. LastRunInv'
  BY <1>2, <1>6 DEF LastRunInv
<1>8. RunInv'
  <2>1. toml' # NoJob
    BY DEF settings
  <2> QED
    BY <1>2, <1>6, <2>1 DEF RunInv
<1> QED
  BY <1>3, <1>4, <1>5, <1>7, <1>8

LEMMA ForgetKeeps ==
  ASSUME EnginesInv, Forget
  PROVE  EnginesInv'
<1>1. /\ run.next = "forget" /\ run' = [run EXCEPT !.next = "record"]
      /\ UNCHANGED <<settings, path, source, mirror, out, lastRun, untold, taken, today>>
  BY DEF Forget
<1>2. toml # NoJob /\ run \in RunType
  BY <1>1 DEF EnginesInv, RunInv, DataInv
<1>3. PICK here : here = PlaceOf(toml)
  OBVIOUS
<1>4. PICK left \in RunForget(repo[here]) : repo' = [repo EXCEPT ![here] = left]
  BY <1>3 DEF Forget
<1>5. run' \in RunType /\ run'.result = run.result /\ run'.next = "record"
  BY <1>1, <1>2 DEF RunType
<1> QED
  BY <1>1, <1>2, <1>3, <1>4, <1>5, PlaceTyped, ForgettingKeeps

LEMMA WriteLastRunKeeps ==
  ASSUME EnginesInv, WriteLastRun
  PROVE  EnginesInv'
<1> USE DEF EnginesInv
<1>1. /\ UNCHANGED <<settings, path, source, repo, mirror, out, taken, today>>
      /\ run' = Idle /\ taken \in Nat
  BY Bounds DEF WriteLastRun, DataInv
<1>2. SettingsInv' /\ ChosenInv' /\ PasswordInv' /\ RestoredWhole' /\ RepoInv'
  BY <1>1 DEF settings, SettingsInv, ChosenInv, PasswordInv, RestoredWhole, Narrowed, RepoInv
<1>3. RunInv'
  BY <1>1 DEF RunInv, Idle, NoRun
<1>4. DataInv'
  BY <1>1, NoRunTyped DEF WriteLastRun, DataInv, RunType
<1>5. LastRunInv'
  <2>1. CASE lastRun' = run.result /\ untold' = untold \ {run.result.no}
    BY <1>1, <2>1 DEF LastRunInv, RunInv
  <2>2. CASE lastRun' = lastRun /\ untold' = untold
    BY <1>1, <2>2 DEF LastRunInv
  <2>3. CASE lastRun' = NoRun
    BY <1>1, <2>3 DEF LastRunInv, NoRun
  <2> QED
    BY <2>1, <2>2, <2>3 DEF WriteLastRun
<1> QED
  BY <1>2, <1>3, <1>4, <1>5

LEMMA KilledKeeps ==
  ASSUME EnginesInv, Killed
  PROVE  EnginesInv'
<1> USE DEF EnginesInv
<1>1. /\ UNCHANGED <<settings, path, source, repo, mirror, out, lastRun, untold, taken, today>>
      /\ run' = Idle /\ taken \in Nat
  BY Bounds DEF Killed, DataInv
<1>2. /\ SettingsInv' /\ ChosenInv' /\ PasswordInv' /\ RestoredWhole' /\ RepoInv'
      /\ LastRunInv'
  BY <1>1 DEF settings, SettingsInv, ChosenInv, PasswordInv, RestoredWhole, Narrowed, RepoInv,
     LastRunInv
<1>3. RunInv'
  BY <1>1 DEF RunInv, Idle, NoRun
<1>4. DataInv'
  BY <1>1, NoRunTyped DEF DataInv
<1> QED
  BY <1>2, <1>3, <1>4

LEMMA DryRunKeeps ==
  ASSUME EnginesInv, DryRun
  PROVE  EnginesInv'
<1>1. /\ toml # NoJob
      /\ UNCHANGED <<settings, path, source, mirror, out, run, lastRun, untold, taken, today>>
  BY DEF DryRun, Supported, Runs
<1>2. PICK here : here = PlaceOf(toml)
  OBVIOUS
<1>3. PICK left \in RunForget(repo[here]) : repo' = [repo EXCEPT ![here] = left]
  BY <1>2 DEF DryRun
<1>4. run' \in RunType
  BY <1>1 DEF EnginesInv, DataInv
<1> QED
  BY <1>1, <1>2, <1>3, <1>4, PlaceTyped, ForgettingKeeps

LEMMA RunRsyncKeeps ==
  ASSUME EnginesInv, RunRsync
  PROVE  EnginesInv'
<1> USE DEF EnginesInv
<1>1. /\ UNCHANGED <<settings, path, repo, out, lastRun, untold, taken, today>>
      /\ toml.program = "rsync" /\ source # Gone /\ taken \in Nat
  BY Bounds DEF RunRsync, Supported, DataInv
<1>2. PICK here : here = PlaceOf(toml)
  OBVIOUS
<1>3. PICK exit \in {0, 23, 24}, read \in SUBSET source :
        /\ source' = IF exit = 24 THEN read ELSE source
        /\ mirror' = [mirror EXCEPT ![here] = @ \cup read]
        /\ IF RsyncSucceeds(exit) THEN Succeeds("record", 0, read) ELSE Fails
  BY <1>2 DEF RunRsync
<1>4. here \in Place /\ read \in SUBSET File
  BY <1>1, <1>2, PlaceTyped DEF DataInv
<1>5. /\ mirror'[here] = mirror[here] \cup read /\ mirror' \in [Place -> SUBSET File]
      /\ \A p \in Place : mirror[p] \subseteq mirror'[p]
  BY <1>3, <1>4 DEF DataInv
<1>6. SettingsInv' /\ ChosenInv' /\ PasswordInv' /\ RestoredWhole' /\ RepoInv'
  BY <1>1 DEF settings, SettingsInv, ChosenInv, PasswordInv, RestoredWhole, Narrowed, RepoInv
<1>7. LastRunInv'
  <2>1. lastRun.place \in Place
    BY DEF DataInv, Result
  <2> QED
    BY <1>1, <1>5, <2>1 DEF LastRunInv
<1>8. RunInv' /\ run' \in RunType
  <2>1. CASE RsyncSucceeds(exit)
    <3>1. 0 \in 0..MaxRuns /\ Succeeds("record", 0, read)
      BY <1>3, <2>1, Bounds
    <3>2. /\ run' \in RunType
          /\ run'.next = "record" /\ run'.result.status = "success"
          /\ run'.result.program = "rsync" /\ run'.result.place = here
          /\ run'.result.no = 0 /\ run'.result.files = read
      BY <1>1, <1>2, <1>4, <3>1, SucceededRun DEF Program
    <3> QED
      BY <1>1, <1>5, <3>2 DEF RunInv
  <2>2. CASE ~RsyncSucceeds(exit)
    BY <1>1, <1>3, <2>2, FailedRun
  <2> QED
    BY <2>1, <2>2
<1>9. DataInv'
  BY <1>1, <1>3, <1>4, <1>5, <1>8 DEF DataInv
<1> QED
  BY <1>6, <1>7, <1>8, <1>9

LEMMA RestoringKeeps ==
  ASSUME EnginesInv, out' \in OutType, RestoredWhole',
         UNCHANGED <<settings, path, source, repo, mirror, run, lastRun, untold, taken, today>>
  PROVE  EnginesInv'
  BY DEF EnginesInv, settings, SettingsInv, DataInv, ChosenInv, PasswordInv, RepoInv,
         LastRunInv, RunInv

\* Flattening: nothing of the files is lost, but with an entry named like the
\* path's first component, or with the path set to a directory in it.
LEMMA FilesMovedUp ==
  ASSUME NEW root \in SUBSET File, NEW files \in SUBSET File, NEW left \in MovedUp(root, files)
  PROVE  /\ left[1] \in SUBSET File /\ left[2] \in SUBSET File
         /\ files \subseteq left[1] \cup left[2] \/ Top \in files
<1>1. CASE \E f \in {f \in {Top} : f \notin files} : left = <<root \cup files, {}>>
  BY <1>1
<1>2. CASE \E moved \in {m \in SUBSET (files \ {Top}) : Top \in files} : left = <<root \cup moved, {}>>
  BY <1>2
<1>3. CASE \E f \in files : \E moved \in SUBSET (files \ {f}) :
             left = <<(root \ {f}) \cup moved, files \ moved>>
  BY <1>3
<1> QED
  BY <1>1, <1>2, <1>3 DEF MovedUp

LEMMA Flattened ==
  ASSUME NEW root \in SUBSET File, NEW s \in Snapshot,
         NEW left \in FlattenResticRestore(root, s)
  PROVE  /\ left[1] \in SUBSET File /\ left[2] \in SUBSET File
         /\ \/ s.files \subseteq left[1] \cup left[2]
            \/ Top \in s.files /\ s.path = path
            \/ s.path = "whole" /\ path = "part" /\ Sub \in s.files
<1>1. s.files \in SUBSET File
  BY DEF Snapshot
<1>2. CASE s.path = path
  BY <1>1, <1>2, FilesMovedUp DEF FlattenResticRestore
<1>3. CASE s.path # path
  <2>1. CASE left = <<root, s.files>>
    BY <1>1, <2>1
  <2>2. CASE \E f \in {f \in {Sub} \cap s.files : s.path = "whole" /\ path = "part"} :
               left = <<root \cup {f}, {}>>
    BY <1>1, <2>2
  <2> QED
    BY <1>3, <2>1, <2>2 DEF FlattenResticRestore
<1> QED
  BY <1>2, <1>3

LEMMA RestoreResticKeeps ==
  ASSUME EnginesInv, RestoreRestic
  PROVE  EnginesInv'
<1>1. PICK s \in Listed :
        \E left \in FlattenResticRestore(IF out.of = s.no THEN out.root ELSE {}, s) :
          out' = Restored(s.no, s.path, s.files, left[1], left[2])
  BY DEF RestoreRestic
<1>2. s \in Snapshot
  BY <1>1, PlaceTyped DEF Listed, EnginesInv, DataInv
<1>3. s.no \in 1..MaxRuns /\ s.files \in SUBSET File /\ s.path \in Path
  BY <1>2 DEF Snapshot
<1> DEFINE root == IF out.of = s.no THEN out.root ELSE {}
<1>4. root \in SUBSET File
  BY DEF EnginesInv, DataInv, OutType
<1> HIDE DEF root
<1>5. PICK left \in FlattenResticRestore(root, s) :
        out' = Restored(s.no, s.path, s.files, left[1], left[2])
  BY <1>1 DEF root
<1>6. /\ left[1] \in SUBSET File /\ left[2] \in SUBSET File
      /\ \/ s.files \subseteq left[1] \cup left[2]
         \/ Top \in s.files /\ s.path = path
         \/ s.path = "whole" /\ path = "part" /\ Sub \in s.files
  BY <1>2, <1>4, <1>5, Flattened
<1>7. /\ out'.of = s.no /\ out'.from = s.path /\ out'.files = s.files
      /\ out'.root = left[1] /\ out'.nested = left[2]
      /\ out' \in OutType
  BY <1>3, <1>5, <1>6, Bounds DEF Restored, OutType
<1>8. s.no # Mirror /\ path' = path
  BY <1>3, Bounds DEF RestoreRestic
<1>9. RestoredWhole'
  BY <1>6, <1>7, <1>8 DEF RestoredWhole, Narrowed
<1> QED
  BY <1>7, <1>9, RestoringKeeps DEF RestoreRestic

LEMMA RestoreRsyncKeeps ==
  ASSUME EnginesInv, RestoreRsync
  PROVE  EnginesInv'
<1>1. PICK files : files = mirror[PlaceOf(toml)]
  OBVIOUS
<1> DEFINE root == files \cup (IF out.of = Mirror THEN out.root ELSE {})
<1>2. files \in SUBSET File /\ root \in SUBSET File /\ files \subseteq root /\ path \in Path
  BY <1>1, PlaceTyped DEF EnginesInv, DataInv, OutType
<1>3. out' = Restored(Mirror, path, files, root, {})
  BY <1>1 DEF RestoreRsync
<1> HIDE DEF root
<1>4. Mirror \in 0..Download
  BY Bounds
<1>5. out'.files = files /\ out'.root = root /\ out' \in OutType
  BY <1>2, <1>3, <1>4 DEF Restored, OutType
<1>6. RestoredWhole'
  BY <1>2, <1>5 DEF RestoredWhole
<1> QED
  BY <1>5, <1>6, RestoringKeeps DEF RestoreRsync

LEMMA DownloadKeeps ==
  ASSUME EnginesInv, DownloadZip
  PROVE  EnginesInv'
<1>0. PICK s \in repo[PlaceOf(toml)] : \E got \in SUBSET s.files :
        out' = Restored(Download, s.path, s.files, got, {})
  BY DEF DownloadZip, AddPathsToZip
<1>1. PICK got \in SUBSET s.files : out' = Restored(Download, s.path, s.files, got, {})
  BY <1>0
<1>2. s.files \in SUBSET File /\ s.path \in Path
  BY <1>1, PlaceTyped DEF EnginesInv, DataInv, Snapshot
<1>3. Download \in 0..Download /\ Download \notin 1..Mirror
  BY Bounds
<1>4. out'.of = Download /\ out' \in OutType
  BY <1>1, <1>2, <1>3 DEF Restored, OutType
<1>5. RestoredWhole'
  BY <1>3, <1>4 DEF RestoredWhole
<1> QED
  BY <1>4, <1>5, RestoringKeeps DEF DownloadZip

LEMMA SourceChangesKeeps ==
  ASSUME EnginesInv, SourceChanges
  PROVE  EnginesInv'
  BY DEF SourceChanges, EnginesInv, settings, SettingsInv, DataInv, ChosenInv, PasswordInv,
         RepoInv, LastRunInv, RunInv, RestoredWhole, Narrowed

LEMMA DayPassesKeeps ==
  ASSUME EnginesInv, DayPasses
  PROVE  EnginesInv'
<1>1. UNCHANGED <<settings, path, source, repo, mirror, out, run, lastRun, untold, taken>>
  BY DEF DayPasses
<1>2. today \in 0..MaxDay /\ today' = today + 1 /\ today' \in 0..MaxDay
  BY Bounds DEF DayPasses, EnginesInv, DataInv
<1>3. RepoInv'
  BY <1>1, <1>2 DEF EnginesInv, RepoInv
<1>4. DataInv'
  BY <1>1, <1>2 DEF EnginesInv, DataInv
<1> QED
  BY <1>1, <1>3, <1>4 DEF EnginesInv, settings, SettingsInv, ChosenInv, PasswordInv,
     LastRunInv, RunInv, RestoredWhole, Narrowed

LEMMA StutterKeeps ==
  ASSUME EnginesInv, UNCHANGED vars
  PROVE  EnginesInv'
  BY DEF vars, data, EnginesInv, settings, SettingsInv, DataInv, ChosenInv, PasswordInv,
         RepoInv, LastRunInv, RunInv, RestoredWhole, Narrowed

LEMMA EnginesKept == EnginesInv /\ [Next]_vars => EnginesInv'
<1> SUFFICES ASSUME EnginesInv, [Next]_vars
             PROVE  EnginesInv'
  OBVIOUS
<1>1. CASE SettingsStep /\ run = Idle
  BY <1>1, SettingsStepKeepsAll
<1>2. CASE EditSource /\ out = NotRestored
  BY <1>2, EditSourceKeeps
<1>3. CASE RunRestic
  BY <1>3, RunResticKeeps
<1>4. CASE DryRun
  BY <1>4, DryRunKeeps
<1>5. CASE RunRsync
  BY <1>5, RunRsyncKeeps
<1>6. CASE SourceChanges
  BY <1>6, SourceChangesKeeps
<1>7. CASE DayPasses
  BY <1>7, DayPassesKeeps
<1>8. CASE RestoreRestic
  BY <1>8, RestoreResticKeeps
<1>9. CASE RestoreRsync
  BY <1>9, RestoreRsyncKeeps
<1>10. CASE DownloadZip
  BY <1>10, DownloadKeeps
<1>11. CASE Forget
  BY <1>11, ForgetKeeps
<1>12. CASE WriteLastRun
  BY <1>12, WriteLastRunKeeps
<1>13. CASE Killed
  BY <1>13, KilledKeeps
<1>14. CASE UNCHANGED vars
  BY <1>14, StutterKeeps
<1> QED
  BY <1>1, <1>2, <1>3, <1>4, <1>5, <1>6, <1>7, <1>8, <1>9, <1>10, <1>11, <1>12, <1>13, <1>14
     DEF Next

(***************************************************************************)
(* The theorems.                                                           *)
(***************************************************************************)

\* The settings and the data are in their invariant, whatever door the
\* settings came through and whatever ran under them.
THEOREM EnginesInvariant == Spec => []EnginesInv
<1>1. Init => EnginesInv
  BY EnginesStart
<1> QED
  BY <1>1, EnginesKept, PTL DEF Spec

\* The types of the settings, the repositories and the last run.
THEOREM TypeCorrect == Spec => []TypeOK
<1>1. EnginesInv => TypeOK
  <2> SUFFICES ASSUME EnginesInv PROVE TypeOK
    OBVIOUS
  <2>1. toml = NoJob \/ toml.ret \in RetentionType
    BY RetentionsTyped DEF EnginesInv, SettingsInv, JobType
  <2>2. SettingsTypeOK
    BY <2>1 DEF EnginesInv, SettingsInv, SettingsTypeOK, JobType, RetentionType
  <2> QED
    BY <2>2 DEF EnginesInv, DataInv, OutType, RunType, TypeOK
<1> QED
  BY <1>1, EnginesInvariant, PTL

\* A job is planned for exactly the times and days last chosen, through every
\* door, for all clocks, day lists, days and expressions (ToCronExpression,
\* nextRunAfter).
THEOREM PlannedAsChosen == Spec => []ScheduledAsChosen
<1>1. EnginesInv => ScheduledAsChosen
  BY PlannedAsMeant DEF EnginesInv, SettingsInv, ChosenInv, ScheduledAsChosen
<1> QED
  BY <1>1, EnginesInvariant, PTL

\* What is left of any snapshots is what the policy's description says, for
\* all counts and tiers (ForgetFlags, Describe).
THEOREM PrunesAsDescribed == Spec => []PrunedAsDescribed
<1>1. EnginesInv => PrunedAsDescribed
  BY AsDescribedUnlessWindow DEF EnginesInv, SettingsInv, JobType, PrunedAsDescribed
<1> QED
  BY <1>1, EnginesInvariant, PTL

\* No sequence of edits takes a wizard's job a password that it needs
\* (runCreateWizard, runReconfigureBackupWizard, SaveJob).
THEOREM PasswordsStay == Spec => []PasswordsSuffice
<1>1. EnginesInv => PasswordsSuffice
  BY DEF EnginesInv, PasswordInv, PasswordsSuffice
<1> QED
  BY <1>1, EnginesInvariant, PTL

\* While last_run.json says "success", what that run read is in its place, or
\* a newer snapshot that no result tells of: in spite of retention, dry runs,
\* edits, kills between the steps of a run and results that could not be written
\* (Run, runForget, WriteLastRun).
THEOREM SuccessStays == Spec => []SuccessIsInPlace
<1>1. EnginesInv => SuccessIsInPlace
  BY DEF EnginesInv, LastRunInv, SuccessIsInPlace
<1> QED
  BY <1>1, EnginesInvariant, PTL

\* A restore delivers what it took from the repository (flattenResticRestore).
THEOREM RestoresWhole == Spec => []RestoredWhole
<1>1. EnginesInv => RestoredWhole
  BY DEF EnginesInv
<1> QED
  BY <1>1, EnginesInvariant, PTL
=============================================================================
