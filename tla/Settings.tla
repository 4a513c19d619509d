------------------------------ MODULE Settings ------------------------------
(***************************************************************************)
(* What a job's settings mean: the schedule (internal/schedule,            *)
(* daemon.nextRunAfter), the retention (internal/retention), the endpoints *)
(* and passwords, and the doors by which they get into job.toml and        *)
(* secrets.env: the wizards of the menu (cli/cli.go), the scripted API     *)
(* (cli/api.go), and the import of a v1 configuration (legacyimport).      *)
(*                                                                         *)
(* What each door accepts is a set of settings, defined as a constant; the *)
(* actions put one of them into the job.  A prompt asks again until its    *)
(* validator is content, so a wizard is the set of its valid answers.      *)
(***************************************************************************)
EXTENDS Naturals, Integers, FiniteSets

CONSTANTS
  Clock,     \* times of day one may enter, <<hour, minute>>
  DayLists,  \* weekday lists one may enter: sets of ranges <<first, last>>
  Doms,      \* days of the month one may enter
  Crons,     \* cron expressions one may enter
  Counts,    \* numbers of snapshots one may enter
  Durations, \* v1 durations <<number, unit>>, Blank for a key that is not set
  Tier,      \* tiers of "tiered": some of daily, weekly, monthly, yearly
  Days,      \* days, [dom, month, dow], that schedules are compared on
  Taken,     \* collections of snapshots, [no, day], retention is compared on
  NoJob,
  MaxEdits   \* bound: commands on the job

Blank == ""    \* the empty answer, a key without a value

ASSUME InputAssumption ==
  /\ Clock \subseteq Int \X Int
  /\ DayLists \subseteq SUBSET (Int \X Int)
  /\ Doms \subseteq Int /\ Counts \subseteq Int
  /\ \A d \in Durations : d[1] \in Int /\ d[2] \in {Blank, "d", "w", "m", "y"}
  /\ Tier \subseteq {"daily", "weekly", "monthly", "yearly"}
  /\ Days \subseteq [dom : 1..31, month : 1..12, dow : 0..6]
  /\ MaxEdits \in Nat

\* Snapshots are numbered in the order in which they were taken.
InOrder(S) ==
  \A s, x \in S : (s.no = x.no => s = x) /\ (s.no < x.no => s.day <= x.day)

ASSUME TakenAssumption ==
  \A S \in Taken : \E n \in {0} \cup {s.no : s \in S} :
    /\ \A s \in S : s \in [no : 1..n, day : Nat]
    /\ InOrder(S)

-----------------------------------------------------------------------------
(***************************************************************************)
(* Cron expressions.  An expression has a form and five fields; a field is *)
(* a set of tokens [lo, hi, step], with Star for * as lo.                  *)
(***************************************************************************)
Star == -1
Token(lo, hi, step) == [lo |-> lo, hi |-> hi, step |-> step]
Any == {Token(Star, Star, 1)}
Just(n) == {Token(n, n, 1)}

ValidToken(t, min, max) ==
  /\ t.step >= 1
  /\ t.lo = Star \/ (min <= t.lo /\ t.lo <= t.hi /\ t.hi <= max)

ValidField(f, min, max) == \A t \in f : ValidToken(t, min, max)

\* ValidateCron; shorthands are compared in lower case.
ValidateCron(e) ==
  IF e.form = "fields"
  THEN /\ ValidField(e.minute, 0, 59)
       /\ ValidField(e.hour, 0, 23)
       /\ ValidField(e.dom, 1, 31)
       /\ ValidField(e.month, 1, 12)
       /\ ValidField(e.dow, 0, 7)
  ELSE e.form \in {"shorthand", "Shorthand"}

\* A shorthand stands for fields that the library takes.
ASSUME CronAssumption ==
  \A e \in Crons :
    /\ \A t \in e.dow : t.lo \in Int /\ t.hi \in Int /\ t.step \in Int
    /\ e.form \in {"shorthand", "Shorthand"} => ValidField(e.dow, 0, 6)

\* The library that plans the runs takes weekdays up to 6 and shorthands in
\* lower case only.
ParseStandard(e) ==
  IF e.form = "fields" THEN ValidateCron(e) /\ ValidField(e.dow, 0, 6)
                       ELSE e.form = "shorthand"

\* The values a field names; n/step runs to the end of the range.
Values(f, min, max) ==
  UNION {LET lo == IF t.lo = Star THEN min ELSE t.lo
             hi == IF t.lo = Star \/ (t.step > 1 /\ t.hi = t.lo) THEN max ELSE t.hi
         IN  {n \in lo..hi : (n - lo) % t.step = 0} : t \in f}

IsStar(f) == Token(Star, Star, 1) \in f

Times(e) == Values(e.hour, 0, 23) \X Values(e.minute, 0, 59)

\* The days on which an expression is due, dow(f) being its weekdays.  With
\* both a day of the month and a weekday, either will do.
DaysOf(e, dow) ==
  {d \in Days :
     LET onDom == d.dom \in Values(e.dom, 1, 31)
         onDow == d.dow \in dow
     IN  /\ d.month \in Values(e.month, 1, 12)
         /\ IF IsStar(e.dom) \/ IsStar(e.dow) THEN onDom /\ onDow ELSE onDom \/ onDow}

-----------------------------------------------------------------------------
(***************************************************************************)
(* Schedules.                                                              *)
(***************************************************************************)
NoCron == [form |-> "empty"]
Schedule(mode, clock, days, dom, cron) ==
  [mode |-> mode, clock |-> clock, days |-> days, dom |-> dom, cron |-> cron]

Manual == Schedule("manual", <<0, 0>>, {}, 0, NoCron)
Emptied == Schedule(Blank, <<0, 0>>, {}, 0, NoCron)
Daily(c) == Schedule("daily", c, {}, 0, NoCron)
Weekly(c, days) == Schedule("weekly", c, days, 0, NoCron)
Monthly(c, dom) == Schedule("monthly", c, {}, dom, NoCron)
Custom(e) == Schedule("cron", <<0, 0>>, {}, 0, e)

At(c, dom, dow) ==
  [form |-> "fields", minute |-> Just(c[2]), hour |-> Just(c[1]),
   dom |-> dom, month |-> Any, dow |-> dow]

\* Mutant of ToCronExpression: weekdays from 0 on.
ToCronFromZero(s) ==
  CASE s.mode = "daily" -> {At(s.clock, Any, Any)}
    [] s.mode = "weekly" /\ s.days # {} ->
         {At(s.clock, Any, {Token(d - 1, d - 1, 1) : d \in s.days})}
    [] s.mode = "monthly" -> {At(s.clock, Just(s.dom), Any)}
    [] s.mode = "cron" -> {s.cron}
    [] OTHER -> {}

\* ToCronExpression, an empty set when there is no expression.
ToCronExpression(s) ==
  CASE s.mode = "daily" -> {At(s.clock, Any, Any)}
    [] s.mode = "weekly" /\ s.days # {} ->
         {At(s.clock, Any, {Token(d, d, 1) : d \in s.days})}
    [] s.mode = "monthly" ->
         {At(s.clock, Just(IF s.dom \in 1..28 THEN s.dom ELSE 1), Any)}
    [] s.mode = "cron" /\ s.cron # NoCron -> {s.cron}
    [] OTHER -> {}

Never == [times |-> {}, days |-> {}]
When(times, days) == IF times = {} \/ days = {} THEN Never
                     ELSE [times |-> times, days |-> days]

\* When the daemon runs a job of this schedule, nextRunAfter from any time.
Due(s) ==
  LET valid == {e \in ToCronExpression(s) : ParseStandard(e)}
  IN  IF valid = {} THEN Never
      ELSE LET e == CHOOSE x \in valid : TRUE
           IN  When(Times(e), DaysOf(e, Values(e.dow, 0, 6)))

\* When its words say that it runs: weekdays 1 to 7 are Monday to Sunday, and
\* in a cron expression 0 is Sunday too, with which the week begins there.
Meant(s) ==
  CASE s.mode = "daily" -> When({s.clock}, Days)
    [] s.mode = "weekly" -> When({s.clock}, {d \in Days : d.dow \in {n % 7 : n \in s.days}})
    [] s.mode = "monthly" -> When({s.clock}, {d \in Days : d.dom = s.dom})
    [] s.mode = "cron" ->
         When(Times(s.cron), DaysOf(s.cron, {n % 7 : n \in Values(s.cron.dow, 0, 6)}))
    [] OTHER -> Never

\* IsHighFrequency compares the next two runs, so that the answer depends on
\* the moment.  It may be yes when a day has several, and for runs on
\* consecutive days, which are 23 hours apart when the clocks change.
IsHighFrequency(s) ==
  \/ Cardinality(Due(s).times) > 1
  \/ \E d, e \in Due(s).days : e.dow = (d.dow + 1) % 7

-----------------------------------------------------------------------------
(***************************************************************************)
(* Where schedules come from.                                              *)
(***************************************************************************)
validateHHMM == {c \in Clock : c[1] \in 0..23 /\ c[2] \in 0..59}
validateIntRange(min, max) == {n \in Doms : min <= n /\ n <= max}

\* The days a list names, and the lists that parseDayList accepts.
DaysIn(list) == UNION {r[1]..r[2] : r \in list}
parseDayList ==
  {DaysIn(l) : l \in {l \in DayLists : \A r \in l : 1 <= r[1] /\ r[1] <= r[2] /\ r[2] <= 7}}

PromptSchedule ==
  {Manual}
  \cup {Daily(c) : c \in validateHHMM}
  \cup {Weekly(c, days) : c \in validateHHMM, days \in parseDayList}
  \cup {Monthly(c, dom) : c \in validateHHMM, dom \in validateIntRange(1, 28)}
  \cup {Custom(e) : e \in {e \in Crons : ValidateCron(e)}}

\* parseDays of the API takes no ranges; only "daily" has its clock checked
\* against 23:59.
parseDays == {DaysIn(l) : l \in {l \in DayLists : \A r \in l : r[1] = r[2] /\ r[1] \in 1..7}}
NotNegative == {c \in Clock : c[1] >= 0 /\ c[2] >= 0}

BuildSchedule ==
  {Manual}
  \cup {Custom(e) : e \in {e \in Crons : ValidateCron(e)}}
  \cup {Daily(c) : c \in validateHHMM}
  \cup {Weekly(c, days) : c \in NotNegative, days \in parseDays}
  \cup {Monthly(c, dom) : c \in NotNegative, dom \in {n \in Doms : n \in 1..28}}

\* v1: invalid days are dropped, no day becomes Monday, a day of the month
\* out of range the first; each with a warning.  The clock is not checked.
parseDaysList(list) == DaysIn(list) \cap 1..7

ConvertSchedule ==
  {Manual}
  \cup {Daily(c) : c \in Clock}
  \cup {Weekly(c, IF parseDaysList(l) = {} THEN {1} ELSE parseDaysList(l)) :
          c \in Clock, l \in DayLists}
  \cup {Monthly(c, IF dom \in 1..28 THEN dom ELSE 1) : c \in Clock, dom \in Doms}
Schedules == PromptSchedule \cup BuildSchedule \cup ConvertSchedule \cup {Emptied}

-----------------------------------------------------------------------------
(***************************************************************************)
(* Retention.  A snapshot is [no, day], numbered in the order of their     *)
(* times.  A tier counts periods of so many days; a window is a number of  *)
(* days, 0 for none.                                                       *)
(***************************************************************************)
NoTiers == [t \in Tier |-> 0]
Retention(mode, last, within, keep) ==
  [mode |-> mode, last |-> last, within |-> within, keep |-> keep]

KeepAll == Retention("none", 0, 0, NoTiers)
KeepLast(n) == Retention("keep-last", n, 0, NoTiers)
KeepWithin(n) == Retention("keep-within", 0, n, NoTiers)
Tiered(keep, n) == Retention("tiered", 0, n, keep)

\* The flags of restic forget, as the retention that they ask for: a count
\* that is not positive gives no flag.
NoFlags == [last |-> 0, within |-> 0, keep |-> NoTiers]

\* Mutant of ForgetFlags: of the tiers, only one gets its flag.
ForgetFlagsOfOne(r) ==
  CASE r.mode = "keep-last" -> [NoFlags EXCEPT !.last = r.last]
    [] r.mode = "tiered" -> [NoFlags EXCEPT !.within = r.within, !.keep["daily"] = r.keep["daily"]]
    [] OTHER -> NoFlags

ForgetFlags(r) ==
  CASE r.mode = "keep-last" -> [NoFlags EXCEPT !.last = IF r.last > 0 THEN r.last ELSE 0]
    [] r.mode = "keep-within" -> [NoFlags EXCEPT !.within = r.within]
    [] r.mode = "tiered" ->
         [NoFlags EXCEPT !.within = r.within,
                         !.keep = [t \in Tier |-> IF r.keep[t] > 0 THEN r.keep[t] ELSE 0]]
    [] OTHER -> NoFlags

PeriodDays(t) == CASE t = "daily" -> 1 [] t = "weekly" -> 7
                   [] t = "monthly" -> 30 [] t = "yearly" -> 365
Period(s, t) == s.day \div PeriodDays(t)

IsNewestOf(s, S) == \A x \in S : x.no <= s.no
Newest(S, n) == {s \in S : Cardinality({x \in S : x.no > s.no}) < n}
Within(S, n) == {s \in S : \A x \in S : x.day - s.day < n}

\* restic forget: the newest n, those in the window before the newest, and of
\* each tier the newest of each of the last n periods that have any.
Forgets(f, S) ==
  LET ends(t) == {s \in S : IsNewestOf(s, {x \in S : Period(x, t) = Period(s, t)})}
  IN  IF f = NoFlags THEN S
      ELSE Newest(S, f.last) \cup Within(S, f.within)
           \cup UNION {Newest(ends(t), f.keep[t]) : t \in Tier}

\* What Describe tells the operator of a policy, S the snapshots and K those
\* that are left: "not fully configured" promises to keep all.
Describes(r, S, K) ==
  CASE r.mode = "keep-last" /\ r.last > 0 -> K = Newest(S, r.last)
    [] r.mode = "keep-within" /\ r.within > 0 -> K = Within(S, r.within)
    [] r.mode = "tiered" /\ r.keep # NoTiers ->
         /\ Within(S, r.within) \subseteq K
         /\ \A t \in Tier, s \in S :
              (\A x \in S : Period(x, t) - Period(s, t) < r.keep[t])
                => \E x \in K : Period(x, t) = Period(s, t)
    [] OTHER -> K = S

AsDescribed(r) == \A S \in Taken : Describes(r, S, Forgets(ForgetFlags(r), S))

-----------------------------------------------------------------------------
(***************************************************************************)
(* Where retentions come from.                                             *)
(***************************************************************************)
Positive == {n \in Counts : n > 0}
Tiers == [Tier -> Counts]

MayBeFrequent == {s \in Schedules : IsHighFrequency(s)}

\* promptTiered takes any whole number, and asks for a window only when the
\* job runs more than once per day.
promptTiered(s) ==
  {Tiered(k, 0) : k \in Tiers}
  \cup {Tiered(k, n) : k \in Tiers, n \in {n \in Positive : s \in MayBeFrequent}}

PromptRetention(program, s) ==
  IF program # "restic" THEN {KeepAll}
  ELSE {KeepAll} \cup {KeepLast(n) : n \in Positive} \cup promptTiered(s)

BuildRetention ==
  {KeepAll} \cup {KeepLast(n) : n \in Positive} \cup {KeepWithin(n) : n \in Positive}
  \cup {Tiered(k, 0) : k \in Tiers \ {NoTiers}}

\* v1 durations become counts: 2d is 2 of daily, 1 of weekly; a number
\* without a unit becomes 0.
AtLeastOne(n) == IF n < 1 THEN 1 ELSE n

durationToCount(d, t) ==
  LET n == d[1]
      u == d[2]
      daily == CASE u = "w" -> n * 7 [] u = "m" -> n * 30 [] u = "y" -> n * 365 [] OTHER -> n
      weekly == CASE u = "d" -> AtLeastOne(n \div 7) [] u = "m" -> n * 4
                  [] u = "y" -> n * 52 [] OTHER -> n
      monthly == CASE u = "d" -> 1 [] u = "w" -> AtLeastOne(n \div 4)
                   [] u = "y" -> n * 12 [] OTHER -> n
      yearly == IF u \in {"d", "w", "m"} THEN 1 ELSE n
  IN  IF u = Blank \/ n <= 0 THEN 0
      ELSE CASE t = "daily" -> daily [] t = "weekly" -> weekly
             [] t = "monthly" -> monthly [] t = "yearly" -> yearly

\* RETENTION none; keep-last-only and YES-LAST; YES-FULL with the tiers' keys,
\* with the number alone, or with neither.
NotSet == <<0, Blank>>
ConvertRetention ==
  {KeepAll} \cup {KeepLast(n) : n \in Positive \cup {1}}
  \cup {Tiered([t \in Tier |-> durationToCount(d[t], t)], 0) :
          d \in [Tier -> Durations] \ {[t \in Tier |-> NotSet]}}

-----------------------------------------------------------------------------
(***************************************************************************)
(* The job.                                                                *)
(***************************************************************************)
VARIABLES
  toml,     \* job.toml, NoJob before the job is created
  secrets,  \* the passwords in secrets.env
  door,     \* history: where the job came from, and its program then
  chosen,   \* history: the schedule the operator last chose
  backedOut,\* history: settings lost by going back in the edit wizard
  edits     \* history: counter of the bound

settings == <<toml, secrets, door, chosen, backedOut, edits>>

Program == {"restic", "rsync"}
SourceType == {"local", "share"}           \* smb and nfs alike
DestType == {"local", "s3", "share"}
Secret == {"restic", "aws", "source", "dest"}
Setting == {"schedule", "program", "enabled"}
Checks == {"off", "on", "bare"}            \* bare: on, but not where to ping

SettingsTypeOK ==
  /\ toml = NoJob \/
     /\ toml.program \in Program \cup {Blank} /\ toml.source \in SourceType
     /\ toml.dest \in DestType /\ toml.onShare \in BOOLEAN
     /\ toml.enabled \in BOOLEAN /\ toml.sched \in Schedules
     /\ toml.ret.mode \in {"none", "keep-last", "keep-within", "tiered"}
     /\ toml.checks \in Checks
  /\ secrets \subseteq Secret
  /\ door \in {"menu", "api", "v1", "copy"} \X Program
  /\ chosen \in Schedules
  /\ backedOut \subseteq Setting /\ edits \in 0..MaxEdits

\* The passwords that a run of these settings uses.
Needs(j) ==
  (IF j.program = "restic" THEN {"restic"} ELSE {})
  \cup (IF j.dest = "s3" THEN {"aws"} ELSE {})
  \cup (IF j.source = "share" THEN {"source"} ELSE {})
  \cup (IF j.dest = "share" THEN {"dest"} ELSE {})

InitSettings ==
  /\ toml = NoJob /\ secrets = {} /\ door = <<"menu", "restic">> /\ chosen = Manual
  /\ backedOut = {} /\ edits = 0

\* Bound: a job starts with one setting that is not the default; the others
\* are configured.
Plain(j) ==
  \/ j.ret = KeepAll /\ j.checks = "off"
  \/ j.sched = Manual /\ (j.ret = KeepAll \/ j.checks = "off")

Creates(from, j, s) ==
  /\ Plain(j)
  /\ toml' = j /\ secrets' = s
  /\ door' = <<from, j.program>> /\ chosen' = j.sched /\ UNCHANGED backedOut

\* Mutant of Save: it writes the passwords too, of a job read without them.
SaveBlank(j) ==
  /\ toml # NoJob
  /\ toml' = j /\ secrets' = {}
  /\ UNCHANGED door

\* Save writes job.toml, never secrets.env.
Save(j) ==
  /\ toml # NoJob
  /\ toml' = j
  /\ UNCHANGED <<secrets, door>>

Chooses(s) == Save([toml EXCEPT !.sched = s]) /\ chosen' = s /\ backedOut' = backedOut \ {"schedule"}
Kept == UNCHANGED <<chosen, backedOut>>

Job(p, src, dst, on, s, r, c) ==
  [program |-> p, source |-> src, dest |-> dst, onShare |-> on, enabled |-> TRUE,
   sched |-> s, ret |-> r, checks |-> c]

\* s3 is for restic.
Destinations(p) == IF p = "restic" THEN DestType ELSE DestType \ {"s3"}

\* Checks are switched on with a place to ping.
PromptNotifications == {"off", "on"}

\* The wizard asks for each password that its choices need, and puts a
\* share's destination below the job's own mount point.
CreateWizard ==
  /\ toml = NoJob
  /\ \E p \in Program, src \in SourceType, s \in PromptSchedule, c \in PromptNotifications :
     \E dst \in Destinations(p), r \in PromptRetention(p, s) :
       LET j == Job(p, src, dst, dst = "share", s, r, c)
       IN  Creates("menu", j, Needs(j))

\* Of the API only restic's password is required, and the path on a share is
\* as given.
ApiCreate ==
  /\ toml = NoJob
  /\ \E p \in Program, on \in BOOLEAN :
     \E dst \in Destinations(p) :
       LET j == Job(p, "local", dst, dst = "share" /\ on, Manual, KeepAll, "off")
       IN  \E s \in SUBSET Needs(j) :
             Needs(j) \cap {"restic"} \subseteq s /\ Creates("api", j, s)

\* A v1 configuration names its own mount points, and the key of a
\* destination's password is read as the source's.  A destination share that
\* wants a password is then refused by validateDestination.
ImportLegacy ==
  /\ toml = NoJob
  /\ \E p \in Program, src \in SourceType, dst \in DestType, s \in ConvertSchedule,
        r \in ConvertRetention, c \in {"off", "on"} :
       LET j == Job(p, src, dst, FALSE, s, r, c)
       IN  \E k \in SUBSET (Needs(j) \ {"dest"}) : Creates("v1", j, k)

\* A job.toml under a new ID: the paths of a share stay those of the old ID.
\* The passwords come with it if their file lies beside it.  Bound: once.
ImportRenamed ==
  /\ toml # NoJob /\ door[1] # "copy"
  /\ toml' = [toml EXCEPT !.onShare = FALSE]
  /\ secrets' \in {secrets, {}}
  /\ door' = <<"copy", door[2]>> /\ Kept

ConfigureSchedule == \E s \in PromptSchedule : Chooses(s)
ConfigureRetention ==
  /\ toml # NoJob
  /\ \E r \in PromptRetention(toml.program, toml.sched) : Save([toml EXCEPT !.ret = r])
  /\ Kept
ConfigureNotifications == \E c \in PromptNotifications : Save([toml EXCEPT !.checks = c]) /\ Kept

ApiScheduleSet == \E s \in BuildSchedule : Chooses(s)
ApiRetentionSet ==
  /\ toml # NoJob /\ toml.program = "restic"
  /\ \E r \in BuildRetention : Save([toml EXCEPT !.ret = r])
  /\ Kept
\* Switched on without an ID, checks have nowhere to go.
ApiNotificationsSet ==
  /\ \/ Save([toml EXCEPT !.checks = "off"])
     \/ Save([toml EXCEPT !.checks = "on"])
     \/ toml # NoJob /\ toml.checks = "off" /\ Save([toml EXCEPT !.checks = "bare"])
  /\ Kept

\* job edit takes any path; it asks for no password and changes no type.
ApiEdit ==
  /\ \E on \in BOOLEAN : Save([toml EXCEPT !.onShare = on /\ toml.dest = "share"])
  /\ Kept
ApiEnableDisable ==
  /\ toml # NoJob
  /\ \E b \in BOOLEAN : b # toml.enabled /\ Save([toml EXCEPT !.enabled = b])
  /\ Kept

(***************************************************************************)
(* The edit wizard asks about each setting and saves at its end.  A pass    *)
(* that changes several is several passes here.  Where it does not look     *)
(* whether the operator went back, the empty answer is saved.               *)
(***************************************************************************)
Loses(what) == backedOut' = backedOut \cup {what} /\ UNCHANGED chosen

ReconfigureProgram ==
  \/ \E p \in Program :
       /\ Save([toml EXCEPT !.program = p])
       /\ backedOut' = backedOut \ {"program"} /\ UNCHANGED chosen
  \/ Save([toml EXCEPT !.program = Blank]) /\ Loses("program")

ReconfigureDestination ==
  /\ \E on \in BOOLEAN : Save([toml EXCEPT !.onShare = on /\ toml.dest = "share"])
  /\ Kept

ReconfigureSchedule ==
  \/ \E s \in PromptSchedule : Chooses(s)
  \/ Save([toml EXCEPT !.sched = Emptied]) /\ Loses("schedule")

ReconfigureEnabled ==
  \/ \E b \in BOOLEAN :
       /\ Save([toml EXCEPT !.enabled = b])
       /\ backedOut' = backedOut \ {"enabled"} /\ UNCHANGED chosen
  \/ Save([toml EXCEPT !.enabled = FALSE]) /\ Loses("enabled")

Reconfigure ==
  \/ ReconfigureProgram
  \/ ReconfigureDestination
  \/ ReconfigureSchedule
  \/ ConfigureRetention
  \/ ConfigureNotifications
  \/ ReconfigureEnabled

\* removeJob, and job delete.
DeleteJob ==
  /\ toml # NoJob
  /\ toml' = NoJob /\ secrets' = {}
  /\ chosen' = Manual /\ backedOut' = {} /\ UNCHANGED door

NextSettings ==
  /\ edits < MaxEdits /\ edits' = edits + 1
  /\ \/ CreateWizard
     \/ ApiCreate
     \/ ImportLegacy
     \/ ImportRenamed
     \/ ConfigureSchedule
     \/ Reconfigure
     \/ ApiScheduleSet
     \/ ApiRetentionSet
     \/ ApiNotificationsSet
     \/ ApiEdit
     \/ ApiEnableDisable
     \/ DeleteJob

SettingsSpec == InitSettings /\ [][NextSettings]_settings

-----------------------------------------------------------------------------
(***************************************************************************)
(* Properties.                                                             *)
(***************************************************************************)

\* Schedules that are accepted and planned otherwise than they say: Sunday as
\* 7, shorthands in capitals, and a clock beyond 23:59.
Misplanned ==
  {s \in Schedules :
     \/ 7 \in s.days
     \/ s.mode = "cron" /\ (s.cron.form = "Shorthand" \/
                            (s.cron.form = "fields" /\ ~ValidField(s.cron.dow, 0, 6)))
     \/ s.clock[1] \notin 0..23 \/ s.clock[2] \notin 0..59}

WellPlanned == {s \in Schedules : Due(s) = Meant(s)}

\* The daemon plans a job for exactly the times and days that the operator
\* last chose, whichever door the schedule came through (promptSchedule,
\* buildSchedule, convertSchedule, ToCronExpression, nextRunAfter), but for
\* the schedules named above and for those lost by going back.
ScheduledAsChosen ==
  toml # NoJob =>
    /\ toml.sched = chosen \/ "schedule" \in backedOut
    /\ chosen \in WellPlanned \cup Misplanned

AllTiered == {Tiered(k, n) : k \in Tiers, n \in Positive \cup {0}}
Retentions == PromptRetention("restic", Manual) \cup BuildRetention \cup ConvertRetention \cup AllTiered
Honest == {r \in Retentions : AsDescribed(r)}

\* After a run the repository holds what the policy's description says
\* (ForgetFlags, Describe): the tiers' restore points, every snapshot of the
\* window, all of them where it says so.  A window without any tier is the
\* exception: it prunes and calls itself not configured.
PrunedAsDescribed ==
  toml # NoJob =>
    toml.ret \in Honest \/ (toml.ret.keep = NoTiers /\ toml.ret.within > 0)

\* A job made in the wizard has every password that its runs use, whatever is
\* edited since, except restic's after its program was changed.
PasswordsSuffice ==
  toml # NoJob /\ door[1] = "menu" =>
    Needs(toml) \subseteq secrets \cup (IF door[2] = "restic" THEN {} ELSE {"restic"})

(***************************************************************************)
(* What comments and prompts say and the code does not keep.               *)
(***************************************************************************)

\* "cron also accepts 7 as Sunday" (ToCronExpression): what is accepted is
\* planned as it says.
AllPlanned == toml # NoJob => chosen \in WellPlanned

\* "Enter to go back" (Select): going back changes no setting.
GoingBackChangesNothing == backedOut = {}

\* "not fully configured" (describeTiered): such a policy prunes nothing.
AllPrunedAsDescribed == toml # NoJob => toml.ret \in Honest
=============================================================================
