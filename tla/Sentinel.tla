------------------------------ MODULE Sentinel ------------------------------
(***************************************************************************)
(* The sentinel: every 15 minutes it compares the newest rows of the four  *)
(* bar tables with what the trading calendar lets one expect, the successes*)
(* of the last 15 minutes with the rows of the day, looks at the breakers, *)
(* and stores the worst of the six verdicts in sentinel_report.            *)
(*                                                                         *)
(* A day is cut into the parts its checks tell apart, with one check at the*)
(* end of each; the window of 15 minutes is the part.                      *)
(***************************************************************************)
EXTENDS Integers, FiniteSetsExt

CONSTANTS
  Shard,        \* the minute tables
  Source,       \* the sources with a breaker
  Live,         \* the data types the instance collects
  FirstDay, LastDay, \* bound: the days that pass; those before are history
  Trading,      \* trade_calendar
  WeekLength, Friday, \* a week and the place of its Friday
  MonthEnd,     \* the last days of the months
  NewYear,      \* the week whose ISO number is 1
  LongYear      \* the year before it has 53 weeks

Kind == {"daily", "weekly", "monthly", "minute"}
Day == 1..LastDay

\* 00:00-00:15, then up to 9:35, 15:35, 18:00, 19:00, 24:00.
Midnight == 0  Morning == 1  Session == 2  Collecting == 3  Evening == 4  Night == 5
Part == Midnight..Night

ASSUME SentinelAssumption ==
  /\ Shard # {} /\ Live \subseteq Kind
  /\ LastDay \in Nat /\ FirstDay \in 2..LastDay /\ Trading \subseteq Nat
  /\ \E d \in Trading : 0 < d /\ d < FirstDay
  /\ MonthEnd \subseteq Nat /\ \E e \in MonthEnd : LastDay <= e
  /\ WeekLength \in Nat \ {0} /\ Friday \in 1..WeekLength
  /\ NewYear \in Nat /\ LongYear \in BOOLEAN

Cooldown == 300
LongOpen == 1800

VARIABLES
  today, part,
  newest,   \* MAX(trading_date) of the daily, weekly and monthly table, 0 if empty
  shard,    \* the day of MAX(minute_time) of each minute table, 0 if empty
  done,     \* the types with more than 100 SUCCESS in the window
  cooling,  \* seconds until each source is tried again, 0 for available
  rhythm,   \* the collectors have kept the rhythm of the day so far
  report    \* the last row of sentinel_report, the verdicts by check

vars == <<today, part, newest, shard, done, cooling, rhythm, report>>

-----------------------------------------------------------------------------
(* The calendar.                                                           *)

\* _latest_trade_date, 0 for None
LatestTrade(d) == Max({0} \cup {t \in Trading : t <= d})

OrElse(a, b) == IF a # 0 THEN a ELSE b

Week(d) == (d - 1) \div WeekLength
FridayOf(w) == w * WeekLength + Friday

\* The week before by its ISO number: before week 1 comes week 52.
LastWeek(w) == IF w = NewYear /\ LongYear THEN w - 2 ELSE w - 1

LastDayOfMonth == Min({e \in MonthEnd : e >= today})
LastDayOfPrevMonth == Max({0} \cup {e \in MonthEnd : e < today})

\* now >= 18:00 of day d
Past18(d) == today > d \/ (today = d /\ part >= Evening)

-----------------------------------------------------------------------------
(* The six checks.                                                         *)

Fresh(latest, expected) == IF latest = 0 \/ latest < expected THEN "CRIT" ELSE "OK"

DailyExpected ==
  IF Past18(today) /\ LatestTrade(today) = today
  THEN today
  ELSE OrElse(LatestTrade(today - 1), LatestTrade(today))

DailyCheck ==
  IF LatestTrade(today) = 0 THEN "WARN" ELSE Fresh(newest["daily"], DailyExpected)

\* Bars at 14:55 and 15:00 are both bars of their day.
MinuteExpected ==
  IF today \notin Trading THEN 0
  ELSE IF part = Night THEN today
  ELSE IF part >= Session THEN LatestTrade(today - 1) ELSE 0

Filled == {s \in Shard : shard[s] # 0}

\* Mutant: the newest of the tables stands for all.
BestShard ==
  IF Filled = {} THEN "CRIT"
  ELSE Fresh(Max({shard[s] : s \in Filled}), MinuteExpected)

\* The worst of the tables that have rows.
MinuteCheck ==
  IF Filled = {} THEN "CRIT"
  ELSE Fresh(Min({shard[s] : s \in Filled}), MinuteExpected)

WeeklyExpected ==
  LET friday == FridayOf(Week(today))
      last   == FridayOf(LastWeek(Week(today)))
  IN  IF Past18(friday) /\ LatestTrade(today) = friday
      THEN friday ELSE OrElse(LatestTrade(last), last)

WeeklyCheck == Fresh(newest["weekly"], WeeklyExpected)

MonthlyExpected ==
  LET last == LatestTrade(LastDayOfMonth)
  IN  IF last # 0 /\ Past18(last)
      THEN last ELSE OrElse(LatestTrade(LastDayOfPrevMonth), LastDayOfPrevMonth)

MonthlyCheck == Fresh(newest["monthly"], MonthlyExpected)

\* The date of now - 15 minutes.
WindowDate == IF part = Midnight THEN today - 1 ELSE today

\* Mutant: bars younger than now - 15 minutes, which no bar of the day is by the
\* time it is stored.
SinceFullTime(k) == k # "minute" /\ newest[k] >= WindowDate

\* Are there rows dated WindowDate or later?
HasNewRows(k) ==
  IF k = "minute" THEN \E s \in Shard : shard[s] >= WindowDate
  ELSE newest[k] >= WindowDate

FakeSuccessCheck == IF \E k \in done : ~HasNewRows(k) THEN "CRIT" ELSE "OK"

\* What is known of how long a breaker has been open: the cool-down that has passed.
Elapsed(s) == Cooldown - cooling[s]

BreakerCheck ==
  IF \E s \in Source : cooling[s] > 0 /\ Elapsed(s) > LongOpen THEN "WARN" ELSE "OK"

Checks == [daily |-> DailyCheck, minute |-> MinuteCheck, weekly |-> WeeklyCheck,
           monthly |-> MonthlyCheck, fake |-> FakeSuccessCheck, breakers |-> BreakerCheck]

Verdicts(r) == {r[c] : c \in DOMAIN r}

\* _aggregate: the worst.
Aggregate(r) ==
  IF "CRIT" \in Verdicts(r) THEN "CRIT"
  ELSE IF "WARN" \in Verdicts(r) THEN "WARN" ELSE "OK"

NoReport == [on |-> <<0, 0>>, status |-> "UNKNOWN"]

Report == [on |-> <<today, part>>, checks |-> Checks, status |-> Aggregate(Checks)]

-----------------------------------------------------------------------------
(* The tables at the start are complete up to the day before.              *)
Init ==
  /\ today = FirstDay /\ part = Midnight
  /\ newest = [k \in Kind \ {"minute"} |-> IF k \in Live THEN LatestTrade(today - 1) ELSE 0]
  /\ shard = [s \in Shard |-> IF "minute" \in Live THEN LatestTrade(today - 1) ELSE 0]
  /\ done = {}
  /\ cooling = [s \in Source |-> 0] /\ rhythm = TRUE
  /\ report = NoReport

Later(d, v) == Max({d, v})

\* The tasks of type k that come to SUCCESS, more than 100 of them or not, write
\* bars of day d: of an earlier day, or of today once it is closed. A collector
\* that keeps the rhythm fetches the day's own bars.
Writes(k, d) ==
  /\ k \in Live /\ d \in Trading
  /\ d < today \/ (d = today /\ part >= Collecting)
  /\ rhythm' = (rhythm /\ d = today)
  /\ done' \in {done, done \cup {k}}
  /\ UNCHANGED <<today, part, cooling, report>>

Collects(k, d) ==
  /\ Writes(k, d)
  /\ newest' = [newest EXCEPT ![k] = Later(d, @)]
  /\ UNCHANGED shard

CollectsMinute(d, S) ==
  /\ Writes("minute", d)
  /\ shard' = [s \in Shard |-> IF s \in S THEN Later(d, shard[s]) ELSE shard[s]]
  /\ UNCHANGED newest

\* More than 100 tasks of type k come to SUCCESS and have written nothing.
SucceedsEmpty(k) ==
  /\ k \in Live
  /\ done' = done \cup {k} /\ rhythm' = FALSE
  /\ UNCHANGED <<today, part, newest, shard, cooling, report>>

\* Mutant: the pauses add up.
PausesAddUp(s, left) ==
  /\ cooling' = [cooling EXCEPT ![s] = @ + left]
  /\ UNCHANGED <<today, part, newest, shard, done, rhythm, report>>

\* A source that fails is skipped for five minutes, `left` of which remain at the
\* next check.
SourceFails(s, left) ==
  /\ cooling' = [cooling EXCEPT ![s] = left]
  /\ UNCHANGED <<today, part, newest, shard, done, rhythm, report>>

\* The collectors that keep the rhythm are done by 18:00, those of the minute
\* bars by 19:00.
OnTime ==
  today \in Trading =>
    /\ part >= Collecting => \A k \in Live \ {"minute"} : newest[k] = today
    /\ part >= Evening /\ "minute" \in Live => \A s \in Shard : shard[s] = today

Advance ==
  /\ today < LastDay \/ part < Night
  /\ part' = (part + 1) % 6
  /\ today' = IF part = Night THEN today + 1 ELSE today
  /\ done' = {} /\ rhythm' = (rhythm /\ OnTime)
  /\ cooling' = [s \in Source |-> 0]
  /\ UNCHANGED <<newest, shard>>

\* run_sentinel_check
Check == Advance /\ report' = Report

\* The check has raised, or its row could not be written: a line in the log.
CheckLost == Advance /\ UNCHANGED report

Next ==
  \/ \E k \in Kind \ {"minute"}, d \in Day : Collects(k, d)
  \/ \E d \in Day, S \in SUBSET Shard : S # {} /\ CollectsMinute(d, S)
  \/ \E k \in Kind : SucceedsEmpty(k)
  \/ \E s \in Source, left \in {1, Cooldown} : SourceFails(s, left)
  \/ Check \/ CheckLost

Spec == Init /\ [][Next]_vars

-----------------------------------------------------------------------------
TypeOK ==
  /\ today \in Day /\ part \in Part
  /\ newest \in [Kind \ {"minute"} -> 0..LastDay]
  /\ shard \in [Shard -> 0..LastDay]
  /\ done \subseteq Kind /\ rhythm \in BOOLEAN
  /\ cooling \in [Source -> 0..Cooldown]
  /\ report.status \in {"UNKNOWN", "OK", "WARN", "CRIT"}

\* A report is written by this step.
Written == report' # report

\* What a type should have by the end of the day: its bars in the daily table and
\* in every shard, in the weekly table on a Friday, in the monthly table on the
\* month's last trading day.
Missing(k) ==
  /\ k \in Live /\ today \in Trading
  /\ CASE k = "daily"   -> newest[k] < today
       [] k = "minute"  -> \E s \in Shard : shard[s] < today
       [] k = "weekly"  -> today = FridayOf(Week(today)) /\ newest[k] < today
       [] k = "monthly" -> today = LatestTrade(LastDayOfMonth) /\ newest[k] < today

\* An outage is reported the same evening, whichever type and whichever shard it
\* hits, and so is a day on which tasks succeed and store nothing (docs/plans
\* T5:290 and T10:104), unless that shard has never held a row.
OutageReported ==
  [][Written /\ part = Night /\ (\E k \in Kind : Missing(k)) => report'.status = "CRIT"]_vars

\* As long as the collectors keep the rhythm of the day no check raises the
\* alarm, over weekends, holidays and the ends of months (T10:19-33, the false
\* alarms the plan removes).
NoFalseAlarm ==
  [][Written /\ rhythm' => \A k \in Live \cup {"fake", "breakers"} : report'.checks[k] = "OK"]_vars
=============================================================================
