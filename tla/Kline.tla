-------------------------------- MODULE Kline --------------------------------
(***************************************************************************)
(* What a SUCCESS says about the data of one stock: the generators that    *)
(* make the day's tasks, upsert_kline with its check of the last bar, the  *)
(* local aggregation of weekly bars, and upsert_minute.                    *)
(*                                                                         *)
(* Every row of every table belongs to one stock, so one stock is enough.  *)
(* A row is the day it is dated; a weekly bar is the set of daily bars it  *)
(* was made from. A task is "todo" until it succeeds: FAILED rows come     *)
(* back (FetchTask shows it). Monthly tasks are weekly ones with the month *)
(* for the week. The backfill of the past is left out.                     *)
(***************************************************************************)
EXTENDS Integers, FiniteSets, FiniteSetsExt

CONSTANTS
  LastDay,    \* bound: days 1..LastDay
  Trading,    \* trade_calendar
  Week,       \* the ISO week of each day
  Adjust,     \* the price calibers, "bare" (adjust = '') among them
  DaysBack,   \* days_back: how far a daily window reaches back
  MinuteDays, \* the days a minute fetch reaches back
  ActiveDays, \* the days without a daily row that make a stock inactive
  StaleDays,  \* _STALE_TRADE_DAYS
  Kinds,      \* bound: which of "weekly" and "minute" tasks are made
  OnlineWeeks,\* environment: some source has weekly bars
  Punctual    \* environment: the process is up at 15:35 and 16:10 of every
              \* trading day, the statistics are refreshed overnight, and a
              \* daily task has succeeded by the end of the day after its own

Day == 1..LastDay

ASSUME CalendarAssumption ==
  /\ LastDay \in Nat \ {0} /\ Trading \subseteq Day /\ Week \in [Day -> Nat]
  /\ "bare" \in Adjust /\ DaysBack \in Nat /\ StaleDays \in Nat /\ Kinds \subseteq {"weekly", "minute"}
  /\ {OnlineWeeks, Punctual} \subseteq BOOLEAN

VARIABLES
  today,      \* date.today()
  traded,     \* the days the stock is traded; on the others it is halted
  published,  \* the days the source has
  answer,     \* the rows in hand of a daily task being executed, {} for none
  daily,      \* daily_kline: the days with prices, per caliber
  minute,     \* the minute shard: the days with bars
  weekly,     \* weekly_kline: the daily bars in the bar dated d, {} for no row
  statsMax,   \* stock_stats.daily_max_date, 0 for NULL
  dtask,      \* the daily tasks by date_end and caliber
  wtask,      \* the weekly tasks by date_end
  mtask       \* the minute tasks by date

world == <<today, traded, published, answer>>
store == <<daily, minute, weekly>>
tasks == <<dtask, wtask, mtask>>
vars  == <<today, traded, published, answer, daily, minute, weekly, statsMax, dtask,
           wtask, mtask>>

Init ==
  /\ today = 1
  /\ traded \in SUBSET Trading
  /\ published = {}
  /\ answer = [d \in Day |-> [a \in Adjust |-> {}]]
  /\ daily = [a \in Adjust |-> {}]
  /\ minute = {}
  /\ weekly = [d \in Day |-> {}]
  /\ statsMax = 0
  /\ dtask = [d \in Day |-> [a \in Adjust |-> "none"]]
  /\ wtask = [d \in Day |-> "none"]
  /\ mtask = [d \in Day |-> "none"]

Latest(S) == IF S = {} THEN 0 ELSE Max(S)

\* The days with a row in daily_kline, whatever columns are filled.
Rows == UNION {daily[a] : a \in Adjust}

-----------------------------------------------------------------------------
(* stale_stock_codes: the last daily row is StaleDays trading days behind. *)
Recent == {d \in Trading : d <= today /\ Cardinality({e \in Trading : d <= e /\ e <= today}) <= StaleDays}

Stale == Cardinality(Recent) = StaleDays /\ statsMax # 0 /\ statsMax < Min(Recent)

\* generate_daily_incremental and generate_weekly_monthly_incremental, 16:10, in one
\* step: TaskGen has the batches and the second look at the stale stocks.
GenerateDaily ==
  /\ today \in Trading /\ dtask[today]["bare"] = "none"
  /\ dtask' = [dtask EXCEPT ![today] =
                 [a \in Adjust |-> IF a = "bare" \/ ~Stale THEN "todo" ELSE @[a]]]
  /\ wtask' = IF Stale \/ "weekly" \notin Kinds
              THEN wtask ELSE [wtask EXCEPT ![today] = "todo"]
  /\ UNCHANGED <<world, store, statsMax, mtask>>

\* generate_minute_daily, 15:35.
GenerateMinute ==
  /\ "minute" \in Kinds /\ today \in Trading /\ mtask[today] = "none" /\ ~Stale
  /\ mtask' = [mtask EXCEPT ![today] = "todo"]
  /\ UNCHANGED <<world, store, statsMax, dtask, wtask>>

RefreshStats ==
  /\ statsMax' = Latest(Rows)
  /\ UNCHANGED <<world, store, tasks>>

-----------------------------------------------------------------------------
(* The world: days pass, and the source publishes a traded day's bar some  *)
(* time on that day.                                                       *)
Publish ==
  /\ today \in traded \ published
  /\ published' = published \cup {today}
  /\ UNCHANGED <<today, traded, answer, store, statsMax, tasks>>

NextDay ==
  /\ today < LastDay
  /\ today \in traded => today \in published
  /\ Punctual => /\ today \in Trading => dtask[today]["bare"] # "none"
                 /\ "minute" \in Kinds /\ today \in Trading /\ ~Stale => mtask[today] # "none"
                 /\ statsMax = Latest(Rows)
                 /\ \A d \in 1..(today - 1), a \in Adjust : dtask[d][a] # "todo"
  /\ today' = today + 1
  /\ UNCHANGED <<traded, published, answer, store, statsMax, tasks>>

-----------------------------------------------------------------------------
(* upsert_kline for a daily task: the window ending at d.                  *)

\* Mutant: no day is fetched twice.
WindowOfOneDay(d) == {d}

Window(d) == {e \in Day : d - DaysBack <= e /\ e <= d}

\* Mutant: a gap of one day is taken for a halt.
HaltedAfterOneDay(d, last) == d < today \/ last < d
\* _assert_end_bar tells a halted stock from a source that is late: the day is
\* over, or two trading days lie between the last bar and the window's end.
Halted(d, last) ==
  \/ d < today
  \/ Cardinality({e \in Trading : last < e /\ e <= d}) >= 2

\* _minute_bars_on: the stock has been traded on that day.
Evidence(d) == d \in minute

\* _assert_end_bar lets the task succeed; last is the newest day of the answer.
EndBarOk(d, last) == d \in Rows' \/ (Halted(d, last) /\ ~Evidence(d))

\* fetch_kline answers, before anything is written.
DailyFetch(d, a) ==
  /\ dtask[d][a] = "todo" /\ answer[d][a] = {}
  /\ answer' = [answer EXCEPT ![d][a] = published \cap Window(d)]
  /\ UNCHANGED <<today, traded, published, store, statsMax, tasks>>

\* Everything is written, and the last bar is looked up in the table.
DailyWrites(d, a) ==
  /\ answer[d][a] # {}
  /\ daily' = [daily EXCEPT ![a] = @ \cup answer[d][a]]
  /\ answer' = [answer EXCEPT ![d][a] = {}]
  /\ dtask' = IF EndBarOk(d, Max(answer[d][a]))
              THEN [dtask EXCEPT ![d][a] = "done"] ELSE dtask
  /\ UNCHANGED <<today, traded, published, minute, weekly, statsMax, wtask, mtask>>

\* A chunk fails, or the process stops; the chunks before are committed.
DailyBreaksOff(d, a) ==
  /\ \E e \in answer[d][a] :
       daily' = [daily EXCEPT ![a] = @ \cup {f \in answer[d][a] : f < e}]
  /\ answer' = [answer EXCEPT ![d][a] = {}]
  /\ UNCHANGED <<today, traded, published, minute, weekly, statsMax, tasks>>

\* The answer is empty: nothing to write, and the task succeeds.
DailyEmpty(d, a) ==
  /\ dtask[d][a] = "todo" /\ answer[d][a] = {}
  /\ published \cap Window(d) = {}
  /\ dtask' = [dtask EXCEPT ![d][a] = "done"]
  /\ UNCHANGED <<world, store, statsMax, wtask, mtask>>

-----------------------------------------------------------------------------
(* upsert_kline for a weekly task, from Monday to d.                       *)

\* Mutant: the window of a weekly task rolls along with its end.
RollingWindow(d) == {d - 1, d} \cap Day

WeekUpTo(d) == {e \in Day : Week[e] = Week[d] /\ e <= d}

\* One bar, dated by the last of the days it is made of. The check of the last
\* bar defers for today and lets a day that is over pass.
StoreWeek(d, S) ==
  /\ weekly' = [weekly EXCEPT ![Max(S)] = S]
  /\ wtask' = [wtask EXCEPT ![d] = "done"]
  /\ UNCHANGED <<world, daily, minute, statsMax, dtask, mtask>>

\* The online source answers.
WeeklyOnline(d) ==
  /\ wtask[d] = "todo" /\ OnlineWeeks
  /\ LET S == published \cap WeekUpTo(d)
     IN  S # {} /\ StoreWeek(d, S)

\* It raises: the bar is aggregated from daily_kline; no daily bars, no success.
WeeklyLocal(d) ==
  /\ wtask[d] = "todo"
  /\ LET S == daily["bare"] \cap WeekUpTo(d)
     IN  S # {} /\ StoreWeek(d, S)

WeeklyEmpty(d) ==
  /\ wtask[d] = "todo" /\ OnlineWeeks
  /\ published \cap WeekUpTo(d) = {}
  /\ wtask' = [wtask EXCEPT ![d] = "done"]
  /\ UNCHANGED <<world, store, statsMax, dtask, mtask>>

-----------------------------------------------------------------------------
(* upsert_minute: the last days up to now, whatever the task's date.       *)
\* Mutant: a minute fetch reaches a day ahead.
MinuteRowsAhead == {d \in traded : today - MinuteDays < d /\ d <= today + 1}

MinuteRows == {d \in traded : today - MinuteDays < d /\ d <= today}

\* A task left over from an earlier day may run before today's first bar.
MinuteAnswers(d) == {MinuteRows} \cup IF d < today THEN {MinuteRows \ {today}} ELSE {}

Active == \E d \in Rows : d >= today - ActiveDays

\* One step, though the chunks commit one by one: what a task that fails between
\* two of them leaves in the table is left out, it only adds to Evidence.
MinuteWrites(d) ==
  /\ mtask[d] = "todo"
  /\ \E S \in MinuteAnswers(d) : S # {} /\ minute' = minute \cup S
  /\ mtask' = [mtask EXCEPT ![d] = "done"]
  /\ UNCHANGED <<world, daily, weekly, statsMax, dtask, wtask>>

\* An empty answer is a failure for a stock that has recent daily bars.
MinuteEmpty(d) ==
  /\ mtask[d] = "todo"
  /\ ~Active /\ {} \in MinuteAnswers(d)
  /\ mtask' = [mtask EXCEPT ![d] = "done"]
  /\ UNCHANGED <<world, store, statsMax, dtask, wtask>>

-----------------------------------------------------------------------------
Work(d) ==
  \/ \E a \in Adjust : \/ DailyFetch(d, a) \/ DailyWrites(d, a)
                        \/ DailyBreaksOff(d, a) \/ DailyEmpty(d, a)
  \/ WeeklyOnline(d) \/ WeeklyLocal(d) \/ WeeklyEmpty(d)
  \/ MinuteWrites(d) \/ MinuteEmpty(d)

Next ==
  \/ GenerateDaily \/ GenerateMinute \/ RefreshStats
  \/ NextDay \/ Publish
  \/ \E d \in Day : Work(d)

Spec == Init /\ [][Next]_vars

-----------------------------------------------------------------------------
TaskState == {"none", "todo", "done"}

TypeOK ==
  /\ today \in Day /\ traded \in SUBSET Trading
  /\ published \in SUBSET {d \in traded : d <= today}
  /\ answer \in [Day -> [Adjust -> SUBSET published]]
  /\ daily \in [Adjust -> SUBSET published]
  /\ minute \in SUBSET {d \in traded : d <= today}
  /\ weekly \in [Day -> SUBSET published]
  /\ statsMax \in Day \cup {0}
  /\ dtask \in [Day -> [Adjust -> TaskState]]
  /\ wtask \in [Day -> TaskState]
  /\ mtask \in [Day -> TaskState]

-----------------------------------------------------------------------------
Succeeds(d, a) == dtask[d][a] = "todo" /\ dtask'[d][a] = "done"

PrecedingTrading(d) == Latest({e \in Trading : e < d})

\* The trading days whose task's window reaches back to d.
Later(d) == {e \in Trading : d < e /\ e <= d + DaysBack}

\* The publication race of 9-30: a stock that is traded today, and was traded
\* the trading day before, has no task of today that succeeds before today's
\* row is in the table, however early the source was asked.
ActiveStockWaits ==
  [][\A d \in Day, a \in Adjust :
       /\ Succeeds(d, a) /\ d = today /\ d \in traded
       /\ PrecedingTrading(d) \in traded \cap Window(d)
       => d \in Rows']_vars

\* A traded day whose own task succeeded without its row has the unadjusted row
\* when the task of a later day that reaches back to it has succeeded.
TradedDayHealed ==
  \A d \in traded :
    (\E e \in Later(d) : dtask[e]["bare"] = "done") => d \in daily["bare"]

\* The adjusted prices too, which are not asked for while the stock is taken for
\* stale: the probe's row ends that before the last such task, where a window
\* reaches back less far than the statistics look (7 days against 10).
AdjustedDayHealed ==
  Punctual /\ DaysBack < StaleDays =>
    \A d \in traded, a \in Adjust :
      /\ Cardinality(Later(d)) >= 3
      /\ \A e \in Later(d) : dtask[e]["bare"] = "done" /\ dtask[e][a] # "todo"
      => d \in daily[a]

\* A weekly bar whose days are all in daily_kline loses none of them when it is
\* stored again: by a retry, by the task of a later day that has no new bar, by
\* the local aggregation after the online source or the other way round.
BarsOnlyGrow == [][\A d \in Day : weekly[d] \subseteq daily["bare"] => weekly[d] \subseteq weekly'[d]]_vars
=============================================================================
