------------------------------- MODULE TaskGen -------------------------------
(***************************************************************************)
(* The cron jobs that decide what is fetched at all: the refresh of the    *)
(* trade calendar and the stock list at 08:00, and the generators of the   *)
(* day's tasks at 15:35 and 16:10, which write their rows in batches that  *)
(* commit one by one.                                                      *)
(*                                                                         *)
(* A cron time that finds the process down is not made up for. The jobs    *)
(* lie hours (08:00, 15:35) or half an hour (15:35, 16:10) apart and their *)
(* calls time out, so one is over when the next begins. The order of the   *)
(* rows in one generator's list is left open: a batch is any part of it.   *)
(* What becomes of a task is FetchTask's and Kline's subject: here a row   *)
(* of fetch_task is its unique key, and inserting it again changes nothing.*)
(***************************************************************************)
EXTENDS Integers, FiniteSets, FiniteSetsExt, DateChunks

CONSTANTS
  Stock,      \* the stocks of the market
  Dormant,    \* environment: the stocks that may be judged stale
  Caliber,    \* the values of adjust, "bare" (adjust = '') among them
  LastDay,    \* bound: days 1..LastDay
  Trading,    \* the market's calendar
  Start,      \* by period and day, the first day of the day's week or month
  DaysBack,   \* days_back
  GenChunk,   \* _GEN_CHUNK
  MaxMissed   \* environment: rounds of daily tasks that are missed, or broken
              \* off, on trading days in a row

Day == 1..LastDay
Period == {"weekly", "monthly"}

ASSUME GenAssumption ==
  /\ Dormant \subseteq Stock /\ "bare" \in Caliber
  /\ LastDay \in Nat \ {0} /\ Trading \subseteq Day
  /\ Start \in [Period -> [Day -> Int]]
  /\ DaysBack \in Nat /\ GenChunk \in Nat \ {0} /\ MaxMissed \in Nat

VARIABLES
  today,    \* date.today()
  due,      \* the cron times of the day still to come
  calendar, \* trade_calendar
  since,    \* the day a stock came into table stocks, 0 if it is not there
  step,     \* the call a job is in
  todo,     \* the rows the running generator has not inserted yet
  tasks,    \* fetch_task
  done,     \* today's round of daily tasks is complete
  missed    \* the trading days since the last complete round

tables == <<calendar, since, tasks>>
history == <<done, missed>>
vars == <<today, due, calendar, since, step, todo, tasks, done, missed>>

Jobs == {"meta", "minute", "daily"}

Init ==
  /\ today = 1 /\ due = Jobs
  /\ calendar = {}
  /\ since = [s \in Stock |-> 0]
  /\ step = "idle" /\ todo = {} /\ tasks = {}
  /\ done = FALSE /\ missed = 0

-----------------------------------------------------------------------------
(* _refresh_meta: the calendar, then the list; an error ends the job.      *)

RefreshStart ==
  /\ step = "idle" /\ "meta" \in due
  /\ due' = due \ {"meta"}
  /\ step' = "calendar"
  /\ UNCHANGED <<today, tables, todo, history>>

\* An empty answer leaves the table as it is.
CalendarAnswers ==
  /\ step = "calendar"
  /\ calendar' \in {calendar, calendar \cup Trading}
  /\ step' = "stocks"
  /\ UNCHANGED <<today, due, since, todo, tasks, history>>

\* Stocks of the list that are new are inserted; none is ever removed.
StocksAnswer ==
  /\ step = "stocks"
  /\ \E new \in SUBSET {s \in Stock : since[s] = 0} :
       since' = [s \in Stock |-> IF s \in new THEN today ELSE since[s]]
  /\ step' = "idle"
  /\ UNCHANGED <<today, due, calendar, todo, tasks, history>>

RefreshRaises ==
  /\ step \in {"calendar", "stocks"}
  /\ step' = "idle"
  /\ UNCHANGED <<today, due, tables, todo, history>>

-----------------------------------------------------------------------------
(* The generators. Each reads the stale stocks and then the active ones.   *)

\* Mutant: the caliber is left out of the row.
NoAdjust(s, type, a, first) ==
  [stock |-> s, type |-> type, adjust |-> "", start |-> first, end |-> today]

Task(s, type, a, first) ==
  [stock |-> s, type |-> type, adjust |-> a, start |-> first, end |-> today]

Listed == {s \in Stock : since[s] # 0}

\* What stale_stock_codes may return.
StaleReads == SUBSET (Dormant \cap Listed)

MinuteTasks(stale) == {Task(s, "minute", "bare", today) : s \in Listed \ stale}

\* Mutant: the stale stocks are not probed.
NoProbes(stale) ==
  {Task(x[1], "daily", x[2], today - DaysBack) : x \in (Listed \ stale) \X Caliber}

\* Mutant: the window is one day short.
ShorterWindow(stale) ==
  {Task(x[1], "daily", x[2], today - DaysBack + 1) :
     x \in ((Listed \ stale) \X Caliber) \cup (stale \X {"bare"})}

\* The active stocks in every caliber, and a bare probe of the stale ones.
DailyTasks(stale) ==
  {Task(x[1], "daily", x[2], today - DaysBack) :
     x \in ((Listed \ stale) \X Caliber) \cup (stale \X {"bare"})}

PeriodTasks(stale) ==
  {Task(x[1], x[2], "bare", Start[x[2]][today]) : x \in (Listed \ stale) \X Period}

\* _gen_minute_tasks, 15:35.
MinuteStart ==
  /\ step = "idle" /\ "minute" \in due
  /\ due' = {"daily"}
  /\ IF today \in calendar
     THEN step' = "minute" /\ \E stale \in StaleReads : todo' = MinuteTasks(stale)
     ELSE UNCHANGED <<step, todo>>
  /\ UNCHANGED <<today, tables, history>>

\* _gen_daily_incremental, 16:10: first the daily tasks ...
DailyStart ==
  /\ step = "idle" /\ "daily" \in due
  /\ due' = {}
  /\ IF today \in calendar
     THEN step' = "daily" /\ \E stale \in StaleReads : todo' = DailyTasks(stale)
     ELSE UNCHANGED <<step, todo>>
  /\ UNCHANGED <<today, tables, history>>

\* ... and when all of them are in, the weekly and monthly ones.
DailyDone ==
  /\ step = "daily" /\ todo = {}
  /\ done' = TRUE /\ missed' = 0
  /\ step' = "period"
  /\ \E stale \in StaleReads : todo' = PeriodTasks(stale)
  /\ UNCHANGED <<today, due, tables>>

LastDone ==
  /\ step \in {"minute", "period"} /\ todo = {}
  /\ step' = "idle"
  /\ UNCHANGED <<today, due, tables, todo, history>>

\* One turn of _chunked_insert.
Batches == kSubset(IF Cardinality(todo) < GenChunk THEN Cardinality(todo) ELSE GenChunk, todo)

InsertBatch ==
  /\ todo # {}
  /\ \E batch \in Batches :
       /\ tasks' = tasks \cup batch
       /\ todo' = todo \ batch
  /\ UNCHANGED <<today, due, calendar, since, step, history>>

\* The insert raises, or the process is killed: what is committed stays.
BreaksOff ==
  /\ step \in {"minute", "daily", "period"}
  /\ step' = "idle" /\ todo' = {}
  /\ UNCHANGED <<today, due, tables, history>>

NextDay ==
  /\ today < LastDay /\ step = "idle"
  /\ today' = today + 1
  /\ due' = Jobs
  /\ missed' = IF today \in Trading /\ ~done THEN missed + 1 ELSE missed
  /\ missed' <= MaxMissed
  /\ done' = FALSE
  /\ UNCHANGED <<tables, step, todo>>

\* The scheduler waits; for ever, once a bound is reached.
Wait ==
  /\ step = "idle" /\ due = {}
  /\ UNCHANGED vars

Next ==
  \/ RefreshStart \/ CalendarAnswers \/ StocksAnswer \/ RefreshRaises
  \/ MinuteStart \/ DailyStart \/ DailyDone \/ LastDone \/ InsertBatch \/ BreaksOff
  \/ NextDay \/ Wait

Spec == Init /\ [][Next]_vars

-----------------------------------------------------------------------------
TaskKeys ==
  [stock : Stock, type : {"daily", "minute"} \cup Period, adjust : Caliber,
   start : Int, end : Day]

TypeOK ==
  /\ today \in Day /\ due \subseteq Jobs /\ calendar \subseteq Trading
  /\ since \in [Stock -> {0} \cup Day]
  /\ step \in {"idle", "calendar", "stocks", "minute", "daily", "period"}
  /\ todo \subseteq TaskKeys /\ tasks \subseteq TaskKeys
  /\ done \in BOOLEAN /\ missed \in 0..MaxMissed

Asked(s, a, d) ==
  \E t \in tasks : /\ t.stock = s /\ t.type = "daily" /\ t.adjust = a
                   /\ t.start <= d /\ d <= t.end

\* The trading days from d on whose rounds have had their chance before day e.
Rounds(d, e) == {f \in Trading : d <= f /\ f < e}

\* MaxMissed missed rounds fit into the days a window reaches back. Of the real
\* calendar it is true with one missed round, but for the longest holidays.
RoundsFit ==
  \A d, e \in Trading :
    d <= e /\ Cardinality(Rounds(d, e)) <= MaxMissed => e - d <= DaysBack

\* No trading day is lost: when MaxMissed + 1 rounds have had their chance since
\* the day, wherever they were broken off, a task asks for the day: of every
\* stock that was in the table, in every caliber unless it may have been stale
\* (docstring of task_gen.py: the next round makes up for what is missing).
NoDayLost ==
  RoundsFit =>
    \A s \in Listed, d \in Trading :
      since[s] <= d /\ Cardinality(Rounds(d, today)) > MaxMissed
      => \A a \in Caliber : s \notin Dormant \/ a = "bare" => Asked(s, a, d)

\* A weekly task, which aggregates the bare daily bars of its week, comes with
\* daily tasks that ask for each of these days, wherever a round is broken off
\* and whatever the two reads of the stale stocks say.
WeekHasItsDays ==
  (\A d \in Day : d - Start["weekly"][d] <= DaysBack) =>
    \A t \in tasks : t.type = "weekly" =>
      \A d \in t.start..t.end : Asked(t.stock, "bare", d)

\* The segments of a backfill cover every day of its range exactly once and no
\* other day (docstring of _date_chunks), leap days included. The function is
\* pure: one state is enough to look at it.
SegmentsPartition == Init => RangesCut
=============================================================================
