# market-lab: a verification development

market-lab collects daily, weekly, monthly and minute bars of all A-share
stocks. One Python process runs a FastAPI application and an APScheduler; all
durable state is in MySQL. This directory holds TLA+ models of the parts of
that process whose correctness depends on order (of threads, statements, days,
failures and restarts), the configurations that check the models with TLC, and
proofs of their main invariants that the TLA+ proof system (TLAPS) checks.

Paths are relative to the repository root; `app/...` stands for `src/app/...`
in PROJECT.json. "T5" and the like are the plans in `docs/plans/`.

## 1. The system

| Component | Code | State it keeps | Operations that change it |
|---|---|---|---|
| Task queue | `scheduler/task_runner.py`, `scheduler/scheduler.py`, `scheduler/concurrency.py`, `main.py` | table `fetch_task`, the thread pool, `shutdown_event` | generate, claim, submit, run, write back; failure, stale, forced and skipped requeue; manual retry; shutdown, crash, start |
| Breakers | `akshare_client/client.py` | `_CircuitBreaker`, one `_SourceBreaker` and one window of empty answers per source | acquire, on_success, on_failure, record, force_open |
| Rate limiter | `akshare_client/client.py` | tokens, last refill, version seen | acquire, `_sync_qps` |
| Task generation | `scheduler/task_gen.py`, `services/meta_service.py`, `scheduler/scheduler.py` | `trade_calendar`, `stocks`, rows of `fetch_task` | refresh of calendar and stock list, three generators in batches, segments of a backfill |
| Daily, weekly, monthly bars | `services/kline_service.py`, `services/stats_service.py` | `daily_kline`, `weekly_kline`, `monthly_kline`, `stock_stats` | fetch, chunked upsert, end-bar check, local aggregation |
| Minute bars | `services/minute_service.py` | 32 shard tables | fetch, upsert |
| Runtime configuration | `services/runtime_config.py`, an endpoint | table `runtime_config`, cache, version, cool-down | seeding by the migrations at every start, get, refresh, set_config |
| Stock screener | `services/analysis_service.py`, `scheduler/analysis_runner.py`, endpoints | `analysis_task`, `analysis_result` | daily run; create, switch, delete a strategy |
| Sentinel | `services/sentinel_service.py` | table `sentinel_report` | check every 15 minutes |
| Web, report, metrics, auth | `web/`, `report/`, `services/metrics.py`, `auth.py` | - | read-only |

**How they interact.** The tick (every 10 s) refreshes the configuration,
looks at the global breaker, claims rows of `fetch_task` and hands each to a
worker thread. The worker calls kline or minute service, whose outside calls go
through the source fallback, the breakers and the limiter, and writes bars;
then it writes the row's status. Timed jobs and endpoints move rows
between statuses without knowing of the threads. The generators read the
calendar and the stock statistics, which are computed from the bars. Screener and
sentinel read the bars while they are being written.

**What makes it hard.** The session runs in autocommit mode
(`app/config.py:60`): each SQL statement commits by itself, so a Python function
with two statements is two steps with anything in between, row locks do not
outlive their statement, and every model here takes one statement as one step.
Workers are never cancelled, only abandoned. Answers of sources come
before, at or after publication. The process is restarted at any point.

**What is correct.** Per component:

- *Queue*: a row has one worker; the retry budget holds; a fetched row stays
  fetched; no row hangs in RUNNING; retries come to an end.
- *Breakers*: one probe at a time; the half-open state is left again; a dead
  source takes itself out and not the whole service; "no data" is never made up.
- *Limiter*: the outside calls are bounded by the rate and the burst.
- *Task generation*: a round that is missed or broken off costs no trading day and no week
  one of its days.
- *Bars*: a success means stored data, or a day that a later task makes good;
  storing again never takes data away.
- *Configuration*: a change reaches its readers, in the end and for good; no start undoes it.
- *Screener*: a snapshot is one of its day; a deleted strategy leaves nothing; a run that
  breaks off leaves little behind.
- *Sentinel*: an outage is reported the same day; a healthy day raises no alarm.

## 2. The modules

| Module | Models | Proofs |
|---|---|---|
| `TaskQueue` | what `fetch_task` promises: a queue of leases (abstract) | - |
| `FetchTask` | the life of a row: generator, tick, pool, workers, maintenance, process; implements `TaskQueue` | `FetchTaskProofs` |
| `TaskGen` | which rows there are: calendar, stock list, generators, batches | `TaskGenProofs` |
| `DateChunks` | the segments of a backfill, a pure function | `TaskGenProofs` |
| `Breaker` | global and source breakers, empty-answer windows, the fallback loop, timeout-guarded calls | `BreakerProofs` |
| `RateLimiter` | the token bucket and the changes of its rate | `RateLimiterProofs` |
| `RuntimeConfig` | table, migrations, cache, version, restarts; the bucket that follows the version | `RuntimeConfigProofs` |
| `Kline` | what a SUCCESS says about the bars of one stock | `KlineProofs` |
| `Analysis` | the screener's daily run against the endpoints and the collectors | `AnalysisProofs` |
| `Sentinel` | the six checks over a calendar, the collectors and their failures | `SentinelProofs` |

`MC<module>` only names sets for the configurations. A definition under a comment
that begins with "Mutant:" is a plausible mistake in the definition after it; no
specification uses it. It serves to confirm that the property listed
with it in PROJECT.json would notice.

### FetchTask
`status`, `retry`, `locked` are the columns `status`, `retry_count`,
`locked_at`; `locked` says only on which side of `STALE_RUNNING_MINUTES` the
stamp lies. `holds` and `pc` are the futures of `_pool`: `"queued"`,
`"executing"`, then `"ok"` or `"error"` until the status is written. `tick` and
`picked` are the locals of `_tick` and `claim_tasks`, `maint` the second
statement a two-statement function still has to issue, `process` the lifespan.
`TickSelect` is the claim's SELECT (policy, preference, order, limit),
`TickClaim` its UPDATE by id, `TickReads` the second SELECT, `TickSubmit` one `submit`; the two SELECTs of the
off-hours fallback are one step, since a row that arrives between them is seen
by the next tick just as well. `WriteSuccess` and `WriteFailed` are unguarded, as in the
code.

A statement may raise without effect, or after it has reached the table: the session
autocommits, and the commit call or the way of the answer fails. Where the code then takes another
path, this is an action: `TickRaises` ends the tick and leaves what it has claimed RUNNING
(`_tick` has only a `finally`); `WriteSuccessRaises` sends the job into its except path, with the row
SUCCESS already or not, and `WriteFailed` then writes FAILED over either; after
`WriteFailedRaises` the row stays as it is; `MaintenanceRaises` ends a maintenance function between its
statements. `lost` remembers the rows whose claim or whose write of FAILED has raised since they were claimed, for
`RunningHasJob`; no action reads it.
 `StaleExhaust`/`StaleRequeue` and `ForceSkip`/`ForceRequeue` are the two
halves of `requeue_stale_running` and `force_requeue_exhausted`, and several
sessions may be between the halves at once. `SlowJobs` says whether a job may outlive the
stale window.

`TaskQueue` is the abstract view: a row is waiting, leased, settled or set aside; only the
holder of a lease settles a row; a lease is taken back only when its holder is gone. A holder may
report a success (`Report`) without learning that it has arrived, and then deny it (`Deny`). The
mapping is `status <- status` and `held <- Leased`, the rows that a future of the pool was
submitted for or that the tick has claimed and is about to submit. A sweep is one `TakeBack`, a drain,
a crash or a tick that raises one `Abandon`, the generator's row one `Insert`, and every counter, lock
age, policy and place in a function is hidden.

### TaskGen and DateChunks
`step` is the place in `_refresh_meta` or in a generator, `due` what of the day's cron times
is still to come (a time that finds the process down is not made up for), `todo` the rows
the running generator has in hand, `tasks` the table, where a row is its unique key and
an insert of it again changes nothing. `InsertBatch` is one turn of `_chunked_insert`,
`BreaksOff` an insert that raises or a kill between two commits, `RefreshRaises` an outside call
that raises: without a calendar no generator makes anything that day. `missed` counts the
trading days since the last complete round of daily tasks; no action of the code reads it,
and `MaxMissed` bounds it. `Dormant` are the stocks the two reads of `stale_stock_codes` may find
stale, each read for itself. `DateChunks`, which
`TaskGen` extends as both are of `task_gen.py`, abstracts a year to the four days at which
`date.replace(year=...)` and its fallback can differ.

### Breaker
Every method holds its lock, so it is one step; between two methods other threads
run. Clocks are flags (`cooling`, `skipping`) which time drops. Counters are
compared with a threshold only and saturate there. `admitted` remembers in which state a call
was let in: the code does not keep it, no guard of the code's actions reads it; it is for the
properties and for the assumption `~LongCalls`, that a call from before an opening returns within
`CIRCUIT_RECOVERY_SECONDS` (with the default settings a call is cut off 35 s after it was
handed over, and the wait for a token before that is about a second per waiting thread,
against a recovery time of 120 s). `scene` is the setting a behaviour takes place in (the order of
the sources, which are down or up, whether calls without a source occur); it is chosen at the
start and no step changes it, so one run asks all questions.

### RateLimiter
A token is `Cost` units, a rate is units per tick. The sleeper holds the lock, and
wakes on time or later. `Retune` is the part of `_sync_qps` under the lock: it cuts the tokens
to the new capacity and leaves `_last`, so the time since the last refill is credited at the new
rate. `allowance` accumulates the bound of `TwiceTheRate` and is read by no action.

### RuntimeConfig
A block under `_lock` is one step. `Commit` and `Apply` are the two parts of
`set_config`, `SyncLook` and `SyncApply` those of `_sync_qps`, which reads the
version before its lock. `fresh` and `cooling` are the two clocks. The table may also be edited
by hand, rows deleted included. A start runs the migrations (`Migrate`, one script and its commit);
`MigrateRaises` and `Crash` lose everything but the table, and the container is started again
(`docker-compose.nas.yml:28`). `chosen` remembers what an operator has asked for last; only `SettingsSurvive`
reads it. The initial table is arbitrary: an older release may have left it.

### Kline
All rows belong to one stock, so one is modelled. A bar is the day it is
dated; a weekly bar is the set of daily bars it was made from. A task is `"todo"` until it
succeeds: failed rows come back, which is FetchTask's subject. `DailyFetch` and
`DailyWrites` are apart because the source may publish, other tasks write
and days pass in between; `DailyBreaksOff` is a chunk that fails or a process that stops.
`Punctual` is the assumption of the healing properties: the process is up at
15:35 and 16:10, the statistics are refreshed overnight, and a task has succeeded by the end of
the day after its own. Monthly tasks are weekly ones with another bucket.

### Analysis
`job` is the place in `run_analysis_once`/`execute_analysis`, a step per
statement; `day` its local date, fixed at the start although
`today` goes on. A strategy's SQL is abstracted to "all bars of the day it is given".

### Sentinel
A day has six parts, cut where a check's expectation changes (00:15, 9:35,
15:35, 18:00, 19:00), with one check at the end of each. `newest` and
`shard` are the MAX queries' answers, `done` the types with more than
100 successes in the window. `rhythm` records whether the collectors have kept the
day's rhythm so far (day's own bars, by 18:00 or 19:00, no success without a row); it is
the premise of `NoFalseAlarm`, and no action reads it.

## 3. The runs

| Run | Properties | What it shows |
|---|---|---|
| FetchTaskSafe | TypeOK, SingleOwner, RetryBudget, SuccessFinal, ImplementsQueue | the unguarded UPDATEs implement a queue of leases, whichever of them raise, as long as no job outlives the stale window |
| FetchTaskHung | RunningHasJob, RunningRecovered | with hanging workers, raised claims and lost write-backs no row hangs |
| FetchTaskEndless | NoEndlessRetry (violated) | retries that never end, see below |
| BreakerSafe | TypeOK, OneProbe, EmptyIsAnswered, DeadSourcesContained | one probe; no invented "no data"; two of three sources dead, interleaved failures |
| BreakerLeak | HalfOpenResolves (violated) | the probe's slot leaks, see below |
| RateLimiterRate | TypeOK, TwiceTheRate | the bound on the outside calls, also while the rate changes |
| ConfigConverges | TypeOK, LimiterInStep, SettingsSurvive, LimiterConverges | the bucket follows the table; starts leave an operator's settings alone |
| KlineSafe | TypeOK, ActiveStockWaits, BarsOnlyGrow | the publication race; weekly bars made again |
| KlineHealed | TradedDayHealed, AdjustedDayHealed | gaps of one task are filled by later ones |
| AnalysisSafe | TypeOK, SnapshotOfItsDay, OneLeftRunning, DeletedStaysDeleted | midnight, deletions, failed writes, crashes |
| Sentinel | TypeOK, OutageReported, NoFalseAlarm | both directions, over weekends, a holiday and month ends |
| TaskGenRounds | TypeOK, NoDayLost, WeekHasItsDays, SegmentsPartition | one round missed or broken off anywhere loses nothing; the segments of a backfill |

### Bounds
- *FetchTask*: two rows, one minute and one daily, the daily one of a halted
  stock, with room for both in one claim: the claim's batch, the order,
  the preference and the race of two rows for a thread all occur. Two
  slots: two workers on one row is the smallest violation of ownership. `MaxRetry` 2 is
  the smallest value for which the two halves of the stale requeue differ. Two
  sessions are two overlapping maintenance calls. Liveness runs have one row, since
  rows share nothing but the pool's slots. Safety holds for all values by proof.
- *Breaker*: two threads; source threshold 2, so that one failure differs from enough; two
  scenes, one source in any mood besides the calls without a source, and three sources
  of which two are dead. `MaxTotal` bounds a window's answers:
  `EmptyThreshold` 0 lets a window isolate a source with its first answer.
  `Threshold` 3 is larger than what two dead sources may contribute (2), so saturation does not
  hold `DeadSourcesContained` up. With the default settings (three
  sources, 3 failures each, global threshold 10) the same bound is 6, so dead sources alone
  never open the global breaker: `DeadSourcesDoNotOpen` proves it for any such numbers.
- *RateLimiter*: a burst of two tokens, twelve ticks, two rates and two changes of them; the
  double credit of a sleep needs three calls.
- *RuntimeConfig*: one key (the one with a follower), two migrations of which one seeds it, two
  writers, two threads, two changes, one outage, one kill: a late writer, a late look, a failed
  load and a start that is broken off may all overlap. The proofs have no such bound.
- *TaskGen*: six days with a weekend in them and a week on both sides, one old stock that may be
  stale and one that may come in at any refresh, two calibers, batches of three: a round has
  two batches or more, so it can break off in the middle. The window of three days
  reaches over the weekend to the trading day before. `DateChunks`: eight
  years of which two are leap years, segments of up to three years.
- *Kline*: the distances are scaled together: the window (7 calendar days in the
  code) is shorter than the stale limit (10 trading days), here 3 and 4, and
  seven days let a stock go stale, resume and be healed. KlineSafe has a closed week of
  three days, and tasks of earlier days left over.
- *Analysis*: two days, two strategies, two stocks, one crash: midnight during a run,
  and a second row after the one under way.
- *Sentinel*: weeks of three days (Monday, Friday, Saturday), a holiday Friday,
  months that end on Saturdays, five days of every collector behaviour. `VIEW
  WithoutReport` drops the report from the fingerprint: no guard reads it and all
  three properties look at it only in the step that writes it, so no behaviour is lost.

`CHECK_DEADLOCK FALSE` is set where the clock or the calendar ends (RateLimiter,
Kline, Sentinel): the last day with nothing left to do is the bound's, not the
code's. TaskGen instead waits for ever (`Wait`), so that it is checked for deadlocks.

### Fairness
FetchTaskHung assumes what APScheduler and the container give: timed jobs fire
again and again, a started function goes on to its next statement or raises, a stopped process
comes back, time passes. `SF` of the claim means that a tick which is
claimable infinitely often is not missed forever: it includes that the breaker is
not open whenever a tick looks. `SF` of the claim's UPDATE and second read and of the second statement
of the stale requeue means that the database does not fail them at every try. Workers are not assumed to make
progress there, and no write-back is assumed to arrive: a row that is claimed, loses its write-back and
is claimed again for ever still leaves RUNNING each time.
`FairSpec` adds it: every call of a job has a timeout. Breaker's
`FairSpec` lets fetches keep coming and every call end, either way. RuntimeConfig's
assumes that a start goes on and is tried again, that a tick refreshes while the database answers
(`SF`, as outages come and go), that threads in `acquire` go on and that the database comes back.

## 4. The proofs

TLAPS checks every leaf; nothing is assumed but the named assumptions on constants.

| Module | Theorem | States | Argument |
|---|---|---|---|
| FetchTaskProofs | TypeCorrect | `[]TypeOK` | inductive as it stands |
| | SingleOwnership, RetryBudgetKept, SuccessIsFinal | the three properties of FetchTaskSafe | one invariant `IInv` |
| | RunningIsAttended | `[]RunningHasJob` | `HInv`, independent of `IInv`: it also holds with slow jobs |
| | TableIsQueue | `ImplementsQueue` | every step maps to a step of `TaskQueue` or a stutter, from `IInv` |
| BreakerProofs | TypeCorrect, EmptyAnswersAreGiven | `[]TypeOK`, `[]EmptyIsAnswered` | `AnswerInv` |
| | ProbesOneByOne | `[]OneProbe` | `ProbeInv` |
| | DeadAreContained | `[]DeadSourcesContained` | `ContainInv` with `Shares` |
| | DeadSourcesDoNotOpen | `[]StaysClosed` | from DeadAreContained |
| RateLimiterProofs | TypeCorrect, RateBounded | `[]TypeOK`, `[]TwiceTheRate` | `Balance` |
| RuntimeConfigProofs | ConfigTyped, BucketInStep | `[]TypeOK`, `[]LimiterInStep` | `IInv` with `LookedBack` |
| | SettingsKept | `[]SettingsSurvive` | inductive with the types |
| AnalysisProofs | AnalysisTyped, SnapshotsOfTheirDay | `[]TypeOK`, `[]SnapshotOfItsDay` | `IInv` with `RunOfDay` |
| | LosesOneAtMost | `[]OneLeftRunning` | `RInv` with `RunOfFired` |
| | DeletedForGood | `DeletedStaysDeleted` | `NoRowReturns` |
| TaskGenProofs | TypeCorrect, WeeksHaveTheirDays | `[]TypeOK`, `[]WeekHasItsDays` | `RoundInv` |
| | NoDayIsLost | `[]NoDayLost` | `DayInv`, which counts the rounds since a day |
| | RangesAreCut, BackfillIsCut | `[]SegmentsPartition` | no state: the recursive function exists, then what it covers |
| KlineProofs | TypeCorrect, MissedDaysAreHealed | `[]TypeOK`, `[]TradedDayHealed` | `IInv` |
| | EarlyAnswersWait, WeeksOnlyGrow | `ActiveStockWaits`, `BarsOnlyGrow` | the same `IInv` |
| | AdjustedPricesFollow | `[]AdjustedDayHealed` | `EachTaskHeals` and `PunctualInv` |
| SentinelProofs | TypeCorrect, OutagesAreReported | `[]TypeOK`, `OutageReported` | `IInv` with `ShardsFilled` |
| | AlarmsAreTrue | `NoFalseAlarm` | `RhythmInv` |

- *FetchTask.* `SingleOwner` is not inductive: the stale requeue could take a held row away,
  and a claim could select a row that a future still holds. `HeldIsFresh` says that a held row,
  and a row about to be submitted, is RUNNING with a young lock, or SUCCESS by a write whose answer its
  job did not get, so no sweep touches it;
  `NoSharing` separates the futures and the open claim; `DownIsIdle` makes the start's reset
  safe; `Budget` counts, and leaves room for one more failure of every held row, SUCCESS or not. All but
  `DownIsIdle` are under the premise `~SlowJobs`. `SuccessIsFinal`: only a job in its except path can
  meet a row in SUCCESS, the row is its own, and by `NoSharing` no other job is left on it. The refinement
  uses the same facts: a write-back is a `Settle` because the row is held and RUNNING, or the `Deny` of a
  `Report`; a sweep is a `TakeBack` because what it finds is held by nobody. `HInv` needs none of
  this: each step that leaves a RUNNING row without a job has raised and is in `lost`, or ends the process's
  acceptance of work.
- *Breaker.* A call in flight is marked (`CallsAreAdmitted`), a probe holds the slot of a half-open
  breaker (`ProbeHoldsSlot`), and once an open breaker has cooled no call from the closed era
  is outside (`NoStragglers`). Without the last one a straggler's success would close the
  breaker under the probe. `AnswerInv` follows an empty answer from the call that gave it to the
  result of the fetch. All theorems hold for any number of threads and sources. `ContainInv` is an
  account: the global failures and the results still on their way to the global counter are
  covered by the shares of the dead sources. A source's share is the failures it has contributed, one less
  than its threshold at most, because the failure that isolates it is not handed on
  (`_record_failure` returns). The sum over the sources is stated as a set, `Shares`, of pairs of a source
  and a number, whose cardinality is the sum, so that a step adds or removes one pair. It
  needs a setting in which the dead sources' answers are told apart (`DeadApart`), as the property does.
- *RateLimiter.* While a thread sleeps, the credit of its sleep is still outstanding; `Balance`
  states the account for both situations, and doubling the time pays for the second credit. Each tick is accounted at its own rate; a change of
  the rate while time since the last refill is outstanding is paid for by one more full bucket.
- *RuntimeConfig.* No thread has looked at a version of the future (`LookedBack`); every change of the
  cache comes with a new version (`Versioned`). So a bucket whose version is current has read the current cache. A restart takes both back at once.
- *Analysis.* The run's day has bars, and what the query returned is of that day (`RunOfDay`), whatever
  `today` has become. `NoRowReturns`: only `JobEnsures` makes rows, and only for active strategies.
  A run that is under way is the one fired last (`RunOfFired`), and on its day only the row at hand can be RUNNING.
- *TaskGen.* Within a round every row of the day that is meant is in the table or still in hand
  (`InRound`), so a round that comes to its end has asked for its whole window, and only such a round
  goes on to the weekly tasks. The segments: a function
  with the loop's equation is built from the last day backwards (`WalkExists`), so that the
  recursive definition has the value it is meant to have; then, by the days that remain, a date of the range is held by
  the segment at hand or by one of the rest (`OneMore`, `RestIsCovered`). Both are inductions by the
  least counterexample. `DaysMissed` says that of a day nobody has asked for, no complete round has had
  its chance: the rounds since are the ones missed in a row, and there are at most `MaxMissed` of them.
- *Kline.* The source has the bars of all days that are over (`PublishedPast`), a task's day has come
  (`TasksPast`), so an answer in hand holds what its window reaches back to (`AnswerReaches`). A weekly bar
  only holds days of its week up to its date (`WeekBarsDated`). `EachTaskHeals` says of every
  caliber that a task which succeeded after its day has left no gap in its window. For the adjusted
  prices it remains that such a task exists: the task of the first later day stores the resumed stock's bare
  row (`TasksDone`), the overnight statistics know it (`StatsKnow`), so from then on the newest row they know
  is younger than the stale limit and the generator makes adjusted tasks too (`AdjustedAsked`).
- *Sentinel.* A table of a collected type keeps its newest row, and so does every shard (`ShardsFilled`); at the day's last
  check each freshness check compares a row of an earlier day with today, and one CRIT makes the report CRIT.
  `RhythmInv` is the other direction: with the rhythm kept, every table has the newest trading day
  that is over (`PastHeld`), and a type with many successes in the
  window has rows of today (`DoneHasRows`). One lemma per check compares that with what the check expects; the
  weekly one is about the Friday, the monthly one about the month that is over, in any calendar.

The assumptions are those named in the modules: bounds are natural numbers, calendars lie in
the days; for Breaker, the sources are finitely many and "no source" is none of them; for Sentinel, some
trading day comes before the first one modelled and every month ends. `AdjustedDayHealed` itself has the
premise that a window reaches back less far than the statistics look (`DaysBack < StaleDays`; 7 and 10 in
the code, `task_gen.py:156` and `:52`): otherwise a task of which the property speaks may be one nobody makes.

Only model-checked: liveness (RunningRecovered, LimiterConverges and the two violated
properties), which needs fairness and ENABLED. Every invariant and action property that a run finds to hold is
also a theorem.

## 5. Disagreements between code and documentation

### Shown by a run
- **FetchTaskEndless** (`scheduler/task_runner.py:167`). The docstring at line 163 says the count
  grows so that a row that keeps hanging ends as FAILED. The first statement sets FAILED
  with `retry_count` still `MAX_RETRY - 1`; `requeue_failed` takes `retry_count < MAX_RETRY`, so the row
  comes back, hangs, and so on. In the run the row is left RUNNING by a lost write each time.
- **BreakerLeak** (`akshare_client/client.py:355`). The docstring at line 52 says the probe
  closes or reopens the breaker. If the failing probe's source is isolated by that very failure,
  `_record_failure` returns before `_breaker.on_failure`; `_half_open_inflight` stays 1
  and every later call is turned away, until the process restarts.

### Met while modelling
The models contain the following behaviours too. They contradict a sentence of the
documentation, and no property of the runs depends on that sentence.

- `README.md:120` allows five retries; with a job that outlives the stale window, stale requeue and the late
  FAILED of the first worker both count (`task_runner.py:137`), and two workers execute the
  row at once (`:177`, against the docstring at `:40`). Hence the premise `~SlowJobs`.
- `task_runner.py:101` keeps the write of a status in a transaction of its own, so that it happens or does not. Under
  autocommit the UPDATE of line 111 is in the table before the commit of line 112: if that or the answer fails, lines
  133-141 write FAILED over SUCCESS and count a failure, and a row that is fetched is fetched again. Hence the
  exception in `SuccessFinal` and `SingleOwner`. Rows whose claim raises after
  line 62 stay RUNNING without a job too, which nothing mentions; `requeue_stale_running` takes them back.
- `client.py:220` isolates a source for five minutes; the success of a call already outside lifts it
  (`:201`). `client.py:51` keeps an open breaker open for its recovery time; a success
  of a call from before closes it (`:98`).
- `client.py:125` promises the rate; a sleep is credited twice (`:163`). Hence `TwiceTheRate`.
- T11:81 equates success with stored data; the empty answer returns at `kline_service.py:86`, before the guard
  that looks at minute bars.
- `kline_service.py:173` promises the day's completeness; `:202` looks the row up without the caliber.
- `market-lab-akshare-plan.md:250` counts one weekly bar a week; `kline_service.py:314` dates it by the last
  day so far, so each day adds a row. `:172` promises that the next day's window completes the week; on a
  Friday the next window starts on Monday (`:197`).
- T11:76 promises that the resume day is fetched the next day; `task_gen.py:168` counts calendar days, and a holiday
  may be longer.
- `task_gen.py:4` says the next round makes up for a round that was cut short. The daily tasks of the next round do so
  while their window reaches back; the weekly task of a week's last day is not made again (Friday's bar is missing from its
  week), nor the minute task of the day. `README.md:118` promises a backfill at the start; nothing calls
  `generate_backfill`. `README.md:119` makes the minute tasks at 09:00; `scheduler.py:202` at 15:35.
- `_market_of` (`meta_service.py:18`) puts 920xxx into SH, `_with_prefix` (`client.py:656`) into BJ: two stocks of the models
  never share a code, so no model shows it. `_fetch_kline_tencent` (`client.py:570`) leaves out `adjust`.
- A row of runtime_config that is deleted by hand comes back with its seed at the next start, not with the env
  default of `runtime_config.py:4`. `analysis_timeout_sec` and `offhour_mix_minute` have hard defaults "equal to the seeds of V5/V7"
  (`:26`); no migration seeds them.
- `runtime_config.py:3` and `:4`: `set_config` on a cold cache marks the whole cache fresh, so other keys fall back to
  defaults (`:170`); a slow writer caches an older value over a newer one (`:166`), until the TTL.
- `scheduler.py:205` runs the analysis after the day is in; the check passes with the first
  stock's bar (`analysis_service.py:278`). `analysis_service.py:145` deletes in cascade, in two statements, with room for the run to
  insert a row between them. After a crash a RUNNING snapshot is never picked up again.
- T5:109 compares successes with new rows of the window; `sentinel_service.py:215` counts rows dated today.
  `:13` wants last week's bar; `:146` takes week 52 for it after a year of 53 weeks (`LongYear`). `:19` warns of a breaker open
  for 30 minutes; what it computes is at most 300 s (`:264`).

## 6. Not modelled

Authentication, web pages, reports and metrics (no state that other parts read); parsing and
column maps, including `sina_raw` (pure functions with unit tests); names, markets and pinyin
initials of stocks (for display); the columns of `stock_stats` other than the newest daily bar;
the tables other migrations create; sharding of minute rows (a hash of the
code); `test_run` of the screener with its log (a row that nothing but the page of test runs reads) and SQL
validation; in Kline, a round of tasks that breaks off between two rows of one stock (TaskGen has the batches and the second
look at the stale stocks) and a minute task that fails between two of its chunks (`minute_service.py:79`; it leaves more rows, which
make the end-bar check stricter); the queue in front of the pool of 24 outside calls (a call that times out while queued is an
ordinary failure of Breaker, and the pool never lets more calls out than that); deployment and
one-off scripts. `generate_backfill` has no caller; its segments are checked (`DateChunks`), its rows would live as any other.

Hazards no property covers, with the reason, are listed in PROJECT.json: in each the desirable property is false of
the code (section 5) or lies outside it.

## 7. Plan

What remains worth doing: a composition of the tick with the breaker (claims stop while it is open,
rows stay PENDING); a specification of the bucket without sleepers (credit and debit only), refined by
`RateLimiter`; liveness of Kline (every task settles) and of the
screener without crashes.
