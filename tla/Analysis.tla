------------------------------- MODULE Analysis -------------------------------
(***************************************************************************)
(* The stock screener: the job of 16:15 makes a snapshot row for every     *)
(* active strategy (analysis_task) and executes the rows one by one, while *)
(* strategies are created, switched and deleted through the API and daily  *)
(* bars go on arriving.                                                    *)
(*                                                                         *)
(* Statements commit one by one (autocommit), so each is a step. What a    *)
(* strategy's SQL selects is abstracted to all bars of the day it is given.*)
(***************************************************************************)
EXTENDS Naturals, FiniteSetsExt

CONSTANTS
  Strategy,   \* the ids of analysis_task
  Stock,
  LastDay,    \* bound: days 1..LastDay
  Trading,    \* the days with bars
  MaxCrashes, \* bound: crashes of the process
  Deletes,    \* strategies may be deleted
  DbErrors    \* environment: a status write may raise

Day == 1..LastDay

ASSUME AnalysisAssumption ==
  /\ Strategy \subseteq Nat \ {0} /\ LastDay \in Nat \ {0}
  /\ Trading \subseteq Day /\ MaxCrashes \in Nat
  /\ Deletes \in BOOLEAN /\ DbErrors \in BOOLEAN

VARIABLES
  today,    \* date.today()
  bars,     \* daily_kline: the stocks with a row, per day
  task,     \* analysis_task: "absent", "active", "inactive", "deleted"
  deleting, \* the strategies whose results a delete_task has deleted and whose
            \* own row it has not
  result,   \* analysis_result.status by strategy and day, "none" for no row
  stocks,   \* analysis_result.result_json: the bars the strategy selected
  up,       \* the process runs
  fired,    \* the day the job fired last
  job,      \* where run_analysis_once is
  day,      \* its today
  ids,      \* the rows it has still to execute, by strategy
  hits,     \* what the running query has returned
  crashes

tables == <<bars, task, result, stocks>>
run    == <<job, day, ids, hits>>
vars   == <<today, bars, task, deleting, result, stocks, up, fired, job, day, ids,
            hits, crashes>>

Init ==
  /\ today = 1 /\ fired = 0
  /\ bars = [d \in Day |-> {}]
  /\ task = [s \in Strategy |-> "absent"]
  /\ deleting = {}
  /\ result = [s \in Strategy |-> [d \in Day |-> "none"]]
  /\ stocks = [s \in Strategy |-> [d \in Day |-> {}]]
  /\ up = TRUE /\ crashes = 0
  /\ job = "idle" /\ day = 1 /\ ids = {} /\ hits = {}

-----------------------------------------------------------------------------
(* run_analysis_once                                                       *)

\* The self-check: latest_trading_day, the newest bar of any stock, is today.
Collected == bars[today] # {} /\ \A d \in Day : bars[d] # {} => d <= today

JobSkips ==
  /\ up /\ job = "idle" /\ fired < today
  /\ ~Collected
  /\ fired' = today
  /\ UNCHANGED <<today, tables, deleting, up, run, crashes>>

JobChecks ==
  /\ up /\ job = "idle" /\ fired < today
  /\ Collected
  /\ fired' = today /\ day' = today
  /\ job' = "ensure"
  /\ UNCHANGED <<today, tables, deleting, up, ids, hits, crashes>>

\* Mutant: an inactive strategy gets a row as well.
EnsuresSkipped ==
  /\ job = "ensure"
  /\ result' = [s \in Strategy |-> [d \in Day |->
       IF d = day /\ task[s] = "inactive" THEN "SKIPPED" ELSE result[s][d]]]
  /\ job' = "select"
  /\ UNCHANGED <<today, bars, task, deleting, stocks, up, fired, day, ids, hits, crashes>>

\* ensure_daily_results: INSERT IGNORE for every active strategy.
JobEnsures ==
  /\ job = "ensure"
  /\ result' = [s \in Strategy |-> [d \in Day |->
       IF d = day /\ task[s] = "active" /\ result[s][d] = "none"
       THEN "PENDING" ELSE result[s][d]]]
  /\ job' = "select"
  /\ UNCHANGED <<today, bars, task, deleting, stocks, up, fired, day, ids, hits, crashes>>

JobSelects ==
  /\ job = "select"
  /\ ids' = {s \in Strategy : result[s][day] = "PENDING"}
  /\ job' = "ready"
  /\ UNCHANGED <<today, tables, deleting, up, fired, day, hits, crashes>>

Current == Min(ids)

\* The row of the current id, unless delete_task has got there first.
InTable(s) == result[s][day] # "none"

\* execute_analysis reads the row and its strategy; with one of them gone it
\* returns.
ExecutePasses ==
  /\ job = "ready" /\ ids # {}
  /\ ~InTable(Current) \/ task[Current] = "deleted"
  /\ ids' = ids \ {Current}
  /\ UNCHANGED <<today, tables, deleting, up, fired, job, day, hits, crashes>>

ExecuteReads ==
  /\ job = "ready" /\ ids # {}
  /\ InTable(Current) /\ task[Current] # "deleted"
  /\ job' = "mark"
  /\ UNCHANGED <<today, tables, deleting, up, fired, day, ids, hits, crashes>>

\* Mutant: the row is put back if it is gone.
Upsert(v) == [result EXCEPT ![Current][day] = v]

\* UPDATE analysis_result SET status=v: nothing if the row has been deleted.
WithStatus(v) ==
  IF InTable(Current) THEN [result EXCEPT ![Current][day] = v] ELSE result

ExecuteMarks ==
  /\ job = "mark"
  /\ result' = WithStatus("RUNNING")
  /\ job' = "query"
  /\ UNCHANGED <<today, bars, task, deleting, stocks, up, fired, day, ids, hits, crashes>>

\* Mutant: the query runs on the newest day, as test_run's does.
LatestBars == LET latest == Max({d \in Day : bars[d] # {}})
              IN  {<<k, latest>> : k \in bars[latest]}

\* The strategy's SQL with :trading_day bound to the row's day.
Selected == {<<k, day>> : k \in bars[day]}

QueryReturns ==
  /\ job = "query"
  /\ hits' = Selected
  /\ job' = "succeeded"
  /\ UNCHANGED <<today, tables, deleting, up, fired, day, ids, crashes>>

\* An invalid SQL, a time-out, or a success that could not be written.
QueryRaises ==
  /\ job = "query" \/ (DbErrors /\ job = "succeeded")
  /\ job' = "failed"
  /\ UNCHANGED <<today, tables, deleting, up, fired, day, ids, hits, crashes>>

NextId ==
  /\ ids' = ids \ {Current} /\ hits' = {}
  /\ job' = "ready"
  /\ UNCHANGED <<today, bars, task, deleting, up, fired, day, crashes>>

WriteSuccess ==
  /\ job = "succeeded"
  /\ result' = WithStatus("SUCCESS")
  /\ stocks' = IF InTable(Current) THEN [stocks EXCEPT ![Current][day] = hits] ELSE stocks
  /\ NextId

\* Mutant: the failure is not written.
FailedUnwritten ==
  /\ job = "failed"
  /\ UNCHANGED <<result, stocks>>
  /\ NextId

WriteFailed ==
  /\ job = "failed"
  /\ result' = WithStatus("FAILED")
  /\ UNCHANGED stocks
  /\ NextId

\* A statement outside the try, or the write of FAILED, raises: the whole run
\* is over.
JobRaises ==
  /\ DbErrors /\ job \in {"ensure", "select", "mark", "failed"}
  /\ job' = "idle" /\ ids' = {} /\ hits' = {}
  /\ UNCHANGED <<today, tables, deleting, up, fired, day, crashes>>

JobEnds ==
  /\ job = "ready" /\ ids = {}
  /\ job' = "idle"
  /\ UNCHANGED <<today, tables, deleting, up, fired, day, ids, hits, crashes>>

-----------------------------------------------------------------------------
(* The endpoints.                                                          *)

CreateTask(s) ==
  /\ up /\ task[s] = "absent"
  /\ task' = [task EXCEPT ![s] = "active"]
  /\ UNCHANGED <<today, bars, deleting, result, stocks, up, fired, run, crashes>>

\* update_task with is_active
Switch(s) ==
  /\ up /\ task[s] \in {"active", "inactive"}
  /\ task' = [task EXCEPT ![s] = IF @ = "active" THEN "inactive" ELSE "active"]
  /\ UNCHANGED <<today, bars, deleting, result, stocks, up, fired, run, crashes>>

\* delete_task: first the results, then the strategy.
DeleteResults(s) ==
  /\ Deletes /\ up /\ task[s] # "absent" /\ s \notin deleting
  /\ result' = [result EXCEPT ![s] = [d \in Day |-> "none"]]
  /\ stocks' = [stocks EXCEPT ![s] = [d \in Day |-> {}]]
  /\ deleting' = deleting \cup {s}
  /\ UNCHANGED <<today, bars, task, up, fired, run, crashes>>

DeleteTask(s) ==
  /\ s \in deleting
  /\ task' = [task EXCEPT ![s] = "deleted"]
  /\ deleting' = deleting \ {s}
  /\ UNCHANGED <<today, bars, result, stocks, up, fired, run, crashes>>

-----------------------------------------------------------------------------
(* The collectors, the calendar, the process.                              *)

\* upsert_kline stores a bar, of today or of a day before.
Store(k, d) ==
  /\ d \in Trading /\ d <= today /\ k \notin bars[d]
  /\ bars' = [bars EXCEPT ![d] = @ \cup {k}]
  /\ UNCHANGED <<today, task, deleting, result, stocks, up, fired, run, crashes>>

NextDay ==
  /\ today < LastDay
  /\ today' = today + 1
  /\ UNCHANGED <<tables, deleting, up, fired, run, crashes>>

Crash ==
  /\ up /\ crashes < MaxCrashes
  /\ up' = FALSE /\ crashes' = crashes + 1
  /\ job' = "idle" /\ ids' = {} /\ hits' = {} /\ deleting' = {}
  /\ UNCHANGED <<today, tables, fired, day>>

\* lifespan resets the rows of fetch_task; those of analysis_result stay.
Startup ==
  /\ ~up /\ up' = TRUE
  /\ UNCHANGED <<today, tables, deleting, fired, run, crashes>>

-----------------------------------------------------------------------------
Job ==
  \/ JobChecks \/ JobSkips \/ JobEnsures \/ JobSelects
  \/ ExecutePasses \/ ExecuteReads \/ ExecuteMarks
  \/ QueryReturns \/ QueryRaises \/ WriteSuccess \/ WriteFailed
  \/ JobRaises \/ JobEnds

Next ==
  \/ Job
  \/ \E s \in Strategy : CreateTask(s) \/ Switch(s) \/ DeleteResults(s) \/ DeleteTask(s)
  \/ \E k \in Stock, d \in Day : Store(k, d)
  \/ NextDay \/ Crash \/ Startup

Spec == Init /\ [][Next]_vars

-----------------------------------------------------------------------------
Bar == Stock \X Day

Status == {"none", "PENDING", "RUNNING", "SUCCESS", "FAILED"}

DataType ==
  /\ today \in Day /\ fired \in 0..today
  /\ bars \in [Day -> SUBSET Stock]
  /\ task \in [Strategy -> {"absent", "active", "inactive", "deleted"}]
  /\ deleting \in SUBSET Strategy
  /\ result \in [Strategy -> [Day -> Status]]
  /\ stocks \in [Strategy -> [Day -> SUBSET Bar]]
  /\ job \in {"idle", "ensure", "select", "ready", "mark", "query", "succeeded", "failed"}
  /\ day \in Day
  /\ ids \in SUBSET Strategy
  /\ job \in {"mark", "query", "succeeded", "failed"} => ids # {}
  /\ hits \in SUBSET Bar
  /\ crashes \in Nat

TypeOK == DataType /\ up \in BOOLEAN

\* A snapshot is a snapshot of its day: it was made on a day that has bars, and
\* holds bars of that day only, also when the run goes on past midnight while
\* the bars of the next day come in.
SnapshotOfItsDay ==
  \A s \in Strategy, d \in Day :
    /\ result[s][d] # "none" => bars[d] # {}
    /\ \A b \in stocks[s][d] : b[2] = d

\* Nothing takes a RUNNING snapshot up again, so each one left behind is lost. A
\* run that crashes, or cannot write a status, leaves one of its day at most: all
\* others have come to SUCCESS or FAILED before the next is marked.
OneLeftRunning ==
  \A d \in Day : \A s, t \in Strategy :
    result[s][d] = "RUNNING" /\ result[t][d] = "RUNNING" => s = t

\* A strategy that has been deleted while the job was about to execute it does
\* not get a snapshot any more.
DeletedStaysDeleted ==
  [][\A s \in Strategy, d \in Day :
       task[s] = "deleted" /\ result[s][d] = "none" => result'[s][d] = "none"]_vars
=============================================================================
