------------------------------ MODULE FetchTask ------------------------------
(***************************************************************************)
(* The life of a row of fetch_task: the generator inserts it, the          *)
(* scheduler's tick claims it and submits it to the thread pool, a worker  *)
(* thread executes it and writes its status back, and the maintenance      *)
(* statements (timed jobs and operator endpoints) put it back in the queue.*)
(*                                                                         *)
(* The database session runs with autocommit (app/config.py:60), so every  *)
(* SQL statement is one atomic step and nothing larger is: a function that *)
(* issues two statements is two actions here. A statement may raise, and   *)
(* it may do so after it has reached the table: the commit that follows it *)
(* or the way of the answer fails. Where the caller then takes another     *)
(* path, raising is an action of its own.                                  *)
(***************************************************************************)
EXTENDS Naturals, FiniteSets

CONSTANTS
  Task,        \* the ids of the rows of fetch_task (auto-increment)
  Minute,      \* the rows with data_type = 'minute'; the others are daily
  Halted,      \* the rows whose stock is in stale_stock_codes
  Slot,        \* bound: the futures the pool can hold, queued or running
  PoolSize,    \* max_workers of _pool
  ClaimLimit,  \* the policy's worker count: LIMIT of the claim
  Session,     \* who runs the two-statement maintenance functions
  MaxRetry,    \* MAX_RETRY
  MaxManual,   \* bound: calls of the endpoint retry_task
  MaxResets,   \* bound: restarts, forced requeues and requeue_skipped calls
  SlowJobs     \* environment: a job may outlive STALE_RUNNING_MINUTES

ASSUME TaskAssumption  == Task \subseteq Nat \ {0}
ASSUME RetryAssumption == MaxRetry \in Nat \ {0}
ASSUME EnvAssumption   == /\ SlowJobs \in BOOLEAN
                          /\ MaxManual \in Nat /\ MaxResets \in Nat

NoTask == 0

VARIABLES
  status,   \* column status; "ABSENT" is a row not inserted yet
  retry,    \* column retry_count
  locked,   \* column locked_at: "null", "fresh", or "old" once outside the
            \* window of requeue_stale_running
  process,  \* the service process: up, draining, cancelled, down
  tick,     \* where _tick is: idle, picked, claimed, submitting, waiting
  picked,   \* the ids the running claim has selected and not yet submitted
  lost,     \* history: the rows whose claim or whose write of FAILED has raised
            \* since they were claimed; no action reads it
  holds,    \* the row a future of the pool was submitted for
  pc,       \* where that future is
  maint,    \* the second statement a maintenance session still has to issue
  market,   \* the time of day as get_policy sees it
  manual,   \* how often retry_task was called
  resets    \* how many restarts, forced requeues and skipped requeues so far

rows  == <<status, retry, locked>>
pool  == <<holds, pc>>
claim == <<tick, picked, lost>>
vars  == <<status, retry, locked, process, tick, picked, lost, holds, pc, maint,
           market, manual, resets>>

-----------------------------------------------------------------------------
Update(column, S, v) == [t \in Task |-> IF t \in S THEN v ELSE column[t]]

InStatus(s) == {t \in Task : status[t] = s}

Live(s) == pc[s] # "free"

JobsOf(t) == {s \in Slot : Live(s) /\ holds[s] = t}

Busy == {s \in Slot : pc[s] \in {"executing", "ok", "error"}}

\* UPDATE ... SET status='PENDING', locked_at=NULL on the rows of S.
BackInQueue(S) ==
  /\ status' = Update(status, S, "PENDING")
  /\ locked' = Update(locked, S, "null")

CountReset == resets < MaxResets /\ resets' = resets + 1

Init ==
  /\ status  = [t \in Task |-> "ABSENT"]
  /\ retry   = [t \in Task |-> 0]
  /\ locked  = [t \in Task |-> "null"]
  /\ process = "up"
  /\ tick    = "idle"
  /\ picked  = {}
  /\ lost    = {}
  /\ holds   = [s \in Slot |-> NoTask]
  /\ pc      = [s \in Slot |-> "free"]
  /\ maint   = [m \in Session |-> "none"]
  /\ market \in {"intraday", "offhour"}
  /\ manual  = 0
  /\ resets  = 0

-----------------------------------------------------------------------------
(* The generators: INSERT ... ON DUPLICATE KEY UPDATE touches an existing  *)
(* row only in updated_at.                                                 *)
Generate(t) ==
  /\ process = "up"
  /\ status[t] = "ABSENT"
  /\ status' = [status EXCEPT ![t] = "PENDING"]
  /\ UNCHANGED <<retry, locked, process, claim, pool, maint, market, manual, resets>>

(* The clock crosses 09:30 or 16:00 of a trading day.                      *)
MarketTurns ==
  /\ market' = IF market = "intraday" THEN "offhour" ELSE "intraday"
  /\ UNCHANGED <<rows, process, claim, pool, maint, manual, resets>>

(* locked_at of a RUNNING row becomes older than STALE_RUNNING_MINUTES (in *)
(* any other status the column is not read, and a claim overwrites it).    *)
LockAges(t) ==
  /\ status[t] = "RUNNING" /\ locked[t] = "fresh"
  /\ t \notin picked
  /\ SlowJobs \/ JobsOf(t) = {}
  /\ locked' = [locked EXCEPT ![t] = "old"]
  /\ UNCHANGED <<status, retry, process, claim, pool, maint, market, manual, resets>>

-----------------------------------------------------------------------------
(* The tick.                                                               *)

\* The order of the claim's SELECT: by id, minute rows first when preferred.
Before(t, u, preferMinute) ==
  IF preferMinute /\ (t \in Minute) # (u \in Minute) THEN t \in Minute ELSE t < u

Select(types, preferMinute) ==
  LET pending == InStatus("PENDING") \cap types
  IN  {t \in pending :
         Cardinality({u \in pending : Before(u, t, preferMinute)}) < ClaimLimit}

\* What the tick claims under get_policy; mix is the switch of runtime_config
\* for the time of day, which may be changed at any moment.
Claimable(mix) ==
  IF market = "intraday"
  THEN Select(IF mix THEN Task ELSE Minute, mix)
  ELSE LET daily == Select(Task \ Minute, FALSE)
       IN  IF daily = {} /\ mix THEN Select(Minute, FALSE) ELSE daily

TickSelect ==
  /\ process = "up" /\ tick = "idle"
  /\ Cardinality({s \in Slot : ~Live(s)}) >= ClaimLimit  \* bound: Slot
  /\ \E mix \in BOOLEAN :
       /\ Claimable(mix) # {}
       /\ picked' = Claimable(mix)
  /\ tick' = "picked"
  /\ UNCHANGED <<rows, process, lost, pool, maint, market, manual, resets>>

\* UPDATE ... WHERE id IN :ids: the status is not tested again. The tick may
\* have passed its look at shutdown_event before the drain began.
TickClaim ==
  /\ tick = "picked"
  /\ status' = Update(status, picked, "RUNNING")
  /\ locked' = Update(locked, picked, "fresh")
  /\ tick' = "claimed"
  /\ lost' = lost \ picked
  /\ UNCHANGED <<retry, process, picked, pool, maint, market, manual, resets>>

\* The claimed rows are read again, by id; no row is ever deleted.
TickReads ==
  /\ tick = "claimed"
  /\ tick' = "submitting"
  /\ UNCHANGED <<rows, process, picked, lost, pool, maint, market, manual, resets>>

\* The UPDATE raises without effect; or it has reached the table and its
\* answer, the commit or the second read raises. _tick has a finally only: it
\* ends, and what the UPDATE has set to RUNNING stays so.
TickRaises ==
  /\ tick \in {"picked", "claimed"}
  /\ lost' = IF tick = "claimed" THEN lost \cup picked ELSE lost
  /\ tick' = "idle" /\ picked' = {}
  /\ UNCHANGED <<rows, process, pool, maint, market, manual, resets>>

TickSubmit(s) ==
  /\ tick = "submitting" /\ process \in {"up", "draining"}
  /\ ~Live(s)
  /\ \E t \in picked :
       /\ holds' = [holds EXCEPT ![s] = t]
       /\ pc' = [pc EXCEPT ![s] = "queued"]
       /\ picked' = picked \ {t}
       /\ tick' = IF picked = {t} THEN "waiting" ELSE "submitting"
  /\ UNCHANGED <<rows, process, lost, maint, market, manual, resets>>

\* submit raises once the pool is shut down: the rest of the batch stays
\* RUNNING and nobody works on it.
TickSubmitRefused ==
  /\ tick = "submitting" /\ process = "cancelled"
  /\ tick' = "idle" /\ picked' = {}
  /\ UNCHANGED <<rows, process, lost, pool, maint, market, manual, resets>>

\* Every f.result(timeout) has returned, raised or timed out; a timed-out
\* job is abandoned where it is.
TickDone ==
  /\ tick = "waiting"
  /\ tick' = "idle"
  /\ UNCHANGED <<rows, process, picked, lost, pool, maint, market, manual, resets>>

-----------------------------------------------------------------------------
(* run_task in a thread of the pool.                                       *)

JobStart(s) ==
  /\ pc[s] = "queued"
  /\ Cardinality(Busy) < PoolSize
  /\ pc' = [pc EXCEPT ![s] = "executing"]
  /\ UNCHANGED <<rows, process, claim, holds, maint, market, manual, resets>>

\* _execute returns, or raises.
JobExecute(s) ==
  /\ pc[s] = "executing"
  /\ \E outcome \in {"ok", "error"} : pc' = [pc EXCEPT ![s] = outcome]
  /\ UNCHANGED <<rows, process, claim, holds, maint, market, manual, resets>>

JobEnds(s) ==
  /\ pc' = [pc EXCEPT ![s] = "free"]
  /\ holds' = [holds EXCEPT ![s] = NoTask]
  /\ UNCHANGED <<process, tick, picked, maint, market, manual, resets>>

\* Mutant: a status that the column does not have.
WriteDone(s) ==
  /\ pc[s] = "ok"
  /\ status' = [status EXCEPT ![holds[s]] = "DONE"]
  /\ UNCHANGED <<retry, locked, lost>>
  /\ JobEnds(s)

\* UPDATE ... SET status='SUCCESS' WHERE id=:id, whatever the row says now.
WriteSuccess(s) ==
  /\ pc[s] = "ok"
  /\ status' = [status EXCEPT ![holds[s]] = "SUCCESS"]
  /\ UNCHANGED <<retry, locked, lost>>
  /\ JobEnds(s)

\* The write of SUCCESS raises inside the try, without effect or after the
\* UPDATE has reached the table: the job takes the except path either way.
WriteSuccessRaises(s) ==
  /\ pc[s] = "ok"
  /\ status' \in {status, [status EXCEPT ![holds[s]] = "SUCCESS"]}
  /\ pc' = [pc EXCEPT ![s] = "error"]
  /\ UNCHANGED <<retry, locked, process, claim, holds, maint, market, manual, resets>>

\* Mutant: the row is forgotten.
WriteNothing(s) == pc[s] = "error" /\ UNCHANGED <<rows, lost>> /\ JobEnds(s)

\* UPDATE ... SET status='FAILED', retry_count=retry_count+1 WHERE id=:id,
\* over SUCCESS too. Where it raises after that, the job is at its end as well.
WriteFailed(s) ==
  /\ pc[s] = "error"
  /\ status' = [status EXCEPT ![holds[s]] = "FAILED"]
  /\ retry' = [retry EXCEPT ![holds[s]] = @ + 1]
  /\ UNCHANGED <<locked, lost>>
  /\ JobEnds(s)

\* The write of FAILED raises as well and has no effect (no connection left in
\* the pool, the database away): the thread ends and the row stays as it is.
WriteFailedRaises(s) ==
  /\ pc[s] = "error"
  /\ lost' = lost \cup {holds[s]}
  /\ UNCHANGED rows
  /\ JobEnds(s)

-----------------------------------------------------------------------------
(* The maintenance statements.                                             *)

\* Mutant: the statement does not look at locked_at.
StaleWithoutWindow == InStatus("RUNNING")

Stale == {t \in InStatus("RUNNING") : locked[t] = "old"}

Exhausted == {t \in InStatus("FAILED") : retry[t] >= MaxRetry}

\* Mutant: the statement does not look at retry_count.
RequeueEveryFailed ==
  /\ process = "up"
  /\ BackInQueue(InStatus("FAILED"))
  /\ UNCHANGED <<retry, process, claim, pool, maint, market, manual, resets>>

RequeueFailed ==
  /\ process = "up"
  /\ BackInQueue({t \in InStatus("FAILED") : retry[t] < MaxRetry})
  /\ UNCHANGED <<retry, process, claim, pool, maint, market, manual, resets>>

\* requeue_stale_running, first statement: retry_count stays as it is.
StaleExhaust(m) ==
  /\ process = "up" /\ maint[m] = "none"
  /\ LET S == {t \in Stale : retry[t] >= MaxRetry - 1}
     IN  /\ status' = Update(status, S, "FAILED")
         /\ locked' = Update(locked, S, "null")
  /\ maint' = [maint EXCEPT ![m] = "stale"]
  /\ UNCHANGED <<retry, process, claim, pool, market, manual, resets>>

\* Mutant: a gap between the two statements.
RetriableBelowGap == {t \in Stale : retry[t] < MaxRetry - 2}

Retriable == {t \in Stale : retry[t] < MaxRetry - 1}

\* requeue_stale_running, second statement.
StaleRequeue(m) ==
  /\ process # "down" /\ maint[m] = "stale"
  /\ LET S == Retriable
     IN  /\ BackInQueue(S)
         /\ retry' = [t \in Task |-> IF t \in S THEN retry[t] + 1 ELSE retry[t]]
  /\ maint' = [maint EXCEPT ![m] = "none"]
  /\ UNCHANGED <<process, claim, pool, market, manual, resets>>

\* force_requeue_exhausted: the rows of halted stocks become SKIPPED ...
ForceSkip(m) ==
  /\ process = "up" /\ maint[m] = "none"
  /\ CountReset
  /\ status' = Update(status, Exhausted \cap Halted, "SKIPPED")
  /\ maint' = [maint EXCEPT ![m] = "force"]
  /\ UNCHANGED <<retry, locked, process, claim, pool, market, manual>>

\* ... and whatever is exhausted at the next statement starts over.
ForceRequeue(m) ==
  /\ process # "down" /\ maint[m] = "force"
  /\ BackInQueue(Exhausted)
  /\ retry' = Update(retry, Exhausted, 0)
  /\ maint' = [maint EXCEPT ![m] = "none"]
  /\ UNCHANGED <<process, claim, pool, market, manual, resets>>

\* The first statement's commit or the second statement raises: the function
\* ends halfway.
MaintenanceRaises(m) ==
  /\ maint[m] # "none"
  /\ maint' = [maint EXCEPT ![m] = "none"]
  /\ UNCHANGED <<rows, process, claim, pool, market, manual, resets>>

RequeueSkipped ==
  /\ process = "up"
  /\ CountReset
  /\ BackInQueue(InStatus("SKIPPED"))
  /\ retry' = Update(retry, InStatus("SKIPPED"), 0)
  /\ UNCHANGED <<process, claim, pool, maint, market, manual>>

\* Mutant: the endpoint takes any row.
RetryAnyTask(t) ==
  /\ process = "up" /\ manual < MaxManual
  /\ BackInQueue({t})
  /\ manual' = manual + 1
  /\ UNCHANGED <<retry, process, claim, pool, maint, market, resets>>

\* POST /tasks/{id}/retry: retry_count is not reset.
RetryTask(t) ==
  /\ process = "up" /\ manual < MaxManual
  /\ status[t] \in {"FAILED", "SKIPPED"}
  /\ BackInQueue({t})
  /\ manual' = manual + 1
  /\ UNCHANGED <<retry, process, claim, pool, maint, market, resets>>

-----------------------------------------------------------------------------
(* The process: lifespan's shutdown branch, a crash, the next start.       *)

\* Mutant: the rows are reset on the way down, while jobs still run.
ShutdownResets ==
  /\ process = "up"
  /\ CountReset
  /\ process' = "draining"
  /\ BackInQueue(InStatus("RUNNING"))
  /\ UNCHANGED <<retry, claim, pool, maint, market, manual>>

\* shutdown_event is set and the scheduler stops; the endpoints are gone.
Shutdown ==
  /\ process = "up"
  /\ CountReset
  /\ process' = "draining"
  /\ UNCHANGED <<rows, claim, pool, maint, market, manual>>

\* The drain's deadline: the pool drops what is queued, running jobs go on.
DrainTimeout ==
  /\ process = "draining"
  /\ process' = "cancelled"
  /\ pc' = [s \in Slot |-> IF pc[s] = "queued" THEN "free" ELSE pc[s]]
  /\ holds' = [s \in Slot |-> IF pc[s] = "queued" THEN NoTask ELSE holds[s]]
  /\ UNCHANGED <<rows, claim, maint, market, manual, resets>>

\* The process ends, by itself or killed; only the database remains.
Crash ==
  /\ process # "down"
  /\ IF process = "up" THEN CountReset ELSE UNCHANGED resets
  /\ process' = "down"
  /\ tick' = "idle" /\ picked' = {} /\ lost' = {}
  /\ pc' = [s \in Slot |-> "free"] /\ holds' = [s \in Slot |-> NoTask]
  /\ maint' = [m \in Session |-> "none"]
  /\ UNCHANGED <<rows, market, manual>>

\* reset_running_on_startup, before the scheduler is built; where it raises
\* there is no start. A start that fails after it is a start and a crash.
Startup ==
  /\ process = "down"
  /\ process' = "up"
  /\ BackInQueue(InStatus("RUNNING"))
  /\ UNCHANGED <<retry, claim, pool, maint, market, manual, resets>>

-----------------------------------------------------------------------------
Worker(s) ==
  \/ JobStart(s) \/ JobExecute(s) \/ WriteSuccess(s)
  \/ WriteSuccessRaises(s) \/ WriteFailed(s) \/ WriteFailedRaises(s)

Maintenance(m) ==
  \/ StaleExhaust(m) \/ StaleRequeue(m) \/ ForceSkip(m) \/ ForceRequeue(m)
  \/ MaintenanceRaises(m)

Next ==
  \/ \E t \in Task : Generate(t) \/ LockAges(t) \/ RetryTask(t)
  \/ MarketTurns
  \/ TickSelect \/ TickClaim \/ TickReads \/ TickRaises
  \/ TickSubmitRefused \/ TickDone
  \/ \E s \in Slot : TickSubmit(s) \/ Worker(s)
  \/ RequeueFailed \/ RequeueSkipped
  \/ \E m \in Session : Maintenance(m)
  \/ Shutdown \/ DrainTimeout \/ Crash \/ Startup

Spec == Init /\ [][Next]_vars

\* The jobs of APScheduler fire again and again, the container restarts the
\* process, and a tick runs many times in each half of the trading day. A
\* statement of the tick or of a sweep may raise, but not at every try (SF). Two
\* things are not assumed here: that a worker makes progress, and that any
\* write-back ever reaches the table.
SchedulerFairness ==
  /\ WF_vars(MarketTurns)
  /\ SF_vars(market = "intraday" /\ TickSelect)
  /\ SF_vars(market = "offhour" /\ TickSelect)
  /\ SF_vars(TickClaim) /\ SF_vars(TickReads)
  /\ WF_vars(TickSubmitRefused) /\ WF_vars(TickDone)
  /\ \A s \in Slot : WF_vars(TickSubmit(s))
  /\ \A t \in Task : WF_vars(LockAges(t))
  /\ WF_vars(RequeueFailed)
  /\ \A m \in Session : /\ WF_vars(StaleExhaust(m)) /\ SF_vars(StaleRequeue(m))
                        /\ WF_vars(ForceRequeue(m) \/ MaintenanceRaises(m))
  /\ WF_vars(Startup) /\ WF_vars(process \in {"draining", "cancelled"} /\ Crash)

\* Every call a job makes has a timeout, so a job that has a thread ends.
WorkerFairness == \A s \in Slot : WF_vars(Worker(s))

HungSpec == Spec /\ SchedulerFairness
FairSpec == Spec /\ SchedulerFairness /\ WorkerFairness

-----------------------------------------------------------------------------
Statuses == {"ABSENT", "PENDING", "RUNNING", "SUCCESS", "FAILED", "SKIPPED"}

TypeOK ==
  /\ status \in [Task -> Statuses]
  /\ retry \in [Task -> Nat]
  /\ locked \in [Task -> {"null", "fresh", "old"}]
  /\ process \in {"up", "draining", "cancelled", "down"}
  /\ tick \in {"idle", "picked", "claimed", "submitting", "waiting"}
  /\ picked \in SUBSET Task
  /\ lost \in SUBSET Task
  /\ holds \in [Slot -> Task \cup {NoTask}]
  /\ pc \in [Slot -> {"free", "queued", "executing", "ok", "error"}]
  /\ \A s \in Slot : holds[s] = NoTask <=> pc[s] = "free"
  /\ maint \in [Session -> {"none", "stale", "force"}]
  /\ market \in {"intraday", "offhour"}
  /\ manual \in Nat
  /\ resets \in Nat

-----------------------------------------------------------------------------
\* The thread pool and the table agree on who works on what: as long as no
\* job outlives the stale window, a row has at most one job; it is RUNNING, or
\* SUCCESS already where the job does not know that it wrote it; and a row the
\* tick is about to claim or to submit has no job. This is what the unguarded
\* UPDATEs of the claim and of the write-back rely on.
SingleOwner ==
  ~SlowJobs =>
    /\ \A s1, s2 \in Slot : Live(s1) /\ Live(s2) /\ holds[s1] = holds[s2] => s1 = s2
    /\ \A s \in Slot : Live(s) =>
         status[holds[s]] \in {"RUNNING"} \cup (IF pc[s] = "error" THEN {"SUCCESS"} ELSE {})
    /\ tick = "picked" => \A t \in picked : status[t] = "PENDING" /\ JobsOf(t) = {}
    /\ tick \in {"claimed", "submitting"} => \A t \in picked : JobsOf(t) = {}

\* retry_count stays within MAX_RETRY, and a row that has used it up is not
\* in the queue; each call of retry_task, which keeps the count, allows one
\* more attempt. Stale requeues, forced requeues, restarts and lost writes
\* do not widen the budget, nor does FAILED written over SUCCESS.
RetryBudget ==
  ~SlowJobs =>
    \A t \in Task :
      /\ retry[t] <= MaxRetry + manual
      /\ status[t] \in {"PENDING", "RUNNING"} => retry[t] < MaxRetry + manual

\* A fetched row stays fetched once its job has ended: no other job's late
\* write-back, no sweep, restart, retry or unguarded claim takes a row out of
\* SUCCESS. Only the job that has fetched it may do so, with its last step, when
\* its own write of SUCCESS has reached the table and raised (run_task).
SuccessFinal ==
  [][~SlowJobs =>
       \A t \in Task : status[t] = "SUCCESS" /\ status'[t] # "SUCCESS" =>
         status'[t] = "FAILED" /\ JobsOf(t) # {} /\ JobsOf(t)' = {}]_vars

\* While the pool accepts work, a RUNNING row is one somebody works on or is
\* about to be handed one, also when stale requeues have put several jobs on one
\* row, unless a statement of its claim or of its write-back has raised since:
\* nothing else leaves a row behind for requeue_stale_running.
RunningHasJob ==
  process \in {"up", "draining"} =>
    \A t \in InStatus("RUNNING") :
      \/ JobsOf(t) # {} \/ t \in lost
      \/ tick \in {"claimed", "submitting"} /\ t \in picked

\* The rows somebody has the lease of: a future of the pool was submitted for
\* the row, or the tick has claimed it and is about to submit it.
Leased == {t \in Task : \/ JobsOf(t) # {}
                        \/ tick \in {"claimed", "submitting"} /\ t \in picked}

Queue == INSTANCE TaskQueue WITH held <- Leased

\* Statement by statement, with crashes, lost writes and lost answers in between,
\* the table and the pool implement the queue of leases, as long as no job
\* outlives the stale window: whoever settles a row has its lease, sweeps and
\* restarts take back only what nobody holds, and a claim meets only rows that wait.
ImplementsQueue == Queue!Spec

\* No row hangs in RUNNING: not when its worker never returns, not when its
\* claim or its write-back has raised, not across restarts (requeue_stale_running and
\* reset_running_on_startup).
RunningRecovered ==
  \A t \in Task : status[t] = "RUNNING" ~> status[t] # "RUNNING"

Settled(t) ==
  \/ status[t] \in {"ABSENT", "SUCCESS", "SKIPPED"}
  \/ status[t] = "FAILED" /\ retry[t] >= MaxRetry

\* Every row is in the end fetched, skipped or given up: retries do not go on
\* forever and no row waits in the queue forever behind others (docstring of
\* requeue_stale_running, task_runner.py:163).
NoEndlessRetry == \A t \in Task : <>[]Settled(t)
=============================================================================
