--------------------------- MODULE FetchTaskProofs ---------------------------
(***************************************************************************)
(* Proofs about FetchTask for every set of rows, futures and sessions:     *)
(* type correctness, single ownership of a row, the retry budget, finality *)
(* of SUCCESS, that a RUNNING row has a job, and that table and pool       *)
(* implement the queue of leases.                                          *)
(***************************************************************************)
EXTENDS FetchTask, TLAPS

\* Nobody works while the process is down.
DownIsIdle ==
  process = "down" => tick = "idle" /\ \A s \in Slot : pc[s] = "free"

\* Whoever holds a row, or is about to submit it, finds it RUNNING with a
\* lock inside the stale window; a job whose write of SUCCESS has raised may
\* find that it has reached the table.
HeldIsFresh ==
  ~SlowJobs =>
    /\ \A s \in Slot : Live(s) =>
         /\ \/ status[holds[s]] = "RUNNING"
            \/ pc[s] = "error" /\ status[holds[s]] = "SUCCESS"
         /\ locked[holds[s]] # "old"
    /\ tick \in {"claimed", "submitting"} =>
         \A t \in picked : status[t] = "RUNNING" /\ locked[t] # "old"

\* No two futures hold the same row, and none holds a row of the open claim.
NoSharing ==
  ~SlowJobs =>
    /\ \A u, v \in Slot : Live(u) /\ Live(v) /\ holds[u] = holds[v] => u = v
    /\ tick \in {"picked", "claimed", "submitting"} =>
         \A s \in Slot : Live(s) => holds[s] \notin picked
    /\ tick = "picked" => \A t \in picked : status[t] = "PENDING"

\* The retry budget, with the rows that were never inserted and those a job
\* still holds, whatever their status: it may write FAILED over SUCCESS.
Budget ==
  ~SlowJobs =>
    /\ \A t \in Task :
         /\ retry[t] <= MaxRetry + manual
         /\ status[t] \in {"ABSENT", "PENDING", "RUNNING"} => retry[t] < MaxRetry + manual
    /\ \A s \in Slot : Live(s) => retry[holds[s]] < MaxRetry + manual

Ownership == DownIsIdle /\ HeldIsFresh /\ NoSharing /\ Budget

IInv == TypeOK /\ Ownership

-----------------------------------------------------------------------------
LEMMA InitTypeOK == Init => TypeOK
BY TaskAssumption DEF Init, TypeOK, Statuses, NoTask

\* The type invariant is inductive by itself.
LEMMA StepTypeOK == TypeOK /\ [Next]_vars => TypeOK'
<1> SUFFICES ASSUME TypeOK, [Next]_vars PROVE TypeOK'
  OBVIOUS
<1> USE TaskAssumption, EnvAssumption, RetryAssumption DEF TypeOK, Statuses, NoTask
<1>1. ASSUME NEW t \in Task, Generate(t) PROVE TypeOK'
  BY <1>1 DEF Generate, pool, claim, rows
<1>2. ASSUME NEW t \in Task, LockAges(t) PROVE TypeOK'
  BY <1>2 DEF LockAges, pool, claim, rows
<1>3. ASSUME NEW t \in Task, RetryTask(t) PROVE TypeOK'
  BY <1>3 DEF RetryTask, BackInQueue, Update, pool, claim, rows
<1>4. CASE MarketTurns
  BY <1>4 DEF MarketTurns, pool, claim, rows
<1>5. CASE TickSelect
  <2>1. PICK mix \in BOOLEAN : picked' = Claimable(mix)
    BY <1>5 DEF TickSelect
  <2>2. Claimable(mix) \subseteq Task
    BY DEF Claimable, Select, InStatus
  <2>3. QED
    BY <1>5, <2>1, <2>2 DEF TickSelect, pool, claim, rows
<1>6. CASE TickClaim
  BY <1>6 DEF TickClaim, Update, pool, claim, rows
<1>7. CASE TickSubmitRefused
  BY <1>7 DEF TickSubmitRefused, pool, claim, rows
<1>8. CASE TickDone
  BY <1>8 DEF TickDone, pool, claim, rows
<1>9. ASSUME NEW s \in Slot, TickSubmit(s) PROVE TypeOK'
  BY <1>9 DEF TickSubmit, Live, pool, claim, rows
<1>10. ASSUME NEW s \in Slot, Worker(s) PROVE TypeOK'
  <2>1. CASE JobStart(s)
    BY <2>1 DEF JobStart, pool, claim, rows
  <2>2. CASE JobExecute(s)
    BY <2>2 DEF JobExecute, pool, claim, rows
  <2>3. CASE WriteSuccess(s)
    BY <2>3 DEF WriteSuccess, JobEnds, pool, claim, rows
  <2>4. CASE WriteSuccessRaises(s)
    <3>1. status' \in [Task -> Statuses]
      BY <2>4 DEF WriteSuccessRaises
    <3>2. QED
      BY <2>4, <3>1 DEF WriteSuccessRaises, pool, claim, rows
  <2>5. CASE WriteFailed(s)
    <3>1. holds[s] \in Task
      BY <2>5 DEF WriteFailed
    <3>2. retry[holds[s]] \in Nat
      BY <3>1
    <3>3. retry[holds[s]] + 1 \in Nat
      BY <3>2
    <3>4. retry' \in [Task -> Nat]
      BY <2>5, <3>3 DEF WriteFailed
    <3>5. QED
      BY <2>5, <3>4 DEF WriteFailed, JobEnds, pool, claim, rows
  <2>6. CASE WriteFailedRaises(s)
    BY <2>6 DEF WriteFailedRaises, JobEnds, pool, claim, rows
  <2>7. QED
    BY <1>10, <2>1, <2>2, <2>3, <2>4, <2>5, <2>6 DEF Worker
<1>11. CASE RequeueFailed
  BY <1>11 DEF RequeueFailed, BackInQueue, Update, pool, claim, rows
<1>12. CASE RequeueSkipped
  BY <1>12 DEF RequeueSkipped, CountReset, BackInQueue, Update, pool, claim, rows
<1>13. ASSUME NEW m \in Session, Maintenance(m) PROVE TypeOK'
  <2>1. CASE StaleExhaust(m)
    BY <2>1 DEF StaleExhaust, Update, pool, claim, rows
  <2>2. CASE StaleRequeue(m)
    BY <2>2 DEF StaleRequeue, Retriable, BackInQueue, Update, pool, claim, rows
  <2>3. CASE ForceSkip(m)
    BY <2>3 DEF ForceSkip, CountReset, Update, pool, claim, rows
  <2>4. CASE ForceRequeue(m)
    BY <2>4 DEF ForceRequeue, BackInQueue, Update, pool, claim, rows
  <2>5. CASE MaintenanceRaises(m)
    BY <2>5 DEF MaintenanceRaises, pool, claim, rows
  <2>6. QED
    BY <1>13, <2>1, <2>2, <2>3, <2>4, <2>5 DEF Maintenance
<1>14. CASE Shutdown
  BY <1>14 DEF Shutdown, CountReset, pool, claim, rows
<1>15. CASE DrainTimeout
  BY <1>15 DEF DrainTimeout, pool, claim, rows
<1>16. CASE Crash
  BY <1>16 DEF Crash, CountReset, pool, claim, rows
<1>17. CASE Startup
  BY <1>17 DEF Startup, BackInQueue, Update, pool, claim, rows
<1>18. CASE UNCHANGED vars
  BY <1>18 DEF vars
<1>19. CASE TickReads \/ TickRaises
  BY <1>19 DEF TickReads, TickRaises, pool, claim, rows
<1>20. QED
  BY <1>1, <1>2, <1>3, <1>4, <1>5, <1>6, <1>7, <1>8, <1>9, <1>10, <1>11, <1>12,
     <1>13, <1>14, <1>15, <1>16, <1>17, <1>18, <1>19 DEF Next

\* Every column, future and program counter keeps its type.
THEOREM TypeCorrect == Spec => []TypeOK
<1>1. Init => TypeOK
  BY InitTypeOK
<1>2. TypeOK /\ [Next]_vars => TypeOK'
  BY StepTypeOK
<1>3. QED
  BY <1>1, <1>2, PTL DEF Spec

-----------------------------------------------------------------------------
LEMMA InitIInv == Init => IInv
BY InitTypeOK, RetryAssumption
   DEF Init, IInv, Ownership, DownIsIdle, HeldIsFresh, NoSharing, Budget, Live

\* The strengthened invariant is inductive. The actions that touch only the
\* clock, the tick's bookkeeping or a future's progress disturb nothing; the
\* claim and the write-backs are where ownership pays.
LEMMA StepIInv == IInv /\ [Next]_vars => IInv'
<1> SUFFICES ASSUME IInv, [Next]_vars
             PROVE  Ownership'
  BY StepTypeOK DEF IInv
<1>t. TypeOK /\ TypeOK' /\ Ownership
  BY StepTypeOK DEF IInv
<1> USE TaskAssumption, RetryAssumption, EnvAssumption
    DEF NoTask, Ownership, DownIsIdle, HeldIsFresh, NoSharing, Budget, Live, TypeOK,
        rows, pool, claim
<1>1. ASSUME NEW t \in Task, Generate(t) PROVE Ownership'
  BY <1>t, <1>1 DEF Generate
<1>2. ASSUME NEW t \in Task, LockAges(t) PROVE Ownership'
  BY <1>t, <1>2 DEF LockAges, JobsOf
<1>3. ASSUME NEW t \in Task, RetryTask(t) PROVE Ownership'
  <2>1. DownIsIdle' /\ HeldIsFresh' /\ NoSharing'
    BY <1>t, <1>3 DEF RetryTask, BackInQueue, Update
  <2>2. Budget'
    <3>1. /\ manual \in Nat /\ manual' = manual + 1 /\ UNCHANGED <<retry, holds, pc>>
          /\ \A u \in Task : retry[u] \in Nat
          /\ MaxRetry \in Nat
      BY <1>t, <1>3 DEF RetryTask
    <3>2. ~SlowJobs => \A u \in Task : retry'[u] < MaxRetry + manual'
      BY <1>t, <3>1
    <3>3. ~SlowJobs => \A u \in Task : retry'[u] <= MaxRetry + manual'
      BY <1>t, <3>1
    <3>4. \A s \in Slot : pc'[s] # "free" => holds'[s] \in Task
      BY <1>t
    <3>5. QED
      BY <3>2, <3>3, <3>4
  <2>3. QED
    BY <2>1, <2>2
<1>4. ASSUME MarketTurns PROVE Ownership'
  BY <1>t, <1>4 DEF MarketTurns
<1>5. ASSUME TickSelect PROVE Ownership'
  <2>1. \A t \in picked' : status[t] = "PENDING"
    BY <1>5 DEF TickSelect, Claimable, Select, InStatus
  <2>2. QED
    BY <1>t, <1>5, <2>1 DEF TickSelect
<1>6. ASSUME TickClaim PROVE Ownership'
  BY <1>t, <1>6 DEF TickClaim, Update
<1>7. ASSUME TickSubmitRefused PROVE Ownership'
  BY <1>t, <1>7 DEF TickSubmitRefused
<1>8. ASSUME TickDone PROVE Ownership'
  BY <1>t, <1>8 DEF TickDone
<1>9. ASSUME NEW s \in Slot, TickSubmit(s) PROVE Ownership'
  BY <1>t, <1>9 DEF TickSubmit
<1>10. ASSUME NEW s \in Slot, JobStart(s) PROVE Ownership'
  BY <1>t, <1>10 DEF JobStart
<1>11. ASSUME NEW s \in Slot, JobExecute(s) PROVE Ownership'
  BY <1>t, <1>11 DEF JobExecute
<1>12. ASSUME NEW s \in Slot, WriteSuccess(s) PROVE Ownership'
  BY <1>t, <1>12 DEF WriteSuccess, JobEnds
<1>13. ASSUME NEW s \in Slot, WriteSuccessRaises(s) PROVE Ownership'
  <2>1. CASE UNCHANGED status
    BY <1>t, <1>13, <2>1 DEF WriteSuccessRaises
  <2>2. CASE status' = [status EXCEPT ![holds[s]] = "SUCCESS"]
    BY <1>t, <1>13, <2>2 DEF WriteSuccessRaises
  <2>3. QED
    BY <1>13, <2>1, <2>2 DEF WriteSuccessRaises
<1>14. ASSUME NEW s \in Slot, WriteFailed(s) PROVE Ownership'
  BY <1>t, <1>14 DEF WriteFailed, JobEnds
<1>15. ASSUME NEW s \in Slot, WriteFailedRaises(s) PROVE Ownership'
  BY <1>t, <1>15 DEF WriteFailedRaises, JobEnds
<1>16. ASSUME RequeueFailed PROVE Ownership'
  BY <1>t, <1>16 DEF RequeueFailed, BackInQueue, Update, InStatus
<1>17. ASSUME RequeueSkipped PROVE Ownership'
  BY <1>t, <1>17 DEF RequeueSkipped, CountReset, BackInQueue, Update, InStatus
<1>18. ASSUME NEW m \in Session, StaleExhaust(m) PROVE Ownership'
  BY <1>t, <1>18 DEF StaleExhaust, Update, Stale, InStatus
<1>19. ASSUME NEW m \in Session, StaleRequeue(m) PROVE Ownership'
  BY <1>t, <1>19 DEF StaleRequeue, Retriable, BackInQueue, Update, Stale, InStatus
<1>20. ASSUME NEW m \in Session, ForceSkip(m) PROVE Ownership'
  BY <1>t, <1>20 DEF ForceSkip, CountReset, Update, Exhausted, InStatus
<1>21. ASSUME NEW m \in Session, ForceRequeue(m) PROVE Ownership'
  BY <1>t, <1>21 DEF ForceRequeue, BackInQueue, Update, Exhausted, InStatus
<1>22. ASSUME Shutdown PROVE Ownership'
  BY <1>t, <1>22 DEF Shutdown, CountReset
<1>23. ASSUME DrainTimeout PROVE Ownership'
  BY <1>t, <1>23 DEF DrainTimeout
<1>24. ASSUME Crash PROVE Ownership'
  BY <1>t, <1>24 DEF Crash, CountReset
<1>25. ASSUME Startup PROVE Ownership'
  BY <1>t, <1>25 DEF Startup, BackInQueue, Update, InStatus
<1>26. ASSUME UNCHANGED vars PROVE Ownership'
  BY <1>t, <1>26 DEF vars
<1>27. ASSUME TickReads \/ TickRaises PROVE Ownership'
  BY <1>t, <1>27 DEF TickReads, TickRaises
<1>28. ASSUME NEW m \in Session, MaintenanceRaises(m) PROVE Ownership'
  BY <1>t, <1>28 DEF MaintenanceRaises
<1>29. QED
  BY <1>1, <1>2, <1>3, <1>4, <1>5, <1>6, <1>7, <1>8, <1>9, <1>10, <1>11, <1>12, <1>13,
     <1>14, <1>15, <1>16, <1>17, <1>18, <1>19, <1>20, <1>21, <1>22, <1>23, <1>24, <1>25,
     <1>26, <1>27, <1>28 DEF Next, Worker, Maintenance

-----------------------------------------------------------------------------
LEMMA Inductive == Spec => []IInv
<1>1. Init => IInv
  BY InitIInv
<1>2. IInv /\ [Next]_vars => IInv'
  BY StepIInv
<1>3. QED
  BY <1>1, <1>2, PTL DEF Spec

\* No two workers share a row, and whoever has a row finds it RUNNING, or in
\* SUCCESS by its own write whose answer it did not get, for any number of rows,
\* workers and maintenance sessions, as long as no job outlives the stale window.
THEOREM SingleOwnership == Spec => []SingleOwner
<1>1. IInv => SingleOwner
  BY DEF IInv, Ownership, HeldIsFresh, NoSharing, SingleOwner, JobsOf
<1>2. QED
  BY <1>1, Inductive, PTL

\* retry_count never exceeds MAX_RETRY by more than the operator's retries.
THEOREM RetryBudgetKept == Spec => []RetryBudget
<1>1. IInv => RetryBudget
  BY DEF IInv, Ownership, Budget, RetryBudget
<1>2. QED
  BY <1>1, Inductive, PTL

\* Without slow jobs the unguarded UPDATEs of claim and write-back meet PENDING
\* and RUNNING rows only, with one exception: the job that has fetched a row and
\* does not know it writes FAILED over its own SUCCESS, and is gone after that.
THEOREM SuccessIsFinal == Spec => SuccessFinal
<1> DEFINE Lasts(t) == status[t] = "SUCCESS" /\ status'[t] # "SUCCESS" =>
                         status'[t] = "FAILED" /\ JobsOf(t) # {} /\ JobsOf(t)' = {}
<1>1. ASSUME IInv, [Next]_vars
      PROVE  [~SlowJobs => \A t \in Task : Lasts(t)]_vars
  <2> SUFFICES ASSUME ~SlowJobs, NEW t \in Task, status[t] = "SUCCESS",
                      status'[t] # "SUCCESS"
               PROVE  status'[t] = "FAILED" /\ JobsOf(t) # {} /\ JobsOf(t)' = {}
    OBVIOUS
  <2> USE <1>1 DEF IInv, Ownership, TypeOK, rows
  <2>1. ASSUME NEW u \in Task PROVE ~(Generate(u) \/ LockAges(u) \/ RetryTask(u))
    BY <2>1 DEF Generate, LockAges, RetryTask, BackInQueue, Update
  <2>2. ~TickClaim
    BY DEF TickClaim, Update, NoSharing
  <2>3. ASSUME NEW s \in Slot
        PROVE  ~(JobStart(s) \/ JobExecute(s) \/ WriteSuccess(s) \/ WriteSuccessRaises(s)
                 \/ WriteFailedRaises(s) \/ TickSubmit(s))
    BY <2>3 DEF JobStart, JobExecute, WriteSuccess, WriteSuccessRaises, WriteFailedRaises,
                TickSubmit
  <2>4. ASSUME NEW s \in Slot, WriteFailed(s)
        PROVE  status'[t] = "FAILED" /\ JobsOf(t) # {} /\ JobsOf(t)' = {}
    <3>1. holds[s] = t /\ status'[t] = "FAILED"
      BY <2>4 DEF WriteFailed
    <3>2. JobsOf(t) = {s}
      BY <2>4, <3>1 DEF WriteFailed, NoSharing, JobsOf, Live
    <3>3. JobsOf(t)' = JobsOf(t) \ {s}
      BY <2>4 DEF WriteFailed, JobEnds, JobsOf, Live
    <3>4. QED
      BY <3>1, <3>2, <3>3
  <2>5. ~(RequeueFailed \/ RequeueSkipped \/ Startup)
    BY DEF RequeueFailed, RequeueSkipped, Startup, BackInQueue, Update, InStatus
  <2>6. ASSUME NEW m \in Session PROVE ~Maintenance(m)
    BY <2>6 DEF Maintenance, StaleExhaust, StaleRequeue, Retriable, ForceSkip, ForceRequeue,
                MaintenanceRaises, BackInQueue, Update, Stale, Exhausted, InStatus
  <2>7. ~(MarketTurns \/ TickSelect \/ TickReads \/ TickRaises \/ TickSubmitRefused
          \/ TickDone \/ Shutdown \/ DrainTimeout \/ Crash \/ UNCHANGED vars)
    BY DEF MarketTurns, TickSelect, TickReads, TickRaises, TickSubmitRefused, TickDone,
           Shutdown, DrainTimeout, Crash, vars
  <2>8. QED
    BY <2>1, <2>2, <2>3, <2>4, <2>5, <2>6, <2>7 DEF Next, Worker
<1>2. QED
  BY <1>1, Inductive, PTL DEF Spec, SuccessFinal

-----------------------------------------------------------------------------
\* What "somebody works on t" means to the step below.
Attended(t) ==
  \/ \E s \in Slot : Live(s) /\ holds[s] = t
  \/ tick \in {"claimed", "submitting"} /\ t \in picked

HInv ==
  process \in {"up", "draining"} =>
    \A t \in Task : status[t] = "RUNNING" => Attended(t) \/ t \in lost

LEMMA StepHInv == TypeOK /\ HInv /\ [Next]_vars => HInv'
<1> SUFFICES ASSUME TypeOK, HInv, [Next]_vars, process' \in {"up", "draining"},
                    NEW t \in Task, status'[t] = "RUNNING", t \notin lost'
             PROVE  Attended(t)'
  BY DEF HInv
<1> USE TaskAssumption DEF NoTask
<1>1. ASSUME NEW u \in Task, Generate(u) \/ LockAges(u) \/ RetryTask(u)
      PROVE  Attended(t)'
  BY <1>1 DEF Generate, LockAges, RetryTask, BackInQueue, Update, HInv, Attended,
              Live, TypeOK, pool, claim
<1>2. CASE TickClaim
  BY <1>2 DEF TickClaim, Update, HInv, Attended, Live, TypeOK, pool
<1>3. ASSUME NEW s \in Slot, TickSubmit(s)
      PROVE  Attended(t)'
  BY <1>3 DEF TickSubmit, HInv, Attended, Live, TypeOK, rows
<1>4. CASE TickSelect \/ TickReads \/ TickRaises \/ TickDone
  BY <1>4 DEF TickSelect, TickReads, TickRaises, TickDone, HInv, Attended, Live, rows, pool
<1>5. ASSUME NEW s \in Slot, Worker(s)
      PROVE  Attended(t)'
  <2>1. CASE JobStart(s) \/ JobExecute(s) \/ WriteSuccessRaises(s)
    BY <2>1 DEF JobStart, JobExecute, WriteSuccessRaises, HInv, Attended, Live,
                TypeOK, rows, claim
  <2>2. CASE WriteSuccess(s) \/ WriteFailed(s)
    <3>1. t # holds[s] /\ status[t] = "RUNNING"
      BY <2>2 DEF WriteSuccess, WriteFailed, TypeOK
    <3>2. QED
      BY <2>2, <3>1 DEF WriteSuccess, WriteFailed, JobEnds, HInv, Attended, Live,
                        TypeOK, claim
  <2>3. CASE WriteFailedRaises(s)
    BY <2>3 DEF WriteFailedRaises, JobEnds, HInv, Attended, Live, TypeOK, rows
  <2>4. QED
    BY <1>5, <2>1, <2>2, <2>3 DEF Worker
<1>6. CASE RequeueFailed \/ RequeueSkipped
  BY <1>6 DEF RequeueFailed, RequeueSkipped, BackInQueue, Update, HInv, Attended,
              Live, TypeOK, pool, claim
<1>7. ASSUME NEW m \in Session, Maintenance(m)
      PROVE  Attended(t)'
  <2>1. CASE MaintenanceRaises(m)
    BY <2>1 DEF MaintenanceRaises, HInv, Attended, Live, rows, pool, claim
  <2>2. CASE StaleExhaust(m) \/ StaleRequeue(m) \/ ForceSkip(m) \/ ForceRequeue(m)
    BY <2>2 DEF StaleExhaust, StaleRequeue, Retriable, ForceSkip, ForceRequeue,
                BackInQueue, Update, HInv, Attended, Live, TypeOK, pool, claim
  <2>3. QED
    BY <1>7, <2>1, <2>2 DEF Maintenance
<1>8. CASE MarketTurns \/ Shutdown \/ UNCHANGED vars
  BY <1>8 DEF MarketTurns, Shutdown, HInv, Attended, Live, vars, rows, pool, claim
<1>9. CASE TickSubmitRefused \/ DrainTimeout \/ Crash
  BY <1>9 DEF TickSubmitRefused, DrainTimeout, Crash
<1>10. CASE Startup
  BY <1>10 DEF Startup, BackInQueue, Update, InStatus, TypeOK
<1>11. QED
  BY <1>1, <1>2, <1>3, <1>4, <1>5, <1>6, <1>7, <1>8, <1>9, <1>10 DEF Next

\* A RUNNING row has a job or is about to be submitted, however slow the jobs
\* are and however often rows are requeued, unless a statement of its claim or of
\* its write-back has raised.
THEOREM RunningIsAttended == Spec => []RunningHasJob
<1>1. Init => HInv
  BY DEF Init, HInv
<1>2. TypeOK /\ HInv /\ [Next]_vars => HInv'
  BY StepHInv
<1>3. HInv => RunningHasJob
  BY DEF HInv, RunningHasJob, Attended, InStatus, JobsOf
<1>4. QED
  BY <1>1, <1>2, <1>3, TypeCorrect, PTL DEF Spec
-----------------------------------------------------------------------------
\* The refinement: what each step of FetchTask is in TaskQueue.

\* Steps that leave the table and the pool's and the tick's holdings alone.
LEMMA StutterStep ==
  ASSUME UNCHANGED <<status, tick, picked, holds, pc>>
  PROVE  UNCHANGED Queue!vars
BY DEF Queue!vars, Leased, JobsOf, Live

\* Statements on the table that leave the leases alone.
LEMMA LeasesUntouched ==
  ASSUME UNCHANGED <<tick, picked, holds, pc>>
  PROVE  Leased' = Leased
BY DEF Leased, JobsOf, Live

\* A write-back, arrived or lost, ends the lease of the job's row and no other.
LEMMA LeaseEnds ==
  ASSUME IInv, ~SlowJobs, NEW s \in Slot, Live(s), JobEnds(s)
  PROVE  holds[s] \in Leased /\ Leased' = Leased \ {holds[s]}
<1> USE DEF IInv, Ownership, NoSharing, TypeOK, Live, NoTask
<1>1. holds[s] \in Task
  OBVIOUS
<1>2. holds[s] \in Leased
  BY <1>1 DEF Leased, JobsOf
<1>3. ASSUME NEW t \in Task
      PROVE  t \in Leased' <=> t \in Leased /\ t # holds[s]
  <2>1. JobsOf(t)' = JobsOf(t) \ {s}
    BY DEF JobEnds, JobsOf
  <2>2. s \in JobsOf(t) <=> t = holds[s]
    BY DEF JobsOf
  <2>3. JobsOf(holds[s]) = {s}
    BY DEF JobsOf
  <2>4. tick \in {"claimed", "submitting"} => holds[s] \notin picked
    OBVIOUS
  <2>5. UNCHANGED <<tick, picked>>
    BY DEF JobEnds, claim
  <2>6. QED
    BY <2>1, <2>2, <2>3, <2>4, <2>5 DEF Leased
<1>4. QED
  BY <1>2, <1>3 DEF Leased

LEMMA StepImplements ==
  ASSUME IInv, ~SlowJobs, [Next]_vars
  PROVE  [Queue!Next]_(Queue!vars)
<1> USE TaskAssumption DEF IInv, TypeOK, NoTask, rows, pool, claim
<1>1. ASSUME NEW t \in Task, Generate(t) PROVE Queue!Next
  <2>1. Leased' = Leased
    BY <1>1, LeasesUntouched DEF Generate
  <2>2. Queue!Insert(t)
    BY <1>1, <2>1 DEF Generate, Queue!Insert, Queue!Move
  <2>3. QED
    BY <2>2 DEF Queue!Next
<1>2. ASSUME NEW t \in Task, LockAges(t) PROVE UNCHANGED Queue!vars
  BY <1>2, StutterStep DEF LockAges
<1>3. ASSUME NEW S \in SUBSET Task, UNCHANGED <<tick, picked, holds, pc>>,
             \A t \in S : status[t] \in {"FAILED", "SKIPPED"},
             status' = Update(status, S, "PENDING")
      PROVE  Queue!Next
  <2>1. Leased' = Leased
    BY <1>3, LeasesUntouched
  <2>2. Queue!AskAgain(S)
    BY <1>3, <2>1 DEF Update, Queue!AskAgain, Queue!Move
  <2>3. QED
    BY <2>2 DEF Queue!Next
<1>4. ASSUME NEW t \in Task, RetryTask(t) PROVE Queue!Next
  BY <1>4, <1>3 DEF RetryTask, BackInQueue
<1>5. CASE RequeueFailed
  BY <1>5, <1>3 DEF RequeueFailed, BackInQueue, InStatus
<1>6. CASE RequeueSkipped
  BY <1>6, <1>3 DEF RequeueSkipped, BackInQueue, InStatus
<1>7. ASSUME NEW m \in Session, ForceRequeue(m) PROVE Queue!Next
  BY <1>7, <1>3 DEF ForceRequeue, BackInQueue, Exhausted, InStatus
<1>8. ASSUME NEW m \in Session, ForceSkip(m) PROVE Queue!Next
  <2>1. Leased' = Leased
    BY <1>8, LeasesUntouched DEF ForceSkip
  <2>2. Queue!SetAside(Exhausted \cap Halted)
    BY <1>8, <2>1 DEF ForceSkip, Exhausted, InStatus, Update, Queue!SetAside, Queue!Move
  <2>3. Exhausted \cap Halted \in SUBSET Task
    BY DEF Exhausted, InStatus
  <2>4. QED
    BY <2>2, <2>3 DEF Queue!Next
<1>9. ASSUME NEW S \in SUBSET Task, UNCHANGED <<tick, picked, holds, pc>>,
             NEW to \in {"PENDING", "FAILED"}, S \cap Leased = {},
             \A t \in S : status[t] = "RUNNING", status' = Update(status, S, to)
      PROVE  Queue!Next
  <2>1. Leased' = Leased
    BY <1>9, LeasesUntouched
  <2>2. Queue!TakeBack(S, to)
    BY <1>9, <2>1 DEF Update, Queue!TakeBack, Queue!Move
  <2>3. QED
    BY <2>2 DEF Queue!Next
<1>10. Stale \cap Leased = {}
  <2> SUFFICES ASSUME NEW t \in Stale, t \in Leased PROVE FALSE
    OBVIOUS
  <2>1. locked[t] = "old" /\ t \in Task
    BY DEF Stale, InStatus
  <2>2. CASE JobsOf(t) # {}
    BY <2>1, <2>2 DEF JobsOf, Ownership, HeldIsFresh
  <2>3. CASE tick \in {"claimed", "submitting"} /\ t \in picked
    BY <2>1, <2>3 DEF Ownership, HeldIsFresh
  <2>4. QED
    BY <2>2, <2>3 DEF Leased
<1>11. ASSUME NEW m \in Session, StaleExhaust(m) PROVE Queue!Next
  <2> DEFINE S == {t \in Stale : retry[t] >= MaxRetry - 1}
  <2>1. S \in SUBSET Task /\ S \cap Leased = {} /\ \A t \in S : status[t] = "RUNNING"
    BY <1>10 DEF Stale, InStatus
  <2>2. status' = Update(status, S, "FAILED") /\ UNCHANGED <<tick, picked, holds, pc>>
    BY <1>11 DEF StaleExhaust
  <2> HIDE DEF S
  <2>3. QED
    BY <2>1, <2>2, <1>9
<1>12. ASSUME NEW m \in Session, StaleRequeue(m) PROVE Queue!Next
  <2>1. /\ Retriable \in SUBSET Task /\ Retriable \cap Leased = {}
        /\ \A t \in Retriable : status[t] = "RUNNING"
    BY <1>10 DEF Retriable, Stale, InStatus
  <2>2. status' = Update(status, Retriable, "PENDING") /\ UNCHANGED <<tick, picked, holds, pc>>
    BY <1>12 DEF StaleRequeue, BackInQueue
  <2>3. QED
    BY <2>1, <2>2, <1>9
<1>13. CASE Startup
  <2>1. Leased = {}
    BY <1>13 DEF Startup, Leased, JobsOf, Live, Ownership, DownIsIdle
  <2>2. /\ status' = Update(status, InStatus("RUNNING"), "PENDING")
        /\ UNCHANGED <<tick, picked, holds, pc>>
    BY <1>13 DEF Startup, BackInQueue
  <2>3. /\ InStatus("RUNNING") \in SUBSET Task /\ InStatus("RUNNING") \cap Leased = {}
        /\ \A t \in InStatus("RUNNING") : status[t] = "RUNNING"
    BY <2>1 DEF InStatus
  <2>4. QED
    BY <2>2, <2>3, <1>9
<1>14. CASE TickClaim
  <2>1. Leased' = Leased \cup picked
    BY <1>14 DEF TickClaim, Leased, JobsOf, Live
  <2>2. Queue!Lease(picked)
    BY <1>14, <2>1 DEF TickClaim, Update, Queue!Lease, Queue!Move, Ownership, NoSharing
  <2>3. QED
    BY <2>2 DEF Queue!Next
<1>15. CASE TickSelect \/ TickReads \/ TickDone
  <2>1. UNCHANGED status /\ Leased' = Leased
    BY <1>15 DEF TickSelect, TickReads, TickDone, Leased, JobsOf, Live
  <2>2. QED
    BY <2>1 DEF Queue!vars
<1>16. ASSUME NEW s \in Slot, TickSubmit(s) PROVE UNCHANGED Queue!vars
  <2>1. PICK u \in picked : /\ holds' = [holds EXCEPT ![s] = u]
                            /\ pc' = [pc EXCEPT ![s] = "queued"]
                            /\ picked' = picked \ {u}
                            /\ tick' = IF picked = {u} THEN "waiting" ELSE "submitting"
    BY <1>16 DEF TickSubmit
  <2>2. ASSUME NEW t \in Task PROVE t \in Leased' <=> t \in Leased
    <3>1. JobsOf(t)' = IF t = u THEN JobsOf(t) \cup {s} ELSE JobsOf(t)
      BY <1>16, <2>1 DEF TickSubmit, JobsOf, Live
    <3>2. tick = "submitting"
      BY <1>16 DEF TickSubmit
    <3>3. QED
      BY <2>1, <3>1, <3>2 DEF Leased
  <2>3. Leased' = Leased
    BY <2>2 DEF Leased
  <2>4. QED
    BY <1>16, <2>3 DEF TickSubmit, Queue!vars
<1>17. ASSUME NEW s \in Slot, JobStart(s) \/ JobExecute(s) \/ WriteSuccessRaises(s)
       PROVE  [Queue!Next]_(Queue!vars)
  <2>1. ASSUME NEW t \in Task PROVE JobsOf(t)' = JobsOf(t)
    BY <1>17 DEF JobStart, JobExecute, WriteSuccessRaises, JobsOf, Live
  <2>2. Leased' = Leased
    BY <1>17, <2>1 DEF JobStart, JobExecute, WriteSuccessRaises, Leased
  <2>3. CASE UNCHANGED status
    BY <2>2, <2>3 DEF Queue!vars
  <2>4. CASE WriteSuccessRaises(s) /\ status' = [status EXCEPT ![holds[s]] = "SUCCESS"]
    <3>1. holds[s] \in Leased /\ status[holds[s]] = "RUNNING"
      BY <2>4 DEF WriteSuccessRaises, Leased, JobsOf, Live, Ownership, HeldIsFresh
    <3>2. holds[s] \in Task
      BY <3>1 DEF Leased
    <3>3. Queue!Report(holds[s])
      BY <2>2, <2>4, <3>1, <3>2 DEF Queue!Report, Queue!Move
    <3>4. QED
      BY <3>2, <3>3 DEF Queue!Next
  <2>5. QED
    BY <1>17, <2>3, <2>4 DEF JobStart, JobExecute, WriteSuccessRaises
<1>18. ASSUME NEW s \in Slot, WriteSuccess(s) \/ WriteFailed(s) PROVE Queue!Next
  <2>1. Live(s) /\ JobEnds(s)
    BY <1>18 DEF WriteSuccess, WriteFailed, Live
  <2>2. holds[s] \in Task /\ holds[s] \in Leased /\ Leased' = Leased \ {holds[s]}
    BY <2>1, LeaseEnds DEF Leased
  <2>3. PICK outcome \in {"SUCCESS", "FAILED"} :
           /\ status' = [status EXCEPT ![holds[s]] = outcome]
           /\ pc[s] = "error" => outcome = "FAILED"
    BY <1>18 DEF WriteSuccess, WriteFailed
  <2>4. CASE status[holds[s]] = "RUNNING"
    <3>1. Queue!Settle(holds[s], outcome)
      BY <2>2, <2>3, <2>4 DEF Queue!Settle, Queue!Move
    <3>2. QED
      BY <2>2, <3>1 DEF Queue!Next
  <2>5. CASE pc[s] = "error" /\ status[holds[s]] = "SUCCESS"
    <3>1. Queue!Deny(holds[s])
      BY <2>2, <2>3, <2>5 DEF Queue!Deny, Queue!Move
    <3>2. QED
      BY <2>2, <3>1 DEF Queue!Next
  <2>6. QED
    BY <2>1, <2>4, <2>5 DEF Ownership, HeldIsFresh
<1>19. ASSUME NEW S \in SUBSET Leased, Leased' = Leased \ S, UNCHANGED status
       PROVE  Queue!Next
  BY <1>19 DEF Queue!Next, Queue!Abandon, Leased
<1>20. ASSUME NEW s \in Slot, WriteFailedRaises(s) PROVE Queue!Next
  <2>1. Live(s) /\ JobEnds(s) /\ UNCHANGED status
    BY <1>20 DEF WriteFailedRaises, Live
  <2>2. holds[s] \in Leased /\ Leased' = Leased \ {holds[s]}
    BY <2>1, LeaseEnds
  <2>3. {holds[s]} \in SUBSET Leased
    BY <2>2
  <2>4. QED
    BY <2>1, <2>2, <2>3, <1>19
<1>21. CASE TickRaises \/ TickSubmitRefused \/ DrainTimeout \/ Crash
  <2>1. UNCHANGED status
    BY <1>21 DEF TickRaises, TickSubmitRefused, DrainTimeout, Crash
  <2>2. Leased' \subseteq Leased
    <3>1. ASSUME NEW t \in Task PROVE JobsOf(t)' \subseteq JobsOf(t)
      BY <1>21 DEF TickRaises, TickSubmitRefused, DrainTimeout, Crash, JobsOf, Live
    <3>2. QED
      BY <1>21, <3>1 DEF TickRaises, TickSubmitRefused, DrainTimeout, Crash, Leased
  <2>3. Leased' = Leased \ (Leased \ Leased')
    BY <2>2
  <2>4. QED
    BY <2>1, <2>3, <1>19
<1>22. CASE MarketTurns \/ Shutdown \/ UNCHANGED vars
             \/ \E m \in Session : MaintenanceRaises(m)
  BY <1>22, StutterStep DEF MarketTurns, Shutdown, MaintenanceRaises, vars
<1>23. QED
  BY <1>1, <1>2, <1>4, <1>5, <1>6, <1>7, <1>8, <1>11, <1>12, <1>13, <1>14, <1>15,
     <1>16, <1>17, <1>18, <1>20, <1>21, <1>22 DEF Next, Worker, Maintenance

\* FetchTask implements the queue of leases for any rows, futures and sessions,
\* through crashes, lost writes, lost answers and unguarded UPDATEs, as long as no job
\* outlives the stale window.
THEOREM TableIsQueue ==
  ASSUME ~SlowJobs
  PROVE  Spec => ImplementsQueue
<1>1. Init => Queue!Init
  BY DEF Init, Queue!Init, Leased, JobsOf, Live
<1>2. IInv /\ [Next]_vars => [Queue!Next]_(Queue!vars)
  BY StepImplements
<1>3. QED
  BY <1>1, <1>2, Inductive, PTL DEF Spec, ImplementsQueue, Queue!Spec
=============================================================================
