---------------------------- MODULE AnalysisProofs ----------------------------
(* Theorems about Analysis, proved for any number of strategies and days.   *)
EXTENDS Analysis, TLAPS

\* The run that is under way is a run of a day with bars, and what its query
\* has returned is of that day.
RunOfDay ==
  /\ job # "idle" => bars[day] # {}
  /\ job \notin {"succeeded", "failed"} => hits = {}
  /\ \A b \in hits : b[2] = day

IInv == DataType /\ RunOfDay /\ SnapshotOfItsDay

-----------------------------------------------------------------------------
\* An UPDATE leaves a status in every row, and makes none.
LEMMA StatusWritten ==
  ASSUME DataType, NEW v \in Status
  PROVE  /\ WithStatus(v) \in [Strategy -> [Day -> Status]]
         /\ \A s \in Strategy, d \in Day :
              WithStatus(v)[s][d] # "none" => result[s][d] # "none"
BY DEF DataType, WithStatus, InTable, Status

LEMMA Starts == Init => IInv
<1> SUFFICES ASSUME Init PROVE IInv
  OBVIOUS
<1>1. 1 \in Day /\ LastDay \in Nat
  BY AnalysisAssumption DEF Day
<1>2. DataType
  BY <1>1 DEF Init, DataType, Status
<1>3. RunOfDay /\ SnapshotOfItsDay
  BY DEF Init, RunOfDay, SnapshotOfItsDay
<1> QED
  BY <1>2, <1>3 DEF IInv

\* The actions of the run that leave the tables alone, apart from its start and
\* its query.
LEMMA RunStepsKeep ==
  ASSUME IInv,
         \/ JobSkips \/ JobSelects \/ ExecutePasses \/ ExecuteReads \/ QueryRaises
         \/ JobRaises \/ JobEnds
  PROVE  IInv'
<1>1. today \in Nat /\ today >= 1
  BY AnalysisAssumption DEF IInv, DataType, Day
<1>2. DataType'
  <2> USE <1>1 DEF IInv, DataType, tables, run
  <2>1. CASE JobSkips
    BY <2>1 DEF JobSkips
  <2>2. CASE JobSelects
    BY <2>2 DEF JobSelects
  <2>3. CASE ExecutePasses \/ ExecuteReads
    BY <2>3 DEF ExecutePasses, ExecuteReads
  <2>4. CASE QueryRaises
    BY <2>4 DEF QueryRaises
  <2>5. CASE JobRaises \/ JobEnds
    BY <2>5 DEF JobRaises, JobEnds
  <2> QED
    BY <2>1, <2>2, <2>3, <2>4, <2>5
<1>3. /\ UNCHANGED <<bars, result, stocks, day>>
      /\ hits' = hits \/ hits' = {}
      /\ job' # "idle" => job # "idle"
      /\ job' \notin {"succeeded", "failed"} => hits' = {} \/ job \notin {"succeeded", "failed"}
  BY DEF JobSkips, JobSelects, ExecutePasses, ExecuteReads, QueryRaises, JobRaises,
         JobEnds, tables, run
<1>4. RunOfDay' /\ SnapshotOfItsDay'
  BY <1>3 DEF IInv, RunOfDay, SnapshotOfItsDay
<1> QED
  BY <1>2, <1>4 DEF IInv

\* The actions of the run that decide on the day or write to analysis_result.
LEMMA RunWritesKeep ==
  ASSUME IInv,
         \/ JobChecks \/ JobEnsures \/ ExecuteMarks \/ QueryReturns
         \/ WriteSuccess \/ WriteFailed
  PROVE  IInv'
<1> USE DEF IInv, tables, run
<1>t. today \in Day /\ today \in Nat /\ 0 \in 0..today /\ today \in 0..today
  BY AnalysisAssumption DEF DataType, Day
<1>s. {"RUNNING", "SUCCESS", "FAILED"} \subseteq Status
  BY DEF Status
<1>1. CASE JobChecks
  <2>1. DataType'
    BY <1>1, <1>t DEF JobChecks, DataType
  <2>2. RunOfDay' /\ SnapshotOfItsDay'
    <3>1. hits' = {}
      BY <1>1 DEF JobChecks, RunOfDay
    <3>2. bars'[day'] # {}
      BY <1>1 DEF JobChecks, Collected
    <3> QED
      BY <1>1, <3>1, <3>2 DEF JobChecks, RunOfDay, SnapshotOfItsDay
  <2> QED
    BY <2>1, <2>2
<1>2. CASE JobEnsures
  <2>1. DataType'
    BY <1>2 DEF JobEnsures, DataType, Status
  <2>2. SnapshotOfItsDay'
    <3> SUFFICES ASSUME NEW s \in Strategy, NEW d \in Day
                 PROVE  /\ result'[s][d] # "none" => bars'[d] # {}
                        /\ \A b \in stocks'[s][d] : b[2] = d
      BY DEF SnapshotOfItsDay
    <3>1. result'[s][d] # "none" => result[s][d] # "none" \/ d = day
      BY <1>2 DEF JobEnsures
    <3>2. bars' = bars /\ stocks' = stocks /\ bars[day] # {}
      BY <1>2 DEF JobEnsures, RunOfDay
    <3> QED
      BY <3>1, <3>2 DEF SnapshotOfItsDay
  <2> QED
    BY <1>2, <2>1, <2>2 DEF JobEnsures, RunOfDay
<1>3. CASE ExecuteMarks
  <2>1. DataType'
    BY <1>3, <1>s, StatusWritten DEF ExecuteMarks, DataType
  <2>2. SnapshotOfItsDay'
    <3>1. \A s \in Strategy, d \in Day : result'[s][d] # "none" => result[s][d] # "none"
      BY <1>3, <1>s, StatusWritten DEF ExecuteMarks
    <3>2. bars' = bars /\ stocks' = stocks
      BY <1>3 DEF ExecuteMarks
    <3> QED
      BY <3>1, <3>2 DEF SnapshotOfItsDay
  <2> QED
    BY <1>3, <2>1, <2>2 DEF ExecuteMarks, RunOfDay
<1>4. CASE QueryReturns
  <2>1. hits' \in SUBSET Bar /\ \A b \in hits' : b[2] = day
    BY <1>4 DEF QueryReturns, Selected, Bar, DataType
  <2>2. DataType'
    BY <1>4, <2>1 DEF QueryReturns, DataType
  <2> QED
    BY <1>4, <2>1, <2>2 DEF QueryReturns, RunOfDay, SnapshotOfItsDay
<1>5. CASE WriteSuccess
  <2>1. DataType'
    <3>1. result' \in [Strategy -> [Day -> Status]]
      BY <1>5, <1>s, StatusWritten DEF WriteSuccess
    <3>2. stocks' \in [Strategy -> [Day -> SUBSET Bar]]
      BY <1>5 DEF WriteSuccess, DataType
    <3> QED
      BY <1>5, <3>1, <3>2 DEF WriteSuccess, NextId, DataType
  <2>2. SnapshotOfItsDay'
    <3> SUFFICES ASSUME NEW s \in Strategy, NEW d \in Day
                 PROVE  /\ result'[s][d] # "none" => bars'[d] # {}
                        /\ \A b \in stocks'[s][d] : b[2] = d
      BY DEF SnapshotOfItsDay
    <3>1. result'[s][d] # "none" => result[s][d] # "none"
      BY <1>5, <1>s, StatusWritten DEF WriteSuccess
    <3>2. stocks'[s][d] = stocks[s][d] \/ (d = day /\ stocks'[s][d] = hits)
      BY <1>5 DEF WriteSuccess, DataType
    <3> QED
      BY <1>5, <3>1, <3>2 DEF WriteSuccess, NextId, SnapshotOfItsDay, RunOfDay
  <2>3. RunOfDay'
    BY <1>5 DEF WriteSuccess, NextId, RunOfDay
  <2> QED
    BY <2>1, <2>2, <2>3
<1>6. CASE WriteFailed
  <2>1. DataType'
    BY <1>6, <1>s, StatusWritten DEF WriteFailed, NextId, DataType
  <2>2. SnapshotOfItsDay'
    <3>1. \A s \in Strategy, d \in Day : result'[s][d] # "none" => result[s][d] # "none"
      BY <1>6, <1>s, StatusWritten DEF WriteFailed
    <3>2. bars' = bars /\ stocks' = stocks
      BY <1>6 DEF WriteFailed, NextId
    <3> QED
      BY <3>1, <3>2 DEF SnapshotOfItsDay
  <2> QED
    BY <1>6, <2>1, <2>2 DEF WriteFailed, NextId, RunOfDay
<1> QED
  BY <1>1, <1>2, <1>3, <1>4, <1>5, <1>6

\* The endpoints, the collectors, the calendar and the process.
LEMMA OthersKeep ==
  ASSUME IInv,
         \/ \E s \in Strategy :
              CreateTask(s) \/ Switch(s) \/ DeleteResults(s) \/ DeleteTask(s)
         \/ \E k \in Stock, d \in Day : Store(k, d)
         \/ NextDay \/ Crash \/ Startup
  PROVE  IInv'
<1> USE DEF IInv, tables, run
<1>1. ASSUME NEW s \in Strategy, CreateTask(s) \/ Switch(s) \/ DeleteTask(s)
      PROVE  IInv'
  BY <1>1 DEF CreateTask, Switch, DeleteTask, DataType, RunOfDay, SnapshotOfItsDay
<1>2. ASSUME NEW s \in Strategy, DeleteResults(s)
      PROVE  IInv'
  <2>1. DataType'
    BY <1>2 DEF DeleteResults, DataType, Status
  <2>2. SnapshotOfItsDay'
    BY <1>2 DEF DeleteResults, DataType, SnapshotOfItsDay
  <2> QED
    BY <1>2, <2>1, <2>2 DEF DeleteResults, RunOfDay
<1>3. ASSUME NEW k \in Stock, NEW d \in Day, Store(k, d)
      PROVE  IInv'
  BY <1>3 DEF Store, DataType, RunOfDay, SnapshotOfItsDay
<1>4. CASE NextDay
  <2>1. today' \in Day /\ 0..today \subseteq 0..today'
    BY <1>4, AnalysisAssumption DEF NextDay, DataType, Day
  <2> QED
    BY <1>4, <2>1 DEF NextDay, DataType, RunOfDay, SnapshotOfItsDay
<1>5. CASE Crash
  BY <1>5 DEF Crash, DataType, RunOfDay, SnapshotOfItsDay
<1>6. CASE Startup
  BY <1>6 DEF Startup, DataType, RunOfDay, SnapshotOfItsDay
<1> QED
  BY <1>1, <1>2, <1>3, <1>4, <1>5, <1>6

LEMMA Keeps == IInv /\ [Next]_vars => IInv'
<1> SUFFICES ASSUME IInv, [Next]_vars PROVE IInv'
  OBVIOUS
<1>1. CASE Job
  BY <1>1, RunStepsKeep, RunWritesKeep DEF Job
<1>2. CASE UNCHANGED vars
  BY <1>2 DEF vars, IInv, DataType, RunOfDay, SnapshotOfItsDay
<1> QED
  BY <1>1, <1>2, OthersKeep DEF Next

LEMMA Inductive == Spec => []IInv
BY Starts, Keeps, PTL DEF Spec

\* up is a flag of its own: nothing else bears on it.
LEMMA UpTyped == Spec => [](up \in BOOLEAN)
<1>1. Init => up \in BOOLEAN
  BY DEF Init
<1>2. up \in BOOLEAN /\ [Next]_vars => (up \in BOOLEAN)'
  BY ZenonT(60) DEF Next, vars, Job, tables, run, JobSkips, JobChecks, JobEnsures, JobSelects,
     ExecutePasses, ExecuteReads, ExecuteMarks, QueryReturns, QueryRaises, WriteSuccess,
     WriteFailed, NextId, JobRaises, JobEnds, CreateTask, Switch, DeleteResults,
     DeleteTask, Store, NextDay, Crash, Startup
<1> QED
  BY <1>1, <1>2, PTL DEF Spec

-----------------------------------------------------------------------------
\* Every row has one of the statuses, and the run is where its program is.
THEOREM AnalysisTyped == Spec => []TypeOK
BY Inductive, UpTyped, PTL DEF IInv, TypeOK

\* A snapshot holds the bars of its own day, and there is none for a day on
\* which nothing has been collected, however long the run takes.
THEOREM SnapshotsOfTheirDay == Spec => []SnapshotOfItsDay
BY Inductive, PTL DEF IInv

\* No action makes a row of analysis_result for a strategy that is deleted: the
\* run makes rows of active strategies only, and its UPDATEs make none.
LEMMA NoRowReturns ==
  IInv /\ [Next]_vars =>
    \A s \in Strategy, d \in Day :
      task[s] = "deleted" /\ result[s][d] = "none" => result'[s][d] = "none"
<1> SUFFICES ASSUME IInv, [Next]_vars, NEW s \in Strategy, NEW d \in Day,
                    task[s] = "deleted", result[s][d] = "none"
             PROVE  result'[s][d] = "none"
  OBVIOUS
<1>s. {"RUNNING", "SUCCESS", "FAILED"} \subseteq Status /\ DataType
  BY DEF Status, IInv
<1>1. CASE JobEnsures
  BY <1>1, <1>s DEF JobEnsures, DataType
<1>2. CASE ExecuteMarks \/ WriteSuccess \/ WriteFailed
  BY <1>2, <1>s, StatusWritten DEF ExecuteMarks, WriteSuccess, WriteFailed
<1>3. ASSUME NEW t \in Strategy, DeleteResults(t)
      PROVE  result'[s][d] = "none"
  BY <1>3, <1>s DEF DeleteResults, DataType
<1>4. CASE \/ JobSkips \/ JobChecks \/ JobSelects \/ ExecutePasses \/ ExecuteReads
           \/ QueryReturns \/ QueryRaises \/ JobRaises \/ JobEnds
  BY <1>4 DEF JobSkips, JobChecks, JobSelects, ExecutePasses, ExecuteReads, QueryReturns,
              QueryRaises, JobRaises, JobEnds, tables
<1>5. ASSUME NEW t \in Strategy, CreateTask(t) \/ Switch(t) \/ DeleteTask(t)
      PROVE  result'[s][d] = "none"
  BY <1>5 DEF CreateTask, Switch, DeleteTask
<1>6. CASE \/ \E k \in Stock, e \in Day : Store(k, e)
           \/ NextDay \/ Crash \/ Startup \/ UNCHANGED vars
  BY <1>6 DEF Store, NextDay, Crash, Startup, vars, tables
<1> QED
  BY <1>1, <1>2, <1>3, <1>4, <1>5, <1>6 DEF Next, Job

\* A deleted strategy gets no snapshot again from a run that was about to
\* execute it.
THEOREM DeletedForGood == Spec => DeletedStaysDeleted
<1>1. IInv /\ [Next]_vars =>
        [\A s \in Strategy, d \in Day :
           task[s] = "deleted" /\ result[s][d] = "none" => result'[s][d] = "none"]_vars
  BY NoRowReturns
<1> QED
  BY <1>1, Inductive, PTL DEF Spec, DeletedStaysDeleted

-----------------------------------------------------------------------------
\* A run works on the day it was fired, and what it finds RUNNING of that day is
\* what it is executing: rows that earlier runs have left are of earlier days.
RunOfFired ==
  /\ job # "idle" => day = fired
  /\ \A s \in Strategy, d \in Day : result[s][d] = "RUNNING" => d <= fired
  /\ \A s \in Strategy :
       job # "idle" /\ result[s][day] = "RUNNING" =>
         job \in {"query", "succeeded", "failed"} /\ s = Current

RInv == RunOfFired /\ OneLeftRunning

\* An UPDATE changes the row of the current id only.
LEMMA StatusOfCurrent ==
  ASSUME DataType, NEW v \in Status, NEW s \in Strategy, NEW d \in Day
  PROVE  WithStatus(v)[s][d] = result[s][d] \/ (s = Current /\ d = day /\ WithStatus(v)[s][d] = v)
BY DEF DataType, WithStatus

\* Steps after which no row is RUNNING that was not before.
LEMMA QuietKeeps ==
  ASSUME DataType, RInv,
         \A s \in Strategy, d \in Day : result'[s][d] = "RUNNING" => result[s][d] = "RUNNING",
         UNCHANGED <<day, fired>>,
         \/ job' = "idle"
         \/ job' = job /\ ids' = ids
         \/ job \in {"query", "succeeded"} /\ job' \in {"succeeded", "failed"} /\ ids' = ids
         \/ job \in {"ensure", "select", "ready"} /\ job' # "idle"
  PROVE  RInv'
<1>1. job' # "idle" => job # "idle"
  OBVIOUS
<1>2. ids' = ids => Current' = Current
  BY DEF Current
<1>3. RunOfFired'
  BY <1>1, <1>2 DEF RInv, RunOfFired, DataType
<1>4. OneLeftRunning'
  BY DEF RInv, OneLeftRunning
<1> QED BY <1>3, <1>4 DEF RInv

LEMMA JobKeepsRInv ==
  ASSUME DataType, RInv, Job
  PROVE  RInv'
<1> USE DEF RInv, tables, run
<1>s. {"RUNNING", "SUCCESS", "FAILED"} \subseteq Status
  BY DEF Status
<1>t. today \in Day /\ today \in Nat /\ fired \in Nat /\ fired <= today /\ \A d \in Day : d \in Int
  BY AnalysisAssumption DEF DataType, Day
<1>1. CASE JobChecks
  <2>1. \A s \in Strategy, d \in Day : result[s][d] = "RUNNING" => d < today
    BY <1>1, <1>t DEF JobChecks, RunOfFired
  <2>2. \A s \in Strategy, d \in Day : result[s][d] = "RUNNING" => d <= today /\ d # today
    <3> SUFFICES ASSUME NEW s \in Strategy, NEW d \in Day, result[s][d] = "RUNNING"
                 PROVE  d <= today /\ d # today
      OBVIOUS
    <3>1. d < today /\ d \in Int
      BY <1>t, <2>1
    <3> QED BY <1>t, <3>1
  <2>3. RunOfFired'
    BY <1>1, <1>t, <2>2 DEF JobChecks, RunOfFired
  <2> QED BY <1>1, <2>3 DEF JobChecks, OneLeftRunning
<1>2. CASE JobSkips
  <2>1. \A s \in Strategy, d \in Day : result[s][d] = "RUNNING" => d <= today
    BY <1>t DEF RunOfFired
  <2>2. RunOfFired'
    BY <1>2, <2>1 DEF JobSkips, RunOfFired
  <2> QED BY <1>2, <2>2 DEF JobSkips, OneLeftRunning
<1>3. CASE JobEnsures
  <2>1. \A s \in Strategy, d \in Day : result'[s][d] = "RUNNING" => result[s][d] = "RUNNING"
    BY <1>3 DEF JobEnsures, DataType
  <2> QED BY <1>3, <2>1, QuietKeeps DEF JobEnsures
<1>4. CASE JobSelects \/ ExecutePasses \/ ExecuteReads \/ JobEnds
  BY <1>4, QuietKeeps DEF JobSelects, ExecutePasses, ExecuteReads, JobEnds
<1>5. CASE QueryReturns \/ QueryRaises \/ JobRaises
  BY <1>5, QuietKeeps DEF QueryReturns, QueryRaises, JobRaises
<1>6. CASE ExecuteMarks
  <2>1. \A s \in Strategy, d \in Day : result'[s][d] = "RUNNING" =>
          result[s][d] = "RUNNING" \/ (s = Current /\ d = day)
    BY <1>6, <1>s, StatusOfCurrent DEF ExecuteMarks
  <2>2. \A s \in Strategy : result[s][day] # "RUNNING"
    BY <1>6 DEF ExecuteMarks, RunOfFired
  <2>3. Current' = Current /\ day' = day /\ fired' = fired /\ job' = "query" /\ day = fired
    BY <1>6 DEF ExecuteMarks, Current, RunOfFired
  <2>4. RunOfFired'
    BY <1>t, <2>1, <2>2, <2>3 DEF RunOfFired, DataType
  <2>5. OneLeftRunning'
    BY <2>1, <2>2 DEF OneLeftRunning
  <2> QED BY <2>4, <2>5
<1>7. CASE WriteSuccess \/ WriteFailed
  <2>1. PICK v \in {"SUCCESS", "FAILED"} : result' = WithStatus(v)
    BY <1>7 DEF WriteSuccess, WriteFailed
  <2>2. \A s \in Strategy, d \in Day : result'[s][d] = "RUNNING" => result[s][d] = "RUNNING"
    BY <1>s, <2>1, StatusOfCurrent
  <2>3. \A s \in Strategy : result'[s][day] # "RUNNING"
    <3> SUFFICES ASSUME NEW s \in Strategy, result'[s][day] = "RUNNING" PROVE FALSE
      OBVIOUS
    <3>1. day \in Day /\ result[s][day] = "RUNNING"
      BY <2>2 DEF DataType
    <3>2. s = Current /\ InTable(Current)
      BY <1>7, <3>1 DEF RunOfFired, WriteSuccess, WriteFailed, InTable
    <3> QED BY <2>1, <3>1, <3>2 DEF WithStatus, DataType
  <2>4. UNCHANGED <<day, fired>> /\ job' = "ready" /\ job # "idle"
    BY <1>7 DEF WriteSuccess, WriteFailed, NextId
  <2>5. RunOfFired'
    BY <2>2, <2>3, <2>4 DEF RunOfFired
  <2>6. OneLeftRunning'
    BY <2>2 DEF OneLeftRunning
  <2> QED BY <2>5, <2>6
<1> QED BY <1>1, <1>2, <1>3, <1>4, <1>5, <1>6, <1>7 DEF Job

LEMMA NextKeepsRInv == DataType /\ RInv /\ [Next]_vars => RInv'
<1> SUFFICES ASSUME DataType, RInv, [Next]_vars PROVE RInv'
  OBVIOUS
<1>1. ASSUME NEW s \in Strategy, CreateTask(s) \/ Switch(s) \/ DeleteTask(s) PROVE RInv'
  BY <1>1, QuietKeeps DEF CreateTask, Switch, DeleteTask, run
<1>2. ASSUME NEW s \in Strategy, DeleteResults(s) PROVE RInv'
  <2>1. \A t \in Strategy, d \in Day : result'[t][d] = "RUNNING" => result[t][d] = "RUNNING"
    BY <1>2 DEF DeleteResults, DataType
  <2> QED BY <1>2, <2>1, QuietKeeps DEF DeleteResults, run
<1>3. CASE (\E k \in Stock, d \in Day : Store(k, d)) \/ NextDay \/ Startup
  BY <1>3, QuietKeeps DEF Store, NextDay, Startup, tables, run
<1>4. CASE Crash
  BY <1>4, QuietKeeps DEF Crash, tables
<1>5. CASE UNCHANGED vars
  BY <1>5, QuietKeeps DEF vars
<1> QED BY <1>1, <1>2, <1>3, <1>4, <1>5, JobKeepsRInv DEF Next

\* A broken-off run loses one snapshot of its day at most (execute_analysis).
THEOREM LosesOneAtMost == Spec => []OneLeftRunning
<1>1. Init => RInv
  BY DEF Init, RInv, RunOfFired, OneLeftRunning
<1>2. IInv => DataType
  BY DEF IInv
<1>3. RInv => OneLeftRunning
  BY DEF RInv
<1> QED BY <1>1, <1>2, <1>3, Inductive, NextKeepsRInv, PTL DEF Spec
=============================================================================
