---------------------------- MODULE TaskGenProofs ----------------------------
(***************************************************************************)
(* For every market, calendar and size of a batch: the generators keep     *)
(* their types, a weekly task comes with the daily tasks of its days, and  *)
(* no trading day is lost as long as few enough rounds are missed in a row. *)
(* The segments a backfill is cut into cover its range exactly.            *)
(***************************************************************************)
EXTENDS TaskGen, FiniteSetTheorems, WellFoundedInduction, TLAPS

-----------------------------------------------------------------------------
(* Types.                                                                  *)

\* The rows a generator may have in hand on a day.
LEMMA RowsAreKeys ==
  ASSUME TypeOK, NEW stale \in StaleReads
  PROVE  /\ MinuteTasks(stale) \subseteq TaskKeys
         /\ DailyTasks(stale) \subseteq TaskKeys
         /\ PeriodTasks(stale) \subseteq TaskKeys
<1>1. /\ today \in Day /\ today \in Int /\ today - DaysBack \in Int
      /\ stale \subseteq Stock /\ Listed \subseteq Stock /\ "bare" \in Caliber
  BY GenAssumption DEF TypeOK, Day, StaleReads, Listed
<1>2. ASSUME NEW s \in Stock, NEW type \in {"daily", "minute"} \cup Period,
             NEW a \in Caliber, NEW first \in Int
      PROVE  Task(s, type, a, first) \in TaskKeys
  BY <1>1, <1>2 DEF Task, TaskKeys
<1>3. MinuteTasks(stale) \subseteq TaskKeys
  BY <1>1, <1>2 DEF MinuteTasks
<1>4. DailyTasks(stale) \subseteq TaskKeys
  BY <1>1, <1>2 DEF DailyTasks
<1>5. PeriodTasks(stale) \subseteq TaskKeys
  <2>1. \A p \in Period : Start[p][today] \in Int
    BY <1>1, GenAssumption
  <2>2. ASSUME NEW s \in Listed \ stale, NEW p \in Period
        PROVE  Task(s, p, "bare", Start[p][today]) \in TaskKeys
    BY <1>1, <1>2, <2>1
  <2>3. QED
    BY <2>2 DEF PeriodTasks
<1>6. QED
  BY <1>3, <1>4, <1>5

\* A batch is a part of the rows in hand.
LEMMA BatchIsPart == \A batch \in Batches : batch \subseteq todo
BY DEF Batches, kSubset

LEMMA StepType == TypeOK /\ [Next]_vars => TypeOK'
<1> SUFFICES ASSUME TypeOK, [Next]_vars PROVE TypeOK'
  OBVIOUS
<1> USE DEF TypeOK, tables, history
<1>1. CASE RefreshStart \/ RefreshRaises \/ LastDone \/ BreaksOff
  BY <1>1 DEF RefreshStart, RefreshRaises, LastDone, BreaksOff
<1>2. CASE CalendarAnswers
  BY <1>2 DEF CalendarAnswers
<1>3. CASE StocksAnswer
  BY <1>3 DEF StocksAnswer
<1>4. CASE MinuteStart
  <2>1. todo' \subseteq TaskKeys /\ step' \in {step, "minute"}
    BY <1>4, RowsAreKeys DEF MinuteStart
  <2>2. QED
    BY <1>4, <2>1 DEF MinuteStart, Jobs
<1>5. CASE DailyStart
  <2>1. todo' \subseteq TaskKeys /\ step' \in {step, "daily"}
    BY <1>5, RowsAreKeys DEF DailyStart
  <2>2. QED
    BY <1>5, <2>1 DEF DailyStart
<1>6. CASE DailyDone
  <2>1. todo' \subseteq TaskKeys
    BY <1>6, RowsAreKeys DEF DailyDone
  <2>2. QED
    BY <1>6, <2>1, GenAssumption DEF DailyDone
<1>7. CASE InsertBatch
  BY <1>7, BatchIsPart DEF InsertBatch
<1>8. CASE NextDay
  <2>1. today' \in Day
    BY <1>8, GenAssumption DEF NextDay, Day
  <2>2. missed' \in 0..MaxMissed
    <3>1. missed' \in {missed, missed + 1} /\ missed' <= MaxMissed
      BY <1>8, Zenon DEF NextDay
    <3>2. QED
      BY <3>1, GenAssumption
  <2>3. QED
    BY <1>8, <2>1, <2>2 DEF NextDay
<1>9. CASE Wait \/ UNCHANGED vars
  BY <1>9 DEF Wait, vars
<1>10. QED
  BY <1>1, <1>2, <1>3, <1>4, <1>5, <1>6, <1>7, <1>8, <1>9 DEF Next

\* Tables, jobs and rows keep their types.
THEOREM TypeCorrect == Spec => []TypeOK
<1>1. Init => TypeOK
  <2> SUFFICES ASSUME Init PROVE TypeOK
    OBVIOUS
  <2>1. today \in Day /\ missed \in 0..MaxMissed
    BY GenAssumption DEF Init, Day
  <2>2. QED
    BY <2>1 DEF Init, TypeOK
<1>2. QED
  BY <1>1, StepType, PTL DEF Spec

-----------------------------------------------------------------------------
(* A round: what the job has in hand, and what it has brought in so far.   *)

\* The row of today's round that asks for stock s in caliber a.
Row(s, a) == Task(s, "daily", a, today - DaysBack)

\* The calibers a round asks for whatever it reads of the stale stocks.
Meant(s, a) == s \notin Dormant \/ a = "bare"

RowsIn(rows) == \A s \in Listed, a \in Caliber : Meant(s, a) => Row(s, a) \in rows

InRound ==
  /\ step \in {"idle", "calendar", "stocks"} => todo = {}
  /\ step \in {"minute", "daily"} => \A t \in todo : t.type # "weekly"
  /\ step = "daily" => RowsIn(todo \cup tasks)
  /\ step = "period" => RowsIn(tasks)
  /\ step = "period" => \A t \in todo : t.type = "weekly" =>
       t.stock \in Listed /\ t.start = Start["weekly"][today] /\ t.end = today

RoundInv == TypeOK /\ InRound /\ WeekHasItsDays

LEMMA TaskFields ==
  ASSUME NEW s, NEW type, NEW a, NEW first
  PROVE  /\ Task(s, type, a, first).stock = s
         /\ Task(s, type, a, first).type = type
         /\ Task(s, type, a, first).adjust = a
         /\ Task(s, type, a, first).start = first
         /\ Task(s, type, a, first).end = today
BY DEF Task

\* A row of today's round asks for the days of its window.
LEMMA RowAsks ==
  ASSUME NEW s, NEW a, NEW d \in Int, Row(s, a) \in tasks,
         today - DaysBack <= d, d <= today
  PROVE  Asked(s, a, d)
BY TaskFields DEF Row, Asked

\* What is asked for stays asked for.
LEMMA AskedStays ==
  ASSUME tasks \subseteq tasks', NEW s, NEW a, NEW d, Asked(s, a, d)
  PROVE  Asked(s, a, d)'
BY DEF Asked

\* Whatever is read of the stale stocks, the round's rows are in hand.
LEMMA DailyTasksHoldRows ==
  ASSUME TypeOK, NEW stale \in StaleReads
  PROVE  /\ RowsIn(DailyTasks(stale))
         /\ \A t \in DailyTasks(stale) : t.type = "daily"
<1>1. stale \subseteq Dormant /\ stale \subseteq Listed
  BY DEF StaleReads
<1>2. ASSUME NEW s \in Listed, NEW a \in Caliber, Meant(s, a)
      PROVE  Row(s, a) \in DailyTasks(stale)
  <2>1. <<s, a>> \in ((Listed \ stale) \X Caliber) \cup (stale \X {"bare"})
    BY <1>1, <1>2 DEF Meant
  <2>2. QED
    BY <2>1 DEF DailyTasks, Row
<1>3. \A t \in DailyTasks(stale) : t.type = "daily"
  BY TaskFields DEF DailyTasks
<1>4. QED
  BY <1>2, <1>3 DEF RowsIn

LEMMA StepRoundInv == RoundInv /\ TypeOK' /\ [Next]_vars => RoundInv'
<1> SUFFICES ASSUME RoundInv, TypeOK', [Next]_vars PROVE RoundInv'
  OBVIOUS
<1> USE DEF RoundInv, tables, history
<1>0. ASSUME UNCHANGED tasks PROVE WeekHasItsDays'
  BY <1>0 DEF WeekHasItsDays, Asked
<1>1. CASE RefreshStart \/ RefreshRaises \/ CalendarAnswers \/ StocksAnswer
  <2>1. UNCHANGED <<todo, tasks>> /\ step' \in {"idle", "calendar", "stocks"} /\ todo = {}
    BY <1>1 DEF RefreshStart, RefreshRaises, CalendarAnswers, StocksAnswer, InRound
  <2>2. QED
    BY <1>0, <2>1 DEF InRound
<1>2. CASE MinuteStart
  <2>1. CASE today \in calendar
    <3>1. PICK stale \in StaleReads : todo' = MinuteTasks(stale)
      BY <1>2, <2>1 DEF MinuteStart
    <3>2. step' = "minute" /\ UNCHANGED tasks
      BY <1>2, <2>1 DEF MinuteStart
    <3>3. \A t \in MinuteTasks(stale) : t.type = "minute"
      BY TaskFields DEF MinuteTasks
    <3>4. QED
      BY <1>0, <3>1, <3>2, <3>3 DEF InRound
  <2>2. CASE today \notin calendar
    BY <1>0, <1>2, <2>2 DEF MinuteStart, InRound
  <2>3. QED
    BY <2>1, <2>2
<1>3. CASE DailyStart
  <2>1. CASE today \in calendar
    <3>1. PICK stale \in StaleReads : todo' = DailyTasks(stale)
      BY <1>3, <2>1 DEF DailyStart
    <3>2. step' = "daily" /\ UNCHANGED <<today, since, tasks>>
      BY <1>3, <2>1 DEF DailyStart
    <3>3. RowsIn(todo' \cup tasks)
      BY <3>1, DailyTasksHoldRows DEF RowsIn
    <3>4. RowsIn(todo \cup tasks)'
      BY <3>2, <3>3 DEF RowsIn, Row, Task, Listed
    <3>5. QED
      BY <1>0, <3>1, <3>2, <3>4, DailyTasksHoldRows DEF InRound
  <2>2. CASE today \notin calendar
    BY <1>0, <1>3, <2>2 DEF DailyStart, InRound
  <2>3. QED
    BY <2>1, <2>2
<1>4. CASE DailyDone
  <2>1. PICK stale \in StaleReads : todo' = PeriodTasks(stale)
    BY <1>4 DEF DailyDone
  <2>2. step = "daily" /\ todo = {} /\ step' = "period" /\ UNCHANGED <<today, since, tasks>>
    BY <1>4 DEF DailyDone
  <2>3. RowsIn(tasks)'
    BY <2>2 DEF InRound, RowsIn, Row, Task, Listed
  <2>4. \A t \in PeriodTasks(stale) : t.type = "weekly" =>
          t.stock \in Listed /\ t.start = Start["weekly"][today] /\ t.end = today
    BY TaskFields DEF PeriodTasks
  <2>5. QED
    BY <1>0, <2>1, <2>2, <2>3, <2>4 DEF InRound, Listed
<1>5. CASE InsertBatch
  <2>1. PICK batch \in Batches : tasks' = tasks \cup batch /\ todo' = todo \ batch
    BY <1>5 DEF InsertBatch
  <2>2. batch \subseteq todo /\ UNCHANGED <<today, since, step>>
    BY <1>5, BatchIsPart DEF InsertBatch
  <2>3. InRound'
    BY <1>5, <2>1, <2>2 DEF InRound, RowsIn, Row, Task, Listed
  <2>4. WeekHasItsDays'
    <3>1. SUFFICES ASSUME \A d \in Day : d - Start["weekly"][d] <= DaysBack,
                          NEW t \in tasks', t.type = "weekly", NEW d \in t.start..t.end
                   PROVE  Asked(t.stock, "bare", d)'
      BY DEF WeekHasItsDays
    <3>2. Asked(t.stock, "bare", d)
      <4>1. CASE t \in tasks
        BY <3>1, <4>1 DEF WeekHasItsDays
      <4>2. CASE t \in todo
        <5>1. step = "period"
          BY <3>1, <4>2 DEF InRound, TypeOK
        <5>2. t.stock \in Listed /\ t.start = Start["weekly"][today] /\ t.end = today
          BY <3>1, <4>2, <5>1 DEF InRound
        <5>3. Row(t.stock, "bare") \in tasks
          BY <5>1, <5>2, GenAssumption DEF InRound, RowsIn, Meant
        <5>4. /\ today \in Int /\ Start["weekly"][today] \in Int
              /\ today - Start["weekly"][today] <= DaysBack
          <6>1. today \in Day /\ today \in Int
            BY DEF TypeOK, Day
          <6>2. Start["weekly"] \in [Day -> Int]
            BY GenAssumption DEF Period
          <6>3. QED
            BY <3>1, <6>1, <6>2
        <5>5. d \in Int /\ today - DaysBack <= d /\ d <= today
          BY <3>1, <5>2, <5>4, GenAssumption
        <5>6. QED
          BY <5>3, <5>5, RowAsks
      <4>3. QED
        BY <2>1, <2>2, <4>1, <4>2
    <3>3. QED
      BY <2>1, <3>2, AskedStays
  <2>5. QED
    BY <2>3, <2>4
<1>6. CASE LastDone \/ BreaksOff
  BY <1>0, <1>6 DEF LastDone, BreaksOff, InRound
<1>7. CASE NextDay
  BY <1>0, <1>7 DEF NextDay, InRound
<1>8. CASE Wait \/ UNCHANGED vars
  BY <1>0, <1>8 DEF Wait, vars, InRound, RowsIn, Row, Task, Listed
<1>9. QED
  BY <1>1, <1>2, <1>3, <1>4, <1>5, <1>6, <1>7, <1>8 DEF Next

LEMMA RoundsKept == Spec => []RoundInv
<1>1. Init => InRound /\ WeekHasItsDays
  BY DEF Init, InRound, WeekHasItsDays
<1>2. TypeOK /\ InRound /\ WeekHasItsDays <=> RoundInv
  BY DEF RoundInv
<1>3. QED
  BY <1>1, <1>2, StepRoundInv, TypeCorrect, PTL DEF Spec

\* A weekly task comes with daily tasks for each of its days: the generators
\* run in that order, and weeks are no longer than the window.
THEOREM WeeksHaveTheirDays == Spec => []WeekHasItsDays
<1>1. RoundInv => WeekHasItsDays
  BY DEF RoundInv
<1>2. QED
  BY <1>1, RoundsKept, PTL

-----------------------------------------------------------------------------
(* The days: each is asked for, or its rounds so far were missed.          *)

LEMMA RoundsFinite ==
  ASSUME NEW d, NEW e
  PROVE  IsFiniteSet(Rounds(d, e)) /\ Cardinality(Rounds(d, e)) \in Nat
<1>1. IsFiniteSet(Day)
  BY FS_Interval, GenAssumption DEF Day
<1>2. Rounds(d, e) \in SUBSET Day
  BY GenAssumption DEF Rounds
<1>3. IsFiniteSet(Rounds(d, e))
  BY <1>1, <1>2, FS_Subset
<1>4. QED
  BY <1>3, FS_CardinalityType

\* Before its own round a day has had none.
LEMMA NoRoundYet ==
  ASSUME NEW d \in Int, NEW e \in Int, e <= d
  PROVE  Cardinality(Rounds(d, e)) = 0
<1>1. \A f \in Trading : f \in Int
  BY GenAssumption DEF Day
<1>2. Rounds(d, e) = {}
  BY <1>1 DEF Rounds
<1>3. QED
  BY <1>2, FS_EmptySet

\* A trading day adds its round to those of the days before it.
LEMMA OneMoreRound ==
  ASSUME NEW d \in Int, NEW e \in Int, d <= e
  PROVE  Cardinality(Rounds(d, e + 1)) =
           Cardinality(Rounds(d, e)) + (IF e \in Trading THEN 1 ELSE 0)
<1>1. \A f \in Trading : f \in Int
  BY GenAssumption DEF Day
<1>2. CASE e \in Trading
  <2>1. Rounds(d, e + 1) = Rounds(d, e) \cup {e} /\ e \notin Rounds(d, e)
    <3>1. \A f \in Trading : f < e + 1 <=> f < e \/ f = e
      BY <1>1
    <3>2. \A f : f \in Rounds(d, e + 1) <=> f \in Rounds(d, e) \/ f = e
      BY <1>2, <3>1 DEF Rounds
    <3>3. e \notin Rounds(d, e)
      BY DEF Rounds
    <3>4. QED
      BY <3>2, <3>3
  <2>2. QED
    BY <1>2, <2>1, RoundsFinite, FS_AddElement
<1>3. CASE e \notin Trading
  <2>1. Rounds(d, e + 1) = Rounds(d, e)
    BY <1>1, <1>3 DEF Rounds
  <2>2. QED
    BY <1>3, <2>1, RoundsFinite
<1>4. QED
  BY <1>2, <1>3

Unasked(s, a, d) ==
  s \in Listed /\ since[s] <= d /\ d <= today /\ Meant(s, a) /\ ~Asked(s, a, d)

\* A day that is not asked for has seen no complete round.
DaysMissed ==
  RoundsFit =>
    \A s \in Stock, a \in Caliber, d \in Trading :
      Unasked(s, a, d) => ~done /\ Cardinality(Rounds(d, today)) <= missed

Clock ==
  /\ \A s \in Stock : since[s] <= today
  /\ step \in {"daily", "period"} => today \in Trading /\ due = {}
  /\ done => due = {} /\ step \in {"idle", "period"}

DayInv == RoundInv /\ Clock /\ DaysMissed

LEMMA StepClock == DayInv /\ RoundInv' /\ [Next]_vars => Clock'
<1> SUFFICES ASSUME DayInv, RoundInv', [Next]_vars PROVE Clock'
  OBVIOUS
<1> USE DEF DayInv, RoundInv, TypeOK, Clock, tables, history
<1>1. today \in Int /\ \A s \in Stock : since[s] \in Int
  BY GenAssumption DEF Day
<1>2. CASE RefreshStart \/ RefreshRaises \/ CalendarAnswers
  BY <1>2 DEF RefreshStart, RefreshRaises, CalendarAnswers
<1>3. CASE StocksAnswer
  BY <1>1, <1>3 DEF StocksAnswer
<1>4. CASE MinuteStart \/ DailyStart
  BY <1>4 DEF MinuteStart, DailyStart
<1>5. CASE DailyDone
  BY <1>5 DEF DailyDone
<1>6. CASE LastDone \/ BreaksOff \/ InsertBatch
  BY <1>6 DEF LastDone, BreaksOff, InsertBatch
<1>7. CASE NextDay
  BY <1>1, <1>7 DEF NextDay
<1>8. CASE Wait \/ UNCHANGED vars
  BY <1>8 DEF Wait, vars
<1>9. QED
  BY <1>2, <1>3, <1>4, <1>5, <1>6, <1>7, <1>8 DEF Next

LEMMA StepDaysMissed == DayInv /\ RoundInv' /\ [Next]_vars => DaysMissed'
<1> SUFFICES ASSUME DayInv, RoundInv', [Next]_vars, RoundsFit,
                    NEW s \in Stock, NEW a \in Caliber, NEW d \in Trading,
                    Unasked(s, a, d)'
             PROVE  ~done' /\ Cardinality(Rounds(d, today)') <= missed'
  BY DEF DaysMissed, RoundsFit
<1>0. /\ today \in Int /\ d \in Int /\ missed \in Nat /\ missed <= MaxMissed
      /\ since[s] \in Int /\ MaxMissed \in Nat
  BY GenAssumption DEF DayInv, RoundInv, TypeOK, Day
<1>1. ASSUME UNCHANGED <<today, since, history>>, tasks \subseteq tasks'
      PROVE  ~done' /\ Cardinality(Rounds(d, today)') <= missed'
  <2>1. Unasked(s, a, d)
    BY <1>1, AskedStays DEF Unasked, Listed, Meant
  <2>2. QED
    BY <1>1, <2>1 DEF DayInv, DaysMissed, history, Rounds
<1>2. CASE StocksAnswer
  <2>1. UNCHANGED <<today, tasks, done, missed>> /\ ~done
    BY <1>2 DEF StocksAnswer, history, DayInv, Clock
  <2>2. CASE s \in Listed
    <3>1. since'[s] = since[s]
      BY <1>2, <2>2 DEF StocksAnswer, Listed
    <3>2. Unasked(s, a, d)
      BY <2>1, <2>2, <3>1 DEF Unasked, Meant, Asked
    <3>3. QED
      BY <2>1, <3>2 DEF DayInv, DaysMissed, Rounds
  <2>3. CASE s \notin Listed
    <3>1. since'[s] = today
      BY <1>2, <2>3 DEF StocksAnswer, Listed, Unasked
    <3>2. Cardinality(Rounds(d, today)) = 0
      BY <1>0, <3>1, NoRoundYet DEF Unasked
    <3>3. QED
      BY <1>0, <2>1, <3>2 DEF Rounds
  <2>4. QED
    BY <2>2, <2>3
<1>3. CASE DailyDone
  <2>1. UNCHANGED <<today, since, tasks>> /\ step = "daily" /\ todo = {}
    BY <1>3 DEF DailyDone, tables
  <2>2. Unasked(s, a, d)
    BY <2>1 DEF Unasked, Listed, Meant, Asked
  <2>3. Row(s, a) \in tasks
    BY <2>1, <2>2 DEF DayInv, RoundInv, InRound, RowsIn, Unasked
  <2>4. Cardinality(Rounds(d, today)) <= MaxMissed
    BY <1>0, <2>2, RoundsFinite DEF DayInv, DaysMissed
  <2>5. today \in Trading /\ d <= today
    BY <2>1, <2>2 DEF DayInv, Clock, Unasked
  <2>6. today - DaysBack <= d
    BY <1>0, <2>4, <2>5, GenAssumption DEF RoundsFit
  <2>7. Asked(s, a, d)
    BY <1>0, <2>3, <2>5, <2>6, RowAsks
  <2>8. QED
    BY <2>2, <2>7 DEF Unasked
<1>4. CASE NextDay
  <2>1. /\ today' = today + 1 /\ ~done' /\ UNCHANGED <<since, tasks>>
        /\ missed' = IF today \in Trading /\ ~done THEN missed + 1 ELSE missed
    BY <1>4 DEF NextDay, tables
  <2>2. CASE d <= today
    <3>1. Unasked(s, a, d)
      BY <2>1, <2>2 DEF Unasked, Listed, Meant, Asked
    <3>2. ~done /\ Cardinality(Rounds(d, today)) <= missed
      BY <3>1 DEF DayInv, DaysMissed
    <3>3. Cardinality(Rounds(d, today + 1)) =
            Cardinality(Rounds(d, today)) + (IF today \in Trading THEN 1 ELSE 0)
      BY <1>0, <2>2, OneMoreRound
    <3>4. Cardinality(Rounds(d, today + 1)) <= missed'
      BY <1>0, <2>1, <3>2, <3>3, RoundsFinite
    <3>5. QED
      BY <2>1, <3>4 DEF Rounds
  <2>3. CASE ~(d <= today)
    <3>1. Cardinality(Rounds(d, today + 1)) = 0
      BY <1>0, <2>3, NoRoundYet
    <3>2. missed' \in Nat
      BY <1>0, <2>1
    <3>3. QED
      BY <2>1, <3>1, <3>2 DEF Rounds
  <2>4. QED
    BY <2>2, <2>3
<1>5. CASE RefreshStart \/ RefreshRaises \/ CalendarAnswers \/ MinuteStart \/ DailyStart
  BY <1>1, <1>5 DEF RefreshStart, RefreshRaises, CalendarAnswers, MinuteStart,
                    DailyStart, tables
<1>6. CASE InsertBatch \/ LastDone \/ BreaksOff
  BY <1>1, <1>6 DEF InsertBatch, LastDone, BreaksOff, tables
<1>7. CASE Wait \/ UNCHANGED vars
  BY <1>1, <1>7 DEF Wait, vars, history
<1>8. QED
  BY <1>2, <1>3, <1>4, <1>5, <1>6, <1>7 DEF Next

\* Whatever rounds are missed or broken off, a day is asked for by the time
\* one more round than may be missed has had its chance.
THEOREM NoDayIsLost == Spec => []NoDayLost
<1>1. Init => Clock /\ DaysMissed
  BY GenAssumption DEF Init, Clock, DaysMissed, Unasked, Listed
<1>2. Spec => []DayInv
  <2>1. RoundInv /\ Clock /\ DaysMissed <=> DayInv
    BY DEF DayInv
  <2>2. QED
    BY <1>1, <2>1, RoundsKept, StepClock, StepDaysMissed, PTL DEF Spec
<1>3. DayInv => NoDayLost
  <2> SUFFICES ASSUME DayInv, RoundsFit, NEW s \in Listed, NEW d \in Trading,
                      since[s] <= d, Cardinality(Rounds(d, today)) > MaxMissed,
                      NEW a \in Caliber, s \notin Dormant \/ a = "bare"
               PROVE  Asked(s, a, d)
    BY DEF NoDayLost
  <2>1. today \in Int /\ d \in Int /\ MaxMissed \in Nat /\ missed \in 0..MaxMissed
    BY GenAssumption DEF DayInv, RoundInv, TypeOK, Day
  <2>2. d <= today
    BY <2>1, NoRoundYet
  <2>3. ~(Cardinality(Rounds(d, today)) <= missed)
    BY <2>1, RoundsFinite
  <2>4. QED
    BY <2>2, <2>3 DEF DayInv, DaysMissed, Unasked, Meant, Listed
<1>4. QED
  BY <1>2, <1>3, PTL

-----------------------------------------------------------------------------
(* The segments of a backfill. The loop is a recursive function: first that *)
(* there is one with its equation, then by the days that remain what it     *)
(* covers. Both inductions are over the least day that would be wrong.      *)

\* The days a segment may begin on, and the segments from one of them on.
Starts(years) == 0..(4 * LastYear + 4 * years + 3)

SegmentFrom(s, last, years) == <<s, Min({DayBefore(YearsLater(s, years)), last})>>

SegmentsAfter(g, s, last, years) ==
  IF s > last THEN {}
  ELSE {SegmentFrom(s, last, years)} \cup g[YearsLater(s, years)]

Walk(last, years) ==
  CHOOSE g : g = [s \in Starts(years) |-> SegmentsAfter(g, s, last, years)]

LEMMA SegmentsAreWalk ==
  ASSUME NEW first, NEW last, NEW years \in Nat \ {0}
  PROVE  Segments(first, last, years) = Walk(last, years)[first]
BY DEF Segments, Walk, SegmentsAfter, SegmentFrom, Starts

LEMMA LeastOf ==
  ASSUME NEW T \in SUBSET Nat, T # {}
  PROVE  \E x \in T : \A y \in T : x <= y
<1>1. PICK x \in T : \A y \in T : ~ (<<y, x>> \in OpToRel(<, Nat))
  BY NatLessThanWellFounded, WFMin
<1>2. \A y \in T : ~ (y < x)
  BY <1>1 DEF OpToRel
<1> QED BY <1>2

LEMMA DatesAreDays == Date \subseteq Nat
BY DateAssumption DEF Date

\* Adding years leads to a later date, or past the last year.
LEMMA LaterIsLater ==
  ASSUME NEW last \in Date, NEW years \in Nat \ {0}, NEW s \in 0..last
  PROVE  /\ YearsLater(s, years) \in Starts(years)
         /\ s < YearsLater(s, years)
         /\ s \in Date => \/ YearsLater(s, years) \in Date
                          \/ YearsLater(s, years) > last
<1>1. /\ s \in Nat /\ last \in Nat /\ s <= 4 * LastYear + 3 /\ last <= 4 * LastYear + 3
      /\ LastYear \in Nat
  BY DatesAreDays, DateAssumption DEF Date
<1>2. PICK y \in Nat, r \in 0..3 : /\ s = 4 * y + r
                                   /\ YearOf(s) = y /\ SlotOf(s) = r
  <2>1. (s \div 4) \in Nat /\ (s % 4) \in 0..3 /\ s = 4 * (s \div 4) + (s % 4)
    BY <1>1
  <2> QED BY <2>1 DEF YearOf, SlotOf
<1>3. CASE r = 2 /\ y + years \notin LeapYears
  <2>1. YearsLater(s, years) = 4 * (y + years) + 3
    BY <1>2, <1>3 DEF YearsLater, Feb29, Mar1
  <2>2. YearsLater(s, years) % 4 = 3
    BY <2>1, <1>1, <1>2
  <2>3. s < YearsLater(s, years) /\ YearsLater(s, years) \in Starts(years)
    BY <2>1, <1>1, <1>2, <1>3 DEF Starts
  <2>4. YearsLater(s, years) <= 4 * LastYear + 3 => YearsLater(s, years) \in Date
    BY <2>2, <2>3 DEF Date, Starts, SlotOf, Feb29
  <2> QED BY <2>3, <2>4, <1>1 DEF Starts
<1>4. CASE ~ (r = 2 /\ y + years \notin LeapYears)
  <2>1. YearsLater(s, years) = s + 4 * years
    BY <1>2, <1>4 DEF YearsLater, Feb29
  <2>2. s + 4 * years = 4 * (y + years) + r
    BY <1>2
  <2>3. YearOf(YearsLater(s, years)) = y + years /\ SlotOf(YearsLater(s, years)) = r
    BY <2>1, <2>2, <1>2 DEF YearOf, SlotOf
  <2>4. s < YearsLater(s, years) /\ YearsLater(s, years) \in Starts(years)
    BY <2>1, <1>1 DEF Starts
  <2>5. YearsLater(s, years) <= 4 * LastYear + 3 => YearsLater(s, years) \in Date
    BY <2>3, <2>4, <1>4 DEF Date, Starts, Feb29
  <2> QED BY <2>4, <2>5, <1>1 DEF Starts
<1> QED BY <1>3, <1>4

\* The loop is well defined: there is a function with its equation. A function
\* that has it from some day on is extended to the day before.
LEMMA WalkExists ==
  ASSUME NEW last \in Date, NEW years \in Nat \ {0}
  PROVE  \E g : g = [s \in Starts(years) |-> SegmentsAfter(g, s, last, years)]
<1> DEFINE H == 4 * LastYear + 4 * years + 3
           From(g, k) == \A s \in Starts(years) :
             s >= H - k => g[s] = SegmentsAfter(g, s, last, years)
           T == {k \in Nat : ~ \E g : From(g, k)}
<1>1. H \in Nat /\ Starts(years) = 0..H /\ last \in Nat /\ last < H
  BY DateAssumption DEF Starts, Date
<1>2. T = {}
  <2> SUFFICES ASSUME T # {} PROVE FALSE
    OBVIOUS
  <2>1. PICK k \in T : \A y \in T : k <= y
    BY LeastOf
  <2>2. PICK g : \A s \in Starts(years) : s > H - k => g[s] = SegmentsAfter(g, s, last, years)
    <3>1. CASE k = 0
      BY <3>1, <1>1
    <3>2. CASE k # 0
      <4>1. k - 1 \in Nat /\ k - 1 \notin T
        BY <2>1, <3>2
      <4>2. PICK g : From(g, k - 1)
        BY <4>1
      <4>3. \A s \in Starts(years) : s > H - k => s >= H - (k - 1)
        BY <1>1, <4>1
      <4> QED BY <4>2, <4>3
    <3> QED BY <3>1, <3>2
  <2> DEFINE h == [s \in Starts(years) |->
                     IF s = H - k THEN SegmentsAfter(g, s, last, years) ELSE g[s]]
  <2>3. ASSUME NEW s \in Starts(years), s >= H - k
        PROVE  h[s] = SegmentsAfter(h, s, last, years)
    <3>1. SegmentsAfter(h, s, last, years) = SegmentsAfter(g, s, last, years)
      <4>1. CASE s > last
        BY <4>1 DEF SegmentsAfter
      <4>2. CASE ~ (s > last)
        <5>1. s \in 0..last
          BY <4>2, <1>1
        <5>2. YearsLater(s, years) \in Starts(years) /\ s < YearsLater(s, years)
          BY <5>1, LaterIsLater
        <5>3. YearsLater(s, years) # H - k
          BY <5>2, <2>3, <1>1
        <5>4. h[YearsLater(s, years)] = g[YearsLater(s, years)]
          BY <5>2, <5>3
        <5> QED BY <5>4 DEF SegmentsAfter
      <4> QED BY <4>1, <4>2
    <3>2. h[s] = SegmentsAfter(g, s, last, years)
      BY <2>2, <2>3, <1>1
    <3> QED BY <3>1, <3>2
  <2>4. From(h, k)
    BY <2>3
  <2> QED BY <2>1, <2>4
<1>3. PICK g : \A s \in Starts(years) : g[s] = SegmentsAfter(g, s, last, years)
  <2>1. PICK g : From(g, H)
    BY <1>1, <1>2
  <2>2. \A s \in Starts(years) : s >= H - H
    BY <1>1
  <2> QED BY <2>1, <2>2
<1> DEFINE f == [s \in Starts(years) |-> g[s]]
<1>4. ASSUME NEW s \in Starts(years)
      PROVE  g[s] = SegmentsAfter(f, s, last, years)
  <2>1. CASE s > last
    BY <2>1, <1>3 DEF SegmentsAfter
  <2>2. CASE ~ (s > last)
    <3>1. YearsLater(s, years) \in Starts(years)
      BY <2>2, <1>1, LaterIsLater
    <3>2. f[YearsLater(s, years)] = g[YearsLater(s, years)]
      BY <3>1
    <3> QED BY <3>2, <1>3 DEF SegmentsAfter
  <2> QED BY <2>1, <2>2
<1>5. f = [s \in Starts(years) |-> SegmentsAfter(f, s, last, years)]
  BY <1>4
<1> QED BY <1>5

LEMMA WalkStep ==
  ASSUME NEW last \in Date, NEW years \in Nat \ {0}, NEW s \in Starts(years)
  PROVE  Walk(last, years)[s] = SegmentsAfter(Walk(last, years), s, last, years)
<1> DEFINE W == Walk(last, years)
<1>1. W = [t \in Starts(years) |-> SegmentsAfter(W, t, last, years)]
  BY WalkExists DEF Walk
<1> HIDE DEF W
<1>2. W[s] = SegmentsAfter(W, s, last, years)
  BY <1>1
<1> QED BY <1>2 DEF W

\* Of the segments from a start on, those that hold a day.
Holding(last, years, s, d) ==
  {g \in Walk(last, years)[s] : g[1] <= d /\ d <= g[2]}

\* One loop step: the segment holds the dates up to the next start.
LEMMA OneMore ==
  ASSUME NEW last \in Date, NEW years \in Nat \ {0}
  PROVE  \A s, d \in Date : s <= last =>
           Holding(last, years, s, d)
             = (IF s <= d /\ d <= last /\ d < YearsLater(s, years)
                THEN {SegmentFrom(s, last, years)} ELSE {})
               \cup Holding(last, years, YearsLater(s, years), d)
<1> TAKE s, d \in Date
<1> HAVE s <= last
<1> DEFINE next == YearsLater(s, years)
           e == Min({DayBefore(next), last})
           g == <<s, e>>
<1>1. /\ d \in Nat /\ last \in Nat /\ s \in Nat /\ s <= last
      /\ next \in Starts(years) /\ next \in Nat /\ s \in Starts(years) /\ s < next
  <2>1. d \in Nat /\ last \in Nat /\ s \in Nat /\ s \in 0..last
    BY DatesAreDays
  <2> QED BY <2>1, LaterIsLater, DateAssumption DEF Starts, Date
<1> HIDE DEF next
<1>2. DayBefore(next) \in Int /\ (d <= DayBefore(next) <=> d < next)
  <2>1. CASE next - 1 \in Date
    BY <2>1, <1>1 DEF DayBefore
  <2>2. CASE next - 1 \notin Date
    <3>1. DayBefore(next) = next - 2 /\ d # next - 1
      BY <2>2 DEF DayBefore
    <3> QED BY <3>1, <1>1
  <2> QED BY <2>1, <2>2
<1>3. e \in Int /\ (d <= e <=> d < next /\ d <= last)
  <2>1. e = IF DayBefore(next) <= last THEN DayBefore(next) ELSE last
    <3>1. \A a, b \in Int : Min({a, b}) = IF a <= b THEN a ELSE b
      BY DEF Min
    <3> QED BY <3>1, <1>1, <1>2
  <2> QED BY <2>1, <1>1, <1>2
<1> HIDE DEF e
<1>4. Walk(last, years)[s] = {g} \cup Walk(last, years)[next]
  <2>1. ~ (s > last)
    BY <1>1
  <2>2. Walk(last, years)[s] = SegmentsAfter(Walk(last, years), s, last, years)
    BY <1>1, WalkStep
  <2>3. SegmentsAfter(Walk(last, years), s, last, years)
          = {g} \cup Walk(last, years)[next]
    BY <2>1 DEF SegmentsAfter, SegmentFrom, next, e
  <2> QED BY <2>2, <2>3
<1>5. Holding(last, years, s, d)
        = {h \in {g} : h[1] <= d /\ d <= h[2]} \cup Holding(last, years, next, d)
  BY <1>4 DEF Holding
<1>6. {h \in {g} : h[1] <= d /\ d <= h[2]}
        = IF s <= d /\ d <= last /\ d < next THEN {g} ELSE {}
  BY <1>3
<1>7. g = SegmentFrom(s, last, years)
  BY DEF SegmentFrom, next, e
<1> HIDE DEF g
<1> QED BY <1>5, <1>6, <1>7 DEF next

\* From each start on, the rest of the range is covered once.
LEMMA RestIsCovered ==
  ASSUME NEW last \in Date, NEW years \in Nat \ {0}
  PROVE  \A s \in Starts(years), d \in Date :
           s \in Date \/ s > last =>
             IF s <= d /\ d <= last
             THEN \E g : Holding(last, years, s, d) = {g}
             ELSE Holding(last, years, s, d) = {}
<1> DEFINE H == 4 * LastYear + 4 * years + 3
           Covered(s) == \A d \in Date :
             s \in Date \/ s > last =>
               IF s <= d /\ d <= last
               THEN \E g : Holding(last, years, s, d) = {g}
               ELSE Holding(last, years, s, d) = {}
           T == {k \in 0..H : ~ Covered(H - k)}
<1>1. H \in Nat /\ Starts(years) = 0..H /\ last \in Nat /\ last < H
  BY DateAssumption DEF Starts, Date
<1> HIDE DEF H, Covered
<1>2. T = {}
  <2> SUFFICES ASSUME T # {} PROVE FALSE
    OBVIOUS
  <2>1. PICK k \in T : \A y \in T : k <= y
    <3>1. T \in SUBSET Nat
      BY <1>1
    <3> QED BY <3>1, LeastOf
  <2> DEFINE s == H - k
  <2>2. s \in Starts(years) /\ \A t \in Starts(years) : t > s => Covered(t)
    <3>1. k \in 0..H
      OBVIOUS
    <3>2. ASSUME NEW t \in Starts(years), t > s PROVE Covered(t)
      <4>1. H - t \in 0..H /\ H - t < k /\ H - (H - t) = t
        BY <3>1, <3>2, <1>1
      <4>2. H - t \notin T
        BY <4>1, <2>1
      <4> QED BY <4>1, <4>2
    <3> QED BY <3>1, <3>2, <1>1
  <2> HIDE DEF s
  <2>3. Covered(s)
    <3> SUFFICES ASSUME NEW d \in Date, s \in Date \/ s > last
                 PROVE  IF s <= d /\ d <= last
                        THEN \E g : Holding(last, years, s, d) = {g}
                        ELSE Holding(last, years, s, d) = {}
      BY DEF Covered
    <3>1. d \in Nat /\ s \in Nat
      BY <2>2, <1>1, DatesAreDays
    <3>2. CASE s > last
      <4>1. Walk(last, years)[s] = {}
        BY <2>2, <3>2, WalkStep DEF SegmentsAfter
      <4>2. Holding(last, years, s, d) = {} /\ ~ (s <= d /\ d <= last)
        BY <4>1, <3>1, <3>2, <1>1 DEF Holding
      <4> QED BY <4>2
    <3>3. CASE ~ (s > last)
      <4> DEFINE next == YearsLater(s, years)
      <4>1. s \in Date /\ s \in 0..last /\ s <= last
        BY <3>1, <3>3, <1>1
      <4>2. /\ next \in Starts(years) /\ next \in Nat /\ s < next
            /\ next \in Date \/ next > last
        BY <4>1, LaterIsLater, <1>1
      <4> DEFINE g == SegmentFrom(s, last, years)
      <4>3. Holding(last, years, s, d)
              = (IF s <= d /\ d <= last /\ d < next THEN {g} ELSE {})
                \cup Holding(last, years, next, d)
        BY <4>1, OneMore
      <4> HIDE DEF next, g
      <4>4. IF next <= d /\ d <= last
            THEN \E h : Holding(last, years, next, d) = {h}
            ELSE Holding(last, years, next, d) = {}
        BY <4>2, <2>2 DEF Covered
      <4>5. CASE next <= d /\ d <= last
        <5>1. s <= d /\ d <= last /\ ~ (d < next)
          BY <4>5, <4>2, <3>1
        <5>2. Holding(last, years, s, d) = Holding(last, years, next, d)
          BY <4>3, <5>1
        <5> QED BY <4>4, <4>5, <5>1, <5>2
      <4>6. CASE ~ (next <= d /\ d <= last)
        <5>1. Holding(last, years, next, d) = {}
          BY <4>4, <4>6
        <5>2. (s <= d /\ d <= last /\ d < next) <=> (s <= d /\ d <= last)
          BY <4>6, <4>2, <3>1, <1>1
        <5> QED BY <4>3, <5>1, <5>2
      <4> QED BY <4>5, <4>6
    <3> QED BY <3>2, <3>3
  <2> QED BY <2>1, <2>3 DEF s
<1>3. ASSUME NEW s \in Starts(years) PROVE Covered(s)
  <2>1. H - s \in 0..H /\ H - (H - s) = s
    BY <1>1
  <2>2. H - s \notin T
    BY <1>2
  <2> QED BY <2>1, <2>2
<1> QED BY <1>3 DEF Covered

\* Every day of a range lies in exactly one of the segments it is cut into, and
\* no other day in any (_date_chunks), whatever the length of the segments.
THEOREM RangesAreCut ==
  ASSUME NEW first \in Date, NEW last \in Date, NEW years \in Int, first <= last
  PROVE  EachDayOnce(first, last, years)
<1> SUFFICES ASSUME NEW d \in Date
             PROVE  Cardinality({g \in Segments(first, last, years) : g[1] <= d /\ d <= g[2]})
                      = IF first <= d /\ d <= last THEN 1 ELSE 0
  BY DEF EachDayOnce
<1> DEFINE S == {g \in Segments(first, last, years) : g[1] <= d /\ d <= g[2]}
<1>1. IF first <= d /\ d <= last THEN \E g : S = {g} ELSE S = {}
  <2>1. CASE years <= 0
    <3>1. Segments(first, last, years) = {<<first, last>>}
      BY <2>1 DEF Segments
    <3>2. S = IF first <= d /\ d <= last THEN {<<first, last>>} ELSE {}
      BY <3>1
    <3> QED BY <3>2
  <2>2. CASE ~ (years <= 0)
    <3>1. years \in Nat \ {0} /\ first \in Starts(years)
      BY <2>2, DatesAreDays, DateAssumption DEF Date, Starts
    <3>2. S = Holding(last, years, first, d)
      BY <3>1, SegmentsAreWalk DEF Holding
    <3> QED BY <3>1, <3>2, RestIsCovered
  <2> QED BY <2>1, <2>2
<1> QED BY <1>1, FS_Singleton, FS_EmptySet

\* The segments of a backfill cover every day of its range exactly once and no
\* other day (docstring of _date_chunks), leap days included.
THEOREM BackfillIsCut == Spec => []SegmentsPartition
<1>1. SegmentsPartition
  BY RangesAreCut DEF SegmentsPartition, RangesCut
<1> QED BY <1>1, PTL
=============================================================================
