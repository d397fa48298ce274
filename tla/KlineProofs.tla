----------------------------- MODULE KlineProofs -----------------------------
(***************************************************************************)
(* What a SUCCESS says about the daily and weekly bars, for every calendar *)
(* and every window. The argument rests on two facts about rows in hand: a *)
(* task is only made when its day has come, so the source has the bars of  *)
(* all the days before it, and an answer holds all of them that its window *)
(* reaches back to. A weekly bar only holds days of its week up to its     *)
(* date, so what is stored over it holds at least what daily_kline has. On *)
(* a punctual process the statistics see the first healed row, and the     *)
(* adjusted prices are asked for again.                                    *)
(***************************************************************************)
EXTENDS Kline, FiniteSetTheorems, WellFoundedInduction, TLAPS

\* The source has what is over; a task's day has come.
PublishedPast == \A f \in traded : f < today => f \in published
TasksPast == \A d \in Day, a \in Adjust : dtask[d][a] # "none" => d <= today

\* An answer has what its task's window reaches back to.
AnswerReaches ==
  \A e \in Day, a \in Adjust : answer[e][a] # {} =>
    /\ dtask[e][a] = "todo"
    /\ \A d \in traded \cap Window(e) : d < e => d \in answer[e][a]

WeekBarsDated == \A x \in Day : weekly[x] \subseteq WeekUpTo(x)

IInv == TypeOK /\ PublishedPast /\ TasksPast /\ AnswerReaches /\ WeekBarsDated

-----------------------------------------------------------------------------
(* The newest of some days.                                                *)

LEMMA LeastNat ==
  ASSUME NEW T \in SUBSET Nat, T # {}
  PROVE  \E x \in T : \A y \in T : x <= y
<1>1. PICK x \in T : \A y \in T : ~ (<<y, x>> \in OpToRel(<, Nat))
  BY NatLessThanWellFounded, WFMin
<1>2. \A y \in T : ~ (y < x)
  BY <1>1 DEF OpToRel
<1> QED BY <1>2

LEMMA MaxDay ==
  ASSUME NEW S \in SUBSET Day, S # {}
  PROVE  Max(S) \in S /\ \A y \in S : y <= Max(S)
<1> USE CalendarAssumption DEF Day
<1> DEFINE T == {m \in Nat : LastDay - m \in S}
<1>1. T # {}
  <2>1. PICK x \in S : TRUE
    OBVIOUS
  <2>2. LastDay - x \in Nat /\ LastDay - (LastDay - x) = x
    OBVIOUS
  <2> QED BY <2>1, <2>2
<1>2. PICK t \in T : \A y \in T : t <= y
  BY <1>1, LeastNat
<1>3. LastDay - t \in S /\ t \in Nat
  BY <1>2
<1>4. ASSUME NEW y \in S PROVE y <= LastDay - t
  <2>1. y \in Int /\ LastDay - y \in Nat /\ LastDay - (LastDay - y) = y
    OBVIOUS
  <2>2. t <= LastDay - y
    BY <1>2, <2>1
  <2> QED BY <1>3, <2>1, <2>2
<1>5. \E x \in S : \A y \in S : x >= y
  BY <1>3, <1>4
<1> QED BY <1>5 DEF Max

LEMMA LatestDay ==
  ASSUME NEW S \in SUBSET Day
  PROVE  /\ Latest(S) \in Day \cup {0}
         /\ Latest(S) \in Day => Latest(S) \in S /\ \A y \in S : y <= Latest(S)
<1>1. CASE S = {}
  BY <1>1, CalendarAssumption DEF Latest, Day
<1>2. CASE S # {}
  BY <1>2, MaxDay DEF Latest
<1> QED BY <1>1, <1>2

-----------------------------------------------------------------------------
(* The steps, grouped by what they change.                                 *)

\* The tables of daily and weekly bars, the answers in hand and the world are
\* left alone, and a task is at most made for today.
Quiet ==
  /\ UNCHANGED <<today, traded, published, answer, daily, weekly>>
  /\ minute' \in SUBSET {d \in traded : d <= today}
  /\ statsMax' \in Day \cup {0}
  /\ wtask' \in [Day -> TaskState] /\ mtask' \in [Day -> TaskState]
  /\ dtask' \in [Day -> [Adjust -> TaskState]]
  /\ \A d \in Day, a \in Adjust :
       \/ dtask'[d][a] = dtask[d][a]
       \/ d = today /\ dtask'[d][a] = "todo"

LEMMA QuietKeeps ==
  ASSUME IInv, Quiet
  PROVE  IInv'
<1> USE DEF IInv
<1>1. TypeOK'
  BY DEF Quiet, TypeOK
<1>2. PublishedPast' /\ WeekBarsDated'
  BY DEF Quiet, PublishedPast, WeekBarsDated, WeekUpTo
<1>3. TasksPast'
  BY CalendarAssumption DEF Quiet, TasksPast, TypeOK, Day
<1>4. AnswerReaches'
  BY DEF Quiet, AnswerReaches, TypeOK, Window
<1> QED BY <1>1, <1>2, <1>3, <1>4

LEMMA GenerateDailyQuiet == TypeOK /\ GenerateDaily => Quiet
<1> SUFFICES ASSUME TypeOK, GenerateDaily PROVE Quiet
  OBVIOUS
<1>1. wtask' \in [Day -> TaskState]
  BY DEF TypeOK, GenerateDaily, TaskState
<1>2. /\ dtask' \in [Day -> [Adjust -> TaskState]]
      /\ \A d \in Day, a \in Adjust :
           \/ dtask'[d][a] = dtask[d][a]
           \/ d = today /\ dtask'[d][a] = "todo"
  BY DEF TypeOK, GenerateDaily, TaskState
<1> QED BY <1>1, <1>2 DEF TypeOK, GenerateDaily, Quiet, world, store

LEMMA OtherQuiet ==
  ASSUME TypeOK,
         \/ GenerateMinute \/ RefreshStats
         \/ \E d \in Day : WeeklyEmpty(d) \/ MinuteWrites(d) \/ MinuteEmpty(d)
  PROVE  Quiet
<1>1. CASE GenerateMinute
  BY <1>1 DEF TypeOK, TaskState, Quiet, GenerateMinute, world, store
<1>2. CASE RefreshStats
  <2>1. Rows \in SUBSET Day
    BY CalendarAssumption DEF Rows, TypeOK
  <2>2. statsMax' \in Day \cup {0}
    BY <1>2, <2>1, LatestDay DEF RefreshStats
  <2> QED BY <1>2, <2>2 DEF TypeOK, TaskState, Quiet, RefreshStats, world, store, tasks
<1>3. ASSUME NEW d \in Day, WeeklyEmpty(d) PROVE Quiet
  BY <1>3 DEF TypeOK, TaskState, Quiet, WeeklyEmpty, world, store
<1>4. ASSUME NEW d \in Day, MinuteWrites(d) PROVE Quiet
  <2>1. MinuteRows \in SUBSET {f \in traded : f <= today}
    BY DEF MinuteRows
  <2>2. minute' \in SUBSET {f \in traded : f <= today}
    BY <1>4, <2>1 DEF MinuteWrites, MinuteAnswers, TypeOK
  <2> QED BY <1>4, <2>2 DEF TypeOK, TaskState, Quiet, MinuteWrites, world
<1>5. ASSUME NEW d \in Day, MinuteEmpty(d) PROVE Quiet
  BY <1>5 DEF TypeOK, TaskState, Quiet, MinuteEmpty, world, store
<1> QED BY <1>1, <1>2, <1>3, <1>4, <1>5

LEMMA WorldKeeps ==
  ASSUME IInv, Publish \/ NextDay
  PROVE  IInv'
<1> USE CalendarAssumption DEF IInv
<1>1. CASE Publish
  <2>1. published' \in SUBSET {d \in traded : d <= today} /\ published \subseteq published'
    BY <1>1 DEF Publish, TypeOK, Day
  <2>2. TypeOK'
    BY <1>1, <2>1 DEF Publish, TypeOK, store, tasks
  <2>3. PublishedPast' /\ TasksPast' /\ WeekBarsDated' /\ AnswerReaches'
    BY <1>1, <2>1 DEF Publish, PublishedPast, TasksPast, WeekBarsDated, WeekUpTo,
                      AnswerReaches, Window, store, tasks
  <2> QED BY <2>2, <2>3
<1>2. CASE NextDay
  <2>1. today' \in Day /\ today' = today + 1 /\ today \in Int
    BY <1>2 DEF NextDay, TypeOK, Day
  <2>2. {d \in traded : d <= today} \subseteq {d \in traded : d <= today'}
    <3> SUFFICES ASSUME NEW d \in traded, d <= today PROVE d <= today'
      OBVIOUS
    <3>1. d \in Int
      BY DEF TypeOK, Day
    <3> QED BY <2>1, <3>1
  <2>3. TypeOK'
    BY <1>2, <2>1, <2>2 DEF NextDay, TypeOK, store, tasks
  <2>4. PublishedPast'
    <3> SUFFICES ASSUME NEW f \in traded, f < today' PROVE f \in published
      BY <1>2 DEF NextDay, PublishedPast
    <3>1. f \in Int
      BY DEF TypeOK, Day
    <3>2. CASE f = today
      BY <1>2, <3>2 DEF NextDay
    <3>3. CASE f < today
      BY <3>3 DEF PublishedPast
    <3> QED BY <2>1, <3>1, <3>2, <3>3
  <2>5. TasksPast'
    <3> SUFFICES ASSUME NEW d \in Day, NEW a \in Adjust, dtask[d][a] # "none"
                 PROVE  d <= today + 1
      BY <1>2 DEF NextDay, TasksPast, tasks
    <3>1. d <= today /\ d \in Int
      BY DEF TasksPast, Day
    <3> QED BY <2>1, <3>1
  <2>6. WeekBarsDated' /\ AnswerReaches'
    BY <1>2 DEF NextDay, WeekBarsDated, WeekUpTo, AnswerReaches, Window, store, tasks
  <2> QED BY <2>3, <2>4, <2>5, <2>6
<1> QED BY <1>1, <1>2

\* What the source has when a task of e is executed.
LEMMA PastIsPublished ==
  ASSUME IInv, NEW e \in Day, NEW a \in Adjust, dtask[e][a] = "todo",
         NEW d \in traded, d < e
  PROVE  d \in published
<1>1. e <= today /\ today \in Int /\ d \in Int /\ e \in Int
  BY CalendarAssumption DEF IInv, TasksPast, TypeOK, Day
<1> QED BY <1>1 DEF IInv, PublishedPast

LEMMA DailyKeeps ==
  ASSUME IInv, NEW d \in Day, NEW a \in Adjust,
         DailyFetch(d, a) \/ DailyWrites(d, a) \/ DailyBreaksOff(d, a) \/ DailyEmpty(d, a)
  PROVE  IInv'
<1> USE DEF IInv
<1>1. UNCHANGED <<today, traded, published, weekly>>
  BY DEF DailyFetch, DailyWrites, DailyBreaksOff, DailyEmpty, world, store, tasks
<1>2. answer' \in [Day -> [Adjust -> SUBSET published]]
  <2>1. CASE DailyFetch(d, a)
    BY <2>1 DEF DailyFetch, TypeOK
  <2>2. CASE DailyWrites(d, a) \/ DailyBreaksOff(d, a)
    <3>1. answer' = [answer EXCEPT ![d][a] = {}] /\ published' = published
      BY <2>2 DEF DailyWrites, DailyBreaksOff
    <3>2. answer \in [Day -> [Adjust -> SUBSET published]]
      BY DEF TypeOK
    <3>3. {} \in SUBSET published
      OBVIOUS
    <3>4. [answer[d] EXCEPT ![a] = {}] \in [Adjust -> SUBSET published]
      BY <3>2, <3>3
    <3> QED BY <3>1, <3>2, <3>4
  <2>3. CASE DailyEmpty(d, a)
    BY <2>3 DEF DailyEmpty, world, TypeOK
  <2> QED BY <2>1, <2>2, <2>3
<1>3. daily' \in [Adjust -> SUBSET published]
  BY DEF DailyFetch, DailyWrites, DailyBreaksOff, DailyEmpty, store, TypeOK
<1>4. dtask' \in [Day -> [Adjust -> TaskState]]
  BY DEF DailyFetch, DailyWrites, DailyBreaksOff, DailyEmpty, tasks, TypeOK, TaskState
<1>5. UNCHANGED <<minute, statsMax, wtask, mtask>>
  BY DEF DailyFetch, DailyWrites, DailyBreaksOff, DailyEmpty, store, tasks
<1>6. TypeOK'
  BY <1>1, <1>2, <1>3, <1>4, <1>5 DEF TypeOK
<1>7. PublishedPast' /\ WeekBarsDated'
  BY <1>1 DEF PublishedPast, WeekBarsDated, WeekUpTo
<1>8. TasksPast'
  <2>1. \A e \in Day, b \in Adjust : dtask'[e][b] # "none" => dtask[e][b] # "none"
    <3>1. dtask' # dtask => dtask[d][a] = "todo"
      BY DEF DailyFetch, DailyWrites, DailyBreaksOff, DailyEmpty, tasks, AnswerReaches
    <3>2. dtask' \in {dtask, [dtask EXCEPT ![d][a] = "done"]}
      BY DEF DailyFetch, DailyWrites, DailyBreaksOff, DailyEmpty, tasks
    <3>3. dtask \in [Day -> [Adjust -> TaskState]]
      BY DEF TypeOK
    <3>4. CASE dtask' = [dtask EXCEPT ![d][a] = "done"] /\ dtask[d][a] = "todo"
      BY <3>3, <3>4
    <3> QED BY <3>1, <3>2, <3>4
  <2> QED BY <1>1, <2>1 DEF TasksPast
<1>9. AnswerReaches'
  <2> SUFFICES ASSUME NEW e \in Day, NEW b \in Adjust, answer'[e][b] # {}
               PROVE  /\ dtask'[e][b] = "todo"
                      /\ \A f \in traded \cap Window(e) : f < e => f \in answer'[e][b]
    BY <1>1 DEF AnswerReaches, Window
  <2>1. CASE answer'[e][b] = answer[e][b]
    <3>1. dtask'[e][b] = dtask[e][b]
      BY <2>1 DEF DailyFetch, DailyWrites, DailyBreaksOff, DailyEmpty, tasks, TypeOK
    <3> QED BY <2>1, <3>1 DEF AnswerReaches
  <2>2. CASE answer'[e][b] # answer[e][b]
    <3>1. /\ DailyFetch(d, a) /\ e = d /\ b = a
          /\ answer'[e][b] = published \cap Window(e)
      BY <2>2 DEF DailyFetch, DailyWrites, DailyBreaksOff, DailyEmpty, world, TypeOK
    <3>2. dtask[e][b] = "todo" /\ dtask' = dtask
      BY <3>1 DEF DailyFetch, tasks
    <3>3. \A f \in traded : f < e => f \in published
      BY <3>2, PastIsPublished
    <3> QED BY <3>1, <3>2, <3>3
  <2> QED BY <2>1, <2>2
<1> QED BY <1>6, <1>7, <1>8, <1>9

\* A weekly bar is stored: S is dated by the last of its days.
LEMMA WeeklyStores ==
  ASSUME TypeOK, NEW d \in Day, WeeklyOnline(d) \/ WeeklyLocal(d)
  PROVE  \E S \in SUBSET published :
           /\ S # {} /\ StoreWeek(d, S)
           /\ daily["bare"] \cap WeekUpTo(d) \subseteq S /\ S \subseteq WeekUpTo(d)
<1>1. "bare" \in Adjust /\ daily["bare"] \subseteq published
  BY CalendarAssumption DEF TypeOK
<1>2. CASE WeeklyOnline(d)
  <2> DEFINE S == published \cap WeekUpTo(d)
  <2>1. S # {} /\ StoreWeek(d, S)
    BY <1>2 DEF WeeklyOnline
  <2> QED BY <1>1, <2>1
<1>3. CASE WeeklyLocal(d)
  <2> DEFINE S == daily["bare"] \cap WeekUpTo(d)
  <2>1. S # {} /\ StoreWeek(d, S)
    BY <1>3 DEF WeeklyLocal
  <2> QED BY <1>1, <2>1
<1> QED BY <1>2, <1>3

LEMMA WeeklyKeeps ==
  ASSUME IInv, NEW d \in Day, WeeklyOnline(d) \/ WeeklyLocal(d)
  PROVE  IInv'
<1> USE DEF IInv
<1>1. PICK S \in SUBSET published : S # {} /\ StoreWeek(d, S) /\ S \subseteq WeekUpTo(d)
  BY WeeklyStores
<1>2. S \in SUBSET Day
  BY CalendarAssumption DEF TypeOK
<1>3. Max(S) \in S /\ Max(S) \in Day /\ \A y \in S : y <= Max(S)
  BY <1>1, <1>2, MaxDay
<1>4. TypeOK'
  BY <1>1, <1>3 DEF StoreWeek, TypeOK, TaskState, world
<1>5. PublishedPast' /\ TasksPast' /\ AnswerReaches'
  BY <1>1 DEF StoreWeek, PublishedPast, TasksPast, AnswerReaches, Window, world
<1>6. S \subseteq WeekUpTo(Max(S))
  BY <1>1, <1>2, <1>3 DEF WeekUpTo
<1>7. WeekBarsDated'
  BY <1>1, <1>3, <1>6 DEF StoreWeek, WeekBarsDated, WeekUpTo, TypeOK
<1> QED BY <1>4, <1>5, <1>7

THEOREM InitIInv == Init => IInv
<1> SUFFICES ASSUME Init PROVE IInv
  OBVIOUS
<1>1. TypeOK
  BY CalendarAssumption DEF Init, TypeOK, TaskState, Day
<1>2. \A f \in traded : ~(f < 1)
  BY CalendarAssumption DEF Init, Day
<1>3. PublishedPast /\ TasksPast /\ AnswerReaches /\ WeekBarsDated
  BY <1>2 DEF Init, PublishedPast, TasksPast, AnswerReaches, WeekBarsDated
<1> QED BY <1>1, <1>3 DEF IInv

THEOREM NextIInv == IInv /\ [Next]_vars => IInv'
<1> SUFFICES ASSUME IInv, [Next]_vars PROVE IInv'
  OBVIOUS
<1>0. TypeOK
  BY DEF IInv
<1>1. CASE GenerateDaily
  BY <1>0, <1>1, GenerateDailyQuiet, QuietKeeps
<1>2. CASE GenerateMinute \/ RefreshStats
  BY <1>0, <1>2, OtherQuiet, QuietKeeps
<1>3. CASE NextDay \/ Publish
  BY <1>3, WorldKeeps
<1>4. ASSUME NEW d \in Day, Work(d) PROVE IInv'
  <2>1. CASE WeeklyEmpty(d) \/ MinuteWrites(d) \/ MinuteEmpty(d)
    BY <1>0, <2>1, OtherQuiet, QuietKeeps
  <2>2. CASE WeeklyOnline(d) \/ WeeklyLocal(d)
    BY <2>2, WeeklyKeeps
  <2>3. CASE \E a \in Adjust : \/ DailyFetch(d, a) \/ DailyWrites(d, a)
                                \/ DailyBreaksOff(d, a) \/ DailyEmpty(d, a)
    BY <2>3, DailyKeeps
  <2> QED BY <1>4, <2>1, <2>2, <2>3 DEF Work
<1>5. CASE UNCHANGED vars
  BY <1>0, <1>5, QuietKeeps DEF vars, Quiet, TypeOK
<1> QED BY <1>1, <1>2, <1>3, <1>4, <1>5 DEF Next

\* The variables of the bars' model keep their types: no row is dated after
\* today, and none has bars that the source has not published.
THEOREM TypeCorrect == Spec => []TypeOK
<1>1. IInv => TypeOK
  BY DEF IInv
<1> QED BY <1>1, InitIInv, NextIInv, PTL DEF Spec

-----------------------------------------------------------------------------
(* What a daily task that succeeds has done.                               *)

LEMMA SuccessSteps ==
  ASSUME TypeOK, [Next]_vars, NEW d \in Day, NEW a \in Adjust,
         dtask'[d][a] = "done", dtask[d][a] # "done"
  PROVE  DailyWrites(d, a) \/ DailyEmpty(d, a)
<1>1. ~ GenerateDaily
  <2> SUFFICES ASSUME GenerateDaily PROVE FALSE
    OBVIOUS
  <2> QED BY GenerateDailyQuiet DEF Quiet
<1>2. dtask' # dtask
  OBVIOUS
<1>3. \E e \in Day, b \in Adjust : DailyWrites(e, b) \/ DailyEmpty(e, b)
  BY <1>1, <1>2 DEF Next, Work, vars, GenerateMinute, RefreshStats, NextDay, Publish,
     DailyFetch, DailyBreaksOff, WeeklyOnline, WeeklyLocal, WeeklyEmpty, MinuteWrites,
     MinuteEmpty, StoreWeek, tasks
<1>4. PICK e \in Day, b \in Adjust : DailyWrites(e, b) \/ DailyEmpty(e, b)
  BY <1>3
<1>5. dtask'[d][a] # dtask[d][a] => e = d /\ b = a
  <2>1. dtask' = [dtask EXCEPT ![e][b] = "done"]
    BY <1>2, <1>4 DEF DailyWrites, DailyEmpty
  <2> QED BY <2>1 DEF TypeOK
<1> QED BY <1>4, <1>5

LEMMA DailyGrows ==
  ASSUME TypeOK, [Next]_vars
  PROVE  traded' = traded /\ \A a \in Adjust : daily[a] \subseteq daily'[a]
<1>1. ASSUME NEW d \in Day, Work(d) PROVE traded' = traded /\ \A a \in Adjust : daily[a] \subseteq daily'[a]
  <2>1. CASE \E a \in Adjust : DailyWrites(d, a) \/ DailyBreaksOff(d, a)
    BY <2>1 DEF DailyWrites, DailyBreaksOff, TypeOK
  <2>2. CASE UNCHANGED <<traded, daily>>
    BY <2>2
  <2> QED BY <1>1, <2>1, <2>2 DEF Work, DailyFetch, DailyEmpty, WeeklyOnline, WeeklyLocal,
             WeeklyEmpty, MinuteWrites, MinuteEmpty, StoreWeek, world, store
<1>2. CASE UNCHANGED <<traded, daily>>
  BY <1>2
<1> QED BY <1>1, <1>2 DEF Next, vars, GenerateDaily, GenerateMinute, RefreshStats, NextDay,
           Publish, world, store

\* A task of any caliber brings the days before it that its window reaches.
EachTaskHeals ==
  \A d \in traded, a \in Adjust :
    \A e \in Later(d) : dtask[e][a] = "done" => d \in daily[a]

\* A later task's window reaches back to the day, and both are days.
LEMMA LaterReaches ==
  ASSUME TypeOK, NEW d \in traded, NEW e \in Later(d)
  PROVE  /\ d \in Day /\ e \in Day /\ d \in Trading /\ e \in Trading
         /\ d < e /\ e <= d + DaysBack /\ d \in traded \cap Window(e)
<1>1. /\ d \in Day /\ e \in Day /\ d \in Trading /\ e \in Trading
      /\ d < e /\ e <= d + DaysBack
  BY CalendarAssumption DEF TypeOK, Later
<1>2. e - DaysBack <= d /\ d <= e
  BY <1>1, CalendarAssumption DEF Day
<1> QED BY <1>1, <1>2, CalendarAssumption DEF Window

LEMMA NextHeals ==
  ASSUME IInv, EachTaskHeals, [Next]_vars
  PROVE  EachTaskHeals'
<1>0. TypeOK /\ traded' = traded /\ \A a \in Adjust : daily[a] \subseteq daily'[a]
  BY DailyGrows DEF IInv
<1> SUFFICES ASSUME NEW d \in traded, NEW a \in Adjust, NEW e \in Later(d),
                    dtask'[e][a] = "done"
             PROVE  d \in daily'[a]
  BY <1>0 DEF EachTaskHeals, Later
<1>1. d \in Day /\ e \in Day /\ d < e /\ d \in traded \cap Window(e)
  BY <1>0, LaterReaches
<1>2. CASE dtask[e][a] = "done"
  BY <1>0, <1>2 DEF EachTaskHeals
<1>3. CASE DailyWrites(e, a)
  <2>1. d \in answer[e][a]
    BY <1>1, <1>3 DEF IInv, AnswerReaches, DailyWrites
  <2> QED BY <1>0, <1>1, <1>3, <2>1 DEF DailyWrites, TypeOK
<1>4. CASE DailyEmpty(e, a)
  BY <1>1, <1>4, PastIsPublished DEF DailyEmpty
<1> QED BY <1>0, <1>1, <1>2, <1>3, <1>4, SuccessSteps

LEMMA InitHeals == Init => EachTaskHeals
BY CalendarAssumption DEF Init, EachTaskHeals, Later, Day

\* A traded day that its own task has missed is in daily_kline when the task of
\* any later day that reaches back to it has succeeded: nothing a source, a
\* halt, a broken-off write or another task does in between leaves a hole.
THEOREM MissedDaysAreHealed == Spec => []TradedDayHealed
<1>1. EachTaskHeals => TradedDayHealed
  BY CalendarAssumption DEF EachTaskHeals, TradedDayHealed
<1> QED BY <1>1, InitIInv, NextIInv, InitHeals, NextHeals, PTL DEF Spec

-----------------------------------------------------------------------------
LEMMA ActiveWaitsStep ==
  ASSUME IInv, [Next]_vars, NEW d \in Day, NEW a \in Adjust,
         Succeeds(d, a), d = today, d \in traded,
         PrecedingTrading(d) \in traded \cap Window(d)
  PROVE  d \in Rows'
<1> DEFINE p == PrecedingTrading(d)
           T == {e \in Trading : e < d}
<1>0. TypeOK /\ d \in Int /\ p \in Day
  <2>1. TypeOK /\ traded \in SUBSET Day
    BY CalendarAssumption DEF IInv, TypeOK
  <2>2. Day \subseteq Int
    BY CalendarAssumption DEF Day
  <2> QED BY <2>1, <2>2
<1>1. p < d /\ \A e \in Trading : e < d => e <= p
  BY <1>0, LatestDay, CalendarAssumption DEF PrecedingTrading
<1>2. p \in published /\ dtask[d][a] = "todo"
  BY <1>1, PastIsPublished DEF Succeeds
<1>3. CASE DailyEmpty(d, a)
  BY <1>2, <1>3 DEF DailyEmpty
<1>4. CASE DailyWrites(d, a)
  <2> DEFINE last == Max(answer[d][a])
             G == {e \in Trading : last < e /\ e <= d}
  <2>1. answer[d][a] \in SUBSET Day /\ answer[d][a] # {}
    <3>1. published \in SUBSET Day
      BY <1>0, CalendarAssumption DEF TypeOK
    <3>2. answer[d][a] \in SUBSET published
      BY <1>0 DEF TypeOK
    <3> QED BY <1>4, <3>1, <3>2 DEF DailyWrites
  <2>2. p \in answer[d][a]
    BY <1>1, <2>1 DEF IInv, AnswerReaches
  <2>3. last \in Day /\ p <= last
    BY <2>1, <2>2, MaxDay
  <2>4. G \subseteq {d}
    <3> SUFFICES ASSUME NEW e \in Trading, last < e, e <= d PROVE e = d
      OBVIOUS
    <3>1. e \in Int /\ last \in Int /\ p \in Int
      BY <1>0, <2>3, CalendarAssumption DEF Day
    <3> QED BY <1>0, <1>1, <2>3, <3>1
  <2>5. IsFiniteSet({d}) /\ Cardinality({d}) = 1
    BY FS_Singleton
  <2>6. IsFiniteSet(G) /\ Cardinality(G) <= 1
    BY <2>4, <2>5, FS_Subset
  <2>7. Cardinality(G) \in Nat
    BY <2>6, FS_CardinalityType
  <2>8. ~ Halted(d, last)
    BY <1>0, <2>6, <2>7 DEF Halted
  <2>9. EndBarOk(d, last)
    BY <1>2, <1>4 DEF DailyWrites, Succeeds
  <2> QED BY <2>8, <2>9 DEF EndBarOk
<1> QED BY <1>0, <1>3, <1>4, SuccessSteps DEF Succeeds

\* The publication race: as long as the stock was traded the trading day before,
\* no task of today succeeds before today's row is stored (_assert_end_bar).
THEOREM EarlyAnswersWait == Spec => ActiveStockWaits
<1>1. IInv /\ [Next]_vars =>
        \A d \in Day, a \in Adjust :
          /\ Succeeds(d, a) /\ d = today /\ d \in traded
          /\ PrecedingTrading(d) \in traded \cap Window(d)
          => d \in Rows'
  BY ActiveWaitsStep
<1> QED BY <1>1, InitIInv, NextIInv, PTL DEF Spec, ActiveStockWaits

LEMMA BarsGrowStep ==
  ASSUME IInv, [Next]_vars, NEW x \in Day, weekly[x] \subseteq daily["bare"]
  PROVE  weekly[x] \subseteq weekly'[x]
<1>0. TypeOK /\ weekly[x] \subseteq WeekUpTo(x)
  BY DEF IInv, WeekBarsDated
<1>1. ASSUME NEW d \in Day, WeeklyOnline(d) \/ WeeklyLocal(d)
      PROVE  weekly[x] \subseteq weekly'[x]
  <2>1. PICK S \in SUBSET published :
          /\ S # {} /\ StoreWeek(d, S)
          /\ daily["bare"] \cap WeekUpTo(d) \subseteq S /\ S \subseteq WeekUpTo(d)
    BY <1>0, <1>1, WeeklyStores
  <2>2. S \in SUBSET Day
    BY <1>0, CalendarAssumption DEF TypeOK
  <2>3. Max(S) \in S
    BY <2>1, <2>2, MaxDay
  <2>4. CASE x = Max(S)
    <3>1. WeekUpTo(x) \subseteq WeekUpTo(d)
      BY <2>1, <2>3, <2>4, CalendarAssumption DEF WeekUpTo, Day
    <3> QED BY <1>0, <2>1, <2>4, <3>1 DEF StoreWeek, TypeOK
  <2>5. CASE x # Max(S)
    BY <1>0, <2>1, <2>5 DEF StoreWeek, TypeOK
  <2> QED BY <2>4, <2>5
<1>2. CASE weekly' = weekly
  BY <1>2
<1> QED BY <1>1, <1>2 DEF Next, Work, vars, GenerateDaily, GenerateMinute, RefreshStats,
           NextDay, Publish, DailyFetch, DailyWrites, DailyBreaksOff, DailyEmpty, WeeklyEmpty,
           MinuteWrites, MinuteEmpty, store

\* A weekly bar stored again, online or from daily_kline, loses none of the days
\* that daily_kline has.
THEOREM WeeksOnlyGrow == Spec => BarsOnlyGrow
<1>1. IInv /\ [Next]_vars =>
        \A d \in Day : weekly[d] \subseteq daily["bare"] => weekly[d] \subseteq weekly'[d]
  BY BarsGrowStep
<1> QED BY <1>1, InitIInv, NextIInv, PTL DEF Spec, BarsOnlyGrow

-----------------------------------------------------------------------------
(* The adjusted prices, which are only asked for while the stock is not    *)
(* taken for stale.                                                        *)

\* Until GenerateDaily has run for a day there is no task of it; the unadjusted
\* one is always made.
BareAmongTasks ==
  \A e \in Day, a \in Adjust : dtask[e]["bare"] = "none" => dtask[e][a] = "none"

\* What a punctual process has behind it: the tasks of a trading day are made on
\* the day, and have succeeded by the end of the next.
TasksMade == \A f \in Trading : f < today => dtask[f]["bare"] # "none"
TasksDone == \A f \in Day, a \in Adjust : f + 2 <= today => dtask[f][a] # "todo"

\* The overnight refresh has seen the row that the first later task brought.
StatsKnow ==
  \A d \in traded : \A e \in Later(d) : e + 2 <= today => d <= statsMax

\* From two days after it on the stock is not stale, so its adjusted prices are
\* asked for.
AdjustedAsked ==
  \A d \in traded : \A e, f \in Later(d) :
    e + 2 <= f /\ dtask[f]["bare"] # "none" => \A a \in Adjust : dtask[f][a] # "none"

PunctualInv == BareAmongTasks /\ TasksMade /\ TasksDone /\ StatsKnow /\ AdjustedAsked

LEMMA MinDay ==
  ASSUME NEW S \in SUBSET Day, S # {}
  PROVE  Min(S) \in S /\ \A y \in S : Min(S) <= y
<1>1. S \in SUBSET Nat
  BY CalendarAssumption DEF Day
<1>2. \E x \in S : \A y \in S : x <= y
  BY <1>1, LeastNat
<1> QED BY <1>2 DEF Min

\* The other steps: only a task that is to be done changes, and succeeds.
Advances ==
  /\ UNCHANGED <<today, traded, statsMax>>
  /\ \A d \in Day, a \in Adjust :
       dtask'[d][a] = dtask[d][a] \/ (dtask[d][a] = "todo" /\ dtask'[d][a] = "done")

LEMMA StepKinds ==
  ASSUME IInv, [Next]_vars
  PROVE  GenerateDaily \/ NextDay \/ RefreshStats \/ Advances
<1>0. TypeOK
  BY DEF IInv
<1>1. CASE GenerateMinute \/ Publish \/ UNCHANGED vars
  BY <1>1 DEF GenerateMinute, Publish, vars, world, tasks, Advances
<1>2. ASSUME NEW d \in Day, Work(d) PROVE Advances
  <2>1. CASE WeeklyOnline(d) \/ WeeklyLocal(d) \/ WeeklyEmpty(d) \/ MinuteWrites(d)
             \/ MinuteEmpty(d)
    BY <2>1 DEF WeeklyOnline, WeeklyLocal, WeeklyEmpty, MinuteWrites, MinuteEmpty, StoreWeek,
                world, Advances
  <2>2. ASSUME NEW a \in Adjust,
               \/ DailyFetch(d, a) \/ DailyWrites(d, a)
               \/ DailyBreaksOff(d, a) \/ DailyEmpty(d, a)
        PROVE  Advances
    <3>1. UNCHANGED <<today, traded, statsMax>>
      BY <2>2 DEF DailyFetch, DailyWrites, DailyBreaksOff, DailyEmpty, world
    <3>2. dtask' = dtask \/ dtask' = [dtask EXCEPT ![d][a] = "done"]
      BY <2>2 DEF DailyFetch, DailyWrites, DailyBreaksOff, DailyEmpty, tasks
    <3>3. dtask' = dtask \/ dtask[d][a] = "todo"
      BY <2>2 DEF DailyFetch, DailyWrites, DailyBreaksOff, DailyEmpty, tasks, IInv, AnswerReaches
    <3>4. CASE dtask' = dtask
      BY <3>1, <3>4 DEF Advances
    <3>5. CASE dtask' = [dtask EXCEPT ![d][a] = "done"] /\ dtask[d][a] = "todo"
      <4>1. dtask \in [Day -> [Adjust -> TaskState]]
        BY <1>0 DEF TypeOK
      <4>2. \A e \in Day, b \in Adjust :
              \/ dtask'[e][b] = dtask[e][b]
              \/ dtask[e][b] = "todo" /\ dtask'[e][b] = "done"
        BY <3>5, <4>1
      <4> QED BY <3>1, <4>2 DEF Advances
    <3> QED BY <3>2, <3>3, <3>4, <3>5
  <2> QED BY <1>2, <2>1, <2>2 DEF Work
<1> QED BY <1>1, <1>2 DEF Next

\* The tasks of today are made: the unadjusted one is new, and the others come
\* with it unless the stock is stale.
LEMMA GenerateMakes ==
  ASSUME TypeOK, GenerateDaily
  PROVE  /\ UNCHANGED <<today, traded, statsMax>> /\ today \in Trading
         /\ dtask[today]["bare"] = "none" /\ dtask'[today]["bare"] = "todo"
         /\ ~Stale => \A a \in Adjust : dtask'[today][a] = "todo"
         /\ \A f \in Day \ {today}, a \in Adjust : dtask'[f][a] = dtask[f][a]
<1>1. /\ today \in Day /\ "bare" \in Adjust /\ dtask \in [Day -> [Adjust -> TaskState]]
      /\ dtask' = [dtask EXCEPT ![today] =
            [a \in Adjust |-> IF a = "bare" \/ ~Stale THEN "todo" ELSE @[a]]]
  BY CalendarAssumption DEF GenerateDaily, TypeOK
<1>2. dtask'[today] = [a \in Adjust |-> IF a = "bare" \/ ~Stale THEN "todo" ELSE dtask[today][a]]
  BY <1>1
<1>3. \A f \in Day \ {today} : dtask'[f] = dtask[f]
  BY <1>1
<1> QED BY <1>1, <1>2, <1>3 DEF GenerateDaily, world

\* The day before lies behind a window's length, so a row of that day is recent
\* for the statistics.
LEMMA RecentHasDay ==
  ASSUME TypeOK, DaysBack < StaleDays, NEW d \in traded, today \in Later(d)
  PROVE  d \in Recent
<1> DEFINE S == {e \in Trading : d <= e /\ e <= today}
<1>1. /\ d \in Int /\ today \in Int /\ d < today /\ today <= d + DaysBack /\ d \in Trading
      /\ DaysBack \in Nat /\ StaleDays \in Nat
  BY LaterReaches, CalendarAssumption DEF Day
<1>2. S \in SUBSET (d..today)
  <2>1. S \subseteq Int
    <3>1. Day \subseteq Int
      BY CalendarAssumption DEF Day
    <3> QED BY <3>1, CalendarAssumption
  <2>2. \A e \in S : d <= e /\ e <= today
    OBVIOUS
  <2> HIDE DEF S
  <2> QED BY <1>1, <2>1, <2>2
<1>3. IsFiniteSet(d..today) /\ Cardinality(d..today) = today - d + 1
  BY <1>1, FS_Interval
<1>4. Cardinality(S) <= today - d + 1 /\ Cardinality(S) \in Nat
  BY <1>2, <1>3, FS_Subset, FS_CardinalityType
<1>5. Cardinality(S) <= StaleDays
  BY <1>1, <1>4
<1> QED BY <1>1, <1>5 DEF Recent

LEMMA SeenIsNotStale ==
  ASSUME TypeOK, DaysBack < StaleDays, NEW d \in traded, today \in Later(d), d <= statsMax
  PROVE  ~Stale
<1>1. d \in Recent
  BY RecentHasDay
<1>2. Recent \in SUBSET Day
  BY CalendarAssumption DEF Recent
<1>3. Min(Recent) \in Recent /\ Min(Recent) <= d
  BY <1>1, <1>2, MinDay
<1>4. Min(Recent) \in Int /\ d \in Int /\ statsMax \in Int
  <2>1. Recent \subseteq Int
    BY <1>2, CalendarAssumption DEF Day
  <2>2. statsMax \in Int
    BY CalendarAssumption DEF Day, TypeOK
  <2> QED BY <1>1, <1>3, <2>1, <2>2
<1>5. ~ (statsMax < Min(Recent))
  BY <1>3, <1>4
<1> QED BY <1>5 DEF Stale

\* What is in daily_kline is not newer than what the refresh finds.
LEMMA RefreshSees ==
  ASSUME TypeOK, NEW d \in daily["bare"]
  PROVE  d <= Latest(Rows)
<1>1. d \in Rows /\ Rows \in SUBSET Day
  BY CalendarAssumption DEF Rows, TypeOK
<1> QED BY <1>1, LatestDay, MaxDay DEF Latest

LEMMA NextBareAmong ==
  ASSUME IInv, BareAmongTasks, [Next]_vars
  PROVE  BareAmongTasks'
<1>0. TypeOK /\ "bare" \in Adjust
  BY CalendarAssumption DEF IInv
<1>1. CASE GenerateDaily
  BY <1>0, <1>1, GenerateMakes DEF BareAmongTasks
<1>2. CASE NextDay \/ RefreshStats
  BY <1>2 DEF NextDay, RefreshStats, tasks, BareAmongTasks
<1>3. CASE Advances
  BY <1>0, <1>3 DEF Advances, BareAmongTasks
<1> QED BY <1>1, <1>2, <1>3, StepKinds

LEMMA NextTasksMade ==
  ASSUME IInv, Punctual, TasksMade, TasksDone, [Next]_vars
  PROVE  TasksMade' /\ TasksDone'
<1>0. TypeOK /\ "bare" \in Adjust /\ Trading \subseteq Day /\ today \in Day
  BY CalendarAssumption DEF IInv, TypeOK
<1>1. CASE GenerateDaily
  <2>1. \A f \in Day : f < today \/ f + 2 <= today => f # today
    BY <1>0, CalendarAssumption DEF Day
  <2> QED BY <1>0, <1>1, <2>1, GenerateMakes DEF TasksMade, TasksDone
<1>2. CASE NextDay
  <2>1. dtask' = dtask /\ today' = today + 1 /\ today \in Int /\ Day \subseteq Int
    BY <1>0, <1>2, CalendarAssumption DEF NextDay, tasks, Day
  <2>2. today \in Trading => dtask[today]["bare"] # "none"
    BY <1>2 DEF NextDay
  <2>3. \A d \in 1..(today - 1), a \in Adjust : dtask[d][a] # "todo"
    BY <1>2 DEF NextDay
  <2>4. \A f \in Day : /\ f < today + 1 => f < today \/ f = today
                      /\ f + 2 <= today + 1 => f \in 1..(today - 1)
    BY <1>0, <2>1, CalendarAssumption DEF Day
  <2>5. ASSUME NEW f \in Trading, f < today' PROVE dtask'[f]["bare"] # "none"
    <3>1. f < today \/ f = today
      <4>1. f \in Int /\ f < today + 1
        BY <1>0, <2>1, <2>5
      <4> QED BY <2>1, <4>1
    <3> QED BY <2>1, <2>2, <2>5, <3>1 DEF TasksMade
  <2>6. ASSUME NEW f \in Day, NEW a \in Adjust, f + 2 <= today'
        PROVE  dtask'[f][a] # "todo"
    <3>1. f \in 1..(today - 1)
      <4>1. f \in Int /\ f >= 1 /\ f + 2 <= today + 1
        BY <2>1, <2>6, CalendarAssumption DEF Day
      <4> QED BY <2>1, <4>1
    <3> QED BY <2>1, <2>3, <3>1
  <2> QED BY <2>5, <2>6 DEF TasksMade, TasksDone
<1>3. CASE RefreshStats
  BY <1>3 DEF RefreshStats, world, tasks, TasksMade, TasksDone
<1>4. CASE Advances
  BY <1>0, <1>4 DEF Advances, TasksMade, TasksDone
<1> QED BY <1>1, <1>2, <1>3, <1>4, StepKinds

\* A later trading day that is two days over: its task has brought the row.
LEMMA OverIsHealed ==
  ASSUME TypeOK, EachTaskHeals, NEW d \in traded, NEW e \in Later(d),
         dtask[e]["bare"] # "none", dtask[e]["bare"] # "todo"
  PROVE  d \in daily["bare"]
<1>1. e \in Day /\ "bare" \in Adjust
  BY LaterReaches, CalendarAssumption
<1>2. dtask[e]["bare"] = "done"
  BY <1>1 DEF TypeOK, TaskState
<1> QED BY <1>1, <1>2 DEF EachTaskHeals

LEMMA NextStatsKnow ==
  ASSUME IInv, Punctual, TasksMade, TasksDone, StatsKnow, EachTaskHeals, [Next]_vars
  PROVE  StatsKnow'
<1>0. TypeOK /\ "bare" \in Adjust /\ today \in Int /\ traded' = traded
  <2>1. TypeOK
    BY DEF IInv
  <2>2. today \in Int
    BY <2>1, CalendarAssumption DEF TypeOK, Day
  <2> QED BY <2>1, <2>2, DailyGrows, CalendarAssumption
<1> SUFFICES ASSUME NEW d \in traded, NEW e \in Later(d), e + 2 <= today'
             PROVE  d <= statsMax'
  BY <1>0 DEF StatsKnow, Later
<1>1. e \in Day /\ e \in Trading /\ e \in Int
  BY <1>0, LaterReaches, CalendarAssumption DEF Day
<1>2. CASE GenerateDaily \/ Advances
  BY <1>0, <1>2, GenerateMakes DEF Advances, StatsKnow
<1>3. CASE RefreshStats
  <2>1. e + 2 <= today /\ e < today
    BY <1>0, <1>1, <1>3 DEF RefreshStats, world
  <2>2. dtask[e]["bare"] # "none" /\ dtask[e]["bare"] # "todo"
    BY <1>0, <1>1, <2>1 DEF TasksMade, TasksDone
  <2> QED BY <1>0, <1>3, <2>2, OverIsHealed, RefreshSees DEF RefreshStats
<1>4. CASE NextDay
  <2>1. statsMax = Latest(Rows) /\ statsMax' = statsMax /\ today' = today + 1
    BY <1>4 DEF NextDay
  <2>2. e < today /\ e \in 1..(today - 1)
    BY <1>0, <1>1, <2>1, CalendarAssumption DEF Day
  <2>3. dtask[e]["bare"] # "none" /\ dtask[e]["bare"] # "todo"
    BY <1>0, <1>1, <1>4, <2>2 DEF TasksMade, NextDay
  <2> QED BY <1>0, <2>1, <2>3, OverIsHealed, RefreshSees
<1> QED BY <1>2, <1>3, <1>4, StepKinds

LEMMA NextAdjustedAsked ==
  ASSUME IInv, DaysBack < StaleDays, StatsKnow, AdjustedAsked, [Next]_vars
  PROVE  AdjustedAsked'
<1>0. TypeOK /\ "bare" \in Adjust /\ traded' = traded
  BY DailyGrows, CalendarAssumption DEF IInv
<1> SUFFICES ASSUME NEW d \in traded, NEW e \in Later(d), NEW f \in Later(d),
                    e + 2 <= f, dtask'[f]["bare"] # "none", NEW a \in Adjust
             PROVE  dtask'[f][a] # "none"
  BY <1>0 DEF AdjustedAsked, Later
<1>1. f \in Day
  BY <1>0, LaterReaches
<1>2. CASE dtask[f]["bare"] # "none"
  <2>1. dtask[f][a] # "none"
    BY <1>2 DEF AdjustedAsked
  <2>2. CASE GenerateDaily
    BY <1>0, <1>1, <1>2, <2>1, <2>2, GenerateMakes
  <2>3. CASE NextDay \/ RefreshStats
    BY <2>1, <2>3 DEF NextDay, RefreshStats, tasks
  <2>4. CASE Advances
    BY <1>1, <2>1, <2>4 DEF Advances
  <2> QED BY <2>2, <2>3, <2>4, StepKinds
<1>3. CASE dtask[f]["bare"] = "none"
  <2>1. GenerateDaily
    <3>1. ~ (NextDay \/ RefreshStats)
      BY <1>3 DEF NextDay, RefreshStats, tasks
    <3>2. ~ Advances
      BY <1>0, <1>1, <1>3 DEF Advances
    <3> QED BY <3>1, <3>2, StepKinds
  <2>2. f = today
    BY <1>0, <1>1, <1>3, <2>1, GenerateMakes
  <2>3. ~Stale
    BY <1>0, <2>2, SeenIsNotStale DEF StatsKnow
  <2> QED BY <1>0, <2>1, <2>2, <2>3, GenerateMakes
<1> QED BY <1>2, <1>3

\* Three days do not fit on two neighbouring ones.
LEMMA ThreeSpread ==
  ASSUME NEW S \in SUBSET Day, Cardinality(S) >= 3
  PROVE  \E e, f \in S : e + 2 <= f
<1>1. S # {}
  BY FS_EmptySet
<1>2. /\ Min(S) \in S /\ Max(S) \in S
      /\ \A y \in S : Min(S) <= y /\ y <= Max(S)
  BY <1>1, MinDay, MaxDay
<1> DEFINE m == Min(S)
           n == Max(S)
<1>3. m \in Int /\ n \in Int /\ S \subseteq Int
  <2>1. S \subseteq Int
    BY CalendarAssumption DEF Day
  <2> QED BY <1>2, <2>1
<1> HIDE DEF m, n
<1>4. CASE m + 2 <= n
  BY <1>2, <1>4 DEF m, n
<1>5. CASE ~ (m + 2 <= n)
  <2>1. S \in SUBSET (m..(m + 1))
    <3> SUFFICES ASSUME NEW y \in S PROVE m <= y /\ y <= m + 1 /\ y \in Int
      OBVIOUS
    <3>1. m <= y /\ y <= n
      BY <1>2 DEF m, n
    <3> QED BY <1>3, <1>5, <3>1
  <2>2. IsFiniteSet(m..(m + 1)) /\ Cardinality(m..(m + 1)) = 2
    <3>1. m + 1 \in Int /\ ~ (m > m + 1) /\ (m + 1) - m + 1 = 2
      BY <1>3
    <3> QED BY <1>3, <3>1, FS_Interval
  <2>3. IsFiniteSet(S) /\ Cardinality(S) <= 2
    BY <2>1, <2>2, FS_Subset
  <2>4. Cardinality(S) \in Nat
    BY <2>3, FS_CardinalityType
  <2> QED BY <2>3, <2>4
<1> QED BY <1>4, <1>5

LEMMA InitPunctualInv == Init => PunctualInv
<1> SUFFICES ASSUME Init PROVE PunctualInv
  OBVIOUS
<1>1. today = 1 /\ "bare" \in Adjust /\ Trading \subseteq Day
      /\ \A f \in Day, a \in Adjust : dtask[f][a] = "none"
  BY CalendarAssumption DEF Init
<1>2. \A f \in Day : ~ (f < 1) /\ ~ (f + 2 <= 1)
  BY CalendarAssumption DEF Day
<1>3. TypeOK
  BY InitIInv DEF IInv
<1>4. \A d \in traded : Later(d) \subseteq Day
  BY <1>3, LaterReaches
<1>5. BareAmongTasks /\ TasksMade /\ TasksDone
  BY <1>1, <1>2 DEF BareAmongTasks, TasksMade, TasksDone
<1>6. StatsKnow
  BY <1>1, <1>2, <1>4 DEF StatsKnow
<1>7. AdjustedAsked
  BY <1>1, <1>4 DEF AdjustedAsked
<1> QED BY <1>5, <1>6, <1>7 DEF PunctualInv

\* The adjusted prices of a traded day are in daily_kline once the tasks of three
\* later trading days are through, on a process that is up every trading day: at
\* the latest the third task asks for them, whatever the statistics said before.
THEOREM AdjustedPricesFollow == Spec => []AdjustedDayHealed
<1>1. ASSUME Punctual, DaysBack < StaleDays
      PROVE  Init /\ [][Next]_vars => [](IInv /\ EachTaskHeals /\ PunctualInv)
  <2>1. IInv /\ EachTaskHeals /\ PunctualInv /\ [Next]_vars
          => IInv' /\ EachTaskHeals' /\ PunctualInv'
    BY <1>1, NextIInv, NextHeals, NextBareAmong, NextTasksMade, NextStatsKnow,
       NextAdjustedAsked DEF PunctualInv
  <2> QED BY <2>1, InitIInv, InitHeals, InitPunctualInv, PTL
<1>2. IInv /\ EachTaskHeals /\ PunctualInv => AdjustedDayHealed
  <2> SUFFICES ASSUME IInv, EachTaskHeals, PunctualInv, NEW d \in traded, NEW a \in Adjust,
                      Cardinality(Later(d)) >= 3,
                      \A e \in Later(d) : dtask[e]["bare"] = "done" /\ dtask[e][a] # "todo"
               PROVE  d \in daily[a]
    BY DEF AdjustedDayHealed
  <2>1. TypeOK /\ Later(d) \in SUBSET Day
    BY CalendarAssumption DEF IInv, Later
  <2>2. PICK e \in Later(d), f \in Later(d) : e + 2 <= f
    BY <2>1, ThreeSpread
  <2>3. dtask[f][a] # "none"
    BY <2>2 DEF PunctualInv, AdjustedAsked
  <2>4. dtask[f][a] = "done"
    BY <2>1, <2>2, <2>3 DEF TypeOK, TaskState
  <2> QED BY <2>2, <2>4 DEF EachTaskHeals
<1>3. CASE Punctual /\ DaysBack < StaleDays
  BY <1>1, <1>2, <1>3, PTL DEF Spec
<1>4. CASE ~ (Punctual /\ DaysBack < StaleDays)
  <2>1. AdjustedDayHealed
    BY <1>4 DEF AdjustedDayHealed
  <2> QED BY <2>1, PTL
<1> QED BY <1>3, <1>4
=============================================================================
