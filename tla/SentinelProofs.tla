--------------------------- MODULE SentinelProofs ---------------------------
(***************************************************************************)
(* The last check of a day reports an outage, for every calendar and any   *)
(* number of shards. A table of a collected type once had rows and never   *)
(* loses its newest, so at night each freshness check compares a row of an *)
(* earlier day with today, and one CRIT makes the whole report CRIT.       *)
(* The other way round, a report of some trouble is about some trouble:    *)
(* while every collector does its work, each table has at all times what   *)
(* its check expects, so that each check is quiet.                         *)
(***************************************************************************)
EXTENDS Sentinel, WellFoundedInduction, TLAPS

ShardsFilled == "minute" \in Live => \A s \in Shard : shard[s] # 0

IInv == TypeOK /\ ShardsFilled

-----------------------------------------------------------------------------
(* The largest and the least of some days.                                 *)

LEMMA LeastNat ==
  ASSUME NEW T \in SUBSET Nat, T # {}
  PROVE  Min(T) \in T /\ \A y \in T : Min(T) <= y
<1>1. PICK x \in T : \A y \in T : ~ (<<y, x>> \in OpToRel(<, Nat))
  BY NatLessThanWellFounded, WFMin
<1>2. \A y \in T : ~ (y < x)
  BY <1>1 DEF OpToRel
<1>3. \E z \in T : \A y \in T : z <= y
  BY <1>2
<1> QED BY <1>3 DEF Min

LEMMA GreatestNat ==
  ASSUME NEW n \in Nat, NEW S \in SUBSET (0..n), S # {}
  PROVE  Max(S) \in S /\ \A y \in S : y <= Max(S)
<1> DEFINE T == {m \in Nat : n - m \in S}
<1>1. T # {}
  <2>1. PICK x \in S : TRUE
    OBVIOUS
  <2>2. n - x \in Nat /\ n - (n - x) = x
    OBVIOUS
  <2> QED BY <2>1, <2>2
<1>2. PICK t \in T : \A y \in T : t <= y
  BY <1>1, LeastNat
<1>3. n - t \in S /\ t \in Nat
  BY <1>2
<1>4. ASSUME NEW y \in S PROVE y <= n - t
  <2>1. y \in Int /\ n - y \in Nat /\ n - (n - y) = y
    OBVIOUS
  <2>2. t <= n - y
    BY <1>2, <2>1
  <2> QED BY <1>3, <2>1, <2>2
<1>5. \E x \in S : \A y \in S : x >= y
  BY <1>3, <1>4
<1> QED BY <1>5 DEF Max

\* _latest_trade_date is a trading day up to d, the newest of them.
LEMMA LatestTradeUpTo ==
  ASSUME NEW d \in Nat
  PROVE  /\ LatestTrade(d) \in 0..d
         /\ \A t \in Trading : t <= d => t <= LatestTrade(d)
<1> DEFINE S == {0} \cup {t \in Trading : t <= d}
<1>1. S \in SUBSET (0..d) /\ S # {}
  <2>1. \A t \in Trading : t <= d => t \in 0..d
    BY SentinelAssumption
  <2> QED BY <2>1
<1>2. Max(S) \in S /\ \A y \in S : y <= Max(S)
  BY <1>1, GreatestNat
<1> QED BY <1>1, <1>2 DEF LatestTrade

LEMMA LaterOfTwo ==
  ASSUME NEW d \in Day, NEW v \in 0..LastDay
  PROVE  Later(d, v) \in 1..LastDay /\ Later(d, v) >= d /\ Later(d, v) >= v
<1> DEFINE S == {d, v}
<1>1. S \in SUBSET (0..LastDay) /\ S # {} /\ d \in S /\ d >= 1
  BY SentinelAssumption DEF Day
<1>2. Max(S) \in S /\ d <= Max(S) /\ v <= Max(S)
  BY <1>1, GreatestNat, SentinelAssumption
<1> QED BY <1>1, <1>2, SentinelAssumption DEF Later, Day

-----------------------------------------------------------------------------
LEMMA AggregateType == \A r : Aggregate(r) \in {"OK", "WARN", "CRIT"}
BY DEF Aggregate

\* The start: the tables have rows of before FirstDay.
THEOREM InitIInv == Init => IInv
<1> SUFFICES ASSUME Init PROVE IInv
  OBVIOUS
<1> DEFINE last == LatestTrade(FirstDay - 1)
<1>1. FirstDay \in Day /\ FirstDay - 1 \in Nat /\ FirstDay - 1 <= LastDay
  BY SentinelAssumption DEF Day
<1>2. last \in 0..LastDay
  BY <1>1, LatestTradeUpTo, SentinelAssumption
<1>3. last # 0
  <2>1. PICK t \in Trading : 0 < t /\ t < FirstDay
    BY SentinelAssumption
  <2>2. t \in Nat /\ t <= FirstDay - 1
    BY <2>1, SentinelAssumption
  <2>3. t <= last
    BY <1>1, <2>2, LatestTradeUpTo
  <2>4. last \in Nat
    BY <1>2, SentinelAssumption
  <2> HIDE DEF last
  <2> QED BY <2>1, <2>2, <2>3, <2>4
<1>4. TypeOK
  BY <1>1, <1>2, SentinelAssumption
     DEF Init, TypeOK, Part, Midnight, Night, Cooldown, NoReport
<1>5. ShardsFilled
  BY <1>3 DEF Init, ShardsFilled
<1> QED BY <1>4, <1>5 DEF IInv

LEMMA WorkKeeps ==
  ASSUME IInv,
         \/ \E k \in Kind \ {"minute"}, d \in Day : Collects(k, d)
         \/ \E d \in Day, S \in SUBSET Shard : S # {} /\ CollectsMinute(d, S)
         \/ \E k \in Kind : SucceedsEmpty(k)
         \/ \E s \in Source, left \in {1, Cooldown} : SourceFails(s, left)
  PROVE  IInv'
<1> USE DEF IInv
<1>1. ASSUME NEW k \in Kind \ {"minute"}, NEW d \in Day, Collects(k, d) PROVE IInv'
  <2>1. newest[k] \in 0..LastDay
    BY DEF TypeOK
  <2>2. Later(d, newest[k]) \in 0..LastDay
    BY <2>1, LaterOfTwo, SentinelAssumption
  <2>3. newest' \in [Kind \ {"minute"} -> 0..LastDay]
    BY <1>1, <2>2 DEF Collects, TypeOK
  <2> QED BY <1>1, <2>3 DEF Collects, Writes, TypeOK, ShardsFilled
<1>2. ASSUME NEW d \in Day, NEW S \in SUBSET Shard, CollectsMinute(d, S) PROVE IInv'
  <2>1. \A s \in Shard : Later(d, shard[s]) \in 1..LastDay
    BY LaterOfTwo DEF TypeOK
  <2>2. shard' \in [Shard -> 0..LastDay] /\ ShardsFilled'
    BY <1>2, <2>1, SentinelAssumption DEF CollectsMinute, TypeOK, ShardsFilled
  <2> QED BY <1>2, <2>2 DEF CollectsMinute, Writes, TypeOK, Kind
<1>3. ASSUME NEW k \in Kind, SucceedsEmpty(k) PROVE IInv'
  BY <1>3 DEF SucceedsEmpty, TypeOK, ShardsFilled
<1>4. ASSUME NEW s \in Source, NEW left \in {1, Cooldown}, SourceFails(s, left) PROVE IInv'
  BY <1>4 DEF SourceFails, TypeOK, ShardsFilled, Cooldown
<1> QED BY <1>1, <1>2, <1>3, <1>4

LEMMA AdvanceKeeps ==
  ASSUME IInv, Advance, UNCHANGED report \/ report' = Report
  PROVE  IInv'
<1>1. part \in 0..5 /\ today \in 1..LastDay /\ LastDay \in Nat
  BY SentinelAssumption DEF IInv, TypeOK, Part, Midnight, Night, Day
<1>2. part' \in Part /\ today' \in Day
  BY <1>1 DEF Advance, Part, Midnight, Night, Day
<1>3. report'.status \in {"UNKNOWN", "OK", "WARN", "CRIT"}
  BY AggregateType DEF IInv, TypeOK, Report
<1>4. rhythm' \in BOOLEAN
  BY DEF Advance
<1>5. TypeOK'
  BY <1>2, <1>3, <1>4 DEF IInv, Advance, TypeOK, Cooldown
<1>6. ShardsFilled'
  BY DEF IInv, Advance, ShardsFilled
<1> QED BY <1>5, <1>6 DEF IInv

THEOREM NextIInv == IInv /\ [Next]_vars => IInv'
<1> SUFFICES ASSUME IInv, [Next]_vars PROVE IInv'
  OBVIOUS
<1>1. CASE Check \/ CheckLost
  BY <1>1, AdvanceKeeps DEF Check, CheckLost
<1>2. CASE UNCHANGED vars
  BY <1>2 DEF vars, IInv, TypeOK, ShardsFilled
<1> QED BY <1>1, <1>2, WorkKeeps DEF Next

\* The tables' newest days, the clock and the breakers keep their types.
THEOREM TypeCorrect == Spec => []TypeOK
<1>1. IInv => TypeOK
  BY DEF IInv
<1> QED BY <1>1, InitIInv, NextIInv, PTL DEF Spec

-----------------------------------------------------------------------------
(* The checks at night.                                                    *)

LEMMA TodayIsLatest == TypeOK /\ today \in Trading => LatestTrade(today) = today
<1> SUFFICES ASSUME TypeOK, today \in Trading PROVE LatestTrade(today) = today
  OBVIOUS
<1>1. today \in Nat /\ today <= today
  BY DEF TypeOK, Day
<1>2. LatestTrade(today) \in 0..today /\ today <= LatestTrade(today)
  BY <1>1, LatestTradeUpTo
<1> QED BY <1>1, <1>2

LEMMA MinuteCritical ==
  ASSUME IInv, part = Night, Missing("minute")
  PROVE  MinuteCheck = "CRIT"
<1> DEFINE T == {shard[s] : s \in Filled}
<1>1. PICK s \in Shard : shard[s] < today
  BY DEF Missing
<1>2. s \in Filled /\ Filled # {}
  BY <1>1 DEF IInv, ShardsFilled, Missing, Filled
<1>3. T \in SUBSET Nat /\ T # {} /\ shard[s] \in T
  BY <1>2 DEF IInv, TypeOK, Filled
<1>4. Min(T) \in Nat /\ Min(T) <= shard[s]
  BY <1>3, LeastNat
<1>5. Min(T) < today
  BY <1>1, <1>3, <1>4 DEF IInv, TypeOK, Day
<1>6. MinuteExpected = today
  BY DEF MinuteExpected, Missing
<1> QED BY <1>2, <1>5, <1>6 DEF MinuteCheck, Fresh

LEMMA BarsCritical ==
  ASSUME IInv, part = Night, NEW k \in {"daily", "weekly", "monthly"}, Missing(k)
  PROVE  Checks[k] = "CRIT"
<1>1. /\ TypeOK /\ today \in Trading /\ today \in Nat \ {0}
      /\ LatestTrade(today) = today /\ Past18(today)
  BY TodayIsLatest DEF IInv, TypeOK, Day, Missing, Past18, Night, Evening
<1>2. CASE k = "daily"
  BY <1>1, <1>2 DEF Missing, Checks, DailyCheck, DailyExpected, Fresh
<1>3. CASE k = "weekly"
  BY <1>1, <1>3 DEF Missing, Checks, WeeklyCheck, WeeklyExpected, Fresh
<1>4. CASE k = "monthly"
  BY <1>1, <1>4 DEF Missing, Checks, MonthlyCheck, MonthlyExpected, Fresh
<1> QED BY <1>2, <1>3, <1>4

LEMMA OutageStep ==
  ASSUME IInv, [Next]_vars, Written, part = Night, NEW k \in Kind, Missing(k)
  PROVE  report'.status = "CRIT"
<1>1. report' = Report
  BY DEF Written, Next, vars, Collects, CollectsMinute, Writes, SucceedsEmpty, SourceFails,
         Check, CheckLost
<1>2. Checks[k] = "CRIT"
  <2>1. CASE k = "minute"
    BY <2>1, MinuteCritical DEF Checks
  <2>2. CASE k # "minute"
    BY <2>2, BarsCritical DEF Kind
  <2> QED BY <2>1, <2>2
<1>3. k \in DOMAIN Checks
  BY DEF Checks, Kind
<1>4. Aggregate(Checks) = "CRIT"
  BY <1>2, <1>3 DEF Aggregate, Verdicts
<1> QED BY <1>1, <1>4 DEF Report

\* The check that is made when the day ends reports CRIT whenever a collected
\* type lacks the day's bars, in the table or in any one shard.
THEOREM OutagesAreReported == Spec => OutageReported
<1>1. IInv /\ [Next]_vars =>
        (Written /\ part = Night /\ (\E k \in Kind : Missing(k)) => report'.status = "CRIT")
  BY OutageStep
<1> QED BY <1>1, InitIInv, NextIInv, PTL DEF Spec, OutageReported

-----------------------------------------------------------------------------
(* Collectors in rhythm. At each check the tables have the newest trading  *)
(* day that is over, and today once the day's collection must be done.     *)

NotBeforeFirst == today >= FirstDay

\* The tables hold the newest trading day that is over.
PastHeld ==
  /\ \A k \in Live \ {"minute"} : newest[k] >= LatestTrade(today - 1)
  /\ "minute" \in Live => \A s \in Shard : shard[s] >= LatestTrade(today - 1)

\* The successes of the window have rows of today.
DoneHasRows ==
  \A k \in done :
    /\ k \in Live
    /\ k # "minute" => newest[k] >= today
    /\ k = "minute" => \E s \in Shard : shard[s] >= today

RhythmInv == NotBeforeFirst /\ (rhythm => PastHeld /\ DoneHasRows)

\* The newest trading day up to d is one, unless there is none; up to a later day
\* it is no earlier.
LEMMA LatestTradeIs ==
  ASSUME NEW d \in Nat
  PROVE  LatestTrade(d) # 0 => LatestTrade(d) \in Trading
<1> DEFINE S == {0} \cup {t \in Trading : t <= d}
<1>1. S \in SUBSET (0..d) /\ S # {}
  <2>1. \A t \in Trading : t <= d => t \in 0..d
    BY SentinelAssumption
  <2> QED BY <2>1
<1>2. Max(S) \in S
  BY <1>1, GreatestNat
<1> QED BY <1>2 DEF LatestTrade

\* Before the first day of all there is no trading day.
LEMMA NoTradeBefore ==
  ASSUME NEW x \in Int, x < 0
  PROVE  LatestTrade(x) = 0
<1>1. {t \in Trading : t <= x} = {}
  <2> SUFFICES ASSUME NEW t \in Trading, t <= x PROVE FALSE
    OBVIOUS
  <2>1. t \in Nat
    BY SentinelAssumption
  <2> QED BY <2>1
<1>2. {0} \cup {t \in Trading : t <= x} = {0}
  BY <1>1
<1>3. {0} \in SUBSET (0..0) /\ 0 \in Nat
  OBVIOUS
<1>4. Max({0}) \in {0}
  BY <1>3, GreatestNat
<1> QED BY <1>2, <1>4 DEF LatestTrade

\* Some trading day is over.
LEMMA HistoryIsThere ==
  ASSUME TypeOK, NotBeforeFirst
  PROVE  /\ today \in Nat /\ today - 1 \in Nat
         /\ \E t \in Trading : 0 < t /\ t <= today - 1
         /\ LatestTrade(today - 1) \in 1..(today - 1)
<1>1. today \in Nat /\ today - 1 \in Nat /\ FirstDay \in Nat /\ FirstDay <= today
  BY SentinelAssumption DEF TypeOK, Day, NotBeforeFirst
<1>2. PICK t \in Trading : 0 < t /\ t < FirstDay
  BY SentinelAssumption
<1>3. t \in Nat /\ t <= today - 1
  BY <1>1, <1>2, SentinelAssumption
<1>4. LatestTrade(today - 1) \in 0..(today - 1) /\ t <= LatestTrade(today - 1)
  BY <1>1, <1>3, LatestTradeUpTo
<1>5. LatestTrade(today - 1) >= 1
  BY <1>1, <1>2, <1>3, <1>4
<1> QED BY <1>1, <1>2, <1>3, <1>4, <1>5

\* A table that has the newest trading day that is over satisfies every
\* expectation about a day before today, whether there was trading by then or not.
LEMMA PastOk ==
  ASSUME TypeOK, NotBeforeFirst, NEW n \in Nat, n >= LatestTrade(today - 1),
         NEW x \in Int, x <= today - 1
  PROVE  Fresh(n, OrElse(LatestTrade(x), x)) = "OK"
<1> DEFINE held == LatestTrade(today - 1)
<1>1. /\ today - 1 \in Nat /\ held \in 1..(today - 1)
      /\ \A t \in Trading : t <= today - 1 => t <= held
  BY HistoryIsThere, LatestTradeUpTo
<1>2. n >= 1 /\ n >= held /\ held \in Nat
  BY <1>1
<1> HIDE DEF held
<1>3. CASE x < 0
  BY <1>2, <1>3, NoTradeBefore DEF Fresh, OrElse
<1>4. CASE x >= 0
  <2>1. LatestTrade(x) \in 0..x /\ \A t \in Trading : t <= x => t <= LatestTrade(x)
    BY <1>4, LatestTradeUpTo
  <2>2. CASE LatestTrade(x) # 0
    <3>1. LatestTrade(x) \in Trading /\ LatestTrade(x) <= today - 1
      BY <1>1, <1>4, <2>1, <2>2, LatestTradeIs
    <3>2. LatestTrade(x) <= held
      BY <1>1, <3>1
    <3>3. LatestTrade(x) <= n
      BY <1>2, <2>1, <3>2
    <3> QED BY <1>2, <2>1, <2>2, <3>3 DEF Fresh, OrElse
  <2>3. CASE LatestTrade(x) = 0
    <3>1. PICK t \in Trading : 0 < t /\ t <= today - 1
      BY HistoryIsThere
    <3>2. t \in Nat /\ t <= held
      BY <1>1, <3>1, SentinelAssumption
    <3>3. ~ (t <= x)
      BY <2>1, <2>3, <3>1, <3>2
    <3>4. ~ (n < x)
      BY <1>2, <3>2, <3>3
    <3> QED BY <1>2, <2>3, <3>4 DEF Fresh, OrElse
  <2> QED BY <2>2, <2>3
<1> QED BY <1>3, <1>4

\* An expectation that names an earlier trading day is met the same way.
LEMMA EarlierTradeOk ==
  ASSUME TypeOK, NotBeforeFirst, NEW n \in Nat, n >= LatestTrade(today - 1),
         NEW x \in Trading, x < today
  PROVE  Fresh(n, x) = "OK"
<1>1. today - 1 \in Nat /\ LatestTrade(today - 1) \in 1..(today - 1) /\ x \in Nat /\ today \in Nat
  BY HistoryIsThere, SentinelAssumption
<1>2. x <= today - 1
  BY <1>1
<1>3. x <= LatestTrade(today - 1)
  BY <1>1, <1>2, LatestTradeUpTo
<1> QED BY <1>1, <1>3 DEF Fresh

\* The Friday of the week before is over, whichever week that is taken for.
LEMMA LastFridayIsOver ==
  ASSUME NEW d \in Nat \ {0}
  PROVE  FridayOf(LastWeek(Week(d))) \in Int /\ FridayOf(LastWeek(Week(d))) <= d - 1
<1> DEFINE w == Week(d)
<1>1. WeekLength \in Nat \ {0} /\ Friday \in Int /\ Friday <= WeekLength
  BY SentinelAssumption
<1>2. w \in Int /\ w * WeekLength <= d - 1
  BY <1>1 DEF Week
<1> HIDE DEF w
<1>3. LastWeek(w) = w - 1 \/ LastWeek(w) = w - 2
  BY DEF LastWeek
<1>4. /\ (w - 1) * WeekLength = w * WeekLength - WeekLength
      /\ (w - 2) * WeekLength = w * WeekLength - 2 * WeekLength
  BY <1>1, <1>2
<1>5. w * WeekLength \in Int
  BY <1>1, <1>2
<1>6. FridayOf(LastWeek(w)) \in Int /\ FridayOf(LastWeek(w)) <= d - 1
  <2> DEFINE p == w * WeekLength
  <2>1. p \in Int /\ p <= d - 1
    BY <1>2, <1>5
  <2>2. \/ FridayOf(LastWeek(w)) = p - WeekLength + Friday
        \/ FridayOf(LastWeek(w)) = p - 2 * WeekLength + Friday
    BY <1>3, <1>4 DEF FridayOf
  <2> HIDE DEF p
  <2> QED BY <1>1, <2>1, <2>2
<1> QED BY <1>6 DEF w

-----------------------------------------------------------------------------
(* The six checks of a day in rhythm.                                      *)

\* What holds at a check that finds the rhythm kept.
InRhythm == IInv /\ RhythmInv /\ rhythm /\ OnTime

LEMMA DailyQuiet == InRhythm /\ "daily" \in Live => DailyCheck = "OK"
<1> SUFFICES ASSUME InRhythm, "daily" \in Live PROVE DailyCheck = "OK"
  OBVIOUS
<1> DEFINE n == newest["daily"]
<1>1. /\ TypeOK /\ NotBeforeFirst /\ n \in Nat /\ n >= LatestTrade(today - 1)
      /\ today \in Nat
  BY SentinelAssumption, HistoryIsThere DEF InRhythm, IInv, RhythmInv, PastHeld, TypeOK, Kind
<1>2. LatestTrade(today - 1) # 0 /\ LatestTrade(today) # 0
  <2>1. PICK t \in Trading : 0 < t /\ t <= today - 1
    BY <1>1, HistoryIsThere
  <2>2. t \in Nat /\ t <= today
    BY <1>1, <2>1, SentinelAssumption
  <2>3. LatestTrade(today) \in Nat /\ t <= LatestTrade(today)
    BY <1>1, <2>2, LatestTradeUpTo
  <2>4. LatestTrade(today - 1) \in 1..(today - 1)
    BY <1>1, HistoryIsThere
  <2> QED BY <1>1, <2>1, <2>2, <2>3, <2>4
<1>3. CASE Past18(today) /\ LatestTrade(today) = today
  <2>1. today \in Trading /\ part >= Collecting
    BY <1>1, <1>2, <1>3, LatestTradeIs DEF Past18, Evening, Collecting, TypeOK, Part, Midnight, Night
  <2>2. n = today
    BY <2>1 DEF InRhythm, OnTime
  <2> QED BY <1>1, <1>2, <1>3, <2>2 DEF DailyCheck, DailyExpected, Fresh
<1>4. CASE ~ (Past18(today) /\ LatestTrade(today) = today)
  <2>1. DailyExpected = LatestTrade(today - 1)
    BY <1>2, <1>4 DEF DailyExpected, OrElse
  <2>2. LatestTrade(today - 1) \in 1..(today - 1) /\ today - 1 \in Nat
    BY <1>1, HistoryIsThere
  <2>3. Fresh(n, LatestTrade(today - 1)) = "OK"
    BY <1>1, <2>2 DEF Fresh
  <2> QED BY <1>2, <2>1, <2>3 DEF DailyCheck
<1> QED BY <1>3, <1>4

LEMMA MinuteQuiet == InRhythm /\ "minute" \in Live => MinuteCheck = "OK"
<1> SUFFICES ASSUME InRhythm, "minute" \in Live PROVE MinuteCheck = "OK"
  OBVIOUS
<1> DEFINE T == {shard[s] : s \in Filled}
           held == LatestTrade(today - 1)
<1>1. /\ TypeOK /\ NotBeforeFirst /\ today \in Nat /\ held \in 1..(today - 1) /\ today - 1 \in Nat
      /\ \A s \in Shard : shard[s] \in Nat /\ shard[s] >= held
  BY SentinelAssumption, HistoryIsThere DEF InRhythm, IInv, RhythmInv, PastHeld, TypeOK, Kind
<1>2. Filled = Shard /\ Filled # {}
  <2>1. held >= 1 /\ held \in Nat
    BY <1>1
  <2> HIDE DEF held
  <2>2. \A s \in Shard : shard[s] # 0
    BY <1>1, <2>1
  <2> QED BY <2>2, SentinelAssumption DEF Filled
<1>3. T \in SUBSET Nat /\ T # {}
  BY <1>1, <1>2
<1>4. Min(T) \in T
  BY <1>3, LeastNat
<1>5. PICK s \in Shard : Min(T) = shard[s]
  BY <1>2, <1>4
<1>6. shard[s] \in Nat /\ shard[s] >= held /\ shard[s] # 0
  <2>1. held >= 1 /\ held \in Nat
    BY <1>1
  <2> HIDE DEF held
  <2> QED BY <1>1, <2>1
<1>7. MinuteExpected <= shard[s]
  <2>1. CASE today \in Trading /\ part = Night
    <3>1. shard[s] = today
      BY <2>1 DEF InRhythm, OnTime, Night, Evening
    <3> QED BY <1>1, <2>1, <3>1 DEF MinuteExpected
  <2>2. CASE ~ (today \in Trading /\ part = Night)
    <3>1. MinuteExpected = 0 \/ MinuteExpected = held
      BY <2>2 DEF MinuteExpected
    <3>2. held \in Nat
      BY <1>1
    <3> HIDE DEF held
    <3> QED BY <1>6, <3>1, <3>2
  <2> QED BY <2>1, <2>2
<1>8. MinuteExpected \in Int
  BY <1>1 DEF MinuteExpected
<1>9. Fresh(Min(T), MinuteExpected) = "OK"
  BY <1>5, <1>6, <1>7, <1>8 DEF Fresh
<1> QED BY <1>2, <1>9 DEF MinuteCheck

\* A week's or a month's bar that is expected to be dated today is there in the
\* evening; one dated by an earlier trading day is there anyway.
LEMMA DatedOk ==
  ASSUME InRhythm, NEW k \in {"weekly", "monthly"}, k \in Live,
         NEW x \in Trading, Past18(x)
  PROVE  Fresh(newest[k], x) = "OK"
<1>1. /\ TypeOK /\ NotBeforeFirst /\ newest[k] \in Nat
      /\ newest[k] >= LatestTrade(today - 1) /\ today \in Nat /\ today - 1 \in Nat
      /\ LatestTrade(today - 1) \in 1..(today - 1)
  BY SentinelAssumption, HistoryIsThere DEF InRhythm, IInv, RhythmInv, PastHeld, TypeOK, Kind
<1>2. CASE today > x
  <2>1. x < today
    BY <1>1, <1>2, SentinelAssumption
  <2> QED BY <1>1, <2>1, EarlierTradeOk
<1>3. CASE today = x /\ part >= Evening
  <2>1. newest[k] = today
    BY <1>1, <1>3 DEF InRhythm, OnTime, Evening, Collecting, TypeOK, Part, Midnight, Night
  <2>2. newest[k] # 0
    BY <1>1
  <2> QED BY <1>1, <1>3, <2>1, <2>2 DEF Fresh
<1> QED BY <1>2, <1>3 DEF Past18

LEMMA WeeklyQuiet == InRhythm /\ "weekly" \in Live => WeeklyCheck = "OK"
<1> SUFFICES ASSUME InRhythm, "weekly" \in Live PROVE WeeklyCheck = "OK"
  OBVIOUS
<1> DEFINE friday == FridayOf(Week(today))
           last == FridayOf(LastWeek(Week(today)))
<1>1. /\ TypeOK /\ NotBeforeFirst /\ newest["weekly"] \in Nat
      /\ newest["weekly"] >= LatestTrade(today - 1) /\ today \in Nat \ {0}
  BY SentinelAssumption, HistoryIsThere
     DEF InRhythm, IInv, RhythmInv, PastHeld, TypeOK, Kind, Day
<1>2. CASE Past18(friday) /\ LatestTrade(today) = friday
  <2>1. LatestTrade(today) # 0
    <3>1. PICK t \in Trading : 0 < t /\ t <= today - 1
      BY <1>1, HistoryIsThere
    <3>2. t \in Nat /\ t <= today
      BY <1>1, <3>1, SentinelAssumption
    <3>3. LatestTrade(today) \in Nat /\ t <= LatestTrade(today)
      BY <1>1, <3>2, LatestTradeUpTo
    <3> QED BY <3>1, <3>2, <3>3
  <2>2. friday \in Trading
    BY <1>1, <1>2, <2>1, LatestTradeIs
  <2> HIDE DEF friday
  <2>3. Fresh(newest["weekly"], friday) = "OK"
    BY <1>2, <2>2, DatedOk
  <2> QED BY <1>2, <2>3 DEF WeeklyCheck, WeeklyExpected, friday
<1>3. CASE ~ (Past18(friday) /\ LatestTrade(today) = friday)
  <2>1. last \in Int /\ last <= today - 1
    BY <1>1, LastFridayIsOver
  <2>2. WeeklyExpected = OrElse(LatestTrade(last), last)
    BY <1>3 DEF WeeklyExpected
  <2> HIDE DEF last
  <2> QED BY <1>1, <2>1, <2>2, PastOk DEF WeeklyCheck
<1> QED BY <1>2, <1>3

LEMMA MonthlyQuiet == InRhythm /\ "monthly" \in Live => MonthlyCheck = "OK"
<1> SUFFICES ASSUME InRhythm, "monthly" \in Live PROVE MonthlyCheck = "OK"
  OBVIOUS
<1> DEFINE end == LastDayOfMonth
           before == LastDayOfPrevMonth
<1>1. /\ TypeOK /\ NotBeforeFirst /\ newest["monthly"] \in Nat
      /\ newest["monthly"] >= LatestTrade(today - 1)
      /\ today \in Nat \ {0} /\ today - 1 \in Nat /\ today <= LastDay
  BY SentinelAssumption, HistoryIsThere
     DEF InRhythm, IInv, RhythmInv, PastHeld, TypeOK, Kind, Day
<1>2. end \in Nat
  <2> DEFINE S == {e \in MonthEnd : e >= today}
  <2>1. PICK e \in MonthEnd : LastDay <= e
    BY SentinelAssumption
  <2>2. e \in S
    BY <1>1, <2>1, SentinelAssumption
  <2>3. S \in SUBSET Nat
    BY SentinelAssumption
  <2>4. Min(S) \in S
    BY <2>2, <2>3, LeastNat
  <2> QED BY <2>3, <2>4 DEF LastDayOfMonth
<1>3. before \in Int /\ before <= today - 1
  <2> DEFINE S == {0} \cup {e \in MonthEnd : e < today}
  <2>1. S \in SUBSET (0..(today - 1)) /\ S # {}
    <3>1. ASSUME NEW e \in MonthEnd, e < today PROVE e \in 0..(today - 1)
      <4>1. e \in Nat
        BY SentinelAssumption
      <4> QED BY <1>1, <3>1, <4>1
    <3> QED BY <1>1, <3>1
  <2>2. Max(S) \in 0..(today - 1)
    BY <1>1, <2>1, GreatestNat
  <2> QED BY <1>1, <2>2 DEF LastDayOfPrevMonth
<1>4. CASE LatestTrade(end) # 0 /\ Past18(LatestTrade(end))
  <2>1. LatestTrade(end) \in Trading
    BY <1>2, <1>4, LatestTradeIs
  <2>2. Fresh(newest["monthly"], LatestTrade(end)) = "OK"
    BY <1>4, <2>1, DatedOk
  <2> QED BY <1>4, <2>2 DEF MonthlyCheck, MonthlyExpected
<1>5. CASE ~ (LatestTrade(end) # 0 /\ Past18(LatestTrade(end)))
  <2>1. MonthlyExpected = OrElse(LatestTrade(before), before)
    BY <1>5 DEF MonthlyExpected
  <2> HIDE DEF before
  <2> QED BY <1>1, <1>3, <2>1, PastOk DEF MonthlyCheck
<1> QED BY <1>4, <1>5

LEMMA FakeQuiet == InRhythm => FakeSuccessCheck = "OK"
<1> SUFFICES ASSUME InRhythm, NEW k \in done PROVE HasNewRows(k)
  BY DEF FakeSuccessCheck
<1>1. /\ today \in Int /\ k \in Kind
      /\ \A j \in Kind \ {"minute"} : newest[j] \in Int
      /\ \A s \in Shard : shard[s] \in Int
  BY SentinelAssumption DEF InRhythm, IInv, TypeOK, Day
<1>2. WindowDate \in Int /\ WindowDate <= today
  BY <1>1 DEF WindowDate
<1>3. /\ k # "minute" => newest[k] >= today
      /\ k = "minute" => \E s \in Shard : shard[s] >= today
  BY DEF InRhythm, RhythmInv, DoneHasRows
<1> QED BY <1>1, <1>2, <1>3 DEF HasNewRows

\* No more than five minutes of cool-down pass between two failures of a source, so
\* no breaker is ever found open for long.
LEMMA BreakersQuiet == TypeOK => BreakerCheck = "OK"
<1> SUFFICES ASSUME TypeOK, NEW s \in Source PROVE ~ (Elapsed(s) > LongOpen)
  BY DEF BreakerCheck
<1>1. cooling[s] \in 0..300
  BY DEF TypeOK, Cooldown
<1> QED BY <1>1 DEF Elapsed, Cooldown, LongOpen

-----------------------------------------------------------------------------
THEOREM InitRhythmInv == Init => RhythmInv
<1> SUFFICES ASSUME Init PROVE RhythmInv
  OBVIOUS
<1>1. FirstDay \in Nat /\ FirstDay - 1 \in Nat
  BY SentinelAssumption
<1>2. LatestTrade(FirstDay - 1) \in Int
  BY <1>1, LatestTradeUpTo
<1>3. PastHeld
  BY <1>2, SentinelAssumption DEF Init, PastHeld
<1> QED BY <1>1, <1>3 DEF Init, RhythmInv, NotBeforeFirst, DoneHasRows

LEMMA WorkInRhythm ==
  ASSUME IInv, RhythmInv,
         \/ \E k \in Kind \ {"minute"}, d \in Day : Collects(k, d)
         \/ \E d \in Day, S \in SUBSET Shard : S # {} /\ CollectsMinute(d, S)
         \/ \E k \in Kind : SucceedsEmpty(k)
         \/ \E s \in Source, left \in {1, Cooldown} : SourceFails(s, left)
  PROVE  RhythmInv'
<1> DEFINE held == LatestTrade(today - 1)
<1>0. /\ TypeOK /\ NotBeforeFirst /\ held \in Int /\ today \in Int /\ Day \subseteq Int
      /\ \A k \in Kind \ {"minute"} : newest[k] \in 0..LastDay
      /\ \A s \in Shard : shard[s] \in 0..LastDay
      /\ LastDay \in Nat
  <2>1. TypeOK /\ NotBeforeFirst
    BY DEF IInv, RhythmInv
  <2>2. held \in 1..(today - 1) /\ today - 1 \in Nat /\ today \in Nat
    BY <2>1, HistoryIsThere
  <2> QED BY <2>1, <2>2, SentinelAssumption DEF TypeOK, Day
<1>1. ASSUME NEW k \in Kind \ {"minute"}, NEW d \in Day, Collects(k, d) PROVE RhythmInv'
  <2>1. /\ today' = today /\ shard' = shard /\ rhythm' = (rhythm /\ d = today)
        /\ done' \in {done, done \cup {k}} /\ k \in Live
        /\ newest' = [newest EXCEPT ![k] = Later(d, newest[k])]
    BY <1>1 DEF Collects, Writes
  <2>2. SUFFICES ASSUME rhythm, d = today PROVE PastHeld' /\ DoneHasRows'
    BY <1>0, <2>1 DEF RhythmInv, NotBeforeFirst
  <2>3. /\ newest'[k] = Later(d, newest[k]) /\ newest'[k] \in Int
        /\ newest'[k] >= today /\ newest'[k] >= newest[k]
        /\ \A j \in (Kind \ {"minute"}) \ {k} : newest'[j] = newest[j]
    <3>1. newest'[k] = Later(d, newest[k]) /\ \A j \in (Kind \ {"minute"}) \ {k} : newest'[j] = newest[j]
      BY <1>0, <2>1 DEF TypeOK
    <3> QED BY <1>0, <2>2, <3>1, LaterOfTwo
  <2>4. PastHeld /\ DoneHasRows
    BY <2>2 DEF RhythmInv
  <2>5. PastHeld'
    <3>1. \A j \in Live \ {"minute"} : newest[j] >= held /\ newest[j] \in Int /\ j \in Kind \ {"minute"}
      BY <1>0, <2>4, SentinelAssumption DEF PastHeld
    <3>2. newest'[k] >= held
      BY <1>0, <2>1, <2>3, <3>1
    <3>3. \A j \in Live \ {"minute"} : newest'[j] >= held
      BY <2>3, <3>1, <3>2
    <3> QED BY <2>1, <2>4, <3>3 DEF PastHeld
  <2>6. DoneHasRows'
    <3> SUFFICES ASSUME NEW j \in done'
                 PROVE  /\ j \in Live
                        /\ j # "minute" => newest'[j] >= today
                        /\ j = "minute" => \E s \in Shard : shard[s] >= today
      BY <2>1 DEF DoneHasRows
    <3>1. CASE j = k
      BY <2>1, <2>3, <3>1
    <3>2. CASE j # k
      BY <1>0, <2>1, <2>3, <2>4, <3>2 DEF DoneHasRows, TypeOK
    <3> QED BY <3>1, <3>2
  <2> QED BY <2>5, <2>6
<1>2. ASSUME NEW d \in Day, NEW S \in SUBSET Shard, S # {}, CollectsMinute(d, S) PROVE RhythmInv'
  <2>1. /\ today' = today /\ newest' = newest /\ rhythm' = (rhythm /\ d = today)
        /\ done' \in {done, done \cup {"minute"}} /\ "minute" \in Live
        /\ shard' = [s \in Shard |-> IF s \in S THEN Later(d, shard[s]) ELSE shard[s]]
    BY <1>2 DEF CollectsMinute, Writes
  <2>2. SUFFICES ASSUME rhythm, d = today PROVE PastHeld' /\ DoneHasRows'
    BY <1>0, <2>1 DEF RhythmInv, NotBeforeFirst
  <2>3. \A s \in Shard : /\ shard'[s] \in Int /\ shard'[s] >= shard[s]
                         /\ s \in S => shard'[s] >= today
    <3>1. \A s \in Shard : shard'[s] = IF s \in S THEN Later(d, shard[s]) ELSE shard[s]
      BY <2>1
    <3> QED BY <1>0, <2>2, <3>1, LaterOfTwo
  <2>4. PastHeld /\ DoneHasRows
    BY <2>2 DEF RhythmInv
  <2>5. PastHeld'
    <3>1. \A s \in Shard : shard'[s] >= held
      BY <1>0, <2>1, <2>3, <2>4 DEF PastHeld
    <3> QED BY <2>1, <2>4, <3>1 DEF PastHeld
  <2>6. \E s \in Shard : shard'[s] >= today
    BY <1>2, <2>3
  <2>7. DoneHasRows'
    BY <2>1, <2>4, <2>6 DEF DoneHasRows
  <2> QED BY <2>5, <2>7
<1>3. ASSUME NEW k \in Kind, SucceedsEmpty(k) PROVE RhythmInv'
  BY <1>0, <1>3 DEF SucceedsEmpty, RhythmInv, NotBeforeFirst
<1>4. ASSUME NEW s \in Source, NEW left \in {1, Cooldown}, SourceFails(s, left) PROVE RhythmInv'
  BY <1>4 DEF SourceFails, RhythmInv, NotBeforeFirst, PastHeld, DoneHasRows
<1> QED BY <1>1, <1>2, <1>3, <1>4

\* Over night the day's own bars take the place of the day before's.
LEMMA AdvanceInRhythm ==
  ASSUME IInv, RhythmInv, Advance
  PROVE  RhythmInv'
<1> DEFINE held == LatestTrade(today - 1)
<1>0. /\ TypeOK /\ NotBeforeFirst /\ held \in 1..(today - 1) /\ today \in Nat /\ today - 1 \in Nat
      /\ FirstDay \in Nat
  BY HistoryIsThere, SentinelAssumption DEF IInv, RhythmInv
<1>1. /\ today' = IF part = Night THEN today + 1 ELSE today
      /\ newest' = newest /\ shard' = shard /\ done' = {}
      /\ rhythm' => rhythm /\ OnTime
  BY DEF Advance
<1>2. NotBeforeFirst'
  BY <1>0, <1>1 DEF NotBeforeFirst
<1>3. ASSUME rhythm' PROVE PastHeld'
  <2>1. PastHeld /\ OnTime
    BY <1>1, <1>3 DEF RhythmInv
  <2>2. CASE part # Night
    BY <1>1, <2>1, <2>2 DEF PastHeld
  <2>3. CASE part = Night
    <3>1. today' - 1 = today
      BY <1>0, <1>1, <2>3
    <3>2. CASE today \in Trading
      <4>1. LatestTrade(today) = today
        BY <1>0, <3>2, TodayIsLatest
      <4>2. /\ \A k \in Live \ {"minute"} : newest[k] = today
            /\ "minute" \in Live => \A s \in Shard : shard[s] = today
        BY <2>1, <2>3, <3>2 DEF OnTime, Night, Collecting, Evening
      <4>3. today >= today
        BY <1>0
      <4> QED BY <1>1, <3>1, <4>1, <4>2, <4>3 DEF PastHeld
    <3>3. CASE today \notin Trading
      <4>1. LatestTrade(today) \in 0..today
        BY <1>0, LatestTradeUpTo
      <4>2. LatestTrade(today) <= held
        <5>1. CASE LatestTrade(today) = 0
          BY <1>0, <5>1
        <5>2. CASE LatestTrade(today) # 0
          <6>1. LatestTrade(today) \in Trading /\ LatestTrade(today) <= today - 1
            BY <1>0, <3>3, <4>1, <5>2, LatestTradeIs
          <6> QED BY <1>0, <6>1, LatestTradeUpTo
        <5> QED BY <5>1, <5>2
      <4>3. held \in Int /\ LatestTrade(today) \in Int
        BY <1>0, <4>1
      <4> HIDE DEF held
      <4>4. \A k \in Live \ {"minute"} : newest[k] \in Int /\ newest[k] >= held
        BY <1>0, <2>1, SentinelAssumption DEF PastHeld, TypeOK, held
      <4>5. "minute" \in Live => \A s \in Shard : shard[s] \in Int /\ shard[s] >= held
        BY <1>0, <2>1, SentinelAssumption DEF PastHeld, TypeOK, held
      <4>6. \A k \in Live \ {"minute"} : newest[k] >= LatestTrade(today)
        BY <4>2, <4>3, <4>4
      <4>7. "minute" \in Live => \A s \in Shard : shard[s] >= LatestTrade(today)
        BY <4>2, <4>3, <4>5
      <4> QED BY <1>1, <3>1, <4>6, <4>7 DEF PastHeld
    <3> QED BY <3>2, <3>3
  <2> QED BY <2>2, <2>3
<1>4. DoneHasRows'
  BY <1>1 DEF DoneHasRows
<1> QED BY <1>2, <1>3, <1>4 DEF RhythmInv

THEOREM NextRhythmInv == IInv /\ RhythmInv /\ [Next]_vars => RhythmInv'
<1> SUFFICES ASSUME IInv, RhythmInv, [Next]_vars PROVE RhythmInv'
  OBVIOUS
<1>1. CASE Check \/ CheckLost
  BY <1>1, AdvanceInRhythm DEF Check, CheckLost
<1>2. CASE UNCHANGED vars
  BY <1>2 DEF vars, RhythmInv, NotBeforeFirst, PastHeld, DoneHasRows
<1> QED BY <1>1, <1>2, WorkInRhythm DEF Next

LEMMA QuietStep ==
  ASSUME IInv, RhythmInv, [Next]_vars, Written, rhythm'
  PROVE  \A k \in Live \cup {"fake", "breakers"} : report'.checks[k] = "OK"
<1>1. Advance /\ report' = Report
  BY DEF Written, Next, vars, Collects, CollectsMinute, Writes, SucceedsEmpty, SourceFails,
         Check, CheckLost
<1>2. InRhythm
  BY <1>1 DEF Advance, InRhythm
<1>3. report'.checks = Checks
  BY <1>1 DEF Report
<1>4. Checks["fake"] = "OK" /\ Checks["breakers"] = "OK"
  BY <1>2, FakeQuiet, BreakersQuiet DEF Checks, IInv
<1>5. ASSUME NEW k \in Live PROVE Checks[k] = "OK"
  <2>1. k \in Kind
    BY SentinelAssumption
  <2>2. CASE k = "daily"
    BY <1>2, <2>2, DailyQuiet DEF Checks
  <2>3. CASE k = "minute"
    BY <1>2, <2>3, MinuteQuiet DEF Checks
  <2>4. CASE k = "weekly"
    BY <1>2, <2>4, WeeklyQuiet DEF Checks
  <2>5. CASE k = "monthly"
    BY <1>2, <2>5, MonthlyQuiet DEF Checks
  <2> QED BY <2>1, <2>2, <2>3, <2>4, <2>5 DEF Kind
<1> QED BY <1>3, <1>4, <1>5

\* While the collectors keep the rhythm no check raises the alarm, on any calendar
\* of trading days, weeks and months: not over a holiday on a Friday, not in the
\* first week of a month or of a year, nor when the year before has 53 weeks.
THEOREM AlarmsAreTrue == Spec => NoFalseAlarm
<1>1. IInv /\ RhythmInv /\ [Next]_vars =>
        (Written /\ rhythm' => \A k \in Live \cup {"fake", "breakers"} : report'.checks[k] = "OK")
  BY QuietStep
<1> QED BY <1>1, InitIInv, NextIInv, InitRhythmInv, NextRhythmInv, PTL DEF Spec, NoFalseAlarm
=============================================================================
