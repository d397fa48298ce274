SPECIFICATION Spec
CONSTANTS
  old = old
  new = new
  Stock <- BothStocks
  Dormant <- OldStock
  Caliber <- TwoCalibers
  LastDay = 6
  Trading <- ThreeTradingDays
  Start <- FirstDays
  DaysBack = 3
  GenChunk = 3
  MaxMissed = 1
  LeapYears <- EveryFourth
  LastYear = 7
INVARIANTS TypeOK NoDayLost WeekHasItsDays SegmentsPartition
