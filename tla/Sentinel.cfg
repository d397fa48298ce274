SPECIFICATION Spec
INVARIANT TypeOK
PROPERTY OutageReported
PROPERTY NoFalseAlarm
CONSTANTS
  Shard <- TwoShards
  Source <- OneSource
  Live <- AllKinds
  FirstDay = 5
  LastDay = 9
  Trading <- WithHoliday
  WeekLength = 3
  Friday = 2
  MonthEnd <- Months
  NewYear = 2
  LongYear = FALSE
  m1 = m1
  m2 = m2
  s1 = s1
VIEW WithoutReport
SYMMETRY Symmetry
CHECK_DEADLOCK FALSE
