SPECIFICATION Spec
CONSTANTS
  LastDay = 3
  Trading <- AllDays
  Week <- WeeksOfThree
  Adjust = {"bare"}
  DaysBack = 2
  MinuteDays = 1
  ActiveDays = 1
  StaleDays = 2
  Kinds = {"minute", "weekly"}
  OnlineWeeks = TRUE
  Punctual = FALSE
INVARIANTS
  TypeOK
PROPERTIES
  ActiveStockWaits
  BarsOnlyGrow
CHECK_DEADLOCK FALSE
