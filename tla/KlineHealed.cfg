SPECIFICATION Spec
CONSTANTS
  LastDay = 7
  Trading <- AllDays
  Week <- WeeksOfThree
  Adjust = {"bare", "qfq"}
  DaysBack = 3
  MinuteDays = 2
  ActiveDays = 3
  StaleDays = 4
  Kinds = {}
  OnlineWeeks = FALSE
  Punctual = TRUE
INVARIANTS
  TradedDayHealed
  AdjustedDayHealed
CHECK_DEADLOCK FALSE
