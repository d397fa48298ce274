SPECIFICATION HungSpec
CONSTANTS
  s1 = s1
  s2 = s2
  m1 = m1
  m2 = m2
  Task = {2}
  Minute <- MCMinute
  Halted <- MCHalted
  Slot <- TwoSlots
  Session <- OneSession
  PoolSize = 2
  ClaimLimit = 1
  MaxRetry = 2
  MaxManual = 0
  MaxResets = 1
  SlowJobs = TRUE
INVARIANT RunningHasJob
PROPERTY RunningRecovered
