SPECIFICATION Spec
CONSTANTS
  s1 = s1
  s2 = s2
  m1 = m1
  m2 = m2
  Task = {1, 2}
  Minute <- MCMinute
  Halted <- MCHalted
  Slot <- TwoSlots
  Session <- TwoSessions
  PoolSize = 2
  ClaimLimit = 2
  MaxRetry = 2
  MaxManual = 1
  MaxResets = 2
  SlowJobs = FALSE
SYMMETRY Symmetry
INVARIANTS TypeOK SingleOwner RetryBudget
PROPERTIES SuccessFinal ImplementsQueue
