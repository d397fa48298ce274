SPECIFICATION FairSpec
CONSTANTS
  a1 = a1
  a2 = a2
  t1 = t1
  t2 = t2
  Key = {"qps"}
  QpsKey = "qps"
  Value = {"low", "high"}
  Default = "low"
  Scripts <- V5V7
  Seed = "high"
  Admin <- TwoAdmins
  Thread <- TwoThreads
  MaxChanges = 2
  MaxOutages = 1
  MaxCrashes = 1
INVARIANTS
  TypeOK
  LimiterInStep
  SettingsSurvive
PROPERTIES
  LimiterConverges
