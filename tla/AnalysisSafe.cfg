SPECIFICATION Spec
CONSTANTS
  k1 = k1
  k2 = k2
  Strategy = {1, 2}
  Stock <- TwoStocks
  LastDay = 2
  Trading = {1, 2}
  MaxCrashes = 1
  Deletes = TRUE
  DbErrors = TRUE
SYMMETRY Symmetry
INVARIANTS
  TypeOK
  SnapshotOfItsDay
  OneLeftRunning
PROPERTIES
  DeletedStaysDeleted
