SPECIFICATION Spec
CONSTANTS
  a = a
  b = b
  Caller <- TwoCallers
  Cost = 3
  Second = 2
  Rates = {1, 3}
  MaxRetunes = 2
  MaxTime = 12
SYMMETRY Symmetry
INVARIANTS TwiceTheRate TypeOK
CHECK_DEADLOCK FALSE
