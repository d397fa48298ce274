SPECIFICATION Spec
CONSTANTS
  c1 = c1
  c2 = c2
  sina = sina
  tencent = tencent
  eastmoney = eastmoney
  Caller <- TwoCallers
  Source <- ThreeSources
  Scenes <- BothScenes
  Threshold = 3
  SourceThreshold = 2
  EmptyThreshold = 0
  MaxTotal = 2
  LongCalls = FALSE
SYMMETRY Symmetry
INVARIANTS TypeOK OneProbe EmptyIsAnswered DeadSourcesContained
