SPECIFICATION FairSpec
CONSTANTS
  c1 = c1
  c2 = c2
  sina = sina
  tencent = tencent
  eastmoney = eastmoney
  Caller <- OneCaller
  Source <- OneSource
  Scenes <- OneScene
  Threshold = 2
  SourceThreshold = 2
  EmptyThreshold = 0
  MaxTotal = 2
  LongCalls = FALSE
PROPERTY HalfOpenResolves
