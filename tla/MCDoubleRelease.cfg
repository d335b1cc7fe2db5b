SPECIFICATION RepeatSpec
CONSTANTS
  t1 = t1
  t2 = t2
  t3 = t3
  r1 = r1
  r2 = r2
  outOfRange = outOfRange
  Nobody = Nobody
  Nothing = Nothing
  Trains <- TwoTrains
  Resources <- OneResource
  Ids <- OneId
  Amounts <- OneUnit
  SemValueMax = 2
INVARIANT AtMostOneTrain
