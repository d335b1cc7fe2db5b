SPECIFICATION FairSpec
CONSTANTS
  t1 = t1
  t2 = t2
  t3 = t3
  r1 = r1
  r2 = r2
  outOfRange = outOfRange
  Nobody = Nobody
  Nothing = Nothing
  Trains <- ThreeTrains
  Resources <- TwoResources
  Ids <- TwoIds
  Amounts <- OneUnit
  SemValueMax = 2
INVARIANTS
  TypeOK
  AtMostOneTrain
  HolderMayRelease
  NoLostWakeup
  WaitsOnInitialised
  UnitsConserved
PROPERTIES
  FreedIsTaken
  ImplementsExclusiveUse
\* Two trains that each hold what the other waits for stop for good.
CHECK_DEADLOCK FALSE
