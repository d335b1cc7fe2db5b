SPECIFICATION FairSpec
CONSTANTS
  t1 = t1
  t2 = t2
  t3 = t3
  r1 = r1
  r2 = r2
  outOfRange = outOfRange
  Nobody = Nobody
  Nothing = Nothing
  Registrar = Registrar
  Trains <- ThreeTrains
  Resources <- OneResource
  Ids <- OneId
  Amounts <- OneOrTwoUnits
  SemValueMax = 2
INVARIANTS
  TypeOK
  LockGuards
  OneUnitOneTrain
PROPERTIES
  LockAlwaysFreed
  ImplementsDatabase
\* A train that asks for a resource and never gets it waits for good.
CHECK_DEADLOCK FALSE
