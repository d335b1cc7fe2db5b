SPECIFICATION FairSpec
CONSTANTS
  Stacks <- SomeStacks
  Station = 15
  Port = 52
  Switch = 18
INVARIANTS
  TypeOK
  RefusedIsNotDone
  WholeReportIsConfirmed
PROPERTY LateReportEndsWait
\* The program ends.
CHECK_DEADLOCK FALSE
