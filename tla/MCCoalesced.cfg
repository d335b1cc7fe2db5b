SPECIFICATION FairSpec
CONSTANTS
  Stacks <- ZeroStack
  Station = 15
  Port = 52
  Switch = 31
PROPERTY ReportEndsWait
CHECK_DEADLOCK FALSE
