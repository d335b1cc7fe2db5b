SPECIFICATION ManagerSpec
CONSTANTS
  t1 = t1
  Reader = Reader
  Main = Main
  NoPipe = NoPipe
  NoLine = NoLine
  train = t1
  Clients <- OneTrain
  Strangers <- NoStranger
  MaxPipes = 2
  MaxReads = 2
  MaxMessages = 2
  MaxBuffered = 1
INVARIANTS
  ManagerTypeOK
  TrainFirstIsSafe
PROPERTIES
  RepeatsOnlyLastLine
  EndTrainReturns
\* The process may be killed, and the train's reads are bounded.
CHECK_DEADLOCK FALSE
