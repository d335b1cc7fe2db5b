SPECIFICATION FairSpec
CONSTANTS
  c1 = c1
  c2 = c2
  stranger = stranger
  Reader = Reader
  Main = Main
  NoPipe = NoPipe
  NoLine = NoLine
  Clients <- TwoTrains
  Strangers <- NoStranger
  MaxPipes = 2
  MaxReads = 2
  MaxMessages = 2
PROPERTIES
  InOrderOnce
  SettledReadReturns
\* The trains make a bounded number of reads, and the process may be killed.
CHECK_DEADLOCK FALSE
