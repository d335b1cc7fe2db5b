SPECIFICATION FairSpec
CONSTANTS
  c1 = c1
  c2 = c2
  stranger = stranger
  Reader = Reader
  Main = Main
  NoPipe = NoPipe
  NoLine = NoLine
  Clients <- OneTrain
  Strangers <- NoStranger
  MaxPipes = 2
  MaxReads = 1
  MaxMessages = 1
PROPERTY MessageEndsRead
CHECK_DEADLOCK FALSE
