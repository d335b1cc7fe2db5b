SPECIFICATION FairSpec
CONSTANTS
  c1 = c1
  c2 = c2
  stranger = stranger
  Reader = Reader
  Main = Main
  NoPipe = NoPipe
  NoLine = NoLine
  Clients <- TwoClients
  Strangers <- OneStranger
  Answers <- OneAnswer
  MaxPipes = 2
  MaxCalls = 2
  MaxLines = 1
INVARIANTS
  TypeOK
  AnswersItsRequest
  ReadsItsOwnPipe
PROPERTY CallsReturn
\* The clients make a bounded number of calls, and the process may be killed.
CHECK_DEADLOCK FALSE
