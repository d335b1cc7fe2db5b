SPECIFICATION FairSpec
CONSTANTS
  c1 = c1
  c2 = c2
  Server = Server
  NoLine = NoLine
  Clients <- TwoClients
  Addresses = 2
  MaxLines = 2
  MaxWrites = 3
  MaxFaults = 1
INVARIANTS
  TypeOK
  EchoIsOwn
  LockStep
PROPERTIES
  AnswersLastLine
  ReadEndsUnlessLost
\* The clients write a bounded number of datagrams, and a lost one stops them.
CHECK_DEADLOCK FALSE
