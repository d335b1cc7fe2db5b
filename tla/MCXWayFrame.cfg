SPECIFICATION Spec
CONSTANTS
  Addresses <- SmallAddresses
  Values <- SmallValues
  Conversations <- SmallConversations
  Lengths <- SmallLengths
INVARIANTS
  TypeOK
  RequestReadsBack
  AcceptedIsReply
  AckReachesReporter
  SwitchIsReported
  UnitTests
\* The exchange ends.
CHECK_DEADLOCK FALSE
