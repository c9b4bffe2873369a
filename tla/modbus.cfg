CONSTANTS
  HoldingMaxIndex = 1
  InputMaxIndex = 0
  SlaveId = 9
  RtuRequests <- ToMaster
  Chunks = {5, 9}
  Noise = {2}
  MaxFaults = 1
  TcpRequests <- ToClient
  Cuts = {6, 9, 13}
  MaxSplits = 1
  MaxRequests = 2
  MaxDisturbances = 1
SPECIFICATION FairSpec
INVARIANTS AnswerIsTrue OnlyConfirmedWrites NoneForgotten
PROPERTIES AskedFor EveryoneServed
CHECK_DEADLOCK FALSE
