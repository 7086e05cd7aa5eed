SPECIFICATION FairSpec
CONSTANTS
  Requests <- FewRequests
  MaxCommands = 2
  MaxStops = 1
  InCapacity = 1
  OutCapacity = 3
  ReadMax = 3
PROPERTIES
  EveryOutputProcessed
CHECK_DEADLOCK FALSE
