SPECIFICATION FairSpec
CONSTANTS
  Requests <- MixedRequests
  MaxCommands = 4
  MaxStops = 1
  InCapacity = 1
  OutCapacity = 3
  ReadMax = 3
INVARIANTS
  TypeOK
  NoStrandedWrite
  ReadAlwaysQueued
  OutputsInOrder
  HandlersMatch
  StackOfOneStop
PROPERTIES
  CommandsInOrder
  EveryCommandDelivered
  DestructorFinishes
CHECK_DEADLOCK FALSE
