SPECIFICATION FairSpec
CONSTANTS
  Scopes <- TwoScopes
  Fields <- TwoLocals
  Keys = {"F10", "C-S-F5"}
  MaxKeys = 3
  MaxClicks = 2
  MaxStops = 3
INVARIANTS
  TypeOK
  ViewMatchesMap
  QuiescentDisplay
  NoWatchLeak
CHECK_DEADLOCK FALSE
PROPERTIES
  WatchesAreALedger
  Settles
