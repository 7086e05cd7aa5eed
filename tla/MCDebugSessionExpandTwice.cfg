SPECIFICATION Spec
CONSTANTS
  Scopes <- OneScope
  Fields <- OneField
  Keys = {"F10"}
  MaxKeys = 1
  MaxClicks = 4
  MaxStops = 1
INVARIANT RemovedNodeIsInItsParent
CHECK_DEADLOCK FALSE
