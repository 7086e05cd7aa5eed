SPECIFICATION Spec
CONSTANTS
  Scopes <- SomeScopes
  Fields <- OneLocal
  Keys = {"F10"}
  MaxKeys = 3
  MaxClicks = 0
  MaxStops = 3
INVARIANT EveryLocalHasABackendVariable
CHECK_DEADLOCK FALSE
