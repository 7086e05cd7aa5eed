SPECIFICATION Spec
CONSTANTS
  Scopes <- OneScope
  Fields <- OneField
  Keys = {"F10"}
  MaxKeys = 2
  MaxClicks = 2
  MaxStops = 2
INVARIANT UpdatedNodeExists
CHECK_DEADLOCK FALSE
