SPECIFICATION Spec
CONSTANTS
  Scopes <- OneScope
  Fields <- OneLocal
  Keys = {"F10", "C-S-F5"}
  MaxKeys = 2
  MaxClicks = 0
  MaxStops = 2
PROPERTY F10Steps
CHECK_DEADLOCK FALSE
