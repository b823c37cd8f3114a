SPECIFICATION Spec
CONSTANTS
  Env = {}
  MaxShots = 1
  MaxTrouble = 0
  MaxLines = 1
PROPERTIES
  RogerMeansSynced
CHECK_DEADLOCK FALSE
