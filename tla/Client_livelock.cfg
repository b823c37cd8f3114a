SPECIFICATION FairSpec
CONSTANTS
  Env = {"loss", "network"}
  MaxShots = 2
  MaxTrouble = 1
  MaxLines = 1
PROPERTIES
  LossHeals
CHECK_DEADLOCK FALSE
