SPECIFICATION LiveSpec
CONSTANTS
  Paths = {"a"}
  Env = {"samesize"}
  MaxQueue = 1
PROPERTIES
  ChangeIsSignalled
\* Nothing happens any more when the directory does not exist.
CHECK_DEADLOCK FALSE
