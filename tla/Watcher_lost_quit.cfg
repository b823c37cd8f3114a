SPECIFICATION LiveSpec
CONSTANTS
  Paths = {"a"}
  Env = {"delete"}
  MaxQueue = 1
PROPERTIES
  RemovalReturns
\* A lost quit leaves the program hanging.
CHECK_DEADLOCK FALSE
