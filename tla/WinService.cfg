SPECIFICATION LiveSpec
CONSTANTS
  Env = {"startfail", "slow", "console", "shutdown"}
INVARIANTS
  TypeOK
  OneWaiter
  StatusIsTrue
  PendingIsUnderWay
PROPERTIES
  StopEnds
  StartEnds
