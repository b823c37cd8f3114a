SPECIFICATION LiveSpec
CONSTANTS
  Paths = {"a", "b"}
  Env = {"delete", "settings", "quit"}
  MaxQueue = 2
INVARIANTS
  TypeOK
  InsertionIsAlone
  WatchedExactlyWhenListed
  ChangeIsUnderWay
  QuitIsUnderWay
PROPERTIES
  ChangeIsSignalled
  RemovalEnds
\* A lost quit leaves the program hanging.
CHECK_DEADLOCK FALSE
