SPECIFICATION LiveSpec
CONSTANTS
  Daemons = {d1, d2}
  Controllers = {c1, c2}
  Env = {"hasty", "kill", "exec", "dbfail"}
INVARIANTS
  TypeOK
  ServiceIsReachable
  OneTakesCommands
  CommandFindsServer
  NobodyIsAbandoned
PROPERTIES
  CommandReturns
