SPECIFICATION Spec
CONSTANTS
  Daemons = {d1, d2}
  Controllers = {c1, c2}
  Env = {"hasty"}
INVARIANTS
  RunningServiceIsReachable
