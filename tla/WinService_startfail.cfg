SPECIFICATION Spec
CONSTANTS
  Env = {"startfail"}
INVARIANTS
  StoppedIsFinal
