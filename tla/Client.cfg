SPECIFICATION FairSpec
CONSTANTS
  Env = {"loss", "network", "hangup", "coalesce", "save", "startfail", "quit"}
  MaxShots = 2
  MaxTrouble = 2
  MaxLines = 2
INVARIANTS
  TypeOK
  NeverStranded
  PendingChangeIsCovered
  IdleClientWatches
PROPERTIES
  ReconnectsAgain
  ChangeIsSynced
