SPECIFICATION FairSpec
CONSTANTS
  Usernames = {"alice"}
  Hostnames = {"home", "work"}
  Escape <- NoEscape
  Sockets = {s1, s2}
  Clients <- TwoHosts
  InitialUsers = {"alice"}
  Unreadable = {}
  Limit = 2
  Env = {"drop", "late", "vanish", "pause", "midnight", "restart", "unnoted"}
  MaxLines = 1
  MaxBusy = 1
  MaxNotices = 0
INVARIANTS
  ListedClientIsReachable
PROPERTIES
  GoneClientIsRemoved
