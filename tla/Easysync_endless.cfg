SPECIFICATION FairSystemSpec
CONSTANTS
  Usernames = {"alice"}
  Hostnames = {"home", "work"}
  Escape <- NoEscape
  Sockets = {s1, s2}
  Clients <- TwoHosts
  InitialUsers = {"alice"}
  Unreadable = {}
  Limit = 1
  Env = {}
  MaxLines = 1
  MaxBusy = 2
  MaxNotices = 1
  MaxChanges = 2
PROPERTIES
  ExchangeEnds
CHECK_DEADLOCK FALSE
