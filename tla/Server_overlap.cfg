SPECIFICATION Spec
CONSTANTS
  Usernames = {"alice", "carol"}
  Hostnames = {"home", "?"}
  Escape <- NoEscape
  Sockets = {s1, s2}
  Clients <- Mixed
  InitialUsers = {"alice"}
  Unreadable = {"?"}
  Limit = 1
  Env = {"drop", "late", "overlap", "sameinstant", "settings", "dbfail", "unstored", "unnoted", "adduser"}
  MaxLines = 1
  MaxBusy = 1
  MaxNotices = 0
SYMMETRY SocketSymmetry
INVARIANTS
  TypeOK
  KeepAliveRuns
