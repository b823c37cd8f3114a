SPECIFICATION Spec
CONSTANTS
  Usernames = {"alice", "carol"}
  Hostnames = {"home", "work", "lab", "?"}
  Escape <- NoEscape
  Sockets = {s1, s2}
  Clients <- Strangers
  InitialUsers = {"alice"}
  Unreadable = {"?"}
  Limit = 1
  Env = {"drop", "late", "vanish", "midnight", "restart", "dbfail", "unstored", "unnoted", "stranger"}
  MaxLines = 1
  MaxBusy = 1
  MaxNotices = 0
SYMMETRY SocketSymmetry
INVARIANTS
  ListsParallel
  OneRowPerHostname
PROPERTIES
  ReleasedByItsOwnRoger
  KeepsTheBooks
