SPECIFICATION Spec
CONSTANTS
  Usernames = {"alice", "bob"}
  Hostnames = {"home", "work", "lab"}
  Escape <- NoEscape
  Sockets = {s1, s2, s3}
  Clients <- Accounts
  InitialUsers = {"alice", "bob"}
  Unreadable = {}
  Limit = 1
  Env = {"pause", "coalesce"}
  MaxLines = 2
  MaxBusy = 1
  MaxNotices = 0
SYMMETRY SocketSymmetry
INVARIANTS
  StoredIndexIsCurrent
  NoticeNamesItsReader
PROPERTIES
  ToldWhenObliged
  TellsWhoOwes
