SPECIFICATION Spec
CONSTANTS
  Usernames = {"alice"}
  Hostnames = {"home", "work"}
  Escape <- NoEscape
  Sockets = {s1, s2}
  Clients <- TwoHosts
  InitialUsers = {"alice"}
  Unreadable = {}
  Limit = 1
  Env = {"unnoted"}
  MaxLines = 1
  MaxBusy = 1
  MaxNotices = 0
PROPERTIES
  ReportIsNoted
