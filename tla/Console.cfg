SPECIFICATION ConsoleSpec
CONSTANTS
  c1 = c1
  c2 = c2
  conn = conn
  Console = {c1, c2}
  Conn = {conn}
  ConnOf <- MCConnOf
  Line = {"FLUSHALL", "CONFIG SET", "GET", "HELP"}
  Dangerous = {"FLUSHALL", "CONFIG SET"}
  Write = {"FLUSHALL"}
  Local = {"HELP"}
  Blank = ""
  s1 = s1
  s2 = s2
  Stream = {s1, s2}
  Timeout = 1
  MaxHistory = 1
  MaxList = 2
  MaxAsking = 1
  MaxKeys = 3
INVARIANT SelectionInRange
PROPERTY DangerousIsConfirmed
SYMMETRY Same
