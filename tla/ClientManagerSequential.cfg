\* Requests on a connection behind a profile, one after another, with the
\* steps of a second goroutine that need no frame in between.
CONSTANTS
  Conn = {c1}
  Db = {d0, d1}
  Proc = {p1, p2}
  Client = {i1, i2}
  Ver = {v1, v2, v3}
  Profiled = {c1}
  None = None
  NoVer = NoVer
SPECIFICATION SerialSpec

INVARIANTS ReadOnlyEnforced
PROPERTIES ConnectIsFresh RequestsReturn
