\* Two overlapping requests on one connection with two databases.
CONSTANTS
  Conn = {c1}
  Db = {d0, d1}
  Proc = {p1, p2}
  Client = {i1, i2, i3}
  Ver = {v1, v2, v3}
  Profiled = {}
  None = None
  NoVer = NoVer
SPECIFICATION Spec
SYMMETRY Symmetry
INVARIANTS Ownership SweepUnderLock
PROPERTIES RegistrySpec
