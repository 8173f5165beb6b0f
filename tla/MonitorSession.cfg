\* Two overlapping Start calls, a client that is removed and replaced, and Stops.
CONSTANTS
  Session = {s1, s2}
  Client = {c1, c2}
  Nil = Nil
SPECIFICATION MonitorFairSpec
INVARIANTS FieldsNameALiveSession NoSessionOrphaned
PROPERTIES DoomedEnds RemoveEnds
CHECK_DEADLOCK FALSE
