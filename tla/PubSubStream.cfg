\* Two streams, one Subscribe or Unsubscribe at a time, a client that is removed and replaced.
CONSTANTS
  Stream = {s1, s2}
  Request = {q1}
  Client = {c1, c2}
  PubSub = {p1, p2, p3, p4}
  Exact = {e1}
  Pattern = {w1}
  None = None
SPECIFICATION FairSpec
INVARIANTS HearsItsClient OneStream NoLeak
PROPERTIES KeepsSubscriptions StreamsEnd
CHECK_DEADLOCK FALSE
