SPECIFICATION Spec
CONSTANTS
  v = v
  w = w
  x = x
  y = y
  Word = {v, w}
  Blank = Blank
  Space = Space
  Object = Object
  Undefined = Undefined
  Kind = {"list", "hash", "set", "zset", "stream", "string", "rejson-rl"}
  Text = Text
  None = None
  Call = {x, y}
  MaxRows = 2
  MaxSteps = 4
INVARIANT ShownIsStored
PROPERTY OnlyTheSeenIsLost
PROPERTY SendsWhatIsShown
SYMMETRY Same
CHECK_DEADLOCK FALSE
