SPECIFICATION Spec
CONSTANTS
  a = a
  b = b
  t1 = t1
  t2 = t2
  t3 = t3
  k1 = k1
  k2 = k2
  x = x
  y = y
  None = None
  Connection = {a, b}
  Db = {0, 1}
  Key = {k1, k2}
  View = {"general", "key-list"}
  TabId = {t1, t2, t3}
  Call = {x, y}
  MaxClicks = 6
INVARIANT TabsInOrder
PROPERTY AnswerTouchesItsTab
SYMMETRY Same
CHECK_DEADLOCK FALSE
