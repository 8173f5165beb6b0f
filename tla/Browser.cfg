SPECIFICATION Spec
CONSTANTS
  d1 = d1
  d2 = d2
  k1 = k1
  k2 = k2
  x = x
  y = y
  m = m
  n = n
  r1 = r1
  r2 = r2
  None = None
  Db = {d1, d2}
  Key = {k1, k2}
  Folder = {"f:", "g:"}
  FolderOf <- MCFolderOf
  Scan = {x, y}
  Call = {m, n}
  Request = {r1, r2}
  MaxClicks = 6
INVARIANT TreeFollowsKeys
PROPERTY DeletesWhatWasShown
SYMMETRY Same
CHECK_DEADLOCK FALSE
