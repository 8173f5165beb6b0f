SPECIFICATION MCSpec
CONSTANTS
  None = None
  Blank = Blank
  c1 = c1
  c2 = c2
  s1 = s1
  Kind = {"connection", "group", "ssh"}
  Id = {1, 2}
  Word = {"v"}
  Call = {"x", "y"}
  Member = {"grouped", "loose"}
  MaxClicks = 7
  GroupOf <- MCGroupOf
  Entry = {c1, c2, s1}
  Tables = 2
  TableOf <- MCTableOf
  Plain = {p1, p2}
  MasterKey = {k1, k2}
  Handler = {"h"}
INVARIANT SecretKept
INVARIANT SidebarShowsWhatIsStored
INVARIANT SealedWhenDone
PROPERTY EditsSurvive
PROPERTY DeletedStays
PROPERTY MigrationKeepsRows
SYMMETRY Alike
CHECK_DEADLOCK FALSE
