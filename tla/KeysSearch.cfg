\* New filters, reloads, load more, load all and Cancel at any moment; two masters, none of which is lost.
CONSTANTS
  Run = {r1, r2}
  k1 = k1
  k2 = k2
  k3 = k3
  k4 = k4
  Key <- MCKey
  Filters <- MCFilters
  Layouts <- Busy
  Limit = 3
  LostAppends = FALSE
  None = None
SPECIFICATION FairSpec
INVARIANTS CompleteWhenDone ShowsOnlyMatches
PROPERTIES Progress LoadAllFinishes
CHECK_DEADLOCK FALSE
