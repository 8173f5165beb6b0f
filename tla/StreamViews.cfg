SPECIFICATION Spec
CONSTANTS
  None = None
  Kind = {"monitor", "analysis", "pubsub"}
  Stream = {"s1", "s2"}
  Call = {"x", "y"}
  Channel = {"news", "all"}
  All = "all"
INVARIANT NoOrphan
INVARIANT ButtonTellsTheTruth
INVARIANT ShownIsSubscribed
PROPERTY ClosedTabLeavesNothing
