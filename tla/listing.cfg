SPECIFICATION HFairSpec
CONSTANTS
  l1 = l1  l2 = l2
  Listers = {l1}
  LastKey = 2
  Foreign = {1}
  Collation <- ByCodePoint
  TtlListers = {l1}
  Limits = {0, 1}
  Cursors = {None, 0}
  None = None
  Absent = Absent
  Forever = Forever
  Stamps = {Forever, 1}
  Lagging = TRUE
  MaxChanges = 1
  MaxCalls = 1
  MaxNow = 1
INVARIANTS NothingSkipped ListedWasThere
PROPERTIES ListingEnds
CHECK_DEADLOCK FALSE
