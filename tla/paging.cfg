SPECIFICATION HSpec
CONSTANTS
  l1 = l1  l2 = l2
  Listers = {l1}
  LastKey = 3
  Foreign = {1}
  Collation <- ByCodePoint
  TtlListers = {}
  Limits = {0, 1, 2}
  Cursors = {None}
  None = None
  Absent = Absent
  Forever = Forever
  Stamps = {Forever}
  Lagging = FALSE
  MaxChanges = 2
  MaxCalls = 3
  MaxNow = 0
INVARIANTS NoKeyTwice PagesBounded BookComplete
CHECK_DEADLOCK FALSE
