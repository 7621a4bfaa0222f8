SPECIFICATION HSpec
CONSTANTS
  l1 = l1  l2 = l2
  Listers = {l1}
  LastKey = 3
  Foreign = {}
  Collation <- ByUtf16
  TtlListers = {}
  Limits = {2}
  Cursors = {None}
  None = None
  Absent = Absent
  Forever = Forever
  Stamps = {Forever}
  Lagging = FALSE
  MaxChanges = 0
  MaxCalls = 3
  MaxNow = 0
INVARIANTS BookComplete
CHECK_DEADLOCK FALSE
