SPECIFICATION HSpec
CONSTANTS
  c1 = c1  c2 = c2  c3 = c3
  Clients = {c1, c2, c3}
  Keys = {k1}
  Values = {small, big, text}
  None = None
  RawBig = {big, text}
  Shrinks = {text}
  GzBig = {}
  Compressing = {c1}
  Buckets = {c1, c2}
  DefaultTtl <- MixedTtl
  Ttls = {None, 0}
  Locking = "none"
  Faults = {"fail", "crash", "lost", "late", "stale"}
  MaxOps = 3
  MaxFaults = 1
  MaxNow = 1
INVARIANTS TypeOK InlineReadable ReadLegal
CHECK_DEADLOCK FALSE
