SPECIFICATION Spec
CONSTANTS
  c1 = c1  c2 = c2  c3 = c3
  Clients = {c1, c2}
  Keys = {k1}
  Values = {huge}
  None = None
  RawBig = {huge}
  Shrinks = {huge}
  GzBig = {huge}
  Compressing = {c1}
  Buckets = {c1, c2}
  DefaultTtl <- NoTtl
  Ttls = {None}
  Locking = "writers"
  Faults = {"fail"}
  MaxOps = 2
  MaxFaults = 1
  MaxNow = 0
INVARIANTS FlagMatchesObject
CHECK_DEADLOCK FALSE
