SPECIFICATION Spec
CONSTANTS
  c1 = c1  c2 = c2  c3 = c3
  Clients = {c1, c2}
  Keys = {k1}
  Values = {small, big}
  None = None
  RawBig = {big}
  Shrinks = {}
  GzBig = {}
  Compressing = {}
  Buckets = {c1, c2}
  DefaultTtl <- NoTtl
  Ttls = {None}
  Locking = "none"
  Faults = {}
  MaxOps = 3
  MaxFaults = 0
  MaxNow = 0
INVARIANTS StoredValueReadable
CHECK_DEADLOCK FALSE
