SPECIFICATION RSpec
CONSTANTS
  c1 = c1  c2 = c2  c3 = c3
  Clients = {c1, c2, c3}
  Keys = {k1}
  Values = {small, text, noise, huge}
  None = None
  RawBig = {text, noise, huge}
  Shrinks = {text, huge}
  GzBig = {huge}
  Compressing = {c1}
  Buckets = {c1, c2}
  DefaultTtl <- MixedTtl
  Ttls = {None}
  Locking = "writers"
  Faults = {"fail", "crash", "lost"}
  MaxOps = 4
  MaxFaults = 2
  MaxNow = 1
INVARIANTS PointerBacked OrphansExplained TornExplained
CHECK_DEADLOCK FALSE
