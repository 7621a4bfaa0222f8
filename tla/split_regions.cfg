SPECIFICATION Spec
CONSTANTS
  s1 = s1  s2 = s2  s3 = s3
  c1 = c1  c2 = c2
  m1 = m1
  Storages = {s1, s2, s3}
  Root = s1
  Stores = {m1}
  Calls = {c1, c2}
  east = east  west = west
  Regions = {east, west}
  Default = west
  Empty = Empty
  None = None
  Words = {"us", "x"}
  Unset = Unset
SYMMETRY Symmetry
INVARIANTS OneBucket
