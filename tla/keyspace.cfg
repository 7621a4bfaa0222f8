SPECIFICATION Spec
CONSTANTS
  a = a  ab = ab
  DotDot = DotDot
  NoName = NoName
  Sentinel = Sentinel
  Memory = a
  Names = {a, ab, DotDot}
  Begins <- OneBegins
  Lang = "ts"
  Roots <- AllRoots
  MaxLen = 3
  MaxDepth = 3
  MaxViews = 2
  MaxRows = 2
INVARIANTS ListsItsPrefix ScopeIsExact ItemsAreKeys MemoriesStayTogether LanguagesAgree NamespacesCompose
PROPERTIES ImplementsTree
CHECK_DEADLOCK FALSE
