SPECIFICATION HSpec
CONSTANTS
  m1 = m1  m2 = m2  v1 = v1  e1 = e1  t1 = t1  t2 = t2
  topic = topic  reserved = reserved
  c1 = c1  c2 = c2
  Clients = {c1, c2}
  Keys = {m1, m2, v1, e1}
  Home <- Homes
  Data = {t1, t2}
  Tags = {topic, reserved}
  None = None
  Ttl = 1
  MaxTopK = 3
  Overfetch = 2
  Indexes <- SomeIndexes
  MaxNow = 1
  MaxChanges = 1
  MaxCalls = 2
  Texts <- AllTexts
  Before <- OneBefore
  KeyOf <- Hash
  ScoreOf <- Distance
  Large = {t2}
  Metas <- SomeMetas
  Unstorable = {reserved}
  DefaultLimit = 2
  Requests = {None, 0}
  Queries <- SomeQueries
  Contents <- SomeContents
SYMMETRY Symmetry
INVARIANTS TypeOK ResultsWereThere LapsedNotFound MissedOnlyForCloser EntriesAreTheirTexts
CHECK_DEADLOCK FALSE
