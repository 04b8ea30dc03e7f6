\* No symmetry: the ledger refined and every call answered, at three tries.
SPECIFICATION FairSpec
CONSTANTS
  c1 = c1  c2 = c2  c3 = c3  c4 = c4
  m1 = m1  m2 = m2  m3 = m3
  normal = normal
  Players = {p1, p2}
  Users = {}
  Models = {m1, m2}
  Challenges = {c1}
  Modes = {normal}
  Requests = {r1, r2}
  NoUser = NoUser  NoMode = NoMode  NoRow = NoRow  Idle = Idle
  Mode <- DailyMode
  Day <- DailyDay
  Answer <- DailyAnswer
  Guessable = {m1, m2}
  Pools <- WholePool
  Calls = {k1, k2}
  MaxTries = 3

PROPERTIES
  ImplementsLedger
  CallsEnd
