\* One player over three days of a mode, solved in any order.
SPECIFICATION Spec
CONSTANTS
  c1 = c1  c2 = c2  c3 = c3  c4 = c4
  m1 = m1  m2 = m2  m3 = m3
  normal = normal
  Players = {p1}
  Users = {}
  Models = {m1, m2}
  Challenges = {c1, c2, c3, c4}
  Modes = {normal}
  Requests = {r1, r2, r3, r4, r5}
  NoUser = NoUser  NoMode = NoMode  NoRow = NoRow  Idle = Idle
  Mode <- DailyMode
  Day <- DailyDay
  Answer <- DailyAnswer
  Guessable = {m1, m2}
  Pools <- WholePool
  Calls = {k1}
  MaxTries = 1
SYMMETRY Symmetry
INVARIANTS
  PlayerStatsExact
  StreaksNeverOverstated
