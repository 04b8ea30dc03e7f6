\* Two overlapping calls, two players, one challenge, a seed run beside them.
SPECIFICATION Spec
CONSTANTS
  c1 = c1  c2 = c2  c3 = c3  c4 = c4
  m1 = m1  m2 = m2  m3 = m3
  normal = normal
  Players = {p1, p2}
  Users = {}
  Models = {m1, m2, m3}
  Challenges = {c1}
  Modes = {normal}
  Requests = {r1, r2, r3}
  NoUser = NoUser  NoMode = NoMode  NoRow = NoRow  Idle = Idle
  Mode <- DailyMode
  Day <- DailyDay
  Answer <- DailyAnswer
  Guessable = {m1, m2, m3}
  Pools <- TwoPools
  Calls = {k1, k2}
  MaxTries = 1
SYMMETRY Symmetry
INVARIANTS
  TypeOK
  AttemptsSequential
  SolveEndsGame
  CompletionsExact
  GuessStatsExact
  SnapshotCurrent
  AnswersBacked
PROPERTIES
  AcceptedWithinPool
