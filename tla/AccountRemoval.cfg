\* A moderator removes the solve of a signed-in player.
SPECIFICATION Spec
CONSTANTS
  c1 = c1  c2 = c2  m1 = m1  m2 = m2
  normal = normal  focused = focused
  Players = {p1, p2}
  Users = {u1}
  Models = {m1, m2}
  Challenges = {c1}
  Modes = {normal}
  Requests = {r1, r2}
  NoUser = NoUser  NoMode = NoMode  NoRow = NoRow
  NoPlayer = NoPlayer  NoCategory = NoCategory
  Mode <- TheMode
  Day <- TheDay
  Answer <- TheAnswer
  Guessable = {m1, m2}
  Pools <- WholePool
  Category <- TheCategory
  Tasks = {t1}
  MayDrop = FALSE
  MayModerate = TRUE
INVARIANT CompletionsExact
