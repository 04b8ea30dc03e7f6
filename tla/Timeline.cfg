\* Two devices, two accounts, a Speedrun, a free and a Hardcore challenge.
SPECIFICATION Spec
CONSTANTS
  run = run  free = free  hard = hard  right = right  wrong = wrong  broken = broken
  Players = {p1, p2}
  Users = {u1, u2}
  Challenges = {run, free, hard}
  Orders = {right, wrong, broken}
  Requests = {r1, r2}
  NoUser = NoUser  NoPlayer = NoPlayer  None = None
  Difficulty <- TheDifficulty
  Solution <- TheSolution
  Valid <- ValidOrders
  AttemptLimit = 1
  Unlocked = {u1, u2}
  Calls = {k1, k2}
  MaxTime = 1
SYMMETRY Symmetry
INVARIANTS
  TypeOK
  NumbersSequential
  GivenUpUnsolved
  RunsTimed
  OneRunPerAccount
  CompletionsBacked
PROPERTIES
  AcceptedInPlay
