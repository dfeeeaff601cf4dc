\* Challenges, sessions and time run out: no successor is left.
SPECIFICATION Spec
CHECK_DEADLOCK FALSE
INVARIANTS
  OneSessionPerSignature
  OutstandingBounded
  PageShowsOwnSession
  ListFollowsTable
  VerifiedIsRecent
  AppliedHolds
PROPERTIES
  PolicyHolds
CONSTRAINT LessForThird
SYMMETRY Alike
CONSTANTS
  None = None
  Browser = {b1, b2}
  Address = {alice, bob}
  Exchange = {x1, x2}
  MaxNonces = 3
  MaxTokens = 2
  Cap = 1
  SourceCap = 1
  ChallengeTtl = 1
  SessionTtl = 1
  EndOfTime = 1
  Absent = Absent
  Chain = {"main", "fork"}
  Key = {1, 2, 3, 4, 5, 6}
  Emitted <- MCEmitted
  Limit = 2
  Caller = {b1, b2}
  Changing = {"implementation"}
  MaxChanges = 2
  Ttl = 2
  Timeout = 1
  Horizon = 3
  Player = {b1, b2}
  TriedPolicies <- MCPolicies
  TriedStrengths = {1, 3}
  TriedCounts = {1}
  MaxTime = 4
  MaxRaids = 3
  Tab = {b1, b2}
  Appearance = {classic, dusk}
  Default = classic
  NoValue = NoValue
  MaxRequests = 4
