SPECIFICATION RequestsSpec
CONSTANTS
  LastName = 3
  Requests <- MCRequests
  Timeout = 1
  Backoff = 1
  MaxMoves = 2
  Asks <- MCAsks
  known = known
  other = other
  KnownHosts = {known}
  OtherHosts = {other}
  Limit = 1
  MostBytes = 2
  UpstreamTimeout = 2
  MaxReleases = 1
INVARIANT EndsInTime
INVARIANT AnswersAreTrue
INVARIANT ListsWhatStayed
PROPERTY EveryRequestEnds
INVARIANT OnlyKnownHosts
INVARIANT ToldWhatIs
INVARIANT AdviceFitsTheFault
INVARIANT StaysWithinItsLimits
PROPERTY EveryAskConcludes
