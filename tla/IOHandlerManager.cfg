SPECIFICATION FairSpec
CONSTANTS
  h1 = h1
  h2 = h2
  h3 = h3
  t1 = t1
  t2 = t2
  t3 = t3
  Handlers <- MCHandlers
  Timers <- MCTimers
  Tokens <- MCTokens
  NoHandler = NoHandler
  NoToken = NoToken
  QuerySize = 2
INVARIANTS
  PointersValid
  TokensAreWeakPointers
  CompleteShutdown
PROPERTIES
  DeadAreDeleted
  Implements
