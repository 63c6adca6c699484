SPECIFICATION FairSpec
CONSTANTS
  NULL = NULL
  p1 = p1
  p2 = p2
  q1 = q1
  q2 = q2
  Pulls = {p1, p2}
  Pushes = {q1, q2}
  KeepAlive = {p1, q1}
  Serialized = {p1}
  Target <- MCTarget
  MaxLinks = 2
  MaxCrashes = 1
  MaxAsked = 3
INVARIANTS
  PullNeverTwice
PROPERTIES
  RemovedStaysRemoved
  NeverForgotten
  KeepAliveRetried
CHECK_DEADLOCK FALSE
