SPECIFICATION ApiFairSpec
CONSTANT Ids = {t1, t2, t3}
INVARIANTS
  TaskRecords
  FeedingHasCause
PROPERTIES
  Implements
  QueuedAreCompleted
  FramesKeepFlowing
