SPECIFICATION Spec
CONSTANTS
  vod = vod
  pull = pull
  a = a
  b = b
  push = push
  moov = moov
  p1 = p1
  p2 = p2
  p3 = p3
  p4 = p4
  p5 = p5
  Ins <- MCIns
  Outs <- MCOuts
  Protocols <- MCProtocols
  Proto <- MCProto
  Writers <- MCWriters
  Vod <- MCVod
  EdgePulls <- MCEdgePulls
  Kept <- MCKept
  NULL = NULL
INVARIANTS
  LinksMutual
  NoDanglingLink
  UnusedEnd
PROPERTIES
  ConsumersKeepPull
  
CHECK_DEADLOCK FALSE
