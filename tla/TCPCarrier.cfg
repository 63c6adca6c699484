SPECIFICATION CarrierFairSpec
CONSTANT MaxOutput = 3
INVARIANT NoLostWakeup
PROPERTY FlushedFirst
PROPERTY GracefulEnds
PROPERTY IdleIsQuiet
CHECK_DEADLOCK FALSE
