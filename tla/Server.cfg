SPECIFICATION Spec
CONSTANTS
  s1 = s1  s2 = s2  s3 = s3
  Sessions <- ThreeSessions
  Blockable <- OneBlockable
  Acceptor = Acceptor
  Sweeper = Sweeper
INVARIANTS TypeOK OkMeansQuiet
PROPERTIES ShutdownEnds LoopsEnd OnlyBlockedHold
CHECK_DEADLOCK FALSE
