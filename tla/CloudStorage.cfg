SPECIFICATION Spec
CONSTANTS
  s1 = s1  s2 = s2
  Sessions <- TwoSessions
  Paths <- TwoLevels
  BucketRoot <- Root
  Uses <- Everything
  NoEntry = NoEntry
INVARIANTS ListExact ListFaithful DirectoryKnown
PROPERTY OnlyDeleteRemovesFiles
CHECK_DEADLOCK FALSE
