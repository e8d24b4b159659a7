SPECIFICATION Spec
CONSTANTS
  u1 = u1  ip1 = ip1  t1 = t1  t2 = t2
  NoPart = NoPart
  Users <- OneUser
  Ips <- OneIp
  Tasks <- TwoTasks
  MaxAttempts = 2
  ExpiresAfter = 1
  BlockBy = "UserAndIP"
  FailureCap = 3
INVARIANTS TypeOK NoEarlyLockout ExactWhenUncontended
PROPERTIES UncontendedLockoutHolds EventuallySwept
