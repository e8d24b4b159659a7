SPECIFICATION Spec
CONSTANTS
  eve = eve  santa = santa  clara = clara  wrong = wrong
  cn1 = cn1  cn2 = cn2  ip1 = ip1  ip2 = ip2
  Users <- TwoUsers
  Passwords <- TwoPasswords
  Names <- TwoNames
  Ips <- TwoIps
  Ipv6 = Ipv6
  Any = Any
  None = None
  Unreadable = Unreadable
  Files <- SomeFiles
INVARIANTS AccessExact
CHECK_DEADLOCK FALSE
