SPECIFICATION Spec
CONSTANTS
  s1 = s1  s2 = s2  ip1 = ip1  ip2 = ip2
  Sessions <- TwoSessions
  NoSession = NoSession
  Sources <- OneSource
  RangeStart = 2
  RangeEnd = 3
  Width = 5
  ControlPort = 1
  NoPort = NoPort
PROPERTIES PasvAnswered PortFreedOnExit
CHECK_DEADLOCK FALSE
