SPECIFICATION Spec
CONSTANTS
  s1 = s1  s2 = s2  ip1 = ip1  ip2 = ip2
  Sessions <- TwoSessions
  NoSession = NoSession
  Sources <- TwoSources
  RangeStart = 2
  RangeEnd = 4
  Width = 5
  ControlPort = 1
  NoPort = NoPort
INVARIANTS TypeOK OnePortPerSession PromiseKept ScanComplete
CHECK_DEADLOCK FALSE
SYMMETRY Symmetry
