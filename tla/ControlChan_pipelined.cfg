SPECIFICATION Spec
CONSTANTS
  c1 = c1  c2 = c2  j1 = j1  j2 = j2  root = root  sub = sub
  Conns <- TwoConns
  NoConn = NoConn
  Jobs <- TwoJobs
  Dirs <- OneDir
  Root <- root
  TlsConfigured = TRUE
  Commands <- Piped
  Pipelining = TRUE
  AfterQuit = TRUE
  MaxOwed = 3
SYMMETRY Symmetry
CHECK_DEADLOCK FALSE
INVARIANTS AtMostOneTransfer RepliesAccounted WedgeNeedsHaste OnlyPanicsLeaveBusy
