SPECIFICATION Spec
CONSTANTS
  c1 = c1  c2 = c2  j1 = j1  j2 = j2  root = root  sub = sub
  Conns <- TwoConns
  NoConn = NoConn
  Jobs <- OneJob
  Dirs <- OneDir
  Root <- root
  TlsConfigured = TRUE
  Commands <- Mixed
  Pipelining = FALSE
  AfterQuit = FALSE
  MaxOwed = 1
PROPERTIES EveryCommandAnswered QuitCloses OffsetConsumed
