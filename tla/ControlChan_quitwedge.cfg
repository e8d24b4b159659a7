SPECIFICATION Spec
CONSTANTS
  c1 = c1  c2 = c2  j1 = j1  j2 = j2  root = root  sub = sub
  Conns <- OneConn
  NoConn = NoConn
  Jobs <- OneJob
  Dirs <- OneDir
  Root <- root
  TlsConfigured = FALSE
  Commands <- TaskThenQuit
  Pipelining = TRUE
  AfterQuit = FALSE
  MaxOwed = 2
CHECK_DEADLOCK FALSE
PROPERTY QuitCloses
