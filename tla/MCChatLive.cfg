\* Two connections that type two lines and one line, one-line sockets.
CONSTANTS
  c1 = c1
  c2 = c2
  c3 = c3
  Conns = {c1, c2}
  MaxLines <- TwoLinesAndOne
  SockCap = 1
  AcceptErrors = TRUE
SPECIFICATION FairSpec
PROPERTIES
  LineIsPosted
  GoneIsForgotten
\* Peers may stop typing and never hang up.
CHECK_DEADLOCK FALSE
