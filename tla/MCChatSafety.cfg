\* Three connections that type two, one and no lines; one-line sockets.
CONSTANTS
  c1 = c1
  c2 = c2
  c3 = c3
  Conns = {c1, c2, c3}
  MaxLines <- TalkersAndListener
  SockCap = 1
  AcceptErrors = FALSE
SPECIFICATION Spec
INVARIANTS
  TypeOK
  ViewIsSlice
  NobodyMisses
  LinesPostedOnceInOrder
  MapHoldsOpenConns
PROPERTIES
  RoomSpec
\* Once everybody has hung up there is nothing left to do.
CHECK_DEADLOCK FALSE
