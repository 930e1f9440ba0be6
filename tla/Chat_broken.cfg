SPECIFICATION Spec
CONSTANTS
  Pages = {p1, p2}
  Names = {n1, n2}
  Addrs = {a1, a2}
  NULL = NULL
  LISTEN = LISTEN
  MaxConnects = 2
  MaxSends = 0
  Requests <- OnlyWhole
PROPERTIES SocketIsBroken
CHECK_DEADLOCK FALSE
