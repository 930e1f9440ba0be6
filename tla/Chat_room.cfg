SPECIFICATION Spec
CONSTANTS
  Pages = {p1, p2, p3}
  Names = {n1, n2}
  Addrs = {a1, a2, a3}
  NULL = NULL
  LISTEN = LISTEN
  MaxConnects = 3
  MaxSends = 1
  Requests <- Every
SYMMETRY Symmetry
INVARIANTS ChatTypeOK UsersAreConnected ClientsMirrorSockets
PROPERTIES EveryChatIsARoom
CHECK_DEADLOCK FALSE
