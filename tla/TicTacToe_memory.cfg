SPECIFICATION Spec
CONSTANTS
  a0b0 = a0b0
  a0b1 = a0b1
  a0b2 = a0b2
  a1b0 = a1b0
  a1b1 = a1b1
  a1b2 = a1b2
  a2b0 = a2b0
  a2b1 = a2b1
  a2b2 = a2b2
  Pages = {p1, p2}
  Addrs = {a1}
  Fds = {4, 5}
  NULL = NULL
  JoinLimit = 2
  MaxMatches = 2
  MaxIds = 3
  MaxCreates = 3
  Cells <- OneCell
  Lines <- NoLines
  Requests <- OnlyWhole
SYMMETRY Symmetry
CONSTRAINT Defined
INVARIANTS RegistryMirrorsHeap
CHECK_DEADLOCK FALSE
