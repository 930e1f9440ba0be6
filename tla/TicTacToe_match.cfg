SPECIFICATION Spec
CONSTANTS
  a0b0 = a0b0
  a0b1 = a0b1
  a0b2 = a0b2
  a1b0 = a1b0
  a1b1 = a1b1
  a1b2 = a1b2
  a2b0 = a2b0
  a2b1 = a2b1
  a2b2 = a2b2
  Pages = {p1, p2}
  Addrs = {a1, a2}
  Fds = {4, 5}
  NULL = NULL
  JoinLimit = 2
  MaxMatches = 2
  MaxIds = 2
  MaxCreates = 2
  Cells <- TwoCells
  Lines <- OneLine
  Requests <- OnlyWhole
SYMMETRY Symmetry
CONSTRAINT Sound
INVARIANTS TypeOK OneTurn ViewsAgree SeatsAgree
PROPERTIES EveryMatchIsAGame
CHECK_DEADLOCK FALSE
