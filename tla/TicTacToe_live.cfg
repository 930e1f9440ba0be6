SPECIFICATION FairSpec
CONSTANTS
  a0b0 = a0b0
  a0b1 = a0b1
  a0b2 = a0b2
  a1b0 = a1b0
  a1b1 = a1b1
  a1b2 = a1b2
  a2b0 = a2b0
  a2b1 = a2b1
  a2b2 = a2b2
  Pages = {p1, p2}
  Addrs = {a1}
  Fds = {4, 5}
  NULL = NULL
  JoinLimit = 1
  MaxMatches = 1
  MaxIds = 1
  MaxCreates = 1
  Cells <- OneCell
  Lines <- NoLines
  Requests <- CutOrPlain
CONSTRAINT Defined
PROPERTIES ConnectionsResolve DepartedAreForgotten RequestsAnswered TurnArrives VerdictReachesBoth
CHECK_DEADLOCK FALSE
