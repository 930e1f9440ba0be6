SPECIFICATION FairSpec
CONSTANTS
  Pages = {p1, p2}
  Names = {n1, n2}
  Addrs = {a1, a2}
  NULL = NULL
  LISTEN = LISTEN
  MaxConnects = 2
  MaxSends = 1
  Requests <- OnlyWhole
PROPERTIES RegistrationResolves DepartedAreForgotten
CHECK_DEADLOCK FALSE
