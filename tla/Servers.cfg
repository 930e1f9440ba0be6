SPECIFICATION FairSpec
CONSTANTS
  N = 3
  MaxFd = 7
  MaxAnswer = 1
  MaxClients = 3
  Asked <- MCAsked
  Visits <- MCVisits
  TlsVisits <- MCTlsVisits
  AesVisits <- MCAesVisits
INVARIANTS ThreadsOwnDescriptors CountsAgree StrangersNeedSecondSession
PROPERTIES OnlyOpenEndsHoldThreads SelectServes PollServes
CHECK_DEADLOCK FALSE
