SPECIFICATION Spec
CONSTANTS
  Dynamic = TRUE
  BindIDs <- ThreeBinds
  NoBind = NoBind
  SessionOf <- SessionsOfThree
  Collectors <- OneCollector
  MaxMessages = 2
  MaxSends = 1
  MaxReportSeq = 0
  StopParks = FALSE
  b1 = b1
  b2 = b2
  b3 = b3
  c1 = c1
  c2 = c2
INVARIANT InboxCurrent
INVARIANT RetryPrecedence
INVARIANT SessionExclusive
INVARIANT Replayable
PROPERTY KeepsContract
