SPECIFICATION FairSpec
CONSTANTS
  Dynamic = TRUE
  BindIDs <- OneBind
  NoBind = NoBind
  SessionOf <- SessionsOfOne
  Collectors <- TwoCollectors
  MaxMessages = 2
  MaxSends = 1
  MaxReportSeq = 2
  StopParks = TRUE
  b1 = b1
  b2 = b2
  b3 = b3
  c1 = c1
  c2 = c2
PROPERTY WaitingIsServed
INVARIANT AcceptedOnceInOrder
