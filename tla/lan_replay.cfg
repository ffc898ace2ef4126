SPECIFICATION Spec
CONSTANTS
  r1 = r1
  r2 = r2
  k1 = k1
  k2 = k2
  MaxInvites = 1
  Requests = {r1}
  Keys = {k1}
  Transfers = {}
  Nobody = Nobody
  Lifetime = 1
  MaxPending = 1
  MaxPerKey = 1
  MaxPerInvite = 1
  MaxClock = 2
  MaxBack = 0
  MaxFacts = 3
INVARIANT LogReplays
