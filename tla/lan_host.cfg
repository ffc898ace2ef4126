SPECIFICATION Spec
CONSTANTS
  r1 = r1
  r2 = r2
  k1 = k1
  k2 = k2
  MaxInvites = 2
  Requests = {r1, r2}
  Keys = {k1, k2}
  Transfers = {1, 2}
  Nobody = Nobody
  Lifetime = 1
  MaxPending = 2
  MaxPerKey = 2
  MaxPerInvite = 3
  MaxClock = 3
  MaxBack = 1
  MaxFacts = 7
SYMMETRY Guests
INVARIANT TypeOK
INVARIANT AdmissionSticks
INVARIANT BudgetsHold
INVARIANT RestartAgrees
INVARIANT NothingAfterRevocation
