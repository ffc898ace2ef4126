SPECIFICATION FairSpec
CONSTANTS
  Slots <- OneSlot
  Policies <- Runtimes
  MaxMessages = 2
  HourlyLimit = 1
  MinInterval = 1
  Hour = 2
  RenewAfter = 3
  Recheck = 1
  MaxChanges = 2
INVARIANT TypeOK
INVARIANT NoRepeatedNudge
INVARIANT BudgetKept
PROPERTY HeadGetsNudge
