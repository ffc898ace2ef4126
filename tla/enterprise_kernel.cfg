SPECIFICATION Spec
CONSTANTS
  Stores = {a, b}
  Rooms <- TwoRooms
  Founded <- FirstRoom
  Requests <- Keys
  None = None
  MaxHandlers = 2
  MaxSubmits = 3
SYMMETRY Alike
INVARIANT TypeOK
INVARIANT AbsentHolds
INVARIANT OneHistory
INVARIANT RecoveredFirst
INVARIANT RemovalEnds
PROPERTY KeepsContract
CHECK_DEADLOCK FALSE
