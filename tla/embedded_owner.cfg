SPECIFICATION Spec
CONSTANTS
  Slots = {s1, s2}
  Steering = {s1}
  Unbound = {}
  User = User
  None = None
  Intents <- Sendable
  MaxMessages = 3
  MaxLoad = 4
CHECK_DEADLOCK FALSE
INVARIANT OneNativeTurn
