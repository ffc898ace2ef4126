SPECIFICATION Spec
CONSTANTS
  Rooms = {r1, r2}
  Sessions = {s1, s2}
  Remotes = {x1}
  MaxBinds = 2
  None = None
INVARIANT TypeOK
INVARIANT OneAssociation
INVARIANT RefusalHasCause
PROPERTY RemovalIsFinal
SYMMETRY Symmetry
