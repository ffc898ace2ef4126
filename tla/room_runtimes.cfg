SPECIFICATION Spec
CONSTANTS
  Rooms = {r1, r2}
  HostModes <- AtMostOneNative
  Limits = {1, 2}
SYMMETRY Symmetry
CHECK_DEADLOCK FALSE
INVARIANT TypeOK
INVARIANT OneWriter
PROPERTY StartsWithinLimit
