SPECIFICATION LogSpec
CONSTANT MaxAppends = 5
INVARIANT LogTypeOK
INVARIANT IndexFinds
PROPERTY KeepsLog
