SPECIFICATION Spec
CONSTANTS
  Widths = {3}
  MaxWidth = 4
INVARIANTS Consistent ArithSound CastSound CmpSound NarrowKeeps JoinKeeps
CHECK_DEADLOCK FALSE
