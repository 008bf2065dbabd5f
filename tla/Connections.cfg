CONSTANTS
  Conns = {c1, c2, c3}
  Keys = {k1, k2}
  MaxMessages = 2
  MaxRestarts = 0
  None = None
SPECIFICATION Spec
CHECK_DEADLOCK FALSE
INVARIANTS CountExact OneSocketPerSession NoForeignReplay InOrder NoStreamLeaks
SYMMETRY Symmetry
