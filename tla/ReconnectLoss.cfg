\* One session reconnects once.
CONSTANTS
  Conns = {c1, c2}
  Keys = {k1}
  MaxMessages = 3
  MaxRestarts = 0
  None = None
SPECIFICATION Spec
CHECK_DEADLOCK FALSE
INVARIANTS NothingMissed
