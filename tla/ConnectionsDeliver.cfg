\* Two connections whose nudges end and whose streams are read; no symmetry.
CONSTANTS
  Conns = {c1, c2}
  Keys = {k1, k2}
  MaxMessages = 2
  MaxRestarts = 1
  None = None
SPECIFICATION FairSpec
CHECK_DEADLOCK FALSE
PROPERTIES WaitingArrives
