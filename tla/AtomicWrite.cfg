\* Saves and reads come while others are served; the server is killed up to twice.
CONSTANTS
  Requests = {r1, r2}
  Values = {v1, v2}
  Overlap = {"save", "read"}
  MaxCrashes = 2
  None = None
SPECIFICATION FairSpec
PROPERTIES SuccessMeansSaved ImplementsAtomicFile RequestsEnd
