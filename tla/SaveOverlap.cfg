\* A read comes while a save is being written, without exceptions for it.
CONSTANTS
  Requests = {r1, r2}
  Values = {v1, v2}
  Overlap = {"read"}
  MaxCrashes = 0
  None = None
SPECIFICATION Spec
PROPERTIES SuccessMeansSavedAlways
