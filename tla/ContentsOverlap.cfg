\* Requests that overlap as they like: what each leaves behind.
SPECIFICATION Spec
CONSTANTS
  None = None
  Paths <- OverlapPaths
  HiddenNames <- MCHidden
  Variants <- MCVariants
  Untitled <- MCUntitled
  Notebooks <- MCNotebooks
  Values = {v}
  MaxChunks = 1
  Requests = {r1, r2}
  Configs <- OverlapConfigs
  Targets <- OverlapTargets
  Kinds <- OverlapKinds
  Overlap = {"save", "delete", "rename"}
  MaxFaults = 1
PROPERTIES LeavesNoOrphans
CHECK_DEADLOCK FALSE
VIEW AllButAnswer
SYMMETRY MCSymmetry
