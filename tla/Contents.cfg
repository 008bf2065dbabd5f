\* Requests about paths apart: each is as good as one step, and leaves no orphan.
SPECIFICATION Spec
CONSTANTS
  None = None
  Paths <- MCPaths
  HiddenNames <- MCHidden
  Variants <- MCVariants
  Untitled <- MCUntitled
  Notebooks <- MCNotebooks
  Values = {v}
  MaxChunks = 2
  Requests = {r1, r2}
  Configs <- MCConfigs
  Targets <- MCTargets
  Kinds <- MCKinds
  Overlap = {}
  MaxFaults = 1
PROPERTIES Serializable LeavesNoOrphans
CHECK_DEADLOCK FALSE
VIEW AllButAnswer
SYMMETRY MCSymmetry
