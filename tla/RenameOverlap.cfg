\* A save comes while a rename to its path waits for its thread.
SPECIFICATION Spec
CONSTANTS
  None = None
  Paths <- MCPaths
  HiddenNames <- MCHidden
  Variants <- MCVariants
  Untitled <- MCUntitled
  Notebooks <- MCNotebooks
  Values = {v}
  MaxChunks = 2
  Requests = {r1, r2}
  Configs <- MCConfigs
  Targets <- MCTargets
  Kinds <- MCKinds
  Overlap = {"save"}
  MaxFaults = 0
PROPERTIES RenameNeverReplaces
CHECK_DEADLOCK FALSE
VIEW AllButAnswer
SYMMETRY MCSymmetry
