\* Two operations at a time; a list with a gap, and a lost answer.
SPECIFICATION Spec
CONSTANTS
  Kernels = {k1, k2}
  Tasks = {t1, t2}
  MaxRetries = 1
  MaxLosses = 1
  MaxGaps = 1
  NoKernel = None
INVARIANTS LiveKernelsManaged StartsOnce
PROPERTIES ListComplete ShutdownEffective
VIEW AllButAnswer
SYMMETRY MCSymmetry
