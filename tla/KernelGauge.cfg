\* A statement of the repository that the code does not keep.
CONSTANTS
  Requests = {r1, r2}
  Sessions = {s1, s2}
  Kernels = {k1, k2, k3}
  Paths = {p1}
  None = None
SPECIFICATION Spec
SYMMETRY Symmetry
INVARIANT GaugeCountsKernels
