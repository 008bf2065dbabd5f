\* Two requests at a time; two sessions, kernels and paths.  No symmetry: the
\* run has a liveness property.  Requests that would need a third session or
\* kernel are not made, so nothing is left to do in some states but to read.
CONSTANTS
  Requests = {r1, r2}
  Sessions = {s1, s2}
  Kernels = {k1, k2}
  Paths = {p1, p2}
  None = None
SPECIFICATION FairSpec
PROPERTIES
  PostAnswersOpenSession SessionSurvives SuccessMeansGone
  ImplementsLifecycle EveryRequestAnswered
