\* Five messages and six bytes in a window of three moments.
CONSTANTS
  Window = 3
  MsgLimit = 5
  DataLimit = 6
  Sizes = {0, 1, 4, 7}
SPECIFICATION FairSpec
INVARIANTS DataWithinLimit
PROPERTIES OutputResumes
