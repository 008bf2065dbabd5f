\* The client leaves while a dial is pending, or done and not yet seen.
CONSTANTS
  RetryMax = 1
  MaxLosses = 1
  MaxAttempts = 4
  MaxMessages = 0
  MaxOutput = 0
SPECIFICATION Spec
CHECK_DEADLOCK FALSE
INVARIANT NothingLeftOpen
