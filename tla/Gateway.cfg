\* Two losses, two retries, three messages each way.
CONSTANTS
  RetryMax = 2
  MaxLosses = 2
  MaxAttempts = 9
  MaxMessages = 3
  MaxOutput = 3
SPECIFICATION FairSpec
CHECK_DEADLOCK FALSE
INVARIANTS OutputExact RetriesExact
PROPERTIES ConnectionSettles MessagesSettle DisconnectEnds
