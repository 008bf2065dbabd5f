CONSTANTS
  Timeout = 1
  MaxRequests = 2
  MaxControl = 1
  MaxRestarts = 2
  MaxClients = 1
SPECIFICATION Spec
PROPERTY SparesWorking
PROPERTY IdleCulled
CHECK_DEADLOCK FALSE
