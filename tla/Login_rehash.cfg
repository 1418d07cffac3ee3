SPECIFICATION Spec
CONSTANTS
  Requests = {r1}
  LimitCount = 2
  Cap = 4
  CodeTicks = 2
  MaxTime = 1
  MaxCodes = 1
  MaxFails = 1
  MaxGrants = 1
PROPERTIES HashIsUpdated
CHECK_DEADLOCK FALSE
