SPECIFICATION Spec
CONSTANTS
  Requests = {r1, r2}
  Addresses = {a, b}
  NoAddress = NoAddress
  Free = 3
  Timeout = 2
  MaxTime = 1
  MaxLinks = 3
PROPERTIES LinkVerifiesItsAddress
CHECK_DEADLOCK FALSE
