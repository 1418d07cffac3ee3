SPECIFICATION FairSpec
CONSTANTS
  p = p
  q = q
  r = r
  a = a
  b = b
  Procs = {p, q, r}
  Services = {a, b}
  Deployments <- MCDeployments
  NoProc = NoProc
  MaxCalls = 2
  MaxAhead = 2
  MaxStops = 1
INVARIANTS TypeOK CookiesKept
PROPERTIES RemoteCallSpec CallsReturn
CHECK_DEADLOCK FALSE
