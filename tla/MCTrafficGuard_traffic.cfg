SPECIFICATION Spec
CONSTANTS
  Ips = {a, b, c}
  Nowhere = Nowhere
  IpRequests = {q1, q2}
  IpThreshold = 2
  Capacity = 2
  Requests = {r1, r2}
  NoEntry = NoEntry
  UserThreshold = 3
  TotalThreshold = 1
  Duration = 1
  Sentences = {1}
  MaxTime = 1
  MaxTotal = 3
SYMMETRY Symmetry
INVARIANTS TypeOK ServedBound IncidentsAddUp IncidentsPerBurst
CHECK_DEADLOCK FALSE
