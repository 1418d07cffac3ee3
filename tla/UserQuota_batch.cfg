SPECIFICATION Spec
CONSTANTS
  Users = {u1}
  Nobody = Nobody
  Requests = {r1}
  Items = {i1, i2, i3}
  BatchSizes = {2}
  MaxSize = 2
  MaxPerUser = 1
  MaxInDb = 3
INVARIANTS PerUserLimit
CHECK_DEADLOCK FALSE
