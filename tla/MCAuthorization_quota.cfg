SPECIFICATION Spec
CONSTANTS
  Users = {u1, u2}
  Nobody = Nobody
  Requests = {r1, r2}
  Items = {1, 2, 3, 4, 5, 6}
  BatchSizes = {2}
  MaxSize = 2
  MaxPerUser = 1
  MaxInDb = 2
  Moderators = {u2}
  Roles = {a, b, c}
  root = a
  Ghosts = {ghost}
  Needs = {x, y}
  Sizes = {0, 1, 2}
  MaxInherits = 2
  MaxDepth = 4
CONSTRAINT InOrder
ACTION_CONSTRAINT Moderate
VIEW Relevant
SYMMETRY Symmetry
INVARIANTS TypeOK OvershootBound CountAgrees DbOvershootBound GrantedByOneRole WalksAgree
CHECK_DEADLOCK FALSE
