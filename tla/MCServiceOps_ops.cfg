SPECIFICATION Spec
CONSTANTS
  Requests = {r1, r2, r3}
  Entities = {e1, e2}
  MaxAim = 4
VIEW Relevant
SYMMETRY Symmetry
INVARIANTS TypeOK DoneOrNot StoredAndRemovedInTurn
PROPERTIES LateWritesFollowErrors
