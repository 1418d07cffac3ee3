SPECIFICATION Spec
CONSTANTS
  admin = admin
  member = member
  Requests = {r1, r2}
  Free = 2
  LimitCount = 2
  Cap = 4
  CodeTicks = 1
  LoginTime = 2
  MaxCodes = 3
  MaxFails = 7
  MaxGrants = 1
  Addresses = {a, b}
  NoAddress = NoAddress
  LinkTimeout = 1
  LinkTime = 1
  MaxLinks = 6
  Roles = {admin, member}
  Admins = {admin}
  Mocks <- MCMocks
  ResetTimeout = 1
  ResetTime = 1
  MaxResets = 6
  MaxSets = 2
  MaxUses = 1
  MaxBonus = 1
  MinTime = 2
  NoEntry = NoEntry
  UseTime = 4
  MaxCount = 4
  Interval = 2
  Patience = 1
  TrustTime = 6
VIEW Relevant
SYMMETRY Symmetry
INVARIANTS TypeOK GuessBound MailBound  RoleStays UsesBound
PROPERTIES SpentCodeIsDead ChangeGoesWhereMailed UsesSpaced 
CHECK_DEADLOCK FALSE
