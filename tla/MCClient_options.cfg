SPECIFICATION Spec
CONSTANTS
  MaxTokens = 1
  Sizes = {1}
  Chunks = {1}
  UserMax = 1
  GuestMaxes = {1}
  Limits = {0, 3}
  Offsets = {0, 1}
  ServerLimit = 2
  GuestLimit = 2
  Stored = 5
  MaxMade = 0
  MaxRemoved = 0
INVARIANTS OptionsAreKept
