SPECIFICATION FairSpec
CONSTANTS
  MaxTokens = 2
  Sizes = {5}
  Chunks = {4}
  UserMax = 3
  GuestMaxes = {0, 1}
  Limits = {0}
  Offsets = {0}
  ServerLimit = 2
  GuestLimit = 1
  Stored = 3
  MaxMade = 1
  MaxRemoved = 1
INVARIANTS TypeOK ResultIsWhole TwiceOnlyAfterChange MissedAtMostRemoved
PROPERTIES GoodTokenIsKept CallsReturn
