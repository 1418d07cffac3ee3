SPECIFICATION FairSpec
CONSTANTS
  Requests = {r1, r2}
  NoEntry = NoEntry
  MaxRvkd = 1
  TTL = 0
PROPERTIES LogoutInvalidatesIssuedTokens
