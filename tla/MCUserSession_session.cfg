SPECIFICATION FairSpec
CONSTANTS
  Requests = {r1, r2}
  NoEntry = NoEntry
  MaxRvkd = 2
  TTL = 1
INVARIANTS TypeOK IncoherenceHasCause AdmittedIsCurrent
PROPERTIES FreshMaximumRevokesAll LedgerSpec EventuallyCoherent
