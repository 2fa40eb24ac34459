\* Requests of users who log in, upgrade, fetch their data and claim.
CONSTANTS
  k1 = k1  k2 = k2  n1 = n1
  NoName = NoName
  Uids = {1, 2, 3}
  Keys <- MCKeys
  Names <- MCNames
  Environments <- MCEnvironments
  InitialTables <- MCTables
  LoginBonues = 2
  FirstDay = 3
  MaxDay = 4
  MaxErrors = 1
  MaxLogins = 2
  MaxCalls = 2
  MaxRequests = 3
SPECIFICATION FairSpec
INVARIANTS AccountsDistinct RankedKnown
PROPERTIES LedgerImplemented RequestsAnswered
CHECK_DEADLOCK FALSE
