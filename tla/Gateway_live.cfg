\* The connections to two servers break and are set up again; one client.
CONSTANTS
  s1 = s1  s2 = s2  s3 = s3
  u1 = u1  u2 = u2
  Sessions = {s1, s2, s3}
  NoSession = NoSession
  Auth = Auth  Logic = Logic  NoStype = NoStype
  Stypes <- MCStypes
  Uids = {u1}
  NoUid = NoUid
  MaxUkey = 1
  MaxConn = 1
  MaxPending = 1
  Environments <- OnlyServerLoss
SPECIFICATION FairSpec
INVARIANTS OneConnection
PROPERTIES Reconnects
CHECK_DEADLOCK FALSE
