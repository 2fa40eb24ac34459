\* A client logs in as one user and then as another, without logging out.
CONSTANTS
  s1 = s1  s2 = s2  s3 = s3
  u1 = u1  u2 = u2
  Sessions = {s1, s2, s3}
  NoSession = NoSession
  Auth = Server  Logic = Server  NoStype = NoStype
  Stypes <- MCStypes
  Uids = {u1, u2}
  NoUid = NoUid
  MaxUkey = 2
  MaxConn = 2
  MaxPending = 2
  Environments <- SwitchingUsers
SPECIFICATION Spec
INVARIANTS GoneFromUidTable
CHECK_DEADLOCK FALSE
