\* Two users, two clients at a time and one server that plays both parts.
CONSTANTS
  s1 = s1  s2 = s2  s3 = s3
  u1 = u1  u2 = u2
  Sessions = {s1, s2, s3}
  NoSession = NoSession
  Auth = Server  Logic = Server  NoStype = NoStype
  Stypes <- MCStypes
  Uids = {u1, u2}
  NoUid = NoUid
  MaxUkey = 2
  MaxConn = 2
  MaxPending = 2
  Environments <- MCEnvironments
SYMMETRY Symmetry
SPECIFICATION Spec
INVARIANTS TypeOK SingleLogin OneConnection RoutingSound LoginToRequester
           NoUseAfterFree LossAnnounced
CHECK_DEADLOCK FALSE
