\* One user who is lost and comes again; one zone.
CONSTANTS
  u1 = u1  u2 = u2  u3 = u3
  Uids = {u1, u2}
  Zones = {1}
  PLAYER_NUM = 1
  MaxPlayers = 3
  MaxLinks = 1
  Environments <- Calm
SPECIFICATION Spec
INVARIANTS OneAgainstOne
CHECK_DEADLOCK FALSE
