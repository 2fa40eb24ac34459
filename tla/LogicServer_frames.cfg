\* Three users, two zones; the gateway stays and users wait for their answers.
CONSTANTS
  u1 = u1  u2 = u2  u3 = u3
  Uids = {u1, u2, u3}
  Zones = {1, 2}
  PLAYER_NUM = 1
  MaxPlayers = 3
  MaxLinks = 1
  Environments <- Calm
SPECIFICATION Spec
INVARIANTS FramesReachMatch
CHECK_DEADLOCK FALSE
