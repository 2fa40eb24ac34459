\* Three users, of whom one may come twice or thrice, two zones, a gateway connection that breaks once.
CONSTANTS
  u1 = u1  u2 = u2  u3 = u3
  Uids = {u1, u2, u3}
  Zones = {1, 2}
  PLAYER_NUM = 1
  MaxPlayers = 3
  MaxLinks = 2
  Environments <- MCEnvironments
SYMMETRY Symmetry
SPECIFICATION Spec
INVARIANTS TypeOK SeatsSound WaitersCanEnter OneMatchAssembled NoGhostWaits
           OnlineCounted NoDeadSession
CHECK_DEADLOCK FALSE
