------------------------------ MODULE MCGateway -----------------------------
(* The gateway with its servers for the model checker. *)
EXTENDS Gateway, TLC

CONSTANTS s1, s2, s3, u1, u2

MCStypes == {Auth, Logic}
Symmetry == Permutations(Sessions) \cup Permutations(Uids)

\* Well-behaved surroundings without and with logouts, and surroundings without any restriction.
MCEnvironments ==
  { {"serverLoss"},
    {"logout", "serverLoss"},
    {"logout", "serverLoss", "switchUser", "readAfterClose", "syncFail"} }
OnlyServerLoss == { {"serverLoss"} }
SwitchingUsers == { {"switchUser"} }
=============================================================================
