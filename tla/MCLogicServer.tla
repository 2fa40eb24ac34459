---------------------------- MODULE MCLogicServer ---------------------------
(* The logic server for the model checker. *)
EXTENDS LogicServer, TLC

CONSTANTS u1, u2, u3

Symmetry == Permutations(Uids)

\* Users who wait for their answer, with a gateway that is lost at a quiet
\* moment, and surroundings without any restriction.
MCEnvironments == { {"gatewayLoss"}, {"loginAgain", "anyLoss"} }
Calm == { {} }
=============================================================================
