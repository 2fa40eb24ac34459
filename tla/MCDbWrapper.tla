---------------------------- MODULE MCDbWrapper -----------------------------
(* One connection of each kind and one or two workers. *)
EXTENDS DbWrapper

CONSTANTS my, rd, t1, t2

MCWorkers == {t1, t2}
OneOrTwo == {{t1}, {t1, t2}}
MCEnvironments == {{"error"}, {"lost"}, {"close"}}
=============================================================================
