----------------------------- MODULE MCServices -----------------------------
(* No account, or one: of a guest, upgraded or frozen; without game data, or *)
(* with a bonus of yesterday, claimed or not, of long ago, or of today.      *)
EXTENDS Services

CONSTANTS k1, k2, n1

MCKeys == {k1, k2}
MCNames == {n1}
MCEnvironments == {{"error"}, {"overlap"}}

Named == [guest_key |-> k1, uname |-> n1, is_guest |-> FALSE, frozen |-> FALSE]
Frozen == [Guest(k1) EXCEPT !.frozen = TRUE]

Tables(rows, state, row) == [uinfo |-> rows, ugame |-> state, bonues |-> row]

MCTables ==
  {Tables(<<>>, "none", NoBonues),
   Tables(<<Frozen>>, "none", NoBonues),
   Tables(<<Named>>, "frozen", NoBonues),
   Tables(<<Guest(k1)>>, "active", Bonues(2, 1, 1)),
   Tables(<<Guest(k1)>>, "active", Bonues(2, 2, 0)),
   Tables(<<Named>>, "active", Bonues(1, 1, 0)),
   Tables(<<Named>>, "active", Bonues(3, 1, 0))}
=============================================================================
