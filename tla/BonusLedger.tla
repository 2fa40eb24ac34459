---------------------------- MODULE BonusLedger -----------------------------
(***************************************************************************)
(* What the login bonus promises a user: at most one for each day, a       *)
(* longer streak only for consecutive days, each taken at most once, and   *)
(* received only when it was taken.                                        *)
(***************************************************************************)
EXTENDS Naturals

CONSTANTS Uids, MaxStreak

VARIABLES
  today,
  issued,                 \* issued[u]: the day of the last bonus; 0: u is unknown
  streak,
  open,                   \* open[u]: the last bonus waits for u
  granted, received       \* how many bonuses were given, and how many received

vars == <<today, issued, streak, open, granted, received>>

Midnight == today' = today + 1 /\ UNCHANGED <<issued, streak, open, granted, received>>

\* A new user has no bonus on the first day.
Register(u) ==
  /\ issued[u] = 0
  /\ \E d \in 1..today : issued' = [issued EXCEPT ![u] = d]
  /\ UNCHANGED <<today, streak, open, granted, received>>

\* For day d; a bonus that was not taken is gone.
Issue(u) ==
  /\ issued[u] # 0
  /\ \E d \in (issued[u] + 1)..today :
       /\ issued' = [issued EXCEPT ![u] = d]
       /\ streak' = [streak EXCEPT ![u] =
                       IF d = issued[u] + 1 /\ streak[u] < MaxStreak THEN streak[u] + 1 ELSE 1]
  /\ open' = [open EXCEPT ![u] = TRUE]
  /\ granted' = [granted EXCEPT ![u] = @ + 1]
  /\ UNCHANGED <<today, received>>

Take(u) ==
  /\ open[u]
  /\ open' = [open EXCEPT ![u] = FALSE]
  /\ UNCHANGED <<today, issued, streak, granted, received>>

Receive(u) ==
  /\ ~open[u] /\ received[u] < granted[u]
  /\ received' = [received EXCEPT ![u] = @ + 1]
  /\ UNCHANGED <<today, issued, streak, open, granted>>

Init ==
  /\ today \in Nat
  /\ issued \in [Uids -> 0..today] /\ streak \in [Uids -> 0..MaxStreak]
  /\ open \in [Uids -> BOOLEAN]
  /\ granted = [u \in Uids |-> IF open[u] THEN 1 ELSE 0]
  /\ received = [u \in Uids |-> 0]

Next == Midnight \/ \E u \in Uids : Register(u) \/ Issue(u) \/ Take(u) \/ Receive(u)

Spec == Init /\ [][Next]_vars
=============================================================================
