---------------------------- MODULE QueryService ----------------------------
(***************************************************************************)
(* What Mysql.query and Redis.query promise to the scripts: a query takes  *)
(* effect in the database at most once and at one moment, and its handler  *)
(* is called once, with what came of this query.  Where all goes well that *)
(* is the place the query took among all that took effect (what it could   *)
(* see, whether that is rows or none).  In trouble it may be an error,     *)
(* after which it is unknown whether the query took effect, or neither     *)
(* rows nor an error: then the query took effect, and what it saw is lost. *)
(* A script reads the latter as an empty answer.                           *)
(***************************************************************************)
EXTENDS Naturals, Sequences

CONSTANT Queries

VARIABLES
  troubled,              \* statements may fail, or connections break
  executed,              \* the queries that took effect, in their order
  outcome,               \* outcome[q]: what came of q
  answered               \* answered[q]: what the handler of q was called with

NoOutcome == [kind |-> "none", place |-> 0]
Failed == [kind |-> "error", place |-> 0]
Nothing == [kind |-> "nothing", place |-> 0]
Row(n) == [kind |-> "row", place |-> n]
Outcomes == {NoOutcome, Failed, Nothing} \cup {Row(n) : n \in Nat}

Init ==
  /\ troubled \in BOOLEAN
  /\ executed = <<>>
  /\ outcome = [q \in Queries |-> NoOutcome]
  /\ answered = [q \in Queries |-> NoOutcome]

Execute(q) ==
  /\ outcome[q] = NoOutcome
  /\ executed' = Append(executed, q)
  /\ outcome' = [outcome EXCEPT ![q] = Row(Len(executed) + 1)]
  /\ UNCHANGED <<troubled, answered>>

\* An error, whether or not the query took effect.
Fail(q) ==
  /\ troubled /\ outcome[q] = NoOutcome
  /\ executed' \in {executed, Append(executed, q)}
  /\ outcome' = [outcome EXCEPT ![q] = Failed]
  /\ UNCHANGED <<troubled, answered>>

\* The rows are lost before they are read.
Lose(q) ==
  /\ troubled /\ outcome[q] \notin {NoOutcome, Failed, Nothing}
  /\ answered[q] = NoOutcome
  /\ outcome' = [outcome EXCEPT ![q] = Nothing]
  /\ UNCHANGED <<troubled, executed, answered>>

Answer(q) ==
  /\ outcome[q] # NoOutcome /\ answered[q] = NoOutcome
  /\ answered' = [answered EXCEPT ![q] = outcome[q]]
  /\ UNCHANGED <<troubled, executed, outcome>>

Step(q) == Execute(q) \/ Fail(q) \/ Lose(q) \/ Answer(q)

Spec == Init /\ [][\E q \in Queries : Step(q)]_<<troubled, executed, outcome, answered>>
=============================================================================
