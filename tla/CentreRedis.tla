---------------------------- MODULE CentreRedis -----------------------------
(***************************************************************************)
(* What the auth server and the system server have in common: the Redis    *)
(* database of redis_center.lua, which the one fills at a login and the    *)
(* other reads for the ranking, and the shape of a request: a chain of     *)
(* queries, each with a callback that asks the next one, answers or stops. *)
(***************************************************************************)
EXTENDS Naturals, Sequences

CONSTANTS
  Uids,                   \* numbers of accounts; bound: whose requests are followed
  Environments,           \* which sets of behaviours of the surroundings to allow
  MaxErrors               \* bound: queries that fail

ASSUME UidsAssumption == Uids \subseteq Nat \ {0}

VARIABLES
  environment,            \* subset of {"error", "overlap"}, constant
  errors,                 \* queries that have failed
  centre,                 \* the users with a record in the centre database
  hmset                   \* the users whose record is on its way to it

centreVars == <<environment, errors, centre, hmset>>

\* A query does not reach its database, or the database reports an error.
Fails == "error" \in environment /\ errors < MaxErrors /\ errors' = errors + 1

\* What a query returns to its callback; Pending until it has been executed.
Pending == [is |-> "pending"]
Failed == [is |-> "error"]
Empty == [is |-> "empty"]
Done == [is |-> "done"]

NoQuery == [sql |-> "none"]

Request(kind, who, query) ==
  [kind |-> kind, who |-> who, query |-> query, result |-> Pending, answers |-> 0]

Ask(r, query) == [r EXCEPT !.query = query, !.result = Pending]

\* Session.send_msg n times, and no further query.
Ended(r, n) == [r EXCEPT !.query = NoQuery, !.result = Pending, !.answers = @ + n]

Finished(r) == r.query = NoQuery

\* The callback of query sql can run: on_lua_query_cb.
Returns(r, sql) == r.query.sql = sql /\ r.result # Pending

\* set_uinfo_inredis does not wait for its query, nor look at its outcome.
SetUinfo(S) == hmset' = hmset \cup S

CentreQuery ==
  \E u \in hmset :
    /\ hmset' = hmset \ {u}
    /\ \/ centre' = centre \cup {u} /\ UNCHANGED errors
       \/ Fails /\ UNCHANGED centre
    /\ UNCHANGED environment
=============================================================================
