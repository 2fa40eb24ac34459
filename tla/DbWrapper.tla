----------------------------- MODULE DbWrapper ------------------------------
(***************************************************************************)
(* mysql_wrapper and redis_wrapper: the loop queues requests (uv_queue_    *)
(* work), worker threads of libuv run connect_work, query_work and         *)
(* close_work, and the loop runs the *_complete callbacks.  A connection   *)
(* has a mutex; the server answers its queries in the order they come, and *)
(* a worker takes the first answer that is there.                          *)
(*                                                                         *)
(* small_alloc keeps its free list without a lock: a thread that is "in    *)
(* the pool" (allocating or freeing) must be there alone.  The loop        *)
(* allocates before it queues a request and frees after its callback;      *)
(* a worker allocates the context of a new connection and error texts.     *)
(*                                                                         *)
(* environment names what may go wrong: "error" (a statement fails, or is  *)
(* killed while its rows are read), "lost" (a connection breaks under a    *)
(* query or while its rows are read, and mysql_query fails from then on),  *)
(* and "close" (connections are closed; no script does so).                *)
(***************************************************************************)
EXTENDS Integers, Sequences, FiniteSets

CONSTANTS
  MaxQueries,            \* bound: queries issued
  Mysql, Redis,          \* the connections of each kind
  Workers, NoWorker,     \* the threads of libuv's pool
  Environments,          \* the environments to consider
  Pools                  \* the sets of workers to consider

Connections == Mysql \cup Redis
Queries == 1..MaxQueries

ASSUME KindsAssumption == Mysql \cap Redis = {}
ASSUME WorkersAssumption ==
  /\ IsFiniteSet(Workers) /\ NoWorker \notin Workers
  /\ Pools \subseteq (SUBSET Workers) \ {{}}
ASSUME BoundAssumption == MaxQueries \in Nat
ASSUME EnvironmentAssumption == Environments \subseteq SUBSET {"error", "lost", "close"}

VARIABLES
  environment, workers,  \* chosen at the start
  loop,                  \* what the loop is at: idle, or in the pool for a request
  issued,                \* queries issued so far
  queue,                 \* the work queue of libuv
  worker,                \* what each worker is at
  done,                  \* requests whose *_complete callback is due
  connection,            \* "none", "wanted", "failed", "open", "broken", "closed",
                         \* "freed"
  known,                 \* the connections the scripts were given
  is_closed,             \* the connections close was called for
  lock,                  \* the worker that holds the mutex of a connection
  wire,                  \* answers the server sent that nobody has read
  result,                \* err or result of a request
  executed, outcome,     \* the database: what took effect, what came of it
  answered,              \* what the handlers were called with
  misused,               \* a closed or freed connection was used
  crashed                \* redis_wrapper read the type of a missing reply

loopVars == <<loop, issued, known, is_closed, answered>>
serverVars == <<wire, executed, outcome>>
vars == <<environment, workers, loopVars, queue, worker, done, connection, lock, serverVars,
          result, misused, crashed>>

Troubled == environment \cap {"error", "lost"} # {}

Service == INSTANCE QueryService WITH troubled <- Troubled
NoOutcome == Service!NoOutcome
Failed == Service!Failed
Nothing == Service!Nothing

NoRequest == [op |-> "none", conn |-> NoWorker, query |-> 0]
Request(op, c, q) == [op |-> op, conn |-> c, query |-> q]
Idle == [at |-> "idle", req |-> NoRequest]
Running == ~crashed /\ ~misused
-----------------------------------------------------------------------------
(* The loop. *)

\* The main script of a server connects to its databases before the loop runs.
Started == \A c \in Connections : connection[c] # "none"

\* A call allocates the request, then queues it.
Begin(req) == loop = Idle /\ loop' = [at |-> "queueing", req |-> req]

\* The scripts connect at the start, and again 5 s after a failure.
Connect(c) ==
  /\ Running /\ connection[c] \in {"none", "failed"}
  /\ Begin(Request("connect", c, 0))
  /\ connection' = [connection EXCEPT ![c] = "wanted"]
  /\ UNCHANGED <<environment, workers, issued, known, is_closed, answered, queue, worker, done,
                 lock, serverVars, result, misused, crashed>>

\* A bug Query could have: is_closed is not looked at.
QueryClosed(c) ==
  /\ Running /\ c \in known /\ issued < MaxQueries
  /\ Begin(Request("query", c, issued + 1))
  /\ issued' = issued + 1
  /\ UNCHANGED <<environment, workers, known, is_closed, answered, queue, worker, done,
                 connection, lock, serverVars, result, misused, crashed>>

\* A query on a closed connection is dropped without a word.
Query(c) ==
  /\ Running /\ c \in known \ is_closed /\ issued < MaxQueries
  /\ Begin(Request("query", c, issued + 1))
  /\ issued' = issued + 1
  /\ UNCHANGED <<environment, workers, known, is_closed, answered, queue, worker, done,
                 connection, lock, serverVars, result, misused, crashed>>

Close(c) ==
  /\ Running /\ "close" \in environment /\ c \in known \ is_closed
  /\ Begin(Request("close", c, 0))
  /\ is_closed' = is_closed \cup {c}
  /\ UNCHANGED <<environment, workers, issued, known, answered, queue, worker, done,
                 connection, lock, serverVars, result, misused, crashed>>

uv_queue_work ==
  /\ Running /\ loop.at = "queueing"
  /\ queue' = Append(queue, loop.req)
  /\ loop' = Idle
  /\ UNCHANGED <<environment, workers, issued, known, is_closed, answered, worker, done,
                 connection, lock, serverVars, result, misused, crashed>>

\* on_connect_complete, on_query_complete, on_close_complete: the handler,
\* then everything is freed.
Complete ==
  /\ Running /\ Started /\ loop = Idle /\ done # <<>>
  /\ LET r == Head(done)
     IN  /\ loop' = [at |-> "freeing", req |-> r]
         /\ known' = IF r.op = "connect" /\ connection[r.conn] = "open"
                     THEN known \cup {r.conn} ELSE known
         /\ answered' = IF r.op = "query" THEN [answered EXCEPT ![r.query] = result[r.query]]
                                          ELSE answered
         /\ connection' =
              IF r.op = "close" THEN [connection EXCEPT ![r.conn] = "freed"]
              ELSE IF r.op = "connect" /\ connection[r.conn] = "wanted"
              THEN [connection EXCEPT ![r.conn] = "failed"]
              ELSE connection
  /\ done' = Tail(done)
  /\ UNCHANGED <<environment, workers, issued, is_closed, queue, worker, lock, serverVars,
                 result, misused, crashed>>

Freed ==
  /\ Running /\ loop.at = "freeing"
  /\ loop' = Idle
  /\ UNCHANGED <<environment, workers, issued, known, is_closed, answered, queue, worker, done,
                 connection, lock, serverVars, result, misused, crashed>>
-----------------------------------------------------------------------------
(* The workers. *)

Step(t, from, to) == Running /\ worker[t].at = from /\ worker' = [worker EXCEPT ![t].at = to]

Take(t) ==
  /\ Running /\ t \in workers /\ worker[t] = Idle /\ queue # <<>>
  /\ worker' = [worker EXCEPT ![t] = [at |-> "start", req |-> Head(queue)]]
  /\ queue' = Tail(queue)
  /\ UNCHANGED <<environment, workers, loopVars, done, connection, lock, serverVars, result,
                 misused, crashed>>

\* connect_work; both the context and the text of an error come from the pool.
ConnectWork(t) ==
  /\ worker[t].req.op = "connect" /\ Step(t, "start", "allocating")
  /\ \/ connection' = [connection EXCEPT ![worker[t].req.conn] = "open"]
     \/ "error" \in environment /\ UNCHANGED connection
  /\ UNCHANGED <<environment, workers, loopVars, queue, done, lock, serverVars, result, misused,
                 crashed>>

\* A bug Lock could have: two queries use one connection at the same time.
LockNothing(t) ==
  LET c == worker[t].req.conn
  IN  /\ worker[t].req.op \in {"query", "close"}
      /\ Step(t, "start", "locked")
      /\ lock' = [lock EXCEPT ![c] = t]
      /\ misused' = (connection[c] = "freed")
      /\ UNCHANGED <<environment, workers, loopVars, queue, done, connection, serverVars,
                     result, crashed>>

\* uv_mutex_lock of query_work and close_work.
Lock(t) ==
  LET c == worker[t].req.conn
  IN  /\ worker[t].req.op \in {"query", "close"} /\ lock[c] = NoWorker
      /\ Step(t, "start", "locked")
      /\ lock' = [lock EXCEPT ![c] = t]
      /\ misused' = (connection[c] = "freed")
      /\ UNCHANGED <<environment, workers, loopVars, queue, done, connection, serverVars,
                     result, crashed>>

\* The server runs the query, and answers.
QuerySucceeds(t) ==
  LET r == worker[t].req
      row == Service!Row(Len(executed) + 1)
  IN  /\ r.op = "query" /\ connection[r.conn] = "open"
      /\ Step(t, "locked", "reading")
      /\ executed' = Append(executed, r.query)
      /\ outcome' = [outcome EXCEPT ![r.query] = row]
      /\ wire' = [wire EXCEPT ![r.conn] = Append(@, row)]
      /\ UNCHANGED <<environment, workers, loopVars, queue, done, connection, lock, result,
                     misused, crashed>>

\* mysql_query, or the reply of Redis, says error.
QueryFails(t) ==
  LET r == worker[t].req
  IN  /\ r.op = "query"
      /\ \/ connection[r.conn] = "open" /\ "error" \in environment
         \/ connection[r.conn] = "broken" /\ r.conn \in Mysql
      /\ Step(t, "locked", "allocating")
      /\ outcome' = [outcome EXCEPT ![r.query] = Failed]
      /\ result' = [result EXCEPT ![r.query] = Failed]
      /\ UNCHANGED <<environment, workers, loopVars, queue, done, connection, lock, wire,
                     executed, misused, crashed>>

\* The connection breaks under a query, which may have taken effect, before
\* its answer begins.  redis_wrapper does not test the reply for NULL.
ConnectionBreaks(t) ==
  LET r == worker[t].req
  IN  /\ "lost" \in environment /\ r.op = "query" /\ connection[r.conn] = "open"
      /\ Step(t, "locked", "allocating")
      /\ connection' = [connection EXCEPT ![r.conn] = "broken"]
      /\ executed' \in {executed, Append(executed, r.query)}
      /\ outcome' = [outcome EXCEPT ![r.query] = Failed]
      /\ result' = [result EXCEPT ![r.query] = Failed]
      /\ crashed' = (r.conn \in Redis)
      /\ UNCHANGED <<environment, workers, loopVars, queue, done, lock, wire, misused>>

\* A query on a connection that was closed meanwhile.
UseClosed(t) ==
  /\ worker[t].req.op = "query" /\ connection[worker[t].req.conn] \in {"closed", "freed"}
  /\ Step(t, "locked", "locked")
  /\ misused' = TRUE
  /\ UNCHANGED <<environment, workers, loopVars, queue, done, connection, lock, serverVars,
                 result, crashed>>

CloseWork(t) ==
  LET c == worker[t].req.conn
  IN  /\ worker[t].req.op = "close" /\ connection[c] \in {"open", "broken"}
      /\ Step(t, "locked", "unlocking")
      /\ connection' = [connection EXCEPT ![c] = "closed"]
      /\ UNCHANGED <<environment, workers, loopVars, queue, done, lock, serverVars, result,
                     misused, crashed>>

\* A bug StoreResult could have: the answer stays in the connection.
StoreCopy(t) ==
  LET r == worker[t].req
  IN  /\ Step(t, "reading", "unlocking") /\ wire[r.conn] # <<>>
      /\ result' = [result EXCEPT ![r.query] = Head(wire[r.conn])]
      /\ UNCHANGED <<environment, workers, loopVars, queue, done, connection, lock, wire,
                     executed, outcome, misused, crashed>>

\* A bug StoreResult could have: the rows are copied to memory of the pool.
StoreInPool(t) ==
  LET r == worker[t].req
  IN  /\ Step(t, "reading", "allocating") /\ wire[r.conn] # <<>>
      /\ result' = [result EXCEPT ![r.query] = Head(wire[r.conn])]
      /\ wire' = [wire EXCEPT ![r.conn] = Tail(@)]
      /\ UNCHANGED <<environment, workers, loopVars, queue, done, connection, lock, executed,
                     outcome, misused, crashed>>

\* mysql_store_result, or the rest of redisCommand.
StoreResult(t) ==
  LET r == worker[t].req
  IN  /\ Step(t, "reading", "unlocking") /\ wire[r.conn] # <<>>
      /\ result' = [result EXCEPT ![r.query] = Head(wire[r.conn])]
      /\ wire' = [wire EXCEPT ![r.conn] = Tail(@)]
      /\ UNCHANGED <<environment, workers, loopVars, queue, done, connection, lock, executed,
                     outcome, misused, crashed>>

\* The rows do not come to their end: the connection breaks under them, or
\* the server kills the query.  mysql_store_result returns NULL and query_work
\* sets err to NULL as well; redisCommand returns NULL, and its type is read.
StoreFails(t) ==
  LET r == worker[t].req
  IN  /\ Step(t, "reading", "unlocking") /\ wire[r.conn] # <<>>
      /\ connection[r.conn] = "open"
      /\ \/ /\ "lost" \in environment
            /\ connection' = [connection EXCEPT ![r.conn] = "broken"]
            /\ crashed' = (r.conn \in Redis)
         \/ /\ "error" \in environment /\ r.conn \in Mysql
            /\ UNCHANGED <<connection, crashed>>
      /\ wire' = [wire EXCEPT ![r.conn] = Tail(@)]
      /\ outcome' = [outcome EXCEPT ![r.query] = Nothing]
      /\ result' = [result EXCEPT ![r.query] = Nothing]
      /\ UNCHANGED <<environment, workers, loopVars, queue, done, lock, executed, misused>>

\* A bug Allocated could have: query_work returns from an error without unlocking.
AllocatedNoUnlock(t) ==
  /\ Step(t, "allocating", "returning")
  /\ UNCHANGED <<environment, workers, loopVars, queue, done, connection, lock, serverVars,
                 result, misused, crashed>>

\* my_strdup of the error text, my_malloc of the context.
Allocated(t) ==
  /\ Step(t, "allocating", IF worker[t].req.op = "connect" THEN "returning" ELSE "unlocking")
  /\ UNCHANGED <<environment, workers, loopVars, queue, done, connection, lock, serverVars,
                 result, misused, crashed>>

Unlock(t) ==
  /\ Step(t, "unlocking", "returning")
  /\ lock' = [lock EXCEPT ![worker[t].req.conn] = NoWorker]
  /\ UNCHANGED <<environment, workers, loopVars, queue, done, connection, serverVars, result,
                 misused, crashed>>

Return(t) ==
  /\ Running /\ worker[t].at = "returning"
  /\ done' = Append(done, worker[t].req)
  /\ worker' = [worker EXCEPT ![t] = Idle]
  /\ UNCHANGED <<environment, workers, loopVars, queue, connection, lock, serverVars, result,
                 misused, crashed>>
-----------------------------------------------------------------------------
Init ==
  /\ environment \in Environments /\ workers \in Pools
  /\ loop = Idle /\ issued = 0
  /\ queue = <<>> /\ done = <<>>
  /\ worker = [t \in Workers |-> Idle]
  /\ connection = [c \in Connections |-> "none"]
  /\ known = {} /\ is_closed = {}
  /\ lock = [c \in Connections |-> NoWorker]
  /\ wire = [c \in Connections |-> <<>>]
  /\ result = [q \in Queries |-> NoOutcome]
  /\ Service!Init
  /\ misused = FALSE /\ crashed = FALSE

LoopStep == uv_queue_work \/ Complete \/ Freed

WorkerStep(t) ==
  \/ Take(t) \/ ConnectWork(t) \/ Lock(t)
  \/ QuerySucceeds(t) \/ QueryFails(t) \/ ConnectionBreaks(t) \/ UseClosed(t) \/ CloseWork(t)
  \/ StoreResult(t) \/ StoreFails(t) \/ Allocated(t) \/ Unlock(t) \/ Return(t)

Next ==
  \/ \E c \in Connections : Connect(c) \/ Query(c) \/ Close(c)
  \/ LoopStep
  \/ \E t \in Workers : WorkerStep(t)

Spec == Init /\ [][Next]_vars

\* The loop turns, and the threads of the pool run.
Fairness == WF_vars(LoopStep) /\ \A t \in Workers : WF_vars(WorkerStep(t))

FairSpec == Spec /\ Fairness
-----------------------------------------------------------------------------
(* Properties. *)

Requests ==
  [op : {"connect", "close"}, conn : Connections, query : {0}]
    \cup [op : {"query"}, conn : Connections, query : Queries]

\* Types; an answer that nobody has read belongs to the query under way.
TypeOK ==
  /\ environment \in Environments /\ workers \in Pools
  /\ loop = Idle \/ loop \in [at : {"queueing", "freeing"}, req : Requests]
  /\ issued \in 0..MaxQueries
  /\ queue \in Seq(Requests) /\ done \in Seq(Requests)
  /\ \A t \in Workers :
       \/ worker[t] = Idle
       \/ /\ worker[t].at \in {"start", "locked", "reading", "allocating", "unlocking",
                              "returning"}
          /\ worker[t].req \in Requests
  /\ connection \in
       [Connections -> {"none", "wanted", "failed", "open", "broken", "closed", "freed"}]
  /\ known \subseteq Connections /\ is_closed \subseteq known
  /\ lock \in [Connections -> Workers \cup {NoWorker}]
  /\ \A c \in Connections :
       /\ wire[c] = <<>> \/ \E n \in 1..MaxQueries : wire[c] = <<Service!Row(n)>>
       /\ wire[c] # <<>> => lock[c] # NoWorker
  /\ \A q \in Queries :
       {result[q], outcome[q], answered[q]}
         \subseteq {NoOutcome, Failed, Nothing} \cup {Service!Row(n) : n \in 1..MaxQueries}
  /\ executed \in Seq(Queries)
  /\ misused \in BOOLEAN /\ crashed \in BOOLEAN

\* The handler of every query is called at most once, with what came of this
\* query and not of another one on the same connection, whichever workers run
\* them.  What came of it is its rows; an error only in trouble; and neither
\* only in trouble, when the query took effect and its rows were lost.
ServiceImplemented == Service!Spec

\* The handler of every query is called at last: no path through query_work
\* keeps the mutex.  The process must not have stopped.
QueriesAnswered ==
  \A q \in Queries :
    (q <= issued) ~> (answered[q] # NoOutcome \/ crashed \/ misused)

\* With one worker thread a connection can be closed at any time: the queries
\* issued before run first and none is issued after.  (With more, and libuv
\* starts four, a query may wait for the mutex while close_work runs; no script
\* closes a connection.)
ClosedUnused == Cardinality(workers) = 1 => ~misused

\* Once the connections are set up, and while no statement fails and no
\* connection breaks, no two threads are in the pool at a time.
InPool == {t \in Workers : worker[t].at = "allocating"}
PoolConfined ==
  (~Troubled /\ known = Connections)
    => /\ Cardinality(InPool) <= 1
       /\ loop.at \in {"queueing", "freeing"} => InPool = {}
=============================================================================
