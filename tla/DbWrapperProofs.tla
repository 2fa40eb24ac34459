-------------------------- MODULE DbWrapperProofs ---------------------------
(***************************************************************************)
(* That every handler is called at most once, with what came of its query, *)
(* for any number of connections, workers and queries.                     *)
(***************************************************************************)
EXTENDS DbWrapper, FiniteSetTheorems, TLAPS

Ats == {"start", "locked", "reading", "allocating", "unlocking", "returning"}
Activities == {Idle} \cup [at : Ats, req : Requests]
States == {"none", "wanted", "failed", "open", "broken", "closed", "freed"}

DbTypes ==
  /\ loop \in {Idle} \cup [at : {"queueing", "freeing"}, req : Requests]
  /\ issued \in Nat /\ issued <= MaxQueries
  /\ queue \in Seq(Requests) /\ done \in Seq(Requests)
  /\ worker \in [Workers -> Activities]
  /\ connection \in [Connections -> States]
  /\ known \subseteq Connections /\ is_closed \subseteq known
  /\ lock \in [Connections -> Workers \cup {NoWorker}]
  /\ wire \in [Connections -> Seq(Service!Outcomes)]
  /\ executed \in Seq(Queries)
  /\ result \in [Queries -> Service!Outcomes]
  /\ outcome \in [Queries -> Service!Outcomes]
  /\ answered \in [Queries -> Service!Outcomes]

(***************************************************************************)
(* The inductive invariant.  A request is at one place: with the loop, in  *)
(* the queue, with a worker or among the finished ones.  Until its worker  *)
(* has sent it to the database nothing is known of it; while its worker    *)
(* reads, the connection holds its answer and nothing else, for the worker *)
(* has the mutex; from then on the result is what came of the query.       *)
(***************************************************************************)
Same(r, s) ==
  /\ r.op = s.op /\ r.op # "none"
  /\ r.op = "query" => r.query = s.query
  /\ r.op # "query" => r.conn = s.conn

Apart ==
  /\ \A i, j \in DOMAIN queue : i # j => ~Same(queue[i], queue[j])
  /\ \A i, j \in DOMAIN done : i # j => ~Same(done[i], done[j])
  /\ \A t, u \in Workers : t # u => ~Same(worker[t].req, worker[u].req)
  /\ \A i \in DOMAIN queue, j \in DOMAIN done : ~Same(queue[i], done[j])
  /\ \A i \in DOMAIN queue, t \in Workers : ~Same(queue[i], worker[t].req)
  /\ \A i \in DOMAIN done, t \in Workers : ~Same(done[i], worker[t].req)

LoopApart ==
  loop.at = "queueing" =>
    /\ \A i \in DOMAIN queue : ~Same(loop.req, queue[i])
    /\ \A i \in DOMAIN done : ~Same(loop.req, done[i])
    /\ \A t \in Workers : ~Same(loop.req, worker[t].req)

Made(r) ==
  /\ r.op = "connect" => connection[r.conn] \in {"wanted", "open"} /\ r.conn \notin known
  /\ r.op = "close" => r.conn \in is_closed
  /\ r.op = "query" => r.query <= issued /\ r.conn \in known

\* A request before the database has seen it, and after its worker is through.
Coming(r) ==
  /\ Made(r)
  /\ r.op = "query" => outcome[r.query] = NoOutcome /\ answered[r.query] = NoOutcome

Going(r) ==
  /\ Made(r)
  /\ r.op = "query" => /\ outcome[r.query] # NoOutcome /\ result[r.query] = outcome[r.query]
                       /\ answered[r.query] = NoOutcome
  /\ r.op = "close" => connection[r.conn] = "closed"

Reading(r) ==
  /\ Made(r) /\ r.op = "query"
  /\ outcome[r.query] \notin {NoOutcome, Failed, Nothing} /\ answered[r.query] = NoOutcome
  /\ wire[r.conn] = <<outcome[r.query]>>

HasLock(w) ==
  \/ w.at \in {"locked", "reading", "unlocking"}
  \/ w.at = "allocating" /\ w.req.op # "connect"

WorkerSound(t) ==
  /\ worker[t].at \in {"start", "locked"} => Coming(worker[t].req)
  /\ worker[t].at = "reading" => Reading(worker[t].req)
  /\ worker[t].at \in {"allocating", "unlocking", "returning"} => Going(worker[t].req)
  /\ worker[t].at = "locked" => worker[t].req.op \in {"query", "close"}
  /\ HasLock(worker[t]) => lock[worker[t].req.conn] = t
  /\ worker[t].at = "allocating" =>
       worker[t].req.op = "connect" \/ environment \cap {"error", "lost"} # {}

QueuesSound ==
  /\ loop.at = "queueing" => Coming(loop.req)
  /\ \A i \in DOMAIN queue : Coming(queue[i])
  /\ \A i \in DOMAIN done : Going(done[i])

ConnectionsSound ==
  \A c \in Connections :
    /\ wire[c] = <<>> \/ \E t \in Workers : worker[t].at = "reading" /\ worker[t].req.conn = c
    /\ connection[c] = "broken" => "lost" \in environment

KnownUp == \A c \in known : connection[c] \in {"open", "broken", "closed", "freed"}

Unissued ==
  \A q \in Queries : q > issued => outcome[q] = NoOutcome /\ answered[q] = NoOutcome

DInv ==
  /\ DbTypes /\ Apart /\ LoopApart
  /\ \A t \in Workers : WorkerSound(t)
  /\ QueuesSound /\ ConnectionsSound /\ KnownUp /\ Unissued
-----------------------------------------------------------------------------
LEMMA AppendFacts ==
  ASSUME NEW S, NEW s \in Seq(S), NEW e \in S
  PROVE  /\ Append(s, e) \in Seq(S)
         /\ DOMAIN Append(s, e) = DOMAIN s \cup {Len(s) + 1} /\ Len(s) + 1 \notin DOMAIN s
         /\ \A i \in DOMAIN s : Append(s, e)[i] = s[i]
         /\ Append(s, e)[Len(s) + 1] = e
  OBVIOUS

LEMMA TailFacts ==
  ASSUME NEW S, NEW s \in Seq(S), s # <<>>
  PROVE  /\ Tail(s) \in Seq(S)
         /\ Head(s) = s[1] /\ 1 \in DOMAIN s /\ s[1] \in S
         /\ \A i \in DOMAIN Tail(s) : i \in Nat \ {0} /\ i + 1 \in DOMAIN s
                                      /\ Tail(s)[i] = s[i + 1]
  OBVIOUS

LEMMA ActivityFacts ==
  /\ Idle.at = "idle" /\ Idle.req.op = "none"
  /\ \A w \in Activities : w.at # "idle" => w.at \in Ats /\ w.req \in Requests
                                           /\ w = [at |-> w.at, req |-> w.req]
  /\ \A r \in Requests : /\ r.op \in {"connect", "close", "query"} /\ r.conn \in Connections
                         /\ r.op = "query" => r.query \in Queries
  BY DEF Idle, NoRequest, Activities, Ats, Requests

LEMMA OutcomeFacts ==
  /\ {NoOutcome, Failed, Nothing} \subseteq Service!Outcomes
  /\ Failed # NoOutcome /\ Nothing # NoOutcome /\ Failed # Nothing
  /\ \A n \in Nat : /\ Service!Row(n) \in Service!Outcomes
                   /\ Service!Row(n) \notin {NoOutcome, Failed, Nothing}
  BY DEF NoOutcome, Failed, Nothing, Service!NoOutcome, Service!Failed, Service!Nothing,
         Service!Row, Service!Outcomes

\* A worker goes on with its request.
LEMMA StepFacts ==
  ASSUME DbTypes, NEW t \in Workers, NEW from \in Ats, NEW to \in Ats, Step(t, from, to)
  PROVE  /\ worker' \in [Workers -> Activities]
         /\ worker[t].at = from /\ worker[t].req \in Requests
         /\ worker'[t] = [at |-> to, req |-> worker[t].req]
         /\ \A u \in Workers : u # t => worker'[u] = worker[u]
<1>1. worker[t] \in Activities /\ worker[t].at = from /\ from # "idle"
  BY DEF DbTypes, Step, Ats
<1>2. worker[t].req \in Requests /\ worker[t] = [at |-> from, req |-> worker[t].req]
  BY <1>1, ActivityFacts
<1>3. worker' = [worker EXCEPT ![t] = [worker[t] EXCEPT !.at = to]]
  BY DEF Step
<1>4. [worker[t] EXCEPT !.at = to] = [at |-> to, req |-> worker[t].req]
  BY <1>2
<1> QED
  BY <1>1, <1>2, <1>3, <1>4 DEF DbTypes, Activities
-----------------------------------------------------------------------------
(* What a worker does with its request. *)

\* The step speaks of no other request than r.
Touches(r) ==
  /\ UNCHANGED <<environment, loopVars, queue, done>>
  /\ \A q \in Queries :
       \/ r.op = "query" /\ q = r.query
       \/ outcome'[q] = outcome[q] /\ result'[q] = result[q]
  /\ \/ UNCHANGED connection
     \/ r.op = "connect" /\ connection' = [connection EXCEPT ![r.conn] = "open"]
     \/ \E x \in {"broken", "closed"} :
          /\ r.op \in {"query", "close"} /\ connection[r.conn] \in {"open", "broken"}
          /\ connection' = [connection EXCEPT ![r.conn] = x]

LEMMA OthersUntouched ==
  ASSUME DbTypes, NEW r \in Requests, Made(r), Touches(r), NEW s \in Requests, ~Same(s, r)
  PROVE  /\ Made(s) => Made(s)'
         /\ Coming(s) => Coming(s)'
         /\ Going(s) => Going(s)'
<1>1. UNCHANGED <<issued, known, is_closed, answered>>
  BY DEF Touches, loopVars
<1>2. s.op = "query" => /\ outcome'[s.query] = outcome[s.query]
                        /\ result'[s.query] = result[s.query]
  <2>1. s.op = "query" => s.query \in Queries /\ ~(r.op = "query" /\ s.query = r.query)
    BY ActivityFacts DEF Same
  <2> QED
    BY <2>1 DEF Touches
<1>3. s.conn \in Connections /\ r.conn \in Connections
  BY ActivityFacts
<1>4. s.op = "connect" /\ connection[s.conn] \in {"wanted", "open"} /\ s.conn \notin known
        => connection'[s.conn] \in {"wanted", "open"}
  <2>1. CASE UNCHANGED connection
    BY <2>1
  <2>2. CASE r.op = "connect" /\ connection' = [connection EXCEPT ![r.conn] = "open"]
    BY <1>3, <2>2 DEF DbTypes
  <2>3. CASE r.op \in {"query", "close"}
    <3>1. r.conn \in known
      BY <2>3 DEF Made, DbTypes
    <3>2. s.conn \notin known => connection'[s.conn] = connection[s.conn]
      BY <1>3, <2>3, <3>1 DEF Touches, DbTypes
    <3> QED
      BY <3>2
  <2> QED
    BY <2>1, <2>2, <2>3 DEF Touches
<1>5. s.op = "close" /\ s.conn \in is_closed /\ connection[s.conn] = "closed"
        => connection'[s.conn] = "closed"
  <2>1. CASE UNCHANGED connection
    BY <2>1
  <2>2. CASE r.op = "connect" /\ connection' = [connection EXCEPT ![r.conn] = "open"]
    BY <1>3, <2>2 DEF DbTypes, Made
  <2>3. CASE \E x \in {"broken", "closed"} :
               /\ connection[r.conn] \in {"open", "broken"}
               /\ connection' = [connection EXCEPT ![r.conn] = x]
    BY <1>3, <2>3 DEF DbTypes
  <2> QED
    BY <2>1, <2>2, <2>3 DEF Touches
<1>6. Made(s) => Made(s)'
  BY <1>1, <1>4 DEF Made
<1>7. Coming(s) => Coming(s)'
  BY <1>1, <1>2, <1>6 DEF Coming
<1>8. Going(s) => Going(s)'
  BY <1>1, <1>2, <1>5, <1>6 DEF Going, Made
<1> QED
  BY <1>6, <1>7, <1>8

LEMMA WorkKeeps ==
  ASSUME DInv, NEW t \in Workers, NEW from \in Ats, NEW to \in Ats, Step(t, from, to),
         Made(worker[t].req), Touches(worker[t].req),
         lock' \in [Connections -> Workers \cup {NoWorker}],
         \A c \in Connections : lock[c] \in Workers \ {t} => lock'[c] = lock[c],
         wire' \in [Connections -> Seq(Service!Outcomes)],
         \A c \in Connections : lock[c] # t => wire'[c] = wire[c],
         executed' \in Seq(Queries), outcome' \in [Queries -> Service!Outcomes],
         result' \in [Queries -> Service!Outcomes],
         WorkerSound(t)', ConnectionsSound'
  PROVE  DInv'
<1> DEFINE r == worker[t].req
<1>1. DbTypes /\ Apart /\ LoopApart
  BY DEF DInv
<1>2. /\ worker' \in [Workers -> Activities] /\ r \in Requests /\ (worker'[t]).req = r
      /\ \A u \in Workers : u # t => worker'[u] = worker[u]
  <2>1. worker' \in [Workers -> Activities] /\ r \in Requests
        /\ worker'[t] = [at |-> to, req |-> r]
        /\ \A u \in Workers : u # t => worker'[u] = worker[u]
    BY <1>1, StepFacts
  <2> QED
    BY <2>1
<1>3. \A u \in Workers : worker'[u].req = worker[u].req
  BY <1>2
<1>4. UNCHANGED <<environment, loop, issued, known, is_closed, answered, queue, done>>
  BY DEF Touches, loopVars
<1>5. connection' \in [Connections -> States]
  BY <1>1 DEF Touches, DbTypes, States
<1>6. DbTypes'
  BY <1>1, <1>2, <1>4, <1>5 DEF DbTypes
<1>7. Apart' /\ LoopApart'
  BY <1>1, <1>3, <1>4 DEF Apart, LoopApart
<1>8. ASSUME NEW s \in Requests, ~Same(s, r)
      PROVE  /\ Made(s) => Made(s)'
             /\ Coming(s) => Coming(s)'
             /\ Going(s) => Going(s)'
  BY <1>1, <1>2, <1>8, OthersUntouched
<1>9. QueuesSound'
  <2>1. \A i \in DOMAIN queue : queue[i] \in Requests /\ ~Same(queue[i], r)
    BY <1>1 DEF DbTypes, Apart
  <2>2. \A i \in DOMAIN done : done[i] \in Requests /\ ~Same(done[i], r)
    BY <1>1 DEF DbTypes, Apart
  <2>3. loop.at = "queueing" => loop.req \in Requests /\ ~Same(loop.req, r)
    BY <1>1, ActivityFacts DEF DbTypes, LoopApart
  <2>4. loop.at = "queueing" => Coming(loop.req)'
    <3> SUFFICES ASSUME loop.at = "queueing"
                 PROVE  Coming(loop.req)'
      OBVIOUS
    <3>1. PICK s \in Requests : s = loop.req /\ s = (loop.req)' /\ ~Same(s, r)
      BY <1>4, <2>3
    <3>2. Coming(s)
      BY <3>1 DEF DInv, QueuesSound
    <3>3. Coming(s)'
      BY <1>8, <3>1, <3>2
    <3> QED
      BY <3>1, <3>3 DEF Coming, Made
  <2>5. ASSUME NEW i \in DOMAIN queue
        PROVE  Coming(queue[i])'
    <3>1. PICK s \in Requests : s = queue[i] /\ s = queue'[i] /\ ~Same(s, r)
      BY <1>4, <2>1
    <3>2. Coming(s)
      BY <3>1 DEF DInv, QueuesSound
    <3>3. Coming(s)'
      BY <1>8, <3>1, <3>2
    <3> QED
      BY <3>1, <3>3 DEF Coming, Made
  <2>6. ASSUME NEW i \in DOMAIN done
        PROVE  Going(done[i])'
    <3>1. PICK s \in Requests : s = done[i] /\ s = done'[i] /\ ~Same(s, r)
      BY <1>4, <2>2
    <3>2. Going(s)
      BY <3>1 DEF DInv, QueuesSound
    <3>3. Going(s)'
      BY <1>8, <3>1, <3>2
    <3> QED
      BY <3>1, <3>3 DEF Going, Made
  <2> QED
    BY <1>4, <2>4, <2>5, <2>6 DEF QueuesSound
<1>10. ASSUME NEW u \in Workers
       PROVE  WorkerSound(u)'
  <2>1. CASE u = t
    BY <2>1
  <2>2. CASE u # t /\ worker[u] = Idle
    BY <1>2, <2>2, ActivityFacts DEF WorkerSound, HasLock
  <2>3. CASE u # t /\ worker[u] # Idle
    <3>1. worker'[u] = worker[u] /\ worker[u].req \in Requests /\ ~Same(worker[u].req, r)
      BY <1>1, <1>2, <2>3, ActivityFacts DEF DbTypes, Apart, Activities
    <3>2. PICK w \in Activities : w = worker[u] /\ w = worker'[u]
      BY <1>1, <1>2, <2>3 DEF DbTypes
    <3>3. PICK s \in Requests : s = w.req /\ ~Same(s, r) /\ s.conn \in Connections
      BY <3>1, <3>2, ActivityFacts
    <3>4. /\ w.at \in {"start", "locked"} => Coming(s)
          /\ w.at = "reading" => Reading(s)
          /\ w.at \in {"allocating", "unlocking", "returning"} => Going(s)
          /\ w.at = "locked" => s.op \in {"query", "close"}
          /\ HasLock(w) => lock[s.conn] = u
          /\ w.at = "allocating" => s.op = "connect" \/ environment \cap {"error", "lost"} # {}
      BY <3>2, <3>3 DEF DInv, WorkerSound
    <3>5. HasLock(w) => lock'[s.conn] = u /\ wire'[s.conn] = wire[s.conn]
      BY <2>3, <3>3, <3>4
    <3>6. w.at = "reading" => Reading(s)'
      <4> SUFFICES ASSUME w.at = "reading"
                   PROVE  Reading(s)'
        OBVIOUS
      <4>1. Reading(s) /\ wire'[s.conn] = wire[s.conn]
        BY <3>4, <3>5 DEF HasLock
      <4>2. Made(s)'
        BY <1>8, <3>3, <4>1 DEF Reading
      <4>3. s.query \in Queries /\ ~(r.op = "query" /\ s.query = r.query)
        BY <3>3, <4>1, ActivityFacts DEF Reading, Same
      <4>4. outcome'[s.query] = outcome[s.query]
        BY <4>3 DEF Touches
      <4> QED
        BY <1>4, <4>1, <4>2, <4>4 DEF Reading
    <3>7. /\ w.at \in {"start", "locked"} => Coming(s)'
          /\ w.at \in {"allocating", "unlocking", "returning"} => Going(s)'
      BY <1>8, <3>3, <3>4
    <3>8. worker'[u].req = s /\ worker'[u].at = w.at
      BY <3>2, <3>3
    <3> QED
      <4>1. w.at \in {"start", "locked"} => Coming(worker[u].req)'
        BY <3>7, <3>8 DEF Coming, Made
      <4>2. w.at = "reading" => Reading(worker[u].req)'
        BY <3>6, <3>8 DEF Reading, Made
      <4>3. w.at \in {"allocating", "unlocking", "returning"} => Going(worker[u].req)'
        BY <3>7, <3>8 DEF Going, Made
      <4> QED
        BY <1>4, <3>2, <3>3, <3>4, <3>5, <3>8, <4>1, <4>2, <4>3 DEF WorkerSound
  <2> QED
    BY <2>1, <2>2, <2>3
<1>11. Unissued'
  <2>1. \A q \in Queries : q > issued => outcome'[q] = outcome[q]
    <3>1. r.op = "query" => r.query <= issued /\ r.query \in Nat
      BY <1>2, ActivityFacts DEF Made, Queries
    <3> QED
      BY <1>1, <3>1 DEF Touches, Queries, DbTypes
  <2> QED
    BY <1>4, <2>1 DEF DInv, Unissued
<1>12. KnownUp'
  BY <1>1, <1>2, <1>4, ActivityFacts DEF DInv, KnownUp, Touches, DbTypes
<1> QED
  BY <1>6, <1>7, <1>9, <1>10, <1>11, <1>12 DEF DInv

\* What the steps below need of the worker that takes them.
LEMMA WorkerFacts ==
  ASSUME DInv, NEW t \in Workers, NEW from \in Ats, NEW to \in Ats, Step(t, from, to)
  PROVE  /\ worker[t].at = from /\ worker'[t] = [at |-> to, req |-> worker[t].req]
         /\ worker[t].req \in Requests /\ worker[t].req.conn \in Connections
         /\ worker[t].req.op = "query" => worker[t].req.query \in Queries
         /\ worker[t].req.op \in {"connect", "close", "query"}
         /\ Made(worker[t].req)
         /\ \A u \in Workers : u # t => worker'[u] = worker[u]
<1>1. /\ worker[t].at = from /\ worker'[t] = [at |-> to, req |-> worker[t].req]
      /\ worker[t].req \in Requests
      /\ \A u \in Workers : u # t => worker'[u] = worker[u]
  BY StepFacts DEF DInv
<1>2. WorkerSound(t)
  BY DEF DInv
<1>3. Made(worker[t].req)
  BY <1>1, <1>2 DEF WorkerSound, Ats, Coming, Going, Reading
<1> QED
  BY <1>1, <1>3, ActivityFacts

\* Nobody else's answer can be on the connection of a worker that has the mutex.
LEMMA WireEmpty ==
  ASSUME DInv, NEW t \in Workers, worker[t].at # "reading", HasLock(worker[t]),
         worker[t].req.conn \in Connections
  PROVE  wire[worker[t].req.conn] = <<>>
<1>1. ASSUME NEW u \in Workers, worker[u].at = "reading",
             worker[u].req.conn = worker[t].req.conn
      PROVE  FALSE
  <2>1. lock[worker[u].req.conn] = u /\ lock[worker[t].req.conn] = t
    BY <1>1 DEF DInv, WorkerSound, HasLock
  <2> QED
    BY <1>1, <2>1
<1> QED
  BY <1>1 DEF DInv, ConnectionsSound

\* Where the step does not concern answers, connections are as sound as before.
LEMMA ConnectionsKept ==
  ASSUME DInv, NEW t \in Workers, NEW from \in Ats \ {"reading"}, NEW to \in Ats,
         Step(t, from, to), UNCHANGED <<environment, wire>>,
         \A c \in Connections : connection'[c] = "broken" =>
           connection[c] = "broken" \/ "lost" \in environment
  PROVE  ConnectionsSound'
<1>1. \A u \in Workers : worker[u].at = "reading" => worker'[u] = worker[u]
  BY WorkerFacts, StepFacts DEF DInv
<1> QED
  BY <1>1 DEF DInv, ConnectionsSound

LEMMA ConnectWorkKeeps ==
  ASSUME DInv, NEW t \in Workers, ConnectWork(t)
  PROVE  DInv'
<1> DEFINE r == worker[t].req
<1>1. /\ Step(t, "start", "allocating") /\ r.op = "connect"
      /\ connection' \in {connection, [connection EXCEPT ![r.conn] = "open"]}
      /\ UNCHANGED <<environment, loopVars, queue, done, lock, wire, executed, outcome, result>>
  BY DEF ConnectWork, serverVars
<1>2. "start" \in Ats \ {"reading"} /\ "allocating" \in Ats
  BY DEF Ats
<1>3. /\ worker'[t] = [at |-> "allocating", req |-> r] /\ r \in Requests
      /\ r.conn \in Connections /\ Made(r)
  BY <1>1, <1>2, WorkerFacts
<1>4. Touches(r)
  BY <1>1 DEF Touches
<1>5. WorkerSound(t)'
  <2>1. Going(r)'
    BY <1>1, <1>3 DEF Going, Made, loopVars, DInv, DbTypes
  <2> QED
    BY <1>1, <1>3, <2>1 DEF WorkerSound, HasLock
<1>6. ConnectionsSound'
  BY <1>1, <1>2, <1>3, ConnectionsKept DEF DInv, DbTypes
<1> QED
  BY <1>1, <1>2, <1>3, <1>4, <1>5, <1>6, WorkKeeps DEF DInv, DbTypes

LEMMA LockKeeps ==
  ASSUME DInv, NEW t \in Workers, Lock(t)
  PROVE  DInv'
<1> DEFINE r == worker[t].req
<1>1. /\ Step(t, "start", "locked") /\ r.op \in {"query", "close"}
      /\ lock[r.conn] = NoWorker /\ lock' = [lock EXCEPT ![r.conn] = t]
      /\ UNCHANGED <<environment, loopVars, queue, done, connection, wire, executed, outcome,
                     result>>
  BY DEF Lock, serverVars
<1>2. "start" \in Ats \ {"reading"} /\ "locked" \in Ats
  BY DEF Ats
<1>3. /\ worker'[t] = [at |-> "locked", req |-> r] /\ r \in Requests /\ worker[t].at = "start"
      /\ r.conn \in Connections /\ Made(r)
  BY <1>1, <1>2, WorkerFacts
<1>4. Touches(r)
  BY <1>1 DEF Touches
<1>5. lock' \in [Connections -> Workers \cup {NoWorker}] /\ lock'[r.conn] = t
      /\ \A c \in Connections : lock[c] \in Workers \ {t} => lock'[c] = lock[c]
  BY <1>1, <1>3, WorkersAssumption DEF DInv, DbTypes
<1>6. WorkerSound(t)'
  <2>1. Coming(r)
    BY <1>3 DEF DInv, WorkerSound
  <2>2. Coming(r)'
    BY <1>1, <1>3, <2>1 DEF Coming, Made, loopVars
  <2> QED
    BY <1>1, <1>3, <1>5, <2>2 DEF WorkerSound, HasLock
<1>7. ConnectionsSound'
  BY <1>1, <1>2, <1>3, ConnectionsKept DEF DInv, DbTypes
<1> QED
  BY <1>1, <1>2, <1>3, <1>4, <1>5, <1>6, <1>7, WorkKeeps DEF DInv, DbTypes

LEMMA QuerySucceedsKeeps ==
  ASSUME DInv, NEW t \in Workers, QuerySucceeds(t)
  PROVE  DInv'
<1> DEFINE r == worker[t].req
           row == Service!Row(Len(executed) + 1)
<1>1. /\ Step(t, "locked", "reading") /\ r.op = "query"
      /\ executed' = Append(executed, r.query)
      /\ outcome' = [outcome EXCEPT ![r.query] = row]
      /\ wire' = [wire EXCEPT ![r.conn] = Append(@, row)]
      /\ UNCHANGED <<environment, loopVars, queue, done, connection, lock, result>>
  BY DEF QuerySucceeds
<1>2. "locked" \in Ats /\ "reading" \in Ats
  BY DEF Ats
<1>3. /\ worker'[t] = [at |-> "reading", req |-> r] /\ r \in Requests
      /\ worker[t].at = "locked" /\ r.conn \in Connections /\ r.query \in Queries /\ Made(r)
      /\ \A u \in Workers : u # t => worker'[u] = worker[u]
  BY <1>1, <1>2, WorkerFacts
<1>4. row \in Service!Outcomes /\ row \notin {NoOutcome, Failed, Nothing}
  BY OutcomeFacts DEF DInv, DbTypes
<1> HIDE DEF row
<1>5. WorkerSound(t) /\ lock[r.conn] = t /\ Coming(r)
  BY <1>3 DEF DInv, WorkerSound, HasLock
<1>6. wire[r.conn] = <<>>
  BY <1>3, WireEmpty DEF HasLock
<1>7. /\ wire' \in [Connections -> Seq(Service!Outcomes)] /\ wire'[r.conn] = <<row>>
      /\ \A c \in Connections : c # r.conn => wire'[c] = wire[c]
  BY <1>1, <1>3, <1>4, <1>6 DEF DInv, DbTypes
<1>8. outcome' \in [Queries -> Service!Outcomes] /\ outcome'[r.query] = row
      /\ \A q \in Queries : q # r.query => outcome'[q] = outcome[q]
  BY <1>1, <1>3, <1>4 DEF DInv, DbTypes
<1>9. Touches(r)
  BY <1>1, <1>8 DEF Touches
<1>10. WorkerSound(t)'
  <2>1. Reading(r)'
    BY <1>1, <1>3, <1>4, <1>5, <1>7, <1>8 DEF Reading, Made, Coming, loopVars
  <2> QED
    BY <1>1, <1>3, <1>5, <2>1 DEF WorkerSound, HasLock
<1>11. ConnectionsSound'
  <2>1. \A u \in Workers : worker[u].at = "reading" => worker'[u] = worker[u]
    BY <1>3
  <2>2. (worker'[t]).at = "reading" /\ (worker'[t]).req.conn = r.conn
    BY <1>3
  <2>3. ASSUME NEW c \in Connections, c # r.conn
        PROVE  wire'[c] = <<>> \/ \E u \in Workers :
                 (worker'[u]).at = "reading" /\ (worker'[u]).req.conn = c
    <3>1. wire[c] = <<>> \/ \E u \in Workers : worker[u].at = "reading" /\ worker[u].req.conn = c
      BY DEF DInv, ConnectionsSound
    <3> QED
      BY <1>7, <2>1, <2>3, <3>1
  <2> QED
    BY <1>1, <1>3, <2>2, <2>3 DEF DInv, ConnectionsSound
<1>12. executed' \in Seq(Queries)
  BY <1>1, <1>3 DEF DInv, DbTypes
<1>13. \A c \in Connections : lock[c] # t => wire'[c] = wire[c]
  BY <1>5, <1>7
<1> QED
  BY <1>1, <1>2, <1>3, <1>7, <1>8, <1>9, <1>10, <1>11, <1>12, <1>13, WorkKeeps
  DEF DInv, DbTypes

\* The database says error: to this query only, and something had to go wrong.
LEMMA FailureKeeps ==
  ASSUME DInv, NEW t \in Workers, Step(t, "locked", "allocating"),
         worker[t].req.op = "query", environment \cap {"error", "lost"} # {},
         executed' \in {executed, Append(executed, worker[t].req.query)},
         outcome' = [outcome EXCEPT ![worker[t].req.query] = Failed],
         result' = [result EXCEPT ![worker[t].req.query] = Failed],
         \/ UNCHANGED connection
         \/ /\ connection[worker[t].req.conn] = "open" /\ "lost" \in environment
            /\ connection' = [connection EXCEPT ![worker[t].req.conn] = "broken"],
         UNCHANGED <<environment, loopVars, queue, done, lock, wire>>
  PROVE  DInv'
<1> DEFINE r == worker[t].req
<1>1. "locked" \in Ats \ {"reading"} /\ "allocating" \in Ats
  BY DEF Ats
<1>2. /\ worker'[t] = [at |-> "allocating", req |-> r] /\ r \in Requests
      /\ worker[t].at = "locked" /\ r.conn \in Connections /\ r.query \in Queries /\ Made(r)
  BY <1>1, WorkerFacts
<1>3. lock[r.conn] = t /\ Coming(r)
  BY <1>2 DEF DInv, WorkerSound, HasLock
<1>4. /\ outcome' \in [Queries -> Service!Outcomes] /\ outcome'[r.query] = Failed
      /\ result' \in [Queries -> Service!Outcomes] /\ result'[r.query] = Failed
      /\ \A q \in Queries : q # r.query => outcome'[q] = outcome[q] /\ result'[q] = result[q]
  BY <1>2, OutcomeFacts DEF DInv, DbTypes
<1>5. Touches(r)
  BY <1>4 DEF Touches
<1>6. WorkerSound(t)'
  <2>1. Going(r)'
    BY <1>2, <1>3, <1>4, OutcomeFacts DEF Going, Made, Coming, loopVars
  <2> QED
    BY <1>2, <1>3, <2>1 DEF WorkerSound, HasLock
<1>7. ConnectionsSound'
  BY <1>1, <1>2, ConnectionsKept DEF DInv, DbTypes
<1>8. executed' \in Seq(Queries)
  <2>1. executed \in Seq(Queries)
    BY DEF DInv, DbTypes
  <2>2. Append(executed, r.query) \in Seq(Queries)
    BY <1>2, <2>1, AppendFacts
  <2> QED
    BY <2>1, <2>2
<1> QED
  BY <1>1, <1>2, <1>4, <1>5, <1>6, <1>7, <1>8, WorkKeeps DEF DInv, DbTypes

LEMMA QueryFailsKeeps ==
  ASSUME DInv, NEW t \in Workers, QueryFails(t)
  PROVE  DInv'
<1>1. worker[t].req.conn \in Connections
  BY WorkerFacts DEF QueryFails, Ats
<1>2. environment \cap {"error", "lost"} # {}
  BY <1>1 DEF QueryFails, DInv, ConnectionsSound
<1> QED
  BY <1>2, FailureKeeps DEF QueryFails

LEMMA ConnectionBreaksKeeps ==
  ASSUME DInv, NEW t \in Workers, ConnectionBreaks(t)
  PROVE  DInv'
  BY FailureKeeps DEF ConnectionBreaks

LEMMA UseClosedKeeps ==
  ASSUME DInv, NEW t \in Workers, UseClosed(t)
  PROVE  DInv'
<1> DEFINE r == worker[t].req
<1>1. /\ Step(t, "locked", "locked")
      /\ UNCHANGED <<environment, loopVars, queue, done, connection, lock, wire, executed,
                     outcome, result>>
  BY DEF UseClosed, serverVars
<1>2. "locked" \in Ats \ {"reading"}
  BY DEF Ats
<1>3. /\ worker'[t] = [at |-> "locked", req |-> r] /\ worker[t].at = "locked" /\ Made(r)
  BY <1>1, <1>2, WorkerFacts
<1>4. Touches(r)
  BY <1>1 DEF Touches
<1>5. WorkerSound(t)'
  <2>1. Coming(r) /\ lock[r.conn] = t /\ r.op \in {"query", "close"}
    BY <1>3 DEF DInv, WorkerSound, HasLock
  <2>2. Coming(r)'
    BY <1>1, <1>3, <2>1 DEF Coming, Made, loopVars
  <2> QED
    BY <1>1, <1>3, <2>1, <2>2 DEF WorkerSound, HasLock
<1>6. ConnectionsSound'
  BY <1>1, <1>2, ConnectionsKept
<1> QED
  BY <1>1, <1>2, <1>3, <1>4, <1>5, <1>6, WorkKeeps DEF DInv, DbTypes

LEMMA CloseWorkKeeps ==
  ASSUME DInv, NEW t \in Workers, CloseWork(t)
  PROVE  DInv'
<1> DEFINE r == worker[t].req
<1>1. /\ Step(t, "locked", "unlocking") /\ r.op = "close"
      /\ connection[r.conn] \in {"open", "broken"}
      /\ connection' = [connection EXCEPT ![r.conn] = "closed"]
      /\ UNCHANGED <<environment, loopVars, queue, done, lock, wire, executed, outcome, result>>
  BY DEF CloseWork, serverVars
<1>2. "locked" \in Ats \ {"reading"} /\ "unlocking" \in Ats
  BY DEF Ats
<1>3. /\ worker'[t] = [at |-> "unlocking", req |-> r] /\ worker[t].at = "locked"
      /\ r.conn \in Connections /\ Made(r)
  BY <1>1, <1>2, WorkerFacts
<1>4. connection'[r.conn] = "closed"
      /\ \A c \in Connections : c # r.conn => connection'[c] = connection[c]
  BY <1>1, <1>3 DEF DInv, DbTypes
<1>5. Touches(r)
  BY <1>1 DEF Touches
<1>6. WorkerSound(t)'
  <2>1. lock[r.conn] = t
    BY <1>3 DEF DInv, WorkerSound, HasLock
  <2>2. Going(r)'
    BY <1>1, <1>3, <1>4 DEF Going, Made, loopVars
  <2> QED
    BY <1>1, <1>3, <2>1, <2>2 DEF WorkerSound, HasLock
<1>7. ConnectionsSound'
  BY <1>1, <1>2, <1>4, ConnectionsKept
<1> QED
  BY <1>1, <1>2, <1>3, <1>5, <1>6, <1>7, WorkKeeps DEF DInv, DbTypes

LEMMA StoreResultKeeps ==
  ASSUME DInv, NEW t \in Workers, StoreResult(t)
  PROVE  DInv'
<1> DEFINE r == worker[t].req
<1>1. /\ Step(t, "reading", "unlocking")
      /\ result' = [result EXCEPT ![r.query] = Head(wire[r.conn])]
      /\ wire' = [wire EXCEPT ![r.conn] = Tail(@)]
      /\ UNCHANGED <<environment, loopVars, queue, done, connection, lock, executed, outcome>>
  BY DEF StoreResult
<1>2. "reading" \in Ats /\ "unlocking" \in Ats
  BY DEF Ats
<1>3. /\ worker'[t] = [at |-> "unlocking", req |-> r] /\ worker[t].at = "reading"
      /\ r.conn \in Connections /\ Made(r)
      /\ r.op = "query" => r.query \in Queries
      /\ \A u \in Workers : u # t => worker'[u] = worker[u]
  BY <1>1, <1>2, WorkerFacts
<1>4. Reading(r) /\ lock[r.conn] = t
  BY <1>3 DEF DInv, WorkerSound, HasLock
<1>5. r.op = "query" /\ r.query \in Queries /\ outcome[r.query] \in Service!Outcomes
  BY <1>3, <1>4 DEF Reading, DInv, DbTypes
<1>6. Head(wire[r.conn]) = outcome[r.query] /\ Tail(wire[r.conn]) = <<>>
  BY <1>4, <1>5 DEF Reading
<1>7. /\ wire' \in [Connections -> Seq(Service!Outcomes)] /\ wire'[r.conn] = <<>>
      /\ \A c \in Connections : c # r.conn => wire'[c] = wire[c]
  <2>1. <<>> \in Seq(Service!Outcomes)
    OBVIOUS
  <2>2. wire' = [wire EXCEPT ![r.conn] = <<>>]
    BY <1>1, <1>6
  <2> QED
    BY <1>3, <2>1, <2>2 DEF DInv, DbTypes
<1>8. /\ result' \in [Queries -> Service!Outcomes] /\ result'[r.query] = outcome[r.query]
      /\ \A q \in Queries : q # r.query => result'[q] = result[q]
  BY <1>1, <1>5, <1>6 DEF DInv, DbTypes
<1>9. Touches(r)
  BY <1>1, <1>5, <1>8 DEF Touches
<1>10. WorkerSound(t)'
  <2>1. Going(r)'
    BY <1>1, <1>3, <1>4, <1>5, <1>8 DEF Going, Reading, Made, loopVars
  <2> QED
    BY <1>1, <1>3, <1>4, <2>1 DEF WorkerSound, HasLock
<1>11. ConnectionsSound'
  BY <1>1, <1>3, <1>7 DEF DInv, ConnectionsSound
<1>12. \A c \in Connections : lock[c] # t => wire'[c] = wire[c]
  BY <1>4, <1>7
<1> QED
  BY <1>1, <1>2, <1>3, <1>7, <1>8, <1>9, <1>10, <1>11, <1>12, WorkKeeps DEF DInv, DbTypes

LEMMA StoreFailsKeeps ==
  ASSUME DInv, NEW t \in Workers, StoreFails(t)
  PROVE  DInv'
<1> DEFINE r == worker[t].req
<1>1. /\ Step(t, "reading", "unlocking") /\ connection[r.conn] = "open"
      /\ \/ /\ "lost" \in environment
            /\ connection' = [connection EXCEPT ![r.conn] = "broken"]
         \/ UNCHANGED connection
      /\ wire' = [wire EXCEPT ![r.conn] = Tail(wire[r.conn])]
      /\ outcome' = [outcome EXCEPT ![r.query] = Nothing]
      /\ result' = [result EXCEPT ![r.query] = Nothing]
      /\ UNCHANGED <<environment, loopVars, queue, done, lock, executed>>
  BY DEF StoreFails
<1>2. "reading" \in Ats /\ "unlocking" \in Ats
  BY DEF Ats
<1>3. /\ worker'[t] = [at |-> "unlocking", req |-> r] /\ worker[t].at = "reading"
      /\ r.conn \in Connections /\ Made(r)
      /\ r.op = "query" => r.query \in Queries
      /\ \A u \in Workers : u # t => worker'[u] = worker[u]
  BY <1>1, <1>2, WorkerFacts
<1>4. Reading(r) /\ lock[r.conn] = t
  BY <1>3 DEF DInv, WorkerSound, HasLock
<1>5. r.op = "query" /\ r.query \in Queries /\ Tail(wire[r.conn]) = <<>>
  BY <1>3, <1>4 DEF Reading
<1>6. /\ wire' \in [Connections -> Seq(Service!Outcomes)] /\ wire'[r.conn] = <<>>
      /\ \A c \in Connections : c # r.conn => wire'[c] = wire[c]
  <2>1. <<>> \in Seq(Service!Outcomes)
    OBVIOUS
  <2>2. wire' = [wire EXCEPT ![r.conn] = <<>>]
    BY <1>1, <1>5
  <2> QED
    BY <1>3, <2>1, <2>2 DEF DInv, DbTypes
<1>7. /\ outcome' \in [Queries -> Service!Outcomes] /\ outcome'[r.query] = Nothing
      /\ result' \in [Queries -> Service!Outcomes] /\ result'[r.query] = Nothing
      /\ \A q \in Queries : q # r.query => outcome'[q] = outcome[q] /\ result'[q] = result[q]
  BY <1>1, <1>5, OutcomeFacts DEF DInv, DbTypes
<1>8. Touches(r)
  BY <1>1, <1>5, <1>7 DEF Touches
<1>9. WorkerSound(t)'
  <2>1. Going(r)'
    BY <1>1, <1>3, <1>4, <1>5, <1>7, OutcomeFacts DEF Going, Reading, Made, loopVars
  <2> QED
    BY <1>1, <1>3, <1>4, <2>1 DEF WorkerSound, HasLock
<1>10. ConnectionsSound'
  <2>1. /\ connection' \in [Connections -> States]
        /\ \A c \in Connections : connection'[c] = "broken" =>
             connection[c] = "broken" \/ "lost" \in environment
    BY <1>1, <1>3 DEF DInv, DbTypes, States
  <2>2. ASSUME NEW c \in Connections, c # r.conn, wire[c] # <<>>
        PROVE  \E u \in Workers : worker'[u].at = "reading" /\ worker'[u].req.conn = c
    <3>1. PICK u \in Workers : worker[u].at = "reading" /\ worker[u].req.conn = c
      BY <2>2 DEF DInv, ConnectionsSound
    <3>2. u # t
      BY <2>2, <3>1
    <3> QED
      BY <1>3, <3>1, <3>2
  <2> QED
    BY <1>1, <1>6, <2>1, <2>2 DEF DInv, ConnectionsSound
<1>11. \A c \in Connections : lock[c] # t => wire'[c] = wire[c]
  BY <1>4, <1>6
<1> QED
  BY <1>1, <1>2, <1>3, <1>6, <1>7, <1>8, <1>9, <1>10, <1>11, WorkKeeps DEF DInv, DbTypes

LEMMA AllocatedKeeps ==
  ASSUME DInv, NEW t \in Workers, Allocated(t)
  PROVE  DInv'
<1> DEFINE r == worker[t].req
           to == IF r.op = "connect" THEN "returning" ELSE "unlocking"
<1>1. /\ Step(t, "allocating", to)
      /\ UNCHANGED <<environment, loopVars, queue, done, connection, lock, wire, executed,
                     outcome, result>>
  BY DEF Allocated, serverVars
<1>2. "allocating" \in Ats \ {"reading"} /\ to \in Ats /\ to \in {"returning", "unlocking"}
      /\ (r.op = "connect" => to = "returning")
  BY DEF Ats
<1> HIDE DEF to
<1>3. PICK x \in Ats : x = to
  BY <1>2
<1>4. Step(t, "allocating", x)
  BY <1>1, <1>3
<1>5. /\ worker'[t] = [at |-> x, req |-> r] /\ worker[t].at = "allocating" /\ Made(r)
  BY <1>2, <1>4, WorkerFacts
<1>6. Touches(r)
  BY <1>1 DEF Touches
<1>7. WorkerSound(t)'
  <2>1. Going(r) /\ (r.op # "connect" => lock[r.conn] = t)
    BY <1>5 DEF DInv, WorkerSound, HasLock
  <2>2. Going(r)'
    BY <1>1, <1>5, <2>1 DEF Going, Made, loopVars
  <2>3. (worker'[t]).at = x /\ (worker'[t]).req = r /\ x \in {"returning", "unlocking"}
        /\ (r.op = "connect" => x = "returning")
    BY <1>2, <1>3, <1>5
  <2> QED
    BY <1>1, <2>1, <2>2, <2>3 DEF WorkerSound, HasLock
<1>8. ConnectionsSound'
  BY <1>1, <1>2, <1>4, ConnectionsKept
<1> QED
  BY <1>1, <1>2, <1>4, <1>5, <1>6, <1>7, <1>8, WorkKeeps DEF DInv, DbTypes

LEMMA UnlockKeeps ==
  ASSUME DInv, NEW t \in Workers, Unlock(t)
  PROVE  DInv'
<1> DEFINE r == worker[t].req
<1>1. /\ Step(t, "unlocking", "returning")
      /\ lock' = [lock EXCEPT ![r.conn] = NoWorker]
      /\ UNCHANGED <<environment, loopVars, queue, done, connection, wire, executed, outcome,
                     result>>
  BY DEF Unlock, serverVars
<1>2. "unlocking" \in Ats \ {"reading"} /\ "returning" \in Ats
  BY DEF Ats
<1>3. /\ worker'[t] = [at |-> "returning", req |-> r] /\ worker[t].at = "unlocking"
      /\ r.conn \in Connections /\ Made(r)
  BY <1>1, <1>2, WorkerFacts
<1>4. Going(r) /\ lock[r.conn] = t
  BY <1>3 DEF DInv, WorkerSound, HasLock
<1>5. lock' \in [Connections -> Workers \cup {NoWorker}]
      /\ \A c \in Connections : lock[c] \in Workers \ {t} => lock'[c] = lock[c]
  BY <1>1, <1>3, <1>4 DEF DInv, DbTypes
<1>6. Touches(r)
  BY <1>1 DEF Touches
<1>7. WorkerSound(t)'
  <2>1. Going(r)'
    BY <1>1, <1>3, <1>4 DEF Going, Made, loopVars
  <2> QED
    BY <1>1, <1>3, <2>1 DEF WorkerSound, HasLock
<1>8. ConnectionsSound'
  BY <1>1, <1>2, ConnectionsKept
<1> QED
  BY <1>1, <1>2, <1>3, <1>5, <1>6, <1>7, <1>8, WorkKeeps DEF DInv, DbTypes
-----------------------------------------------------------------------------
(* A request moves on. *)

\* A worker that does not move while nothing is learnt or called is as sound as before.
LEMMA OtherWorker ==
  ASSUME NEW u \in Workers, WorkerSound(u), worker'[u] = worker[u],
         UNCHANGED <<environment, issued, known, is_closed, answered, connection, outcome,
                     result, wire, lock>>
  PROVE  WorkerSound(u)'
  BY DEF WorkerSound, HasLock, Coming, Going, Reading, Made

LEMMA TakeKeeps ==
  ASSUME DInv, NEW t \in Workers, Take(t)
  PROVE  DInv'
<1> DEFINE r == Head(queue)
<1>1. /\ worker[t] = Idle /\ queue # <<>> /\ queue' = Tail(queue)
      /\ worker' = [worker EXCEPT ![t] = [at |-> "start", req |-> r]]
      /\ UNCHANGED <<environment, loop, issued, known, is_closed, answered, done, connection,
                     lock, wire, executed, outcome, result>>
  BY DEF Take, loopVars, serverVars
<1>2. DbTypes /\ Apart /\ LoopApart /\ QueuesSound /\ ConnectionsSound /\ KnownUp /\ Unissued
  BY DEF DInv
<1>3. /\ queue' \in Seq(Requests) /\ r = queue[1] /\ 1 \in DOMAIN queue /\ r \in Requests
      /\ \A i \in DOMAIN queue' : i \in Nat \ {0} /\ i + 1 \in DOMAIN queue
                                  /\ queue'[i] = queue[i + 1]
  BY <1>1, <1>2, TailFacts DEF DbTypes
<1> HIDE DEF r
<1>4. /\ worker' \in [Workers -> Activities] /\ worker'[t] = [at |-> "start", req |-> r]
      /\ \A u \in Workers : u # t => worker'[u] = worker[u]
  BY <1>1, <1>2, <1>3 DEF DbTypes, Activities, Ats
<1>5. DbTypes'
  BY <1>1, <1>2, <1>3, <1>4 DEF DbTypes
<1>6. \A u \in Workers : (worker'[u]).req = IF u = t THEN r ELSE worker[u].req
  BY <1>4
<1>7. \A i, j \in DOMAIN queue' : i # j => i + 1 # j + 1 /\ i + 1 # 1
  BY <1>3
<1>8. Apart'
  <2>1. \A i, j \in DOMAIN queue' : i # j => ~Same(queue'[i], queue'[j])
    BY <1>2, <1>3, <1>7 DEF Apart
  <2>2. \A u, v \in Workers : u # v => ~Same((worker'[u]).req, (worker'[v]).req)
    BY <1>2, <1>3, <1>6 DEF Apart, Same
  <2>3. \A i \in DOMAIN queue', j \in DOMAIN done : ~Same(queue'[i], done[j])
    BY <1>2, <1>3 DEF Apart
  <2>4. \A i \in DOMAIN queue', u \in Workers : ~Same(queue'[i], (worker'[u]).req)
    <3>1. \A i \in DOMAIN queue' : i + 1 # 1
      BY <1>3
    <3> QED
      BY <1>2, <1>3, <1>6, <3>1 DEF Apart
  <2>5. \A i \in DOMAIN done, u \in Workers : ~Same(done[i], (worker'[u]).req)
    BY <1>2, <1>3, <1>6 DEF Apart, Same
  <2>6. \A i, j \in DOMAIN done : i # j => ~Same(done[i], done[j])
    BY <1>2 DEF Apart
  <2> QED
    BY <1>1, <2>1, <2>2, <2>3, <2>4, <2>5, <2>6 DEF Apart
<1>9. LoopApart'
  BY <1>1, <1>2, <1>3, <1>6 DEF LoopApart
<1>10. Coming(r)
  BY <1>2, <1>3 DEF QueuesSound
<1>11. WorkerSound(t)'
  BY <1>1, <1>4, <1>10 DEF WorkerSound, HasLock, Coming, Made
<1>12. \A u \in Workers : WorkerSound(u)'
  <2>1. ASSUME NEW u \in Workers, u # t
        PROVE  WorkerSound(u)'
    BY <1>1, <1>4, <2>1, OtherWorker DEF DInv
  <2> QED
    BY <1>11, <2>1
<1>13. QueuesSound'
  BY <1>1, <1>2, <1>3 DEF QueuesSound, Coming, Going, Made
<1>14. ConnectionsSound'
  BY <1>1, <1>2, <1>4, ActivityFacts DEF ConnectionsSound
<1>15. Unissued'
  BY <1>1, <1>2 DEF Unissued
<1>16. KnownUp'
  BY <1>1, <1>2 DEF KnownUp
<1> QED
  BY <1>5, <1>8, <1>9, <1>12, <1>13, <1>14, <1>15, <1>16 DEF DInv

LEMMA ReturnKeeps ==
  ASSUME DInv, NEW t \in Workers, Return(t)
  PROVE  DInv'
<1> DEFINE r == worker[t].req
           n == Len(done) + 1
<1>1. /\ worker[t].at = "returning" /\ done' = Append(done, r)
      /\ worker' = [worker EXCEPT ![t] = Idle]
      /\ UNCHANGED <<environment, loop, issued, known, is_closed, answered, queue, connection,
                     lock, wire, executed, outcome, result>>
  BY DEF Return, loopVars, serverVars
<1>2. DbTypes /\ Apart /\ LoopApart /\ QueuesSound /\ ConnectionsSound /\ KnownUp /\ Unissued
  BY DEF DInv
<1>3. r \in Requests /\ Going(r)
  <2>1. worker[t] \in Activities /\ WorkerSound(t)
    BY <1>2 DEF DInv, DbTypes
  <2> QED
    BY <1>1, <2>1, ActivityFacts DEF WorkerSound
<1>4. /\ worker' \in [Workers -> Activities] /\ worker'[t] = Idle
      /\ \A u \in Workers : u # t => worker'[u] = worker[u]
  BY <1>1, <1>2 DEF DbTypes, Activities
<1>5. /\ done' \in Seq(Requests) /\ DOMAIN done' = DOMAIN done \cup {n}
      /\ n \notin DOMAIN done /\ done'[n] = r
      /\ \A i \in DOMAIN done : done'[i] = done[i]
  BY <1>1, <1>2, <1>3, AppendFacts DEF DbTypes
<1> HIDE DEF n
<1>6. DbTypes'
  BY <1>1, <1>2, <1>4, <1>5 DEF DbTypes
<1>7. ASSUME NEW s
      PROVE  ~Same(s, Idle.req) /\ ~Same(Idle.req, s)
  BY ActivityFacts DEF Same
<1>8. Apart'
  <2>1. \A i, j \in DOMAIN done' : i # j => ~Same(done'[i], done'[j])
    BY <1>2, <1>5 DEF Apart, Same
  <2>2. \A u, v \in Workers : u # v => ~Same((worker'[u]).req, (worker'[v]).req)
    BY <1>2, <1>4, <1>7 DEF Apart
  <2>3. \A i \in DOMAIN queue, j \in DOMAIN done' : ~Same(queue[i], done'[j])
    BY <1>2, <1>5 DEF Apart
  <2>4. \A i \in DOMAIN queue, u \in Workers : ~Same(queue[i], (worker'[u]).req)
    BY <1>2, <1>4, <1>7 DEF Apart
  <2>5. \A i \in DOMAIN done', u \in Workers : ~Same(done'[i], (worker'[u]).req)
    BY <1>2, <1>4, <1>5, <1>7 DEF Apart
  <2>6. \A i, j \in DOMAIN queue : i # j => ~Same(queue[i], queue[j])
    BY <1>2 DEF Apart
  <2> QED
    BY <1>1, <2>1, <2>2, <2>3, <2>4, <2>5, <2>6 DEF Apart
<1>9. LoopApart'
  BY <1>1, <1>2, <1>4, <1>5, <1>7 DEF LoopApart
<1>10. WorkerSound(t)'
  BY <1>4, ActivityFacts DEF WorkerSound, HasLock
<1>11. \A u \in Workers : WorkerSound(u)'
  <2>1. ASSUME NEW u \in Workers, u # t
        PROVE  WorkerSound(u)'
    BY <1>1, <1>4, <2>1, OtherWorker DEF DInv
  <2> QED
    BY <1>10, <2>1
<1>12. QueuesSound'
  <2>1. loop.at = "queueing" => Coming(loop.req)'
    BY <1>1, <1>2 DEF QueuesSound, Coming, Made
  <2>2. \A i \in DOMAIN queue : Coming(queue[i])'
    BY <1>1, <1>2 DEF QueuesSound, Coming, Made
  <2>3. ASSUME NEW i \in DOMAIN done'
        PROVE  Going(done[i])'
    <3>1. Going(done'[i])
      BY <1>2, <1>3, <1>5 DEF QueuesSound
    <3> QED
      BY <1>1, <3>1 DEF Going, Made
  <2> QED
    BY <1>1, <2>1, <2>2, <2>3 DEF QueuesSound
<1>13. ConnectionsSound'
  BY <1>1, <1>2, <1>4 DEF ConnectionsSound
<1>14. Unissued'
  BY <1>1, <1>2 DEF Unissued
<1>15. KnownUp'
  BY <1>1, <1>2 DEF KnownUp
<1> QED
  BY <1>6, <1>8, <1>9, <1>11, <1>12, <1>13, <1>14, <1>15 DEF DInv
-----------------------------------------------------------------------------
(* The loop. *)

\* A call makes a request that is like no other.
Begins(r) ==
  /\ loop = Idle /\ loop' = [at |-> "queueing", req |-> r]
  /\ UNCHANGED <<environment, known, answered, queue, worker, done, lock, wire, executed,
                 outcome, result>>
  /\ \/ /\ r.op = "connect" /\ connection[r.conn] \in {"none", "failed"}
        /\ connection' = [connection EXCEPT ![r.conn] = "wanted"]
        /\ UNCHANGED <<issued, is_closed>>
     \/ /\ r.op = "query" /\ r.conn \in known /\ r.query = issued + 1
        /\ issued' = issued + 1 /\ issued' <= MaxQueries
        /\ UNCHANGED <<connection, is_closed>>
     \/ /\ r.op = "close" /\ r.conn \in known \ is_closed
        /\ is_closed' = is_closed \cup {r.conn}
        /\ UNCHANGED <<connection, issued>>

LEMMA OlderRequest ==
  ASSUME DInv, NEW r \in Requests, Begins(r), NEW s \in Requests, Made(s)
  PROVE  /\ Made(s)' /\ ~Same(r, s)
         /\ Coming(s) => Coming(s)'
         /\ Going(s) => Going(s)'
<1>1. /\ DbTypes /\ s.conn \in Connections /\ r.conn \in Connections
      /\ s.op = "query" => s.query \in Nat
  BY ActivityFacts DEF DInv, Queries
<1>2. Made(s)' /\ ~Same(r, s)
  BY <1>1 DEF Begins, Made, Same, DbTypes
<1>3. s.op = "close" /\ connection[s.conn] = "closed" => connection'[s.conn] = "closed"
  BY <1>1 DEF Begins, DbTypes
<1>4. Coming(s) => Coming(s)'
  BY <1>2 DEF Begins, Coming
<1>5. Going(s) => Going(s)'
  BY <1>2, <1>3 DEF Begins, Going
<1> QED
  BY <1>2, <1>4, <1>5

LEMMA BeginKeeps ==
  ASSUME DInv, NEW r \in Requests, Begins(r)
  PROVE  DInv'
<1>1. DbTypes /\ Apart /\ LoopApart /\ QueuesSound /\ ConnectionsSound /\ KnownUp /\ Unissued
  BY DEF DInv
<1>2. UNCHANGED <<environment, known, answered, queue, worker, done, lock, wire, executed,
                  outcome, result>>
      /\ loop' = [at |-> "queueing", req |-> r]
  BY DEF Begins
<1>3. r.conn \in Connections
  BY ActivityFacts
<1>4. DbTypes'
  <2>1. connection' \in [Connections -> States] /\ issued' \in Nat /\ issued' <= MaxQueries
        /\ is_closed' \subseteq known
    <3>1. connection' \in [Connections -> States]
      <4>1. "wanted" \in States
        BY DEF States
      <4> QED
        BY <1>1, <1>3, <4>1 DEF Begins, DbTypes
    <3>2. issued' \in Nat /\ issued' <= MaxQueries
      BY <1>1 DEF Begins, DbTypes
    <3>3. is_closed' \subseteq known
      BY <1>1 DEF Begins, DbTypes
    <3> QED
      BY <3>1, <3>2, <3>3
  <2> QED
    BY <1>1, <1>2, <2>1 DEF DbTypes
<1>5. Apart'
  BY <1>1, <1>2 DEF Apart
<1>6. Coming(r)'
  <2>1. r.op = "query" => outcome[r.query] = NoOutcome /\ answered[r.query] = NoOutcome
    <3>1. r.op = "query" => r.query \in Queries /\ r.query > issued
      BY <1>1, ActivityFacts DEF Begins, DbTypes
    <3> QED
      BY <1>1, <3>1 DEF Unissued
  <2>2. r.op = "connect" => r.conn \notin known
    BY <1>1 DEF Begins, KnownUp
  <2>3. Made(r)'
    BY <1>1, <1>2, <1>3, <2>2 DEF Begins, Made, DbTypes
  <2> QED
    BY <1>2, <2>1, <2>3 DEF Coming
<1>7. /\ \A i \in DOMAIN queue : queue[i] \in Requests /\ Coming(queue[i]) /\ Made(queue[i])
      /\ \A i \in DOMAIN done : done[i] \in Requests /\ Going(done[i]) /\ Made(done[i])
  BY <1>1 DEF DbTypes, QueuesSound, Coming, Going
<1>8. ASSUME NEW t \in Workers
      PROVE  \/ worker[t] = Idle
             \/ worker[t].req \in Requests /\ Made(worker[t].req) /\ worker[t].at \in Ats
  <2>1. WorkerSound(t) /\ worker[t] \in Activities
    BY <1>1 DEF DInv, DbTypes
  <2> QED
    BY <2>1, ActivityFacts DEF WorkerSound, Coming, Going, Reading, Activities, Ats
<1>9. LoopApart'
  <2>1. ASSUME NEW i \in DOMAIN queue
        PROVE  ~Same(r, queue[i])
    BY <1>7, OlderRequest
  <2>2. ASSUME NEW i \in DOMAIN done
        PROVE  ~Same(r, done[i])
    BY <1>7, OlderRequest
  <2>3. ASSUME NEW t \in Workers
        PROVE  ~Same(r, worker[t].req)
    <3>1. CASE worker[t] = Idle
      BY <3>1, ActivityFacts DEF Same
    <3>2. CASE worker[t] # Idle
      BY <1>8, <3>2, OlderRequest
    <3> QED
      BY <3>1, <3>2
  <2> QED
    BY <1>2, <2>1, <2>2, <2>3 DEF LoopApart
<1>10. QueuesSound'
  <2>1. ASSUME NEW i \in DOMAIN queue
        PROVE  Coming(queue[i])'
    <3>1. PICK s \in Requests : s = queue[i] /\ s = queue'[i] /\ Coming(s) /\ Made(s)
      BY <1>2, <1>7
    <3>2. Coming(s)'
      BY <3>1, OlderRequest
    <3> QED
      BY <3>1, <3>2 DEF Coming, Made
  <2>2. ASSUME NEW i \in DOMAIN done
        PROVE  Going(done[i])'
    <3>1. PICK s \in Requests : s = done[i] /\ s = done'[i] /\ Going(s) /\ Made(s)
      BY <1>2, <1>7
    <3>2. Going(s)'
      BY <3>1, OlderRequest
    <3> QED
      BY <3>1, <3>2 DEF Going, Made
  <2>3. Coming(loop.req)'
    BY <1>2, <1>6 DEF Coming, Made
  <2> QED
    BY <1>2, <2>1, <2>2, <2>3 DEF QueuesSound
<1>11. ASSUME NEW t \in Workers
       PROVE  WorkerSound(t)'
  <2>1. CASE worker[t] = Idle
    BY <1>2, <2>1, ActivityFacts DEF WorkerSound, HasLock
  <2>2. CASE worker[t] # Idle
    <3>1. PICK s \in Requests : s = worker[t].req /\ s = (worker'[t]).req /\ Made(s)
      BY <1>2, <1>8, <2>2
    <3>2. WorkerSound(t)
      BY DEF DInv
    <3>3. /\ Made(s)'
          /\ Coming(s) => Coming(s)'
          /\ Going(s) => Going(s)'
      BY <3>1, OlderRequest
    <3>4. Coming(worker[t].req) => Coming(worker[t].req)'
      BY <3>1, <3>3 DEF Coming, Made
    <3>5. Going(worker[t].req) => Going(worker[t].req)'
      BY <3>1, <3>3 DEF Going, Made
    <3>6. Reading(worker[t].req) => Reading(worker[t].req)'
      BY <1>2, <3>1, <3>3 DEF Reading, Made
    <3> QED
      BY <1>2, <3>2, <3>4, <3>5, <3>6 DEF WorkerSound, HasLock
  <2> QED
    BY <2>1, <2>2
<1>12. ConnectionsSound'
  BY <1>1, <1>2, <1>3 DEF ConnectionsSound, Begins, DbTypes
<1>13. KnownUp'
  BY <1>1, <1>2, <1>3 DEF KnownUp, Begins, DbTypes
<1>14. Unissued'
  BY <1>1, <1>2 DEF Unissued, Begins, DbTypes, Queries
<1> QED
  BY <1>4, <1>5, <1>9, <1>10, <1>11, <1>12, <1>13, <1>14 DEF DInv

LEMMA CallsKeep ==
  ASSUME DInv, NEW c \in Connections, Connect(c) \/ Query(c) \/ Close(c)
  PROVE  DInv'
<1>1. DbTypes
  BY DEF DInv
<1>2. CASE Connect(c)
  <2> DEFINE r == Request("connect", c, 0)
  <2>1. r \in Requests /\ r.op = "connect" /\ r.conn = c
    BY DEF Request, Requests
  <2>2. Begins(r)
    BY <1>2, <2>1 DEF Connect, Begin, Begins, serverVars
  <2> HIDE DEF r
  <2> QED
    BY <2>1, <2>2, BeginKeeps
<1>3. CASE Query(c)
  <2> DEFINE r == Request("query", c, issued + 1)
  <2>1. r \in Requests /\ r.op = "query" /\ r.conn = c /\ r.query = issued + 1
    BY <1>1, <1>3, BoundAssumption DEF Request, Requests, Query, Queries, DbTypes
  <2>2. Begins(r)
    BY <1>1, <1>3, <2>1, BoundAssumption DEF Query, Begin, Begins, serverVars, DbTypes
  <2> HIDE DEF r
  <2> QED
    BY <2>1, <2>2, BeginKeeps
<1>4. CASE Close(c)
  <2> DEFINE r == Request("close", c, 0)
  <2>1. r \in Requests /\ r.op = "close" /\ r.conn = c
    BY DEF Request, Requests
  <2>2. Begins(r)
    BY <1>4, <2>1 DEF Close, Begin, Begins, serverVars
  <2> HIDE DEF r
  <2> QED
    BY <2>1, <2>2, BeginKeeps
<1> QED
  BY <1>2, <1>3, <1>4

LEMMA QueueWorkKeeps ==
  ASSUME DInv, uv_queue_work
  PROVE  DInv'
<1> DEFINE r == loop.req
           n == Len(queue) + 1
<1>1. /\ loop.at = "queueing" /\ loop' = Idle /\ queue' = Append(queue, r)
      /\ UNCHANGED <<environment, issued, known, is_closed, answered, worker, done, connection,
                     lock, wire, executed, outcome, result>>
  BY DEF uv_queue_work, serverVars
<1>2. DbTypes /\ Apart /\ LoopApart /\ QueuesSound /\ ConnectionsSound /\ KnownUp /\ Unissued
  BY DEF DInv
<1>3. r \in Requests /\ Coming(r)
  BY <1>1, <1>2, ActivityFacts DEF DbTypes, QueuesSound
<1>4. /\ queue' \in Seq(Requests) /\ DOMAIN queue' = DOMAIN queue \cup {n}
      /\ n \notin DOMAIN queue /\ queue'[n] = r
      /\ \A i \in DOMAIN queue : queue'[i] = queue[i]
  BY <1>1, <1>2, <1>3, AppendFacts DEF DbTypes
<1> HIDE DEF n
<1>5. DbTypes'
  BY <1>1, <1>2, <1>4 DEF DbTypes
<1>6. Apart'
  <2>1. \A i, j \in DOMAIN queue' : i # j => ~Same(queue'[i], queue'[j])
    BY <1>1, <1>2, <1>4 DEF Apart, LoopApart, Same
  <2>2. \A i \in DOMAIN queue', j \in DOMAIN done : ~Same(queue'[i], done[j])
    BY <1>1, <1>2, <1>4 DEF Apart, LoopApart
  <2>3. \A i \in DOMAIN queue', t \in Workers : ~Same(queue'[i], worker[t].req)
    BY <1>1, <1>2, <1>4 DEF Apart, LoopApart
  <2> QED
    BY <1>1, <1>2, <2>1, <2>2, <2>3 DEF Apart
<1>7. LoopApart' /\ (loop.at # "queueing")'
  BY <1>1, ActivityFacts DEF LoopApart
<1>8. ASSUME NEW t \in Workers
      PROVE  WorkerSound(t)'
  BY <1>1, OtherWorker DEF DInv
<1>9. QueuesSound'
  <2>1. ASSUME NEW i \in DOMAIN queue'
        PROVE  Coming(queue[i])'
    <3>1. Coming(queue'[i])
      BY <1>2, <1>3, <1>4 DEF QueuesSound
    <3> QED
      BY <1>1, <3>1 DEF Coming, Made
  <2>2. \A i \in DOMAIN done : Going(done[i])'
    BY <1>1, <1>2 DEF QueuesSound, Going, Made
  <2> QED
    BY <1>1, <1>7, <2>1, <2>2 DEF QueuesSound
<1>10. ConnectionsSound' /\ KnownUp' /\ Unissued'
  BY <1>1, <1>2 DEF ConnectionsSound, KnownUp, Unissued
<1> QED
  BY <1>5, <1>6, <1>7, <1>8, <1>9, <1>10 DEF DInv

LEMMA FreedKeeps ==
  ASSUME DInv, Freed
  PROVE  DInv'
<1>1. /\ loop' = Idle
      /\ UNCHANGED <<environment, issued, known, is_closed, answered, queue, worker, done,
                     connection, lock, wire, executed, outcome, result>>
  BY DEF Freed, serverVars
<1>2. DbTypes /\ Apart /\ QueuesSound /\ ConnectionsSound /\ KnownUp /\ Unissued
  BY DEF DInv
<1>3. DbTypes' /\ Apart'
  BY <1>1, <1>2 DEF DbTypes, Apart
<1>4. LoopApart' /\ (loop.at # "queueing")'
  BY <1>1, ActivityFacts DEF LoopApart
<1>5. ASSUME NEW t \in Workers
      PROVE  WorkerSound(t)'
  BY <1>1, OtherWorker DEF DInv
<1>6. QueuesSound'
  BY <1>1, <1>2, <1>4 DEF QueuesSound, Coming, Going, Made
<1>7. ConnectionsSound' /\ KnownUp' /\ Unissued'
  BY <1>1, <1>2 DEF ConnectionsSound, KnownUp, Unissued
<1> QED
  BY <1>3, <1>4, <1>5, <1>6, <1>7 DEF DInv

\* The callback of request r touches nothing another request relies on.
Completes(r) ==
  /\ loop = Idle /\ loop' = [at |-> "freeing", req |-> r]
  /\ known' = IF r.op = "connect" /\ connection[r.conn] = "open"
              THEN known \cup {r.conn} ELSE known
  /\ answered' = IF r.op = "query" THEN [answered EXCEPT ![r.query] = result[r.query]]
                                   ELSE answered
  /\ connection' =
       IF r.op = "close" THEN [connection EXCEPT ![r.conn] = "freed"]
       ELSE IF r.op = "connect" /\ connection[r.conn] = "wanted"
       THEN [connection EXCEPT ![r.conn] = "failed"]
       ELSE connection
  /\ UNCHANGED <<environment, issued, is_closed, queue, worker, lock, wire, executed, outcome,
                 result>>

LEMMA OtherRequest ==
  ASSUME DInv, NEW r \in Requests, Going(r), Completes(r),
         NEW s \in Requests, Made(s), ~Same(s, r)
  PROVE  /\ Made(s)'
         /\ s.op = "query" => answered'[s.query] = answered[s.query]
         /\ Coming(s) => Coming(s)'
         /\ Going(s) => Going(s)'
<1>1. /\ DbTypes /\ s.conn \in Connections /\ r.conn \in Connections /\ Made(r)
      /\ s.op = "query" => s.query \in Queries
      /\ r.op = "query" => r.query \in Queries
  BY ActivityFacts DEF DInv, Going
<1>2. s.op = "query" => answered'[s.query] = answered[s.query]
  BY <1>1 DEF Completes, Same, DbTypes
<1>3. s.op = "connect" => /\ connection'[s.conn] \in {"wanted", "open"}
                          /\ s.conn \notin known'
  BY <1>1 DEF Completes, Made, Same, DbTypes
<1>4. s.op = "close" /\ connection[s.conn] = "closed" => connection'[s.conn] = "closed"
  BY <1>1 DEF Completes, Made, Same, DbTypes
<1>5. Made(s)'
  BY <1>3 DEF Completes, Made
<1>6. Coming(s) => Coming(s)'
  BY <1>2, <1>5 DEF Completes, Coming
<1>7. Going(s) => Going(s)'
  BY <1>2, <1>4, <1>5 DEF Completes, Going
<1> QED
  BY <1>2, <1>5, <1>6, <1>7

LEMMA CompleteKeeps ==
  ASSUME DInv, Complete
  PROVE  DInv'
<1>1. done # <<>> /\ done' = Tail(done) /\ Completes(Head(done))
  BY DEF Complete, Completes, serverVars
<1>2. DbTypes /\ Apart /\ QueuesSound /\ ConnectionsSound /\ KnownUp /\ Unissued
  BY DEF DInv
<1>3. /\ done' \in Seq(Requests) /\ Head(done) = done[1] /\ 1 \in DOMAIN done
      /\ done[1] \in Requests
      /\ \A i \in DOMAIN done' : i \in Nat \ {0} /\ i + 1 \in DOMAIN done
                                 /\ done'[i] = done[i + 1]
  BY <1>1, <1>2, TailFacts DEF DbTypes
<1>4. PICK r \in Requests : r = done[1] /\ Completes(r)
  BY <1>1, <1>3
<1>5. Going(r) /\ Made(r)
  BY <1>2, <1>3, <1>4 DEF QueuesSound, Going
<1>6. /\ loop' = [at |-> "freeing", req |-> r]
      /\ UNCHANGED <<environment, issued, is_closed, queue, worker, lock, wire, executed,
                     outcome, result>>
      /\ r.conn \in Connections
      /\ r.op = "query" => r.query \in Queries
  BY <1>4, ActivityFacts DEF Completes
<1>7. DbTypes'
  <2>1. connection' \in [Connections -> States]
    <3>1. "freed" \in States /\ "failed" \in States
      BY DEF States
    <3> QED
      BY <1>2, <1>4, <1>6, <3>1 DEF Completes, DbTypes
  <2>2. known' \subseteq Connections /\ is_closed' \subseteq known'
    BY <1>2, <1>4, <1>6 DEF Completes, DbTypes
  <2>3. answered' \in [Queries -> Service!Outcomes]
    BY <1>2, <1>4, <1>6 DEF Completes, DbTypes
  <2>4. loop' \in [at : {"queueing", "freeing"}, req : Requests]
    BY <1>6
  <2> QED
    BY <1>2, <1>3, <1>6, <2>1, <2>2, <2>3, <2>4 DEF DbTypes
<1>8. \A i, j \in DOMAIN done' : (i # j => i + 1 # j + 1) /\ i + 1 # 1
  BY <1>3
<1>9. Apart'
  <2>1. \A i, j \in DOMAIN done' : i # j => ~Same(done'[i], done'[j])
    BY <1>2, <1>3, <1>8 DEF Apart
  <2>2. \A i \in DOMAIN queue, j \in DOMAIN done' : ~Same(queue[i], done'[j])
    BY <1>2, <1>3 DEF Apart
  <2>3. \A i \in DOMAIN done', t \in Workers : ~Same(done'[i], worker[t].req)
    BY <1>2, <1>3 DEF Apart
  <2> QED
    BY <1>2, <1>6, <2>1, <2>2, <2>3 DEF Apart
<1>10. LoopApart' /\ (loop.at # "queueing")'
  BY <1>6 DEF LoopApart
<1>11. QueuesSound'
  <2>1. ASSUME NEW i \in DOMAIN queue
        PROVE  Coming(queue[i])'
    <3>1. PICK s \in Requests : s = queue[i] /\ s = queue'[i] /\ ~Same(s, r) /\ Coming(s)
      BY <1>2, <1>3, <1>4, <1>6 DEF DbTypes, Apart, QueuesSound
    <3>2. Coming(s)'
      BY <1>4, <1>5, <3>1, OtherRequest DEF Coming
    <3> QED
      BY <3>1, <3>2 DEF Coming, Made
  <2>2. ASSUME NEW i \in DOMAIN done'
        PROVE  Going(done[i])'
    <3>1. done'[i] \in Requests /\ ~Same(done'[i], r) /\ Going(done'[i])
      BY <1>2, <1>3, <1>4, <1>8 DEF DbTypes, Apart, QueuesSound
    <3>2. PICK s \in Requests : s = done'[i] /\ ~Same(s, r) /\ Going(s)
      BY <3>1
    <3>3. Going(s)'
      BY <1>4, <1>5, <3>2, OtherRequest DEF Going
    <3> QED
      BY <3>2, <3>3 DEF Going, Made
  <2> QED
    BY <1>6, <1>10, <2>1, <2>2 DEF QueuesSound
<1>12. ASSUME NEW t \in Workers
       PROVE  WorkerSound(t)'
  <2>1. CASE worker[t] = Idle
    BY <1>6, <2>1, ActivityFacts DEF WorkerSound, HasLock
  <2>2. CASE worker[t] # Idle
    <3>1. worker[t] \in Activities /\ worker[t].at \in Ats /\ WorkerSound(t)
          /\ worker[t].req \in Requests /\ ~Same(worker[t].req, r)
      <4>1. worker[t] \in Activities /\ WorkerSound(t) /\ ~Same(done[1], worker[t].req)
        BY <1>2, <1>3 DEF DInv, DbTypes, Apart
      <4> QED
        BY <1>4, <2>2, <4>1, ActivityFacts DEF Activities, Same
    <3>2. Made(worker[t].req)
      BY <3>1 DEF WorkerSound, Coming, Going, Reading, Ats
    <3>3. PICK s \in Requests : /\ s = worker[t].req /\ s = (worker'[t]).req
                                /\ ~Same(s, r) /\ Made(s)
      BY <1>6, <3>1, <3>2
    <3>4. /\ Made(s)'
          /\ s.op = "query" => answered'[s.query] = answered[s.query]
          /\ Coming(s) => Coming(s)'
          /\ Going(s) => Going(s)'
      BY <1>4, <1>5, <3>3, OtherRequest
    <3>5. Coming(worker[t].req) => Coming(worker[t].req)'
      BY <3>3, <3>4 DEF Coming, Made
    <3>6. Going(worker[t].req) => Going(worker[t].req)'
      BY <3>3, <3>4 DEF Going, Made
    <3>7. Reading(worker[t].req) => Reading(worker[t].req)'
      BY <1>6, <3>3, <3>4 DEF Reading, Made
    <3> QED
      BY <1>6, <3>1, <3>5, <3>6, <3>7 DEF WorkerSound, HasLock
  <2> QED
    BY <2>1, <2>2
<1>13. ConnectionsSound'
  BY <1>2, <1>4, <1>6 DEF ConnectionsSound, Completes, DbTypes
<1>14. KnownUp'
  BY <1>2, <1>4, <1>5, <1>6 DEF KnownUp, Completes, DbTypes, Made
<1>15. Unissued'
  <2>1. r.op = "query" => r.query <= issued
    BY <1>5 DEF Made
  <2> QED
    BY <1>2, <1>4, <1>6, <2>1 DEF Unissued, Completes, DbTypes, Queries
<1> QED
  BY <1>7, <1>9, <1>10, <1>11, <1>12, <1>13, <1>14, <1>15 DEF DInv
-----------------------------------------------------------------------------
(* The invariant. *)

LEMMA DInvInit == Init => DInv
<1> SUFFICES ASSUME Init
             PROVE  DInv
  OBVIOUS
<1>1. /\ loop = Idle /\ issued = 0 /\ queue = <<>> /\ done = <<>>
      /\ worker = [t \in Workers |-> Idle]
      /\ connection = [c \in Connections |-> "none"]
      /\ known = {} /\ is_closed = {}
      /\ lock = [c \in Connections |-> NoWorker]
      /\ wire = [c \in Connections |-> <<>>]
      /\ result = [q \in Queries |-> NoOutcome]
      /\ executed = <<>>
      /\ outcome = [q \in Queries |-> NoOutcome]
      /\ answered = [q \in Queries |-> NoOutcome]
  BY DEF Init, Service!Init, NoOutcome
<1>2. DbTypes
  <2>1. <<>> \in Seq(Service!Outcomes) /\ <<>> \in Seq(Requests) /\ <<>> \in Seq(Queries)
    OBVIOUS
  <2>2. NoOutcome \in Service!Outcomes
    BY OutcomeFacts
  <2> HIDE DEF Idle, NoOutcome
  <2> QED
    BY <1>1, <2>1, <2>2, BoundAssumption DEF DbTypes, Activities, States
<1>3. \A t \in Workers : worker[t] = Idle
  BY <1>1
<1>4. DOMAIN queue = {} /\ DOMAIN done = {}
  BY <1>1
<1>5. Apart /\ LoopApart
  BY <1>1, <1>3, <1>4, ActivityFacts DEF Apart, LoopApart, Same
<1>6. \A t \in Workers : WorkerSound(t)
  BY <1>3, ActivityFacts DEF WorkerSound, HasLock
<1>7. QueuesSound
  BY <1>1, <1>4, ActivityFacts DEF QueuesSound
<1>8. ConnectionsSound /\ KnownUp /\ Unissued
  BY <1>1 DEF ConnectionsSound, KnownUp, Unissued
<1> QED
  BY <1>2, <1>5, <1>6, <1>7, <1>8 DEF DInv

LEMMA DInvStutter ==
  ASSUME DInv, UNCHANGED vars
  PROVE  DInv'
<1>1. UNCHANGED <<environment, loop, issued, known, is_closed, answered, queue, worker, done,
                  connection, lock, wire, executed, outcome, result>>
  BY DEF vars, loopVars, serverVars
<1>2. (\A t \in Workers : WorkerSound(t))'
  BY <1>1, OtherWorker DEF DInv
<1>3. QueuesSound'
  BY <1>1 DEF DInv, QueuesSound, Coming, Going, Made
<1>4. DbTypes' /\ Apart' /\ LoopApart'
  BY <1>1 DEF DInv, DbTypes, Apart, LoopApart
<1>5. ConnectionsSound' /\ KnownUp' /\ Unissued'
  BY <1>1 DEF DInv, ConnectionsSound, KnownUp, Unissued
<1> QED
  BY <1>2, <1>3, <1>4, <1>5 DEF DInv

LEMMA DInvStep == DInv /\ [Next]_vars => DInv'
<1> SUFFICES ASSUME DInv, [Next]_vars
             PROVE  DInv'
  OBVIOUS
<1>1. CASE \E c \in Connections : Connect(c) \/ Query(c) \/ Close(c)
  BY <1>1, CallsKeep
<1>2. CASE LoopStep
  BY <1>2, QueueWorkKeeps, CompleteKeeps, FreedKeeps DEF LoopStep
<1>3. ASSUME NEW t \in Workers, WorkerStep(t)
      PROVE  DInv'
  BY <1>3, TakeKeeps, ConnectWorkKeeps, LockKeeps, QuerySucceedsKeeps, QueryFailsKeeps,
     ConnectionBreaksKeeps, UseClosedKeeps, CloseWorkKeeps, StoreResultKeeps,
     StoreFailsKeeps, AllocatedKeeps, UnlockKeeps, ReturnKeeps DEF WorkerStep
<1>4. CASE UNCHANGED vars
  BY <1>4, DInvStutter
<1> QED
  BY <1>1, <1>2, <1>3, <1>4 DEF Next

LEMMA Invariance == Spec => []DInv
BY DInvInit, DInvStep, PTL DEF Spec
-----------------------------------------------------------------------------
(* The theorems. *)

\* A request made by a script is at one place at a time, in uv_queue_work's queue, with
\* one worker, or finished; and no two requests are for the same query.
THEOREM OnePlace == Spec => [](Apart /\ LoopApart)
<1>1. DInv => Apart /\ LoopApart
  BY DEF DInv
<1> QED
  BY <1>1, Invariance, PTL

LEMMA ServiceStep ==
  ASSUME DInv, Next
  PROVE  \/ \E q \in Queries : Service!Step(q)
         \/ UNCHANGED <<Troubled, executed, outcome, answered>>
<1>1. UNCHANGED Troubled
  BY DEF Next, LoopStep, WorkerStep, Connect, Query, Close, uv_queue_work, Complete, Freed,
         Take, ConnectWork, Lock, QuerySucceeds, QueryFails, ConnectionBreaks, UseClosed,
         CloseWork, StoreResult, StoreFails, Allocated, Unlock, Return, Troubled
<1>2. CASE (\E c \in Connections : Connect(c) \/ Query(c) \/ Close(c)) \/ uv_queue_work \/ Freed
  BY <1>1, <1>2 DEF Connect, Query, Close, uv_queue_work, Freed, serverVars
<1>3. CASE Complete
  <2>1. DbTypes /\ QueuesSound
    BY DEF DInv
  <2>2. done # <<>> /\ Completes(Head(done)) /\ UNCHANGED <<executed, outcome>>
    BY <1>3 DEF Complete, Completes, serverVars
  <2>3. Head(done) \in Requests /\ Going(Head(done))
    BY <2>1, <2>2, TailFacts DEF DbTypes, QueuesSound
  <2>4. CASE Head(done).op = "query"
    <3>1. Head(done).query \in Queries
      BY <2>3, <2>4, ActivityFacts
    <3>2. Service!Answer(Head(done).query)
      BY <1>1, <2>2, <2>3, <2>4 DEF Completes, Going, Service!Answer, NoOutcome
    <3> QED
      BY <3>1, <3>2 DEF Service!Step
  <2>5. CASE Head(done).op # "query"
    BY <1>1, <2>2, <2>5 DEF Completes
  <2> QED
    BY <2>4, <2>5
<1>4. ASSUME NEW t \in Workers, WorkerStep(t)
      PROVE  \/ \E q \in Queries : Service!Step(q)
             \/ UNCHANGED <<Troubled, executed, outcome, answered>>
  <2> DEFINE r == worker[t].req
  <2>1. WorkerSound(t) /\ worker[t] \in Activities
    BY DEF DInv, DbTypes
  <2>2. CASE QuerySucceeds(t) \/ QueryFails(t) \/ ConnectionBreaks(t)
    <3>1. worker[t].at = "locked" /\ r.op = "query" /\ UNCHANGED answered
      BY <2>2 DEF QuerySucceeds, QueryFails, ConnectionBreaks, Step, loopVars
    <3>2. outcome[r.query] = NoOutcome /\ r.query \in Queries /\ r.conn \in Connections
      BY <2>1, <3>1, ActivityFacts DEF WorkerSound, Coming
    <3>3. CASE QuerySucceeds(t)
      <4>1. Service!Execute(r.query)
        BY <1>1, <3>1, <3>2, <3>3 DEF QuerySucceeds, Service!Execute, NoOutcome
      <4> QED
        BY <3>2, <4>1 DEF Service!Step
    <3>4. CASE QueryFails(t) \/ ConnectionBreaks(t)
      <4>1. Troubled
        BY <3>2, <3>4 DEF QueryFails, ConnectionBreaks, Troubled, DInv, ConnectionsSound
      <4>2. Service!Fail(r.query)
        BY <1>1, <3>1, <3>2, <3>4, <4>1
        DEF QueryFails, ConnectionBreaks, Service!Fail, NoOutcome, Failed
      <4> QED
        BY <3>2, <4>2 DEF Service!Step
    <3> QED
      BY <2>2, <3>3, <3>4
  <2>3. CASE StoreFails(t)
    <3>1. worker[t].at = "reading" /\ UNCHANGED <<answered, executed>>
      BY <2>3 DEF StoreFails, Step, loopVars
    <3>2. Reading(r) /\ r.query \in Queries
      BY <2>1, <3>1, ActivityFacts DEF WorkerSound, Reading
    <3>3. Troubled
      BY <2>3 DEF StoreFails, Troubled
    <3>4. Service!Lose(r.query)
      BY <1>1, <2>3, <3>1, <3>2, <3>3
      DEF StoreFails, Reading, Service!Lose, NoOutcome, Failed, Nothing
    <3> QED
      BY <3>2, <3>4 DEF Service!Step
  <2>4. CASE ~(QuerySucceeds(t) \/ QueryFails(t) \/ ConnectionBreaks(t) \/ StoreFails(t))
    BY <1>1, <1>4, <2>4
    DEF WorkerStep, Take, ConnectWork, Lock, UseClosed, CloseWork, StoreResult, Allocated,
        Unlock, Return, loopVars, serverVars
  <2> QED
    BY <2>2, <2>3, <2>4
<1> QED
  BY <1>2, <1>3, <1>4 DEF Next, LoopStep

\* The handler of every query is called at most once, with what came of this query:
\* query_work holds the mutex of the connection from the query until the answer has been
\* read, for any number of workers, connections and queries.  Where no statement fails
\* and no connection breaks that is the rows; else it may be an error, or neither rows
\* nor an error for a query that took effect (mysql_store_result returned NULL).
THEOREM Refinement == Spec => ServiceImplemented
<1>1. Init => Service!Init
  BY DEF Init
<1>2. DInv /\ [Next]_vars
        => [\E q \in Queries : Service!Step(q)]_<<Troubled, executed, outcome, answered>>
  BY ServiceStep DEF vars, loopVars, serverVars, Troubled
<1> QED
  BY <1>1, <1>2, Invariance, PTL DEF Spec, ServiceImplemented, Service!Spec

\* Once all connections are set up and nothing fails only the loop is in the pool
\* allocators: a worker allocates the context of a new connection, or an error text.
THEOREM PoolKept == Spec => []PoolConfined
<1>1. DInv => PoolConfined
  <2> SUFFICES ASSUME DInv, environment \cap {"error", "lost"} = {}, known = Connections
               PROVE  Cardinality(InPool) <= 1 /\ InPool = {}
    BY DEF PoolConfined, Troubled
  <2>1. ASSUME NEW t \in Workers, worker[t].at = "allocating"
        PROVE  FALSE
    <3>1. WorkerSound(t) /\ worker[t] \in Activities
      BY DEF DInv, DbTypes
    <3>2. worker[t].req \in Requests /\ Made(worker[t].req) /\ worker[t].req.op = "connect"
      BY <2>1, <3>1, ActivityFacts DEF WorkerSound, Going
    <3> QED
      BY <3>2, ActivityFacts DEF Made
  <2>2. InPool = {}
    BY <2>1 DEF InPool
  <2> QED
    BY <2>2, FS_EmptySet
<1> QED
  BY <1>1, Invariance, PTL
-----------------------------------------------------------------------------
(***************************************************************************)
(* That every query takes effect at most once, and that with one worker a  *)
(* connection can be closed at any time.                                   *)
(***************************************************************************)

(***************************************************************************)
(* What the database says: the place of a query, among no more queries     *)
(* than there are, for none takes effect twice.                            *)
(***************************************************************************)
Rows == {Service!Row(n) : n \in 1..MaxQueries}

ExecutedOnce ==
  /\ \A i, j \in DOMAIN executed : i # j => executed[i] # executed[j]
  /\ \A i \in DOMAIN executed : outcome[executed[i]] # NoOutcome

Said ==
  /\ \A q \in Queries :
       {result[q], outcome[q], answered[q]} \subseteq {NoOutcome, Failed, Nothing} \cup Rows
  /\ \A c \in Connections : wire[c] = <<>> \/ \E x \in Rows : wire[c] = <<x>>

Chosen ==
  /\ environment \in Environments /\ workers \in Pools
  /\ misused \in BOOLEAN /\ crashed \in BOOLEAN

SInv == DInv /\ ExecutedOnce /\ Said /\ Chosen

LEMMA RowsFacts ==
  ASSUME NEW n \in 1..MaxQueries
  PROVE  Service!Row(n) \in Rows
  BY DEF Rows

\* Who has not been executed leaves room for one more.
LEMMA RoomForOne ==
  ASSUME NEW N \in Nat, NEW s \in Seq(1..N), NEW q \in 1..N,
         \A i, j \in DOMAIN s : i # j => s[i] # s[j],
         \A i \in DOMAIN s : s[i] # q
  PROVE  Len(s) + 1 \in 1..N
<1> DEFINE S == 1..Len(s)
           T == (1..N) \ {q}
           f == [i \in S |-> s[i]]
<1>1. Len(s) \in Nat /\ DOMAIN s = S /\ \A i \in S : s[i] \in 1..N
  OBVIOUS
<1>2. IsFiniteSet(T) /\ Cardinality(T) = N - 1
  <2>1. IsFiniteSet(1..N) /\ Cardinality(1..N) = N
    <3>1. 1 \in Int /\ N \in Int /\ ~(1 > N) /\ N - 1 + 1 = N
      OBVIOUS
    <3> QED
      BY <3>1, FS_Interval, Zenon
  <2> QED
    BY <2>1, FS_RemoveElement
<1>3. f \in Injection(S, T)
  BY <1>1 DEF Injection, IsInjective
<1> HIDE DEF f
<1>4. Cardinality(S) <= Cardinality(T)
  <2> HIDE DEF S, T
  <2> QED
    BY <1>2, <1>3, FS_Injection
<1>5. Cardinality(S) = Len(s)
  <2> DEFINE m == Len(s)
  <2>1. 1 \in Int /\ m \in Int /\ m - 1 + 1 = m /\ (1 > m => m = 0)
    BY <1>1
  <2>2. Cardinality(1..m) = IF 1 > m THEN 0 ELSE m - 1 + 1
    BY <2>1, FS_Interval, Zenon
  <2> QED
    BY <2>1, <2>2
<1> QED
  BY <1>1, <1>2, <1>4, <1>5

LEMMA ChosenKept ==
  ASSUME SInv, [Next]_vars
  PROVE  Chosen'
<1>1. UNCHANGED <<environment, workers>>
  BY DEF Next, LoopStep, WorkerStep, vars, Connect, Query, Close, uv_queue_work, Complete, Freed,
         Take, ConnectWork, Lock, QuerySucceeds, QueryFails, ConnectionBreaks, UseClosed,
         CloseWork, StoreResult, StoreFails, Allocated, Unlock, Return
<1>2. misused' \in BOOLEAN /\ crashed' \in BOOLEAN
  <2>1. misused \in BOOLEAN /\ crashed \in BOOLEAN
    BY DEF SInv, Chosen
  <2>2. CASE UNCHANGED <<misused, crashed>>
    BY <2>1, <2>2
  <2>3. CASE \E t \in Workers : Lock(t)
    <3>1. PICK t \in Workers : Lock(t)
      BY <2>3
    <3>2. misused' = (connection[worker[t].req.conn] = "freed") /\ UNCHANGED crashed
      BY <3>1 DEF Lock
    <3> QED
      BY <2>1, <3>2
  <2>4. CASE \E t \in Workers : UseClosed(t)
    BY <2>1, <2>4 DEF UseClosed
  <2>5. CASE \E t \in Workers : ConnectionBreaks(t)
    <3>1. PICK t \in Workers : ConnectionBreaks(t)
      BY <2>5
    <3>2. crashed' = (worker[t].req.conn \in Redis) /\ UNCHANGED misused
      BY <3>1 DEF ConnectionBreaks
    <3> QED
      BY <2>1, <3>2
  <2>6. CASE \E t \in Workers : StoreFails(t)
    <3>1. PICK t \in Workers : StoreFails(t)
      BY <2>6
    <3>2. UNCHANGED misused
      BY <3>1 DEF StoreFails
    <3>3. crashed' = (worker[t].req.conn \in Redis) \/ UNCHANGED crashed
      BY <3>1 DEF StoreFails
    <3>4. ASSUME crashed' = (worker[t].req.conn \in Redis)
          PROVE  crashed' \in BOOLEAN
      BY <3>4
    <3>5. UNCHANGED crashed => crashed' \in BOOLEAN
      BY <2>1
    <3> QED
      BY <2>1, <3>2, <3>3, <3>4, <3>5
  <2>7. CASE \A t \in Workers :
               ~Lock(t) /\ ~UseClosed(t) /\ ~ConnectionBreaks(t) /\ ~StoreFails(t)
    <3>1. UNCHANGED <<misused, crashed>>
      BY <2>7 DEF Next, LoopStep, WorkerStep, vars, Connect, Query, Close, uv_queue_work,
                  Complete, Freed, Take, ConnectWork, QuerySucceeds, QueryFails, CloseWork,
                  StoreResult, Allocated, Unlock, Return
    <3> QED
      BY <2>2, <3>1
  <2> QED
    BY <2>3, <2>4, <2>5, <2>6, <2>7
<1> QED
  BY <1>1, <1>2 DEF SInv, Chosen

\* The database appends a query that it has not executed before, and says so.
LEMMA ExecutedAppend ==
  ASSUME SInv, NEW q \in Queries, outcome[q] = NoOutcome,
         executed' = Append(executed, q),
         NEW x \in Service!Outcomes \ {NoOutcome}, outcome' = [outcome EXCEPT ![q] = x]
  PROVE  ExecutedOnce' /\ Len(executed) + 1 \in 1..MaxQueries
<1> DEFINE n == Len(executed) + 1
<1>1. DbTypes /\ ExecutedOnce /\ executed \in Seq(1..MaxQueries) /\ q \in 1..MaxQueries
  BY DEF SInv, DInv, DbTypes, Queries
<1>2. \A i \in DOMAIN executed : executed[i] # q /\ executed[i] \in Queries
  BY <1>1 DEF ExecutedOnce, DbTypes
<1>3. n \in 1..MaxQueries
  BY <1>1, <1>2, BoundAssumption, RoomForOne DEF ExecutedOnce
<1>4. /\ DOMAIN executed' = DOMAIN executed \cup {n}
      /\ executed'[n] = q /\ \A i \in DOMAIN executed : executed'[i] = executed[i]
  BY <1>1, AppendFacts
<1> HIDE DEF n
<1>5. \A i, j \in DOMAIN executed' : i # j => executed'[i] # executed'[j]
  BY <1>1, <1>2, <1>4 DEF ExecutedOnce
<1>6. \A i \in DOMAIN executed' : outcome'[executed'[i]] # NoOutcome
  BY <1>1, <1>2, <1>4 DEF ExecutedOnce, DbTypes
<1> QED
  BY <1>3, <1>5, <1>6 DEF ExecutedOnce, n

\* An outcome is said of a query of which none was said before.
LEMMA SaidMore ==
  ASSUME SInv, NEW t \in Workers, WorkerStep(t), NEW r \in Requests, r = worker[t].req,
         QuerySucceeds(t) \/ QueryFails(t) \/ ConnectionBreaks(t)
  PROVE  ExecutedOnce' /\ Said'
<1>1. /\ worker[t].at = "locked" /\ r.op = "query" /\ UNCHANGED answered
      /\ r.query \in Queries /\ r.conn \in Connections
  BY ActivityFacts DEF QuerySucceeds, QueryFails, ConnectionBreaks, Step, loopVars
<1>2. /\ DbTypes /\ WorkerSound(t) /\ ExecutedOnce /\ Said
  BY DEF SInv, DInv
<1>3. outcome[r.query] = NoOutcome
  BY <1>1, <1>2 DEF WorkerSound, Coming
<1>4. CASE QuerySucceeds(t)
  <2> DEFINE row == Service!Row(Len(executed) + 1)
  <2>1. /\ executed' = Append(executed, r.query)
        /\ outcome' = [outcome EXCEPT ![r.query] = row]
        /\ wire' = [wire EXCEPT ![r.conn] = Append(@, row)] /\ UNCHANGED result
    BY <1>4 DEF QuerySucceeds
  <2>2. row \in Service!Outcomes \ {NoOutcome}
    BY <1>2, OutcomeFacts DEF DbTypes
  <2> HIDE DEF row
  <2>3. ExecutedOnce' /\ Len(executed) + 1 \in 1..MaxQueries
    BY <1>1, <1>3, <2>1, <2>2, ExecutedAppend
  <2>4. row \in Rows
    BY <2>3, RowsFacts DEF row
  <2>5. wire[r.conn] = <<>>
    BY <1>1, WireEmpty DEF HasLock, SInv
  <2>6. wire' = [wire EXCEPT ![r.conn] = <<row>>]
    BY <2>1, <2>5
  <2>7. Said'
    <3>1. \A q \in Queries : outcome'[q] = IF q = r.query THEN row ELSE outcome[q]
      BY <1>1, <1>2, <2>1 DEF DbTypes
    <3>2. \A c \in Connections : wire'[c] = IF c = r.conn THEN <<row>> ELSE wire[c]
      BY <1>1, <1>2, <2>6 DEF DbTypes
    <3>3. ASSUME NEW q \in Queries
          PROVE  {result'[q], outcome'[q], answered'[q]}
                   \subseteq {NoOutcome, Failed, Nothing} \cup Rows
      BY <1>1, <1>2, <2>1, <2>4, <3>1 DEF Said
    <3>4. ASSUME NEW c \in Connections
          PROVE  wire'[c] = <<>> \/ \E x \in Rows : wire'[c] = <<x>>
      <4>1. CASE c = r.conn
        BY <2>4, <3>2, <4>1
      <4>2. CASE c # r.conn
        BY <1>2, <3>2, <4>2 DEF Said
      <4> QED
        BY <4>1, <4>2
    <3> QED
      BY <3>3, <3>4 DEF Said
  <2> QED
    BY <2>3, <2>7
<1>5. CASE QueryFails(t) \/ ConnectionBreaks(t)
  <2>1. /\ outcome' = [outcome EXCEPT ![r.query] = Failed]
        /\ result' = [result EXCEPT ![r.query] = Failed]
        /\ executed' \in {executed, Append(executed, r.query)} /\ UNCHANGED wire
    BY <1>5 DEF QueryFails, ConnectionBreaks
  <2>2. Said'
    BY <1>1, <1>2, <2>1 DEF Said, DbTypes
  <2>3. CASE UNCHANGED executed
    <3>1. \A i \in DOMAIN executed : executed[i] \in Queries
      BY <1>2 DEF DbTypes
    <3>2. \A q \in Queries : outcome'[q] = IF q = r.query THEN Failed ELSE outcome[q]
      BY <1>1, <1>2, <2>1 DEF DbTypes
    <3> QED
      BY <1>2, <2>2, <2>3, <3>1, <3>2, OutcomeFacts DEF ExecutedOnce
  <2>4. CASE executed' = Append(executed, r.query)
    <3>1. Failed \in Service!Outcomes \ {NoOutcome}
      BY OutcomeFacts
    <3> HIDE DEF Failed, NoOutcome
    <3> QED
      BY <1>1, <1>3, <2>1, <2>2, <2>4, <3>1, ExecutedAppend
  <2> QED
    BY <2>1, <2>2, <2>3, <2>4
<1> QED
  BY <1>4, <1>5

LEMMA SaidKept ==
  ASSUME SInv, [Next]_vars
  PROVE  ExecutedOnce' /\ Said'
<1>1. DbTypes /\ ExecutedOnce /\ Said
  BY DEF SInv, DInv
<1>2. CASE UNCHANGED <<executed, outcome, result, answered, wire>>
  BY <1>1, <1>2 DEF ExecutedOnce, Said
<1>3. CASE Complete
  <2>1. done # <<>> /\ Completes(Head(done))
    BY <1>3 DEF Complete, Completes, serverVars
  <2>2. PICK r \in Requests : Completes(r)
    BY <1>1, <2>1, TailFacts DEF DbTypes
  <2>3. r.op = "query" => r.query \in Queries
    BY ActivityFacts
  <2> QED
    BY <1>1, <2>2, <2>3 DEF Completes, ExecutedOnce, Said, DbTypes
<1>4. ASSUME NEW t \in Workers, StoreResult(t)
      PROVE  ExecutedOnce' /\ Said'
  <2> DEFINE r == worker[t].req
  <2>1. /\ result' = [result EXCEPT ![r.query] = Head(wire[r.conn])] /\ wire[r.conn] # <<>>
        /\ wire' = [wire EXCEPT ![r.conn] = Tail(wire[r.conn])]
        /\ UNCHANGED <<executed, outcome, answered>> /\ Step(t, "reading", "unlocking")
    BY <1>4 DEF StoreResult, loopVars
  <2>2. r.conn \in Connections
    BY <2>1, WorkerFacts DEF SInv, Ats
  <2>3. PICK x \in Rows : wire[r.conn] = <<x>>
    BY <1>1, <2>1, <2>2 DEF Said
  <2>4. Head(wire[r.conn]) = x /\ Tail(wire[r.conn]) = <<>>
    BY <2>3
  <2> HIDE DEF r
  <2>5. Said'
    BY <1>1, <2>1, <2>2, <2>4 DEF Said, DbTypes
  <2> QED
    BY <1>1, <2>1, <2>5 DEF ExecutedOnce
<1>5. ASSUME NEW t \in Workers, WorkerStep(t),
             QuerySucceeds(t) \/ QueryFails(t) \/ ConnectionBreaks(t)
      PROVE  ExecutedOnce' /\ Said'
  <2>1. PICK r \in Requests : r = worker[t].req
    <3>1. worker[t].at = "locked" /\ worker[t] \in Activities
      BY <1>1, <1>5 DEF DbTypes, QuerySucceeds, QueryFails, ConnectionBreaks, Step
    <3> QED
      BY <3>1, ActivityFacts
  <2> QED
    BY <1>5, <2>1, SaidMore
<1>6. ASSUME NEW t \in Workers, StoreFails(t)
      PROVE  ExecutedOnce' /\ Said'
  <2> DEFINE r == worker[t].req
  <2>1. /\ result' = [result EXCEPT ![r.query] = Nothing] /\ wire[r.conn] # <<>>
        /\ outcome' = [outcome EXCEPT ![r.query] = Nothing]
        /\ wire' = [wire EXCEPT ![r.conn] = Tail(wire[r.conn])]
        /\ UNCHANGED <<executed, answered>> /\ Step(t, "reading", "unlocking")
    BY <1>6 DEF StoreFails, loopVars
  <2>2. r.conn \in Connections
    BY <2>1, WorkerFacts DEF SInv, Ats
  <2>3. PICK x \in Rows : wire[r.conn] = <<x>>
    BY <1>1, <2>1, <2>2 DEF Said
  <2>4. Tail(wire[r.conn]) = <<>>
    BY <2>3
  <2> HIDE DEF r
  <2>5. Said'
    BY <1>1, <2>1, <2>2, <2>4 DEF Said, DbTypes
  <2>6. \A q \in Queries : outcome'[q] \in {outcome[q], Nothing}
    BY <1>1, <2>1 DEF DbTypes
  <2>7. \A i \in DOMAIN executed : executed[i] \in Queries
    BY <1>1 DEF DbTypes
  <2> QED
    BY <1>1, <2>1, <2>5, <2>6, <2>7, OutcomeFacts DEF ExecutedOnce
<1>7. ASSUME NEW t \in Workers, WorkerStep(t), ~StoreResult(t), ~StoreFails(t),
             ~QuerySucceeds(t), ~QueryFails(t), ~ConnectionBreaks(t)
      PROVE  UNCHANGED <<executed, outcome, result, answered, wire>>
  BY <1>7 DEF WorkerStep, Take, ConnectWork, Lock, UseClosed, CloseWork, Allocated, Unlock,
              Return, loopVars, serverVars
<1>8. CASE uv_queue_work \/ Freed \/ \E c \in Connections : Connect(c) \/ Query(c) \/ Close(c)
  <2>1. UNCHANGED <<executed, outcome, result, answered, wire>>
    BY <1>8 DEF uv_queue_work, Freed, Connect, Query, Close, serverVars
  <2> QED
    BY <1>2, <2>1
<1>9. CASE UNCHANGED vars
  BY <1>2, <1>9 DEF vars, loopVars, serverVars
<1> QED
  BY <1>2, <1>3, <1>4, <1>5, <1>7, <1>8, <1>9, <1>6 DEF Next, LoopStep

LEMMA SInvInit == Init => SInv
<1> SUFFICES ASSUME Init
             PROVE  SInv
  OBVIOUS
<1>1. DInv
  BY DInvInit
<1>2. ExecutedOnce
  <2>1. DOMAIN executed = {}
    BY DEF Init, Service!Init
  <2> QED
    BY <2>1 DEF ExecutedOnce
<1>3. Said /\ Chosen
  BY DEF Init, Service!Init, Said, Chosen, NoOutcome
<1> QED
  BY <1>1, <1>2, <1>3 DEF SInv

LEMMA SInvariance == Spec => []SInv
<1>1. SInv /\ [Next]_vars => SInv'
  BY DInvStep, SaidKept, ChosenKept DEF SInv
<1> QED
  BY <1>1, SInvInit, PTL DEF Spec

\* No query takes effect twice, whatever is lost or fails: query_work sends it once.
THEOREM EffectOnce == Spec => []ExecutedOnce
<1>1. SInv => ExecutedOnce
  BY DEF SInv
<1> QED
  BY <1>1, SInvariance, PTL

\* All variables keep their types, and an answer that nobody has read is on a connection
\* whose mutex is held: query_work and redis_query_work.
THEOREM TypesAndAnswers == Spec => []TypeOK
<1>1. SInv => TypeOK
  <2> SUFFICES ASSUME SInv
               PROVE  TypeOK
    OBVIOUS
  <2>1. DInv /\ DbTypes /\ Said /\ Chosen /\ ConnectionsSound
    BY DEF SInv, DInv
  <2>2. loop = Idle \/ loop \in [at : {"queueing", "freeing"}, req : Requests]
    BY <2>1 DEF DbTypes
  <2>3. ASSUME NEW t \in Workers
        PROVE  worker[t] = Idle \/ (worker[t].at \in Ats /\ worker[t].req \in Requests)
    <3>1. worker[t] \in Activities
      BY <2>1 DEF DbTypes
    <3> QED
      BY <3>1, ActivityFacts DEF Activities
  <2>4. ASSUME NEW c \in Connections
        PROVE  /\ wire[c] = <<>> \/ \E n \in 1..MaxQueries : wire[c] = <<Service!Row(n)>>
               /\ wire[c] # <<>> => lock[c] # NoWorker
    <3>1. wire[c] = <<>> \/ \E n \in 1..MaxQueries : wire[c] = <<Service!Row(n)>>
      BY <2>1 DEF Said, Rows
    <3>2. ASSUME wire[c] # <<>>
          PROVE  lock[c] # NoWorker
      <4>1. PICK t \in Workers : worker[t].at = "reading" /\ worker[t].req.conn = c
        BY <2>1, <3>2 DEF ConnectionsSound
      <4>2. lock[c] = t
        BY <2>1, <4>1 DEF DInv, WorkerSound, HasLock
      <4> QED
        BY <4>2, WorkersAssumption
    <3> QED
      BY <3>1, <3>2
  <2>5. issued \in 0..MaxQueries
    BY <2>1, BoundAssumption DEF DbTypes
  <2> QED
    BY <2>1, <2>2, <2>3, <2>4, <2>5 DEF TypeOK, DbTypes, Said, Chosen, Rows, States, Ats
<1> QED
  BY <1>1, SInvariance, PTL
-----------------------------------------------------------------------------
(***************************************************************************)
(* Closing, with one worker.  Queries that were issued before a connection *)
(* is closed are in front of the request to close it, and none is behind.  *)
(***************************************************************************)
Alone ==
  /\ \A t, u \in workers : t = u
  /\ \A t \in Workers \ workers : worker[t] = Idle

Uses(r, c) == r.op \in {"query", "close"} /\ r.conn = c

\* A connection that has been closed is not in use, and will not be.
QuietWhenClosed ==
  \A c \in Connections :
    connection[c] \in {"closed", "freed"} =>
      /\ c \in is_closed
      /\ loop.at = "queueing" => ~Uses(loop.req, c)
      /\ \A i \in DOMAIN queue : ~Uses(queue[i], c)
      /\ \A t \in Workers : worker[t].at \in {"start", "locked"} => ~Uses(worker[t].req, c)

Behind(r, s) == ~(r.op = "close" /\ s.op = "query" /\ r.conn = s.conn)

CloseLast ==
  /\ \A i, j \in DOMAIN queue : i < j => Behind(queue[i], queue[j])
  /\ loop.at = "queueing" => \A i \in DOMAIN queue : Behind(queue[i], loop.req)
  /\ \A t \in Workers :
       /\ \A i \in DOMAIN queue : Behind(worker[t].req, queue[i])
       /\ loop.at = "queueing" => Behind(worker[t].req, loop.req)

CInv == Alone /\ QuietWhenClosed /\ CloseLast /\ ~misused

LEMMA CallsKeepOrder ==
  ASSUME DInv, CInv, NEW c \in Connections, Connect(c) \/ Query(c) \/ Close(c)
  PROVE  CInv'
<1>1. DbTypes /\ QueuesSound
  BY DEF DInv
<1>2. UNCHANGED <<workers, queue, worker, done, misused, known>>
  BY DEF Connect, Query, Close
<1>3. Alone' /\ ~misused'
  BY <1>2 DEF CInv, Alone
<1>4. /\ loop.at # "queueing" /\ loop'.at = "queueing" /\ loop'.req.conn = c
      /\ loop'.req.op \in {"connect", "query", "close"}
      /\ loop'.req.op # "connect" => c \notin is_closed
      /\ is_closed \subseteq is_closed'
  BY ActivityFacts DEF Connect, Query, Close, Begin, Request
<1>5. \A d \in Connections : connection'[d] \in {"closed", "freed"} =>
        connection[d] \in {"closed", "freed"}
  BY <1>1 DEF Connect, Query, Close, DbTypes
<1>6. QuietWhenClosed'
  BY <1>2, <1>4, <1>5 DEF CInv, QuietWhenClosed, Uses
<1>7. \A i \in DOMAIN queue : Behind(queue[i], loop'.req)
  BY <1>1, <1>4 DEF QueuesSound, Coming, Made, Behind
<1>8. ASSUME NEW t \in Workers
      PROVE  Behind(worker[t].req, loop'.req)
  <2>1. CASE worker[t] = Idle
    BY <2>1, ActivityFacts DEF Behind
  <2>2. CASE worker[t] # Idle
    <3>1. worker[t] \in Activities /\ WorkerSound(t)
      BY <1>1 DEF DInv, DbTypes
    <3>2. Made(worker[t].req)
      BY <2>2, <3>1, ActivityFacts
      DEF WorkerSound, Coming, Going, Reading, Activities, Ats
    <3> QED
      BY <1>4, <3>2 DEF Made, Behind
  <2> QED
    BY <2>1, <2>2
<1>9. CloseLast'
  BY <1>2, <1>7, <1>8 DEF CInv, CloseLast
<1> QED
  BY <1>3, <1>6, <1>9 DEF CInv

LEMMA LoopKeepsOrder ==
  ASSUME DInv, CInv, LoopStep
  PROVE  CInv'
<1>1. DbTypes /\ QueuesSound
  BY DEF DInv
<1>2. CASE uv_queue_work
  <2> DEFINE r == loop.req
             n == Len(queue) + 1
  <2>1. /\ loop.at = "queueing" /\ loop' = Idle /\ queue' = Append(queue, r)
        /\ UNCHANGED <<workers, worker, is_closed, connection, misused>>
    BY <1>2 DEF uv_queue_work
  <2>2. r \in Requests
    BY <1>1, <2>1, ActivityFacts DEF DbTypes
  <2>3. /\ DOMAIN queue' = DOMAIN queue \cup {n} /\ queue'[n] = r
        /\ \A i \in DOMAIN queue : queue'[i] = queue[i] /\ i < n
    BY <1>1, <2>1, <2>2, AppendFacts DEF DbTypes
  <2>4. \A i \in DOMAIN queue : ~(n < i)
    BY <1>1 DEF DbTypes
  <2>5. ~(n < n)
    BY <1>1 DEF DbTypes
  <2> HIDE DEF n
  <2>6. loop'.at # "queueing"
    BY <2>1, ActivityFacts
  <2>7. QuietWhenClosed'
    BY <2>1, <2>3, <2>6 DEF CInv, QuietWhenClosed
  <2>8. CloseLast'
    BY <2>1, <2>3, <2>4, <2>5, <2>6 DEF CInv, CloseLast
  <2> QED
    BY <2>1, <2>7, <2>8 DEF CInv, Alone
<1>3. CASE Freed
  <2>1. loop' = Idle /\ UNCHANGED <<workers, queue, worker, is_closed, connection, misused>>
    BY <1>3 DEF Freed
  <2>2. loop'.at # "queueing"
    BY <2>1, ActivityFacts
  <2> QED
    BY <2>1, <2>2 DEF CInv, Alone, QuietWhenClosed, CloseLast
<1>4. CASE Complete
  <2>1. done # <<>> /\ Completes(Head(done)) /\ UNCHANGED <<workers, misused>>
    BY <1>4 DEF Complete, Completes, serverVars
  <2>2. PICK r \in Requests : Completes(r) /\ Going(r)
    BY <1>1, <2>1, TailFacts DEF DbTypes, QueuesSound
  <2>3. /\ loop'.at # "queueing" /\ UNCHANGED <<queue, worker, is_closed>>
        /\ r.conn \in Connections
    BY <2>2, ActivityFacts DEF Completes
  <2>4. \A c \in Connections : connection'[c] \in {"closed", "freed"} =>
          connection[c] \in {"closed", "freed"}
    BY <1>1, <2>2, <2>3 DEF Completes, Going, DbTypes
  <2>5. QuietWhenClosed'
    BY <2>3, <2>4 DEF CInv, QuietWhenClosed
  <2> QED
    BY <2>1, <2>3, <2>5 DEF CInv, Alone, CloseLast
<1> QED
  BY <1>2, <1>3, <1>4 DEF LoopStep

LEMMA TakeKeepsOrder ==
  ASSUME DInv, CInv, NEW t \in Workers, Take(t)
  PROVE  CInv'
<1> DEFINE r == Head(queue)
<1>1. /\ worker[t] = Idle /\ queue # <<>> /\ queue' = Tail(queue) /\ t \in workers
      /\ worker' = [worker EXCEPT ![t] = [at |-> "start", req |-> r]]
      /\ UNCHANGED <<workers, loop, is_closed, connection, misused>>
  BY DEF Take, loopVars
<1>2. DbTypes
  BY DEF DInv
<1>3. /\ r = queue[1] /\ 1 \in DOMAIN queue
      /\ \A i \in DOMAIN queue' : i \in Nat \ {0} /\ i + 1 \in DOMAIN queue
                                  /\ queue'[i] = queue[i + 1]
  BY <1>1, <1>2, TailFacts DEF DbTypes
<1> HIDE DEF r
<1>4. /\ worker'[t] = [at |-> "start", req |-> r]
      /\ \A u \in Workers : u # t => worker'[u] = worker[u]
  BY <1>1, <1>2 DEF DbTypes
<1>5. Alone' /\ ~misused'
  BY <1>1, <1>4 DEF CInv, Alone
<1>6. QuietWhenClosed'
  BY <1>1, <1>3, <1>4 DEF CInv, QuietWhenClosed
<1>7. /\ \A i, j \in DOMAIN queue' : i < j => i + 1 < j + 1
      /\ \A i \in DOMAIN queue' : 1 < i + 1
  BY <1>3
<1>8. CloseLast'
  <2>1. \A i, j \in DOMAIN queue' : i < j => Behind(queue'[i], queue'[j])
    BY <1>3, <1>7 DEF CInv, CloseLast
  <2>2. loop.at = "queueing" => \A i \in DOMAIN queue' : Behind(queue'[i], loop.req)
    BY <1>3 DEF CInv, CloseLast
  <2>3. ASSUME NEW u \in Workers, u # t
        PROVE  /\ \A i \in DOMAIN queue' : Behind((worker'[u]).req, queue'[i])
               /\ loop.at = "queueing" => Behind((worker'[u]).req, loop.req)
    BY <1>3, <1>4, <2>3 DEF CInv, CloseLast
  <2>4. \A i \in DOMAIN queue' : Behind((worker'[t]).req, queue'[i])
    BY <1>3, <1>4, <1>7 DEF CInv, CloseLast
  <2>5. loop.at = "queueing" => Behind((worker'[t]).req, loop.req)
    BY <1>3, <1>4 DEF CInv, CloseLast
  <2> QED
    BY <1>1, <2>1, <2>2, <2>3, <2>4, <2>5 DEF CloseLast
<1> QED
  BY <1>5, <1>6, <1>8 DEF CInv

\* A worker goes on with its request, and no connection is closed.
LEMMA WorkKeepsOrder ==
  ASSUME DInv, CInv, NEW t \in Workers, NEW from \in Ats, NEW to \in Ats \ {"start"},
         Step(t, from, to), to = "locked" => from \in {"start", "locked"},
         \A c \in Connections : connection'[c] \in {"closed", "freed"} =>
           \/ connection[c] \in {"closed", "freed"}
           \/ /\ worker[t].req.op = "close" /\ worker[t].req.conn = c
              /\ to \notin {"start", "locked"},
         UNCHANGED <<workers, loop, is_closed, queue>>, ~misused'
  PROVE  CInv'
<1> DEFINE r == worker[t].req
<1>1. DbTypes /\ Apart /\ LoopApart
  BY DEF DInv
<1>2. /\ worker[t].at = from /\ worker'[t] = [at |-> to, req |-> r] /\ Made(r)
      /\ r \in Requests
      /\ \A u \in Workers : u # t => worker'[u] = worker[u]
  BY WorkerFacts
<1>3. \A u \in Workers : (worker'[u]).req = worker[u].req
  BY <1>2
<1>4. worker[t] # Idle
  BY <1>2, ActivityFacts DEF Ats
<1>5. Alone'
  BY <1>2, <1>4 DEF CInv, Alone
<1>6. CloseLast'
  BY <1>3 DEF CInv, CloseLast
<1>7. ASSUME NEW c \in Connections, connection'[c] \in {"closed", "freed"}
      PROVE  /\ c \in is_closed
             /\ loop.at = "queueing" => ~Uses(loop.req, c)
             /\ \A i \in DOMAIN queue : ~Uses(queue[i], c)
             /\ \A u \in Workers : (worker'[u]).at \in {"start", "locked"} =>
                  ~Uses((worker'[u]).req, c)
  <2>1. CASE connection[c] \in {"closed", "freed"}
    <3>1. \A u \in Workers : (worker'[u]).at \in {"start", "locked"} =>
            worker[u].at \in {"start", "locked"}
      BY <1>2
    <3> QED
      BY <1>3, <2>1, <3>1 DEF CInv, QuietWhenClosed
  <2>2. CASE r.op = "close" /\ r.conn = c /\ to \notin {"start", "locked"}
    <3>1. c \in is_closed
      BY <1>2, <2>2 DEF Made
    <3>2. loop.at = "queueing" => ~Uses(loop.req, c)
      <4>1. loop.at = "queueing" => ~Same(loop.req, r) /\ Behind(r, loop.req)
        BY <1>1 DEF CInv, CloseLast, LoopApart
      <4> QED
        BY <2>2, <4>1 DEF Uses, Same, Behind
    <3>3. ASSUME NEW i \in DOMAIN queue
          PROVE  ~Uses(queue[i], c)
      <4>1. ~Same(queue[i], r) /\ Behind(r, queue[i])
        BY <1>1 DEF CInv, CloseLast, Apart
      <4> QED
        BY <2>2, <4>1 DEF Uses, Same, Behind
    <3>4. ASSUME NEW u \in Workers, (worker'[u]).at \in {"start", "locked"}
          PROVE  FALSE
      <4>1. u # t
        BY <1>2, <2>2, <3>4
      <4>2. worker[u] = Idle
        BY <1>4, <4>1 DEF CInv, Alone
      <4> QED
        BY <1>2, <3>4, <4>1, <4>2, ActivityFacts
    <3> QED
      BY <3>1, <3>2, <3>3, <3>4
  <2> QED
    BY <1>7, <2>1, <2>2
<1>8. QuietWhenClosed'
  BY <1>7 DEF QuietWhenClosed
<1> QED
  BY <1>5, <1>6, <1>8 DEF CInv

LEMMA WorkerKeepsOrder ==
  ASSUME DInv, CInv, NEW t \in Workers, WorkerStep(t), ~Take(t), ~Return(t)
  PROVE  CInv'
<1>1. DbTypes /\ ~misused /\ QuietWhenClosed
  BY DEF DInv, CInv
<1>2. Ats = {"start", "locked", "reading", "allocating", "unlocking", "returning"}
  BY DEF Ats
<1>3. CASE ConnectWork(t)
  <2>1. /\ Step(t, "start", "allocating") /\ UNCHANGED <<workers, loop, is_closed, queue, misused>>
        /\ connection' \in {connection, [connection EXCEPT ![worker[t].req.conn] = "open"]}
    BY <1>3 DEF ConnectWork, loopVars
  <2>2. \A c \in Connections : connection'[c] \in {"closed", "freed"} =>
          connection[c] \in {"closed", "freed"}
    BY <1>1, <2>1 DEF DbTypes
  <2> QED
    BY <1>1, <1>2, <2>1, <2>2, WorkKeepsOrder
<1>4. CASE Lock(t)
  <2>1. /\ Step(t, "start", "locked")
        /\ UNCHANGED <<workers, loop, is_closed, queue, connection>>
        /\ worker[t].req.op \in {"query", "close"}
        /\ misused' = (connection[worker[t].req.conn] = "freed")
    BY <1>4 DEF Lock, loopVars
  <2>2. worker[t].at = "start" /\ worker[t].req.conn \in Connections
    BY <1>2, <2>1, WorkerFacts
  <2>3. connection[worker[t].req.conn] # "freed"
    BY <1>1, <2>1, <2>2 DEF QuietWhenClosed, Uses
  <2> QED
    BY <1>2, <2>1, <2>3, WorkKeepsOrder
<1>5. CASE UseClosed(t)
  <2>1. /\ Step(t, "locked", "locked") /\ worker[t].req.op = "query"
        /\ connection[worker[t].req.conn] \in {"closed", "freed"}
    BY <1>5 DEF UseClosed
  <2>2. worker[t].at = "locked" /\ worker[t].req.conn \in Connections
    BY <1>2, <2>1, WorkerFacts
  <2> QED
    BY <1>1, <2>1, <2>2 DEF QuietWhenClosed, Uses
<1>6. CASE CloseWork(t)
  <2>1. /\ Step(t, "locked", "unlocking") /\ worker[t].req.op = "close"
        /\ connection' = [connection EXCEPT ![worker[t].req.conn] = "closed"]
        /\ UNCHANGED <<workers, loop, is_closed, queue, misused>>
    BY <1>6 DEF CloseWork, loopVars
  <2>2. \A c \in Connections : c # worker[t].req.conn => connection'[c] = connection[c]
    BY <1>1, <2>1 DEF DbTypes
  <2> QED
    BY <1>1, <1>2, <2>1, <2>2, WorkKeepsOrder
<1>7. CASE ConnectionBreaks(t)
  <2>1. /\ Step(t, "locked", "allocating")
        /\ connection' = [connection EXCEPT ![worker[t].req.conn] = "broken"]
        /\ UNCHANGED <<workers, loop, is_closed, queue, misused>>
    BY <1>7 DEF ConnectionBreaks, loopVars
  <2>2. \A c \in Connections : connection'[c] \in {"closed", "freed"} =>
          connection[c] \in {"closed", "freed"}
    BY <1>1, <2>1 DEF DbTypes
  <2> QED
    BY <1>1, <1>2, <2>1, <2>2, WorkKeepsOrder
<1>8. CASE StoreFails(t)
  <2>1. /\ Step(t, "reading", "unlocking")
        /\ \/ connection' = [connection EXCEPT ![worker[t].req.conn] = "broken"]
           \/ UNCHANGED connection
        /\ UNCHANGED <<workers, loop, is_closed, queue, misused>>
    BY <1>8 DEF StoreFails, loopVars
  <2>2. \A c \in Connections : connection'[c] \in {"closed", "freed"} =>
          connection[c] \in {"closed", "freed"}
    BY <1>1, <2>1 DEF DbTypes
  <2> QED
    BY <1>1, <1>2, <2>1, <2>2, WorkKeepsOrder
<1>9. CASE \/ QuerySucceeds(t) \/ QueryFails(t) \/ StoreResult(t) \/ Allocated(t) \/ Unlock(t)
  <2>1. UNCHANGED <<workers, loop, is_closed, queue, connection, misused>>
    BY <1>9 DEF QuerySucceeds, QueryFails, StoreResult, Allocated, Unlock, loopVars
  <2>2. PICK from \in Ats, to \in Ats \ {"start", "locked"} : Step(t, from, to)
    BY <1>2, <1>9 DEF QuerySucceeds, QueryFails, StoreResult, Allocated, Unlock
  <2> QED
    BY <1>1, <2>1, <2>2, WorkKeepsOrder
<1> QED
  BY <1>3, <1>4, <1>5, <1>6, <1>7, <1>8, <1>9 DEF WorkerStep

LEMMA ReturnKeepsOrder ==
  ASSUME DInv, CInv, NEW t \in Workers, Return(t)
  PROVE  CInv'
<1>1. /\ worker' = [worker EXCEPT ![t] = Idle]
      /\ UNCHANGED <<workers, loop, is_closed, queue, connection, misused>>
  BY DEF Return, loopVars
<1>2. \A u \in Workers : worker'[u] = IF u = t THEN Idle ELSE worker[u]
  BY <1>1 DEF DInv, DbTypes
<1>3. \A s : Behind(Idle.req, s)
  BY ActivityFacts DEF Behind
<1>4. QuietWhenClosed'
  BY <1>1, <1>2, ActivityFacts DEF CInv, QuietWhenClosed
<1>5. CloseLast'
  BY <1>1, <1>2, <1>3 DEF CInv, CloseLast
<1> QED
  BY <1>1, <1>2, <1>4, <1>5 DEF CInv, Alone

\* The pool of workers does not change.
OrderInv == (Cardinality(workers) = 1) => CInv

LEMMA OrderStep == DInv /\ OrderInv /\ [Next]_vars => OrderInv'
<1> SUFFICES ASSUME DInv, OrderInv, [Next]_vars, Cardinality(workers') = 1
             PROVE  CInv'
  BY DEF OrderInv
<1>1. UNCHANGED workers
  BY DEF Next, LoopStep, WorkerStep, vars, Connect, Query, Close, uv_queue_work, Complete, Freed,
         Take, ConnectWork, Lock, QuerySucceeds, QueryFails, ConnectionBreaks, UseClosed,
         CloseWork, StoreResult, StoreFails, Allocated, Unlock, Return
<1>2. CInv
  BY <1>1 DEF OrderInv
<1>3. CASE UNCHANGED vars
  BY <1>2, <1>3 DEF vars, loopVars, CInv, Alone, QuietWhenClosed, CloseLast
<1>4. ASSUME NEW t \in Workers, WorkerStep(t)
      PROVE  CInv'
  BY <1>2, <1>4, TakeKeepsOrder, ReturnKeepsOrder, WorkerKeepsOrder
<1> QED
  BY <1>2, <1>3, <1>4, CallsKeepOrder, LoopKeepsOrder DEF Next

LEMMA OrderInit == Init => OrderInv
<1> SUFFICES ASSUME Init, Cardinality(workers) = 1
             PROVE  CInv
  BY DEF OrderInv
<1>1. /\ loop = Idle /\ worker = [t \in Workers |-> Idle] /\ ~misused /\ DOMAIN queue = {}
      /\ connection = [c \in Connections |-> "none"] /\ workers \in Pools
  BY DEF Init
<1>2. \A t, u \in workers : t = u
  <2>1. IsFiniteSet(workers)
    BY <1>1, WorkersAssumption, FS_Subset
  <2> QED
    BY <2>1, FS_Singleton
<1>3. loop.at # "queueing"
  BY <1>1, ActivityFacts
<1> QED
  BY <1>1, <1>2, <1>3 DEF CInv, Alone, QuietWhenClosed, CloseLast

\* With one worker a connection can be closed while queries on it are under way: they
\* have run by the time close_work runs, and none is issued after, for is_closed is
\* set at once.
THEOREM ClosingIsSafe == Spec => []ClosedUnused
<1>1. OrderInv => ClosedUnused
  BY DEF OrderInv, CInv, ClosedUnused
<1>2. Init => DInv /\ OrderInv
  BY DInvInit, OrderInit
<1>3. DInv /\ OrderInv /\ [Next]_vars => (DInv /\ OrderInv)'
  BY DInvStep, OrderStep
<1> QED
  BY <1>1, <1>2, <1>3, PTL DEF Spec

-----------------------------------------------------------------------------
(***************************************************************************)
(* No request is lost and no worker is stuck: what QueriesAnswered rests   *)
(* on besides fairness.                                                    *)
(***************************************************************************)

\* The mutex of a connection belongs to a worker which is between uv_mutex_lock
\* and uv_mutex_unlock of that connection.
Held ==
  \A c \in Connections : lock[c] # NoWorker =>
    lock[c] \in Workers /\ HasLock(worker[lock[c]]) /\ worker[lock[c]].req.conn = c

\* A connection is closed by its one close request and no sooner; a lost
\* connection to Redis has stopped the process.
Closable(r) == r.op = "close" => connection[r.conn] \in {"open", "broken"}

ClosedByItsRequest ==
  /\ loop.at = "queueing" => Closable(loop.req)
  /\ \A i \in DOMAIN queue : Closable(queue[i])
  /\ \A t \in Workers : worker[t].at \in {"start", "locked"} => Closable(worker[t].req)

ClosedAreMarked ==
  \A c \in Connections : connection[c] \in {"closed", "freed"} => c \in is_closed

RedisLossStops == \A c \in Redis : connection[c] = "broken" => crashed

\* Workers which are not in the pool do nothing.
Bench == \A t \in Workers \ workers : worker[t] = Idle

StuckInv ==
  Held /\ ClosedByItsRequest /\ ClosedAreMarked /\ RedisLossStops /\ Bench

\* Worker t can take its next step: the guards of its actions.
Ready(t) ==
  LET w == worker[t]
      c == w.req.conn
  IN  \/ w = Idle /\ t \in workers /\ queue # <<>>
      \/ w.at = "start" /\ (w.req.op = "connect" \/ lock[c] = NoWorker)
      \/ /\ w.at = "locked" /\ w.req.op = "query"
         /\ \/ connection[c] \in {"open", "closed", "freed"}
            \/ connection[c] = "broken" /\ c \in Mysql
      \/ w.at = "locked" /\ w.req.op = "close" /\ connection[c] \in {"open", "broken"}
      \/ w.at = "reading" /\ wire[c] # <<>>
      \/ w.at \in {"allocating", "unlocking", "returning"}

\* A worker with a request can go on, or waits for one mutex whose holder can.
NoDeadlock ==
  Running =>
    /\ \A t \in Workers :
         worker[t] # Idle =>
           \/ Ready(t)
           \/ /\ worker[t].at = "start"
              /\ lock[worker[t].req.conn] \in Workers /\ Ready(lock[worker[t].req.conn])
    /\ queue # <<>> => \E t \in workers : Ready(t)

\* A worker at this point of request r holds a mutex.
Locks(at, r) ==
  \/ at \in {"locked", "reading", "unlocking"}
  \/ at = "allocating" /\ r.op # "connect"

\* A worker goes on with its request, on its own connection only.
LEMMA WorkKeepsUnstuck ==
  ASSUME DInv, StuckInv, NEW t \in Workers, NEW from \in Ats, NEW to \in Ats, Step(t, from, to),
         UNCHANGED <<workers, loop, queue, is_closed>>,
         to \in {"start", "locked"} => from \in {"start", "locked"},
         \A c \in Connections : lock'[c] # NoWorker =>
           \/ lock'[c] # t /\ lock'[c] = lock[c]
           \/ /\ lock'[c] = t /\ worker[t].req.conn = c
              /\ Locks(to, worker[t].req),
         \A c \in Connections : connection[c] \in {"open", "broken"} =>
           \/ connection'[c] \in {"open", "broken"}
           \/ /\ worker[t].req.op = "close" /\ worker[t].req.conn = c
              /\ to \notin {"start", "locked"},
         \A c \in Connections : connection'[c] \in {"closed", "freed"} =>
           \/ connection[c] \in {"closed", "freed"}
           \/ worker[t].req.op = "close" /\ worker[t].req.conn = c,
         \A c \in Redis : connection'[c] = "broken" => connection[c] = "broken" \/ crashed'
  PROVE  StuckInv'
<1> DEFINE r == worker[t].req
<1>1. /\ DbTypes /\ Apart /\ LoopApart
      /\ Held /\ ClosedByItsRequest /\ ClosedAreMarked /\ RedisLossStops /\ Bench
  BY DEF DInv, StuckInv
<1>2. /\ worker[t].at = from /\ worker'[t] = [at |-> to, req |-> r] /\ r \in Requests /\ Made(r)
      /\ \A u \in Workers : u # t => worker'[u] = worker[u]
  BY WorkerFacts
<1>3. Held'
  <2> SUFFICES ASSUME NEW c \in Connections, lock'[c] # NoWorker
               PROVE  /\ lock'[c] \in Workers /\ HasLock(worker'[lock'[c]])
                      /\ (worker'[lock'[c]]).req.conn = c
    BY DEF Held, HasLock
  <2>1. CASE lock'[c] # t /\ lock'[c] = lock[c]
    BY <1>1, <1>2, <2>1 DEF Held
  <2>2. CASE lock'[c] = t /\ r.conn = c /\ Locks(to, r)
    BY <1>2, <2>2 DEF Locks, HasLock
  <2> QED
    BY <2>1, <2>2
<1>4. ASSUME NEW s \in Requests, Closable(s), s.op = "close",
             ~Same(s, r) \/ to \in {"start", "locked"}
      PROVE  connection'[s.conn] \in {"open", "broken"}
  <2>1. s.conn \in Connections
    BY ActivityFacts
  <2>2. r.op = "close" /\ r.conn = s.conn => Same(s, r)
    BY <1>4 DEF Same
  <2> QED
    BY <1>4, <2>1, <2>2 DEF Closable
<1>5. ClosedByItsRequest'
  <2>1. loop.at = "queueing" /\ loop.req.op = "close" =>
          connection'[loop.req.conn] \in {"open", "broken"}
    <3>1. loop.at = "queueing" => loop.req \in Requests /\ ~Same(loop.req, r)
      BY <1>1 DEF DbTypes, LoopApart, Idle
    <3> QED
      BY <1>1, <1>4, <3>1 DEF ClosedByItsRequest, Closable
  <2>2. ASSUME NEW i \in DOMAIN queue
        PROVE  queue[i].op = "close" => connection'[queue[i].conn] \in {"open", "broken"}
    <3>1. queue[i] \in Requests /\ ~Same(queue[i], r)
      BY <1>1 DEF DbTypes, Apart
    <3> QED
      BY <1>1, <1>4, <3>1 DEF ClosedByItsRequest, Closable
  <2>3. ASSUME NEW u \in Workers, (worker'[u]).at \in {"start", "locked"},
               (worker'[u]).req.op = "close"
        PROVE  connection'[(worker'[u]).req.conn] \in {"open", "broken"}
    <3>1. CASE u = t
      <4>1. to \in {"start", "locked"} /\ (worker'[u]).req = r /\ Closable(r)
        BY <1>1, <1>2, <2>3, <3>1 DEF ClosedByItsRequest
      <4> QED
        BY <1>2, <1>4, <2>3, <4>1
    <3>2. CASE u # t
      <4>1. worker'[u] = worker[u] /\ worker[u] \in Activities /\ ~Same(worker[u].req, r)
        BY <1>1, <1>2, <3>2 DEF DbTypes, Apart
      <4>2. worker[u].req \in Requests /\ Closable(worker[u].req)
        BY <1>1, <2>3, <4>1, ActivityFacts DEF ClosedByItsRequest
      <4> QED
        BY <1>4, <2>3, <4>1, <4>2
    <3> QED
      BY <3>1, <3>2
  <2> QED
    BY <2>1, <2>2, <2>3 DEF ClosedByItsRequest, Closable
<1>6. RedisLossStops' /\ ClosedAreMarked'
  BY <1>1, <1>2 DEF RedisLossStops, ClosedAreMarked, Step, Running, Made
<1>7. Bench'
  <2>1. worker[t] # Idle
    BY <1>2, ActivityFacts DEF Ats
  <2> QED
    BY <1>1, <1>2, <2>1 DEF Bench
<1> QED
  BY <1>3, <1>5, <1>6, <1>7 DEF StuckInv

\* The holder of a mutex keeps it in all steps but the last.
LEMMA HolderKeeps ==
  ASSUME DInv, StuckInv, NEW t \in Workers, NEW from \in Ats, NEW to \in Ats, Step(t, from, to),
         UNCHANGED lock,
         HasLock(worker[t]) => Locks(to, worker[t].req),
         NEW c \in Connections, lock'[c] # NoWorker
  PROVE  \/ lock'[c] # t /\ lock'[c] = lock[c]
         \/ /\ lock'[c] = t /\ worker[t].req.conn = c
            /\ Locks(to, worker[t].req)
  BY DEF StuckInv, Held, Locks, HasLock

LEMMA WorkerKeepsUnstuck ==
  ASSUME DInv, StuckInv, NEW t \in Workers, WorkerStep(t), ~Take(t), ~Return(t)
  PROVE  StuckInv'
<1> DEFINE r == worker[t].req
<1>1. DbTypes /\ Held /\ RedisLossStops
  BY DEF DInv, StuckInv
<1>2. Ats = {"start", "locked", "reading", "allocating", "unlocking", "returning"}
  BY DEF Ats
<1>3. CASE ConnectWork(t)
  <2>1. /\ Step(t, "start", "allocating")
        /\ UNCHANGED <<workers, loop, queue, is_closed, lock, crashed>>
        /\ connection' \in {connection, [connection EXCEPT ![r.conn] = "open"]}
    BY <1>3 DEF ConnectWork, loopVars
  <2>2. r.conn \in Connections /\ worker[t].at = "start"
    BY <1>2, <2>1, WorkerFacts
  <2>3. /\ \A c \in Connections : connection[c] \in {"open", "broken"} =>
             connection'[c] \in {"open", "broken"}
        /\ \A c \in Connections : connection'[c] \in {"closed", "freed"} =>
             connection[c] \in {"closed", "freed"}
        /\ \A c \in Redis : connection'[c] = "broken" => connection[c] = "broken"
    BY <1>1, <2>1, <2>2 DEF DbTypes, Connections
  <2>4. ~HasLock(worker[t])
    BY <2>2 DEF HasLock
  <2> QED
    BY <1>2, <2>1, <2>3, <2>4, WorkKeepsUnstuck, HolderKeeps
<1>4. CASE Lock(t)
  <2>1. /\ Step(t, "start", "locked") /\ UNCHANGED <<workers, loop, queue, is_closed, connection>>
        /\ lock' = [lock EXCEPT ![r.conn] = t]
    BY <1>4 DEF Lock, loopVars
  <2>2. r.conn \in Connections /\ worker[t].at = "start"
    BY <1>2, <2>1, WorkerFacts
  <2>3. \A c \in Connections : lock[c] # t
    BY <1>1, <2>2, WorkersAssumption DEF Held, HasLock
  <2>4. \A c \in Connections : lock'[c] = IF c = r.conn THEN t ELSE lock[c]
    BY <1>1, <2>1 DEF DbTypes
  <2>5. Locks("locked", r)
    BY DEF Locks
  <2> QED
    BY <1>2, <2>1, <2>3, <2>4, <2>5, WorkKeepsUnstuck
<1>5. CASE UseClosed(t)
  <2>1. /\ Step(t, "locked", "locked")
        /\ UNCHANGED <<workers, loop, queue, is_closed, connection, lock>>
    BY <1>5 DEF UseClosed, loopVars
  <2>2. Locks("locked", r)
    BY DEF Locks
  <2> QED
    BY <1>2, <2>1, <2>2, WorkKeepsUnstuck, HolderKeeps
<1>6. CASE CloseWork(t)
  <2>1. /\ Step(t, "locked", "unlocking") /\ UNCHANGED <<workers, loop, queue, is_closed, lock>>
        /\ r.op = "close" /\ connection' = [connection EXCEPT ![r.conn] = "closed"]
    BY <1>6 DEF CloseWork, loopVars
  <2>2. Locks("unlocking", r)
    BY DEF Locks
  <2>3. \A c \in Connections : connection'[c] = IF c = r.conn THEN "closed" ELSE connection[c]
    BY <1>1, <2>1 DEF DbTypes
  <2>4. \A c \in Redis : connection'[c] = "broken" => connection[c] = "broken"
    BY <2>3 DEF Connections
  <2> QED
    BY <1>2, <2>1, <2>2, <2>3, <2>4, WorkKeepsUnstuck, HolderKeeps
<1>7. CASE ConnectionBreaks(t)
  <2>1. /\ Step(t, "locked", "allocating") /\ UNCHANGED <<workers, loop, queue, is_closed, lock>>
        /\ r.op = "query" /\ connection' = [connection EXCEPT ![r.conn] = "broken"]
        /\ crashed' = (r.conn \in Redis)
    BY <1>7 DEF ConnectionBreaks, loopVars
  <2>2. Locks("allocating", r)
    BY <2>1 DEF Locks
  <2>3. \A c \in Connections : connection'[c] = IF c = r.conn THEN "broken" ELSE connection[c]
    BY <1>1, <2>1 DEF DbTypes
  <2>4. \A c \in Redis : connection'[c] = "broken" => connection[c] = "broken" \/ crashed'
    BY <2>1, <2>3 DEF Connections
  <2> QED
    BY <1>2, <2>1, <2>2, <2>3, <2>4, WorkKeepsUnstuck, HolderKeeps
<1>8. CASE Unlock(t)
  <2>1. /\ Step(t, "unlocking", "returning")
        /\ UNCHANGED <<workers, loop, queue, is_closed, connection>>
        /\ lock' = [lock EXCEPT ![r.conn] = NoWorker]
    BY <1>8 DEF Unlock, loopVars
  <2>2. \A c \in Connections : lock'[c] = IF c = r.conn THEN NoWorker ELSE lock[c]
    BY <1>1, <2>1 DEF DbTypes
  <2>3. \A c \in Connections : lock[c] = t => c = r.conn
    BY <1>1, WorkersAssumption DEF Held
  <2> QED
    BY <1>2, <2>1, <2>2, <2>3, WorkKeepsUnstuck
<1>9. CASE QuerySucceeds(t) \/ QueryFails(t) \/ StoreResult(t) \/ Allocated(t)
  <2>1. UNCHANGED <<workers, loop, queue, is_closed, connection, lock>>
    BY <1>9 DEF QuerySucceeds, QueryFails, StoreResult, Allocated, loopVars
  <2>2. PICK from \in Ats, to \in Ats \ {"start", "locked"} :
          /\ Step(t, from, to)
          /\ HasLock(worker[t]) => Locks(to, r)
    <3>1. CASE QuerySucceeds(t)
      BY <1>2, <3>1 DEF QuerySucceeds, Locks, HasLock
    <3>2. CASE QueryFails(t)
      BY <1>2, <3>2 DEF QueryFails, Locks, HasLock
    <3>3. CASE StoreResult(t)
      BY <1>2, <3>3 DEF StoreResult, Locks, HasLock
    <3>4. CASE Allocated(t) /\ r.op = "connect"
      BY <1>2, <3>4 DEF Allocated, Locks, HasLock, Step
    <3>5. CASE Allocated(t) /\ r.op # "connect"
      BY <1>2, <3>5 DEF Allocated, Locks, HasLock
    <3> QED
      BY <1>9, <3>1, <3>2, <3>3, <3>4, <3>5
  <2> QED
    BY <1>2, <2>1, <2>2, WorkKeepsUnstuck, HolderKeeps
<1>10. CASE StoreFails(t)
  <2>1. /\ Step(t, "reading", "unlocking") /\ UNCHANGED <<workers, loop, queue, is_closed, lock>>
        /\ connection[r.conn] = "open"
        /\ \/ /\ connection' = [connection EXCEPT ![r.conn] = "broken"]
              /\ crashed' = (r.conn \in Redis)
           \/ UNCHANGED <<connection, crashed>>
    BY <1>10 DEF StoreFails, loopVars
  <2>2. Locks("unlocking", r)
    BY DEF Locks
  <2>3. \A c \in Connections :
          \/ connection'[c] = connection[c]
          \/ connection'[c] = "broken" /\ connection[c] = "open"
    <3>1. \/ UNCHANGED connection
          \/ \A c \in Connections : connection'[c] = IF c = r.conn THEN "broken" ELSE connection[c]
      BY <1>1, <2>1 DEF DbTypes
    <3> QED
      BY <2>1, <3>1
  <2>4. CASE UNCHANGED <<connection, crashed>>
    BY <1>2, <2>1, <2>2, <2>4, WorkKeepsUnstuck, HolderKeeps
  <2>5. CASE /\ connection' = [connection EXCEPT ![r.conn] = "broken"]
             /\ crashed' = (r.conn \in Redis)
    <3>1. \A c \in Connections : connection'[c] = IF c = r.conn THEN "broken" ELSE connection[c]
      BY <1>1, <2>5 DEF DbTypes
    <3>2. \A c \in Redis : connection'[c] = "broken" => connection[c] = "broken" \/ crashed'
      BY <2>5, <3>1 DEF Connections
    <3> QED
      BY <1>2, <2>1, <2>2, <2>3, <3>2, WorkKeepsUnstuck, HolderKeeps
  <2> QED
    BY <2>1, <2>4, <2>5
<1> QED
  BY <1>3, <1>4, <1>5, <1>6, <1>7, <1>8, <1>9, <1>10 DEF WorkerStep

\* A worker takes a request from the queue, or gives it back done.
LEMMA HandOverKeepsUnstuck ==
  ASSUME DInv, StuckInv, NEW t \in Workers, Take(t) \/ Return(t)
  PROVE  StuckInv'
<1>1. /\ DbTypes /\ Held /\ ClosedByItsRequest /\ ClosedAreMarked /\ RedisLossStops
      /\ Bench
  BY DEF DInv, StuckInv
<1>2. UNCHANGED <<workers, loop, lock, connection, is_closed, crashed>>
  BY DEF Take, Return, loopVars
<1>3. PICK w \in Activities :
        /\ worker' = [worker EXCEPT ![t] = w]
        /\ w = Idle \/ t \in workers
        /\ w.at \in {"start", "locked"} => Closable(w.req)
        /\ ~HasLock(worker[t])
  <2>1. CASE Take(t)
    <3>1. /\ worker' = [worker EXCEPT ![t] = [at |-> "start", req |-> Head(queue)]]
          /\ worker[t] = Idle /\ queue # <<>> /\ t \in workers
      BY <2>1 DEF Take
    <3>2. Head(queue) \in Requests /\ Closable(Head(queue))
      BY <1>1, <3>1, TailFacts DEF ClosedByItsRequest, DbTypes
    <3>3. ~HasLock(worker[t])
      BY <3>1, ActivityFacts DEF HasLock
    <3>4. [at |-> "start", req |-> Head(queue)] \in Activities
      BY <3>2 DEF Activities, Ats
    <3> QED
      BY <3>1, <3>2, <3>3, <3>4
  <2>2. CASE Return(t)
    <3>1. worker' = [worker EXCEPT ![t] = Idle] /\ worker[t].at = "returning"
      BY <2>2 DEF Return
    <3>2. Idle \in Activities /\ Idle.at \notin {"start", "locked"}
      BY ActivityFacts DEF Activities
    <3> QED
      BY <3>1, <3>2 DEF HasLock
  <2> QED
    BY <2>1, <2>2
<1>4. \A u \in Workers : worker'[u] = IF u = t THEN w ELSE worker[u]
  BY <1>1, <1>3 DEF DbTypes
<1>5. queue' = queue \/ (queue # <<>> /\ queue' = Tail(queue))
  <2>1. CASE Take(t)
    BY <2>1 DEF Take
  <2>2. CASE Return(t)
    BY <2>2 DEF Return
  <2> QED
    BY <2>1, <2>2
<1>6. \A i \in DOMAIN queue' : \E j \in DOMAIN queue : queue'[i] = queue[j]
  <2>1. CASE queue # <<>> /\ queue' = Tail(queue)
    <3>1. \A i \in DOMAIN queue' : i + 1 \in DOMAIN queue /\ queue'[i] = queue[i + 1]
      BY <1>1, <2>1, TailFacts DEF DbTypes
    <3> QED
      BY <3>1
  <2> QED
    BY <1>5, <2>1
<1>7. Held'
  BY <1>1, <1>2, <1>3, <1>4 DEF Held, HasLock
<1>8. ClosedByItsRequest'
  BY <1>1, <1>2, <1>3, <1>4, <1>6 DEF ClosedByItsRequest, Closable
<1>9. RedisLossStops' /\ ClosedAreMarked' /\ Bench'
  BY <1>1, <1>2, <1>3, <1>4 DEF RedisLossStops, ClosedAreMarked, Bench
<1> QED
  BY <1>7, <1>8, <1>9 DEF StuckInv

\* A script calls: connect, query or close.
LEMMA CallsKeepUnstuck ==
  ASSUME DInv, StuckInv, NEW c \in Connections, Connect(c) \/ Query(c) \/ Close(c)
  PROVE  StuckInv'
<1>1. /\ DbTypes /\ KnownUp /\ Held /\ ClosedByItsRequest /\ ClosedAreMarked /\ RedisLossStops
      /\ Bench
  BY DEF DInv, StuckInv
<1>2. UNCHANGED <<workers, worker, queue, lock, crashed>> /\ is_closed \subseteq is_closed'
  BY DEF Connect, Query, Close
<1>3. \A d \in Connections :
        \/ connection'[d] = connection[d]
        \/ connection[d] \in {"none", "failed"} /\ connection'[d] = "wanted"
  BY <1>1 DEF Connect, Query, Close, DbTypes
<1>4. ASSUME NEW s \in Requests, Closable(s)
      PROVE  s.op = "close" => connection'[s.conn] \in {"open", "broken"}
  BY <1>3, <1>4, ActivityFacts DEF Closable
<1>5. loop'.req.op = "close" => connection'[loop'.req.conn] \in {"open", "broken"}
  <2>1. CASE Close(c)
    <3>1. loop'.req.conn = c /\ c \in known \ is_closed /\ UNCHANGED connection
      BY <2>1 DEF Close, Begin, Request
    <3> QED
      BY <1>1, <3>1 DEF KnownUp, ClosedAreMarked
  <2>2. CASE Connect(c) \/ Query(c)
    BY <2>2 DEF Connect, Query, Begin, Request
  <2> QED
    BY <2>1, <2>2
<1>6. \A t \in Workers : worker[t].at \in {"start", "locked"} => worker[t].req \in Requests
  BY <1>1, ActivityFacts DEF DbTypes
<1>7. \A i \in DOMAIN queue : queue[i] \in Requests
  BY <1>1 DEF DbTypes
<1>8. ClosedByItsRequest'
  BY <1>1, <1>2, <1>4, <1>5, <1>6, <1>7 DEF ClosedByItsRequest, Closable
<1>9. ClosedAreMarked' /\ RedisLossStops'
  BY <1>1, <1>2, <1>3 DEF ClosedAreMarked, RedisLossStops, Connections
<1> QED
  BY <1>1, <1>2, <1>8, <1>9 DEF StuckInv, Held, Bench, HasLock

\* The loop queues a request, or calls a handler.
LEMMA LoopKeepsUnstuck ==
  ASSUME DInv, StuckInv, LoopStep
  PROVE  StuckInv'
<1>1. /\ DbTypes /\ Apart /\ QueuesSound
      /\ Held /\ ClosedByItsRequest /\ ClosedAreMarked /\ RedisLossStops /\ Bench
  BY DEF DInv, StuckInv
<1>2. UNCHANGED <<workers, worker, lock, crashed, is_closed>>
  BY DEF LoopStep, uv_queue_work, Complete, Freed
<1>3. Held' /\ Bench'
  BY <1>1, <1>2 DEF Held, Bench, HasLock
<1>4. CASE uv_queue_work
  <2>1. /\ loop.at = "queueing" /\ loop' = Idle /\ queue' = Append(queue, loop.req)
        /\ UNCHANGED connection
    BY <1>4 DEF uv_queue_work
  <2>2. queue \in Seq(Requests) /\ loop.req \in Requests
    BY <1>1, <2>1, ActivityFacts DEF DbTypes
  <2>3. \A i \in DOMAIN queue' :
          queue'[i] = loop.req \/ (i \in DOMAIN queue /\ queue'[i] = queue[i])
    BY <2>1, <2>2, AppendFacts
  <2>4. loop'.at # "queueing"
    BY <2>1, ActivityFacts
  <2>5. ClosedByItsRequest'
    BY <1>1, <1>2, <2>1, <2>3, <2>4 DEF ClosedByItsRequest, Closable
  <2> QED
    BY <1>1, <1>2, <1>3, <2>1, <2>5 DEF StuckInv, ClosedAreMarked, RedisLossStops
<1>5. CASE Freed
  <2>1. loop' = Idle /\ UNCHANGED <<queue, connection>>
    BY <1>5 DEF Freed
  <2>2. ClosedByItsRequest'
    BY <1>1, <1>2, <2>1, ActivityFacts DEF ClosedByItsRequest, Closable
  <2> QED
    BY <1>1, <1>2, <1>3, <2>1, <2>2 DEF StuckInv, ClosedAreMarked, RedisLossStops
<1>6. CASE Complete
  <2>1. done # <<>> /\ Completes(Head(done))
    BY <1>6 DEF Complete, Completes, serverVars
  <2>2. PICK n \in DOMAIN done : Completes(done[n])
    BY <1>1, <2>1, TailFacts DEF DbTypes
  <2>3. PICK r \in Requests :
          /\ r = done[n] /\ Completes(r) /\ Going(r)
          /\ \A i \in DOMAIN queue : ~Same(queue[i], r)
          /\ \A t \in Workers : ~Same(worker[t].req, r)
    <3>1. done[n] \in Requests
      BY <1>1, <2>2 DEF DbTypes
    <3>2. /\ \A i \in DOMAIN queue : ~Same(queue[i], done[n])
          /\ \A t \in Workers : ~Same(worker[t].req, done[n])
      BY <1>1, <2>2 DEF Apart, Same
    <3> QED
      BY <1>1, <2>2, <3>1, <3>2 DEF QueuesSound
  <2>4. /\ loop'.at # "queueing" /\ UNCHANGED queue
        /\ r.conn \in Connections
    BY <2>3, ActivityFacts DEF Completes
  <2>5. \A d \in Connections :
          \/ connection'[d] = connection[d]
          \/ r.op = "close" /\ d = r.conn /\ connection'[d] = "freed"
          \/ connection[d] = "wanted" /\ connection'[d] = "failed"
    BY <1>1, <2>3, <2>4 DEF Completes, DbTypes
  <2>6. ASSUME NEW s \in Requests, Closable(s), ~Same(s, r)
        PROVE  s.op = "close" => connection'[s.conn] \in {"open", "broken"}
    BY <2>5, <2>6, ActivityFacts DEF Closable, Same
  <2>7. \A t \in Workers : worker[t].at \in {"start", "locked"} => worker[t].req \in Requests
    BY <1>1, ActivityFacts DEF DbTypes
  <2>8. \A i \in DOMAIN queue : queue[i] \in Requests
    BY <1>1 DEF DbTypes
  <2>9. ClosedByItsRequest'
    BY <1>1, <1>2, <2>3, <2>4, <2>6, <2>7, <2>8 DEF ClosedByItsRequest, Closable
  <2>10. ClosedAreMarked' /\ RedisLossStops'
    BY <1>1, <1>2, <2>3, <2>5
    DEF ClosedAreMarked, RedisLossStops, Connections, Going, Made
  <2> QED
    BY <1>3, <2>9, <2>10 DEF StuckInv
<1> QED
  BY <1>4, <1>5, <1>6 DEF LoopStep

LEMMA UnstuckStep == DInv /\ StuckInv /\ [Next]_vars => StuckInv'
<1> SUFFICES ASSUME DInv, StuckInv, [Next]_vars
             PROVE  StuckInv'
  OBVIOUS
<1>1. CASE UNCHANGED vars
  BY <1>1 DEF vars, loopVars, StuckInv, Held, HasLock, ClosedByItsRequest, Closable,
              ClosedAreMarked, RedisLossStops, Bench
<1>2. ASSUME NEW t \in Workers, WorkerStep(t)
      PROVE  StuckInv'
  BY <1>2, HandOverKeepsUnstuck, WorkerKeepsUnstuck
<1> QED
  BY <1>1, <1>2, CallsKeepUnstuck, LoopKeepsUnstuck DEF Next

LEMMA UnstuckInit == Init => StuckInv
<1> SUFFICES ASSUME Init
             PROVE  StuckInv
  OBVIOUS
<1>1. /\ loop = Idle /\ DOMAIN queue = {} /\ worker = [t \in Workers |-> Idle]
      /\ connection = [c \in Connections |-> "none"]
      /\ lock = [c \in Connections |-> NoWorker]
  BY DEF Init
<1>2. Idle.at \notin {"queueing", "start", "locked"}
  BY ActivityFacts
<1> QED
  BY <1>1, <1>2 DEF StuckInv, Held, ClosedByItsRequest, ClosedAreMarked, RedisLossStops, Bench,
                    Connections

\* The holder of a mutex waits for nobody.
LEMMA HolderReady ==
  ASSUME DInv, StuckInv, Running, NEW t \in Workers,
         HasLock(worker[t]) \/ worker[t].at \in {"allocating", "returning"}
  PROVE  Ready(t)
<1> DEFINE r == worker[t].req
<1>1. DbTypes /\ KnownUp /\ WorkerSound(t) /\ ClosedByItsRequest /\ RedisLossStops
  BY DEF DInv, StuckInv
<1>2. worker[t].at \in {"locked", "reading", "allocating", "unlocking", "returning"}
  BY DEF HasLock
<1>3. r \in Requests /\ r.conn \in Connections
  BY <1>1, <1>2, ActivityFacts DEF DbTypes
<1>4. CASE worker[t].at = "locked" /\ r.op = "query"
  <2>1. connection[r.conn] \in {"open", "broken", "closed", "freed"}
    BY <1>1, <1>4 DEF WorkerSound, Coming, Made, KnownUp
  <2>2. connection[r.conn] = "broken" => r.conn \in Mysql
    BY <1>1, <1>3 DEF RedisLossStops, Running, Connections
  <2> QED
    BY <1>4, <2>1, <2>2 DEF Ready
<1>5. CASE worker[t].at = "locked" /\ r.op # "query"
  <2>1. r.op = "close"
    BY <1>1, <1>5 DEF WorkerSound
  <2> QED
    BY <1>1, <1>5, <2>1 DEF Ready, ClosedByItsRequest, Closable
<1>6. CASE worker[t].at = "reading"
  <2>1. wire[r.conn] = <<outcome[r.query]>>
    BY <1>1, <1>6 DEF WorkerSound, Reading
  <2> QED
    BY <1>6, <2>1 DEF Ready
<1> QED
  BY <1>2, <1>4, <1>5, <1>6 DEF Ready

\* No worker waits in vain: whoever cannot go on waits in uv_mutex_lock for one
\* connection, and its holder can go on; and where a request is queued, a thread of
\* the pool can go on.  So connections and errors never make the wrappers stop.
THEOREM WorkersNeverStuck == Spec => []NoDeadlock
<1>1. SInv /\ StuckInv => NoDeadlock
  <2> SUFFICES ASSUME SInv, StuckInv, Running
               PROVE  /\ \A t \in Workers :
                           worker[t] # Idle =>
                             \/ Ready(t)
                             \/ /\ worker[t].at = "start"
                                /\ lock[worker[t].req.conn] \in Workers
                                /\ Ready(lock[worker[t].req.conn])
                      /\ queue # <<>> => \E t \in workers : Ready(t)
    BY DEF NoDeadlock
  <2>1. DInv /\ DbTypes /\ Held /\ Bench /\ workers \in Pools
    BY DEF SInv, DInv, StuckInv, Chosen
  <2>2. workers \subseteq Workers /\ workers # {}
    BY <2>1, WorkersAssumption
  <2>3. ASSUME NEW t \in Workers, worker[t] # Idle, ~Ready(t)
        PROVE  /\ worker[t].at = "start"
               /\ \E u \in workers : lock[worker[t].req.conn] = u /\ Ready(u)
    <3>1. worker[t].at \in Ats /\ worker[t].req \in Requests /\ worker[t].req.conn \in Connections
      BY <2>1, <2>3, ActivityFacts DEF DbTypes, Activities
    <3>2. worker[t].at = "start"
      BY <2>1, <2>3, <3>1, HolderReady DEF Ats, HasLock
    <3>3. lock[worker[t].req.conn] # NoWorker
      BY <2>3, <3>2 DEF Ready
    <3>4. PICK u \in Workers : lock[worker[t].req.conn] = u /\ HasLock(worker[u])
      BY <2>1, <3>1, <3>3 DEF Held
    <3>5. worker[u] # Idle
      BY <3>4, ActivityFacts DEF HasLock
    <3> QED
      BY <2>1, <3>2, <3>4, <3>5, HolderReady DEF Bench
  <2>4. ASSUME queue # <<>>
        PROVE  \E t \in workers : Ready(t)
    <3>1. PICK t \in workers : TRUE
      BY <2>2
    <3>2. CASE worker[t] = Idle
      BY <2>4, <3>2 DEF Ready
    <3>3. CASE worker[t] # Idle
      BY <2>2, <2>3, <3>3
    <3> QED
      BY <3>2, <3>3
  <2> QED
    BY <2>2, <2>3, <2>4
<1> QED
  BY <1>1, SInvariance, Invariance, UnstuckInit, UnstuckStep, PTL DEF Spec

-----------------------------------------------------------------------------
(* Queries and their answers. *)

\* Request r is the query q.
IsQuery(r, q) == r.op = "query" /\ r.query = q

\* Query q is being queued, queued, with a worker, or its callback is due.
OnItsWay(q) ==
  \/ loop.at = "queueing" /\ IsQuery(loop.req, q)
  \/ \E i \in DOMAIN queue : IsQuery(queue[i], q)
  \/ \E t \in Workers : IsQuery(worker[t].req, q)
  \/ \E i \in DOMAIN done : IsQuery(done[i], q)

\* A query that was issued is answered, or on its way.
NoQueryLost == \A q \in 1..issued : answered[q] # NoOutcome \/ OnItsWay(q)

\* What was the head of a sequence is gone, everything else moves up.
LEMMA TailCovers ==
  ASSUME NEW S, NEW s \in Seq(S), s # <<>>, NEW i \in DOMAIN s, i # 1
  PROVE  i - 1 \in DOMAIN Tail(s) /\ Tail(s)[i - 1] = s[i]
  OBVIOUS

LEMMA WorkLosesNothing ==
  ASSUME DInv, NEW t \in Workers, WorkerStep(t), NEW q, OnItsWay(q)
  PROVE  OnItsWay(q)'
<1>1. DbTypes /\ UNCHANGED loop
  BY DEF DInv, WorkerStep, Take, ConnectWork, Lock, QuerySucceeds, QueryFails,
         ConnectionBreaks, UseClosed, CloseWork, StoreResult, StoreFails, Allocated, Unlock,
         Return, loopVars
<1>2. CASE Take(t)
  <2>1. /\ worker[t] = Idle /\ queue # <<>> /\ queue' = Tail(queue) /\ UNCHANGED done
        /\ worker' = [worker EXCEPT ![t] = [at |-> "start", req |-> Head(queue)]]
    BY <1>2 DEF Take
  <2>2. /\ (worker'[t]).req = queue[1]
        /\ \A u \in Workers : u # t => worker'[u] = worker[u]
    BY <1>1, <2>1, TailFacts DEF DbTypes
  <2>3. ~IsQuery(worker[t].req, q)
    BY <2>1, ActivityFacts DEF IsQuery
  <2>4. ASSUME NEW i \in DOMAIN queue, IsQuery(queue[i], q)
        PROVE  \/ \E j \in DOMAIN queue' : IsQuery(queue'[j], q)
               \/ IsQuery((worker'[t]).req, q)
    <3>1. CASE i = 1
      BY <2>2, <2>4, <3>1
    <3>2. CASE i # 1
      <4>1. i - 1 \in DOMAIN queue' /\ queue'[i - 1] = queue[i]
        BY <1>1, <2>1, <3>2, TailCovers DEF DbTypes
      <4> QED
        BY <2>4, <4>1
    <3> QED
      BY <3>1, <3>2
  <2> QED
    BY <1>1, <2>1, <2>2, <2>3, <2>4 DEF OnItsWay, IsQuery
<1>3. CASE Return(t)
  <2>1. /\ worker' = [worker EXCEPT ![t] = Idle] /\ UNCHANGED queue
        /\ done' = Append(done, worker[t].req) /\ worker[t].at = "returning"
    BY <1>3 DEF Return
  <2>2. \A u \in Workers : u # t => worker'[u] = worker[u]
    BY <1>1, <2>1 DEF DbTypes
  <2>3. done \in Seq(Requests) /\ worker[t].req \in Requests
    BY <1>1, <2>1, ActivityFacts DEF DbTypes
  <2>4. /\ \A i \in DOMAIN done : i \in DOMAIN done' /\ done'[i] = done[i]
        /\ Len(done) + 1 \in DOMAIN done' /\ done'[Len(done) + 1] = worker[t].req
    BY <2>1, <2>3, AppendFacts
  <2>5. ASSUME NEW u \in Workers, IsQuery(worker[u].req, q)
        PROVE  \/ \E v \in Workers : IsQuery((worker'[v]).req, q)
               \/ \E i \in DOMAIN done' : IsQuery(done'[i], q)
    <3>1. CASE u = t
      BY <2>4, <2>5, <3>1
    <3>2. CASE u # t
      BY <2>2, <2>5, <3>2
    <3> QED
      BY <3>1, <3>2
  <2> QED
    BY <1>1, <2>1, <2>4, <2>5 DEF OnItsWay, IsQuery
<1>4. CASE ~Take(t) /\ ~Return(t)
  <2>1. PICK from \in Ats, to \in Ats : Step(t, from, to)
    BY <1>4 DEF WorkerStep, ConnectWork, Lock, QuerySucceeds, QueryFails, ConnectionBreaks,
                UseClosed, CloseWork, StoreResult, StoreFails, Allocated, Unlock, Ats
  <2>2. UNCHANGED <<queue, done>>
    BY <1>4 DEF WorkerStep, ConnectWork, Lock, QuerySucceeds, QueryFails, ConnectionBreaks,
                UseClosed, CloseWork, StoreResult, StoreFails, Allocated, Unlock
  <2>3. /\ worker'[t] = [at |-> to, req |-> worker[t].req]
        /\ \A u \in Workers : u # t => worker'[u] = worker[u]
    BY <2>1, WorkerFacts
  <2>4. \A u \in Workers : (worker'[u]).req = worker[u].req
    BY <2>3
  <2> QED
    BY <1>1, <2>2, <2>4 DEF OnItsWay, IsQuery
<1> QED
  BY <1>2, <1>3, <1>4

LEMMA LoopLosesNothing ==
  ASSUME DInv, LoopStep, NEW q \in Queries, OnItsWay(q)
  PROVE  OnItsWay(q)' \/ answered'[q] # NoOutcome
<1>1. DbTypes /\ QueuesSound
  BY DEF DInv
<1>2. UNCHANGED worker
  BY DEF LoopStep, uv_queue_work, Complete, Freed
<1>3. CASE uv_queue_work
  <2>1. /\ loop.at = "queueing" /\ queue' = Append(queue, loop.req) /\ UNCHANGED done
    BY <1>3 DEF uv_queue_work
  <2>2. queue \in Seq(Requests) /\ loop.req \in Requests
    BY <1>1, <2>1, ActivityFacts DEF DbTypes
  <2>3. /\ \A i \in DOMAIN queue : i \in DOMAIN queue' /\ queue'[i] = queue[i]
        /\ Len(queue) + 1 \in DOMAIN queue' /\ queue'[Len(queue) + 1] = loop.req
    BY <2>1, <2>2, AppendFacts
  <2> QED
    BY <1>2, <2>1, <2>3 DEF OnItsWay, IsQuery
<1>4. CASE Freed
  BY <1>2, <1>4 DEF Freed, OnItsWay, IsQuery
<1>5. CASE Complete
  <2>1. /\ loop = Idle /\ done # <<>> /\ done' = Tail(done) /\ UNCHANGED queue
        /\ Completes(Head(done))
    BY <1>5 DEF Complete, Completes, serverVars
  <2>2. PICK r \in Requests : r = done[1] /\ Completes(r) /\ Going(r)
    BY <1>1, <2>1, TailFacts DEF DbTypes, QueuesSound
  <2>3. CASE IsQuery(r, q)
    BY <1>1, <2>2, <2>3 DEF IsQuery, Completes, Going, DbTypes
  <2>4. CASE ~IsQuery(r, q)
    <3>1. ASSUME NEW i \in DOMAIN done, IsQuery(done[i], q)
          PROVE  \E j \in DOMAIN done' : IsQuery(done'[j], q)
      <4>1. i # 1
        BY <2>2, <2>4, <3>1
      <4>2. i - 1 \in DOMAIN done' /\ done'[i - 1] = done[i]
        BY <1>1, <2>1, <4>1, TailCovers DEF DbTypes
      <4> QED
        BY <3>1, <4>2
    <3>2. loop.at # "queueing"
      BY <2>1, ActivityFacts
    <3> QED
      BY <1>2, <2>1, <3>1, <3>2 DEF OnItsWay, IsQuery
  <2> QED
    BY <2>3, <2>4
<1> QED
  BY <1>3, <1>4, <1>5 DEF LoopStep

\* Every query a script issues is in exactly one place (OnePlace) until its handler
\* has been called: the wrappers drop none, on any path through an error, a broken
\* connection or a close.
THEOREM QueriesNeverLost == Spec => []NoQueryLost
<1>1. Init => NoQueryLost
  BY DEF Init, NoQueryLost
<1>2. DInv /\ DInv' /\ NoQueryLost /\ [Next]_vars => NoQueryLost'
  <2> SUFFICES ASSUME DInv, DInv', NoQueryLost, [Next]_vars, NEW q \in 1..issued'
               PROVE  answered'[q] # NoOutcome \/ OnItsWay(q)'
    BY DEF NoQueryLost
  <2>1. DbTypes /\ q \in Queries
    BY BoundAssumption DEF DInv, DbTypes, Queries
  <2>2. CASE UNCHANGED vars
    BY <2>2 DEF NoQueryLost, OnItsWay, IsQuery, vars, loopVars
  <2>3. ASSUME NEW t \in Workers, WorkerStep(t)
        PROVE  answered'[q] # NoOutcome \/ OnItsWay(q)'
    <3>1. UNCHANGED <<issued, answered>>
      BY <2>3 DEF WorkerStep, Take, ConnectWork, Lock, QuerySucceeds, QueryFails,
                  ConnectionBreaks, UseClosed, CloseWork, StoreResult, StoreFails, Allocated,
                  Unlock, Return, loopVars
    <3> QED
      BY <2>3, <3>1, WorkLosesNothing DEF NoQueryLost
  <2>4. CASE LoopStep
    <3>1. UNCHANGED issued /\ (answered[q] # NoOutcome => answered'[q] # NoOutcome)
      <4>1. CASE uv_queue_work \/ Freed
        BY <4>1 DEF uv_queue_work, Freed
      <4>2. CASE Complete
        <5>1. done # <<>> /\ Completes(Head(done)) /\ QueuesSound
          BY <4>2 DEF Complete, Completes, serverVars, DInv
        <5>2. PICK r \in Requests : Completes(r) /\ Going(r)
          BY <2>1, <5>1, TailFacts DEF DbTypes, QueuesSound
        <5> QED
          BY <2>1, <5>2 DEF Completes, Going, DbTypes
      <4> QED
        BY <2>4, <4>1, <4>2 DEF LoopStep
    <3> QED
      BY <2>1, <2>4, <3>1, LoopLosesNothing DEF NoQueryLost
  <2>5. ASSUME NEW c \in Connections, Connect(c) \/ Query(c) \/ Close(c)
        PROVE  answered'[q] # NoOutcome \/ OnItsWay(q)'
    <3>1. loop = Idle /\ UNCHANGED <<answered, queue, worker, done>>
      BY <2>5 DEF Connect, Query, Close, Begin
    <3>2. CASE q \in 1..issued
      <4>1. loop.at # "queueing"
        BY <3>1, ActivityFacts
      <4> QED
        BY <3>1, <3>2, <4>1 DEF NoQueryLost, OnItsWay, IsQuery
    <3>3. CASE q \notin 1..issued
      <4>1. Query(c)
        BY <2>5, <3>3 DEF Connect, Close
      <4>2. q = issued + 1
        BY <2>1, <3>3, <4>1 DEF Query, DbTypes
      <4> QED
        BY <4>1, <4>2 DEF Query, Begin, Request, OnItsWay, IsQuery
    <3> QED
      BY <3>2, <3>3
  <2> QED
    BY <2>2, <2>3, <2>4, <2>5 DEF Next
<1> QED
  BY <1>1, <1>2, Invariance, PTL DEF Spec

\* A handler is called with what came of its query: rows are those of the place at which
\* this query took effect; neither rows nor an error, only if it took effect all the same
\* (then its rows were lost); and either of the two only where statements may fail or
\* connections break.
RowsOfTheirQueries ==
  \A q \in Queries :
    /\ answered[q] \in {NoOutcome, outcome[q]}
    /\ \A n \in Nat : outcome[q] = Service!Row(n) => n \in DOMAIN executed /\ executed[n] = q
    /\ outcome[q] = Nothing => \E n \in DOMAIN executed : executed[n] = q
    /\ outcome[q] \in {Failed, Nothing} => Troubled

\* What QueryService!Spec means to a script: the rows it is given were read when its own
\* query took effect, never those of another query.  An answer without rows and without
\* an error (mysql_store_result returned NULL) tells it that the query took effect, and
\* nothing of what is in the database.
THEOREM RowsAreTheirOwn == Spec => []RowsOfTheirQueries
<1>1. Init => RowsOfTheirQueries
  BY OutcomeFacts DEF Init, Service!Init, RowsOfTheirQueries, NoOutcome
<1>2. DInv /\ RowsOfTheirQueries /\ [Next]_vars => RowsOfTheirQueries'
  <2> SUFFICES ASSUME DInv, RowsOfTheirQueries, [Next]_vars
               PROVE  RowsOfTheirQueries'
    OBVIOUS
  <2>1. /\ executed \in Seq(Queries)
        /\ outcome \in [Queries -> Service!Outcomes] /\ answered \in [Queries -> Service!Outcomes]
    BY DEF DInv, DbTypes
  <2>2. CASE UNCHANGED <<Troubled, executed, outcome, answered>>
    BY <2>2 DEF RowsOfTheirQueries
  <2>3. ASSUME NEW q \in Queries, Service!Answer(q)
        PROVE  RowsOfTheirQueries'
    BY <2>1, <2>3 DEF RowsOfTheirQueries, Service!Answer
  <2>4. ASSUME NEW q \in Queries, Service!Execute(q)
        PROVE  RowsOfTheirQueries'
    <3> DEFINE row == Service!Row(Len(executed) + 1)
    <3>1. /\ outcome[q] = NoOutcome /\ UNCHANGED <<Troubled, answered>>
          /\ executed' = Append(executed, q) /\ outcome' = [outcome EXCEPT ![q] = row]
      BY <2>4 DEF Service!Execute, NoOutcome
    <3>2. /\ row \notin {NoOutcome, Failed, Nothing}
          /\ \A n \in Nat : row = Service!Row(n) => n = Len(executed) + 1
      BY <2>1, OutcomeFacts DEF Service!Row
    <3>3. /\ \A i \in DOMAIN executed : i \in DOMAIN executed' /\ executed'[i] = executed[i]
          /\ Len(executed) + 1 \in DOMAIN executed' /\ executed'[Len(executed) + 1] = q
      BY <2>1, <3>1, AppendFacts
    <3> HIDE DEF row
    <3>4. \A p \in Queries : outcome'[p] = IF p = q THEN row ELSE outcome[p]
      BY <2>1, <3>1
    <3> QED
      BY <2>1, <3>1, <3>2, <3>3, <3>4 DEF RowsOfTheirQueries
  <2>5. ASSUME NEW q \in Queries, Service!Fail(q)
        PROVE  RowsOfTheirQueries'
    <3>1. /\ outcome[q] = NoOutcome /\ Troubled /\ UNCHANGED <<Troubled, answered>>
          /\ executed' \in {executed, Append(executed, q)}
          /\ outcome' = [outcome EXCEPT ![q] = Failed]
      BY <2>5 DEF Service!Fail, NoOutcome, Failed
    <3>2. \A i \in DOMAIN executed : i \in DOMAIN executed' /\ executed'[i] = executed[i]
      BY <2>1, <3>1, AppendFacts
    <3>3. \A p \in Queries : outcome'[p] = IF p = q THEN Failed ELSE outcome[p]
      BY <2>1, <3>1
    <3> QED
      BY <2>1, <3>1, <3>2, <3>3, OutcomeFacts DEF RowsOfTheirQueries
  <2>6. ASSUME NEW q \in Queries, Service!Lose(q)
        PROVE  RowsOfTheirQueries'
    <3>1. /\ outcome[q] \notin {NoOutcome, Failed, Nothing} /\ answered[q] = NoOutcome
          /\ Troubled /\ UNCHANGED <<Troubled, executed, answered>>
          /\ outcome' = [outcome EXCEPT ![q] = Nothing]
      BY <2>6 DEF Service!Lose, NoOutcome, Failed, Nothing
    <3>2. PICK n \in Nat : outcome[q] = Service!Row(n)
      BY <2>1, <3>1 DEF Service!Outcomes, NoOutcome, Failed, Nothing
    <3>3. n \in DOMAIN executed /\ executed[n] = q
      BY <3>2 DEF RowsOfTheirQueries
    <3>4. \A p \in Queries : outcome'[p] = IF p = q THEN Nothing ELSE outcome[p]
      BY <2>1, <3>1
    <3> QED
      BY <3>1, <3>3, <3>4, OutcomeFacts DEF RowsOfTheirQueries
  <2> QED
    BY <2>2, <2>3, <2>4, <2>5, <2>6, ServiceStep
    DEF vars, loopVars, serverVars, Troubled, Service!Step
<1> QED
  BY <1>1, <1>2, Invariance, PTL DEF Spec
=============================================================================
