--------------------------- MODULE ServicesProofs ---------------------------
(***************************************************************************)
(* What the login bonus and the ranking promise, for any number of users,  *)
(* days and requests, and whatever order the queries are executed in.      *)
(***************************************************************************)
EXTENDS Services, TLAPS

(***************************************************************************)
(* The inductive invariant.  Fresh: what a request has read of its user's  *)
(* bonus, or is about to write, still fits the table, because no other     *)
(* request of this user is under way (Serial).                             *)
(***************************************************************************)
RowOf(r) == bonues[r.who]

\* The days of the streak in an update of the row.
RightDays(r) ==
  r.query.days = IF r.query.day = RowOf(r).day + 1 /\ RowOf(r).days < LoginBonues
                 THEN RowOf(r).days + 1 ELSE 1

FreshRead(r) ==
  r.query.sql = "get_bonues_info" /\ r.result.is = "row" => RowOf(r) = r.result

FreshUpdate(r) ==
  r.query.sql = "update_login_bonues" /\ r.result = Pending =>
    RowOf(r) # NoBonues /\ RowOf(r).day < r.query.day /\ RightDays(r)

FreshClaim(r) ==
  r.query.sql = "update_login_bonues_status" /\ r.result # Failed =>
    /\ RowOf(r) # NoBonues
    /\ received[r.who] < granted[r.who]
    /\ RowOf(r).status = IF r.result = Pending THEN 0 ELSE 1

Fresh(r) == FreshRead(r) /\ FreshUpdate(r) /\ FreshClaim(r)

\* No request writes a day to come, and the bonus is what was asked for.
Dated(r) ==
  /\ r.query.sql \in {"insert_bonues_info", "update_login_bonues"} => r.query.day <= today
  /\ r.query.sql = "get_bonues_info" => r.result \in {Pending, Failed, NoBonues} \cup BonuesRows

Serial ==
  \A i, j \in DOMAIN calls :
    i # j /\ calls[i].who = calls[j].who => Finished(calls[i]) \/ Finished(calls[j])

\* An open bonus has been given and not been received.
Counted ==
  \A u \in Uids :
    /\ received[u] <= granted[u]
    /\ bonues[u] # NoBonues /\ bonues[u].status = 0 => received[u] < granted[u]

IInv ==
  /\ SystemTypeOK
  /\ \A u \in Uids : bonues[u] # NoBonues => bonues[u].day <= today
  /\ \A i \in DOMAIN calls : Dated(calls[i])
  /\ ~Overlapping => Serial /\ Counted /\ \A i \in DOMAIN calls : Fresh(calls[i])
-----------------------------------------------------------------------------
(* Rows and requests. *)

LEMMA RowFacts ==
  ASSUME NEW row \in BonuesRows
  PROVE  /\ row.is = "row" /\ row # NoBonues
         /\ row.day \in 1..MaxDay /\ row.days \in 0..LoginBonues /\ row.status \in {0, 1}
  BY DEF BonuesRows, NoBonues

LEMMA NewRow ==
  ASSUME NEW day \in 1..MaxDay, NEW days \in 0..LoginBonues, NEW status \in {0, 1}
  PROVE  /\ Bonues(day, days, status) \in BonuesRows
         /\ Bonues(day, days, status).day = day
         /\ Bonues(day, days, status).days = days
         /\ Bonues(day, days, status).status = status
  BY DEF Bonues, BonuesRows

LEMMA ClaimedRow ==
  ASSUME NEW row \in BonuesRows
  PROVE  /\ [row EXCEPT !.status = 1] \in BonuesRows
         /\ [row EXCEPT !.status = 1].day = row.day
         /\ [row EXCEPT !.status = 1].days = row.days
         /\ [row EXCEPT !.status = 1].status = 1
  BY DEF BonuesRows

\* The five kinds of results are told apart by their field is.
LEMMA ResultFacts ==
  /\ Pending.is = "pending" /\ Failed.is = "error" /\ Empty.is = "empty" /\ Done.is = "done"
  /\ Pending # Failed /\ Pending # Empty /\ Pending # Done
  /\ Failed # Empty /\ Failed # Done
  /\ Empty = NoBonues
  BY DEF Pending, Failed, Empty, Done, NoBonues

LEMMA QueryFacts ==
  /\ NoQuery \in SystemQueries /\ NoQuery.sql = "none"
  /\ \A s \in {"get_ugame_info", "insert_ugame_info", "get_bonues_info",
               "update_login_bonues_status", "zrevrange"} :
       [sql |-> s] \in SystemQueries /\ [sql |-> s].sql = s
  /\ \A d \in 1..MaxDay :
       /\ [sql |-> "insert_bonues_info", day |-> d] \in SystemQueries
       /\ \A n \in 1..LoginBonues :
            [sql |-> "update_login_bonues", day |-> d, days |-> n] \in SystemQueries
  /\ \A b \in BOOLEAN :
       /\ [sql |-> "get_uinfo_inredis", more |-> b] \in SystemQueries
       /\ [sql |-> "get_ugame_info_inredis", nouser |-> b] \in SystemQueries
  BY DEF NoQuery, SystemQueries

LEMMA AskFacts ==
  ASSUME NEW r \in Calls, NEW q \in SystemQueries
  PROVE  /\ Ask(r, q) \in Calls
         /\ Ask(r, q).who = r.who /\ Ask(r, q).kind = r.kind
         /\ Ask(r, q).query = q /\ Ask(r, q).result = Pending
<1>1. Pending \in SystemResults
  BY DEF SystemResults
<1> QED
  BY <1>1 DEF Ask, Calls

LEMMA EndedFacts ==
  ASSUME NEW r \in Calls, NEW n \in Nat
  PROVE  /\ Ended(r, n) \in Calls /\ Ended(r, n).who = r.who
         /\ Ended(r, n).query = NoQuery /\ Ended(r, n).result = Pending
<1>1. Pending \in SystemResults /\ NoQuery \in SystemQueries
  BY QueryFacts DEF SystemResults
<1>2. r.answers + n \in Nat
  BY DEF Calls
<1>3. Ended(r, n) = [r EXCEPT !.query = NoQuery, !.result = Pending, !.answers = r.answers + n]
  BY DEF Ended, Calls
<1> HIDE DEF Pending, NoQuery
<1> DEFINE m == r.answers + n
<1>4. m \in Nat
  BY <1>2
<1> HIDE DEF m
<1>5. /\ [r EXCEPT !.query = NoQuery, !.result = Pending, !.answers = m] \in Calls
      /\ [r EXCEPT !.query = NoQuery, !.result = Pending, !.answers = m].who = r.who
      /\ [r EXCEPT !.query = NoQuery, !.result = Pending, !.answers = m].query = NoQuery
      /\ [r EXCEPT !.query = NoQuery, !.result = Pending, !.answers = m].result = Pending
  BY <1>1, <1>4 DEF Calls
<1> QED
  BY <1>3, <1>5 DEF m

\* A request that has ended, or has just begun, promises nothing.
LEMMA NothingRead ==
  ASSUME NEW r,
         \/ r.query = NoQuery
         \/ /\ r.query.sql \in {"get_ugame_info", "insert_ugame_info", "get_bonues_info",
                                "zrevrange", "get_uinfo_inredis", "get_ugame_info_inredis"}
            /\ r.result = Pending
  PROVE  Dated(r) /\ Fresh(r)
  BY QueryFacts, ResultFacts
  DEF Dated, Fresh, FreshRead, FreshUpdate, FreshClaim


\* Everything a callback must leave alone for the bonus.
BonusUnchanged == UNCHANGED <<environment, today, bonues, granted, received>>

\* A statement, or a callback, changes one request and keeps its user.
LEMMA OneCall ==
  ASSUME NEW S, NEW s \in Seq(S), NEW i \in DOMAIN s, NEW r \in S
  PROVE  /\ [s EXCEPT ![i] = r] \in Seq(S)
         /\ DOMAIN [s EXCEPT ![i] = r] = DOMAIN s
         /\ [s EXCEPT ![i] = r][i] = r
         /\ \A j \in DOMAIN s : j # i => [s EXCEPT ![i] = r][j] = s[j]
  OBVIOUS

LEMMA CallInCalls ==
  ASSUME NEW S, NEW s \in Seq(S)
  PROVE  DOMAIN s = 1..Len(s) /\ \A i \in DOMAIN s : s[i] \in S
  OBVIOUS

LEMMA Appended ==
  ASSUME NEW S, NEW s \in Seq(S), NEW r \in S
  PROVE  /\ Append(s, r) \in Seq(S)
         /\ DOMAIN Append(s, r) = DOMAIN s \cup {Len(s) + 1}
         /\ Append(s, r)[Len(s) + 1] = r
         /\ Len(s) + 1 \notin DOMAIN s
         /\ \A j \in DOMAIN s : Append(s, r)[j] = s[j]
  OBVIOUS
-----------------------------------------------------------------------------
(* Callbacks: one request goes on, the bonus stays as it is. *)

LEMMA CallbackKeeps ==
  ASSUME IInv, BonusUnchanged, UNCHANGED <<ugame, rank>>, zadd' \subseteq Uids,
         NEW i \in DOMAIN calls, NEW r \in Calls,
         calls' = [calls EXCEPT ![i] = r],
         ~Finished(calls[i]), r.who = calls[i].who,
         Dated(r), ~Overlapping => Fresh(r)
  PROVE  IInv'
<1>1. calls \in Seq(Calls)
  BY DEF IInv, SystemTypeOK
<1>2. /\ calls' \in Seq(Calls) /\ DOMAIN calls' = DOMAIN calls /\ calls'[i] = r
      /\ \A j \in DOMAIN calls : j # i => calls'[j] = calls[j]
  BY <1>1, OneCall
<1>3. SystemTypeOK'
  BY <1>2 DEF IInv, SystemTypeOK, BonusUnchanged
<1>4. (\A u \in Uids : bonues[u] # NoBonues => bonues[u].day <= today)'
  BY DEF IInv, BonusUnchanged
<1>5. ASSUME NEW j \in DOMAIN calls'
      PROVE  Dated(calls[j])'
  BY <1>2 DEF IInv, Dated, BonusUnchanged
<1>6. ASSUME ~Overlapping
      PROVE  (Serial /\ Counted /\ \A j \in DOMAIN calls : Fresh(calls[j]))'
  <2>1. Serial'
    BY <1>2, <1>6 DEF IInv, Serial, Finished
  <2>2. Counted'
    BY <1>6 DEF IInv, Counted, BonusUnchanged
  <2>3. ASSUME NEW j \in DOMAIN calls'
        PROVE  Fresh(calls[j])'
    <3>1. Fresh(calls'[j])
      BY <1>2, <1>6 DEF IInv
    <3> QED
      BY <3>1 DEF Fresh, FreshRead, FreshUpdate, FreshClaim, RowOf, RightDays, BonusUnchanged
  <2> QED
    BY <2>1, <2>2, <2>3
<1>7. Overlapping' <=> Overlapping
  BY DEF Overlapping, BonusUnchanged
<1> QED
  BY <1>3, <1>4, <1>5, <1>6, <1>7 DEF IInv

LEMMA NotFinished ==
  ASSUME NEW r, NEW sql, Returns(r, sql), sql # "none"
  PROVE  ~Finished(r)
  BY QueryFacts DEF Returns, Finished

LEMMA CallTyped ==
  ASSUME IInv, NEW i \in DOMAIN calls
  PROVE  calls[i] \in Calls
  BY CallInCalls DEF IInv, SystemTypeOK

LEMMA EndKeeps ==
  ASSUME IInv, UNCHANGED environment, SystemStays, NEW i \in DOMAIN calls, NEW n \in Nat,
         ~Finished(calls[i]), SystemContinue(i, Ended(calls[i], n))
  PROVE  IInv'
<1>1. calls[i] \in Calls
  BY CallTyped
<1> DEFINE r == Ended(calls[i], n)
<1>2. r \in Calls /\ r.who = calls[i].who /\ r.query = NoQuery
  BY <1>1, EndedFacts
<1>3. calls' = [calls EXCEPT ![i] = r]
  BY DEF SystemContinue
<1> HIDE DEF r
<1>4. Dated(r) /\ Fresh(r)
  BY <1>2, NothingRead
<1>5. BonusUnchanged /\ UNCHANGED <<ugame, rank>> /\ zadd' \subseteq Uids
  BY DEF SystemStays, historyVars, BonusUnchanged, IInv, SystemTypeOK
<1> QED
  BY <1>2, <1>3, <1>4, <1>5, CallbackKeeps

LEMMA AskKeeps ==
  ASSUME IInv, BonusUnchanged, UNCHANGED <<ugame, rank>>, zadd' \subseteq Uids,
         NEW i \in DOMAIN calls, NEW q \in SystemQueries,
         ~Finished(calls[i]), SystemContinue(i, Ask(calls[i], q)),
         Dated(Ask(calls[i], q)), ~Overlapping => Fresh(Ask(calls[i], q))
  PROVE  IInv'
<1>1. calls[i] \in Calls
  BY CallTyped
<1> DEFINE r == Ask(calls[i], q)
<1>2. r \in Calls /\ r.who = calls[i].who
  BY <1>1, AskFacts
<1>3. calls' = [calls EXCEPT ![i] = r]
  BY DEF SystemContinue
<1>4. Dated(r) /\ (~Overlapping => Fresh(r))
  OBVIOUS
<1> HIDE DEF r
<1> QED
  BY <1>2, <1>3, <1>4, CallbackKeeps

\* The next query of most callbacks does not depend on what was read.
LEMMA PlainAskKeeps ==
  ASSUME IInv, BonusUnchanged, UNCHANGED <<ugame, rank>>, zadd' \subseteq Uids,
         NEW i \in DOMAIN calls, NEW q \in SystemQueries,
         ~Finished(calls[i]), SystemContinue(i, Ask(calls[i], q)),
         q.sql \in {"get_ugame_info", "insert_ugame_info", "get_bonues_info",
                    "zrevrange", "get_uinfo_inredis", "get_ugame_info_inredis"}
  PROVE  IInv'
<1>1. calls[i] \in Calls
  BY CallTyped
<1>2. Ask(calls[i], q).query = q /\ Ask(calls[i], q).result = Pending
  BY <1>1, AskFacts
<1>3. Dated(Ask(calls[i], q)) /\ Fresh(Ask(calls[i], q))
  BY <1>2, NothingRead
<1> QED
  BY <1>3, AskKeeps

LEMMA StaysFacts ==
  ASSUME IInv, UNCHANGED environment, SystemStays
  PROVE  BonusUnchanged /\ UNCHANGED <<ugame, rank>> /\ zadd' \subseteq Uids
  BY DEF SystemStays, historyVars, BonusUnchanged, IInv, SystemTypeOK

LEMMA UgameInfoKeeps ==
  ASSUME IInv, UNCHANGED environment, NEW i \in DOMAIN calls, UgameInfo(i)
  PROVE  IInv'
<1>1. ~Finished(calls[i]) /\ calls[i] \in Calls
  BY NotFinished, CallTyped DEF UgameInfo
<1>2. CASE SystemContinue(i, Ended(calls[i], 1)) /\ SystemStays
  BY <1>1, <1>2, EndKeeps
<1>3. CASE SystemContinue(i, Ask(calls[i], [sql |-> "insert_ugame_info"])) /\ SystemStays
  BY <1>1, <1>3, QueryFacts, StaysFacts, PlainAskKeeps
<1>4. CASE /\ SystemContinue(i, Ask(calls[i], [sql |-> "get_bonues_info"]))
           /\ zadd' = zadd \cup {calls[i].who}
           /\ UNCHANGED <<today, ugame, bonues, rank, errors, historyVars>>
  <2>1. calls[i].who \in Uids
    BY <1>1 DEF Calls
  <2>2. BonusUnchanged /\ UNCHANGED <<ugame, rank>> /\ zadd' \subseteq Uids
    BY <1>4, <2>1 DEF BonusUnchanged, historyVars, IInv, SystemTypeOK
  <2> QED
    BY <1>1, <1>4, <2>2, QueryFacts, PlainAskKeeps
<1> QED
  BY <1>2, <1>3, <1>4 DEF UgameInfo

LEMMA InsertedKeeps ==
  ASSUME IInv, UNCHANGED environment, NEW i \in DOMAIN calls,
         UgameInserted(i) \/ BonuesInserted(i)
  PROVE  IInv'
<1>1. ~Finished(calls[i]) /\ SystemStays
  BY NotFinished DEF UgameInserted, BonuesInserted
<1>2. CASE SystemContinue(i, Ended(calls[i], 1))
  BY <1>1, <1>2, EndKeeps
<1>3. CASE \E s \in {"get_ugame_info", "get_bonues_info"} :
             SystemContinue(i, Ask(calls[i], [sql |-> s]))
  BY <1>1, <1>3, QueryFacts, StaysFacts, PlainAskKeeps
<1> QED
  BY <1>2, <1>3 DEF UgameInserted, BonuesInserted

LEMMA BonuesUpdatedKeeps ==
  ASSUME IInv, UNCHANGED environment, NEW i \in DOMAIN calls, BonuesUpdated(i)
  PROVE  IInv'
  BY NotFinished, EndKeeps DEF BonuesUpdated

\* The day and the place in the streak of a new bonus follow from the row just read.
LEMMA CheckLoginBonuesKeeps ==
  ASSUME IInv, UNCHANGED environment, NEW i \in DOMAIN calls, CheckLoginBonues(i)
  PROVE  IInv'
<1> DEFINE r == calls[i]
<1>1. ~Finished(r) /\ SystemStays /\ r \in Calls /\ Returns(r, "get_bonues_info")
  BY NotFinished, CallTyped DEF CheckLoginBonues
<1>2. BonusUnchanged /\ UNCHANGED <<ugame, rank>> /\ zadd' \subseteq Uids
  BY <1>1, StaysFacts
<1>3. today \in 1..MaxDay
  BY DEF IInv, SystemTypeOK
<1>4. CASE SystemContinue(i, Ended(r, 1))
  BY <1>1, <1>4, EndKeeps
<1>5. CASE SystemContinue(i, Ask(r, [sql |-> "insert_bonues_info", day |-> today]))
  <2> DEFINE q == [sql |-> "insert_bonues_info", day |-> today]
  <2>1. q \in SystemQueries /\ q.sql = "insert_bonues_info" /\ q.day = today
    BY <1>3, QueryFacts
  <2> HIDE DEF q
  <2>2. Ask(r, q).query = q /\ Ask(r, q).result = Pending
    BY <1>1, <2>1, AskFacts
  <2>3. Dated(Ask(r, q)) /\ Fresh(Ask(r, q))
    BY <1>3, <2>1, <2>2 DEF Dated, Fresh, FreshRead, FreshUpdate, FreshClaim
  <2> QED
    BY <1>1, <1>2, <1>5, <2>1, <2>3, AskKeeps DEF q
<1>6. CASE /\ r.result.is = "row" /\ r.result.day < today
           /\ SystemContinue(i, Ask(r, [sql |-> "update_login_bonues", day |-> today,
                                        days |-> NextDays(r.result)]))
  <2> DEFINE n == NextDays(r.result)
             q == [sql |-> "update_login_bonues", day |-> today, days |-> n]
  <2>0. r.result \in BonuesRows
    <3>1. Dated(r)
      BY DEF IInv
    <3> QED
      BY <1>1, <1>6, <3>1, ResultFacts DEF Dated, Returns
  <2>a. n \in 1..LoginBonues
    BY <2>0, RowFacts, LoginBonuesAssumption DEF NextDays
  <2>1. q \in SystemQueries /\ q.sql = "update_login_bonues" /\ q.day = today /\ q.days = n
    BY <1>3, <2>a, QueryFacts
  <2> HIDE DEF q
  <2>2. Ask(r, q).query = q /\ Ask(r, q).result = Pending /\ Ask(r, q).who = r.who
    BY <1>1, <2>1, AskFacts
  <2>3. Dated(Ask(r, q))
    BY <1>3, <2>1, <2>2 DEF Dated
  <2>4. ASSUME ~Overlapping
        PROVE  Fresh(Ask(r, q))
    <3>1. RowOf(r) = r.result
      BY <1>1, <1>6, <2>4 DEF IInv, Fresh, FreshRead, Returns
    <3>2. RowOf(Ask(r, q)) = r.result
      BY <2>2, <3>1 DEF RowOf
    <3>3. RightDays(Ask(r, q))
      BY <1>3, <2>0, <2>1, <2>2, <3>2, RowFacts, LoginBonuesAssumption DEF RightDays, NextDays
    <3>4. RowOf(Ask(r, q)) # NoBonues /\ RowOf(Ask(r, q)).day < Ask(r, q).query.day
      BY <1>6, <2>0, <2>1, <2>2, <3>2, RowFacts
    <3> QED
      BY <2>1, <2>2, <3>3, <3>4 DEF Fresh, FreshRead, FreshUpdate, FreshClaim
  <2> QED
    BY <1>1, <1>2, <1>6, <2>1, <2>3, <2>4, AskKeeps DEF q
<1> QED
  BY <1>4, <1>5, <1>6 DEF CheckLoginBonues

LEMMA ClaimCheckedKeeps ==
  ASSUME IInv, UNCHANGED environment, NEW i \in DOMAIN calls, ClaimChecked(i)
  PROVE  IInv'
<1> DEFINE r == calls[i]
           q == [sql |-> "update_login_bonues_status"]
<1>1. ~Finished(r) /\ SystemStays /\ r \in Calls /\ Returns(r, "get_bonues_info")
  BY NotFinished, CallTyped DEF ClaimChecked
<1>2. BonusUnchanged /\ UNCHANGED <<ugame, rank>> /\ zadd' \subseteq Uids
  BY <1>1, StaysFacts
<1>3. CASE SystemContinue(i, Ended(r, 1))
  BY <1>1, <1>3, EndKeeps
<1>4. CASE Claimable(r.result) /\ SystemContinue(i, Ask(r, q))
  <2>1. q \in SystemQueries /\ q.sql = "update_login_bonues_status"
    BY QueryFacts
  <2> HIDE DEF q
  <2>2. Ask(r, q).query = q /\ Ask(r, q).result = Pending /\ Ask(r, q).who = r.who
    BY <1>1, <2>1, AskFacts
  <2>3. Dated(Ask(r, q))
    BY <2>1, <2>2 DEF Dated
  <2>4. ASSUME ~Overlapping
        PROVE  Fresh(Ask(r, q))
    <3>1. RowOf(r) = r.result /\ r.result # NoBonues /\ r.result.status = 0
      BY <1>1, <1>4, <2>4, ResultFacts
      DEF IInv, Fresh, FreshRead, Returns, Claimable
    <3>2. r.who \in Uids
      BY <1>1 DEF Calls
    <3>3. received[r.who] < granted[r.who]
      BY <2>4, <3>1, <3>2 DEF IInv, Counted, RowOf
    <3> QED
      BY <2>1, <2>2, <3>1, <3>3 DEF Fresh, FreshRead, FreshUpdate, FreshClaim, RowOf
  <2> QED
    BY <1>1, <1>2, <1>4, <2>1, <2>3, <2>4, AskKeeps DEF q
<1> QED
  BY <1>3, <1>4 DEF ClaimChecked

LEMMA RankKeeps ==
  ASSUME IInv, UNCHANGED environment, NEW i \in DOMAIN calls,
         WorldRank(i) \/ RankUserInfo(i) \/ RankUgameInfo(i)
  PROVE  IInv'
<1> DEFINE r == calls[i]
<1>1. ~Finished(r) /\ SystemStays /\ r \in Calls
  BY NotFinished, CallTyped DEF WorldRank, RankUserInfo, RankUgameInfo
<1>2. BonusUnchanged /\ UNCHANGED <<ugame, rank>> /\ zadd' \subseteq Uids
  BY <1>1, StaysFacts
<1>3. CASE \E n \in {0, 1, 2} : SystemContinue(i, Ended(r, n))
  BY <1>1, <1>3, EndKeeps
<1>4. CASE /\ r.result.is = "list"
           /\ SystemContinue(i, Ask(r, [sql |-> "get_uinfo_inredis", more |-> r.result.more]))
  <2>1. r.result \in [is : {"list"}, first : Uids, more : BOOLEAN]
    <3>1. r.result \in SystemResults
      BY <1>1 DEF Calls
    <3> QED
      BY <1>4, <3>1, ResultFacts DEF SystemResults, BonuesRows
  <2>2. r.result.more \in BOOLEAN
    BY <2>1
  <2> DEFINE q == [sql |-> "get_uinfo_inredis", more |-> r.result.more]
  <2>3. q \in SystemQueries /\ q.sql = "get_uinfo_inredis"
    BY <2>2, QueryFacts
  <2> QED
    BY <1>1, <1>2, <1>4, <2>3, PlainAskKeeps
<1>5. CASE \E b \in BOOLEAN :
             SystemContinue(i, [Ask(r, [sql |-> "get_ugame_info_inredis", nouser |-> b])
                                  EXCEPT !.answers = IF b THEN @ + 1 ELSE @])
  <2>1. PICK b \in BOOLEAN :
             SystemContinue(i, [Ask(r, [sql |-> "get_ugame_info_inredis", nouser |-> b])
                                  EXCEPT !.answers = IF b THEN @ + 1 ELSE @])
    BY <1>5
  <2> DEFINE q == [sql |-> "get_ugame_info_inredis", nouser |-> b]
             s == Ask(r, q)
             v == [s EXCEPT !.answers = IF b THEN @ + 1 ELSE @]
  <2>2. q \in SystemQueries /\ q.sql = "get_ugame_info_inredis"
    BY QueryFacts
  <2>3. calls' = [calls EXCEPT ![i] = v]
    BY <2>1 DEF SystemContinue
  <2> HIDE DEF q
  <2>4. s \in Calls /\ s.who = r.who /\ s.query = q /\ s.result = Pending
    BY <1>1, <2>2, AskFacts
  <2> HIDE DEF s
  <2>5. v \in Calls /\ v.who = r.who /\ v.query = q /\ v.result = Pending
    <3> DEFINE n == IF b THEN s.answers + 1 ELSE s.answers
    <3>1. n \in Nat /\ v = [s EXCEPT !.answers = n]
      BY <2>4 DEF Calls
    <3> HIDE DEF n, v
    <3> QED
      BY <2>4, <3>1 DEF Calls
  <2> HIDE DEF v
  <2>6. Dated(v) /\ Fresh(v)
    BY <2>2, <2>5, NothingRead
  <2> QED
    BY <1>1, <1>2, <2>3, <2>5, <2>6, CallbackKeeps
<1>6. WorldRank(i) => (\E n \in {0, 1, 2} : SystemContinue(i, Ended(r, n)))
         \/ /\ r.result.is = "list"
            /\ SystemContinue(i, Ask(r, [sql |-> "get_uinfo_inredis", more |-> r.result.more]))
  BY DEF WorldRank
<1>7. RankUgameInfo(i) => \E n \in {0, 1, 2} : SystemContinue(i, Ended(r, n))
  BY DEF RankUgameInfo
<1>8. ASSUME RankUserInfo(i)
      PROVE  \/ \E n \in {0, 1, 2} : SystemContinue(i, Ended(r, n))
             \/ \E b \in BOOLEAN :
                  SystemContinue(i, [Ask(r, [sql |-> "get_ugame_info_inredis", nouser |-> b])
                                       EXCEPT !.answers = IF b THEN @ + 1 ELSE @])
  <2> DEFINE b == r.result = Failed
  <2>1. b \in BOOLEAN
    OBVIOUS
  <2>2. CASE r.query.more
    BY <1>8, <2>2 DEF RankUserInfo
  <2>3. CASE ~r.query.more
    <3>1. SystemContinue(i, [Ask(r, [sql |-> "get_ugame_info_inredis", nouser |-> b])
                               EXCEPT !.answers = IF b THEN @ + 1 ELSE @])
      BY <1>8, <2>3 DEF RankUserInfo
    <3> QED
      BY <2>1, <3>1
  <2> QED
    BY <2>2, <2>3
<1> QED
  BY <1>3, <1>4, <1>5, <1>6, <1>7, <1>8
-----------------------------------------------------------------------------
(* Statements and claims: the bonus of one user changes. *)

LEMMA OneUser ==
  ASSUME IInv, UNCHANGED <<environment, today>>,
         NEW i \in DOMAIN calls, NEW r \in Calls,
         calls' = [calls EXCEPT ![i] = r],
         ~Finished(calls[i]), r.who = calls[i].who,
         ugame' \in [Uids -> {"none", "active", "frozen"}],
         rank' \subseteq Uids, zadd' \subseteq Uids,
         bonues' \in [Uids -> BonuesRows \cup {NoBonues}],
         granted' \in [Uids -> Nat], received' \in [Uids -> Nat],
         \A u \in Uids \ {r.who} :
           bonues'[u] = bonues[u] /\ granted'[u] = granted[u] /\ received'[u] = received[u],
         bonues'[r.who] # NoBonues => bonues'[r.who].day <= today,
         Dated(r),
         ~Overlapping =>
           /\ received'[r.who] <= granted'[r.who]
           /\ bonues'[r.who] # NoBonues /\ bonues'[r.who].status = 0
                => received'[r.who] < granted'[r.who]
           /\ Fresh(r)'
  PROVE  IInv'
<1>0. calls \in Seq(Calls)
  BY DEF IInv, SystemTypeOK
<1>1. /\ calls' \in Seq(Calls) /\ DOMAIN calls' = DOMAIN calls /\ calls'[i] = r
      /\ \A j \in DOMAIN calls : j # i => calls'[j] = calls[j]
  BY <1>0, OneCall
<1>2. SystemTypeOK'
  BY <1>1 DEF IInv, SystemTypeOK
<1>3. (\A u \in Uids : bonues[u] # NoBonues => bonues[u].day <= today)'
  BY DEF IInv
<1>4. ASSUME NEW j \in DOMAIN calls'
      PROVE  Dated(calls[j])'
  BY <1>1 DEF IInv, Dated
<1>5. ASSUME ~Overlapping
      PROVE  (Serial /\ Counted /\ \A j \in DOMAIN calls : Fresh(calls[j]))'
  <2>1. Serial'
    BY <1>1, <1>5 DEF IInv, Serial, Finished
  <2>2. Counted'
    BY <1>5 DEF IInv, Counted
  <2>3. ASSUME NEW j \in DOMAIN calls', j # i
        PROVE  Fresh(calls[j])'
    <3>1. calls'[j] = calls[j] /\ calls[j] \in Calls /\ Fresh(calls[j])
      BY <1>0, <1>1, <1>5, <2>3, CallInCalls DEF IInv
    <3>2. CASE Finished(calls[j])
      <4>1. calls'[j].query.sql = "none"
        BY <3>1, <3>2, QueryFacts DEF Finished
      <4> QED
        BY <4>1 DEF Fresh, FreshRead, FreshUpdate, FreshClaim
    <3>3. CASE ~Finished(calls[j])
      <4>1. calls[j].who # r.who /\ calls[j].who \in Uids
        BY <1>1, <1>5, <2>3, <3>1, <3>3 DEF IInv, Serial, Calls
      <4>2. RowOf(calls[j])' = RowOf(calls[j])
        BY <3>1, <4>1 DEF RowOf
      <4> QED
        BY <3>1, <4>1, <4>2 DEF Fresh, FreshRead, FreshUpdate, FreshClaim, RightDays
    <3> QED
      BY <3>2, <3>3
  <2>4. Fresh(calls[i])'
    BY <1>1, <1>5 DEF Fresh, FreshRead, FreshUpdate, FreshClaim, RightDays, RowOf
  <2> QED
    BY <2>1, <2>2, <2>3, <2>4
<1>6. Overlapping' <=> Overlapping
  BY DEF Overlapping
<1> QED
  BY <1>2, <1>3, <1>4, <1>5, <1>6 DEF IInv

LEMMA ClaimedKeeps ==
  ASSUME IInv, UNCHANGED environment, NEW i \in DOMAIN calls, Claimed(i)
  PROVE  IInv'
<1> DEFINE c == calls[i]
<1>1. ~Finished(c) /\ c \in Calls /\ Returns(c, "update_login_bonues_status")
  BY NotFinished, CallTyped DEF Claimed
<1>2. PICK r \in Calls : r = Ended(c, 1) /\ r.who = c.who /\ r.query = NoQuery
  BY <1>1, EndedFacts
<1>3. c.who \in Uids
  BY <1>1 DEF Calls
<1>4. calls' = [calls EXCEPT ![i] = r]
  BY <1>2 DEF Claimed, SystemContinue
<1>5. Dated(r) /\ Fresh(r)'
  <2>1. r.query.sql = "none"
    BY <1>2, QueryFacts
  <2> QED
    BY <2>1 DEF Dated, Fresh, FreshRead, FreshUpdate, FreshClaim
<1>6. /\ UNCHANGED <<today, ugame, bonues, rank, zadd, granted>>
      /\ received' = [received EXCEPT ![c.who] = IF c.result = Failed THEN @ ELSE @ + 1]
  BY DEF Claimed
<1>7. /\ received' \in [Uids -> Nat]
      /\ \A u \in Uids \ {c.who} : received'[u] = received[u]
      /\ received'[c.who] = IF c.result = Failed THEN received[c.who] ELSE received[c.who] + 1
  BY <1>3, <1>6 DEF IInv, SystemTypeOK
<1>8. ASSUME ~Overlapping
      PROVE  /\ received'[c.who] <= granted[c.who]
             /\ bonues[c.who] # NoBonues /\ bonues[c.who].status = 0
                  => received'[c.who] < granted[c.who]
  <2>1. FreshClaim(c)
    BY <1>8 DEF IInv, Fresh
  <2>2. granted[c.who] \in Nat /\ received[c.who] \in Nat
    BY <1>3 DEF IInv, SystemTypeOK
  <2>3. CASE c.result = Failed
    BY <1>3, <1>7, <1>8, <2>3 DEF IInv, Counted
  <2>4. CASE c.result # Failed
    BY <1>1, <1>7, <2>1, <2>2, <2>4 DEF FreshClaim, Returns, RowOf
  <2> QED
    BY <2>3, <2>4
<1>9. bonues[c.who] # NoBonues => bonues[c.who].day <= today
  BY <1>3 DEF IInv
<1>10. /\ ugame' \in [Uids -> {"none", "active", "frozen"}]
       /\ rank' \subseteq Uids /\ zadd' \subseteq Uids
       /\ bonues' \in [Uids -> BonuesRows \cup {NoBonues}]
       /\ granted' \in [Uids -> Nat]
  BY <1>6 DEF IInv, SystemTypeOK
<1> QED
  BY <1>1, <1>2, <1>4, <1>5, <1>6, <1>7, <1>8, <1>9, <1>10, OneUser

LEMMA ReplyFacts ==
  ASSUME IInv, NEW c \in Calls, NEW x \in SystemReplies(c)
  PROVE  /\ x \in SystemResults /\ x # Pending
         /\ c.query.sql = "get_bonues_info" => x = bonues[c.who]
<1>1. c.who \in Uids
  BY DEF Calls
<1>2. /\ ugame[c.who] \in {"none", "active", "frozen"} /\ rank \subseteq Uids
      /\ bonues[c.who] \in BonuesRows \cup {NoBonues}
  BY <1>1 DEF IInv, SystemTypeOK
<1>3. CASE c.query.sql = "get_ugame_info"
  <2>1. x = IF ugame[c.who] = "none" THEN Empty ELSE [is |-> "row", ustatus |-> ugame[c.who]]
    BY <1>3 DEF SystemReplies
  <2> QED
    BY <1>2, <1>3, <2>1, ResultFacts DEF SystemResults, Pending
<1>4. CASE c.query.sql = "get_bonues_info"
  <2>1. x = bonues[c.who]
    BY <1>4 DEF SystemReplies
  <2> QED
    BY <1>2, <2>1, RowFacts, ResultFacts DEF SystemResults
<1>5. CASE c.query.sql = "zrevrange"
  <2>1. x \in Ranking
    BY <1>5 DEF SystemReplies
  <2>2. CASE x = Empty
    BY <1>5, <2>2, ResultFacts DEF SystemResults
  <2>3. CASE x # Empty
    <3> DEFINE more == Cardinality(rank) > 1
    <3>1. PICK u \in rank : x = [is |-> "list", first |-> u, more |-> more]
      BY <2>1, <2>3 DEF Ranking
    <3>2. u \in Uids /\ more \in BOOLEAN
      BY <1>2
    <3> HIDE DEF more
    <3> QED
      BY <1>5, <3>1, <3>2 DEF SystemResults, Pending
  <2> QED
    BY <2>2, <2>3
<1>6. CASE c.query.sql \notin {"get_ugame_info", "get_bonues_info", "zrevrange"}
  <2>1. x \in {Done, Failed}
    BY <1>6 DEF SystemReplies
  <2> QED
    BY <1>6, <2>1, ResultFacts DEF SystemResults
<1> QED
  BY <1>3, <1>4, <1>5, <1>6

\* A statement gives one request its result, and takes effect unless it has failed.
WithResult(i, x) == [calls EXCEPT ![i] = [calls[i] EXCEPT !.result = x]]

Outcome(i, x) ==
  /\ calls' = WithResult(i, x)
  /\ x # Pending
  /\ calls[i].query.sql = "get_bonues_info" => x \in {Failed, bonues[calls[i].who]}
  /\ \/ SystemEffect(calls[i])
     \/ x = Failed /\ UNCHANGED <<bonues, ugame, granted>>

LEMMA QueryShape ==
  ASSUME IInv, NEW i \in DOMAIN calls, SystemQuery(i)
  PROVE  \E x \in SystemResults : Outcome(i, x)
<1>1. calls[i] \in Calls
  BY CallTyped
<1>2. ASSUME NEW x \in SystemReplies(calls[i]),
             calls' = [calls EXCEPT ![i].result = x], SystemEffect(calls[i])
      PROVE  x \in SystemResults /\ Outcome(i, x)
  <2>1. /\ x \in SystemResults /\ x # Pending
        /\ calls[i].query.sql = "get_bonues_info" => x = bonues[calls[i].who]
    BY <1>1, ReplyFacts
  <2>2. calls' = WithResult(i, x)
    BY <1>2 DEF WithResult
  <2> QED
    BY <1>2, <2>1, <2>2 DEF Outcome
<1>3. Failed \in SystemResults /\ Failed # Pending
  BY ResultFacts DEF SystemResults
<1>4. CASE \E x \in SystemReplies(calls[i]) :
             calls' = [calls EXCEPT ![i].result = x] /\ SystemEffect(calls[i])
  BY <1>2, <1>4
<1>5. CASE /\ calls' = [calls EXCEPT ![i].result = Failed]
           /\ SystemEffect(calls[i]) \/ UNCHANGED <<bonues, ugame, granted>>
  <2>1. calls' = WithResult(i, Failed)
    BY <1>5 DEF WithResult
  <2>2. Outcome(i, Failed)
    BY <1>3, <1>5, <2>1 DEF Outcome
  <2> QED
    BY <1>3, <2>2
<1> QED
  BY <1>4, <1>5 DEF SystemQuery

LEMMA SystemQueryKeeps ==
  ASSUME IInv, UNCHANGED environment, NEW i \in DOMAIN calls, SystemQuery(i)
  PROVE  IInv'
<1> DEFINE c == calls[i]
           u == c.who
<1>1. c \in Calls /\ u \in Uids /\ ~Finished(c) /\ c.result = Pending /\ c.query \in SystemQueries
  BY CallTyped DEF Calls, SystemQuery
<1>2. UNCHANGED <<today, rank, zadd, received>>
  BY DEF SystemQuery
<1>3. PICK x \in SystemResults :
        /\ calls' = [calls EXCEPT ![i] = [c EXCEPT !.result = x]]
        /\ x # Pending
        /\ c.query.sql = "get_bonues_info" => x \in {Failed, bonues[u]}
        /\ \/ SystemEffect(c)
           \/ x = Failed /\ UNCHANGED <<bonues, ugame, granted>>
  BY QueryShape DEF Outcome, WithResult
<1>4. PICK r \in Calls :
        r = [c EXCEPT !.result = x] /\ r.who = u /\ r.query = c.query /\ r.result = x
  <2> DEFINE s == [c EXCEPT !.result = x]
  <2>1. s \in Calls /\ s.who = u /\ s.query = c.query /\ s.result = x
    BY <1>1 DEF Calls
  <2> QED
    BY <2>1
<1>5. calls' = [calls EXCEPT ![i] = r]
  BY <1>3, <1>4
<1>6. /\ bonues[u] \in BonuesRows \cup {NoBonues}
      /\ bonues[u] # NoBonues => bonues[u].day <= today
      /\ granted[u] \in Nat /\ received[u] \in Nat
      /\ ugame \in [Uids -> {"none", "active", "frozen"}]
      /\ bonues \in [Uids -> BonuesRows \cup {NoBonues}]
      /\ granted \in [Uids -> Nat] /\ received \in [Uids -> Nat]
      /\ rank \subseteq Uids /\ zadd \subseteq Uids
  BY <1>1 DEF IInv, SystemTypeOK
<1>7. Dated(c) /\ (~Overlapping => Fresh(c) /\ Counted)
  BY DEF IInv
<1>8. Dated(r)
  <2>1. c.query.sql = "get_bonues_info" => x \in {Pending, Failed, NoBonues} \cup BonuesRows
    BY <1>3, <1>6
  <2>2. c.query.sql \in {"insert_bonues_info", "update_login_bonues"} => c.query.day <= today
    BY <1>7 DEF Dated
  <2> QED
    BY <1>4, <2>1, <2>2 DEF Dated
<1>9. ugame' \in [Uids -> {"none", "active", "frozen"}]
  BY <1>1, <1>3, <1>6 DEF SystemEffect, UgameEffect
<1>a. ASSUME NEW row \in BonuesRows \cup {NoBonues}, row # NoBonues => row.day <= today,
             NEW g \in Nat,
             bonues' = [bonues EXCEPT ![u] = row], granted' = [granted EXCEPT ![u] = g],
             ~Overlapping => /\ received[u] <= g
                             /\ row # NoBonues /\ row.status = 0 => received[u] < g
                             /\ Fresh(r)'
      PROVE  IInv'
  <2>1. /\ bonues' \in [Uids -> BonuesRows \cup {NoBonues}] /\ granted' \in [Uids -> Nat]
        /\ bonues'[u] = row /\ granted'[u] = g
        /\ \A v \in Uids \ {u} : bonues'[v] = bonues[v] /\ granted'[v] = granted[v]
    BY <1>1, <1>6, <1>a
  <2>2. /\ rank' \subseteq Uids /\ zadd' \subseteq Uids /\ received' \in [Uids -> Nat]
        /\ received' = received /\ today' = today
    BY <1>2, <1>6
  <2>3. ~Overlapping =>
          /\ received'[r.who] <= granted'[r.who]
          /\ bonues'[r.who] # NoBonues /\ bonues'[r.who].status = 0
               => received'[r.who] < granted'[r.who]
          /\ Fresh(r)'
    BY <1>4, <1>a, <2>1, <2>2
  <2>4. bonues'[r.who] # NoBonues => bonues'[r.who].day <= today
    BY <1>4, <1>a, <2>1
  <2>5. \A v \in Uids \ {r.who} :
          bonues'[v] = bonues[v] /\ granted'[v] = granted[v] /\ received'[v] = received[v]
    BY <1>4, <2>1, <2>2
  <2>6. ~Finished(calls[i]) /\ r.who = calls[i].who
    BY <1>1, <1>4
  <2> QED
    BY <1>5, <1>8, <1>9, <2>1, <2>2, <2>3, <2>4, <2>5, <2>6, OneUser
<1>b. CASE /\ bonues' = [bonues EXCEPT ![u] = bonues[u]]
           /\ granted' = [granted EXCEPT ![u] = granted[u]]
           /\ ~(c.query.sql = "update_login_bonues_status" /\ x # Failed)
  <2>1. bonues'[u] = bonues[u]
    BY <1>1, <1>6, <1>b
  <2>2. Fresh(r)'
    BY <1>3, <1>4, <1>b, <2>1, ResultFacts DEF Fresh, FreshRead, FreshUpdate, FreshClaim, RowOf
  <2> QED
    BY <1>1, <1>6, <1>7, <1>a, <1>b, <2>2 DEF Counted
<1>c. CASE SystemEffect(c) /\ c.query.sql = "update_login_bonues"
  <2>1. c.query.day \in 1..MaxDay /\ c.query.days \in 0..LoginBonues /\ c.query.day <= today
    BY <1>1, <1>7, <1>c DEF SystemQueries, Dated
  <2> DEFINE row == Bonues(c.query.day, c.query.days, 0)
             g == granted[u] + 1
  <2>2. row \in BonuesRows /\ row.day <= today
    BY <2>1, NewRow
  <2>3. bonues' = [bonues EXCEPT ![u] = row] /\ granted' = [granted EXCEPT ![u] = g]
    BY <1>c DEF SystemEffect, BonuesEffect
  <2>4. Fresh(r)'
    BY <1>3, <1>4, <1>c DEF Fresh, FreshRead, FreshUpdate, FreshClaim
  <2>5. g \in Nat /\ (~Overlapping => received[u] < g)
    BY <1>1, <1>6, <1>7 DEF Counted
  <2> HIDE DEF row, g
  <2>6. ~Overlapping => received[u] <= g
    BY <1>6, <2>5
  <2> QED
    BY <1>a, <2>2, <2>3, <2>4, <2>5, <2>6
<1>d. CASE SystemEffect(c) /\ c.query.sql = "update_login_bonues_status"
  <2> DEFINE row == [bonues[u] EXCEPT !.status = 1]
             g == granted[u]
  <2>1. row \in BonuesRows \cup {NoBonues} /\ (row # NoBonues => row.day <= today /\ row.status = 1)
    <3>1. CASE bonues[u] \in BonuesRows
      <4>1. bonues[u] # NoBonues
        BY <3>1, RowFacts
      <4>2. row \in BonuesRows /\ row.day = bonues[u].day /\ row.status = 1
        BY <3>1, ClaimedRow
      <4> HIDE DEF row
      <4> QED
        BY <1>6, <4>1, <4>2
    <3>2. CASE bonues[u] = NoBonues
      <4>1. row = NoBonues
        BY <3>2 DEF NoBonues
      <4> QED
        BY <4>1
    <3>3. bonues[u] \in BonuesRows \/ bonues[u] = NoBonues
      BY <1>6
    <3> HIDE DEF row
    <3> QED
      BY <3>1, <3>2, <3>3
  <2>2. bonues' = [bonues EXCEPT ![u] = row] /\ granted' = [granted EXCEPT ![u] = g]
    BY <1>6, <1>c, <1>d DEF SystemEffect, BonuesEffect
  <2>3. g \in Nat /\ (~Overlapping => received[u] <= g)
    BY <1>1, <1>6, <1>7 DEF Counted
  <2>4. ASSUME ~Overlapping
        PROVE  Fresh(r)'
    <3>1. RowOf(c) # NoBonues /\ received[u] < granted[u]
      BY <1>1, <1>7, <1>d, <2>4, ResultFacts DEF Fresh, FreshClaim
    <3>2. bonues[u] \in BonuesRows
      <4>1. bonues[u] # NoBonues
        BY <3>1 DEF RowOf
      <4> QED
        BY <1>6, <4>1
    <3>3. bonues'[u] = row /\ granted'[u] = granted[u]
      BY <1>1, <1>6, <2>2
    <3>4. row # NoBonues /\ row.status = 1
      BY <3>2, ClaimedRow, RowFacts
    <3> HIDE DEF row
    <3> QED
      BY <1>2, <1>3, <1>4, <1>d, <3>1, <3>3, <3>4
      DEF Fresh, FreshRead, FreshUpdate, FreshClaim, RowOf
  <2>5. ~Overlapping => /\ received[u] <= g
                        /\ row # NoBonues /\ row.status = 0 => received[u] < g
                        /\ Fresh(r)'
    <3> HIDE DEF row, g
    <3> QED
      BY <2>1, <2>3, <2>4
  <2> HIDE DEF row, g
  <2> QED
    BY <1>a, <2>1, <2>2, <2>3, <2>5
<1>e. CASE SystemEffect(c) /\ c.query.sql = "insert_bonues_info" /\ bonues[u] = NoBonues
  <2>1. c.query.day \in 1..MaxDay /\ c.query.day <= today /\ 0 \in 0..LoginBonues
    BY <1>1, <1>7, <1>e, LoginBonuesAssumption DEF SystemQueries, Dated
  <2> DEFINE row == Bonues(c.query.day, 0, 1)
             g == granted[u]
  <2>2. row \in BonuesRows /\ row.day <= today /\ row.status = 1
    BY <2>1, NewRow
  <2>3. bonues' = [bonues EXCEPT ![u] = row] /\ granted' = [granted EXCEPT ![u] = g]
    BY <1>6, <1>e DEF SystemEffect, BonuesEffect
  <2>4. Fresh(r)'
    BY <1>3, <1>4, <1>e DEF Fresh, FreshRead, FreshUpdate, FreshClaim
  <2>5. g \in Nat /\ (~Overlapping => received[u] <= g)
    BY <1>1, <1>6, <1>7 DEF Counted
  <2>6. ~Overlapping => /\ received[u] <= g
                        /\ row # NoBonues /\ row.status = 0 => received[u] < g
                        /\ Fresh(r)'
    <3> HIDE DEF row, g
    <3> QED
      BY <2>2, <2>4, <2>5
  <2> HIDE DEF row, g
  <2> QED
    BY <1>a, <2>2, <2>3, <2>5, <2>6
<1>f. CASE /\ SystemEffect(c)
           /\ c.query.sql \notin {"update_login_bonues", "update_login_bonues_status"}
           /\ ~(c.query.sql = "insert_bonues_info" /\ bonues[u] = NoBonues)
  <2>1. bonues' = [bonues EXCEPT ![u] = bonues[u]] /\ granted' = [granted EXCEPT ![u] = granted[u]]
    BY <1>6, <1>f DEF SystemEffect, BonuesEffect
  <2> QED
    BY <1>b, <1>f, <2>1
<1>g. CASE x = Failed /\ UNCHANGED <<bonues, ugame, granted>>
  <2>1. bonues' = [bonues EXCEPT ![u] = bonues[u]] /\ granted' = [granted EXCEPT ![u] = granted[u]]
    BY <1>6, <1>g
  <2> QED
    BY <1>b, <1>g, <2>1
<1> QED
  BY <1>3, <1>c, <1>d, <1>e, <1>f, <1>g
-----------------------------------------------------------------------------
(* Requests that arrive, and steps that concern no request. *)

LEMMA ReceiveKeeps ==
  ASSUME IInv, BonusUnchanged, UNCHANGED <<ugame, rank, zadd>>,
         NEW r \in Calls, calls' = Append(calls, r), Dated(r), Fresh(r),
         \/ Overlapping
         \/ \A j \in 1..Len(calls) : calls[j].who = r.who => Finished(calls[j])
  PROVE  IInv'
<1>1. calls \in Seq(Calls) /\ DOMAIN calls = 1..Len(calls)
  BY CallInCalls DEF IInv, SystemTypeOK
<1> DEFINE n == Len(calls) + 1
<1>2. /\ calls' \in Seq(Calls) /\ DOMAIN calls' = DOMAIN calls \cup {n}
      /\ calls'[n] = r /\ n \notin DOMAIN calls
      /\ \A j \in DOMAIN calls : calls'[j] = calls[j]
  BY <1>1, Appended
<1> HIDE DEF n
<1>3. SystemTypeOK'
  BY <1>2 DEF IInv, SystemTypeOK, BonusUnchanged
<1>4. (\A u \in Uids : bonues[u] # NoBonues => bonues[u].day <= today)'
  BY DEF IInv, BonusUnchanged
<1>5. ASSUME NEW j \in DOMAIN calls'
      PROVE  Dated(calls[j])'
  BY <1>2 DEF IInv, Dated, BonusUnchanged
<1>6. ASSUME ~Overlapping
      PROVE  (Serial /\ Counted /\ \A j \in DOMAIN calls : Fresh(calls[j]))'
  <2>1. \A j \in DOMAIN calls : calls[j].who = r.who => Finished(calls[j])
    BY <1>1, <1>6
  <2>2. Serial'
    BY <1>2, <1>6, <2>1 DEF IInv, Serial, Finished
  <2>3. Counted'
    BY <1>6 DEF IInv, Counted, BonusUnchanged
  <2>4. ASSUME NEW j \in DOMAIN calls'
        PROVE  Fresh(calls[j])'
    <3>1. Fresh(calls'[j])
      BY <1>2, <1>6 DEF IInv
    <3> QED
      BY <3>1 DEF Fresh, FreshRead, FreshUpdate, FreshClaim, RowOf, RightDays, BonusUnchanged
  <2> QED
    BY <2>2, <2>3, <2>4
<1>7. Overlapping' <=> Overlapping
  BY DEF Overlapping, BonusUnchanged
<1> QED
  BY <1>3, <1>4, <1>5, <1>6, <1>7 DEF IInv

LEMMA FromUserKeeps ==
  ASSUME IInv, UNCHANGED environment, NEW u \in Uids, FromUser(u)
  PROVE  IInv'
<1>1. PICK kind \in {"ugame", "claim", "rank"},
           sql \in {"get_ugame_info", "get_bonues_info", "zrevrange"} :
         ReceiveSystem(Request(kind, u, [sql |-> sql]))
  BY DEF FromUser, GetUgameInfo, RecvLoginBonues, GetWorldRank
<1> DEFINE q == [sql |-> sql]
           r == Request(kind, u, q)
<1>2. q \in SystemQueries /\ q.sql = sql
  BY QueryFacts
<1> HIDE DEF q
<1>3. r \in Calls /\ r.who = u /\ r.query = q /\ r.result = Pending
  <2>1. Pending \in SystemResults
    BY DEF SystemResults
  <2> HIDE DEF Pending
  <2> QED
    BY <1>2, <2>1 DEF Request, Calls
<1>4. Dated(r) /\ Fresh(r)
  BY <1>2, <1>3, NothingRead
<1>5. ReceiveSystem(r)
  BY <1>1 DEF q
<1> HIDE DEF r
<1>6. PICK s \in Calls : calls' = Append(calls, s) /\ s.who = u /\ Dated(s) /\ Fresh(s)
  <2>1. CASE calls' = Append(calls, r)
    BY <1>3, <1>4, <2>1
  <2>2. CASE calls' = Append(calls, Ended(r, 1))
    <3>1. /\ Ended(r, 1) \in Calls /\ Ended(r, 1).who = u /\ Ended(r, 1).query = NoQuery
      BY <1>3, EndedFacts
    <3>2. Dated(Ended(r, 1)) /\ Fresh(Ended(r, 1))
      BY <3>1, NothingRead
    <3> QED
      BY <2>2, <3>1, <3>2
  <2> QED
    BY <1>5, <2>1, <2>2 DEF ReceiveSystem
<1>7. BonusUnchanged /\ UNCHANGED <<ugame, rank, zadd>>
  BY <1>5 DEF ReceiveSystem, BonusUnchanged, historyVars
<1>8. \/ Overlapping
      \/ \A j \in 1..Len(calls) : calls[j].who = s.who => Finished(calls[j])
  BY <1>3, <1>5, <1>6 DEF ReceiveSystem, Overlapping
<1> QED
  BY <1>6, <1>7, <1>8, ReceiveKeeps

\* The clock, the ranking, the auth server and the centre database.
LEMMA ElsewhereKeeps ==
  ASSUME IInv, UNCHANGED <<environment, ugame, bonues, calls, granted, received>>,
         rank' \subseteq Uids, zadd' \subseteq Uids,
         today' \in 1..MaxDay, today <= today'
  PROVE  IInv'
<1>1. SystemTypeOK'
  BY DEF IInv, SystemTypeOK
<1>2. today \in Nat /\ today' \in Nat /\ MaxDay \in Nat
  BY DaysAssumption DEF IInv, SystemTypeOK
<1>3. ASSUME NEW u \in Uids, bonues'[u] # NoBonues
      PROVE  bonues'[u].day <= today'
  <2>1. bonues[u] \in BonuesRows /\ bonues[u].day <= today
    BY <1>3 DEF IInv, SystemTypeOK
  <2>2. bonues[u].day \in Nat
    BY <2>1, RowFacts
  <2> QED
    BY <1>2, <2>1, <2>2
<1>4. ASSUME NEW j \in DOMAIN calls
      PROVE  Dated(calls[j])'
  <2>1. Dated(calls[j]) /\ calls[j].query \in SystemQueries
    BY CallTyped DEF IInv, Calls
  <2>2. CASE calls[j].query.sql \in {"insert_bonues_info", "update_login_bonues"}
    <3>1. calls[j].query.day \in Nat
      BY <2>1, <2>2 DEF SystemQueries
    <3> QED
      BY <1>2, <2>1, <2>2, <3>1 DEF Dated
  <2>3. CASE calls[j].query.sql \notin {"insert_bonues_info", "update_login_bonues"}
    BY <2>1, <2>3 DEF Dated
  <2> QED
    BY <2>2, <2>3
<1>5. ASSUME ~Overlapping
      PROVE  (Serial /\ Counted /\ \A j \in DOMAIN calls : Fresh(calls[j]))'
  BY <1>5 DEF IInv, Serial, Counted, Fresh, FreshRead, FreshUpdate, FreshClaim, RowOf, RightDays
<1>6. Overlapping' <=> Overlapping
  BY DEF Overlapping
<1> QED
  BY <1>1, <1>3, <1>4, <1>5, <1>6 DEF IInv

LEMMA SystemProgressKeeps ==
  ASSUME IInv, UNCHANGED environment, NEW i \in DOMAIN calls, SystemProgress(i)
  PROVE  IInv'
  BY SystemQueryKeeps, UgameInfoKeeps, InsertedKeeps, CheckLoginBonuesKeeps, BonuesUpdatedKeeps,
     ClaimCheckedKeeps, ClaimedKeeps, RankKeeps
  DEF SystemProgress

LEMMA NextKeeps ==
  ASSUME IInv, [Next]_vars
  PROVE  IInv'
<1>1. /\ today \in 1..MaxDay /\ rank \subseteq Uids /\ zadd \subseteq Uids
      /\ DOMAIN calls = 1..Len(calls)
  BY CallInCalls DEF IInv, SystemTypeOK
<1>2. today \in Nat /\ MaxDay \in Nat
  BY <1>1, DaysAssumption
<1>3. CASE \/ AuthStep
           \/ CentreQuery /\ UNCHANGED <<authVars, systemVars>>
           \/ UNCHANGED vars
  <2>1. UNCHANGED <<environment, systemVars>>
    BY <1>3 DEF AuthStep, CentreQuery, vars, centreVars
  <2> QED
    BY <1>1, <1>2, <2>1, ElsewhereKeeps DEF systemVars
<1>4. CASE SystemStep
  <2>1. UNCHANGED environment
    BY <1>4 DEF SystemStep
  <2>2. CASE \E u \in logged_in \cap Uids : FromUser(u)
    BY <2>1, <2>2, FromUserKeeps
  <2>3. CASE RankQuery
    <3>1. UNCHANGED <<today, ugame, bonues, calls, granted, received>>
      BY <2>3 DEF RankQuery, historyVars
    <3>2. rank' \subseteq Uids /\ zadd' \subseteq Uids
      BY <1>1, <2>3 DEF RankQuery
    <3> QED
      BY <1>1, <1>2, <2>1, <3>1, <3>2, ElsewhereKeeps
  <2>4. CASE Midnight
    <3>1. /\ UNCHANGED <<ugame, bonues, rank, zadd, calls, granted, received>>
          /\ today' \in 1..MaxDay /\ today <= today'
      BY <1>1, <1>2, <2>4 DEF Midnight, historyVars
    <3> QED
      BY <1>1, <2>1, <3>1, ElsewhereKeeps
  <2>5. CASE \E i \in 1..Len(calls) : SystemProgress(i)
    BY <1>1, <2>1, <2>5, SystemProgressKeeps
  <2> QED
    BY <1>4, <2>2, <2>3, <2>4, <2>5 DEF SystemStep
<1> QED
  BY <1>3, <1>4 DEF Next

LEMMA InitInvariant == Init => IInv
<1> SUFFICES ASSUME Init PROVE IInv
  OBVIOUS
<1>1. PICK old \in InitialTables :
        /\ uinfo = old.uinfo
        /\ ugame = [u \in Uids |-> IF u \in Accounts THEN old.ugame ELSE "none"]
        /\ bonues = [u \in Uids |-> IF u \in Accounts THEN old.bonues ELSE NoBonues]
        /\ rank = {u \in Accounts : old.ugame = "active"} /\ centre = Accounts
  BY DEF Init
<1>2. /\ Accounts \subseteq Uids /\ old.ugame \in {"none", "active", "frozen"}
      /\ \/ old.bonues = NoBonues
         \/ old.bonues \in BonuesRows /\ old.bonues.day <= FirstDay
  BY <1>1, TablesAssumption DEF Accounts
<1>3. today = FirstDay /\ today \in 1..MaxDay
  BY DaysAssumption DEF Init
<1>4. /\ zadd = {} /\ calls = <<>>
      /\ granted = [u \in Uids |->
                      IF bonues[u] # NoBonues /\ bonues[u].status = 0 THEN 1 ELSE 0]
      /\ received = [u \in Uids |-> 0]
  BY DEF Init, SystemInit
<1>5. SystemTypeOK
  BY <1>1, <1>2, <1>3, <1>4 DEF SystemTypeOK
<1>6. \A u \in Uids : bonues[u] # NoBonues => bonues[u].day <= today
  BY <1>1, <1>2, <1>3
<1>7. DOMAIN calls = {}
  BY <1>4
<1>8. Counted
  <2>1. ASSUME NEW u \in Uids
        PROVE  /\ received[u] <= granted[u]
               /\ bonues[u] # NoBonues /\ bonues[u].status = 0 => received[u] < granted[u]
    <3>1. /\ received[u] = 0
          /\ granted[u] = IF bonues[u] # NoBonues /\ bonues[u].status = 0 THEN 1 ELSE 0
      BY <1>4
    <3>2. CASE bonues[u] # NoBonues /\ bonues[u].status = 0
      BY <3>1, <3>2
    <3>3. CASE ~(bonues[u] # NoBonues /\ bonues[u].status = 0)
      BY <3>1, <3>3
    <3> QED
      BY <3>2, <3>3
  <2> QED
    BY <2>1 DEF Counted
<1> QED
  BY <1>5, <1>6, <1>7, <1>8 DEF IInv, Serial

\* What the theorems below rest on: no bonus is of a day to come, and where the
\* requests of a user do not overlap, what a callback has read is still true.
THEOREM Invariance == Spec => []IInv
  BY InitInvariant, NextKeeps, PTL DEF Spec

\* The variables of the system server keep their types, whatever the databases
\* answer and in whatever order the callbacks run.
THEOREM TypeCorrect == Spec => []SystemTypeOK
  BY Invariance, PTL DEF IInv
-----------------------------------------------------------------------------
(* The bonus. *)

\* A callback that is no claim does not touch the bonus.
LEMMA CallbackStutters ==
  ASSUME NEW i, \/ UgameInfo(i) \/ UgameInserted(i) \/ CheckLoginBonues(i) \/ BonuesInserted(i)
                \/ BonuesUpdated(i) \/ ClaimChecked(i)
                \/ WorldRank(i) \/ RankUserInfo(i) \/ RankUgameInfo(i)
  PROVE  UNCHANGED <<today, bonues, granted, received>>
  BY DEF UgameInfo, UgameInserted, CheckLoginBonues, BonuesInserted, BonuesUpdated, ClaimChecked,
         WorldRank, RankUserInfo, RankUgameInfo, SystemStays, historyVars

LEMMA Stutters ==
  ASSUME UNCHANGED <<today, bonues, granted, received>>
  PROVE  UNCHANGED Ledger!vars
  BY DEF Ledger!vars, Issued, Streak, Open

LEMMA RowChange ==
  ASSUME bonues \in [Uids -> BonuesRows \cup {NoBonues}], NEW u \in Uids, NEW row \in BonuesRows,
         bonues' = [bonues EXCEPT ![u] = row]
  PROVE  /\ Issued' = [Issued EXCEPT ![u] = row.day]
         /\ Streak' = [Streak EXCEPT ![u] = row.days]
         /\ row.status = 0 => Open' = [Open EXCEPT ![u] = TRUE]
         /\ row.status = 1 => Open' = [Open EXCEPT ![u] = FALSE]
<1>1. row # NoBonues
  BY RowFacts
<1>2. /\ bonues'[u] = row
      /\ \A v \in Uids \ {u} : bonues'[v] = bonues[v]
  OBVIOUS
<1>3. Issued' = [Issued EXCEPT ![u] = row.day]
  BY <1>1, <1>2 DEF Issued
<1>4. Streak' = [Streak EXCEPT ![u] = row.days]
  BY <1>1, <1>2 DEF Streak
<1>5. ASSUME row.status = 0
      PROVE  Open' = [Open EXCEPT ![u] = TRUE]
  BY <1>1, <1>2, <1>5 DEF Open
<1>6. ASSUME row.status = 1
      PROVE  Open' = [Open EXCEPT ![u] = FALSE]
  <2>1. row.status # 0
    BY <1>6
  <2> QED
    BY <1>1, <1>2, <2>1 DEF Open
<1> QED
  BY <1>3, <1>4, <1>5, <1>6

LEMMA StatementRefines ==
  ASSUME IInv, ~Overlapping, NEW i \in DOMAIN calls, SystemQuery(i)
  PROVE  Ledger!Next \/ UNCHANGED Ledger!vars
<1> DEFINE c == calls[i]
           u == c.who
<1>1. c \in Calls /\ u \in Uids /\ c.result = Pending /\ c.query \in SystemQueries
  BY CallTyped DEF Calls, SystemQuery
<1>2. /\ bonues \in [Uids -> BonuesRows \cup {NoBonues}] /\ granted \in [Uids -> Nat]
      /\ UNCHANGED <<today, received>>
  BY DEF IInv, SystemTypeOK, SystemQuery
<1>3. Dated(c) /\ FreshUpdate(c) /\ FreshClaim(c)
  BY DEF IInv, Fresh
<1>4. SystemEffect(calls[i]) \/ UNCHANGED <<bonues, granted>>
  BY QueryShape DEF Outcome
<1>5. CASE SystemEffect(calls[i]) /\ c.query.sql = "update_login_bonues"
  <2>1. /\ c.query.day \in 1..MaxDay /\ c.query.days \in 0..LoginBonues /\ c.query.day <= today
        /\ bonues[u] # NoBonues /\ bonues[u].day < c.query.day /\ RightDays(c)
    BY <1>1, <1>3, <1>5 DEF SystemQueries, Dated, FreshUpdate, RowOf
  <2>2. bonues[u] \in BonuesRows
    BY <1>1, <1>2, <2>1
  <2>3. /\ bonues[u].day \in 1..MaxDay /\ bonues[u].days \in 0..LoginBonues
        /\ today \in 1..MaxDay /\ MaxDay \in Nat
    BY <2>2, RowFacts, DaysAssumption DEF IInv, SystemTypeOK
  <2> DEFINE row == Bonues(c.query.day, c.query.days, 0)
             d == c.query.day
  <2>4. row \in BonuesRows /\ row.day = d /\ row.days = c.query.days /\ row.status = 0
    BY <2>1, NewRow
  <2>5. /\ bonues' = [bonues EXCEPT ![u] = row]
        /\ granted' = [granted EXCEPT ![u] = granted[u] + 1]
    BY <1>5 DEF SystemEffect, BonuesEffect
  <2> HIDE DEF row
  <2>6. /\ Issued' = [Issued EXCEPT ![u] = d]
        /\ Streak' = [Streak EXCEPT ![u] = c.query.days]
        /\ Open' = [Open EXCEPT ![u] = TRUE]
    <3>1. /\ Issued' = [Issued EXCEPT ![u] = row.day]
          /\ Streak' = [Streak EXCEPT ![u] = row.days]
          /\ row.status = 0 => Open' = [Open EXCEPT ![u] = TRUE]
      BY <1>1, <1>2, <2>4, <2>5, RowChange
    <3> QED
      BY <2>4, <3>1
  <2>7. Issued[u] = bonues[u].day /\ Streak[u] = bonues[u].days
    BY <1>1, <2>1 DEF Issued, Streak
  <2>8. c.query.days = IF d = Issued[u] + 1 /\ Streak[u] < LoginBonues THEN Streak[u] + 1 ELSE 1
    BY <2>1, <2>7 DEF RightDays, RowOf
  <2>9. d \in (Issued[u] + 1)..today /\ Issued[u] # 0
    BY <2>1, <2>3, <2>7
  <2>10. Ledger!Issue(u)
    BY <1>2, <2>5, <2>6, <2>8, <2>9 DEF Ledger!Issue
  <2> QED
    BY <1>1, <2>10 DEF Ledger!Next
<1>6. CASE SystemEffect(calls[i]) /\ c.query.sql = "update_login_bonues_status"
  <2>1. bonues[u] # NoBonues /\ bonues[u].status = 0
    BY <1>1, <1>3, <1>6, ResultFacts DEF FreshClaim, RowOf
  <2>2. bonues[u] \in BonuesRows
    BY <1>1, <1>2, <2>1
  <2> DEFINE row == [bonues[u] EXCEPT !.status = 1]
  <2>3. row \in BonuesRows /\ row.day = bonues[u].day /\ row.days = bonues[u].days
        /\ row.status = 1
    BY <2>2, ClaimedRow
  <2>4. bonues' = [bonues EXCEPT ![u] = row] /\ granted' = granted
    BY <1>2, <1>6 DEF SystemEffect, BonuesEffect
  <2> HIDE DEF row
  <2>5. /\ Issued' = [Issued EXCEPT ![u] = bonues[u].day]
        /\ Streak' = [Streak EXCEPT ![u] = bonues[u].days]
        /\ Open' = [Open EXCEPT ![u] = FALSE]
    <3>1. /\ Issued' = [Issued EXCEPT ![u] = row.day]
          /\ Streak' = [Streak EXCEPT ![u] = row.days]
          /\ row.status = 1 => Open' = [Open EXCEPT ![u] = FALSE]
      BY <1>1, <1>2, <2>3, <2>4, RowChange
    <3> QED
      BY <2>3, <3>1
  <2>6. Issued' = Issued /\ Streak' = Streak /\ Open[u]
    <3>1. Issued[u] = bonues[u].day /\ Streak[u] = bonues[u].days /\ Open[u]
      BY <1>1, <2>1 DEF Issued, Streak, Open
    <3>2. Issued' = Issued
      BY <2>5, <3>1 DEF Issued
    <3>3. Streak' = Streak
      BY <2>5, <3>1 DEF Streak
    <3> QED
      BY <3>1, <3>2, <3>3
  <2>7. Ledger!Take(u)
    BY <1>2, <2>4, <2>5, <2>6 DEF Ledger!Take
  <2> QED
    BY <1>1, <2>7 DEF Ledger!Next
<1>7. CASE SystemEffect(calls[i]) /\ c.query.sql = "insert_bonues_info" /\ bonues[u] = NoBonues
  <2>1. c.query.day \in 1..MaxDay /\ c.query.day <= today /\ 0 \in 0..LoginBonues
    BY <1>1, <1>3, <1>7, LoginBonuesAssumption DEF SystemQueries, Dated
  <2> DEFINE row == Bonues(c.query.day, 0, 1)
             d == c.query.day
  <2>2. row \in BonuesRows /\ row.day = d /\ row.days = 0 /\ row.status = 1
    BY <2>1, NewRow
  <2>3. bonues' = [bonues EXCEPT ![u] = row] /\ granted' = granted
    BY <1>2, <1>7 DEF SystemEffect, BonuesEffect
  <2> HIDE DEF row
  <2>4. /\ Issued' = [Issued EXCEPT ![u] = d]
        /\ Streak' = [Streak EXCEPT ![u] = 0]
        /\ Open' = [Open EXCEPT ![u] = FALSE]
    <3>1. /\ Issued' = [Issued EXCEPT ![u] = row.day]
          /\ Streak' = [Streak EXCEPT ![u] = row.days]
          /\ row.status = 1 => Open' = [Open EXCEPT ![u] = FALSE]
      BY <1>1, <1>2, <2>2, <2>3, RowChange
    <3> QED
      BY <2>2, <3>1
  <2>5. Issued[u] = 0 /\ Streak' = Streak /\ Open' = Open
    BY <1>1, <1>7, <2>4 DEF Issued, Streak, Open
  <2>6. d \in 1..today
    BY <2>1, DaysAssumption DEF IInv, SystemTypeOK
  <2>7. Ledger!Register(u)
    BY <1>2, <2>3, <2>4, <2>5, <2>6 DEF Ledger!Register
  <2> QED
    BY <1>1, <2>7 DEF Ledger!Next
<1>8. CASE /\ SystemEffect(calls[i])
           /\ c.query.sql \notin {"update_login_bonues", "update_login_bonues_status"}
           /\ ~(c.query.sql = "insert_bonues_info" /\ bonues[u] = NoBonues)
  <2>1. UNCHANGED <<bonues, granted>>
    BY <1>2, <1>8 DEF SystemEffect, BonuesEffect
  <2> QED
    BY <1>2, <2>1, Stutters
<1>9. CASE UNCHANGED <<bonues, granted>>
  BY <1>2, <1>9, Stutters
<1> QED
  BY <1>4, <1>5, <1>6, <1>7, <1>8, <1>9

LEMMA ClaimedRefines ==
  ASSUME IInv, ~Overlapping, NEW i \in DOMAIN calls, Claimed(i)
  PROVE  Ledger!Next \/ UNCHANGED Ledger!vars
<1> DEFINE c == calls[i]
           u == c.who
<1>1. /\ c \in Calls /\ u \in Uids /\ received \in [Uids -> Nat]
      /\ Returns(calls[i], "update_login_bonues_status")
  BY CallTyped DEF Calls, Claimed, IInv, SystemTypeOK
<1>2. UNCHANGED <<today, bonues, granted>>
  BY DEF Claimed
<1>3. CASE c.result = Failed
  <2>1. received' = received
    BY <1>1, <1>3 DEF Claimed
  <2> QED
    BY <1>2, <2>1, Stutters
<1>4. CASE c.result # Failed
  <2>1. FreshClaim(c)
    BY DEF IInv, Fresh
  <2>2. bonues[u].status = 1 /\ received[u] < granted[u]
    BY <1>1, <1>4, <2>1 DEF FreshClaim, Returns, RowOf
  <2>3. received' = [received EXCEPT ![u] = received[u] + 1]
    BY <1>4 DEF Claimed
  <2>4. ~Open[u]
    <3>1. bonues[u].status # 0
      BY <2>2
    <3> QED
      BY <1>1, <3>1 DEF Open
  <2>5. UNCHANGED <<Issued, Streak, Open>>
    BY <1>2 DEF Issued, Streak, Open
  <2>6. Ledger!Receive(u)
    BY <1>2, <2>2, <2>3, <2>4, <2>5 DEF Ledger!Receive
  <2> QED
    BY <1>1, <2>6 DEF Ledger!Next
<1> QED
  BY <1>3, <1>4

LEMMA StepRefines ==
  ASSUME IInv, [Next]_vars
  PROVE  [Overlapping \/ Ledger!Next]_(Ledger!vars)
<1> SUFFICES ASSUME ~Overlapping
             PROVE  Ledger!Next \/ UNCHANGED Ledger!vars
  OBVIOUS
<1>1. DOMAIN calls = 1..Len(calls)
  BY CallInCalls DEF IInv, SystemTypeOK
<1>2. CASE \/ AuthStep
           \/ CentreQuery /\ UNCHANGED <<authVars, systemVars>>
           \/ UNCHANGED vars
  BY <1>2, Stutters DEF AuthStep, vars, systemVars
<1>3. CASE (\E u \in Uids : FromUser(u)) \/ RankQuery
  BY <1>3, Stutters
  DEF FromUser, GetUgameInfo, RecvLoginBonues, GetWorldRank, ReceiveSystem, RankQuery, historyVars
<1>4. CASE Midnight
  <2>1. Ledger!Midnight
    BY <1>4 DEF Midnight, historyVars, Ledger!Midnight, Issued, Streak, Open
  <2> QED
    BY <2>1 DEF Ledger!Next
<1>5. ASSUME NEW i \in DOMAIN calls, SystemProgress(i)
      PROVE  Ledger!Next \/ UNCHANGED Ledger!vars
  <2>1. CASE SystemQuery(i)
    BY <2>1, StatementRefines
  <2>2. CASE Claimed(i)
    BY <2>2, ClaimedRefines
  <2>3. CASE ~SystemQuery(i) /\ ~Claimed(i)
    BY <1>5, <2>3, CallbackStutters, Stutters DEF SystemProgress
  <2> QED
    BY <2>1, <2>2, <2>3
<1>6. CASE SystemStep
  BY <1>1, <1>3, <1>4, <1>5, <1>6 DEF SystemStep
<1> QED
  BY <1>2, <1>6 DEF Next

LEMMA InitRefines == Init => Ledger!Init
<1> SUFFICES ASSUME Init PROVE Ledger!Init
  OBVIOUS
<1>1. IInv
  BY InitInvariant
<1>2. today \in Nat /\ bonues \in [Uids -> BonuesRows \cup {NoBonues}]
  BY <1>1, DaysAssumption DEF IInv, SystemTypeOK
<1>3. ASSUME NEW u \in Uids
      PROVE  Issued[u] \in 0..today /\ Streak[u] \in 0..LoginBonues /\ Open[u] \in BOOLEAN
  <2>1. CASE bonues[u] = NoBonues
    BY <1>2, <2>1, LoginBonuesAssumption DEF Issued, Streak, Open
  <2>2. CASE bonues[u] # NoBonues
    <3>1. bonues[u] \in BonuesRows /\ bonues[u].day <= today
      BY <1>1, <1>2, <2>2 DEF IInv
    <3> QED
      BY <1>2, <2>2, <3>1, RowFacts, DaysAssumption DEF Issued, Streak, Open
  <2> QED
    BY <2>1, <2>2
<1>4. /\ Issued \in [Uids -> 0..today] /\ Streak \in [Uids -> 0..LoginBonues]
      /\ Open \in [Uids -> BOOLEAN]
  BY <1>3 DEF Issued, Streak, Open
<1>5. granted = [u \in Uids |-> IF Open[u] THEN 1 ELSE 0] /\ received = [u \in Uids |-> 0]
  BY DEF Init, SystemInit, Open
<1> QED
  BY <1>2, <1>4, <1>5 DEF Ledger!Init

\* For every number of users, days and requests: login_bonues.lua gives at most one
\* bonus a day, for the right day of the streak, and lets it be claimed once, as
\* long as the requests of one user do not overlap.
THEOREM Refinement == Spec => LedgerImplemented
<1>1. IInv /\ [Next]_vars => [Overlapping \/ Ledger!Next]_(Ledger!vars)
  BY StepRefines
<1> QED
  BY <1>1, InitRefines, Invariance, PTL DEF Spec, LedgerImplemented
-----------------------------------------------------------------------------
(* The ranking. *)

(***************************************************************************)
(* Whoever has logged in has a record in the centre database or one on its *)
(* way, and only who has logged in can get into the ranking.               *)
(***************************************************************************)
RInv ==
  /\ errors \in Nat
  /\ \A i \in DOMAIN calls : calls[i].who \in logged_in
  /\ ~Failing => logged_in \cup rank \cup zadd \subseteq centre \cup hmset

LEMMA WhoFacts ==
  ASSUME NEW r \in Calls, NEW q, NEW n
  PROVE  Ask(r, q).who = r.who /\ Ended(r, n).who = r.who
  BY DEF Ask, Ended, Calls

\* A request keeps its user, and a user gets into the ranking with his own request.
LEMMA SameUsers ==
  ASSUME IInv, NEW i \in DOMAIN calls, SystemProgress(i)
  PROVE  /\ DOMAIN calls' = DOMAIN calls
         /\ \A j \in DOMAIN calls : calls'[j].who = calls[j].who
<1> DEFINE c == calls[i]
<1>1. c \in Calls /\ calls \in Seq(Calls)
  BY CallTyped DEF IInv, SystemTypeOK
<1>2. ASSUME NEW r, r.who = c.who, calls' = [calls EXCEPT ![i] = r]
      PROVE  /\ DOMAIN calls' = DOMAIN calls
             /\ \A j \in DOMAIN calls : calls'[j].who = calls[j].who
  BY <1>1, <1>2
<1>3. CASE \E n \in Nat : SystemContinue(i, Ended(c, n))
  <2>1. PICK n \in Nat : calls' = [calls EXCEPT ![i] = Ended(c, n)]
    BY <1>3 DEF SystemContinue
  <2>2. Ended(c, n).who = c.who
    BY <1>1, WhoFacts
  <2> QED
    BY <1>2, <2>1, <2>2
<1>4. CASE \E q : SystemContinue(i, Ask(c, q))
  <2>1. PICK q : calls' = [calls EXCEPT ![i] = Ask(c, q)]
    BY <1>4 DEF SystemContinue
  <2>2. Ask(c, q).who = c.who
    BY <1>1, WhoFacts
  <2> QED
    BY <1>2, <2>1, <2>2
<1>5. CASE SystemQuery(i)
  <2>1. PICK x \in SystemResults : calls' = [calls EXCEPT ![i] = [c EXCEPT !.result = x]]
    BY <1>5, QueryShape DEF Outcome, WithResult
  <2>2. [c EXCEPT !.result = x].who = c.who
    BY <1>1 DEF Calls
  <2> QED
    BY <1>2, <2>1, <2>2
<1>6. CASE RankUserInfo(i)
  <2> DEFINE failed == c.result = Failed
             q == [sql |-> "get_ugame_info_inredis", nouser |-> failed]
             s == Ask(c, q)
             v == [s EXCEPT !.answers = IF failed THEN @ + 1 ELSE @]
  <2>1. CASE c.query.more
    BY <1>3, <1>6, <2>1 DEF RankUserInfo
  <2>2. CASE ~c.query.more
    <3>1. calls' = [calls EXCEPT ![i] = v]
      BY <1>6, <2>2 DEF RankUserInfo, SystemContinue
    <3>2. v.who = c.who
      BY <1>1 DEF Ask, Calls
    <3> HIDE DEF v
    <3> QED
      BY <1>2, <3>1, <3>2
  <2> QED
    BY <2>1, <2>2
<1>7. CASE UgameInfo(i)
  BY <1>3, <1>4, <1>7 DEF UgameInfo
<1>8. CASE UgameInserted(i) \/ BonuesInserted(i) \/ BonuesUpdated(i) \/ Claimed(i)
  BY <1>3, <1>4, <1>8 DEF UgameInserted, BonuesInserted, BonuesUpdated, Claimed
<1>9. CASE CheckLoginBonues(i) \/ ClaimChecked(i)
  BY <1>3, <1>4, <1>9 DEF CheckLoginBonues, ClaimChecked
<1>10. CASE WorldRank(i) \/ RankUgameInfo(i)
  BY <1>3, <1>4, <1>10 DEF WorldRank, RankUgameInfo
<1> QED
  BY <1>5, <1>6, <1>7, <1>8, <1>9, <1>10 DEF SystemProgress

LEMMA RankGrows ==
  ASSUME NEW i \in DOMAIN calls, SystemProgress(i)
  PROVE  rank' = rank /\ zadd' \subseteq zadd \cup {calls[i].who}
  BY DEF SystemProgress, SystemQuery, UgameInfo, UgameInserted, CheckLoginBonues, BonuesInserted,
         BonuesUpdated, ClaimChecked, Claimed, WorldRank, RankUserInfo, RankUgameInfo, SystemStays

LEMMA ErrorsGrow ==
  ASSUME errors \in Nat, [Next]_vars
  PROVE  errors' \in Nat /\ (Failing => Failing')
<1>1. errors' = errors \/ errors' = errors + 1
  <2>1. CASE AuthStep
    BY <2>1
    DEF AuthStep, AuthRequest, GuestLogin, UnameLogin, EditProfile, Upgrade, ReceiveAuth,
        AuthProgress, AuthQuery, GuestUinfo, GuestInserted, UinfoByUname, ProfileEdited,
        UnameChecked, GuestChecked, Upgraded, AuthStays, LoginOK, Fails
  <2>2. CASE SystemStep
    BY <2>2
    DEF SystemStep, FromUser, GetUgameInfo, RecvLoginBonues, GetWorldRank, ReceiveSystem,
        RankQuery, Midnight, SystemProgress, SystemQuery, UgameInfo, UgameInserted,
        CheckLoginBonues, BonuesInserted, BonuesUpdated, ClaimChecked, Claimed, WorldRank,
        RankUserInfo, RankUgameInfo, SystemStays, Fails
  <2>3. CASE CentreQuery
    BY <2>3 DEF CentreQuery, Fails
  <2>4. CASE UNCHANGED vars
    BY <2>4 DEF vars, centreVars
  <2> QED
    BY <2>1, <2>2, <2>3, <2>4 DEF Next
<1> QED
  BY <1>1 DEF Failing

\* A login tells Redis of its user before it answers.
LEMMA LoginsKnown ==
  ASSUME AuthStep
  PROVE  \E S : logged_in' = logged_in \cup S /\ hmset \cup S \subseteq hmset'
<1>1. ASSUME NEW i, LoginOK(i)
      PROVE  \E S : logged_in' = logged_in \cup S /\ hmset \cup S \subseteq hmset'
  BY <1>1 DEF LoginOK, SetUinfo
<1>2. ASSUME UNCHANGED <<logged_in, hmset>>
      PROVE  \E S : logged_in' = logged_in \cup S /\ hmset \cup S \subseteq hmset'
  <2>1. logged_in' = logged_in \cup {} /\ hmset \cup {} \subseteq hmset'
    BY <1>2
  <2> QED
    BY <2>1
<1>3. CASE AuthRequest
  BY <1>2, <1>3 DEF AuthRequest, GuestLogin, UnameLogin, EditProfile, Upgrade, ReceiveAuth
<1>4. CASE \E i \in 1..Len(logins) : AuthProgress(i)
  BY <1>1, <1>2, <1>4
  DEF AuthProgress, AuthQuery, GuestUinfo, GuestInserted, UinfoByUname, ProfileEdited,
      UnameChecked, GuestChecked, Upgraded, AuthStays
<1> QED
  BY <1>3, <1>4 DEF AuthStep

LEMMA RankStep ==
  ASSUME IInv, RInv, [Next]_vars
  PROVE  RInv'
<1>1. errors' \in Nat /\ (~Failing' => ~Failing)
  BY ErrorsGrow DEF RInv
<1>2. CASE AuthStep
  <2>1. PICK S : logged_in' = logged_in \cup S /\ hmset \cup S \subseteq hmset'
    BY <1>2, LoginsKnown
  <2>2. UNCHANGED <<centre, rank, zadd, calls>>
    BY <1>2 DEF AuthStep, systemVars
  <2> QED
    BY <1>1, <2>1, <2>2 DEF RInv
<1>3. CASE SystemStep
  <2>1. UNCHANGED <<centre, hmset, logged_in>>
    BY <1>3 DEF SystemStep, authVars
  <2>2. CASE \E u \in logged_in \cap Uids : FromUser(u)
    <3>1. PICK u \in logged_in \cap Uids : FromUser(u)
      BY <2>2
    <3>2. UNCHANGED <<rank, zadd>>
      BY <3>1 DEF FromUser, GetUgameInfo, RecvLoginBonues, GetWorldRank, ReceiveSystem
    <3>3. PICK r \in Calls : calls' = Append(calls, r) /\ r.who = u
      <4>1. PICK kind \in {"ugame", "claim", "rank"},
                 sql \in {"get_ugame_info", "get_bonues_info", "zrevrange"} :
               ReceiveSystem(Request(kind, u, [sql |-> sql]))
        BY <3>1 DEF FromUser, GetUgameInfo, RecvLoginBonues, GetWorldRank
      <4> DEFINE q == [sql |-> sql]
                 r == Request(kind, u, q)
      <4>2. q \in SystemQueries /\ Pending \in SystemResults
        BY QueryFacts DEF SystemResults
      <4> HIDE DEF q
      <4>3. r \in Calls /\ r.who = u
        <5> HIDE DEF Pending
        <5> QED
          BY <3>1, <4>2 DEF Request, Calls
      <4>4. ReceiveSystem(r)
        BY <4>1 DEF q
      <4> HIDE DEF r
      <4>5. Ended(r, 1) \in Calls /\ Ended(r, 1).who = u
        BY <4>3, EndedFacts
      <4> QED
        BY <4>3, <4>4, <4>5 DEF ReceiveSystem
    <3>4. calls \in Seq(Calls)
      BY DEF IInv, SystemTypeOK
    <3>5. ASSUME NEW j \in DOMAIN calls'
          PROVE  calls'[j].who \in logged_in
      BY <3>1, <3>3, <3>4, Appended DEF RInv
    <3> QED
      BY <1>1, <2>1, <3>2, <3>5 DEF RInv
  <2>3. CASE RankQuery \/ Midnight
    <3>1. calls' = calls /\ rank' \cup zadd' \subseteq rank \cup zadd
      BY <2>3 DEF RankQuery, Midnight
    <3> QED
      BY <1>1, <2>1, <3>1 DEF RInv
  <2>4. CASE \E i \in 1..Len(calls) : SystemProgress(i)
    <3>1. PICK i \in DOMAIN calls : SystemProgress(i)
      BY <2>4, CallInCalls DEF IInv, SystemTypeOK
    <3>2. rank' = rank /\ zadd' \subseteq zadd \cup {calls[i].who}
      BY <3>1, RankGrows
    <3>3. /\ DOMAIN calls' = DOMAIN calls
          /\ \A j \in DOMAIN calls : calls'[j].who = calls[j].who
      BY <3>1, SameUsers
    <3> QED
      BY <1>1, <2>1, <3>2, <3>3 DEF RInv
  <2> QED
    BY <1>3, <2>2, <2>3, <2>4 DEF SystemStep
<1>4. CASE CentreQuery /\ UNCHANGED <<authVars, systemVars>>
  <2>1. UNCHANGED <<logged_in, rank, zadd, calls>>
    BY <1>4 DEF authVars, systemVars
  <2>2. ~Failing' => centre \cup hmset \subseteq centre' \cup hmset'
    <3>1. CASE \E u \in hmset : hmset' = hmset \ {u} /\ centre' = centre \cup {u}
      BY <3>1
    <3>2. CASE Fails
      <4>1. Failing'
        BY <3>2 DEF Fails, Failing, RInv
      <4> QED
        BY <4>1
    <3> QED
      BY <1>4, <3>1, <3>2 DEF CentreQuery
  <2> QED
    BY <1>1, <2>1, <2>2 DEF RInv
<1>5. CASE UNCHANGED vars
  BY <1>5 DEF RInv, Failing, vars, centreVars, authVars, systemVars
<1> QED
  BY <1>2, <1>3, <1>4, <1>5 DEF Next

\* For every number of users and requests: whomever game_rank.lua names has a record
\* in the centre database, or one on its way, as long as no query has failed.
THEOREM RankedAreKnown == Spec => []RankedKnown
<1>1. Init => RInv
  BY DEF Init, AuthInit, SystemInit, RInv
<1>2. RInv => RankedKnown
  BY DEF RInv, RankedKnown
<1> QED
  BY <1>1, <1>2, RankStep, Invariance, PTL DEF Spec

-----------------------------------------------------------------------------
(***************************************************************************)
(* Answers.  A request asks the queries of its kind one after the other,   *)
(* and sends its answers when it asks none any more; only the ranking      *)
(* sends one earlier.                                                      *)
(***************************************************************************)
AsksOf(kind) ==
  CASE kind = "ugame" -> {"get_ugame_info", "insert_ugame_info", "get_bonues_info",
                          "insert_bonues_info", "update_login_bonues"}
    [] kind = "claim" -> {"get_bonues_info", "update_login_bonues_status"}
    [] OTHER -> {"zrevrange", "get_uinfo_inredis", "get_ugame_info_inredis"}

MostAnswers(kind, query) ==
  IF kind # "rank" THEN IF query = NoQuery THEN 1 ELSE 0
  ELSE IF query = NoQuery THEN 2
  ELSE IF query.sql = "get_ugame_info_inredis" THEN 1 ELSE 0

Right(kind, query, answers) ==
  /\ query = NoQuery \/ query.sql \in AsksOf(kind)
  /\ answers <= MostAnswers(kind, query)
  /\ kind # "rank" => answers = MostAnswers(kind, query)
  /\ query.sql = "update_login_bonues" => FirstDay <= query.day

\* The results the callback of a query has a branch for.
Expected(query, x) ==
  /\ query.sql = "get_ugame_info" =>
       \/ x.is \in {"pending", "error", "empty"}
       \/ x.is = "row" /\ x.ustatus \in {"frozen", "active"}
  /\ query.sql = "get_bonues_info" => x.is \in {"pending", "error", "empty", "row"}
  /\ query.sql = "zrevrange" => x.is \in {"pending", "error", "empty", "list"}

OnTrack(r) == Right(r.kind, r.query, r.answers) /\ Expected(r.query, r.result)

\* The inductive invariant.
AllOnTrack == \A i \in DOMAIN calls : OnTrack(calls[i])
AnswersInv == FirstDay <= today /\ AllOnTrack

\* A request that asks query q next, or none, after n answers.
Continued(r, q, n) == [r EXCEPT !.query = q, !.result = Pending, !.answers = r.answers + n]

LEMMA ContinuedFacts ==
  ASSUME NEW r \in Calls, NEW q \in SystemQueries, NEW n \in Nat
  PROVE  LET s == Continued(r, q, n)
         IN  /\ s \in Calls /\ s.kind = r.kind /\ s.query = q /\ s.result = Pending
             /\ s.answers = r.answers + n
<1> DEFINE m == r.answers + n
<1>1. m \in Nat /\ Pending \in SystemResults
  BY DEF Calls, SystemResults
<1>2. Continued(r, q, n) = [r EXCEPT !.query = q, !.result = Pending, !.answers = m]
  BY DEF Continued
<1> HIDE DEF m, Pending
<1>3. LET s == [r EXCEPT !.query = q, !.result = Pending, !.answers = m]
      IN  s \in Calls /\ s.kind = r.kind /\ s.query = q /\ s.result = Pending /\ s.answers = m
  BY <1>1 DEF Calls
<1> QED
  BY <1>2, <1>3 DEF m

LEMMA AsContinued ==
  ASSUME NEW r \in Calls, NEW q \in SystemQueries, NEW n \in Nat
  PROVE  /\ Ended(r, n) = Continued(r, NoQuery, n)
         /\ Ask(r, q) = Continued(r, q, 0)
         /\ [Ask(r, q) EXCEPT !.answers = @ + 1] = Continued(r, q, 1)
<1>1. Ended(r, n) = Continued(r, NoQuery, n)
  BY DEF Ended, Continued, Calls
<1> DEFINE a == r.answers + 0
           b == r.answers + 1
<1>2. a = r.answers
  BY DEF Calls
<1>3. /\ Continued(r, q, 0) = [r EXCEPT !.query = q, !.result = Pending, !.answers = a]
      /\ Continued(r, q, 1) = [r EXCEPT !.query = q, !.result = Pending, !.answers = b]
  BY DEF Continued
<1>4. /\ DOMAIN r = {"kind", "who", "query", "result", "answers"}
      /\ r = [f \in DOMAIN r |-> r[f]]
  BY DEF Calls
<1>5. [Ask(r, q) EXCEPT !.answers = @ + 1]
        = [[r EXCEPT !.query = q, !.result = Pending] EXCEPT !.answers = b]
  BY <1>4 DEF Ask
<1> HIDE DEF a, b, Pending
<1>6. Ask(r, q) = Continued(r, q, 0)
  BY <1>2, <1>3, <1>4 DEF Ask
<1>7. [Ask(r, q) EXCEPT !.answers = @ + 1] = Continued(r, q, 1)
  BY <1>3, <1>4, <1>5
<1> QED
  BY <1>1, <1>6, <1>7

\* A step of a request that keeps it on its track.
Moves(i) ==
  \E r \in Calls : calls' = [calls EXCEPT ![i] = r] /\ (OnTrack(calls[i]) => OnTrack(r))

\* A callback moves its request: n answers more, and query q or none.
LEMMA ContinuedMoves ==
  ASSUME NEW i \in DOMAIN calls, calls[i] \in Calls, NEW q \in SystemQueries, NEW n \in Nat,
         Right(calls[i].kind, calls[i].query, calls[i].answers) =>
           Right(calls[i].kind, q, calls[i].answers + n),
         SystemContinue(i, Continued(calls[i], q, n))
  PROVE  Moves(i)
<1> DEFINE r == Continued(calls[i], q, n)
<1>1. /\ r \in Calls /\ r.kind = calls[i].kind /\ r.query = q /\ r.result = Pending
      /\ r.answers = calls[i].answers + n
  BY ContinuedFacts
<1>2. calls' = [calls EXCEPT ![i] = r]
  BY DEF SystemContinue
<1> HIDE DEF r
<1>3. Expected(q, Pending)
  BY ResultFacts DEF Expected
<1> QED
  BY <1>1, <1>2, <1>3 DEF Moves, OnTrack

LEMMA RightEnd ==
  ASSUME NEW kind \in {"ugame", "claim", "rank"}, NEW q, q # NoQuery, NEW a \in Nat,
         NEW n \in 0..2,
         \/ n = 1
         \/ q.sql \in {"zrevrange", "get_uinfo_inredis", "get_ugame_info_inredis"},
         q.sql = "get_ugame_info_inredis" => n <= 1,
         Right(kind, q, a)
  PROVE  Right(kind, NoQuery, a + n)
<1>1. q.sql \in AsksOf(kind) /\ a <= MostAnswers(kind, q)
      /\ (kind # "rank" => a = MostAnswers(kind, q))
  BY DEF Right
<1>2. CASE kind = "rank"
  <2>1. MostAnswers(kind, NoQuery) = 2
    BY <1>2 DEF MostAnswers
  <2>2. a <= IF q.sql = "get_ugame_info_inredis" THEN 1 ELSE 0
    BY <1>1, <1>2 DEF MostAnswers
  <2>3. a + n <= 2
    BY <2>2
  <2> QED
    BY <1>2, <2>1, <2>3, QueryFacts DEF Right
<1>3. CASE kind # "rank"
  <2>1. MostAnswers(kind, NoQuery) = 1 /\ a = 0
    BY <1>1, <1>3 DEF MostAnswers
  <2>2. n = 1
    BY <1>1, <1>3 DEF AsksOf
  <2> QED
    BY <2>1, <2>2, QueryFacts DEF Right
<1> QED
  BY <1>2, <1>3

LEMMA RightAsk ==
  ASSUME NEW kind \in {"ugame", "claim", "rank"}, NEW q, q # NoQuery, NEW a \in Nat,
         NEW p, p # NoQuery, NEW n \in 0..1,
         p.sql \in AsksOf(kind), p.sql = "update_login_bonues" => FirstDay <= p.day,
         q.sql # "get_ugame_info_inredis",
         n = 1 => kind = "rank" /\ p.sql = "get_ugame_info_inredis",
         Right(kind, q, a)
  PROVE  Right(kind, p, a + n)
<1>1. a <= MostAnswers(kind, q) /\ MostAnswers(kind, q) = 0
  BY DEF Right, MostAnswers
<1>2. a + n = n
  BY <1>1
<1>3. n <= MostAnswers(kind, p) /\ (kind # "rank" => n = MostAnswers(kind, p))
  BY DEF MostAnswers
<1> QED
  BY <1>2, <1>3 DEF Right

LEMMA KindOf ==
  ASSUME NEW i \in DOMAIN calls, calls[i] \in Calls, NEW sql, Returns(calls[i], sql),
         sql # "none"
  PROVE  /\ calls[i].kind \in {"ugame", "claim", "rank"} /\ calls[i].answers \in Nat
         /\ calls[i].query # NoQuery /\ calls[i].query.sql = sql
  BY QueryFacts DEF Returns, Calls

\* The callback ends the request with n answers.
LEMMA EndMoves ==
  ASSUME NEW i \in DOMAIN calls, calls[i] \in Calls, NEW sql, Returns(calls[i], sql),
         sql # "none", NEW n \in 0..2,
         SystemContinue(i, Ended(calls[i], n)),
         \/ n = 1
         \/ sql \in {"zrevrange", "get_uinfo_inredis", "get_ugame_info_inredis"},
         sql = "get_ugame_info_inredis" => n <= 1
  PROVE  Moves(i)
<1> DEFINE c == calls[i]
<1>1. /\ c.kind \in {"ugame", "claim", "rank"} /\ c.answers \in Nat
      /\ c.query # NoQuery /\ c.query.sql = sql
  BY KindOf
<1>2. Right(c.kind, c.query, c.answers) => Right(c.kind, NoQuery, c.answers + n)
  <2> HIDE DEF c
  <2> QED
    BY <1>1, RightEnd
<1>3. SystemContinue(i, Continued(c, NoQuery, n)) /\ NoQuery \in SystemQueries
  BY AsContinued, QueryFacts
<1> QED
  BY <1>2, <1>3, ContinuedMoves

\* The callback asks query q of the same kind, and sends nothing.
LEMMA AskMoves ==
  ASSUME NEW i \in DOMAIN calls, calls[i] \in Calls, NEW sql, Returns(calls[i], sql),
         sql # "none", NEW q \in SystemQueries, q # NoQuery,
         q.sql = "update_login_bonues" => FirstDay <= q.day,
         SystemContinue(i, Ask(calls[i], q)),
         \A kind \in {"ugame", "claim", "rank"} :
           sql \in AsksOf(kind) /\ (calls[i].kind = kind) => q.sql \in AsksOf(kind),
         sql # "get_ugame_info_inredis"
  PROVE  Moves(i)
<1> DEFINE c == calls[i]
<1>1. /\ c.kind \in {"ugame", "claim", "rank"} /\ c.answers \in Nat
      /\ c.query # NoQuery /\ c.query.sql = sql
  BY KindOf
<1>2. Right(c.kind, c.query, c.answers) => Right(c.kind, q, c.answers + 0)
  <2>1. Right(c.kind, c.query, c.answers) => q.sql \in AsksOf(c.kind)
    BY <1>1 DEF Right
  <2> HIDE DEF c
  <2> QED
    BY <1>1, <2>1, RightAsk
<1>3. SystemContinue(i, Continued(c, q, 0))
  BY AsContinued
<1> QED
  BY <1>2, <1>3, ContinuedMoves

LEMMA CallbackMoves ==
  ASSUME IInv, FirstDay <= today, NEW i \in DOMAIN calls, SystemProgress(i), ~SystemQuery(i)
  PROVE  Moves(i)
<1> DEFINE c == calls[i]
<1>1. c \in Calls /\ today \in 1..MaxDay
  BY CallTyped DEF IInv, SystemTypeOK
<1>2. \A s \in {"get_ugame_info", "insert_ugame_info", "get_bonues_info",
                "update_login_bonues_status"} :
        [sql |-> s] \in SystemQueries /\ [sql |-> s].sql = s /\ [sql |-> s] # NoQuery
  BY QueryFacts
<1>3. CASE UgameInfo(i)
  <2>1. Returns(c, "get_ugame_info")
    BY <1>3 DEF UgameInfo
  <2>2. CASE SystemContinue(i, Ended(c, 1))
    BY <1>1, <2>1, <2>2, EndMoves
  <2>3. CASE \E s \in {"insert_ugame_info", "get_bonues_info"} :
               SystemContinue(i, Ask(c, [sql |-> s]))
    BY <1>1, <1>2, <2>1, <2>3, AskMoves DEF AsksOf
  <2> QED
    BY <1>3, <2>2, <2>3 DEF UgameInfo
<1>4. CASE UgameInserted(i) \/ BonuesInserted(i)
  <2>1. PICK s \in {"insert_ugame_info", "insert_bonues_info"},
             t \in {"get_ugame_info", "get_bonues_info"} :
          /\ Returns(c, s)
          /\ SystemContinue(i, Ended(c, 1)) \/ SystemContinue(i, Ask(c, [sql |-> t]))
    BY <1>4 DEF UgameInserted, BonuesInserted
  <2>2. CASE SystemContinue(i, Ended(c, 1))
    BY <1>1, <2>1, <2>2, EndMoves
  <2>3. CASE SystemContinue(i, Ask(c, [sql |-> t]))
    BY <1>1, <1>2, <2>1, <2>3, AskMoves DEF AsksOf
  <2> QED
    BY <2>1, <2>2, <2>3
<1>5. CASE CheckLoginBonues(i)
  <2>1. Returns(c, "get_bonues_info") /\ c.kind = "ugame"
    BY <1>5 DEF CheckLoginBonues
  <2>2. CASE SystemContinue(i, Ended(c, 1))
    BY <1>1, <2>1, <2>2, EndMoves
  <2>3. CASE SystemContinue(i, Ask(c, [sql |-> "insert_bonues_info", day |-> today]))
    <3> DEFINE q == [sql |-> "insert_bonues_info", day |-> today]
    <3>1. q \in SystemQueries /\ q.sql = "insert_bonues_info" /\ q # NoQuery
      <4>1. q \in SystemQueries /\ q.sql = "insert_bonues_info"
        BY <1>1, QueryFacts
      <4> HIDE DEF q
      <4> QED
        BY <4>1, QueryFacts
    <3> HIDE DEF q
    <3>2. SystemContinue(i, Ask(c, q))
      BY <2>3 DEF q
    <3> QED
      BY <1>1, <2>1, <3>1, <3>2, AskMoves DEF AsksOf
  <2>4. CASE /\ c.result.is = "row"
             /\ SystemContinue(i, Ask(c, [sql |-> "update_login_bonues", day |-> today,
                                          days |-> NextDays(c.result)]))
    <3> DEFINE q == [sql |-> "update_login_bonues", day |-> today, days |-> NextDays(c.result)]
    <3>1. c.result \in BonuesRows
      BY <2>1, <2>4, ResultFacts DEF IInv, Dated, Returns
    <3>2. NextDays(c.result) \in 1..LoginBonues
      BY <3>1, RowFacts, LoginBonuesAssumption DEF NextDays
    <3>3. q \in SystemQueries /\ q.sql = "update_login_bonues" /\ q # NoQuery
         /\ FirstDay <= q.day
      <4>1. q \in SystemQueries /\ q.sql = "update_login_bonues" /\ q.day = today
        BY <1>1, <3>2, QueryFacts
      <4> HIDE DEF q
      <4> QED
        BY <4>1, QueryFacts
    <3> HIDE DEF q
    <3>4. SystemContinue(i, Ask(c, q))
      BY <2>4 DEF q
    <3> QED
      BY <1>1, <2>1, <3>3, <3>4, AskMoves DEF AsksOf
  <2> QED
    BY <1>5, <2>2, <2>3, <2>4 DEF CheckLoginBonues
<1>6. CASE BonuesUpdated(i) \/ Claimed(i)
  <2>1. PICK s \in {"update_login_bonues", "update_login_bonues_status"} :
          Returns(c, s) /\ SystemContinue(i, Ended(c, 1))
    BY <1>6 DEF BonuesUpdated, Claimed
  <2> QED
    BY <1>1, <2>1, EndMoves
<1>7. CASE ClaimChecked(i)
  <2>1. Returns(c, "get_bonues_info") /\ c.kind = "claim"
    BY <1>7 DEF ClaimChecked
  <2>2. CASE SystemContinue(i, Ended(c, 1))
    BY <1>1, <2>1, <2>2, EndMoves
  <2>3. CASE SystemContinue(i, Ask(c, [sql |-> "update_login_bonues_status"]))
    BY <1>1, <1>2, <2>1, <2>3, AskMoves DEF AsksOf
  <2> QED
    BY <1>7, <2>2, <2>3 DEF ClaimChecked
<1>8. CASE WorldRank(i)
  <2>1. Returns(c, "zrevrange")
    BY <1>8 DEF WorldRank
  <2>2. CASE \E n \in 0..2 : SystemContinue(i, Ended(c, n))
    BY <1>1, <2>1, <2>2, EndMoves
  <2>3. CASE /\ c.result.is = "list"
             /\ SystemContinue(i, Ask(c, [sql |-> "get_uinfo_inredis", more |-> c.result.more]))
    <3> DEFINE q == [sql |-> "get_uinfo_inredis", more |-> c.result.more]
    <3>1. c.result.more \in BOOLEAN
      BY <1>1, <2>3, ResultFacts DEF Calls, SystemResults, BonuesRows
    <3>2. q \in SystemQueries /\ q.sql = "get_uinfo_inredis" /\ q # NoQuery
      <4>1. q \in SystemQueries /\ q.sql = "get_uinfo_inredis"
        BY <3>1, QueryFacts
      <4> HIDE DEF q
      <4> QED
        BY <4>1, QueryFacts
    <3> HIDE DEF q
    <3>3. SystemContinue(i, Ask(c, q))
      BY <2>3 DEF q
    <3> QED
      BY <1>1, <2>1, <3>2, <3>3, AskMoves DEF AsksOf
  <2> QED
    BY <1>8, <2>2, <2>3 DEF WorldRank
<1>9. CASE RankUserInfo(i)
  <2> DEFINE failed == c.result = Failed
             q == [sql |-> "get_ugame_info_inredis", nouser |-> failed]
  <2>1. Returns(c, "get_uinfo_inredis")
    BY <1>9 DEF RankUserInfo
  <2>2. CASE \E n \in 0..2 : SystemContinue(i, Ended(c, n))
    BY <1>1, <2>1, <2>2, EndMoves
  <2>3. q \in SystemQueries /\ q.sql = "get_ugame_info_inredis" /\ q # NoQuery
    <3>1. q \in SystemQueries /\ q.sql = "get_ugame_info_inredis"
      BY QueryFacts
    <3> HIDE DEF q
    <3> QED
      BY <3>1, QueryFacts
  <2>4. CASE SystemContinue(i, [Ask(c, q) EXCEPT !.answers = IF failed THEN @ + 1 ELSE @])
    <3> HIDE DEF q
    <3>1. CASE failed
      <4>1. SystemContinue(i, [Ask(c, q) EXCEPT !.answers = @ + 1])
        BY <2>4, <3>1
      <4>2. SystemContinue(i, Continued(c, q, 1))
        BY <1>1, <2>3, <4>1, AsContinued
      <4>3. Right(c.kind, c.query, c.answers) => Right(c.kind, q, c.answers + 1)
        <5>1. /\ c.kind \in {"ugame", "claim", "rank"} /\ c.answers \in Nat
              /\ c.query # NoQuery /\ c.query.sql = "get_uinfo_inredis"
          BY <1>1, <2>1, KindOf
        <5>2. Right(c.kind, c.query, c.answers) => c.kind = "rank"
          BY <5>1 DEF Right, AsksOf
        <5>3. "get_ugame_info_inredis" \in AsksOf("rank")
          BY DEF AsksOf
        <5> HIDE DEF c
        <5> QED
          BY <2>3, <5>1, <5>2, <5>3, RightAsk
      <4> QED
        BY <1>1, <2>3, <4>2, <4>3, ContinuedMoves
    <3>2. CASE ~failed
      <4>1. [Ask(c, q) EXCEPT !.answers = @] = Ask(c, q)
        BY <1>1 DEF Calls, Ask
      <4>2. SystemContinue(i, Ask(c, q))
        BY <2>4, <3>2, <4>1
      <4> QED
        BY <1>1, <2>1, <2>3, <4>2, AskMoves DEF AsksOf
    <3> QED
      BY <3>1, <3>2
  <2>5. c.query.more => \E n \in 0..2 : SystemContinue(i, Ended(c, n))
    BY <1>9 DEF RankUserInfo
  <2>6. ~c.query.more =>
          SystemContinue(i, [Ask(c, q) EXCEPT !.answers = IF failed THEN @ + 1 ELSE @])
    BY <1>9 DEF RankUserInfo
  <2> QED
    BY <2>2, <2>4, <2>5, <2>6
<1>10. CASE RankUgameInfo(i)
  <2>1. Returns(c, "get_ugame_info_inredis") /\ \E n \in 0..1 : SystemContinue(i, Ended(c, n))
    BY <1>10 DEF RankUgameInfo
  <2> QED
    BY <1>1, <2>1, EndMoves
<1> QED
  BY <1>3, <1>4, <1>5, <1>6, <1>7, <1>8, <1>9, <1>10 DEF SystemProgress

\* What a query returns has a branch in its callback.
LEMMA RepliesExpected ==
  ASSUME IInv, NEW c \in Calls, NEW x \in SystemReplies(c)
  PROVE  Expected(c.query, x)
<1>1. c.who \in Uids
  BY DEF Calls
<1>2. /\ ugame[c.who] \in {"none", "active", "frozen"}
      /\ bonues[c.who] \in BonuesRows \cup {NoBonues}
  BY <1>1 DEF IInv, SystemTypeOK
<1>3. CASE c.query.sql = "get_ugame_info"
  <2>1. x = IF ugame[c.who] = "none" THEN Empty ELSE [is |-> "row", ustatus |-> ugame[c.who]]
    BY <1>3 DEF SystemReplies
  <2>2. CASE x = Empty
    BY <1>3, <2>2, ResultFacts DEF Expected
  <2>3. CASE ugame[c.who] # "none"
    <3>1. x.is = "row" /\ x.ustatus = ugame[c.who]
      BY <2>1, <2>3
    <3> QED
      BY <1>2, <1>3, <2>3, <3>1 DEF Expected
  <2> QED
    BY <2>1, <2>2, <2>3
<1>4. CASE c.query.sql = "get_bonues_info"
  <2>1. x = bonues[c.who]
    BY <1>4 DEF SystemReplies
  <2>2. x.is \in {"empty", "row"}
    BY <1>2, <2>1, RowFacts, ResultFacts
  <2> QED
    BY <1>4, <2>2 DEF Expected
<1>5. CASE c.query.sql = "zrevrange"
  <2>1. x \in Ranking
    BY <1>5 DEF SystemReplies
  <2>2. x.is \in {"empty", "list"}
    BY <2>1, ResultFacts DEF Ranking
  <2> QED
    BY <1>5, <2>2 DEF Expected
<1>6. CASE c.query.sql \notin {"get_ugame_info", "get_bonues_info", "zrevrange"}
  BY <1>6 DEF Expected
<1> QED
  BY <1>3, <1>4, <1>5, <1>6

LEMMA QueryMoves ==
  ASSUME IInv, NEW i \in DOMAIN calls, SystemQuery(i)
  PROVE  Moves(i)
<1> DEFINE c == calls[i]
<1>1. c \in Calls
  BY CallTyped
<1>2. PICK x \in SystemReplies(c) \cup {Failed} : calls' = [calls EXCEPT ![i].result = x]
  BY DEF SystemQuery
<1>3. x \in SystemResults /\ Expected(c.query, x)
  <2>1. CASE x = Failed
    BY <2>1, ResultFacts DEF Expected, SystemResults
  <2>2. CASE x \in SystemReplies(c)
    BY <1>1, <2>2, ReplyFacts, RepliesExpected
  <2> QED
    BY <1>2, <2>1, <2>2
<1> DEFINE r == [c EXCEPT !.result = x]
<1>4. /\ r \in Calls /\ r.kind = c.kind /\ r.query = c.query /\ r.answers = c.answers
      /\ r.result = x
  BY <1>1, <1>3 DEF Calls
<1>5. calls' = [calls EXCEPT ![i] = r]
  BY <1>2
<1> HIDE DEF r
<1>6. OnTrack(c) => OnTrack(r)
  BY <1>3, <1>4 DEF OnTrack
<1> QED
  BY <1>4, <1>5, <1>6 DEF Moves

LEMMA MovesKeep ==
  ASSUME IInv, AnswersInv, NEW i \in DOMAIN calls, Moves(i)
  PROVE  AllOnTrack'
<1>1. PICK r \in Calls : calls' = [calls EXCEPT ![i] = r] /\ (OnTrack(calls[i]) => OnTrack(r))
  BY DEF Moves
<1>2. calls \in Seq(Calls)
  BY DEF IInv, SystemTypeOK
<1>3. /\ DOMAIN calls' = DOMAIN calls /\ calls'[i] = r
      /\ \A j \in DOMAIN calls : j # i => calls'[j] = calls[j]
  BY <1>1, <1>2, OneCall
<1>4. ASSUME NEW j \in DOMAIN calls' PROVE OnTrack(calls'[j])
  BY <1>1, <1>3 DEF AnswersInv, AllOnTrack
<1>5. \A j \in DOMAIN calls' : OnTrack(calls'[j])
  BY <1>4
<1> QED
  BY <1>5 DEF AllOnTrack, OnTrack, Right

\* A request begins with the first query of its kind, or is answered at once.
LEMMA ReceiveKeepsAnswers ==
  ASSUME IInv, AnswersInv, NEW u \in Uids, FromUser(u)
  PROVE  AllOnTrack'
<1>1. PICK kind \in {"ugame", "claim", "rank"},
           sql \in {"get_ugame_info", "get_bonues_info", "zrevrange"} :
         /\ sql \in AsksOf(kind)
         /\ ReceiveSystem(Request(kind, u, [sql |-> sql]))
  BY DEF FromUser, GetUgameInfo, RecvLoginBonues, GetWorldRank, AsksOf
<1> DEFINE q == [sql |-> sql]
           r == Request(kind, u, q)
           e == Continued(r, NoQuery, 1)
<1>2. q \in SystemQueries /\ q.sql = sql /\ NoQuery \in SystemQueries
  BY QueryFacts
<1> HIDE DEF q
<1>3. q # NoQuery
  BY <1>2, QueryFacts
<1>4. r \in Calls /\ r.kind = kind /\ r.query = q /\ r.result = Pending /\ r.answers = 0
  <2>1. Pending \in SystemResults
    BY DEF SystemResults
  <2> HIDE DEF Pending
  <2> QED
    BY <1>2, <2>1 DEF Request, Calls
<1>5. ReceiveSystem(r)
  BY <1>1 DEF q
<1> HIDE DEF r
<1>6. /\ e \in Calls /\ e.kind = kind /\ e.query = NoQuery /\ e.result = Pending
      /\ e.answers = 1
  <2>1. 1 \in Nat /\ 0 + 1 = 1
    OBVIOUS
  <2> HIDE DEF e
  <2>2. e = Continued(r, NoQuery, 1)
    BY DEF e
  <2> QED
    BY <1>2, <1>4, <2>1, <2>2, ContinuedFacts
<1>7. Ended(r, 1) = e
  BY <1>2, <1>4, AsContinued
<1> HIDE DEF e
<1>8. OnTrack(r) /\ (kind # "rank" => OnTrack(e))
  <2>1. Expected(q, Pending) /\ Expected(NoQuery, Pending)
    BY ResultFacts DEF Expected
  <2>2. Right(kind, q, 0)
    BY <1>1, <1>2, <1>3 DEF Right, MostAnswers
  <2>3. kind # "rank" => Right(kind, NoQuery, 1)
    BY QueryFacts DEF Right, MostAnswers
  <2> QED
    BY <1>4, <1>6, <2>1, <2>2, <2>3 DEF OnTrack
<1>9. PICK s \in {r, e} : calls' = Append(calls, s) /\ OnTrack(s)
  BY <1>4, <1>5, <1>7, <1>8 DEF ReceiveSystem
<1>10. /\ DOMAIN calls' = DOMAIN calls \cup {Len(calls) + 1}
       /\ calls'[Len(calls) + 1] = s
       /\ \A j \in DOMAIN calls : calls'[j] = calls[j]
  BY <1>4, <1>6, <1>9, Appended DEF IInv, SystemTypeOK
<1>11. \A j \in DOMAIN calls' : OnTrack(calls'[j])
  BY <1>9, <1>10 DEF AnswersInv, AllOnTrack
<1> QED
  BY <1>11 DEF AllOnTrack, OnTrack, Right

LEMMA AnswersStep ==
  ASSUME IInv, AnswersInv, [Next]_vars
  PROVE  AnswersInv'
<1>1. ASSUME UNCHANGED calls PROVE AllOnTrack'
  BY <1>1 DEF AnswersInv, AllOnTrack, OnTrack, Right
<1>2. ASSUME AuthStep \/ (CentreQuery /\ UNCHANGED <<authVars, systemVars>>) \/ UNCHANGED vars
      PROVE  AllOnTrack'
  BY <1>1, <1>2 DEF AuthStep, vars, systemVars
<1>3. ASSUME SystemStep PROVE AllOnTrack'
  <2>1. ASSUME RankQuery \/ Midnight PROVE AllOnTrack'
    BY <1>1, <2>1 DEF RankQuery, Midnight
  <2>2. ASSUME NEW u \in logged_in \cap Uids, FromUser(u) PROVE AllOnTrack'
    BY <2>2, ReceiveKeepsAnswers
  <2>3. ASSUME NEW i \in 1..Len(calls), SystemProgress(i) PROVE AllOnTrack'
    <3>1. i \in DOMAIN calls
      BY CallInCalls DEF IInv, SystemTypeOK
    <3>2. Moves(i)
      BY <2>3, <3>1, CallbackMoves, QueryMoves DEF AnswersInv
    <3> QED
      BY <3>1, <3>2, MovesKeep
  <2> QED
    BY <1>3, <2>1, <2>2, <2>3 DEF SystemStep
<1>4. FirstDay <= today'
  <2>1. today' = today \/ today' = today + 1
    BY DEF Next, AuthStep, SystemStep, vars, systemVars, FromUser, GetUgameInfo, RecvLoginBonues,
       GetWorldRank, ReceiveSystem, RankQuery, Midnight, SystemProgress, SystemQuery, UgameInfo,
       UgameInserted, CheckLoginBonues, BonuesInserted, BonuesUpdated, ClaimChecked, Claimed,
       WorldRank, RankUserInfo, RankUgameInfo, SystemStays
  <2>2. today \in Nat /\ FirstDay \in Nat /\ FirstDay <= today
    BY DaysAssumption DEF IInv, SystemTypeOK, AnswersInv
  <2> QED
    BY <2>1, <2>2
<1>5. AllOnTrack'
  BY <1>2, <1>3 DEF Next
<1> QED
  BY <1>4, <1>5 DEF AnswersInv

LEMMA AnswersInvariance == Spec => []AnswersInv
<1>1. Init => AnswersInv
  BY DaysAssumption DEF Init, SystemInit, AnswersInv, AllOnTrack
<1> QED
  BY <1>1, AnswersStep, Invariance, PTL DEF Spec

\* Every request for the game data and every claim has been answered exactly once
\* when it asks no further query, and not before; one for the ranking is never
\* answered more than twice.
CallsAnswered ==
  \A i \in DOMAIN calls :
    /\ calls[i].kind # "rank" => calls[i].answers = IF Finished(calls[i]) THEN 1 ELSE 0
    /\ calls[i].answers <= 2

\* ugame.lua and login_bonues.lua answer a request once, whatever the databases
\* return, and game_rank.lua at most twice.
THEOREM SystemAnswersOnce == Spec => []CallsAnswered
<1>1. IInv /\ AnswersInv => CallsAnswered
  <2> SUFFICES ASSUME IInv, AnswersInv, NEW i \in DOMAIN calls
               PROVE  /\ calls[i].kind # "rank" =>
                           calls[i].answers = IF Finished(calls[i]) THEN 1 ELSE 0
                      /\ calls[i].answers <= 2
    BY DEF CallsAnswered
  <2>1. Right(calls[i].kind, calls[i].query, calls[i].answers) /\ calls[i].answers \in Nat
    BY CallTyped DEF AnswersInv, AllOnTrack, OnTrack, Calls
  <2> QED
    BY <2>1 DEF Right, MostAnswers, Finished
<1> QED
  BY <1>1, Invariance, AnswersInvariance, PTL

\* The callback of the query the request has asked has a branch for its result.
CallbackReady(r) ==
  \/ /\ Returns(r, "get_ugame_info")
     /\ \/ r.result.is \in {"error", "empty"}
        \/ r.result.is = "row" /\ r.result.ustatus \in {"frozen", "active"}
  \/ \E sql \in {"insert_ugame_info", "insert_bonues_info", "update_login_bonues",
                 "update_login_bonues_status", "get_uinfo_inredis", "get_ugame_info_inredis"} :
       Returns(r, sql)
  \/ /\ Returns(r, "get_bonues_info")
     /\ r.kind = "claim" \/ (r.kind = "ugame" /\ r.result.is \in {"error", "empty", "row"})
  \/ Returns(r, "zrevrange") /\ r.result.is \in {"error", "empty", "list"}

LEMMA ReadyForResult ==
  ASSUME NEW r, r.kind \in {"ugame", "claim", "rank"}, r.query.sql \in AsksOf(r.kind),
         Expected(r.query, r.result), r.result.is # "pending", r.result # Pending
  PROVE  CallbackReady(r)
<1>1. r.kind \in {"ugame", "claim", "rank"}
  OBVIOUS
<1>2. r.query.sql \in AsksOf(r.kind) /\ Expected(r.query, r.result)
  OBVIOUS
<1>3. r.result.is # "pending" /\ r.result # Pending
  OBVIOUS
<1>4. CASE r.query.sql = "get_ugame_info"
  BY <1>2, <1>3, <1>4, ResultFacts DEF Expected, CallbackReady, Returns
<1>5. CASE r.query.sql = "get_bonues_info"
  <2>1. r.kind \in {"ugame", "claim"}
    BY <1>1, <1>2, <1>5 DEF AsksOf
  <2> QED
    BY <1>2, <1>3, <1>5, <2>1, ResultFacts DEF Expected, CallbackReady, Returns
<1>6. CASE r.query.sql = "zrevrange"
  BY <1>2, <1>3, <1>6, ResultFacts DEF Expected, CallbackReady, Returns
<1>7. CASE r.query.sql \notin {"get_ugame_info", "get_bonues_info", "zrevrange"}
  <2>1. r.query.sql \in {"insert_ugame_info", "insert_bonues_info", "update_login_bonues",
                          "update_login_bonues_status", "get_uinfo_inredis",
                          "get_ugame_info_inredis"}
    BY <1>1, <1>2, <1>7 DEF AsksOf
  <2> QED
    BY <1>3, <2>1 DEF CallbackReady, Returns
<1> QED
  BY <1>4, <1>5, <1>6, <1>7

\* A request that has not ended waits for the database, or for a callback that
\* knows what to do with the result.
CallsNeverStuck ==
  \A i \in DOMAIN calls :
    ~Finished(calls[i]) => calls[i].result = Pending \/ CallbackReady(calls[i])

\* No request to the system server gets a result its callback has no branch for.
THEOREM SystemNeverStuck == Spec => []CallsNeverStuck
<1>1. IInv /\ AnswersInv => CallsNeverStuck
  <2> SUFFICES ASSUME IInv, AnswersInv, NEW i \in DOMAIN calls, ~Finished(calls[i]),
                      calls[i].result # Pending
               PROVE  CallbackReady(calls[i])
    BY DEF CallsNeverStuck
  <2>1. calls[i].kind \in {"ugame", "claim", "rank"} /\ calls[i].result \in SystemResults
    BY CallTyped DEF Calls
  <2>2. /\ calls[i].query.sql \in AsksOf(calls[i].kind)
        /\ Expected(calls[i].query, calls[i].result)
    BY DEF AnswersInv, AllOnTrack, OnTrack, Right, Finished
  <2>3. calls[i].result.is # "pending"
    BY <2>1, ResultFacts DEF SystemResults, BonuesRows
  <2> QED
    BY <2>1, <2>2, <2>3, ReadyForResult
<1> QED
  BY <1>1, Invariance, AnswersInvariance, PTL
-----------------------------------------------------------------------------
(* The bonuses of a user, counted. *)

\* How many days of the run the bonus of u is of, or would be.
DaysServed(u) == IF Issued[u] < FirstDay THEN 0 ELSE Issued[u] + 1 - FirstDay

GrantsCounted == ~Overlapping => \A u \in Uids : granted[u] <= 1 + DaysServed(u)

\* A step of the bonus gives u none, or one of a later day than the last, and a
\* day of the run.
LEMMA GrantStep ==
  ASSUME IInv, IInv', AnswersInv, [Next]_vars, ~Overlapping, NEW u \in Uids
  PROVE  \/ granted'[u] = granted[u] /\ Issued[u] <= Issued'[u]
         \/ granted'[u] = granted[u] + 1 /\ Issued[u] < Issued'[u] /\ FirstDay <= Issued'[u]
<1>1. /\ bonues \in [Uids -> BonuesRows \cup {NoBonues}] /\ granted \in [Uids -> Nat]
      /\ bonues' \in [Uids -> BonuesRows \cup {NoBonues}] /\ granted' \in [Uids -> Nat]
      /\ DOMAIN calls = 1..Len(calls)
  BY CallInCalls DEF IInv, SystemTypeOK
<1>2. Issued[u] \in Nat /\ Issued'[u] \in Nat
  BY <1>1, RowFacts DEF Issued
<1>3. CASE UNCHANGED <<bonues, granted>>
  BY <1>2, <1>3 DEF Issued
<1>4. ASSUME NEW i \in DOMAIN calls, SystemQuery(i)
      PROVE  \/ granted'[u] = granted[u] /\ Issued[u] <= Issued'[u]
             \/ /\ granted'[u] = granted[u] + 1
                /\ Issued[u] < Issued'[u] /\ FirstDay <= Issued'[u]
  <2> DEFINE c == calls[i]
             v == c.who
             row == BonuesEffect(c)
  <2>1. c \in Calls /\ v \in Uids /\ c.result = Pending /\ c.query \in SystemQueries
    BY <1>4, CallTyped DEF Calls, SystemQuery
  <2>2. SystemEffect(c) \/ UNCHANGED <<bonues, granted>>
    BY <1>4, QueryShape DEF Outcome
  <2>3. ASSUME SystemEffect(c)
        PROVE  /\ bonues' = [bonues EXCEPT ![v] = row]
               /\ granted' = [granted EXCEPT ![v] =
                    IF c.query.sql = "update_login_bonues" THEN granted[v] + 1 ELSE granted[v]]
    BY <2>3 DEF SystemEffect
  <2>4. CASE SystemEffect(c) /\ v # u
    BY <1>1, <1>2, <2>1, <2>3, <2>4 DEF Issued
  <2>5. CASE SystemEffect(c) /\ v = u /\ c.query.sql = "update_login_bonues"
    <3>1. FreshUpdate(c) /\ Right(c.kind, c.query, c.answers) /\ Dated(c)
      BY <1>4 DEF IInv, Fresh, AnswersInv, AllOnTrack, OnTrack
    <3>2. bonues[u] # NoBonues /\ bonues[u].day < c.query.day /\ FirstDay <= c.query.day
      BY <2>1, <2>5, <3>1 DEF FreshUpdate, RowOf, Right
    <3>3. row # NoBonues /\ row.day = c.query.day
      BY <2>5, <3>2 DEF BonuesEffect, Bonues, NoBonues
    <3> HIDE DEF row, c
    <3>4. bonues'[u] = row /\ granted'[u] = granted[u] + 1
      BY <1>1, <2>1, <2>3, <2>5
    <3> QED
      BY <3>2, <3>3, <3>4 DEF Issued
  <2>6. CASE SystemEffect(c) /\ v = u /\ c.query.sql # "update_login_bonues"
    <3>1. row = bonues[u] \/ bonues[u] = NoBonues \/ row = [bonues[u] EXCEPT !.status = 1]
      BY <2>6 DEF BonuesEffect
    <3>2. bonues[u] # NoBonues => row # NoBonues /\ row.day = bonues[u].day
      BY <1>1, <3>1, ClaimedRow, RowFacts
    <3>3. bonues[u] = NoBonues => Issued[u] = 0
      BY DEF Issued
    <3> HIDE DEF row, c
    <3>4. bonues'[u] = row /\ granted'[u] = granted[u]
      BY <1>1, <2>1, <2>3, <2>6
    <3> QED
      BY <1>2, <3>2, <3>3, <3>4 DEF Issued
  <2> QED
    BY <1>3, <2>2, <2>4, <2>5, <2>6
<1>5. CASE SystemStep /\ ~(\E i \in DOMAIN calls : SystemQuery(i))
  <2>1. UNCHANGED <<bonues, granted>>
    BY <1>1, <1>5 DEF SystemStep, FromUser, GetUgameInfo, RecvLoginBonues, GetWorldRank,
       ReceiveSystem, RankQuery, Midnight, SystemProgress, UgameInfo, UgameInserted,
       CheckLoginBonues, BonuesInserted, BonuesUpdated, ClaimChecked, Claimed, WorldRank,
       RankUserInfo, RankUgameInfo, SystemStays, historyVars
  <2> QED
    BY <1>3, <2>1
<1>6. CASE AuthStep \/ (CentreQuery /\ UNCHANGED <<authVars, systemVars>>) \/ UNCHANGED vars
  BY <1>3, <1>6 DEF AuthStep, vars, systemVars, historyVars
<1> QED
  BY <1>4, <1>5, <1>6 DEF Next

LEMMA GrantsStep ==
  ASSUME IInv, IInv', AnswersInv, [Next]_vars, GrantsCounted
  PROVE  GrantsCounted'
<1>1. Overlapping' <=> Overlapping
  BY DEF Overlapping, Next, AuthStep, SystemStep, CentreQuery, vars, centreVars
<1> SUFFICES ASSUME ~Overlapping, NEW u \in Uids
             PROVE  granted'[u] <= 1 + IF Issued'[u] < FirstDay THEN 0
                                       ELSE Issued'[u] + 1 - FirstDay
  BY <1>1 DEF GrantsCounted, DaysServed
<1>2. /\ Issued[u] \in Nat /\ Issued'[u] \in Nat /\ FirstDay \in Nat
      /\ granted[u] \in Nat /\ granted'[u] \in Nat
  <2>1. /\ bonues \in [Uids -> BonuesRows \cup {NoBonues}] /\ granted \in [Uids -> Nat]
        /\ bonues' \in [Uids -> BonuesRows \cup {NoBonues}] /\ granted' \in [Uids -> Nat]
    BY DEF IInv, SystemTypeOK
  <2>2. Issued[u] \in Nat /\ Issued'[u] \in Nat
    BY <2>1, RowFacts DEF Issued
  <2> QED
    BY <2>1, <2>2, DaysAssumption
<1>3. granted[u] <= 1 + IF Issued[u] < FirstDay THEN 0 ELSE Issued[u] + 1 - FirstDay
  BY DEF GrantsCounted, DaysServed
<1> QED
  BY <1>2, <1>3, GrantStep

\* Where the requests of a user do not overlap, he is given at most one bonus for
\* each day the server has seen, besides the one that was open to begin with, and
\* never receives more than he was given.
OneBonusADay ==
  ~Overlapping => \A u \in Uids :
    received[u] <= granted[u] /\ granted[u] <= 1 + (today + 1 - FirstDay)

\* login_bonues.lua gives at most one bonus a day, and lets it be claimed once,
\* however often a user asks, and whatever queries fail.
THEOREM BonusOnceADay == Spec => []OneBonusADay
<1>1. Init => GrantsCounted
  <2> SUFFICES ASSUME Init, NEW u \in Uids
               PROVE  granted[u] <= 1 + DaysServed(u)
    BY DEF GrantsCounted
  <2>1. granted[u] \in {0, 1}
    BY DEF Init, SystemInit
  <2>2. Issued[u] \in Nat /\ FirstDay \in Nat
    BY InitInvariant, RowFacts, DaysAssumption DEF IInv, SystemTypeOK, Issued
  <2>3. DaysServed(u) \in Nat
    BY <2>2 DEF DaysServed
  <2> QED
    BY <2>1, <2>3
<1>2. IInv /\ AnswersInv /\ GrantsCounted => OneBonusADay
  <2> SUFFICES ASSUME IInv, AnswersInv, GrantsCounted, ~Overlapping, NEW u \in Uids
               PROVE  received[u] <= granted[u] /\ granted[u] <= 1 + (today + 1 - FirstDay)
    BY DEF OneBonusADay
  <2>1. received[u] <= granted[u] /\ granted[u] <= 1 + DaysServed(u) /\ granted[u] \in Nat
    BY DEF IInv, Counted, GrantsCounted, SystemTypeOK
  <2>2. Issued[u] \in Nat /\ Issued[u] <= today /\ today \in Nat
    BY RowFacts, DaysAssumption DEF IInv, SystemTypeOK, Issued
  <2>3. FirstDay <= today /\ FirstDay \in Nat
    BY DaysAssumption DEF AnswersInv
  <2> QED
    BY <2>1, <2>2, <2>3 DEF DaysServed
<1> QED
  BY <1>1, <1>2, GrantsStep, Invariance, AnswersInvariance, PTL DEF Spec
=============================================================================
