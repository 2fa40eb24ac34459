---------------------------- MODULE SystemServer ----------------------------
(***************************************************************************)
(* The system server: ugame.lua, login_bonues.lua and game_rank.lua over   *)
(* mysql_game.lua, redis_game.lua and redis_rank.lua.  Times are days.     *)
(* The chips of a user never change: the statement of add_chip begins with *)
(* "updata" and MySQL rejects it, so they are left out.                    *)
(***************************************************************************)
EXTENDS CentreRedis, FiniteSets

CONSTANTS
  LoginBonues,            \* #moba_game_config.login_bonues
  MaxDay,                 \* bound: days
  MaxCalls                \* bound: requests to the system server

ASSUME LoginBonuesAssumption == LoginBonues \in Nat \ {0}

VARIABLES
  today,
  ugame,                  \* ugame[u]: the row of u in ugame: "none", "active" or "frozen"
  bonues,                 \* bonues[u]: the row of u in login_bonues
  rank,                   \* the users in the sorted set WOLD_CHIP_RANK
  zadd,                   \* the users on their way to it
  calls,                  \* the requests, in the order of their arrival
  granted, received       \* history: bonuses given, and claims answered with OK

systemVars == <<today, ugame, bonues, rank, zadd, calls, granted, received>>
historyVars == <<granted, received>>

NoBonues == [is |-> "empty"]
Bonues(day, days, status) == [is |-> "row", day |-> day, days |-> days, status |-> status]

BonuesRows == [is : {"row"}, day : 1..MaxDay, days : 0..LoginBonues, status : {0, 1}]
-----------------------------------------------------------------------------
(* The databases. *)

\* zrevrange: all have the same chips, so anybody may be the first.
Ranking ==
  IF rank = {} THEN {Empty}
  ELSE {[is |-> "list", first |-> u, more |-> Cardinality(rank) > 1] : u \in rank}

SystemReplies(r) ==
  CASE r.query.sql = "get_ugame_info" ->
         {IF ugame[r.who] = "none" THEN Empty ELSE [is |-> "row", ustatus |-> ugame[r.who]]}
    [] r.query.sql = "get_bonues_info" -> {bonues[r.who]}
    [] r.query.sql \in {"insert_ugame_info", "insert_bonues_info"} ->
         IF (IF r.query.sql = "insert_ugame_info" THEN ugame[r.who] = "none"
                                                  ELSE bonues[r.who] = NoBonues)
         THEN {Done} ELSE {Done, Failed}
    [] r.query.sql = "zrevrange" -> Ranking
    [] OTHER -> {Done}

\* What a statement makes of the row of the user in login_bonues.
BonuesEffect(r) ==
  CASE r.query.sql = "insert_bonues_info" /\ bonues[r.who] = NoBonues ->
         Bonues(r.query.day, 0, 1)
    [] r.query.sql = "update_login_bonues" -> Bonues(r.query.day, r.query.days, 0)
    [] r.query.sql = "update_login_bonues_status" -> [bonues[r.who] EXCEPT !.status = 1]
    [] OTHER -> bonues[r.who]

UgameEffect(r) ==
  IF r.query.sql = "insert_ugame_info" /\ ugame[r.who] = "none" THEN "active" ELSE ugame[r.who]

SystemEffect(r) ==
  /\ bonues' = [bonues EXCEPT ![r.who] = BonuesEffect(r)]
  /\ ugame' = [ugame EXCEPT ![r.who] = UgameEffect(r)]
  /\ granted' = [granted EXCEPT ![r.who] =
                   IF r.query.sql = "update_login_bonues" THEN @ + 1 ELSE @]

\* An error may be reported although the statement took effect.
SystemQuery(i) ==
  LET r == calls[i]
  IN  /\ ~Finished(r) /\ r.result = Pending
      /\ \/ /\ \E x \in SystemReplies(r) : calls' = [calls EXCEPT ![i].result = x]
            /\ SystemEffect(r) /\ UNCHANGED errors
         \/ /\ Fails
            /\ calls' = [calls EXCEPT ![i].result = Failed]
            /\ SystemEffect(r) \/ UNCHANGED <<bonues, ugame, granted>>
      /\ UNCHANGED <<today, rank, zadd, received>>

\* flush_world_rank_with_uchip_inredis does not wait for its query.
RankQuery ==
  \E u \in zadd :
    /\ zadd' = zadd \ {u}
    /\ \/ rank' = rank \cup {u} /\ UNCHANGED errors
       \/ Fails /\ UNCHANGED rank
    /\ UNCHANGED <<today, ugame, bonues, calls, historyVars>>
-----------------------------------------------------------------------------
(* Requests. *)

\* Before mysql_connect_to_moba_game has succeeded the answer is sent at once.
ReceiveSystem(r) ==
  /\ Len(calls) < MaxCalls
  /\ \/ "overlap" \in environment
     \/ \A i \in 1..Len(calls) : calls[i].who = r.who => Finished(calls[i])
  /\ \/ calls' = Append(calls, r)
     \/ r.kind # "rank" /\ calls' = Append(calls, Ended(r, 1))
  /\ UNCHANGED <<today, ugame, bonues, rank, zadd, errors, historyVars>>

GetUgameInfo(u) == ReceiveSystem(Request("ugame", u, [sql |-> "get_ugame_info"]))

RecvLoginBonues(u) == ReceiveSystem(Request("claim", u, [sql |-> "get_bonues_info"]))

GetWorldRank(u) == ReceiveSystem(Request("rank", u, [sql |-> "zrevrange"]))

Midnight ==
  /\ today < MaxDay /\ today' = today + 1
  /\ UNCHANGED <<ugame, bonues, rank, zadd, errors, calls, historyVars>>
-----------------------------------------------------------------------------
(* The callbacks. *)

SystemContinue(i, r) == calls' = [calls EXCEPT ![i] = r]

SystemStays == UNCHANGED <<today, ugame, bonues, rank, zadd, errors, historyVars>>

UgameInfo(i) ==
  LET r == calls[i]
  IN  /\ Returns(r, "get_ugame_info")
      /\ \/ r.result.is = "error" /\ SystemContinue(i, Ended(r, 1)) /\ SystemStays
         \/ /\ r.result.is = "empty"
            /\ SystemContinue(i, Ask(r, [sql |-> "insert_ugame_info"])) /\ SystemStays
         \/ /\ r.result.is = "row" /\ r.result.ustatus = "frozen"
            /\ SystemContinue(i, Ended(r, 1)) /\ SystemStays
         \/ /\ r.result.is = "row" /\ r.result.ustatus = "active"
            /\ SystemContinue(i, Ask(r, [sql |-> "get_bonues_info"]))
            /\ zadd' = zadd \cup {r.who}
            /\ UNCHANGED <<today, ugame, bonues, rank, errors, historyVars>>

UgameInserted(i) ==
  LET r == calls[i]
  IN  /\ Returns(r, "insert_ugame_info")
      /\ IF r.result = Failed THEN SystemContinue(i, Ended(r, 1))
                              ELSE SystemContinue(i, Ask(r, [sql |-> "get_ugame_info"]))
      /\ SystemStays

\* The next day of the streak.
NextDays(row) ==
  IF row.day # today - 1 \/ row.days + 1 > LoginBonues THEN 1 ELSE row.days + 1

\* check_login_bonues and send_bonues_to_user.
CheckLoginBonues(i) ==
  LET r == calls[i]
  IN  /\ r.kind = "ugame" /\ Returns(r, "get_bonues_info")
      /\ \/ r.result.is = "error" /\ SystemContinue(i, Ended(r, 1))
         \/ /\ r.result.is = "empty"
            /\ SystemContinue(i, Ask(r, [sql |-> "insert_bonues_info", day |-> today]))
         \/ /\ r.result.is = "row" /\ r.result.day < today
            /\ SystemContinue(i, Ask(r, [sql |-> "update_login_bonues", day |-> today,
                                   days |-> NextDays(r.result)]))
         \/ r.result.is = "row" /\ r.result.day >= today /\ SystemContinue(i, Ended(r, 1))
      /\ SystemStays

BonuesInserted(i) ==
  LET r == calls[i]
  IN  /\ Returns(r, "insert_bonues_info")
      /\ IF r.result = Failed THEN SystemContinue(i, Ended(r, 1))
                              ELSE SystemContinue(i, Ask(r, [sql |-> "get_bonues_info"]))
      /\ SystemStays

BonuesUpdated(i) ==
  /\ Returns(calls[i], "update_login_bonues")
  /\ SystemContinue(i, Ended(calls[i], 1))
  /\ SystemStays

\* A bug recv_login_bonues could have: it does not look at the status.
AnyRow(result) == result.is = "row"

Claimable(result) == result.is = "row" /\ result.status = 0

ClaimChecked(i) ==
  LET r == calls[i]
  IN  /\ r.kind = "claim" /\ Returns(r, "get_bonues_info")
      /\ IF Claimable(r.result)
         THEN SystemContinue(i, Ask(r, [sql |-> "update_login_bonues_status"]))
         ELSE SystemContinue(i, Ended(r, 1))
      /\ SystemStays

\* add_chip, which has no effect, and the answer, which does not wait for it.
Claimed(i) ==
  LET r == calls[i]
  IN  /\ Returns(r, "update_login_bonues_status")
      /\ SystemContinue(i, Ended(r, 1))
      /\ received' = [received EXCEPT ![r.who] = IF r.result = Failed THEN @ ELSE @ + 1]
      /\ UNCHANGED <<today, ugame, bonues, rank, zadd, errors, granted>>

\* An error of zrevrange runs the handler twice: two answers.
WorldRank(i) ==
  LET r == calls[i]
  IN  /\ Returns(r, "zrevrange")
      /\ \/ r.result.is = "error" /\ SystemContinue(i, Ended(r, 2))
         \/ r.result.is = "empty" /\ SystemContinue(i, Ended(r, 1))
         \/ /\ r.result.is = "list"
            /\ SystemContinue(i, Ask(r, [sql |-> "get_uinfo_inredis", more |-> r.result.more]))
      /\ SystemStays

\* The first user of the ranking.  After an error failed_func answers and
\* success_func goes on with nil.  With more than one user rank_uid, a
\* global that is nil, is indexed: an error of the script.  The fields of
\* a user without a record are nil and do not stop the chain.
RankUserInfo(i) ==
  LET r == calls[i]
      failed == r.result = Failed
  IN  /\ Returns(r, "get_uinfo_inredis")
      /\ IF r.query.more
         THEN SystemContinue(i, Ended(r, IF failed THEN 1 ELSE 0))
         ELSE SystemContinue(i, [Ask(r, [sql |-> "get_ugame_info_inredis", nouser |-> failed])
                             EXCEPT !.answers = IF failed THEN @ + 1 ELSE @])
      /\ SystemStays

\* send_rank_info_to_client fails where one of the two records is nil.
RankUgameInfo(i) ==
  LET r == calls[i]
  IN  /\ Returns(r, "get_ugame_info_inredis")
      /\ SystemContinue(i, Ended(r, IF r.result # Failed /\ r.query.nouser THEN 0 ELSE 1))
      /\ SystemStays
-----------------------------------------------------------------------------
SystemInit ==
  /\ zadd = {} /\ calls = <<>>
  /\ granted = [u \in Uids |-> IF bonues[u] # NoBonues /\ bonues[u].status = 0 THEN 1 ELSE 0]
  /\ received = [u \in Uids |-> 0]

SystemProgress(i) ==
  \/ SystemQuery(i)
  \/ UgameInfo(i) \/ UgameInserted(i) \/ CheckLoginBonues(i) \/ BonuesInserted(i)
  \/ BonuesUpdated(i) \/ ClaimChecked(i) \/ Claimed(i)
  \/ WorldRank(i) \/ RankUserInfo(i) \/ RankUgameInfo(i)
-----------------------------------------------------------------------------
SystemQueries ==
  [sql : {"none", "get_ugame_info", "insert_ugame_info", "get_bonues_info",
          "update_login_bonues_status", "zrevrange"}]
    \cup [sql : {"insert_bonues_info"}, day : 1..MaxDay]
    \cup [sql : {"update_login_bonues"}, day : 1..MaxDay, days : 1..LoginBonues]
    \cup [sql : {"get_uinfo_inredis"}, more : BOOLEAN]
    \cup [sql : {"get_ugame_info_inredis"}, nouser : BOOLEAN]

SystemResults ==
  {Pending, Failed, Empty, Done} \cup BonuesRows
    \cup [is : {"row"}, ustatus : {"active", "frozen"}]
    \cup [is : {"list"}, first : Uids, more : BOOLEAN]

Calls ==
  [kind : {"ugame", "claim", "rank"}, who : Uids, query : SystemQueries,
   result : SystemResults, answers : Nat]

SystemTypeOK ==
  /\ today \in 1..MaxDay
  /\ ugame \in [Uids -> {"none", "active", "frozen"}]
  /\ bonues \in [Uids -> BonuesRows \cup {NoBonues}]
  /\ rank \subseteq Uids /\ zadd \subseteq Uids
  /\ calls \in Seq(Calls)
  /\ granted \in [Uids -> Nat] /\ received \in [Uids -> Nat]
=============================================================================
