------------------------------ MODULE Services ------------------------------
(***************************************************************************)
(* The auth server and the system server together.  The gateway puts the   *)
(* uid into every request to the system server, and knows it only from an  *)
(* answer of the auth server: so requests come from users who have logged  *)
(* in.  What the one server has told Redis may not have arrived there when *)
(* the other looks.                                                        *)
(***************************************************************************)
EXTENDS AuthServer, SystemServer

CONSTANTS
  FirstDay,
  MaxRequests,            \* bound: requests to both servers
  InitialTables           \* what the databases may hold to begin with

vars == <<centreVars, authVars, systemVars>>

ASSUME DaysAssumption == FirstDay \in Nat \ {0} /\ MaxDay \in Nat /\ FirstDay <= MaxDay

ASSUME TablesAssumption ==
  \A old \in InitialTables :
    /\ old.uinfo \in Seq(Row) /\ DOMAIN old.uinfo \subseteq Uids
    /\ old.ugame \in {"none", "active", "frozen"}
    /\ \/ old.bonues = NoBonues
       \/ old.bonues \in BonuesRows /\ old.bonues.day <= FirstDay

\* The program has kept the accounts it created apart.
ASSUME AccountsAssumption ==
  \A old \in InitialTables : \A u, v \in DOMAIN old.uinfo :
    u # v => /\ old.uinfo[u].guest_key # old.uinfo[v].guest_key
             /\ old.uinfo[u].uname # NoName => old.uinfo[u].uname # old.uinfo[v].uname

\* Who was there before is in the ranking and in the centre database.
Init ==
  /\ environment \in Environments
  /\ \E old \in InitialTables :
       /\ uinfo = old.uinfo
       /\ ugame = [u \in Uids |-> IF u \in Accounts THEN old.ugame ELSE "none"]
       /\ bonues = [u \in Uids |-> IF u \in Accounts THEN old.bonues ELSE NoBonues]
       /\ rank = {u \in Accounts : old.ugame = "active"} /\ centre = Accounts
  /\ hmset = {} /\ errors = 0
  /\ today = FirstDay
  /\ AuthInit /\ SystemInit

FromUser(u) == GetUgameInfo(u) \/ RecvLoginBonues(u) \/ GetWorldRank(u)

AuthStep ==
  /\ \/ Len(logins) + Len(calls) < MaxRequests /\ AuthRequest
     \/ \E i \in 1..Len(logins) : AuthProgress(i)
  /\ UNCHANGED <<environment, centre, systemVars>>

SystemStep ==
  /\ \/ Len(logins) + Len(calls) < MaxRequests /\ \E u \in logged_in \cap Uids : FromUser(u)
     \/ RankQuery \/ Midnight \/ \E i \in 1..Len(calls) : SystemProgress(i)
  /\ UNCHANGED <<environment, centre, hmset, authVars>>

Next ==
  \/ AuthStep \/ SystemStep
  \/ CentreQuery /\ UNCHANGED <<authVars, systemVars>>

Spec == Init /\ [][Next]_vars

\* Queries are executed and their callbacks run.
Fairness ==
  /\ \A i \in 1..MaxLogins : WF_vars(i <= Len(logins) /\ AuthProgress(i)
                                     /\ UNCHANGED <<environment, centre, systemVars>>)
  /\ \A i \in 1..MaxCalls : WF_vars(i <= Len(calls) /\ SystemProgress(i)
                                    /\ UNCHANGED <<environment, centre, hmset, authVars>>)

FairSpec == Spec /\ Fairness
-----------------------------------------------------------------------------
(* Properties. *)

Overlapping == "overlap" \in environment
Failing == errors > 0

\* Where logins with one key, and upgrades to one name, do not overlap, a guest
\* key has one account, however often a guest logs in, an answer is an error or
\* the account is upgraded meanwhile; and, as long as no query has failed, a name
\* belongs to one account.  (After an error check_uname_exist goes on as if the
\* name were free.)
AccountsDistinct ==
  ~Overlapping =>
    \A u, v \in Accounts :
      u # v => /\ uinfo[u].guest_key # uinfo[v].guest_key
               /\ ~Failing /\ uinfo[u].uname # NoName => uinfo[u].uname # uinfo[v].uname

\* While no query has failed, every user the ranking names has a record in the
\* centre database, or it is on its way: the answer to a login does not wait
\* for it, but follows it.
RankedKnown == ~Failing => rank \cup zadd \subseteq centre \cup hmset

\* What the table says of the bonus of each user.
Issued == [u \in Uids |-> IF bonues[u] = NoBonues THEN 0 ELSE bonues[u].day]
Streak == [u \in Uids |-> IF bonues[u] = NoBonues THEN 0 ELSE bonues[u].days]
Open == [u \in Uids |-> bonues[u] # NoBonues /\ bonues[u].status = 0]

Ledger ==
  INSTANCE BonusLedger
  WITH MaxStreak <- LoginBonues, issued <- Issued, streak <- Streak, open <- Open

\* Where the requests of a user do not overlap, the login bonus is given once a
\* day, for the right day of the streak, and claimed once, across midnight,
\* first logins, failed queries and queries that fail after they took effect.
LedgerImplemented == Ledger!Init /\ [][Overlapping \/ Ledger!Next]_(Ledger!vars)

AnsweredOnce(s, i) == i <= Len(s) /\ Finished(s[i]) /\ s[i].answers = 1

\* Every login, change of profile, request for the game data and claim is
\* answered exactly once: a login or a first request that inserts its row
\* begins again, and not for ever.
RequestsAnswered ==
  /\ \A i \in 1..MaxLogins :
       (i <= Len(logins) /\ logins[i].kind # "upgrade")
         ~> AnsweredOnce(logins, i)
  /\ \A i \in 1..MaxCalls :
       (i <= Len(calls) /\ calls[i].kind # "rank")
         ~> AnsweredOnce(calls, i)
=============================================================================
