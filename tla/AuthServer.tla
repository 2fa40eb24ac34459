----------------------------- MODULE AuthServer -----------------------------
(***************************************************************************)
(* The auth server: guest.lua, uname_login.lua, account_upgrade.lua,       *)
(* edit_profile.lua and login_out.lua over mysql_auth_center.lua.  The     *)
(* statements of several requests reach MySQL in any order, and so do      *)
(* their callbacks; a callback runs to its end before the next one.        *)
(* Nick names, faces and passwords are left out: a password is right or    *)
(* wrong by choice.                                                        *)
(***************************************************************************)
EXTENDS CentreRedis

CONSTANTS
  Keys, Names,            \* guest keys and user names
  NoName,
  MaxLogins               \* bound: requests to the auth server

ASSUME NamesAssumption == NoName \notin Names

VARIABLES
  uinfo,                  \* the table uinfo; a uid is the number of its row
  logged_in,              \* the uids some client got with its login
  logins                  \* the requests, in the order of their arrival

authVars == <<uinfo, logged_in, logins>>

Row == [guest_key : Keys, uname : Names \cup {NoName}, is_guest : BOOLEAN, frozen : BOOLEAN]

Guest(k) == [guest_key |-> k, uname |-> NoName, is_guest |-> TRUE, frozen |-> FALSE]

Accounts == DOMAIN uinfo

\* Who sends a request: a guest by its key, a user by name or number.
ByKey(k) == [key |-> k]
ByName(n) == [name |-> n, uid |-> 0]
ByUid(u, n) == [name |-> n, uid |-> u]

\* A row as its query returns it, and as it was then.
Found(u) == [is |-> "row", uid |-> u, is_guest |-> uinfo[u].is_guest, frozen |-> uinfo[u].frozen]

\* A bug get_guest_uinfo could have: it looks for guests only.
GuestRowsOnly(k) == {u \in Accounts : uinfo[u].guest_key = k /\ uinfo[u].is_guest}

\* get_guest_uinfo: an upgraded account keeps its key.
GuestRows(k) == {u \in Accounts : uinfo[u].guest_key = k}

NameRows(n) == {u \in Accounts : uinfo[u].uname = n}

\* What the database may return to a query, limit 1.
Rows(S) == IF S = {} THEN {Empty} ELSE {Found(u) : u \in S}

AuthReplies(r) ==
  CASE r.query.sql = "get_guest_uinfo" -> Rows(GuestRows(r.who.key))
    [] r.query.sql = "get_uinfo_by_uname_upwd" -> {Empty} \cup Rows(NameRows(r.who.name))
    [] r.query.sql = "check_uname_exist" -> Rows(NameRows(r.who.name))
    [] r.query.sql = "get_uinfo_by_uid" -> Rows({r.who.uid})
    [] OTHER -> {Done}

\* What a statement makes of the table.
UinfoEffect(r) ==
  CASE r.query.sql = "insert_guest_user" -> Append(uinfo, Guest(r.who.key))
    [] r.query.sql = "do_account_upgrade" ->
         [uinfo EXCEPT ![r.who.uid].uname = r.who.name, ![r.who.uid].is_guest = FALSE]
    [] OTHER -> uinfo

\* An error may be reported although the statement took effect.  (That the rows
\* of a query are lost without an error, StoreFails of DbWrapper, is left out.)
AuthQuery(i) ==
  LET r == logins[i]
  IN  /\ ~Finished(r) /\ r.result = Pending
      /\ \/ /\ \E x \in AuthReplies(r) : logins' = [logins EXCEPT ![i].result = x]
            /\ uinfo' = UinfoEffect(r) /\ UNCHANGED errors
         \/ /\ Fails
            /\ logins' = [logins EXCEPT ![i].result = Failed]
            /\ uinfo' \in {uinfo, UinfoEffect(r)}
      /\ UNCHANGED <<logged_in, hmset>>
-----------------------------------------------------------------------------
(* Requests. *)

\* Two logins that look for one key, or upgrades that look for one name, before
\* they write it.
Conflict(r, s) ==
  \/ r.kind = "guest" /\ s.kind = "guest" /\ r.who = s.who
  \/ r.kind = "upgrade" /\ s.kind = "upgrade" /\ r.who.name = s.who.name

\* The answer is sent at once before mysql_connect_to_auth_center has succeeded,
\* to a logout, and to bad parameters, but for those of an upgrade: there
\* Session.send_msg is called without arguments, and the upgrade goes on.
ReceiveAuth(r) ==
  /\ Len(logins) < MaxLogins
  /\ \/ "overlap" \in environment
     \/ \A i \in 1..Len(logins) : ~Finished(logins[i]) => ~Conflict(r, logins[i])
  /\ \/ logins' = Append(logins, r)
     \/ logins' = Append(logins, Ended(r, 1))
  /\ UNCHANGED <<uinfo, logged_in, errors, hmset>>

GuestLogin(k) == ReceiveAuth(Request("guest", ByKey(k), [sql |-> "get_guest_uinfo"]))

UnameLogin(n) == ReceiveAuth(Request("uname", ByName(n), [sql |-> "get_uinfo_by_uname_upwd"]))

EditProfile(u) == ReceiveAuth(Request("edit", ByUid(u, NoName), [sql |-> "edit_profile"]))

Upgrade(u, n) == ReceiveAuth(Request("upgrade", ByUid(u, n), [sql |-> "check_uname_exist"]))
-----------------------------------------------------------------------------
(* The callbacks. *)

AuthContinue(i, r) == logins' = [logins EXCEPT ![i] = r]

AuthStays == UNCHANGED <<uinfo, logged_in, errors, hmset>>

\* A bug the end of a login could have: the record is not written.
LoginOKNotWritten(i) ==
  /\ AuthContinue(i, Ended(logins[i], 1))
  /\ logged_in' = logged_in \cup {logins[i].result.uid}
  /\ UNCHANGED <<uinfo, errors, hmset>>

\* set_uinfo_inredis and the answer OK with the uid.
LoginOK(i) ==
  /\ AuthContinue(i, Ended(logins[i], 1))
  /\ SetUinfo({logins[i].result.uid})
  /\ logged_in' = logged_in \cup {logins[i].result.uid}
  /\ UNCHANGED <<uinfo, errors>>

GuestUinfo(i) ==
  LET r == logins[i]
  IN  /\ Returns(r, "get_guest_uinfo")
      /\ \/ r.result.is = "error" /\ AuthContinue(i, Ended(r, 1)) /\ AuthStays
         \/ /\ r.result.is = "empty"
            /\ AuthContinue(i, Ask(r, [sql |-> "insert_guest_user"])) /\ AuthStays
         \/ /\ r.result.is = "row" /\ (r.result.frozen \/ ~r.result.is_guest)
            /\ AuthContinue(i, Ended(r, 1)) /\ AuthStays
         \/ r.result.is = "row" /\ ~r.result.frozen /\ r.result.is_guest /\ LoginOK(i)

\* A bug the callback of the insert could have: it does not log in again.
InsertedAndDone(i) ==
  LET r == logins[i]
  IN  /\ Returns(r, "insert_guest_user")
      /\ AuthContinue(i, Ended(r, IF r.result = Failed THEN 1 ELSE 0))
      /\ AuthStays

\* After the insert the login begins again.
GuestInserted(i) ==
  LET r == logins[i]
  IN  /\ Returns(r, "insert_guest_user")
      /\ IF r.result = Failed THEN AuthContinue(i, Ended(r, 1))
                              ELSE AuthContinue(i, Ask(r, [sql |-> "get_guest_uinfo"]))
      /\ AuthStays

UinfoByUname(i) ==
  LET r == logins[i]
  IN  /\ Returns(r, "get_uinfo_by_uname_upwd")
      /\ \/ r.result.is \in {"error", "empty"} /\ AuthContinue(i, Ended(r, 1)) /\ AuthStays
         \/ r.result.is = "row" /\ r.result.frozen /\ AuthContinue(i, Ended(r, 1)) /\ AuthStays
         \/ r.result.is = "row" /\ ~r.result.frozen /\ LoginOK(i)

ProfileEdited(i) ==
  /\ Returns(logins[i], "edit_profile")
  /\ AuthContinue(i, Ended(logins[i], 1))
  /\ AuthStays

\* check_uname_exist does not return after it has called the handler: after an
\* error the handler answers, then runs twice more as if the name were free,
\* and two upgrades go on.  A name nobody has is free to the first call; the
\* second call, and that for a name in use, fails at status.Respones, which
\* is an error of the script: no answer.
UnameChecked(i) ==
  LET r == logins[i]
      next == Ask(r, [sql |-> "get_uinfo_by_uid"])
  IN  /\ Returns(r, "check_uname_exist")
      /\ \/ /\ r.result.is = "error"
            /\ logins' = Append([logins EXCEPT ![i] = [next EXCEPT !.answers = @ + 1]],
                                [next EXCEPT !.kind = "upgrade"])
         \/ r.result.is = "empty" /\ AuthContinue(i, next)
         \/ r.result.is = "row" /\ AuthContinue(i, Ended(r, 0))
      /\ AuthStays

\* _check_is_guest: who is no guest is told so, and upgraded nevertheless.
GuestChecked(i) ==
  LET r == logins[i]
      next == Ask(r, [sql |-> "do_account_upgrade"])
  IN  /\ Returns(r, "get_uinfo_by_uid")
      /\ \/ r.result.is = "error" /\ AuthContinue(i, Ended(r, 1))
         \/ /\ r.result.is = "row"
            /\ AuthContinue(i, [next EXCEPT !.answers = IF r.result.is_guest THEN @ ELSE @ + 1])
      /\ AuthStays

\* The message for success is built with status.Respones, too.
Upgraded(i) ==
  LET r == logins[i]
  IN  /\ Returns(r, "do_account_upgrade")
      /\ AuthContinue(i, Ended(r, IF r.result = Failed THEN 1 ELSE 0))
      /\ AuthStays
-----------------------------------------------------------------------------
AuthInit == logged_in = {} /\ logins = <<>>

AuthProgress(i) ==
  \/ AuthQuery(i)
  \/ GuestUinfo(i) \/ GuestInserted(i) \/ UinfoByUname(i) \/ ProfileEdited(i)
  \/ UnameChecked(i) \/ GuestChecked(i) \/ Upgraded(i)

AuthRequest ==
  \/ \E k \in Keys : GuestLogin(k)
  \/ \E n \in Names : UnameLogin(n)
  \/ \E u \in logged_in : EditProfile(u) \/ \E n \in Names : Upgrade(u, n)
=============================================================================
