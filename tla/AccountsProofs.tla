--------------------------- MODULE AccountsProofs ---------------------------
(***************************************************************************)
(* That accounts stay apart, for any number of keys, names and requests,   *)
(* and whatever order the queries are executed in.                         *)
(***************************************************************************)
EXTENDS Services, TLAPS

Results ==
  {Pending, Failed, Empty, Done}
    \cup [is : {"row"}, uid : Nat, is_guest : BOOLEAN, frozen : BOOLEAN]

RequestsOf(kind, who, sqls) ==
  [kind : {kind}, who : who, query : [sql : {"none"} \cup sqls], result : Results, answers : Nat]

Guests == RequestsOf("guest", [key : Keys], {"get_guest_uinfo", "insert_guest_user"})
Named == RequestsOf("uname", [name : Names, uid : {0}], {"get_uinfo_by_uname_upwd"})
Edits == RequestsOf("edit", [name : {NoName}, uid : Nat], {"edit_profile"})
Upgrades ==
  RequestsOf("upgrade", [name : Names, uid : Nat],
             {"check_uname_exist", "get_uinfo_by_uid", "do_account_upgrade"})

Logins == Guests \cup Named \cup Edits \cup Upgrades

\* The accounts a request speaks of exist, and an error it saw has been counted.
Known(r) ==
  /\ r.kind = "upgrade" => r.who.uid \in Accounts
  /\ r.result.is = "row" => r.result.uid \in Accounts
  /\ r.result.is = "error" => Failing

AuthTypeOK ==
  /\ errors \in Nat
  /\ uinfo \in Seq(Row)
  /\ logged_in \subseteq Accounts
  /\ logins \in Seq(Logins)
  /\ \A i \in DOMAIN logins : Known(logins[i])

(***************************************************************************)
(* The inductive invariant.  A request that is about to insert a row, or   *)
(* to write a name, has found the key or the name free, and it still is:   *)
(* no other login with this key, or upgrade to this name, is under way.    *)
(***************************************************************************)
KeyFree(r) ==
  \/ r.query.sql = "get_guest_uinfo" /\ r.result.is = "empty"
  \/ r.query.sql = "insert_guest_user" /\ r.result = Pending
  => GuestRows(r.who.key) = {}

NameFree(r) ==
  \/ r.query.sql = "check_uname_exist" /\ r.result.is = "empty"
  \/ r.query.sql = "get_uinfo_by_uid"
  \/ r.query.sql = "do_account_upgrade" /\ r.result = Pending
  => NameRows(r.who.name) = {}

OneAtATime(kind) ==
  \A i, j \in DOMAIN logins :
    /\ i # j /\ logins[i].kind = kind /\ logins[j].kind = kind
    /\ kind = "guest" => logins[i].who = logins[j].who
    /\ kind = "upgrade" => logins[i].who.name = logins[j].who.name
    => Finished(logins[i]) \/ Finished(logins[j])

KeysDistinct ==
  \A u, v \in Accounts : u # v => uinfo[u].guest_key # uinfo[v].guest_key

NamesDistinct ==
  \A u, v \in Accounts :
    u # v /\ uinfo[u].uname # NoName => uinfo[u].uname # uinfo[v].uname

KeysApart ==
  KeysDistinct /\ OneAtATime("guest") /\ \A i \in DOMAIN logins : KeyFree(logins[i])

NamesApart ==
  NamesDistinct /\ OneAtATime("upgrade") /\ \A i \in DOMAIN logins : NameFree(logins[i])

AInv ==
  /\ AuthTypeOK
  /\ ~Overlapping => KeysApart
  /\ ~Overlapping /\ ~Failing => NamesApart
-----------------------------------------------------------------------------
(* Requests. *)

LEMMA ResultFacts ==
  /\ {Pending, Failed, Empty, Done} \subseteq Results
  /\ Pending.is = "pending" /\ Failed.is = "error" /\ Empty.is = "empty" /\ Done.is = "done"
  /\ Pending # Failed /\ Pending # Empty /\ Pending # Done
  /\ \A x \in Results : x # Pending => x.is \in {"row", "error", "empty", "done"}
  BY DEF Results, Pending, Failed, Empty, Done

LEMMA SqlFinished ==
  ASSUME NEW r \in Logins
  PROVE  Finished(r) <=> r.query.sql = "none"
  BY DEF Logins, Guests, Named, Edits, Upgrades, RequestsOf, Finished, NoQuery

\* Which queries a request of a kind asks.
LEMMA Kinds ==
  ASSUME NEW r \in Logins
  PROVE  /\ r.query.sql \in {"get_guest_uinfo", "insert_guest_user"} => r.kind = "guest"
         /\ r.query.sql \in {"check_uname_exist", "get_uinfo_by_uid", "do_account_upgrade"}
              => r.kind = "upgrade"
         /\ r.kind = "guest" => r.who \in [key : Keys]
         /\ r.kind = "upgrade" => r.who \in [name : Names, uid : Nat]
  BY DEF Logins, Guests, Named, Edits, Upgrades, RequestsOf

LEMMA Answered ==
  ASSUME NEW r \in Logins, NEW x \in Results
  PROVE  LET s == [r EXCEPT !.result = x]
         IN  /\ s \in Logins /\ s.kind = r.kind /\ s.who = r.who /\ s.query = r.query
             /\ s.result = x
  BY DEF Logins, Guests, Named, Edits, Upgrades, RequestsOf

\* A request that asks query q next, or none, after n answers.
Continued(r, q, n) == [r EXCEPT !.query = q, !.result = Pending, !.answers = r.answers + n]

LEMMA ContinuedFacts ==
  ASSUME NEW r \in Logins, NEW q, NEW n \in Nat,
         \/ q = NoQuery
         \/ r.kind = "guest" /\ q \in [sql : {"get_guest_uinfo", "insert_guest_user"}]
         \/ r.kind = "upgrade" /\ q \in [sql : {"get_uinfo_by_uid", "do_account_upgrade"}]
  PROVE  LET s == Continued(r, q, n)
         IN  /\ s \in Logins /\ s.kind = r.kind /\ s.who = r.who
             /\ s.query = q /\ s.result = Pending /\ s.answers = r.answers + n
<1> DEFINE m == r.answers + n
<1>1. m \in Nat
  BY DEF Logins, Guests, Named, Edits, Upgrades, RequestsOf
<1>2. Pending \in Results
  BY ResultFacts
<1>3. Continued(r, q, n) = [r EXCEPT !.query = q, !.result = Pending, !.answers = m]
  BY DEF Continued
<1>4. NoQuery \in [sql : {"none"}]
  BY DEF NoQuery
<1> HIDE DEF m, Pending, NoQuery
<1>5. ASSUME NEW kind, NEW who, NEW sqls, r \in RequestsOf(kind, who, sqls),
             q \in [sql : {"none"} \cup sqls]
      PROVE  LET s == [r EXCEPT !.query = q, !.result = Pending, !.answers = m]
             IN  /\ s \in RequestsOf(kind, who, sqls) /\ s.kind = r.kind /\ s.who = r.who
                 /\ s.query = q /\ s.result = Pending /\ s.answers = m
  BY <1>1, <1>2, <1>5 DEF RequestsOf
<1>6. CASE r \in Guests
  <2>1. q \in [sql : {"none"} \cup {"get_guest_uinfo", "insert_guest_user"}]
    <3>1. r.kind = "guest"
      BY <1>6 DEF Guests, RequestsOf
    <3> QED
      BY <3>1, <1>4
  <2> QED
    BY <1>3, <1>5, <1>6, <2>1 DEF Guests, Logins, m
<1>7. CASE r \in Upgrades
  <2>1. q \in [sql : {"none"} \cup {"check_uname_exist", "get_uinfo_by_uid",
                                    "do_account_upgrade"}]
    <3>1. r.kind = "upgrade"
      BY <1>7 DEF Upgrades, RequestsOf
    <3> QED
      BY <3>1, <1>4
  <2> QED
    BY <1>3, <1>5, <1>7, <2>1 DEF Upgrades, Logins, m
<1>8. CASE r \in Named
  <2>1. q \in [sql : {"none"} \cup {"get_uinfo_by_uname_upwd"}]
    <3>1. r.kind = "uname"
      BY <1>8 DEF Named, RequestsOf
    <3> QED
      BY <3>1, <1>4
  <2> QED
    BY <1>3, <1>5, <1>8, <2>1 DEF Named, Logins, m
<1>9. CASE r \in Edits
  <2>1. q \in [sql : {"none"} \cup {"edit_profile"}]
    <3>1. r.kind = "edit"
      BY <1>9 DEF Edits, RequestsOf
    <3> QED
      BY <3>1, <1>4
  <2> QED
    BY <1>3, <1>5, <1>9, <2>1 DEF Edits, Logins, m
<1> QED
  BY <1>6, <1>7, <1>8, <1>9 DEF Logins

LEMMA EndedContinued ==
  ASSUME NEW r \in Logins, NEW n \in Nat
  PROVE  Ended(r, n) = Continued(r, NoQuery, n)
  BY DEF Ended, Continued, Logins, Guests, Named, Edits, Upgrades, RequestsOf

LEMMA AskContinued ==
  ASSUME NEW r \in Logins, NEW q
  PROVE  Ask(r, q) = Continued(r, q, 0)
<1> DEFINE m == r.answers + 0
<1>1. m = r.answers
  BY DEF Logins, Guests, Named, Edits, Upgrades, RequestsOf
<1>2. Continued(r, q, 0) = [r EXCEPT !.query = q, !.result = Pending, !.answers = m]
  BY DEF Continued
<1> HIDE DEF m
<1>3. DOMAIN r = {"kind", "who", "query", "result", "answers"}
      /\ r = [f \in DOMAIN r |-> r[f]]
  BY DEF Logins, Guests, Named, Edits, Upgrades, RequestsOf
<1> QED
  BY <1>1, <1>2, <1>3 DEF Ask

LEMMA Appended ==
  ASSUME NEW S, NEW s \in Seq(S), NEW e \in S
  PROVE  /\ Append(s, e) \in Seq(S)
         /\ DOMAIN Append(s, e) = DOMAIN s \cup {Len(s) + 1}
         /\ DOMAIN s = 1..Len(s) /\ Len(s) \in Nat
         /\ \A i \in DOMAIN s : Append(s, e)[i] = s[i]
         /\ Append(s, e)[Len(s) + 1] = e
  OBVIOUS

LEMMA Replaced ==
  ASSUME NEW S, NEW s \in Seq(S), NEW i \in DOMAIN s, NEW e \in S
  PROVE  /\ [s EXCEPT ![i] = e] \in Seq(S)
         /\ DOMAIN [s EXCEPT ![i] = e] = DOMAIN s
         /\ \A j \in DOMAIN s : [s EXCEPT ![i] = e][j] = IF j = i THEN e ELSE s[j]
  OBVIOUS
-----------------------------------------------------------------------------
(* Callbacks. *)

\* A callback that asks a query for which nothing is promised, or none, or one whose
\* promise holds, keeps the accounts apart.
LEMMA CallbackKeeps ==
  ASSUME AInv, NEW i \in DOMAIN logins, ~Finished(logins[i]),
         NEW r \in Logins, r.kind = logins[i].kind, r.who = logins[i].who, r.result = Pending,
         ~Overlapping => KeyFree(r),
         ~Overlapping /\ ~Failing => NameFree(r),
         logins' = [logins EXCEPT ![i] = r],
         logged_in' \subseteq Accounts, UNCHANGED <<environment, errors, uinfo>>
  PROVE  AInv'
<1>1. /\ logins \in Seq(Logins) /\ logins' \in Seq(Logins)
      /\ DOMAIN logins' = DOMAIN logins
      /\ \A j \in DOMAIN logins : logins'[j] = IF j = i THEN r ELSE logins[j]
  BY Replaced DEF AInv, AuthTypeOK
<1>2. /\ Failing' = Failing /\ Overlapping' = Overlapping /\ Accounts' = Accounts
      /\ KeysDistinct' = KeysDistinct /\ NamesDistinct' = NamesDistinct
  BY DEF Failing, Overlapping, Accounts, KeysDistinct, NamesDistinct
<1>3. ASSUME NEW j \in DOMAIN logins
      PROVE  Known(logins[j])'
  <2>1. CASE j = i
    <3>1. (logins'[j]).kind = logins[i].kind /\ (logins'[j]).who = logins[i].who
          /\ (logins'[j]).result.is = "pending"
      BY <1>1, <2>1, ResultFacts
    <3>2. Known(logins[i])
      BY DEF AInv, AuthTypeOK
    <3> QED
      BY <3>1, <3>2, <1>2 DEF Known
  <2>2. CASE j # i
    <3>1. logins'[j] = logins[j] /\ Known(logins[j])
      BY <1>1, <2>2 DEF AInv, AuthTypeOK
    <3> QED
      BY <3>1, <1>2 DEF Known
  <2> QED
    BY <2>1, <2>2
<1>4. ASSUME NEW kind, OneAtATime(kind)
      PROVE  OneAtATime(kind)'
  BY <1>1, <1>4 DEF OneAtATime
<1>5. ASSUME ~Overlapping, NEW j \in DOMAIN logins
      PROVE  KeyFree(logins[j])'
  <2>1. KeyFree(logins'[j])
    BY <1>1, <1>5 DEF AInv, KeysApart
  <2> QED
    BY <2>1 DEF KeyFree, GuestRows, Accounts
<1>6. ASSUME ~Overlapping, ~Failing, NEW j \in DOMAIN logins
      PROVE  NameFree(logins[j])'
  <2>1. NameFree(logins'[j])
    BY <1>1, <1>6 DEF AInv, NamesApart
  <2> QED
    BY <2>1 DEF NameFree, NameRows, Accounts
<1>7. AuthTypeOK'
  BY <1>1, <1>2, <1>3 DEF AInv, AuthTypeOK
<1>8. ~Overlapping => KeysApart'
  BY <1>1, <1>2, <1>4, <1>5 DEF AInv, KeysApart
<1>9. ~Overlapping /\ ~Failing => NamesApart'
  BY <1>1, <1>2, <1>4, <1>6 DEF AInv, NamesApart
<1> QED
  BY <1>2, <1>7, <1>8, <1>9 DEF AInv

\* A request that has been answered for good.
LEMMA EndKeeps ==
  ASSUME AInv, NEW i \in DOMAIN logins, ~Finished(logins[i]), NEW n \in Nat,
         AuthContinue(i, Ended(logins[i], n)),
         logged_in' \subseteq Accounts, UNCHANGED <<environment, errors, uinfo>>
  PROVE  AInv'
<1> DEFINE r == Ended(logins[i], n)
<1>1. logins[i] \in Logins
  BY DEF AInv, AuthTypeOK
<1>2. /\ r \in Logins /\ r.kind = logins[i].kind /\ r.who = logins[i].who
      /\ r.query = NoQuery /\ r.result = Pending
  BY <1>1, ContinuedFacts, EndedContinued
<1>3. KeyFree(r) /\ NameFree(r)
  BY <1>2 DEF KeyFree, NameFree, NoQuery
<1>4. logins' = [logins EXCEPT ![i] = r]
  BY DEF AuthContinue
<1> HIDE DEF r
<1> QED
  BY <1>2, <1>3, <1>4, CallbackKeeps

LEMMA StaysFacts ==
  ASSUME AInv, AuthStays
  PROVE  logged_in' \subseteq Accounts /\ UNCHANGED <<errors, uinfo>>
  BY DEF AuthStays, AInv, AuthTypeOK

LEMMA Running ==
  ASSUME NEW r, NEW sql, Returns(r, sql), sql # "none"
  PROVE  ~Finished(r)
  BY DEF Returns, Finished, NoQuery

LEMMA LoginOKKeeps ==
  ASSUME AInv, NEW i \in DOMAIN logins, ~Finished(logins[i]), logins[i].result.is = "row",
         LoginOK(i), UNCHANGED environment
  PROVE  AInv'
<1>1. logged_in' \subseteq Accounts /\ UNCHANGED <<errors, uinfo>>
  BY DEF LoginOK, AInv, AuthTypeOK, Known
<1> QED
  BY <1>1, EndKeeps DEF LoginOK

LEMMA GuestUinfoKeeps ==
  ASSUME AInv, NEW i \in DOMAIN logins, GuestUinfo(i), UNCHANGED environment
  PROVE  AInv'
<1> DEFINE r == logins[i]
           q == [sql |-> "insert_guest_user"]
<1>1. r \in Logins /\ ~Finished(r) /\ r.query.sql = "get_guest_uinfo"
  BY Running DEF AInv, AuthTypeOK, GuestUinfo, Returns
<1>2. CASE AuthContinue(i, Ended(r, 1)) /\ AuthStays
  BY <1>1, <1>2, EndKeeps, StaysFacts
<1>3. CASE r.result.is = "row" /\ LoginOK(i)
  BY <1>1, <1>3, LoginOKKeeps
<1>4. CASE r.result.is = "empty" /\ AuthContinue(i, Ask(r, q)) /\ AuthStays
  <2>1. r.kind = "guest"
    BY <1>1, Kinds
  <2>2. q \in [sql : {"get_guest_uinfo", "insert_guest_user"}]
    OBVIOUS
  <2> DEFINE s == Ask(r, q)
  <2>3. s \in Logins /\ s.kind = r.kind /\ s.who = r.who /\ s.query = q /\ s.result = Pending
    <3> HIDE DEF q, r
    <3> QED
      BY <1>1, <2>1, <2>2, ContinuedFacts, AskContinued
  <2>4. ~Overlapping => KeyFree(s)
    BY <1>1, <1>4, <2>3 DEF AInv, KeysApart, KeyFree
  <2>5. NameFree(s)
    BY <2>3 DEF NameFree
  <2>6. logins' = [logins EXCEPT ![i] = s]
    BY <1>4 DEF AuthContinue
  <2> HIDE DEF s
  <2> QED
    BY <1>1, <1>4, <2>3, <2>4, <2>5, <2>6, CallbackKeeps, StaysFacts
<1> QED
  BY <1>2, <1>3, <1>4 DEF GuestUinfo

LEMMA GuestInsertedKeeps ==
  ASSUME AInv, NEW i \in DOMAIN logins, GuestInserted(i), UNCHANGED environment
  PROVE  AInv'
<1> DEFINE r == logins[i]
           q == [sql |-> "get_guest_uinfo"]
<1>1. r \in Logins /\ ~Finished(r) /\ r.query.sql = "insert_guest_user" /\ AuthStays
  BY Running DEF AInv, AuthTypeOK, GuestInserted, Returns
<1>2. CASE AuthContinue(i, Ended(r, 1))
  BY <1>1, <1>2, EndKeeps, StaysFacts
<1>3. CASE AuthContinue(i, Ask(r, q))
  <2>1. r.kind = "guest"
    BY <1>1, Kinds
  <2>2. q \in [sql : {"get_guest_uinfo", "insert_guest_user"}]
    OBVIOUS
  <2> DEFINE s == Ask(r, q)
  <2>3. s \in Logins /\ s.kind = r.kind /\ s.who = r.who /\ s.query = q /\ s.result = Pending
    <3> HIDE DEF q, r
    <3> QED
      BY <1>1, <2>1, <2>2, ContinuedFacts, AskContinued
  <2>4. s.query.sql = "get_guest_uinfo" /\ s.result.is = "pending"
    BY <2>3, ResultFacts
  <2>5. KeyFree(s) /\ NameFree(s)
    BY <2>4 DEF KeyFree, NameFree
  <2>6. logins' = [logins EXCEPT ![i] = s]
    BY <1>3 DEF AuthContinue
  <2> HIDE DEF s
  <2> QED
    BY <1>1, <2>3, <2>5, <2>6, CallbackKeeps, StaysFacts
<1> QED
  BY <1>2, <1>3 DEF GuestInserted

LEMMA UnameKeeps ==
  ASSUME AInv, NEW i \in DOMAIN logins, UNCHANGED environment,
         UinfoByUname(i) \/ ProfileEdited(i) \/ Upgraded(i)
  PROVE  AInv'
<1>1. ~Finished(logins[i])
  BY Running DEF UinfoByUname, ProfileEdited, Upgraded
<1>2. CASE AuthStays /\ \E n \in Nat : AuthContinue(i, Ended(logins[i], n))
  BY <1>1, <1>2, EndKeeps, StaysFacts
<1>3. CASE logins[i].result.is = "row" /\ LoginOK(i)
  BY <1>1, <1>3, LoginOKKeeps
<1> QED
  BY <1>2, <1>3 DEF UinfoByUname, ProfileEdited, Upgraded

\* The second call of the handler after an error is another request to upgrade the
\* account; an error has been counted, so that nothing is promised of names.
LEMMA UnameErrorKeeps ==
  ASSUME AInv, NEW i \in DOMAIN logins, UNCHANGED environment, AuthStays, Failing,
         NEW r \in Logins, r.kind = "upgrade", r.who = logins[i].who, r.result = Pending,
         NEW s \in Logins, s.kind = "upgrade", s.who = logins[i].who, s.result = Pending,
         logins[i].kind = "upgrade",
         logins' = Append([logins EXCEPT ![i] = r], s)
  PROVE  AInv'
<1> DEFINE t == [logins EXCEPT ![i] = r]
           n == Len(t) + 1
<1>1. /\ logins \in Seq(Logins) /\ t \in Seq(Logins)
      /\ DOMAIN t = DOMAIN logins
      /\ \A j \in DOMAIN logins : t[j] = IF j = i THEN r ELSE logins[j]
  BY Replaced DEF AInv, AuthTypeOK
<1>2. logins' = Append(t, s)
  OBVIOUS
<1> HIDE DEF t
<1>3. /\ logins' \in Seq(Logins)
      /\ DOMAIN logins' = DOMAIN logins \cup {n}
      /\ \A j \in DOMAIN logins : logins'[j] = IF j = i THEN r ELSE logins[j]
      /\ logins'[n] = s /\ n \notin DOMAIN logins
  BY <1>1, <1>2, Appended
<1> HIDE DEF n
<1>4. logged_in' \subseteq Accounts' /\ errors' \in Nat /\ uinfo' \in Seq(Row)
      /\ Failing' /\ Overlapping' = Overlapping /\ Accounts' = Accounts
      /\ KeysDistinct' = KeysDistinct
  BY StaysFacts DEF AuthStays, AInv, AuthTypeOK, Failing, Overlapping, Accounts, KeysDistinct
<1>5. Known(logins[i]) /\ logins[i].who.uid \in Accounts
  BY DEF AInv, AuthTypeOK, Known
<1>6. Known(r)' /\ Known(s)'
  BY <1>4, <1>5, ResultFacts DEF Known
<1>7. ASSUME NEW j \in (DOMAIN logins)'
      PROVE  Known(logins[j])'
  <2>1. CASE logins'[j] \in {r, s}
    BY <1>6, <2>1 DEF Known
  <2>2. CASE j \in DOMAIN logins /\ logins'[j] = logins[j]
    BY <1>4, <2>2 DEF Known, AInv, AuthTypeOK
  <2> QED
    BY <1>3, <2>1, <2>2
<1>8. AuthTypeOK'
  BY <1>3, <1>4, <1>7 DEF AuthTypeOK
<1>9. ASSUME ~Overlapping
      PROVE  KeysApart'
  <2>1. KeysDistinct /\ OneAtATime("guest") /\ \A j \in DOMAIN logins : KeyFree(logins[j])
    BY <1>9 DEF AInv, KeysApart
  <2>2. OneAtATime("guest")'
    BY <1>3, <2>1 DEF OneAtATime
  <2>3. KeyFree(r) /\ KeyFree(s)
    BY Kinds, ResultFacts DEF KeyFree
  <2>4. ASSUME NEW j \in (DOMAIN logins)'
        PROVE  KeyFree(logins[j])'
    <3>1. KeyFree(logins'[j])
      BY <1>3, <2>1, <2>3
    <3> QED
      BY <3>1 DEF AuthStays, KeyFree, GuestRows, Accounts
  <2> QED
    BY <1>4, <2>1, <2>2, <2>4 DEF KeysApart
<1> QED
  BY <1>4, <1>8, <1>9 DEF AInv

LEMMA UnameCheckedKeeps ==
  ASSUME AInv, NEW i \in DOMAIN logins, UnameChecked(i), UNCHANGED environment
  PROVE  AInv'
<1> DEFINE r == logins[i]
           q == [sql |-> "get_uinfo_by_uid"]
<1>1. r \in Logins /\ ~Finished(r) /\ r.query.sql = "check_uname_exist" /\ AuthStays
  BY Running DEF AInv, AuthTypeOK, UnameChecked, Returns
<1>2. r.kind = "upgrade"
  BY <1>1, Kinds
<1>3. q \in [sql : {"get_uinfo_by_uid", "do_account_upgrade"}]
  OBVIOUS
<1>4. ASSUME NEW m \in Nat
      PROVE  LET s == Continued(r, q, m)
             IN  /\ s \in Logins /\ s.kind = r.kind /\ s.who = r.who
                 /\ s.query = q /\ s.result = Pending
  <2> HIDE DEF r, q
  <2> QED
    BY <1>1, <1>2, <1>3, ContinuedFacts
<1>5. Ask(r, q) = Continued(r, q, 0)
  <2> HIDE DEF r, q
  <2> QED
    BY <1>1, AskContinued
<1>6. CASE AuthContinue(i, Ended(r, 0))
  BY <1>1, <1>6, EndKeeps, StaysFacts
<1>7. CASE r.result.is = "empty" /\ AuthContinue(i, Ask(r, q))
  <2> DEFINE s == Ask(r, q)
  <2>1. s \in Logins /\ s.kind = r.kind /\ s.who = r.who /\ s.query = q /\ s.result = Pending
    BY <1>4, <1>5
  <2>2. KeyFree(s)
    BY <2>1 DEF KeyFree
  <2>3. ~Overlapping /\ ~Failing => NameFree(s)
    BY <1>1, <1>7, <2>1 DEF AInv, NamesApart, NameFree
  <2>4. logins' = [logins EXCEPT ![i] = s]
    BY <1>7 DEF AuthContinue
  <2> HIDE DEF s
  <2> QED
    BY <1>1, <2>1, <2>2, <2>3, <2>4, CallbackKeeps, StaysFacts
<1>8. CASE /\ r.result.is = "error"
           /\ logins' = Append([logins EXCEPT ![i] = [Ask(r, q) EXCEPT !.answers = @ + 1]],
                               [Ask(r, q) EXCEPT !.kind = "upgrade"])
  <2> DEFINE s == Ask(r, q)
             a == [s EXCEPT !.answers = @ + 1]
             b == [s EXCEPT !.kind = "upgrade"]
  <2>1. s \in Logins /\ s.kind = r.kind /\ s.who = r.who /\ s.query = q /\ s.result = Pending
    BY <1>4, <1>5
  <2>2. s \in Upgrades
    BY <1>2, <2>1 DEF Logins, Guests, Named, Edits, Upgrades, RequestsOf
  <2>3. a \in Upgrades /\ a.who = s.who /\ a.result = s.result /\ a.kind = "upgrade"
    <3> HIDE DEF s
    <3> QED
      BY <2>2 DEF Upgrades, RequestsOf
  <2>4. b \in Upgrades /\ b.who = s.who /\ b.result = s.result /\ b.kind = "upgrade"
    <3> HIDE DEF s
    <3> QED
      BY <2>2 DEF Upgrades, RequestsOf
  <2>5. logins' = Append([logins EXCEPT ![i] = a], b)
    BY <1>8
  <2>6. Failing
    BY <1>8 DEF AInv, AuthTypeOK, Known
  <2>7. a \in Logins /\ b \in Logins /\ a.who = r.who /\ b.who = r.who
        /\ a.result = Pending /\ b.result = Pending
    BY <2>1, <2>3, <2>4 DEF Logins
  <2> HIDE DEF a, b, s
  <2> QED
    BY <1>1, <1>2, <2>3, <2>4, <2>5, <2>6, <2>7, UnameErrorKeeps
<1> QED
  BY <1>6, <1>7, <1>8 DEF UnameChecked

LEMMA GuestCheckedKeeps ==
  ASSUME AInv, NEW i \in DOMAIN logins, GuestChecked(i), UNCHANGED environment
  PROVE  AInv'
<1> DEFINE r == logins[i]
           q == [sql |-> "do_account_upgrade"]
           a == [Ask(r, q) EXCEPT !.answers = IF r.result.is_guest THEN @ ELSE @ + 1]
<1>1. r \in Logins /\ ~Finished(r) /\ r.query.sql = "get_uinfo_by_uid" /\ AuthStays
  BY Running DEF AInv, AuthTypeOK, GuestChecked, Returns
<1>2. CASE AuthContinue(i, Ended(r, 1))
  BY <1>1, <1>2, EndKeeps, StaysFacts
<1>3. CASE AuthContinue(i, a)
  <2> DEFINE s == Ask(r, q)
  <2>1. r.kind = "upgrade"
    BY <1>1, Kinds
  <2>2. q \in [sql : {"get_uinfo_by_uid", "do_account_upgrade"}]
    OBVIOUS
  <2>3. s \in Logins /\ s.kind = r.kind /\ s.who = r.who /\ s.query = q /\ s.result = Pending
    <3> HIDE DEF q, r
    <3> QED
      BY <1>1, <2>1, <2>2, ContinuedFacts, AskContinued
  <2>4. s \in Upgrades
    BY <2>1, <2>3 DEF Logins, Guests, Named, Edits, Upgrades, RequestsOf
  <2>5. a = [s EXCEPT !.answers = IF r.result.is_guest THEN @ ELSE @ + 1]
    OBVIOUS
  <2> HIDE DEF s, a
  <2>6. a \in Upgrades /\ a.who = s.who /\ a.kind = s.kind /\ a.query = s.query
        /\ a.result = s.result
    BY <2>4, <2>5 DEF Upgrades, RequestsOf
  <2>7. KeyFree(a)
    BY <2>3, <2>6 DEF KeyFree
  <2>8. ~Overlapping /\ ~Failing => NameFree(a)
    BY <1>1, <2>3, <2>6 DEF AInv, NamesApart, NameFree
  <2>9. logins' = [logins EXCEPT ![i] = a] /\ a \in Logins
    BY <1>3, <2>6 DEF AuthContinue, Logins
  <2> QED
    BY <1>1, <2>3, <2>6, <2>7, <2>8, <2>9, CallbackKeeps, StaysFacts
<1> QED
  BY <1>2, <1>3 DEF GuestChecked
-----------------------------------------------------------------------------
(* Requests arrive, and statements are executed. *)

LEMMA ReceiveKeeps ==
  ASSUME AInv, NEW r \in Logins, ReceiveAuth(r), UNCHANGED environment, r.result = Pending,
         r.kind = "upgrade" => r.who.uid \in Accounts,
         r.query.sql \notin {"insert_guest_user", "get_uinfo_by_uid", "do_account_upgrade"}
  PROVE  AInv'
<1>1. PICK s \in Logins :
        /\ logins' = Append(logins, s) /\ s.kind = r.kind /\ s.who = r.who
        /\ s.result = Pending /\ s.query \in {r.query, NoQuery}
  <2> DEFINE e == Continued(r, NoQuery, 1)
  <2>1. e \in Logins /\ e.kind = r.kind /\ e.who = r.who /\ e.query = NoQuery
        /\ e.result = Pending
    BY ContinuedFacts
  <2>2. Ended(r, 1) = e
    BY EndedContinued
  <2>3. logins' \in {Append(logins, r), Append(logins, e)}
    BY <2>2 DEF ReceiveAuth
  <2> HIDE DEF e
  <2> QED
    BY <2>1, <2>3
<1> DEFINE n == Len(logins) + 1
<1>2. logins \in Seq(Logins)
  BY DEF AInv, AuthTypeOK
<1>3. /\ logins' \in Seq(Logins) /\ DOMAIN logins = 1..Len(logins)
      /\ DOMAIN logins' = DOMAIN logins \cup {n}
      /\ \A j \in DOMAIN logins : logins'[j] = logins[j]
      /\ logins'[n] = s /\ n \notin DOMAIN logins
  BY <1>1, <1>2, Appended
<1> HIDE DEF n
<1>4. /\ Failing' = Failing /\ Overlapping' = Overlapping /\ Accounts' = Accounts
      /\ KeysDistinct' = KeysDistinct /\ NamesDistinct' = NamesDistinct
      /\ UNCHANGED <<errors, uinfo, logged_in>>
  BY DEF ReceiveAuth, Failing, Overlapping, Accounts, KeysDistinct, NamesDistinct
<1>5. KeyFree(s) /\ NameFree(s)
  BY <1>1, ResultFacts DEF KeyFree, NameFree, NoQuery
<1>6. AuthTypeOK'
  <2>1. ASSUME NEW j \in (DOMAIN logins)'
        PROVE  Known(logins[j])'
    <3>1. CASE j = n
      BY <1>1, <1>3, <1>4, <3>1, ResultFacts DEF Known
    <3>2. CASE j \in DOMAIN logins
      BY <1>3, <1>4, <3>2 DEF Known, AInv, AuthTypeOK
    <3> QED
      BY <1>3, <3>1, <3>2
  <2> QED
    BY <1>3, <1>4, <2>1 DEF AInv, AuthTypeOK
<1>7. ASSUME NEW kind \in {"guest", "upgrade"}, ~Overlapping, OneAtATime(kind)
      PROVE  OneAtATime(kind)'
  <2>1. \A j \in DOMAIN logins : ~Finished(logins[j]) => ~Conflict(r, logins[j])
    BY <1>3, <1>7 DEF ReceiveAuth, Overlapping
  <2>2. ASSUME NEW j \in DOMAIN logins, logins[j].kind = kind, s.kind = kind,
               kind = "guest" => logins[j].who = s.who,
               kind = "upgrade" => logins[j].who.name = s.who.name
        PROVE  Finished(logins[j])
    BY <1>1, <1>7, <2>1, <2>2 DEF Conflict
  <2> QED
    BY <1>3, <1>7, <2>2 DEF OneAtATime
<1>8. ASSUME ~Overlapping
      PROVE  KeysApart'
  <2>1. KeysDistinct /\ OneAtATime("guest") /\ \A j \in DOMAIN logins : KeyFree(logins[j])
    BY <1>8 DEF AInv, KeysApart
  <2>2. ASSUME NEW j \in (DOMAIN logins)'
        PROVE  KeyFree(logins[j])'
    <3>1. KeyFree(logins'[j])
      BY <1>3, <1>5, <2>1
    <3> QED
      BY <1>4, <3>1 DEF KeyFree, GuestRows, Accounts
  <2>3. OneAtATime("guest")'
    BY <1>7, <1>8, <2>1
  <2> QED
    BY <1>4, <2>1, <2>2, <2>3 DEF KeysApart
<1>9. ASSUME ~Overlapping, ~Failing
      PROVE  NamesApart'
  <2>1. NamesDistinct /\ OneAtATime("upgrade") /\ \A j \in DOMAIN logins : NameFree(logins[j])
    BY <1>9 DEF AInv, NamesApart
  <2>2. ASSUME NEW j \in (DOMAIN logins)'
        PROVE  NameFree(logins[j])'
    <3>1. NameFree(logins'[j])
      BY <1>3, <1>5, <2>1
    <3> QED
      BY <1>4, <3>1 DEF NameFree, NameRows, Accounts
  <2>3. OneAtATime("upgrade")'
    BY <1>7, <1>9, <2>1
  <2> QED
    BY <1>4, <2>1, <2>2, <2>3 DEF NamesApart
<1> QED
  BY <1>4, <1>6, <1>8, <1>9 DEF AInv

LEMMA AuthRequestKeeps ==
  ASSUME AInv, AuthRequest, UNCHANGED environment
  PROVE  AInv'
<1>1. Accounts \subseteq Nat /\ logged_in \subseteq Accounts
  BY DEF AInv, AuthTypeOK, Accounts
<1>2. Pending \in Results
  BY ResultFacts
<1>3. ASSUME NEW k \in Keys, GuestLogin(k)
      PROVE  AInv'
  <2> DEFINE r == Request("guest", ByKey(k), [sql |-> "get_guest_uinfo"])
  <2>1. r \in Logins /\ r.kind = "guest" /\ r.result = Pending
        /\ r.query.sql = "get_guest_uinfo"
    BY <1>2 DEF Request, ByKey, Logins, Guests, RequestsOf
  <2>2. ReceiveAuth(r)
    BY <1>3 DEF GuestLogin
  <2> HIDE DEF r
  <2> QED
    BY <2>1, <2>2, ReceiveKeeps
<1>4. ASSUME NEW n \in Names, UnameLogin(n)
      PROVE  AInv'
  <2> DEFINE r == Request("uname", ByName(n), [sql |-> "get_uinfo_by_uname_upwd"])
  <2>1. r \in Logins /\ r.kind = "uname" /\ r.result = Pending
        /\ r.query.sql = "get_uinfo_by_uname_upwd"
    BY <1>2 DEF Request, ByName, Logins, Named, RequestsOf
  <2>2. ReceiveAuth(r)
    BY <1>4 DEF UnameLogin
  <2> HIDE DEF r
  <2> QED
    BY <2>1, <2>2, ReceiveKeeps
<1>5. ASSUME NEW u \in logged_in, EditProfile(u)
      PROVE  AInv'
  <2> DEFINE r == Request("edit", ByUid(u, NoName), [sql |-> "edit_profile"])
  <2>1. r \in Logins /\ r.kind = "edit" /\ r.result = Pending
        /\ r.query.sql = "edit_profile"
    BY <1>1, <1>2 DEF Request, ByUid, Logins, Edits, RequestsOf
  <2>2. ReceiveAuth(r)
    BY <1>5 DEF EditProfile
  <2> HIDE DEF r
  <2> QED
    BY <2>1, <2>2, ReceiveKeeps
<1>6. ASSUME NEW u \in logged_in, NEW n \in Names, Upgrade(u, n)
      PROVE  AInv'
  <2> DEFINE r == Request("upgrade", ByUid(u, n), [sql |-> "check_uname_exist"])
  <2>1. r \in Logins /\ r.kind = "upgrade" /\ r.result = Pending
        /\ r.query.sql = "check_uname_exist" /\ r.who.uid = u
    BY <1>1, <1>2 DEF Request, ByUid, Logins, Upgrades, RequestsOf
  <2>2. ReceiveAuth(r) /\ u \in Accounts
    BY <1>1, <1>6 DEF Upgrade
  <2> HIDE DEF r
  <2> QED
    BY <2>1, <2>2, ReceiveKeeps
<1> QED
  BY <1>3, <1>4, <1>5, <1>6 DEF AuthRequest

LEMMA RepliesFacts ==
  ASSUME AuthTypeOK, NEW r \in Logins, Known(r), NEW x \in AuthReplies(r)
  PROVE  /\ x \in Results /\ x # Pending /\ x.is # "error"
         /\ x.is = "row" => x.uid \in Accounts
         /\ r.query.sql = "get_guest_uinfo" /\ x.is = "empty" => GuestRows(r.who.key) = {}
         /\ r.query.sql = "check_uname_exist" /\ x.is = "empty" => NameRows(r.who.name) = {}
<1>1. ASSUME NEW u \in Accounts
      PROVE  /\ Found(u) \in Results /\ Found(u) # Pending /\ Found(u).is = "row"
             /\ Found(u).uid \in Accounts
  <2>1. uinfo[u] \in Row /\ u \in Nat
    BY DEF AuthTypeOK, Accounts
  <2> QED
    BY <2>1 DEF Row, Found, Results, Pending
<1>2. ASSUME NEW S \in SUBSET Accounts, NEW y \in Rows(S)
      PROVE  /\ y \in Results /\ y # Pending /\ y.is # "error"
             /\ y.is = "row" => y.uid \in Accounts
             /\ y.is = "empty" => S = {}
  <2>1. CASE S = {} /\ y = Empty
    BY <2>1, ResultFacts
  <2>2. CASE \E u \in S : y = Found(u)
    BY <1>1, <2>2
  <2> QED
    BY <2>1, <2>2 DEF Rows
<1>3. CASE r.query.sql = "get_guest_uinfo"
  <2>1. x \in Rows(GuestRows(r.who.key)) /\ GuestRows(r.who.key) \subseteq Accounts
    BY <1>3 DEF AuthReplies, GuestRows
  <2> QED
    BY <1>2, <1>3, <2>1
<1>4. CASE r.query.sql = "get_uinfo_by_uname_upwd"
  <2>1. x \in {Empty} \cup Rows(NameRows(r.who.name)) /\ NameRows(r.who.name) \subseteq Accounts
    BY <1>4 DEF AuthReplies, NameRows
  <2> QED
    BY <1>2, <1>4, <2>1, ResultFacts
<1>5. CASE r.query.sql = "check_uname_exist"
  <2>1. x \in Rows(NameRows(r.who.name)) /\ NameRows(r.who.name) \subseteq Accounts
    BY <1>5 DEF AuthReplies, NameRows
  <2> QED
    BY <1>2, <1>5, <2>1
<1>6. CASE r.query.sql = "get_uinfo_by_uid"
  <2>1. x \in Rows({r.who.uid})
    BY <1>6 DEF AuthReplies
  <2>2. r.who.uid \in Accounts
    BY <1>6, Kinds DEF Known
  <2> QED
    BY <1>2, <1>6, <2>1, <2>2
<1>7. CASE r.query.sql \in {"none", "insert_guest_user", "edit_profile", "do_account_upgrade"}
  BY <1>7, ResultFacts DEF AuthReplies
<1> QED
  BY <1>3, <1>4, <1>5, <1>6, <1>7 DEF Logins, Guests, Named, Edits, Upgrades, RequestsOf

\* What becomes of the table: a row more, a row with another name, or nothing.
Inserts(r) == /\ r.query.sql = "insert_guest_user"
              /\ uinfo' = Append(uinfo, Guest(r.who.key))

Renames(r) ==
  /\ r.query.sql = "do_account_upgrade"
  /\ uinfo' = [uinfo EXCEPT ![r.who.uid].uname = r.who.name, ![r.who.uid].is_guest = FALSE]

LEMMA EffectFacts ==
  ASSUME AuthTypeOK, NEW r \in Logins, Known(r), uinfo' \in {uinfo, UinfoEffect(r)}
  PROVE  UNCHANGED uinfo \/ Inserts(r) \/ Renames(r)
  BY DEF UinfoEffect, Inserts, Renames

LEMMA InsertFacts ==
  ASSUME AuthTypeOK, NEW r \in Logins, Inserts(r)
  PROVE  /\ uinfo' \in Seq(Row)
         /\ Accounts' = Accounts \cup {Len(uinfo) + 1} /\ Len(uinfo) + 1 \notin Accounts
         /\ \A u \in Accounts : uinfo'[u] = uinfo[u]
         /\ uinfo'[Len(uinfo) + 1].guest_key = r.who.key
         /\ uinfo'[Len(uinfo) + 1].uname = NoName
<1>1. Guest(r.who.key) \in Row /\ Guest(r.who.key).guest_key = r.who.key
      /\ Guest(r.who.key).uname = NoName
  BY Kinds DEF Inserts, Guest, Row
<1> QED
  BY <1>1, Appended DEF Inserts, AuthTypeOK, Accounts

LEMMA RenameFacts ==
  ASSUME AuthTypeOK, NEW r \in Logins, Known(r), Renames(r)
  PROVE  /\ uinfo' \in Seq(Row) /\ Accounts' = Accounts
         /\ r.who.uid \in Accounts /\ r.who.name \in Names
         /\ \A u \in Accounts :
              /\ uinfo'[u].guest_key = uinfo[u].guest_key
              /\ uinfo'[u].uname = IF u = r.who.uid THEN r.who.name ELSE uinfo[u].uname
<1>1. r.who.uid \in Accounts /\ r.who.name \in Names
  BY Kinds DEF Renames, Known
<1> DEFINE v == r.who.uid
           e == [uinfo[v] EXCEPT !.uname = r.who.name, !.is_guest = FALSE]
<1>2. uinfo' = [uinfo EXCEPT ![v] = e]
  BY <1>1 DEF Renames, Accounts, AuthTypeOK
<1>3. uinfo[v] \in Row
  BY <1>1 DEF AuthTypeOK, Accounts
<1>4. e \in Row /\ e.guest_key = uinfo[v].guest_key /\ e.uname = r.who.name
  BY <1>1, <1>3 DEF Row
<1> HIDE DEF e
<1> QED
  BY <1>1, <1>2, <1>4, Replaced DEF AuthTypeOK, Accounts

\* What a request that has been answered by its query still relies on.
LEMMA AnswerFree ==
  ASSUME AuthTypeOK, NEW r \in Logins, Known(r), r.result = Pending,
         NEW x \in AuthReplies(r) \cup {Failed},
         NEW t, t.query = r.query, t.who = r.who, t.result = x
  PROVE  KeyFree(t) /\ (NameFree(r) => NameFree(t))
<1>1. x # Pending
  BY RepliesFacts, ResultFacts
<1>2. t.query.sql = "get_guest_uinfo" /\ t.result.is = "empty" => GuestRows(t.who.key) = {}
  BY RepliesFacts, ResultFacts
<1>3. t.query.sql = "check_uname_exist" /\ t.result.is = "empty" => NameRows(t.who.name) = {}
  BY RepliesFacts, ResultFacts
<1> QED
  BY <1>1, <1>2, <1>3 DEF KeyFree, NameFree

LEMMA QueryKeeps ==
  ASSUME AInv, NEW i \in DOMAIN logins, AuthQuery(i), UNCHANGED environment
  PROVE  AInv'
<1> DEFINE r == logins[i]
<1>1. /\ logins \in Seq(Logins) /\ r \in Logins /\ Known(r) /\ AuthTypeOK
      /\ ~Finished(r) /\ r.result = Pending /\ UNCHANGED logged_in
  BY DEF AInv, AuthTypeOK, AuthQuery
<1>2. PICK x \in AuthReplies(r) \cup {Failed} :
        /\ logins' = [logins EXCEPT ![i].result = x]
        /\ uinfo' \in {uinfo, UinfoEffect(r)}
        /\ \/ errors' = errors /\ x \in AuthReplies(r)
           \/ errors' = errors + 1
  BY DEF AuthQuery, Fails
<1>3. UNCHANGED uinfo \/ Inserts(r) \/ Renames(r)
  BY <1>1, <1>2, EffectFacts
<1> DEFINE t == [r EXCEPT !.result = x]
<1>4. x \in Results
  BY <1>1, RepliesFacts, ResultFacts
<1>5. /\ t \in Logins /\ t.kind = r.kind /\ t.who = r.who /\ t.query = r.query
      /\ t.result = x
  <2> HIDE DEF r
  <2> QED
    BY <1>1, <1>4, Answered
<1>6. logins' = [logins EXCEPT ![i] = t]
  BY <1>1, <1>2
<1> HIDE DEF t
<1>7. /\ logins' \in Seq(Logins) /\ DOMAIN logins' = DOMAIN logins
      /\ \A j \in DOMAIN logins : logins'[j] = IF j = i THEN t ELSE logins[j]
  BY <1>1, <1>5, <1>6, Replaced
<1>8. /\ errors' \in Nat /\ (Failing => Failing') /\ Overlapping' = Overlapping
      /\ ~Failing' => x \in AuthReplies(r)
      /\ x.is = "error" => Failing'
  BY <1>1, <1>2, RepliesFacts DEF Failing, Overlapping, AuthTypeOK
<1>9. /\ uinfo' \in Seq(Row) /\ Accounts \subseteq Accounts'
  BY <1>1, <1>3, InsertFacts, RenameFacts DEF AuthTypeOK, Accounts
<1>10. AuthTypeOK'
  <2>1. ASSUME NEW j \in DOMAIN logins
        PROVE  Known(logins[j])'
    <3>1. Known(logins[j])
      BY DEF AInv, AuthTypeOK
    <3>2. CASE j = i
      <4>1. t.kind = "upgrade" => t.who.uid \in Accounts'
        BY <1>1, <1>5, <1>9 DEF Known
      <4>2. t.result.is = "row" => t.result.uid \in Accounts'
        BY <1>1, <1>5, <1>9, RepliesFacts, ResultFacts
      <4>3. logins'[j] = t
        BY <1>7, <3>2
      <4> QED
        BY <4>1, <4>2, <4>3, <1>5, <1>8 DEF Known
    <3>3. CASE j # i
      <4>1. logins'[j] = logins[j]
        BY <1>7, <3>3
      <4> QED
        BY <4>1, <3>1, <1>8, <1>9 DEF Known
    <3> QED
      BY <3>2, <3>3
  <2>2. logged_in' \subseteq Accounts'
    BY <1>1, <1>9 DEF AuthTypeOK
  <2> QED
    BY <1>7, <1>8, <1>9, <2>1, <2>2 DEF AuthTypeOK
<1>11. ASSUME NEW kind, OneAtATime(kind)
       PROVE  OneAtATime(kind)'
  <2>1. Finished(t) <=> Finished(r)
    BY <1>5 DEF Finished
  <2> QED
    BY <1>5, <1>7, <1>11, <2>1 DEF OneAtATime, Finished
<1>12. ASSUME ~Overlapping
       PROVE  KeysApart'
  <2>1. KeysDistinct /\ OneAtATime("guest") /\ \A j \in DOMAIN logins : KeyFree(logins[j])
    BY <1>12 DEF AInv, KeysApart
  <2>2. ASSUME NEW j \in DOMAIN logins
        PROVE  KeyFree(logins'[j])
    BY <1>1, <1>2, <1>5, <1>7, <2>1, AnswerFree
  <2>3. CASE UNCHANGED uinfo \/ Renames(r)
    <3>1. /\ Accounts' = Accounts
          /\ \A u \in Accounts : uinfo'[u].guest_key = uinfo[u].guest_key
      BY <1>1, <2>3, RenameFacts DEF Accounts
    <3>2. KeysDistinct'
      BY <2>1, <3>1 DEF KeysDistinct
    <3>3. ASSUME NEW j \in DOMAIN logins
          PROVE  KeyFree(logins[j])'
      BY <2>2, <3>1 DEF KeyFree, GuestRows
    <3> QED
      BY <1>7, <1>11, <2>1, <3>2, <3>3 DEF KeysApart
  <2>4. CASE Inserts(r)
    <3> DEFINE n == Len(uinfo) + 1
    <3>1. /\ Accounts' = Accounts \cup {n} /\ n \notin Accounts
          /\ \A u \in Accounts : uinfo'[u] = uinfo[u]
          /\ uinfo'[n].guest_key = r.who.key
      BY <1>1, <2>4, InsertFacts
    <3> HIDE DEF n
    <3>2. GuestRows(r.who.key) = {}
      BY <1>1, <2>1, <2>4 DEF KeyFree, Inserts
    <3>3. KeysDistinct'
      BY <2>1, <3>1, <3>2 DEF KeysDistinct, GuestRows
    <3>4. ASSUME NEW j \in DOMAIN logins
          PROVE  KeyFree(logins[j])'
      <4>1. CASE j = i
        BY <1>5, <1>7, <2>4, <4>1, RepliesFacts, <1>1, ResultFacts DEF KeyFree, Inserts
      <4>2. CASE j # i
        <5>1. logins'[j] = logins[j] /\ logins[j] \in Logins
          BY <1>1, <1>7, <4>2
        <5>2. CASE logins[j].who.key # r.who.key
          BY <2>2, <3>1, <5>1, <5>2 DEF KeyFree, GuestRows
        <5>3. CASE logins[j].who.key = r.who.key /\ logins[j].kind = "guest"
          <6>1. r.kind = "guest" /\ r.who \in [key : Keys] /\ logins[j].who \in [key : Keys]
            BY <1>1, <2>4, <5>1, <5>3, Kinds DEF Inserts
          <6>2. r.who = logins[j].who
            BY <5>3, <6>1
          <6>3. Finished(logins[j])
            BY <1>1, <2>1, <4>2, <5>3, <6>1, <6>2 DEF OneAtATime
          <6> QED
            BY <5>1, <6>3 DEF Finished, NoQuery, KeyFree
        <5>4. CASE logins[j].kind # "guest"
          BY <5>1, <5>4, Kinds DEF KeyFree
        <5> QED
          BY <5>2, <5>3, <5>4
      <4> QED
        BY <4>1, <4>2
    <3> QED
      BY <1>7, <1>11, <2>1, <3>3, <3>4 DEF KeysApart
  <2> QED
    BY <1>3, <2>3, <2>4
<1>13. ASSUME ~Overlapping, ~Failing'
       PROVE  NamesApart'
  <2>1. NamesDistinct /\ OneAtATime("upgrade") /\ \A j \in DOMAIN logins : NameFree(logins[j])
    BY <1>8, <1>13 DEF AInv, NamesApart
  <2>2. ASSUME NEW j \in DOMAIN logins
        PROVE  NameFree(logins'[j])
    BY <1>1, <1>2, <1>5, <1>7, <2>1, AnswerFree
  <2>3. CASE UNCHANGED uinfo
    <3>1. NamesDistinct' /\ \A j \in DOMAIN logins : NameFree(logins[j])'
      BY <2>1, <2>2, <2>3 DEF NamesDistinct, NameFree, NameRows, Accounts
    <3> QED
      BY <1>7, <1>11, <2>1, <3>1 DEF NamesApart
  <2>4. CASE Inserts(r)
    <3> DEFINE n == Len(uinfo) + 1
    <3>1. /\ Accounts' = Accounts \cup {n} /\ n \notin Accounts
          /\ \A u \in Accounts : uinfo'[u] = uinfo[u]
          /\ uinfo'[n].uname = NoName
      BY <1>1, <2>4, InsertFacts
    <3> HIDE DEF n
    <3>2. NamesDistinct'
      BY <2>1, <3>1 DEF NamesDistinct
    <3>3. ASSUME NEW j \in DOMAIN logins
          PROVE  NameFree(logins[j])'
      <4>1. logins'[j] \in Logins
        BY <1>7
      <4>2. CASE logins'[j].kind = "upgrade"
        <5>1. logins'[j].who.name # NoName
          BY <4>1, <4>2, Kinds, NamesAssumption
        <5> QED
          BY <2>2, <3>1, <5>1 DEF NameFree, NameRows
      <4>3. CASE logins'[j].kind # "upgrade"
        BY <4>1, <4>3, Kinds DEF NameFree
      <4> QED
        BY <4>2, <4>3
    <3> QED
      BY <1>7, <1>11, <2>1, <3>2, <3>3 DEF NamesApart
  <2>5. CASE Renames(r)
    <3>1. /\ Accounts' = Accounts /\ r.who.uid \in Accounts /\ r.who.name \in Names
          /\ \A u \in Accounts :
               uinfo'[u].uname = IF u = r.who.uid THEN r.who.name ELSE uinfo[u].uname
      BY <1>1, <2>5, RenameFacts
    <3>2. NameRows(r.who.name) = {}
      BY <1>1, <2>1, <2>5 DEF NameFree, Renames
    <3>3. NamesDistinct'
      BY <2>1, <3>1, <3>2 DEF NamesDistinct, NameRows
    <3>4. ASSUME NEW j \in DOMAIN logins
          PROVE  NameFree(logins[j])'
      <4>1. CASE j = i
        BY <1>1, <1>5, <1>7, <2>5, <4>1, RepliesFacts, ResultFacts DEF NameFree, Renames
      <4>2. CASE j # i
        <5>1. logins'[j] = logins[j] /\ logins[j] \in Logins
          BY <1>1, <1>7, <4>2
        <5>2. CASE logins[j].kind = "upgrade" /\ logins[j].who.name = r.who.name
          <6>1. r.kind = "upgrade"
            BY <1>1, <2>5, Kinds DEF Renames
          <6>2. Finished(logins[j])
            BY <1>1, <2>1, <4>2, <5>2, <6>1 DEF OneAtATime
          <6> QED
            BY <5>1, <6>2 DEF Finished, NoQuery, NameFree
        <5>3. CASE logins[j].kind # "upgrade"
          BY <5>1, <5>3, Kinds DEF NameFree
        <5>4. CASE logins[j].who.name # r.who.name
          BY <2>2, <3>1, <5>1, <5>4 DEF NameFree, NameRows
        <5> QED
          BY <5>2, <5>3, <5>4
      <4> QED
        BY <4>1, <4>2
    <3> QED
      BY <1>7, <1>11, <2>1, <3>3, <3>4 DEF NamesApart
  <2> QED
    BY <1>3, <2>3, <2>4, <2>5
<1> QED
  BY <1>8, <1>10, <1>12, <1>13 DEF AInv
-----------------------------------------------------------------------------
(* The invariant. *)

\* The other server, and Redis, only count errors.
LEMMA OthersKeep ==
  ASSUME AInv, UNCHANGED <<environment, authVars>>, errors' \in Nat, errors' >= errors
  PROVE  AInv'
<1>1. /\ Overlapping' = Overlapping /\ (Failing => Failing')
  BY DEF Overlapping, Failing, AInv, AuthTypeOK
<1>2. AuthTypeOK'
  BY <1>1 DEF AInv, AuthTypeOK, Known, Accounts, authVars
<1>3. KeysApart => KeysApart'
  BY DEF KeysApart, KeysDistinct, OneAtATime, KeyFree, GuestRows, Accounts, authVars
<1>4. NamesApart => NamesApart'
  BY DEF NamesApart, NamesDistinct, OneAtATime, NameFree, NameRows, Accounts, authVars
<1> QED
  BY <1>1, <1>2, <1>3, <1>4 DEF AInv

LEMMA AccountsInit == Init => AInv
<1> SUFFICES ASSUME Init
             PROVE  AInv
  OBVIOUS
<1>1. PICK old \in InitialTables : uinfo = old.uinfo
  BY DEF Init
<1>2. /\ uinfo \in Seq(Row) /\ errors = 0 /\ logged_in = {} /\ logins = <<>>
      /\ DOMAIN logins = {}
  BY <1>1, TablesAssumption DEF Init, AuthInit
<1>3. KeysDistinct /\ NamesDistinct
  BY <1>1, AccountsAssumption DEF KeysDistinct, NamesDistinct, Accounts
<1>4. AuthTypeOK
  BY <1>2 DEF AuthTypeOK
<1> QED
  BY <1>2, <1>3, <1>4 DEF AInv, KeysApart, NamesApart, OneAtATime

LEMMA AccountsStep == AInv /\ [Next]_vars => AInv'
<1> SUFFICES ASSUME AInv, [Next]_vars
             PROVE  AInv'
  OBVIOUS
<1>1. errors \in Nat /\ logins \in Seq(Logins)
  BY DEF AInv, AuthTypeOK
<1>2. CASE AuthStep
  <2>1. UNCHANGED environment
    BY <1>2 DEF AuthStep
  <2>2. CASE AuthRequest
    BY <2>1, <2>2, AuthRequestKeeps
  <2>3. ASSUME NEW i \in 1..Len(logins), AuthProgress(i)
        PROVE  AInv'
    <3>1. i \in DOMAIN logins
      BY <1>1
    <3>2. CASE AuthQuery(i)
      BY <2>1, <3>1, <3>2, QueryKeeps
    <3>3. CASE GuestUinfo(i)
      BY <2>1, <3>1, <3>3, GuestUinfoKeeps
    <3>4. CASE GuestInserted(i)
      BY <2>1, <3>1, <3>4, GuestInsertedKeeps
    <3>5. CASE UinfoByUname(i) \/ ProfileEdited(i) \/ Upgraded(i)
      BY <2>1, <3>1, <3>5, UnameKeeps
    <3>6. CASE UnameChecked(i)
      BY <2>1, <3>1, <3>6, UnameCheckedKeeps
    <3>7. CASE GuestChecked(i)
      BY <2>1, <3>1, <3>7, GuestCheckedKeeps
    <3> QED
      BY <2>3, <3>2, <3>3, <3>4, <3>5, <3>6, <3>7 DEF AuthProgress
  <2> QED
    BY <1>2, <2>2, <2>3 DEF AuthStep
<1>3. CASE SystemStep
  <2>1. UNCHANGED <<environment, authVars>>
    BY <1>3 DEF SystemStep
  <2>2. errors' \in {errors, errors + 1}
    <3>1. CASE \E u \in Uids : FromUser(u)
      BY <3>1 DEF FromUser, GetUgameInfo, RecvLoginBonues, GetWorldRank, ReceiveSystem
    <3>2. CASE RankQuery \/ Midnight
      BY <3>2 DEF RankQuery, Midnight, Fails
    <3>3. CASE \E i \in 1..Len(calls) : SystemProgress(i)
      <4>1. PICK i \in 1..Len(calls) : SystemProgress(i)
        BY <3>3
      <4>2. CASE SystemQuery(i)
        BY <4>2 DEF SystemQuery, Fails
      <4>3. CASE ~SystemQuery(i)
        BY <4>1, <4>3
        DEF SystemProgress, SystemStays, UgameInfo, UgameInserted, CheckLoginBonues,
            BonuesInserted, BonuesUpdated, ClaimChecked, Claimed, WorldRank, RankUserInfo,
            RankUgameInfo
      <4> QED
        BY <4>2, <4>3
    <3> QED
      BY <1>3, <3>1, <3>2, <3>3 DEF SystemStep
  <2> QED
    BY <1>1, <2>1, <2>2, OthersKeep
<1>4. CASE CentreQuery /\ UNCHANGED <<authVars, systemVars>>
  <2>1. errors' \in {errors, errors + 1} /\ UNCHANGED environment
    BY <1>4 DEF CentreQuery, Fails
  <2> QED
    BY <1>1, <1>4, <2>1, OthersKeep
<1>5. CASE UNCHANGED vars
  BY <1>1, <1>5, OthersKeep DEF vars, centreVars
<1> QED
  BY <1>2, <1>3, <1>4, <1>5 DEF Next

LEMMA AccountsInvariance == Spec => []AInv
BY AccountsInit, AccountsStep, PTL DEF Spec
-----------------------------------------------------------------------------
(* The theorems. *)

\* Every request asks only the queries of its kind, whoever has logged in has an
\* account, the account a request is about to upgrade exists, and no error is
\* reported without one being counted: mysql_auth_center.lua and its callers.
THEOREM AuthTypeCorrect == Spec => []AuthTypeOK
<1>1. AInv => AuthTypeOK
  BY DEF AInv
<1> QED
  BY <1>1, AccountsInvariance, PTL

\* Where logins with one key, and upgrades to one name, do not overlap, a guest
\* key has one account, and, until a query fails, so has a name: guest.lua and
\* account_upgrade.lua, for any accounts to begin with that are apart.
THEOREM AccountsKeptApart == Spec => []AccountsDistinct
<1>1. AInv => AccountsDistinct
  BY DEF AInv, KeysApart, NamesApart, KeysDistinct, NamesDistinct, AccountsDistinct
<1> QED
  BY <1>1, AccountsInvariance, PTL
-----------------------------------------------------------------------------
(***************************************************************************)
(* Answers.  A login, or a change of a profile, is answered when it asks   *)
(* no further query; an upgrade may be answered more than once, or never.  *)
(***************************************************************************)
Once(kind, query, answers) ==
  kind # "upgrade" => answers = IF query = NoQuery THEN 1 ELSE 0

\* The results the callback of a query has a branch for.
Expected(query, x) ==
  /\ query.sql \in {"get_guest_uinfo", "get_uinfo_by_uname_upwd", "check_uname_exist",
                    "get_uinfo_by_uid"} => x.is # "done"
  /\ query.sql = "get_uinfo_by_uid" => x.is # "empty"

OnTrack(r) == Once(r.kind, r.query, r.answers) /\ Expected(r.query, r.result)

\* The inductive invariant.
LoginsOnTrack == \A i \in DOMAIN logins : OnTrack(logins[i])

\* A step of a request that keeps it on its track, and may begin another one.
Moves(i) ==
  \E r \in Logins :
    /\ OnTrack(logins[i]) => OnTrack(r)
    /\ \/ logins' = [logins EXCEPT ![i] = r]
       \/ \E s \in Logins : OnTrack(s) /\ logins' = Append([logins EXCEPT ![i] = r], s)

LEMMA PendingExpected ==
  ASSUME NEW q PROVE Expected(q, Pending)
  BY ResultFacts DEF Expected

LEMMA EndMoves ==
  ASSUME AInv, NEW i \in DOMAIN logins, NEW n \in Nat, ~Finished(logins[i]),
         logins[i].kind = "upgrade" \/ n = 1,
         AuthContinue(i, Ended(logins[i], n))
  PROVE  Moves(i)
<1> DEFINE r == logins[i]
           s == Continued(r, NoQuery, n)
<1>1. r \in Logins /\ r.answers \in Nat
  BY DEF AInv, AuthTypeOK, Logins, Guests, Named, Edits, Upgrades, RequestsOf
<1>2. /\ s \in Logins /\ s.kind = r.kind /\ s.query = NoQuery /\ s.result = Pending
      /\ s.answers = r.answers + n
  <2> HIDE DEF r
  <2> QED
    BY <1>1, ContinuedFacts
<1>3. logins' = [logins EXCEPT ![i] = s]
  BY <1>1, EndedContinued DEF AuthContinue
<1> HIDE DEF s
<1>4. OnTrack(r) => OnTrack(s)
  BY <1>1, <1>2, PendingExpected DEF OnTrack, Once, Finished
<1> QED
  BY <1>2, <1>3, <1>4 DEF Moves

LEMMA AskMoves ==
  ASSUME AInv, NEW i \in DOMAIN logins, ~Finished(logins[i]), NEW q, q # NoQuery,
         \/ logins[i].kind = "guest" /\ q \in [sql : {"get_guest_uinfo", "insert_guest_user"}]
         \/ /\ logins[i].kind = "upgrade"
            /\ q \in [sql : {"get_uinfo_by_uid", "do_account_upgrade"}],
         AuthContinue(i, Ask(logins[i], q))
  PROVE  Moves(i)
<1> DEFINE r == logins[i]
           s == Continued(r, q, 0)
<1>1. r \in Logins /\ r.answers \in Nat
  BY DEF AInv, AuthTypeOK, Logins, Guests, Named, Edits, Upgrades, RequestsOf
<1>2. /\ s \in Logins /\ s.kind = r.kind /\ s.query = q /\ s.result = Pending
      /\ s.answers = r.answers + 0
  BY <1>1, ContinuedFacts
<1>3. logins' = [logins EXCEPT ![i] = s]
  BY <1>1, AskContinued DEF AuthContinue
<1> HIDE DEF s
<1>4. OnTrack(r) => OnTrack(s)
  BY <1>1, <1>2, PendingExpected DEF OnTrack, Once, Finished
<1> QED
  BY <1>2, <1>3, <1>4 DEF Moves

\* An upgrade that goes on after it has sent an answer.
LEMMA UpgradeOnTrack ==
  ASSUME NEW r \in Logins, r.kind = "upgrade", NEW q \in [sql : {"get_uinfo_by_uid",
                                                               "do_account_upgrade"}]
  PROVE  LET s == Ask(r, q)
             a == [s EXCEPT !.answers = @ + 1]
             b == [s EXCEPT !.kind = "upgrade"]
         IN  /\ s \in Logins /\ OnTrack(s)
             /\ a \in Logins /\ OnTrack(a)
             /\ b \in Logins /\ OnTrack(b)
<1> DEFINE s == Ask(r, q)
           a == [s EXCEPT !.answers = @ + 1]
           b == [s EXCEPT !.kind = "upgrade"]
<1>1. s \in Logins /\ s.kind = "upgrade" /\ s.result = Pending
  BY ContinuedFacts, AskContinued
<1>2. s \in Upgrades
  BY <1>1 DEF Logins, Guests, Named, Edits, Upgrades, RequestsOf
<1> HIDE DEF s
<1>3. /\ a \in Upgrades /\ a.kind = "upgrade" /\ a.result = s.result
      /\ b \in Upgrades /\ b.kind = "upgrade" /\ b.result = s.result
  BY <1>2 DEF Upgrades, RequestsOf
<1> HIDE DEF a, b
<1>4. /\ s \in Logins /\ OnTrack(s)
      /\ a \in Logins /\ OnTrack(a)
      /\ b \in Logins /\ OnTrack(b)
  BY <1>1, <1>3, PendingExpected DEF OnTrack, Once, Logins
<1> QED
  BY <1>4 DEF a, b, s

LEMMA CallbackMoves ==
  ASSUME AInv, NEW i \in DOMAIN logins, AuthProgress(i), ~AuthQuery(i)
  PROVE  Moves(i)
<1> DEFINE c == logins[i]
<1>1. c \in Logins
  BY DEF AInv, AuthTypeOK
<1>2. \A s \in {"get_guest_uinfo", "insert_guest_user", "get_uinfo_by_uid",
                "do_account_upgrade"} : [sql |-> s] # NoQuery
  <2>1. \A s : [sql |-> s].sql = s
    OBVIOUS
  <2> QED
    BY <2>1 DEF NoQuery
<1>3. CASE GuestUinfo(i)
  <2>1. ~Finished(c) /\ c.query.sql = "get_guest_uinfo"
    BY <1>3, Running DEF GuestUinfo, Returns
  <2>2. c.kind = "guest"
    BY <1>1, <2>1, Kinds
  <2>3. CASE AuthContinue(i, Ended(c, 1))
    BY <2>1, <2>3, EndMoves
  <2>4. CASE AuthContinue(i, Ask(c, [sql |-> "insert_guest_user"]))
    BY <1>2, <2>1, <2>2, <2>4, AskMoves
  <2> QED
    BY <1>3, <2>3, <2>4 DEF GuestUinfo, LoginOK
<1>4. CASE GuestInserted(i)
  <2>1. ~Finished(c) /\ c.query.sql = "insert_guest_user"
    BY <1>4, Running DEF GuestInserted, Returns
  <2>2. c.kind = "guest"
    BY <1>1, <2>1, Kinds
  <2>3. CASE AuthContinue(i, Ended(c, 1))
    BY <2>1, <2>3, EndMoves
  <2>4. CASE AuthContinue(i, Ask(c, [sql |-> "get_guest_uinfo"]))
    BY <1>2, <2>1, <2>2, <2>4, AskMoves
  <2> QED
    BY <1>4, <2>3, <2>4 DEF GuestInserted
<1>5. CASE UinfoByUname(i) \/ ProfileEdited(i)
  <2>1. ~Finished(c) /\ AuthContinue(i, Ended(c, 1))
    BY <1>5, Running DEF UinfoByUname, ProfileEdited, LoginOK
  <2> QED
    BY <2>1, EndMoves
<1>6. CASE Upgraded(i)
  <2>1. ~Finished(c) /\ c.query.sql = "do_account_upgrade"
    BY <1>6, Running DEF Upgraded, Returns
  <2>2. c.kind = "upgrade"
    BY <1>1, <2>1, Kinds
  <2>3. \E n \in Nat : AuthContinue(i, Ended(c, n))
    BY <1>6 DEF Upgraded
  <2> QED
    BY <2>1, <2>2, <2>3, EndMoves
<1>7. CASE UnameChecked(i)
  <2> DEFINE q == [sql |-> "get_uinfo_by_uid"]
             s == Ask(c, q)
             a == [s EXCEPT !.answers = @ + 1]
             b == [s EXCEPT !.kind = "upgrade"]
  <2>1. ~Finished(c) /\ c.query.sql = "check_uname_exist"
    BY <1>7, Running DEF UnameChecked, Returns
  <2>2. c.kind = "upgrade"
    BY <1>1, <2>1, Kinds
  <2>3. q \in [sql : {"get_uinfo_by_uid", "do_account_upgrade"}] /\ q # NoQuery
    BY <1>2
  <2>4. CASE AuthContinue(i, Ended(c, 0))
    BY <2>1, <2>2, <2>4, EndMoves
  <2>5. CASE AuthContinue(i, s)
    <3> HIDE DEF q
    <3> QED
      BY <2>1, <2>2, <2>3, <2>5, AskMoves
  <2>6. CASE logins' = Append([logins EXCEPT ![i] = a], b)
    <3>1. a \in Logins /\ OnTrack(a) /\ b \in Logins /\ OnTrack(b)
      <4> HIDE DEF q, c
      <4> QED
        BY <1>1, <2>2, <2>3, UpgradeOnTrack
    <3> HIDE DEF a, b
    <3> QED
      BY <2>6, <3>1 DEF Moves
  <2> QED
    BY <1>7, <2>4, <2>5, <2>6 DEF UnameChecked
<1>8. CASE GuestChecked(i)
  <2> DEFINE q == [sql |-> "do_account_upgrade"]
             s == Ask(c, q)
             a == [s EXCEPT !.answers = @ + 1]
             e == [s EXCEPT !.answers = IF c.result.is_guest THEN @ ELSE @ + 1]
  <2>1. ~Finished(c) /\ c.query.sql = "get_uinfo_by_uid"
    BY <1>8, Running DEF GuestChecked, Returns
  <2>2. c.kind = "upgrade"
    BY <1>1, <2>1, Kinds
  <2>3. q \in [sql : {"get_uinfo_by_uid", "do_account_upgrade"}] /\ q # NoQuery
    BY <1>2
  <2>4. CASE AuthContinue(i, Ended(c, 1))
    BY <2>1, <2>4, EndMoves
  <2>5. CASE AuthContinue(i, e)
    <3>1. s \in Logins /\ OnTrack(s) /\ a \in Logins /\ OnTrack(a)
      <4> HIDE DEF q, c
      <4> QED
        BY <1>1, <2>2, <2>3, UpgradeOnTrack
    <3>2. [s EXCEPT !.answers = @] = s
      <4> HIDE DEF s
      <4> QED
        BY <3>1 DEF Logins, Guests, Named, Edits, Upgrades, RequestsOf
    <3>3. e \in {s, a}
      <4>1. CASE c.result.is_guest
        BY <3>2, <4>1
      <4>2. CASE ~c.result.is_guest
        BY <4>2
      <4> QED
        BY <4>1, <4>2
    <3>4. logins' = [logins EXCEPT ![i] = e]
      BY <2>5 DEF AuthContinue
    <3> HIDE DEF s, a, e
    <3> QED
      BY <3>1, <3>3, <3>4 DEF Moves
  <2> QED
    BY <1>8, <2>4, <2>5 DEF GuestChecked
<1> QED
  BY <1>3, <1>4, <1>5, <1>6, <1>7, <1>8 DEF AuthProgress

LEMMA LoginRepliesExpected ==
  ASSUME AInv, NEW r \in Logins, Known(r), NEW x \in AuthReplies(r)
  PROVE  Expected(r.query, x)
<1>1. ASSUME NEW S, NEW y \in Rows(S)
      PROVE  y.is \in {"row", "empty"} /\ (y.is = "empty" => S = {})
  <2>1. CASE S = {}
    BY <1>1, <2>1, ResultFacts DEF Rows
  <2>2. CASE S # {}
    BY <1>1, <2>2 DEF Rows, Found
  <2> QED
    BY <2>1, <2>2
<1>2. CASE r.query.sql = "get_guest_uinfo"
  BY <1>1, <1>2 DEF AuthReplies, Expected
<1>3. CASE r.query.sql = "get_uinfo_by_uname_upwd"
  <2>1. x = Empty \/ x \in Rows(NameRows(r.who.name))
    BY <1>3 DEF AuthReplies
  <2> QED
    BY <1>1, <1>3, <2>1, ResultFacts DEF Expected
<1>4. CASE r.query.sql = "check_uname_exist"
  BY <1>1, <1>4 DEF AuthReplies, Expected
<1>5. CASE r.query.sql = "get_uinfo_by_uid"
  <2>1. x \in Rows({r.who.uid}) /\ {r.who.uid} # {}
    BY <1>5 DEF AuthReplies
  <2> QED
    BY <1>1, <1>5, <2>1 DEF Expected
<1> QED
  BY <1>2, <1>3, <1>4, <1>5 DEF Expected

LEMMA QueryMoves ==
  ASSUME AInv, NEW i \in DOMAIN logins, AuthQuery(i)
  PROVE  Moves(i)
<1> DEFINE c == logins[i]
<1>1. c \in Logins /\ Known(c) /\ logins \in Seq(Logins)
  BY DEF AInv, AuthTypeOK
<1>2. PICK x \in AuthReplies(c) \cup {Failed} : logins' = [logins EXCEPT ![i].result = x]
  BY DEF AuthQuery
<1>3. x \in Results /\ Expected(c.query, x)
  <2>1. CASE x = Failed
    BY <2>1, ResultFacts DEF Expected
  <2>2. CASE x \in AuthReplies(c)
    <3> HIDE DEF c
    <3> QED
      BY <1>1, <2>2, RepliesFacts, LoginRepliesExpected DEF AInv
  <2> QED
    BY <1>2, <2>1, <2>2
<1> DEFINE r == [c EXCEPT !.result = x]
<1>4. /\ r \in Logins /\ r.kind = c.kind /\ r.query = c.query /\ r.result = x
      /\ r.answers = c.answers
  <2>1. r.answers = c.answers
    BY <1>1 DEF Logins, Guests, Named, Edits, Upgrades, RequestsOf
  <2>2. r \in Logins /\ r.kind = c.kind /\ r.query = c.query /\ r.result = x
    <3> HIDE DEF c
    <3> QED
      BY <1>1, <1>3, Answered
  <2> QED
    BY <2>1, <2>2
<1>5. logins' = [logins EXCEPT ![i] = r]
  BY <1>1, <1>2
<1> HIDE DEF r
<1>6. OnTrack(c) => OnTrack(r)
  BY <1>3, <1>4 DEF OnTrack
<1> QED
  BY <1>4, <1>5, <1>6 DEF Moves

LEMMA MovesKeep ==
  ASSUME AInv, LoginsOnTrack, NEW i \in DOMAIN logins, Moves(i)
  PROVE  LoginsOnTrack'
<1>1. PICK r \in Logins :
        /\ OnTrack(logins[i]) => OnTrack(r)
        /\ \/ logins' = [logins EXCEPT ![i] = r]
           \/ \E s \in Logins : OnTrack(s) /\ logins' = Append([logins EXCEPT ![i] = r], s)
  BY DEF Moves
<1> DEFINE t == [logins EXCEPT ![i] = r]
<1>2. /\ t \in Seq(Logins) /\ DOMAIN t = DOMAIN logins
      /\ \A j \in DOMAIN logins : t[j] = IF j = i THEN r ELSE logins[j]
  BY Replaced DEF AInv, AuthTypeOK
<1>3. \A j \in DOMAIN t : OnTrack(t[j])
  <2> HIDE DEF t
  <2> QED
    BY <1>1, <1>2 DEF LoginsOnTrack
<1>4. CASE logins' = t
  <2> HIDE DEF t
  <2>1. \A j \in DOMAIN logins' : OnTrack(logins'[j])
    BY <1>3, <1>4
  <2> QED
    BY <2>1 DEF LoginsOnTrack, OnTrack
<1>5. ASSUME NEW s \in Logins, OnTrack(s), logins' = Append(t, s)
      PROVE  LoginsOnTrack'
  <2> HIDE DEF t
  <2>1. /\ DOMAIN logins' = DOMAIN t \cup {Len(t) + 1}
        /\ \A j \in DOMAIN t : logins'[j] = t[j]
        /\ logins'[Len(t) + 1] = s
    BY <1>2, <1>5, Appended
  <2>2. \A j \in DOMAIN logins' : OnTrack(logins'[j])
    BY <1>3, <1>5, <2>1
  <2> QED
    BY <2>2 DEF LoginsOnTrack, OnTrack
<1> QED
  BY <1>1, <1>4, <1>5

\* A request begins with the first query of its kind, or is answered at once.
LEMMA ReceiveOnTrack ==
  ASSUME AInv, LoginsOnTrack, AuthRequest
  PROVE  LoginsOnTrack'
<1> DEFINE Starts(kind, who, sql) == ReceiveAuth(Request(kind, who, [sql |-> sql]))
<1>0. PICK kind \in {"guest", "uname", "edit", "upgrade"},
           sql \in {"get_guest_uinfo", "get_uinfo_by_uname_upwd", "edit_profile",
                    "check_uname_exist"} :
         \E who : Starts(kind, who, sql)
  <2>1. ASSUME NEW k \in Keys, GuestLogin(k)
        PROVE  Starts("guest", ByKey(k), "get_guest_uinfo")
    BY <2>1, Zenon DEF GuestLogin
  <2>2. ASSUME NEW n \in Names, UnameLogin(n)
        PROVE  Starts("uname", ByName(n), "get_uinfo_by_uname_upwd")
    BY <2>2, Zenon DEF UnameLogin
  <2>3. ASSUME NEW u \in logged_in, EditProfile(u)
        PROVE  Starts("edit", ByUid(u, NoName), "edit_profile")
    BY <2>3, Zenon DEF EditProfile
  <2>4. ASSUME NEW u \in logged_in, NEW n \in Names, Upgrade(u, n)
        PROVE  Starts("upgrade", ByUid(u, n), "check_uname_exist")
    BY <2>4, Zenon DEF Upgrade
  <2> HIDE DEF Starts
  <2> QED
    BY <2>1, <2>2, <2>3, <2>4 DEF AuthRequest
<1>1. PICK who : Starts(kind, who, sql)
  BY <1>0
<1> DEFINE r == Request(kind, who, [sql |-> sql])
           e == Ended(r, 1)
<1>2. /\ r.kind = kind /\ r.query = [sql |-> sql] /\ r.result = Pending /\ r.answers = 0
      /\ e.kind = kind /\ e.query = NoQuery /\ e.result = Pending /\ e.answers = 0 + 1
  BY DEF Request, Ended
<1>3. [sql |-> sql] # NoQuery
  <2>1. [sql |-> sql].sql = sql
    OBVIOUS
  <2> QED
    BY <2>1 DEF NoQuery
<1>4. OnTrack(r) /\ OnTrack(e)
  <2> HIDE DEF r, e
  <2> QED
    BY <1>2, <1>3, PendingExpected DEF OnTrack, Once
<1>5. PICK s \in {r, e} : logins' = Append(logins, s)
  BY <1>1 DEF ReceiveAuth
<1>6. OnTrack(s)
  BY <1>4
<1> HIDE DEF r, e
<1>7. logins \in Seq(Logins)
  BY DEF AInv, AuthTypeOK
<1>8. /\ DOMAIN logins' = DOMAIN logins \cup {Len(logins) + 1}
      /\ \A j \in DOMAIN logins : logins'[j] = logins[j]
      /\ logins'[Len(logins) + 1] = s
  BY <1>5, <1>7
<1>9. \A j \in DOMAIN logins' : OnTrack(logins'[j])
  BY <1>6, <1>8 DEF LoginsOnTrack
<1> QED
  BY <1>9 DEF LoginsOnTrack, OnTrack

LEMMA LoginsStep ==
  ASSUME AInv, LoginsOnTrack, [Next]_vars
  PROVE  LoginsOnTrack'
<1>1. CASE UNCHANGED logins
  BY <1>1 DEF LoginsOnTrack, OnTrack
<1>2. CASE SystemStep \/ (CentreQuery /\ UNCHANGED <<authVars, systemVars>>) \/ UNCHANGED vars
  BY <1>1, <1>2 DEF SystemStep, vars, authVars
<1>3. ASSUME NEW i \in 1..Len(logins), AuthProgress(i) PROVE LoginsOnTrack'
  <2>1. i \in DOMAIN logins
    BY DEF AInv, AuthTypeOK
  <2> QED
    BY <1>3, <2>1, CallbackMoves, QueryMoves, MovesKeep
<1>4. CASE AuthStep
  BY <1>3, <1>4, ReceiveOnTrack DEF AuthStep
<1> QED
  BY <1>2, <1>4 DEF Next

LEMMA LoginsInvariance == Spec => []LoginsOnTrack
<1>1. Init => LoginsOnTrack
  BY DEF Init, AuthInit, LoginsOnTrack
<1> QED
  BY <1>1, LoginsStep, AccountsInvariance, PTL DEF Spec

\* A login, or a change of a profile, has been answered exactly once when it asks
\* no further query, and not before.
LoginsAnswered ==
  \A i \in DOMAIN logins :
    logins[i].kind # "upgrade" => logins[i].answers = IF Finished(logins[i]) THEN 1 ELSE 0

\* guest.lua, uname_login.lua and edit_profile.lua answer once, whatever the
\* database returns, and also where a guest's row had to be inserted first.
THEOREM AuthAnswersOnce == Spec => []LoginsAnswered
<1>1. LoginsOnTrack => LoginsAnswered
  BY DEF LoginsOnTrack, OnTrack, Once, LoginsAnswered, Finished
<1> QED
  BY <1>1, LoginsInvariance, PTL

\* The callback of the query the request has asked has a branch for its result.
LoginReady(r) ==
  \/ /\ \E sql \in {"get_guest_uinfo", "get_uinfo_by_uname_upwd", "check_uname_exist"} :
          Returns(r, sql)
     /\ r.result.is \in {"error", "empty", "row"}
  \/ Returns(r, "get_uinfo_by_uid") /\ r.result.is \in {"error", "row"}
  \/ \E sql \in {"insert_guest_user", "edit_profile", "do_account_upgrade"} : Returns(r, sql)

\* A request that has not ended waits for the database, or for a callback that
\* knows what to do with the result.
LoginsNeverStuck ==
  \A i \in DOMAIN logins :
    ~Finished(logins[i]) => logins[i].result = Pending \/ LoginReady(logins[i])

\* No request to the auth server gets a result its callback has no branch for.
THEOREM AuthNeverStuck == Spec => []LoginsNeverStuck
<1>1. ASSUME NEW r \in Logins, OnTrack(r), ~Finished(r), r.result # Pending
      PROVE  LoginReady(r)
  <2>1. r.result.is \in {"row", "error", "empty", "done"}
    <3>1. r.result \in Results
      BY DEF Logins, Guests, Named, Edits, Upgrades, RequestsOf
    <3> QED
      BY <1>1, <3>1, ResultFacts
  <2>2. r.query.sql \in {"get_guest_uinfo", "insert_guest_user", "get_uinfo_by_uname_upwd",
                         "edit_profile", "check_uname_exist", "get_uinfo_by_uid",
                         "do_account_upgrade"}
    BY <1>1, SqlFinished DEF Logins, Guests, Named, Edits, Upgrades, RequestsOf
  <2>3. Expected(r.query, r.result)
    BY <1>1 DEF OnTrack
  <2> QED
    BY <1>1, <2>1, <2>2, <2>3 DEF Expected, LoginReady, Returns
<1>2. AInv /\ LoginsOnTrack => LoginsNeverStuck
  BY <1>1 DEF AInv, AuthTypeOK, LoginsOnTrack, LoginsNeverStuck
<1> QED
  BY <1>2, AccountsInvariance, LoginsInvariance, PTL
=============================================================================
