------------------------ MODULE GatewayRoutingProofs ------------------------
(***************************************************************************)
(* Where clients log out before they log in again and closing sessions are *)
(* silent, the tables of Gateway lead to the right sessions, for any       *)
(* number of sessions, users and servers.                                  *)
(***************************************************************************)
EXTENDS GatewayProofs

\* No two sessions have the same utag, and a login that is not answered is of
\* the client which has its utag, or of nobody.
UtagsUnique ==
  /\ \A s \in Sessions : utag[s] < g_ukey
  /\ \A s, t \in Sessions : utag[s] = utag[t] /\ utag[s] # 0 => s = t
  /\ \A m \in pending : m.kind = "login" =>
       /\ m.utag < g_ukey
       /\ \A s \in Sessions : utag[s] = m.utag => conn[s] = m.conn

\* The login table holds clients that are not logged in, under their utag.
UkeySound ==
  Orderly => \A i \in 1..MaxUkey :
    LET s == ukey[i]
    IN  s # NoSession =>
          status[s] = "open" /\ target[s] = NoStype /\ uid[s] = NoUid /\ utag[s] = i

\* Where nobody logs out no answer to a logout is under way.
NoLogout == "logout" \notin environment
LogoutsTracked == NoLogout => \A m \in pending : m.kind # "logout"

\* The client the logic server was told of is logged in as the user.
AnnouncedSound ==
  Orderly /\ NoLogout => \A u \in Uids : announced[u] # 0 =>
    /\ server[Logic] # NoSession
    /\ \E s \in Sessions :
         status[s] = "open" /\ target[s] = NoStype /\ uid[s] = u /\ conn[s] = announced[u]

\* The inductive invariant.
RInv ==
  /\ IInv
  /\ UtagsUnique
  /\ UkeySound
  /\ RoutingSound
  /\ NoUseAfterFree
  /\ LogoutsTracked
  /\ AnnouncedSound

-----------------------------------------------------------------------------
\* What closing the client or connection s, on its own, changes.
LEMMA DisconnectEffect ==
  ASSUME TypeOK, OneConnection, NEW s \in Sessions, Disconnect(s)
  PROVE  /\ \A t \in Sessions : status'[t] = IF t = s THEN "closing" ELSE status[t]
         /\ \A k \in Stypes : server'[k] = IF server[k] = s THEN NoSession ELSE server[k]
         /\ \A u \in Uids : uidmap'[u] =
              IF target[s] = NoStype /\ uid[s] = u /\ uidmap[u] = s
              THEN NoSession ELSE uidmap[u]
         /\ \A i \in 1..MaxUkey : ukey'[i] =
              IF target[s] = NoStype /\ utag[s] = i /\ ukey[i] = s
              THEN NoSession ELSE ukey[i]
         /\ \A t \in Sessions : utag'[t] \in {0, utag[t]} /\ (t # s => utag'[t] = utag[t])
         /\ \A u \in Uids : announced'[u] =
              IF \/ target[s] # NoStype /\ server[Logic] = s
                 \/ target[s] = NoStype /\ uid[s] = u /\ server[Logic] # NoSession
              THEN 0 ELSE announced[u]
<1>1. ukey \in [1..MaxUkey -> Sessions \cup {NoSession}] /\ s # NoSession /\ Closable(s)
  BY NilAssumption DEF TypeOK, Disconnect, Closable, Alive
<1>2. /\ \A t \in Sessions : status'[t] = IF t = s THEN "closing" ELSE status[t]
      /\ \A k \in Stypes : server'[k] = IF server[k] = s THEN NoSession ELSE server[k]
  BY <1>1, CloseEffect DEF Disconnect, CloseSession
<1>3. \A u \in Uids : uidmap'[u] =
        IF target[s] = NoStype /\ uid[s] = u /\ uidmap[u] = s
        THEN NoSession ELSE uidmap[u]
  BY <1>1, CloseEffect DEF Disconnect, CloseSession, ClientLeaves
<1>4. \A i \in 1..MaxUkey : ukey'[i] =
        IF target[s] = NoStype /\ utag[s] = i /\ ukey[i] = s
        THEN NoSession ELSE ukey[i]
  BY <1>1 DEF Disconnect, CloseSession, UkeyAfterClose, HoldsUkey, ClientLeaves, TypeOK
<1>5. \A t \in Sessions : utag'[t] \in {0, utag[t]} /\ (t # s => utag'[t] = utag[t])
  BY DEF Disconnect, CloseSession, UtagAfterClose, TypeOK
<1>6. \A u \in Uids : announced'[u] =
        IF \/ target[s] # NoStype /\ server[Logic] = s
           \/ target[s] = NoStype /\ uid[s] = u /\ server[Logic] # NoSession
        THEN 0 ELSE announced[u]
  <2>1. \A u \in Uids : AnnouncedAfterClose(s)[u] =
          IF \/ ServerLeaves(s) /\ server[Logic] = s
             \/ ClientLeaves(s) /\ uid[s] = u /\ server[Logic] # NoSession
          THEN 0 ELSE announced[u]
    BY <1>1, CloseEffect
  <2> QED
    BY <1>1, <2>1 DEF Disconnect, CloseSession, ClientLeaves, ServerLeaves
<1> QED
  BY <1>2, <1>3, <1>4, <1>5, <1>6

\* Taking utags away keeps them unique.
LEMMA UtagsTaken ==
  ASSUME TypeOK, UtagsUnique, \A t \in Sessions : utag'[t] \in {0, utag[t]},
         pending' \subseteq pending, UNCHANGED <<conn, g_ukey>>
  PROVE  UtagsUnique'
<1>1. g_ukey \in Nat /\ 0 < g_ukey
  BY BoundAssumption DEF TypeOK
<1>2. \A m \in pending : m.kind = "login" => m.utag # 0
  <2>1. \A m \in LoginAnswer : m.utag # 0
    BY BoundAssumption DEF LoginAnswer
  <2>2. \A m \in LogoutAnswer : m.kind # "login"
    BY DEF LogoutAnswer
  <2> QED
    BY <2>1, <2>2 DEF TypeOK
<1>3. \A s \in Sessions : utag'[s] < g_ukey'
  BY <1>1 DEF UtagsUnique
<1>4. \A s, t \in Sessions : utag'[s] = utag'[t] /\ utag'[s] # 0 => s = t
  BY DEF UtagsUnique
<1>5. ASSUME NEW m \in pending', m.kind = "login"
      PROVE  m.utag < g_ukey' /\ \A s \in Sessions : utag'[s] = m.utag => conn'[s] = m.conn
  BY <1>2, <1>5 DEF UtagsUnique
<1> QED
  BY <1>3, <1>4, <1>5 DEF UtagsUnique

LEMMA UtagsStep ==
  ASSUME RInv, [Next]_vars
  PROVE  UtagsUnique'
<1>0. CASE UNCHANGED vars
  BY <1>0 DEF vars, sessionVars, tableVars, RInv, UtagsUnique
<1> SUFFICES ASSUME Step PROVE UtagsUnique'
  BY <1>0 DEF Next
<1> USE BoundAssumption DEF RInv, IInv
<1>1. \A m \in pending : m.kind = "login" => m.utag \in 1..MaxUkey
  BY DEF TypeOK, LoginAnswer, LogoutAnswer
<1>2. CASE UNCHANGED <<utag, conn, g_ukey>> /\ pending' \subseteq pending
  BY <1>2 DEF UtagsUnique
<1>3. CASE CheckServerConnect
  BY <1>2, <1>3 DEF CheckServerConnect, tableVars
<1>4. ASSUME NEW s \in Sessions, Accept(s) PROVE UtagsUnique'
  <2>1. utag[s] = 0 /\ \A t \in Sessions : t # s => conn'[t] = conn[t]
    BY <1>4 DEF Accept, Free, FreeIsClean, TypeOK
  <2> QED
    BY <1>1, <1>4, <2>1 DEF Accept, tableVars, UtagsUnique
<1>5. ASSUME NEW s \in Sessions, Connected(s) \/ ConnectFailed(s) PROVE UtagsUnique'
  BY <1>2, <1>5 DEF Connected, ConnectFailed, tableVars
<1>6. ASSUME NEW s \in Sessions, Disconnect(s) PROVE UtagsUnique'
  <2>1. /\ \A t \in Sessions : utag'[t] \in {0, utag[t]}
        /\ UNCHANGED <<conn, g_ukey, pending>>
    BY <1>6, DisconnectEffect DEF Disconnect, CloseSession
  <2> QED
    BY <2>1, UtagsTaken
<1>7. ASSUME NEW s \in Sessions, Destroy(s) PROVE UtagsUnique'
  BY <1>1, <1>7 DEF Destroy, tableVars, UtagsUnique, TypeOK
<1>8. ASSUME NEW s \in Sessions, NEW who \in Uids \cup {NoUid}, LoginReq(s, who)
      PROVE  UtagsUnique'
  <2> DEFINE t == IF utag[s] = 0 THEN g_ukey ELSE utag[s]
             n == [kind |-> "login", via |-> server[Auth], utag |-> t, who |-> who,
                   conn |-> conn[s]]
  <2>1. /\ utag' = [utag EXCEPT ![s] = t]
        /\ g_ukey' = IF utag[s] = 0 THEN g_ukey + 1 ELSE g_ukey
        /\ conn' = conn
        /\ pending' = pending \cup {n}
    BY <1>8 DEF LoginReq, NextUkey
  <2>2. g_ukey \in Nat /\ g_ukey # 0 /\ \A q \in Sessions : utag[q] \in Nat
    BY DEF TypeOK
  <2>3. t < g_ukey' /\ \A q \in Sessions : q # s => utag[q] # t
    BY <2>1, <2>2 DEF UtagsUnique
  <2>4. \A q \in Sessions : utag'[q] = IF q = s THEN t ELSE utag[q]
    BY <2>1 DEF TypeOK
  <2>5. g_ukey <= g_ukey' /\ g_ukey' \in Nat
    BY <2>1, <2>2
  <2> HIDE DEF t
  <2>6. \A q \in Sessions : utag'[q] < g_ukey'
    BY <2>2, <2>3, <2>4, <2>5 DEF UtagsUnique
  <2>7. \A q, r \in Sessions : utag'[q] = utag'[r] /\ utag'[q] # 0 => q = r
    BY <2>3, <2>4 DEF UtagsUnique
  <2>8. ASSUME NEW m \in pending, m.kind = "login"
        PROVE  m.utag < g_ukey' /\ \A q \in Sessions : utag'[q] = m.utag => conn[q] = m.conn
    <3>1. m.utag \in Nat /\ m.utag < g_ukey
      BY <1>1, <2>8 DEF UtagsUnique
    <3>2. t = g_ukey \/ t = utag[s]
      BY DEF t
    <3> QED
      BY <2>2, <2>4, <2>5, <2>8, <3>1, <3>2 DEF UtagsUnique
  <2>9. n.utag < g_ukey' /\ \A q \in Sessions : utag'[q] = n.utag => conn[q] = n.conn
    BY <2>3, <2>4
  <2> QED
    BY <2>1, <2>6, <2>7, <2>8, <2>9 DEF UtagsUnique
<1>9. ASSUME NEW s \in Sessions, LoginLogicReq(s) PROVE UtagsUnique'
  BY <1>2, <1>9 DEF LoginLogicReq, sessionVars, tableVars
<1>10. ASSUME NEW s \in Sessions, LoginOutReq(s) PROVE UtagsUnique'
  <2>1. \A m \in pending' : m \in pending \/ m.kind = "logout"
    BY <1>10 DEF LoginOutReq
  <2> QED
    BY <1>10, <2>1 DEF LoginOutReq, sessionVars, tableVars, UtagsUnique
<1>11. ASSUME NEW m \in pending, LoginRes(m) PROVE UtagsUnique'
  <2>1. ASSUME NEW c, NEW k, NEW taken, LoggedInOn(m, c, k, taken), pending' \subseteq pending
        PROVE  UtagsUnique'
    <3>1. /\ \A t \in Sessions : utag'[t] \in {0, utag[t]}
          /\ UNCHANGED <<conn, g_ukey>>
      BY <2>1 DEF LoggedInOn
    <3> QED
      BY <2>1, <3>1, UtagsTaken
  <2> QED
    BY <1>2, <1>11, <2>1, LoginResEffect DEF Crash, sessionVars, tableVars
<1>12. ASSUME NEW m \in pending, LoginOutRes(m) PROVE UtagsUnique'
  BY <1>2, <1>12 DEF LoginOutRes, Crash, sessionVars, tableVars
<1> QED
  BY <1>3, <1>4, <1>5, <1>6, <1>7, <1>8, <1>9, <1>10, <1>11, <1>12 DEF Step

-----------------------------------------------------------------------------
\* The orderly surroundings stay orderly.
LEMMA SurroundingsStay ==
  ASSUME Step, UNCHANGED environment
  PROVE  (Orderly' <=> Orderly) /\ (NoLogout' <=> NoLogout)
  BY DEF Orderly, NoLogout

\* In orderly surroundings no step touches a released session.
LEMMA NoCrashStep ==
  ASSUME RInv, [Next]_vars
  PROVE  NoUseAfterFree'
<1>0. CASE UNCHANGED vars
  BY <1>0 DEF vars, RInv, NoUseAfterFree, Orderly
<1> SUFFICES ASSUME Step, UNCHANGED environment, Orderly PROVE ~crashed'
  BY <1>0, SurroundingsStay DEF Next, NoUseAfterFree
<1> USE DEF RInv, IInv
<1>1. ~crashed
  BY DEF NoUseAfterFree
<1>2. \A u \in Uids : uidmap[u] # NoSession => ~Free(uidmap[u])
  BY DEF RoutingSound, Free
<1>3. \A i \in 1..MaxUkey : ukey[i] # NoSession => ~Free(ukey[i])
  BY DEF UkeySound, Free
<1>4. ASSUME NEW m \in pending, LoginRes(m) PROVE ~crashed'
  <2>1. ASSUME NEW c, NEW k, NEW taken, LoggedInOn(m, c, k, taken) PROVE ~crashed'
    BY <1>1, <2>1 DEF LoggedInOn
  <2>2. \A u \in Uids : ~Free(uidmap[u])
    BY <1>2 DEF Free
  <2> QED
    BY <1>1, <1>3, <1>4, <2>1, <2>2, LoginResEffect
<1>5. ASSUME NEW m \in pending, LoginOutRes(m) PROVE ~crashed'
  <2>1. m.uid \in Uids
    BY <1>5 DEF LoginOutRes, TypeOK, LoginAnswer, LogoutAnswer
  <2>2. ~Free(uidmap[m.uid])
    BY <1>2, <2>1 DEF Free
  <2> QED
    BY <1>1, <1>5, <2>2 DEF LoginOutRes
<1>6. CASE CheckServerConnect \/ \E s \in Sessions :
             \/ Accept(s) \/ Connected(s) \/ ConnectFailed(s) \/ Disconnect(s) \/ Destroy(s)
             \/ \E who \in Uids \cup {NoUid} : LoginReq(s, who)
             \/ LoginLogicReq(s) \/ LoginOutReq(s)
  BY <1>1, <1>6 DEF CheckServerConnect, Accept, Connected, ConnectFailed, Disconnect,
     CloseSession, Destroy, LoginReq, LoginLogicReq, LoginOutReq
<1> QED
  BY <1>4, <1>5, <1>6 DEF Step

\* In orderly surroundings a step keeps the login table sound.
LEMMA UkeyStep ==
  ASSUME RInv, [Next]_vars
  PROVE  UkeySound'
<1>0. CASE UNCHANGED vars
  BY <1>0 DEF vars, sessionVars, tableVars, RInv, UkeySound, Orderly
<1> DEFINE Sound ==
      \A i \in 1..MaxUkey :
        ukey[i] # NoSession =>
          /\ status[ukey[i]] = "open" /\ target[ukey[i]] = NoStype
          /\ uid[ukey[i]] = NoUid /\ utag[ukey[i]] = i
<1> SUFFICES ASSUME Step, UNCHANGED environment, Orderly PROVE Sound'
  BY <1>0, SurroundingsStay DEF Next, UkeySound
<1> USE NilAssumption DEF RInv, IInv
<1>1. Sound
  BY DEF UkeySound
<1>2. ukey \in [1..MaxUkey -> Sessions \cup {NoSession}]
  BY DEF TypeOK
<1>3. CASE CheckServerConnect
  <2>1. \A s \in Sessions : status[s] = "free" \/ (status'[s] = status[s] /\ target'[s] = target[s])
    BY <1>3, CheckEffect
  <2> QED
    BY <1>1, <1>2, <1>3, <2>1 DEF CheckServerConnect, tableVars
<1>4. ASSUME NEW s \in Sessions, Accept(s) PROVE Sound'
  BY <1>1, <1>2, <1>4 DEF Accept, Free, tableVars, TypeOK
<1>5. ASSUME NEW s \in Sessions, Connected(s) \/ ConnectFailed(s) PROVE Sound'
  <2>1. \A t \in Sessions : status[t] = "open" => status'[t] = "open"
    BY <1>5 DEF Connected, ConnectFailed, TypeOK
  <2>2. UNCHANGED <<target, uid, utag, ukey>>
    BY <1>5 DEF Connected, ConnectFailed, tableVars
  <2> QED
    BY <1>1, <1>2, <2>1, <2>2
<1>6. ASSUME NEW s \in Sessions, Disconnect(s) PROVE Sound'
  <2>1. UNCHANGED <<target, uid>>
    BY <1>6 DEF Disconnect, CloseSession
  <2> QED
    BY <1>1, <1>2, <1>6, <2>1, DisconnectEffect
<1>7. ASSUME NEW s \in Sessions, Destroy(s) PROVE Sound'
  BY <1>1, <1>2, <1>7 DEF Destroy, tableVars, TypeOK
<1>8. ASSUME NEW s \in Sessions, NEW who \in Uids \cup {NoUid}, LoginReq(s, who)
      PROVE  Sound'
  <2> DEFINE t == IF utag[s] = 0 THEN g_ukey ELSE utag[s]
  <2>1. status[s] = "open" /\ target[s] = NoStype /\ uid[s] = NoUid
    BY <1>8 DEF LoginReq, FromClient, CanRead, Orderly
  <2>2. /\ utag' = [utag EXCEPT ![s] = t]
        /\ ukey' = [ukey EXCEPT ![t] = s]
        /\ UNCHANGED <<status, target, uid>>
    BY <1>8 DEF LoginReq
  <2>3. t \in 1..MaxUkey
    BY <1>8 DEF LoginReq, TypeOK
  <2>4. utag[s] # 0 => t = utag[s]
    OBVIOUS
  <2> HIDE DEF t
  <2> QED
    BY <1>1, <1>2, <2>1, <2>2, <2>3, <2>4 DEF TypeOK
<1>9. ASSUME NEW s \in Sessions, LoginLogicReq(s) \/ LoginOutReq(s) PROVE Sound'
  BY <1>1, <1>9 DEF LoginLogicReq, LoginOutReq, sessionVars, tableVars
<1>10. ASSUME NEW m \in pending, LoginRes(m) PROVE Sound'
  <2> DEFINE taken == [ukey EXCEPT ![m.utag] = NoSession]
  <2>1. m.utag \in 1..MaxUkey
    BY <1>10, LoginResEffect
  <2>2. \A i \in 1..MaxUkey : taken[i] = IF i = m.utag THEN NoSession ELSE ukey[i]
    BY <1>2, <2>1
  <2>3. CASE ukey' = taken /\ UNCHANGED sessionVars
    BY <1>1, <2>2, <2>3 DEF sessionVars
  <2>4. ASSUME NEW c \in Sessions, NEW k \in Sessions \cup {NoSession},
               m.who \in Uids, LoggedInOn(m, c, k, taken)
        PROVE  Sound'
    <3> HIDE DEF taken
    <3>1. \A i \in 1..MaxUkey : ukey'[i] # NoSession =>
            ukey'[i] = ukey[i] /\ i # m.utag /\ ~(HoldsUkey(taken, k) /\ utag[k] = i)
      BY <2>2, <2>4 DEF LoggedInOn
    <3>2. ASSUME NEW i \in 1..MaxUkey, ukey'[i] # NoSession
          PROVE  /\ status'[ukey'[i]] = "open" /\ target'[ukey'[i]] = NoStype
                 /\ uid'[ukey'[i]] = NoUid /\ utag'[ukey'[i]] = i
      <4> DEFINE s == ukey[i]
      <4>1. /\ s \in Sessions /\ ukey'[i] = s /\ i # m.utag
            /\ status[s] = "open" /\ target[s] = NoStype /\ uid[s] = NoUid /\ utag[s] = i
        BY <1>1, <1>2, <3>1, <3>2
      <4>2. s # c
        BY <1>1, <2>1, <2>4, <4>1 DEF LoggedInOn
      <4>3. s # k
        <5>1. s # uidmap[m.who]
          BY <2>4, <4>1 DEF RoutingSound
        <5> QED
          BY <2>4, <4>1, <5>1 DEF LoggedInOn
      <4> HIDE DEF s
      <4>4. status'[s] = "open" /\ target'[s] = NoStype /\ uid'[s] = NoUid /\ utag'[s] = i
        BY <2>4, <4>1, <4>2, <4>3 DEF LoggedInOn, TypeOK
      <4> QED
        BY <4>1, <4>4
    <3> QED
      BY <3>2
  <2>5. CASE Crash
    BY <1>1, <2>5 DEF Crash, sessionVars, tableVars
  <2> QED
    BY <1>10, <2>3, <2>4, <2>5, LoginResEffect
<1>11. ASSUME NEW m \in pending, LoginOutRes(m) PROVE Sound'
  <2>1. \A t \in Sessions : uid[t] = NoUid => uid'[t] = NoUid
    BY <1>11 DEF LoginOutRes, Crash, sessionVars, TypeOK
  <2>2. UNCHANGED <<status, target, utag, ukey>>
    BY <1>11 DEF LoginOutRes, Crash, sessionVars, tableVars
  <2> QED
    BY <1>1, <1>2, <2>1, <2>2
<1> QED
  BY <1>3, <1>4, <1>5, <1>6, <1>7, <1>8, <1>9, <1>10, <1>11 DEF Step

\* In orderly surroundings a step keeps the user table sound.
LEMMA RoutingStep ==
  ASSUME RInv, [Next]_vars
  PROVE  RoutingSound'
<1>0. CASE UNCHANGED vars
  BY <1>0 DEF vars, sessionVars, tableVars, RInv, RoutingSound, Orderly
<1> DEFINE Sound ==
      \A u \in Uids : uidmap[u] # NoSession =>
        status[uidmap[u]] = "open" /\ target[uidmap[u]] = NoStype /\ uid[uidmap[u]] = u
<1> SUFFICES ASSUME Step, UNCHANGED environment, Orderly PROVE Sound'
  BY <1>0, SurroundingsStay DEF Next, RoutingSound
<1> USE NilAssumption DEF RInv, IInv
<1>1. Sound
  BY DEF RoutingSound
<1>2. uidmap \in [Uids -> Sessions \cup {NoSession}]
  BY DEF TypeOK
<1>3. CASE CheckServerConnect
  <2>1. \A s \in Sessions : status[s] = "free" \/ (status'[s] = status[s] /\ target'[s] = target[s])
    BY <1>3, CheckEffect
  <2>2. UNCHANGED <<uid, uidmap>>
    BY <1>3 DEF CheckServerConnect, tableVars
  <2> QED
    BY <1>1, <1>2, <2>1, <2>2
<1>4. ASSUME NEW s \in Sessions, Accept(s) PROVE Sound'
  BY <1>1, <1>2, <1>4 DEF Accept, Free, tableVars, TypeOK
<1>5. ASSUME NEW s \in Sessions, Connected(s) \/ ConnectFailed(s) PROVE Sound'
  <2>1. \A t \in Sessions : status[t] = "open" => status'[t] = "open"
    BY <1>5 DEF Connected, ConnectFailed, TypeOK
  <2>2. UNCHANGED <<target, uid, uidmap>>
    BY <1>5 DEF Connected, ConnectFailed, tableVars
  <2> QED
    BY <1>1, <1>2, <2>1, <2>2
<1>6. ASSUME NEW s \in Sessions, Disconnect(s) PROVE Sound'
  <2>1. UNCHANGED <<target, uid>>
    BY <1>6 DEF Disconnect, CloseSession
  <2> QED
    BY <1>1, <1>2, <1>6, <2>1, DisconnectEffect
<1>7. ASSUME NEW s \in Sessions, Destroy(s) PROVE Sound'
  BY <1>1, <1>2, <1>7 DEF Destroy, tableVars, TypeOK
<1>8. CASE UNCHANGED <<status, target, uid, uidmap>>
  BY <1>1, <1>8
<1>9. ASSUME NEW s \in Sessions, NEW who \in Uids \cup {NoUid}, LoginReq(s, who)
      PROVE  Sound'
  BY <1>8, <1>9 DEF LoginReq
<1>10. ASSUME NEW s \in Sessions, LoginLogicReq(s) \/ LoginOutReq(s) PROVE Sound'
  BY <1>8, <1>10 DEF LoginLogicReq, LoginOutReq, sessionVars, tableVars
<1>11. ASSUME NEW m \in pending, LoginRes(m) PROVE Sound'
  <2> DEFINE taken == [ukey EXCEPT ![m.utag] = NoSession]
  <2>1. m.utag \in 1..MaxUkey
    BY <1>11, LoginResEffect
  <2>2. ASSUME NEW c \in Sessions, NEW k \in Sessions \cup {NoSession},
               m.who \in Uids, LoggedInOn(m, c, k, taken)
        PROVE  Sound'
    <3> HIDE DEF taken
    <3>1. c = ukey[m.utag]
      BY <2>2 DEF LoggedInOn
    <3>2. status[c] = "open" /\ target[c] = NoStype /\ uid[c] = NoUid
      BY <2>1, <2>2, <3>1 DEF UkeySound
    <3>3. c # k
      BY <2>2 DEF LoggedInOn
    <3>4. ASSUME NEW u \in Uids, uidmap'[u] # NoSession
          PROVE  /\ status'[uidmap'[u]] = "open" /\ target'[uidmap'[u]] = NoStype
                 /\ uid'[uidmap'[u]] = u
      <4>1. CASE u = m.who
        <5>1. uidmap'[u] = c
          BY <2>2, <4>1 DEF LoggedInOn
        <5>2. status'[c] = "open" /\ target'[c] = NoStype /\ uid'[c] = u
          BY <2>2, <3>2, <3>3, <4>1 DEF LoggedInOn, TypeOK
        <5> QED
          BY <5>1, <5>2
      <4>2. CASE u # m.who
        <5> DEFINE s == uidmap[u]
        <5>1. uidmap'[u] = s
          BY <2>2, <3>4, <4>2 DEF LoggedInOn
        <5>2. s \in Sessions /\ status[s] = "open" /\ target[s] = NoStype /\ uid[s] = u
          BY <1>1, <1>2, <3>4, <5>1
        <5>3. s # c
          BY <3>2, <5>2
        <5>4. s # k
          <6>1. k # NoSession => uid[k] = m.who
            BY <1>1, <2>2 DEF LoggedInOn
          <6> QED
            BY <4>2, <5>2, <6>1
        <5> HIDE DEF s
        <5>5. status'[s] = "open" /\ target'[s] = NoStype /\ uid'[s] = u
          BY <2>2, <5>2, <5>3, <5>4 DEF LoggedInOn, TypeOK
        <5> QED
          BY <5>1, <5>5
      <4> QED
        BY <4>1, <4>2
    <3> QED
      BY <3>4
  <2> QED
    BY <1>8, <1>11, <2>2, LoginResEffect DEF Crash, sessionVars, tableVars
<1>12. ASSUME NEW m \in pending, LoginOutRes(m) PROVE Sound'
  <2>1. m.uid \in Uids
    BY <1>12 DEF LoginOutRes, TypeOK, LoginAnswer, LogoutAnswer
  <2> DEFINE c == uidmap[m.uid]
  <2>2. CASE /\ c # NoSession
             /\ uid' = [uid EXCEPT ![c] = NoUid]
             /\ uidmap' = [uidmap EXCEPT ![m.uid] = NoSession]
             /\ UNCHANGED <<status, target>>
    <3>1. uid[c] = m.uid
      BY <1>1, <2>1, <2>2
    <3>2. ASSUME NEW u \in Uids, uidmap'[u] # NoSession
          PROVE  uidmap'[u] = uidmap[u] /\ uid'[uidmap[u]] = uid[uidmap[u]]
      BY <1>1, <1>2, <2>1, <2>2, <3>1, <3>2 DEF TypeOK
    <3> QED
      BY <1>1, <2>2, <3>2
  <2> QED
    BY <1>8, <1>12, <2>2 DEF LoginOutRes, Crash, sessionVars, tableVars
<1> QED
  BY <1>3, <1>4, <1>5, <1>6, <1>7, <1>9, <1>10, <1>11, <1>12 DEF Step

\* Where nobody logs out a step leaves it so.
LEMMA LogoutsStep ==
  ASSUME RInv, [Next]_vars
  PROVE  LogoutsTracked'
<1>0. CASE UNCHANGED vars
  BY <1>0 DEF vars, RInv, LogoutsTracked, NoLogout
<1> SUFFICES ASSUME Step, UNCHANGED environment, NoLogout
             PROVE  \A m \in pending' : m.kind # "logout"
  BY <1>0, SurroundingsStay DEF Next, LogoutsTracked
<1> USE DEF RInv, IInv
<1>1. \A m \in pending : m.kind # "logout"
  BY DEF LogoutsTracked
<1>2. CASE pending' \subseteq pending
  BY <1>1, <1>2
<1>3. CASE CheckServerConnect
  BY <1>2, <1>3 DEF CheckServerConnect
<1>4. ASSUME NEW s \in Sessions,
             \/ Accept(s) \/ Connected(s) \/ ConnectFailed(s) \/ Disconnect(s) \/ Destroy(s)
             \/ LoginLogicReq(s)
      PROVE  pending' \subseteq pending
  BY <1>4 DEF Accept, Connected, ConnectFailed, Disconnect, CloseSession, Destroy, LoginLogicReq
<1>5. ASSUME NEW s \in Sessions, NEW who \in Uids \cup {NoUid}, LoginReq(s, who)
      PROVE  \A m \in pending' : m.kind # "logout"
  BY <1>1, <1>5 DEF LoginReq
<1>6. ASSUME NEW s \in Sessions PROVE ~LoginOutReq(s)
  BY DEF LoginOutReq, NoLogout
<1>7. ASSUME NEW m \in pending, LoginRes(m) \/ LoginOutRes(m) PROVE pending' \subseteq pending
  BY <1>7 DEF LoginRes, LoginOutRes, Crash
<1> QED
  BY <1>2, <1>3, <1>4, <1>5, <1>6, <1>7 DEF Step

\* In orderly surroundings where nobody logs out, a step keeps what the logic
\* server was told true.
LEMMA AnnouncedStep ==
  ASSUME RInv, [Next]_vars
  PROVE  AnnouncedSound'
<1>0. CASE UNCHANGED vars
  BY <1>0 DEF vars, sessionVars, serverVars, RInv, AnnouncedSound, Orderly, NoLogout
<1> DEFINE Here(s, u) == status[s] = "open" /\ target[s] = NoStype /\ uid[s] = u
           Sound == \A u \in Uids : announced[u] # 0 =>
             /\ server[Logic] # NoSession
             /\ \E s \in Sessions : Here(s, u) /\ conn[s] = announced[u]
<1> SUFFICES ASSUME Step, UNCHANGED environment, Orderly, NoLogout PROVE Sound'
  BY <1>0, SurroundingsStay DEF Next, AnnouncedSound
<1> USE NilAssumption, ServersAssumption DEF RInv, IInv
<1>1. Sound
  BY DEF AnnouncedSound
<1>2. CASE /\ UNCHANGED <<server, announced>>
           /\ \A s \in Sessions, u \in Uids : Here(s, u) => Here(s, u)' /\ conn'[s] = conn[s]
  BY <1>1, <1>2
<1>3. CASE CheckServerConnect
  <2>1. \A s \in Sessions : status[s] = "free" \/ (status'[s] = status[s] /\ target'[s] = target[s])
    BY <1>3, CheckEffect
  <2>2. UNCHANGED <<uid, conn, server, announced>>
    BY <1>3 DEF CheckServerConnect
  <2> QED
    BY <1>2, <2>1, <2>2
<1>4. ASSUME NEW s \in Sessions, Accept(s) PROVE Sound'
  BY <1>2, <1>4 DEF Accept, Free, serverVars, TypeOK
<1>5. ASSUME NEW s \in Sessions, Connected(s) PROVE Sound'
  <2>1. \A t \in Sessions : status[t] = "open" => status'[t] = "open"
    BY <1>5 DEF Connected, TypeOK
  <2>2. UNCHANGED <<target, uid, conn, announced>>
    BY <1>5 DEF Connected
  <2>3. server[Logic] # NoSession => server'[Logic] # NoSession
    BY <1>5 DEF Connected, TypeOK
  <2> QED
    BY <1>1, <2>1, <2>2, <2>3
<1>6. ASSUME NEW s \in Sessions, ConnectFailed(s) PROVE Sound'
  <2>1. \A t \in Sessions : status[t] = "open" => status'[t] = "open"
    BY <1>6 DEF ConnectFailed, TypeOK
  <2>2. UNCHANGED <<target, uid, conn, server, announced>>
    BY <1>6 DEF ConnectFailed
  <2> QED
    BY <1>2, <2>1, <2>2
<1>7. ASSUME NEW s \in Sessions, Disconnect(s) PROVE Sound'
  <2>1. UNCHANGED <<target, uid, conn>>
    BY <1>7 DEF Disconnect, CloseSession
  <2>2. ASSUME NEW u \in Uids, announced'[u] # 0
        PROVE  /\ server'[Logic] # NoSession
               /\ \E t \in Sessions : Here(t, u)' /\ conn'[t] = announced'[u]
    <3>1. /\ announced'[u] = announced[u]
          /\ ~(target[s] # NoStype /\ server[Logic] = s)
          /\ ~(target[s] = NoStype /\ uid[s] = u /\ server[Logic] # NoSession)
      BY <1>7, <2>2, DisconnectEffect
    <3>2. server[Logic] # NoSession
      BY <1>1, <2>2, <3>1
    <3>3. PICK t \in Sessions : Here(t, u) /\ conn[t] = announced[u]
      BY <1>1, <2>2, <3>1
    <3>4. t # s
      BY <3>1, <3>2, <3>3
    <3>5. status'[t] = "open"
      BY <1>7, <3>3, <3>4, DisconnectEffect
    <3>6. server[Logic] # s
      BY <3>1 DEF OneConnection
    <3>7. server'[Logic] # NoSession
      BY <1>7, <3>2, <3>6, DisconnectEffect
    <3> QED
      BY <2>1, <3>1, <3>3, <3>5, <3>7
  <2> QED
    BY <2>2
<1>8. ASSUME NEW s \in Sessions, Destroy(s) PROVE Sound'
  BY <1>2, <1>8 DEF Destroy, serverVars, TypeOK
<1>9. CASE UNCHANGED <<status, target, uid, conn, server, announced>>
  BY <1>2, <1>9
<1>10. ASSUME NEW s \in Sessions, NEW who \in Uids \cup {NoUid}, LoginReq(s, who)
       PROVE  Sound'
  BY <1>9, <1>10 DEF LoginReq, serverVars
<1>11. ASSUME NEW s \in Sessions, LoginLogicReq(s) PROVE Sound'
  <2>1. /\ uid[s] \in Uids /\ Here(s, uid[s]) /\ server[Logic] # NoSession
        /\ announced' = [announced EXCEPT ![uid[s]] = conn[s]]
        /\ UNCHANGED <<status, target, uid, conn, server>>
    BY <1>11 DEF LoginLogicReq, FromClient, CanRead, Orderly, sessionVars, serverVars, TypeOK
  <2>2. \A u \in Uids : announced'[u] = IF u = uid[s] THEN conn[s] ELSE announced[u]
    BY <2>1 DEF TypeOK
  <2> QED
    BY <1>1, <2>1, <2>2
<1>12. ASSUME NEW s \in Sessions, LoginOutReq(s) PROVE Sound'
  BY <1>9, <1>12 DEF LoginOutReq, sessionVars, serverVars
<1>13. ASSUME NEW m \in pending, LoginRes(m) PROVE Sound'
  <2> DEFINE taken == [ukey EXCEPT ![m.utag] = NoSession]
  <2>1. m.utag \in 1..MaxUkey
    BY <1>13, LoginResEffect
  <2>2. ASSUME NEW c \in Sessions, NEW k \in Sessions \cup {NoSession},
               m.who \in Uids, LoggedInOn(m, c, k, taken),
               NEW u \in Uids, announced'[u] # 0
        PROVE  /\ server'[Logic] # NoSession
               /\ \E t \in Sessions : Here(t, u)' /\ conn'[t] = announced'[u]
    <3> HIDE DEF taken
    <3>1. c = ukey[m.utag] /\ c # k
      BY <2>2 DEF LoggedInOn
    <3>2. uid[c] = NoUid
      BY <2>1, <2>2, <3>1 DEF UkeySound
    <3>3. k # NoSession => status[k] = "open" /\ target[k] = NoStype /\ uid[k] = m.who
      <4>1. k # NoSession => k = uidmap[m.who]
        BY <2>2 DEF LoggedInOn
      <4> QED
        BY <2>2, <4>1 DEF RoutingSound
    <3>4. /\ announced'[u] = announced[u]
          /\ ~(ClientLeaves(k) /\ uid[k] = u /\ server[Logic] # NoSession)
      BY <2>2 DEF LoggedInOn
    <3>5. server[Logic] # NoSession
      BY <1>1, <2>2, <3>4
    <3>6. PICK t \in Sessions : Here(t, u) /\ conn[t] = announced[u]
      BY <1>1, <2>2, <3>4
    <3>7. t # c
      BY <3>2, <3>6
    <3>8. t # k
      BY <3>4, <3>5, <3>6 DEF ClientLeaves, Closable, Alive
    <3>9. Here(t, u)' /\ conn'[t] = conn[t]
      BY <2>2, <3>6, <3>7, <3>8 DEF LoggedInOn, TypeOK
    <3>10. server[Logic] # k
      BY <3>3, <3>5 DEF OneConnection
    <3>11. server'[Logic] # NoSession
      BY <2>2, <3>5, <3>10 DEF LoggedInOn
    <3> QED
      BY <3>4, <3>6, <3>9, <3>11
  <2>3. ASSUME NEW c \in Sessions, NEW k \in Sessions \cup {NoSession},
               m.who \in Uids, LoggedInOn(m, c, k, taken)
        PROVE  Sound'
    BY <2>2, <2>3
  <2> QED
    BY <1>9, <1>13, <2>3, LoginResEffect DEF Crash, sessionVars, serverVars
<1>14. ASSUME NEW m \in pending PROVE ~LoginOutRes(m)
  BY DEF LoginOutRes, LogoutsTracked
<1> QED
  BY <1>3, <1>4, <1>5, <1>6, <1>7, <1>8, <1>10, <1>11, <1>12, <1>13, <1>14 DEF Step

-----------------------------------------------------------------------------
LEMMA InitRInv == Init => RInv
<1> SUFFICES ASSUME Init PROVE RInv
  OBVIOUS
<1>1. UtagsUnique
  BY DEF Init, UtagsUnique
<1>2. UkeySound /\ RoutingSound
  BY DEF Init, UkeySound, RoutingSound
<1>3. NoUseAfterFree /\ LogoutsTracked /\ AnnouncedSound
  BY DEF Init, NoUseAfterFree, LogoutsTracked, AnnouncedSound
<1> QED
  BY <1>1, <1>2, <1>3, InitIInv DEF RInv

LEMMA NextRInv == RInv /\ [Next]_vars => RInv'
  BY NextIInv, UtagsStep, UkeyStep, RoutingStep, NoCrashStep, LogoutsStep, AnnouncedStep
  DEF RInv

LEMMA SpecRInv == Spec => []RInv
  BY InitRInv, NextRInv, PTL DEF Spec

\* In orderly surroundings client_sessions_uid leads to the client that is
\* logged in as the user, so send_to_client sends nothing to another one.
THEOREM UserTableIsSound == Spec => []RoutingSound
<1>1. RInv => RoutingSound
  BY DEF RInv
<1> QED
  BY <1>1, SpecRInv, PTL

\* In orderly surroundings the answer to a login goes to the connection that
\* asked for it or to none, however often addresses are used again: utags
\* are never handed out twice.
THEOREM AnswersGoToRequester == Spec => []LoginToRequester
<1>1. RInv => LoginToRequester
  <2> SUFFICES ASSUME RInv, Orderly, NEW m \in pending, m.kind = "login",
                      ukey[m.utag] # NoSession
               PROVE  status[ukey[m.utag]] = "open" /\ conn[ukey[m.utag]] = m.conn
    BY DEF LoginToRequester
  <2>1. m.utag \in 1..MaxUkey
    BY DEF RInv, IInv, TypeOK, LoginAnswer, LogoutAnswer
  <2>2. ukey[m.utag] \in Sessions
    BY <2>1 DEF RInv, IInv, TypeOK
  <2>3. status[ukey[m.utag]] = "open" /\ utag[ukey[m.utag]] = m.utag
    BY <2>1 DEF RInv, UkeySound
  <2> QED
    BY <2>2, <2>3 DEF RInv, UtagsUnique
<1> QED
  BY <1>1, SpecRInv, PTL

\* In orderly surroundings no handler touches a session that has gone back to
\* session_allocer.
THEOREM NoReleasedSessionUsed == Spec => []NoUseAfterFree
<1>1. RInv => NoUseAfterFree
  BY DEF RInv
<1> QED
  BY <1>1, SpecRInv, PTL

\* In orderly surroundings, until a user logs out, on_gw_session_disconnect
\* tells the logic server of every client it loses.
THEOREM EveryLossAnnounced == Spec => []LossAnnounced
<1>1. RInv => LossAnnounced
  BY DEF RInv, AnnouncedSound, NoLogout, LossAnnounced
<1> QED
  BY <1>1, SpecRInv, PTL

-----------------------------------------------------------------------------
\* In orderly surroundings a client that is connected and logged in stays the
\* user it is: the answer to a login, which may be for an address that has
\* been used before, never makes it somebody else, and only the answer to a
\* logout takes its uid away.
IdentityKept ==
  Orderly => \A s \in Sessions :
    status[s] = "open" /\ uid[s] # NoUid =>
      uid'[s] = uid[s] \/ (uid'[s] = NoUid /\ ~NoLogout)

LEMMA IdentityStep ==
  ASSUME RInv, Step
  PROVE  IdentityKept
<1> SUFFICES ASSUME Orderly, NEW s \in Sessions, status[s] = "open", uid[s] # NoUid
             PROVE  uid'[s] = uid[s] \/ (uid'[s] = NoUid /\ ~NoLogout)
  BY DEF IdentityKept
<1> USE DEF RInv, IInv
<1>1. CASE UNCHANGED uid
  BY <1>1
<1>2. CASE CheckServerConnect
  BY <1>1, <1>2 DEF CheckServerConnect
<1>3. ASSUME NEW t \in Sessions,
             \/ Accept(t) \/ Connected(t) \/ ConnectFailed(t) \/ Disconnect(t)
             \/ \E who \in Uids \cup {NoUid} : LoginReq(t, who)
             \/ LoginLogicReq(t) \/ LoginOutReq(t)
      PROVE  UNCHANGED uid
  BY <1>3 DEF Accept, Connected, ConnectFailed, Disconnect, CloseSession, LoginReq,
     LoginLogicReq, LoginOutReq, sessionVars
<1>4. ASSUME NEW t \in Sessions, Destroy(t) PROVE uid'[s] = uid[s]
  <2>1. t # s /\ uid' = [uid EXCEPT ![t] = NoUid]
    BY <1>4 DEF Destroy
  <2> QED
    BY <2>1 DEF TypeOK
<1>5. ASSUME NEW m \in pending, LoginRes(m) PROVE uid'[s] = uid[s]
  <2> DEFINE taken == [ukey EXCEPT ![m.utag] = NoSession]
  <2>1. m.utag \in 1..MaxUkey
    BY <1>5, LoginResEffect
  <2>2. ASSUME NEW c \in Sessions, NEW k \in Sessions \cup {NoSession},
               LoggedInOn(m, c, k, taken)
        PROVE  uid'[s] = uid[s]
    <3>1. c = ukey[m.utag] /\ uid' = [uid EXCEPT ![c] = m.who]
      BY <2>2 DEF LoggedInOn
    <3>2. uid[c] = NoUid
      BY <2>1, <2>2, <3>1, NilAssumption DEF UkeySound
    <3> QED
      BY <3>1, <3>2 DEF TypeOK
  <2> QED
    BY <1>5, <2>2, LoginResEffect DEF Crash, sessionVars
<1>6. ASSUME NEW m \in pending, LoginOutRes(m)
      PROVE  uid'[s] = uid[s] \/ (uid'[s] = NoUid /\ ~NoLogout)
  <2>1. ~NoLogout
    BY <1>6 DEF LogoutsTracked, LoginOutRes
  <2>2. UNCHANGED uid \/ uid' = [uid EXCEPT ![uidmap[m.uid]] = NoUid]
    BY <1>6 DEF LoginOutRes, Crash, sessionVars
  <2> QED
    BY <2>1, <2>2 DEF TypeOK
<1> QED
  BY <1>1, <1>2, <1>3, <1>4, <1>5, <1>6 DEF Step

\* In orderly surroundings send_to_client never gives a client that is logged
\* in the identity of another user.
THEOREM LoginsKeepIdentity == Spec => [][IdentityKept]_vars
<1>1. RInv /\ [Next]_vars => [IdentityKept]_vars
  BY IdentityStep DEF Next
<1> QED
  BY <1>1, SpecRInv, PTL DEF Spec
=============================================================================
