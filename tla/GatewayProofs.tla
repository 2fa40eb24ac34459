---------------------------- MODULE GatewayProofs ---------------------------
(***************************************************************************)
(* The safety properties of Gateway for any number of sessions, users and  *)
(* servers and whatever the environment.                                   *)
(***************************************************************************)
EXTENDS Gateway, TLAPS

\* The memory on the free list is as a new session is.
FreeIsClean ==
  \A s \in Sessions : status[s] = "free" =>
    target[s] = NoStype /\ utag[s] = 0 /\ uid[s] = NoUid

\* libuv is still to report the end of an attempt to connect.
Attempt(s) == status[s] \in {"connecting", "cancelled"}

\* While an attempt is under way do_connecting is set, the server is not
\* connected, and there is no second attempt for the same server.
AttemptsTracked ==
  /\ \A s \in Sessions : Attempt(s) =>
       /\ target[s] \in Stypes
       /\ connecting[target[s]]
       /\ server[target[s]] = NoSession
  /\ \A s, t \in Sessions : Attempt(s) /\ Attempt(t) /\ target[s] = target[t] => s = t

\* The user table leads to every session that is logged in and not closed.
LoginsTracked ==
  \A s \in Sessions : status[s] \in Alive /\ uid[s] # NoUid => uidmap[uid[s]] = s

\* The inductive invariant.
IInv ==
  /\ TypeOK
  /\ FreeIsClean
  /\ AttemptsTracked
  /\ OneConnection
  /\ LoginsTracked

-----------------------------------------------------------------------------
\* What uv_session::close makes of the tables is of their types.
LEMMA CloseType ==
  ASSUME TypeOK, NEW s \in Sessions \cup {NoSession},
         NEW uk \in [1..MaxUkey -> Sessions \cup {NoSession}]
  PROVE  /\ StatusAfterClose(s) \in [Sessions -> Status]
         /\ ServerAfterClose(s) \in [Stypes -> Sessions \cup {NoSession}]
         /\ UkeyAfterClose(uk, s) \in [1..MaxUkey -> Sessions \cup {NoSession}]
         /\ UtagAfterClose(uk, s) \in [Sessions -> 0..MaxUkey]
         /\ UidmapAfterClose(s) \in [Uids -> Sessions \cup {NoSession}]
         /\ AnnouncedAfterClose(s) \in [Uids -> 0..MaxConn]
<1>1. StatusAfterClose(s) \in [Sessions -> Status]
  BY DEF TypeOK, StatusAfterClose, Closable, Status, Alive
<1>2. ServerAfterClose(s) \in [Stypes -> Sessions \cup {NoSession}]
  BY DEF TypeOK, ServerAfterClose
<1>3. UkeyAfterClose(uk, s) \in [1..MaxUkey -> Sessions \cup {NoSession}]
  BY DEF TypeOK, UkeyAfterClose
<1>4. UtagAfterClose(uk, s) \in [Sessions -> 0..MaxUkey]
  <2>1. utag \in [Sessions -> 0..MaxUkey] /\ 0 \in 0..MaxUkey
    BY BoundAssumption DEF TypeOK
  <2> QED
    BY <2>1 DEF UtagAfterClose
<1>5. UidmapAfterClose(s) \in [Uids -> Sessions \cup {NoSession}]
  BY DEF TypeOK, UidmapAfterClose
<1>6. AnnouncedAfterClose(s) \in [Uids -> 0..MaxConn]
  <2>1. announced \in [Uids -> 0..MaxConn] /\ 0 \in 0..MaxConn
    BY BoundAssumption DEF TypeOK
  <2> QED
    BY <2>1 DEF AnnouncedAfterClose
<1> QED
  BY <1>1, <1>2, <1>3, <1>4, <1>5, <1>6

\* What uv_session::close changes, entry by entry.
LEMMA CloseEffect ==
  ASSUME TypeOK, OneConnection, NEW s \in Sessions \cup {NoSession},
         NEW uk \in [1..MaxUkey -> Sessions \cup {NoSession}]
  PROVE  /\ \A t \in Sessions : StatusAfterClose(s)[t] =
              IF t = s /\ Closable(s)
              THEN IF status[t] = "connecting" THEN "cancelled" ELSE "closing"
              ELSE status[t]
         /\ \A k \in Stypes : ServerAfterClose(s)[k] =
              IF s # NoSession /\ server[k] = s THEN NoSession ELSE server[k]
         /\ \A u \in Uids : UidmapAfterClose(s)[u] =
              IF ClientLeaves(s) /\ uid[s] = u /\ uidmap[u] = s
              THEN NoSession ELSE uidmap[u]
         /\ \A i \in 1..MaxUkey : UkeyAfterClose(uk, s)[i] =
              IF HoldsUkey(uk, s) /\ utag[s] = i THEN NoSession ELSE uk[i]
         /\ \A t \in Sessions : UtagAfterClose(uk, s)[t] =
              IF HoldsUkey(uk, s) /\ t = s THEN 0 ELSE utag[t]
         /\ \A u \in Uids : AnnouncedAfterClose(s)[u] =
              IF \/ ServerLeaves(s) /\ server[Logic] = s
                 \/ ClientLeaves(s) /\ uid[s] = u /\ server[Logic] # NoSession
              THEN 0 ELSE announced[u]
<1>1. \A t \in Sessions : StatusAfterClose(s)[t] =
        IF t = s /\ Closable(s)
        THEN IF status[t] = "connecting" THEN "cancelled" ELSE "closing"
        ELSE status[t]
  BY DEF TypeOK, StatusAfterClose
<1>2. ASSUME NEW k \in Stypes
      PROVE  ServerAfterClose(s)[k] =
               IF s # NoSession /\ server[k] = s THEN NoSession ELSE server[k]
  <2> DEFINE ks == {j \in Stypes : server[j] = s}
             first == CHOOSE j \in ks : TRUE
  <2>1. CASE ServerLeaves(s) /\ ks # {}
    <3>1. first \in ks
      BY <2>1
    <3>2. s \in Sessions /\ s # NoSession
      BY <2>1, NilAssumption DEF ServerLeaves, Closable
    <3>3. \A j \in ks : target[s] = j
      BY <3>2 DEF OneConnection
    <3>4. server[k] = s <=> k = first
      BY <3>1, <3>3
    <3>5. ServerAfterClose(s) = [server EXCEPT ![first] = NoSession]
      BY <2>1 DEF ServerAfterClose
    <3> QED
      BY <3>2, <3>4, <3>5 DEF TypeOK
  <2>2. CASE ~(ServerLeaves(s) /\ ks # {})
    <3>1. ServerAfterClose(s) = server
      BY <2>2 DEF ServerAfterClose
    <3>2. ASSUME s # NoSession, server[k] = s PROVE FALSE
      <4>1. status[s] = "open" /\ target[s] = k
        BY <3>2 DEF OneConnection
      <4> QED
        BY <4>1, <3>2, <2>2, ServersAssumption DEF ServerLeaves, Closable, Alive
    <3> QED
      BY <3>1, <3>2
  <2> QED
    BY <2>1, <2>2
<1>3. \A u \in Uids : UidmapAfterClose(s)[u] =
        IF ClientLeaves(s) /\ uid[s] = u /\ uidmap[u] = s THEN NoSession ELSE uidmap[u]
  BY NilAssumption DEF TypeOK, UidmapAfterClose
<1>4. \A i \in 1..MaxUkey : UkeyAfterClose(uk, s)[i] =
        IF HoldsUkey(uk, s) /\ utag[s] = i THEN NoSession ELSE uk[i]
  BY DEF UkeyAfterClose
<1>5. \A t \in Sessions : UtagAfterClose(uk, s)[t] =
        IF HoldsUkey(uk, s) /\ t = s THEN 0 ELSE utag[t]
  BY DEF TypeOK, UtagAfterClose
<1>6. \A u \in Uids : AnnouncedAfterClose(s)[u] =
        IF \/ ServerLeaves(s) /\ server[Logic] = s
           \/ ClientLeaves(s) /\ uid[s] = u /\ server[Logic] # NoSession
        THEN 0 ELSE announced[u]
  BY NilAssumption DEF TypeOK, AnnouncedAfterClose
<1> QED
  BY <1>1, <1>2, <1>3, <1>4, <1>5, <1>6

\* What check_server_connect does to the sessions: the missing servers get one
\* fresh session each.
LEMMA CheckEffect ==
  ASSUME TypeOK, CheckServerConnect
  PROVE  \E slot \in [Missing -> {s \in Sessions : Free(s)}] :
           /\ \A j, k \in Missing : slot[j] = slot[k] => j = k
           /\ \A s \in Sessions :
                \/ /\ \A k \in Missing : slot[k] # s
                   /\ status'[s] = status[s] /\ target'[s] = target[s]
                \/ \E k \in Missing :
                     /\ slot[k] = s /\ status[s] = "free"
                     /\ status'[s] \in {"leaked", "connecting"} /\ target'[s] = k
           /\ status' \in [Sessions -> Status]
           /\ target' \in [Sessions -> Stypes \cup {NoStype}]
<1> DEFINE stypeOf(slot, s) == CHOOSE k \in Missing : slot[k] = s
           new(slot) == {slot[k] : k \in Missing}
<1>1. PICK slot \in [Missing -> {s \in Sessions : Free(s)}],
           failing \in SUBSET Missing :
        /\ \A j, k \in Missing : slot[j] = slot[k] => j = k
        /\ status' = [s \in Sessions |->
             IF s \notin new(slot) THEN status[s]
             ELSE IF stypeOf(slot, s) \in failing THEN "leaked" ELSE "connecting"]
        /\ target' = [s \in Sessions |->
             IF s \in new(slot) THEN stypeOf(slot, s) ELSE target[s]]
  BY DEF CheckServerConnect
<1>2. ASSUME NEW s \in Sessions
      PROVE  /\ \/ /\ \A k \in Missing : slot[k] # s
                   /\ status'[s] = status[s] /\ target'[s] = target[s]
                \/ \E k \in Missing :
                     /\ slot[k] = s /\ status[s] = "free"
                     /\ status'[s] \in {"leaked", "connecting"} /\ target'[s] = k
             /\ status'[s] \in Status
             /\ target'[s] \in Stypes \cup {NoStype}
  <2>1. CASE s \notin new(slot)
    BY <1>1, <2>1 DEF TypeOK
  <2>2. CASE s \in new(slot)
    <3>1. stypeOf(slot, s) \in Missing /\ slot[stypeOf(slot, s)] = s
      BY <2>2
    <3>2. status[s] = "free"
      BY <1>1, <3>1 DEF Free
    <3>3. status'[s] \in {"leaked", "connecting"} /\ target'[s] = stypeOf(slot, s)
      BY <1>1, <2>2
    <3>4. Missing \subseteq Stypes
      BY DEF Missing
    <3> HIDE DEF stypeOf
    <3> QED
      BY <3>1, <3>2, <3>3, <3>4 DEF Status, Alive
  <2> QED
    BY <2>1, <2>2
<1>3. status' \in [Sessions -> Status] /\ target' \in [Sessions -> Stypes \cup {NoStype}]
  <2>1. /\ status' = [s \in Sessions |-> status'[s]]
        /\ target' = [s \in Sessions |-> target'[s]]
    BY <1>1
  <2> QED
    BY <2>1, <1>2
<1> HIDE DEF stypeOf, new
<1> QED
  BY <1>1, <1>2, <1>3

-----------------------------------------------------------------------------
LEMMA TypeInit == Init => TypeOK
<1> SUFFICES ASSUME Init PROVE TypeOK
  OBVIOUS
<1>1. 0 \in 0..MaxUkey /\ 0 \in 0..MaxConn /\ 1 \in 1..(MaxUkey + 1)
  BY BoundAssumption
<1> QED
  BY <1>1 DEF Init, TypeOK, Status, Alive

LEMMA TypeStep ==
  ASSUME TypeOK, [Next]_vars
  PROVE  TypeOK'
<1>0. CASE UNCHANGED vars
  BY <1>0 DEF vars, sessionVars, serverVars, tableVars, TypeOK
<1> SUFFICES ASSUME Step, UNCHANGED environment PROVE TypeOK'
  BY <1>0 DEF Next
<1> USE BoundAssumption, NilAssumption
<1>1. CASE CheckServerConnect
  <2>1. status' \in [Sessions -> Status] /\ target' \in [Sessions -> Stypes \cup {NoStype}]
    BY <1>1, CheckEffect
  <2>2. connecting' \in [Stypes -> BOOLEAN]
    BY <1>1 DEF CheckServerConnect, Missing, TypeOK
  <2> QED
    BY <1>1, <2>1, <2>2 DEF CheckServerConnect, tableVars, TypeOK
<1>2. ASSUME NEW s \in Sessions, Accept(s) PROVE TypeOK'
  <2>1. conns + 1 \in 0..MaxConn
    BY <1>2 DEF Accept, TypeOK
  <2> QED
    BY <1>2, <2>1 DEF Accept, serverVars, tableVars, TypeOK, Status, Alive
<1>3. ASSUME NEW s \in Sessions, Connected(s) PROVE TypeOK'
  BY <1>3 DEF Connected, tableVars, TypeOK, Status, Alive
<1>4. ASSUME NEW s \in Sessions, ConnectFailed(s) PROVE TypeOK'
  BY <1>4 DEF ConnectFailed, NoLongerConnecting, tableVars, TypeOK, Status, Alive
<1>5. ASSUME NEW s \in Sessions, Disconnect(s) PROVE TypeOK'
  <2>1. ukey \in [1..MaxUkey -> Sessions \cup {NoSession}]
    BY DEF TypeOK
  <2> QED
    BY <1>5, <2>1, CloseType DEF Disconnect, CloseSession, TypeOK
<1>6. ASSUME NEW s \in Sessions, Destroy(s) PROVE TypeOK'
  <2>1. 0 \in 0..MaxUkey /\ 0 \in 0..MaxConn
    OBVIOUS
  <2> QED
    BY <1>6, <2>1 DEF Destroy, serverVars, tableVars, TypeOK, Status, Alive
<1>7. ASSUME NEW s \in Sessions, NEW who \in Uids \cup {NoUid}, LoginReq(s, who)
      PROVE  TypeOK'
  <2> DEFINE t == IF utag[s] = 0 THEN g_ukey ELSE utag[s]
             m == [kind |-> "login", via |-> server[Auth], utag |-> t, who |-> who,
                   conn |-> conn[s]]
  <2>1. t \in 1..MaxUkey /\ t \in 0..MaxUkey
    BY <1>7 DEF LoginReq, TypeOK
  <2>2. (IF utag[s] = 0 THEN NextUkey ELSE g_ukey) \in 1..(MaxUkey + 1)
    BY <1>7 DEF LoginReq, NextUkey, TypeOK
  <2>3. m \in LoginAnswer
    <3>1. server[Auth] \in Sessions
      BY <1>7, ServersAssumption DEF LoginReq, TypeOK
    <3>2. conn[s] \in 0..MaxConn
      BY DEF TypeOK
    <3> QED
      BY <2>1, <3>1, <3>2 DEF LoginAnswer
  <2> QED
    BY <1>7, <2>1, <2>2, <2>3 DEF LoginReq, serverVars, TypeOK
<1>8. ASSUME NEW s \in Sessions, LoginLogicReq(s) PROVE TypeOK'
  BY <1>8 DEF LoginLogicReq, sessionVars, serverVars, tableVars, TypeOK
<1>9. ASSUME NEW s \in Sessions, LoginOutReq(s) PROVE TypeOK'
  <2>1. [kind : {"logout"}, via : {server[Auth]}, uid : {uid[s]}] \subseteq LogoutAnswer
    <3>1. server[Auth] \in Sessions /\ uid[s] \in Uids
      BY <1>9, ServersAssumption DEF LoginOutReq, TypeOK
    <3> QED
      BY <3>1 DEF LogoutAnswer
  <2> QED
    BY <1>9, <2>1 DEF LoginOutReq, sessionVars, serverVars, tableVars, TypeOK
<1>10. ASSUME NEW m \in pending, LoginRes(m) PROVE TypeOK'
  <2>1. m.utag \in 1..MaxUkey /\ m.who \in Uids \cup {NoUid}
    BY <1>10 DEF LoginRes, TypeOK, LoginAnswer, LogoutAnswer
  <2> DEFINE c == ukey[m.utag]
             k == Kicked(m.who, c)
             taken == [ukey EXCEPT ![m.utag] = NoSession]
  <2>2. /\ c \in Sessions \cup {NoSession}
        /\ taken \in [1..MaxUkey -> Sessions \cup {NoSession}]
    BY <2>1 DEF TypeOK
  <2>3. CASE Crash
    BY <2>3, <1>10 DEF Crash, sessionVars, serverVars, tableVars, TypeOK
  <2>4. CASE c = NoSession \/ m.who = NoUid
    <3>1. \/ Crash
          \/ /\ ukey' = taken
             /\ pending' = pending \ {m}
             /\ UNCHANGED <<sessionVars, serverVars, g_ukey, uidmap, announced, crashed>>
      BY <1>10, <2>4 DEF LoginRes
    <3> QED
      BY <2>2, <2>3, <3>1 DEF sessionVars, serverVars, TypeOK
  <2>5. CASE m.who # NoUid /\ c # NoSession /\ ~Crash
    <3>1. /\ status' = StatusAfterClose(k)
          /\ server' = ServerAfterClose(k)
          /\ ukey' = UkeyAfterClose(taken, k)
          /\ utag' = UtagAfterClose(taken, k)
          /\ uidmap' = [UidmapAfterClose(k) EXCEPT ![m.who] = c]
          /\ announced' = AnnouncedAfterClose(k)
          /\ uid' = [uid EXCEPT ![c] = m.who]
          /\ pending' = pending \ {m}
          /\ UNCHANGED <<target, conn, conns, connecting, g_ukey, crashed>>
      BY <1>10, <2>5 DEF LoginRes
    <3>2. k \in Sessions \cup {NoSession}
      BY <2>1, <2>5 DEF Kicked, TypeOK
    <3> HIDE DEF k, taken, c
    <3>3. /\ status' \in [Sessions -> Status]
          /\ server' \in [Stypes -> Sessions \cup {NoSession}]
          /\ ukey' \in [1..MaxUkey -> Sessions \cup {NoSession}]
          /\ utag' \in [Sessions -> 0..MaxUkey]
          /\ UidmapAfterClose(k) \in [Uids -> Sessions \cup {NoSession}]
          /\ announced' \in [Uids -> 0..MaxConn]
      BY <2>2, <3>1, <3>2, CloseType
    <3> QED
      BY <2>1, <2>2, <2>5, <3>1, <3>3 DEF TypeOK
  <2> QED
    BY <2>3, <2>4, <2>5
<1>11. ASSUME NEW m \in pending, LoginOutRes(m) PROVE TypeOK'
  <2>1. m.uid \in Uids
    BY <1>11 DEF LoginOutRes, TypeOK, LoginAnswer, LogoutAnswer
  <2> QED
    BY <1>11, <2>1 DEF LoginOutRes, Crash, sessionVars, serverVars, tableVars, TypeOK
<1> QED
  BY <1>1, <1>2, <1>3, <1>4, <1>5, <1>6, <1>7, <1>8, <1>9, <1>10, <1>11 DEF Step

-----------------------------------------------------------------------------
\* A user logs in on c, and k, his earlier session or none, is kicked: what the
\* answer m to a login changes, entry by entry.
LoggedInOn(m, c, k, taken) ==
  /\ c = ukey[m.utag] /\ status[c] # "free" /\ c # k
  /\ k = uidmap[m.who] \/ (k = NoSession /\ uidmap[m.who] = c)
  /\ \A t \in Sessions : status'[t] =
       IF t = k /\ Closable(k)
       THEN IF status[t] = "connecting" THEN "cancelled" ELSE "closing"
       ELSE status[t]
  /\ \A j \in Stypes : server'[j] =
       IF k # NoSession /\ server[j] = k THEN NoSession ELSE server[j]
  /\ \A u \in Uids : uidmap'[u] =
       IF u = m.who THEN c
       ELSE IF ClientLeaves(k) /\ uid[k] = u /\ uidmap[u] = k THEN NoSession ELSE uidmap[u]
  /\ \A i \in 1..MaxUkey : ukey'[i] =
       IF HoldsUkey(taken, k) /\ utag[k] = i THEN NoSession ELSE taken[i]
  /\ \A t \in Sessions : utag'[t] = IF HoldsUkey(taken, k) /\ t = k THEN 0 ELSE utag[t]
  /\ \A u \in Uids : announced'[u] =
       IF \/ ServerLeaves(k) /\ server[Logic] = k
          \/ ClientLeaves(k) /\ uid[k] = u /\ server[Logic] # NoSession
       THEN 0 ELSE announced[u]
  /\ uid' = [uid EXCEPT ![c] = m.who]
  /\ UNCHANGED <<target, conn, conns, connecting, g_ukey, crashed>>

\* The three outcomes of an answer to a login.
LEMMA LoginResEffect ==
  ASSUME TypeOK, OneConnection, NEW m \in pending, LoginRes(m)
  PROVE  LET c == ukey[m.utag]
             taken == [ukey EXCEPT ![m.utag] = NoSession]
         IN  /\ m.utag \in 1..MaxUkey
             /\ pending' \subseteq pending
             /\ taken \in [1..MaxUkey -> Sessions \cup {NoSession}]
             /\ \/ /\ c # NoSession
                   /\ Free(c) \/ (m.who \in Uids /\ Free(uidmap[m.who]))
                   /\ Crash
                \/ /\ ukey' = taken
                   /\ UNCHANGED <<sessionVars, serverVars, g_ukey, uidmap, announced, crashed>>
                \/ /\ c \in Sessions /\ m.who \in Uids
                   /\ \E k \in Sessions \cup {NoSession} : LoggedInOn(m, c, k, taken)
<1> DEFINE c == ukey[m.utag]
           k == Kicked(m.who, c)
           taken == [ukey EXCEPT ![m.utag] = NoSession]
<1>1. m.utag \in 1..MaxUkey /\ m.who \in Uids \cup {NoUid} /\ c \in Sessions \cup {NoSession}
  BY DEF LoginRes, TypeOK, LoginAnswer, LogoutAnswer
<1>2. taken \in [1..MaxUkey -> Sessions \cup {NoSession}]
  BY <1>1 DEF TypeOK
<1>3. pending' \subseteq pending
  BY DEF LoginRes, Crash
<1>4. CASE Crash /\ c # NoSession /\ (Free(c) \/ (m.who # NoUid /\ Free(k)))
  <2>1. Free(k) => k = uidmap[m.who]
    BY DEF Kicked, Free
  <2> QED
    BY <1>1, <1>2, <1>3, <1>4, <2>1
<1>5. CASE /\ ukey' = taken
           /\ UNCHANGED <<sessionVars, serverVars, g_ukey, uidmap, announced, crashed>>
  BY <1>1, <1>2, <1>3, <1>5
<1>6. CASE /\ c # NoSession /\ ~Free(c) /\ m.who # NoUid
           /\ status' = StatusAfterClose(k)
           /\ server' = ServerAfterClose(k)
           /\ ukey' = UkeyAfterClose(taken, k)
           /\ utag' = UtagAfterClose(taken, k)
           /\ uidmap' = [UidmapAfterClose(k) EXCEPT ![m.who] = c]
           /\ announced' = AnnouncedAfterClose(k)
           /\ uid' = [uid EXCEPT ![c] = m.who]
           /\ UNCHANGED <<target, conn, conns, connecting, g_ukey, crashed>>
  <2>1. c \in Sessions /\ status[c] # "free" /\ m.who \in Uids
    BY <1>1, <1>6 DEF Free
  <2>2. /\ k \in Sessions \cup {NoSession}
        /\ k = uidmap[m.who] \/ (k = NoSession /\ uidmap[m.who] = c)
        /\ c # k
    BY <2>1, NilAssumption DEF Kicked, TypeOK
  <2> HIDE DEF k
  <2>3. UidmapAfterClose(k) \in [Uids -> Sessions \cup {NoSession}]
    BY <2>2, <1>2, CloseType
  <2>4. \A u \in Uids : uidmap'[u] =
          IF u = m.who THEN c
          ELSE IF ClientLeaves(k) /\ uid[k] = u /\ uidmap[u] = k THEN NoSession
               ELSE uidmap[u]
    BY <1>2, <1>6, <2>1, <2>2, <2>3, CloseEffect
  <2>5. LoggedInOn(m, c, k, taken)
    <3> HIDE DEF taken, c
    <3>1. c = ukey[m.utag]
      BY DEF c
    <3>2. /\ \A t \in Sessions : status'[t] =
               IF t = k /\ Closable(k)
               THEN IF status[t] = "connecting" THEN "cancelled" ELSE "closing"
               ELSE status[t]
          /\ \A j \in Stypes : server'[j] =
               IF k # NoSession /\ server[j] = k THEN NoSession ELSE server[j]
      BY <1>2, <1>6, <2>2, CloseEffect
    <3>3. /\ \A i \in 1..MaxUkey : ukey'[i] =
               IF HoldsUkey(taken, k) /\ utag[k] = i THEN NoSession ELSE taken[i]
          /\ \A t \in Sessions : utag'[t] =
               IF HoldsUkey(taken, k) /\ t = k THEN 0 ELSE utag[t]
      <4>1. \A i \in 1..MaxUkey : UkeyAfterClose(taken, k)[i] =
              IF HoldsUkey(taken, k) /\ utag[k] = i THEN NoSession ELSE taken[i]
        BY <1>2 DEF UkeyAfterClose
      <4>2. \A t \in Sessions : UtagAfterClose(taken, k)[t] =
              IF HoldsUkey(taken, k) /\ t = k THEN 0 ELSE utag[t]
        BY <1>2, <2>2, CloseEffect
      <4> QED
        BY <1>6, <4>1, <4>2
    <3>4. \A u \in Uids : announced'[u] =
            IF \/ ServerLeaves(k) /\ server[Logic] = k
               \/ ClientLeaves(k) /\ uid[k] = u /\ server[Logic] # NoSession
            THEN 0 ELSE announced[u]
      <4>1. \A u \in Uids : AnnouncedAfterClose(k)[u] =
              IF \/ ServerLeaves(k) /\ server[Logic] = k
                 \/ ClientLeaves(k) /\ uid[k] = u /\ server[Logic] # NoSession
              THEN 0 ELSE announced[u]
        BY <1>2, <2>2, CloseEffect
      <4> QED
        BY <1>6, <4>1
    <3> QED
      BY <1>6, <2>1, <2>2, <2>4, <3>1, <3>2, <3>3, <3>4 DEF LoggedInOn
  <2> QED
    BY <1>1, <1>2, <1>3, <2>1, <2>2, <2>5
<1>7. QED
  BY <1>4, <1>5, <1>6 DEF LoginRes

\* A step keeps the memory on the free list clean.
LEMMA FreeIsCleanStep ==
  ASSUME IInv, [Next]_vars
  PROVE  FreeIsClean'
<1>0. CASE UNCHANGED vars
  BY <1>0 DEF vars, sessionVars, IInv, FreeIsClean
<1> SUFFICES ASSUME Step, UNCHANGED environment PROVE FreeIsClean'
  BY <1>0 DEF Next
<1> USE NilAssumption DEF IInv
<1>1. CASE CheckServerConnect
  BY <1>1, CheckEffect DEF CheckServerConnect, FreeIsClean
<1>2. ASSUME NEW s \in Sessions, Accept(s) PROVE FreeIsClean'
  BY <1>2 DEF Accept, FreeIsClean, TypeOK
<1>3. ASSUME NEW s \in Sessions, Connected(s) PROVE FreeIsClean'
  BY <1>3 DEF Connected, FreeIsClean, TypeOK
<1>4. ASSUME NEW s \in Sessions, ConnectFailed(s) PROVE FreeIsClean'
  BY <1>4 DEF ConnectFailed, FreeIsClean, TypeOK
<1>5. ASSUME NEW s \in Sessions, Disconnect(s) PROVE FreeIsClean'
  <2>1. ukey \in [1..MaxUkey -> Sessions \cup {NoSession}]
    BY DEF TypeOK
  <2> QED
    BY <1>5, <2>1, CloseEffect DEF Disconnect, CloseSession, FreeIsClean
<1>6. ASSUME NEW s \in Sessions, Destroy(s) PROVE FreeIsClean'
  BY <1>6 DEF Destroy, FreeIsClean, TypeOK
<1>7. ASSUME NEW s \in Sessions, NEW who \in Uids \cup {NoUid}, LoginReq(s, who)
      PROVE  FreeIsClean'
  BY <1>7 DEF LoginReq, FromClient, CanRead, FreeIsClean, TypeOK
<1>8. ASSUME NEW s \in Sessions, LoginLogicReq(s) \/ LoginOutReq(s) PROVE FreeIsClean'
  BY <1>8 DEF LoginLogicReq, LoginOutReq, sessionVars, FreeIsClean
<1>9. ASSUME NEW m \in pending, LoginRes(m) PROVE FreeIsClean'
  <2>1. CASE UNCHANGED sessionVars
    BY <2>1 DEF sessionVars, FreeIsClean
  <2>2. ASSUME NEW c \in Sessions, NEW k, NEW taken, LoggedInOn(m, c, k, taken)
        PROVE  FreeIsClean'
    BY <2>2 DEF LoggedInOn, FreeIsClean, TypeOK
  <2> QED
    BY <1>9, <2>1, <2>2, LoginResEffect DEF Crash
<1>10. ASSUME NEW m \in pending, LoginOutRes(m) PROVE FreeIsClean'
  <2>1. uidmap[m.uid] \in Sessions \cup {NoSession}
    BY <1>10 DEF LoginOutRes, TypeOK, LoginAnswer, LogoutAnswer
  <2> QED
    BY <1>10, <2>1 DEF LoginOutRes, Crash, sessionVars, Free, FreeIsClean, TypeOK
<1> QED
  BY <1>1, <1>2, <1>3, <1>4, <1>5, <1>6, <1>7, <1>8, <1>9, <1>10 DEF Step

\* A step keeps track of the attempts to connect and of the connections.
LEMMA ConnectionsStep ==
  ASSUME IInv, [Next]_vars
  PROVE  AttemptsTracked' /\ OneConnection'
<1> DEFINE Goal == AttemptsTracked' /\ OneConnection'
<1>0. CASE UNCHANGED vars
  BY <1>0 DEF vars, sessionVars, serverVars, IInv, AttemptsTracked, Attempt, OneConnection
<1> SUFFICES ASSUME Step, UNCHANGED environment PROVE Goal
  BY <1>0 DEF Next
<1> USE NilAssumption, ServersAssumption DEF IInv
<1>1. CASE CheckServerConnect
  <2>1. PICK slot \in [Missing -> {s \in Sessions : Free(s)}] :
          /\ \A j, k \in Missing : slot[j] = slot[k] => j = k
          /\ \A s \in Sessions :
               \/ /\ \A k \in Missing : slot[k] # s
                  /\ status'[s] = status[s] /\ target'[s] = target[s]
               \/ \E k \in Missing :
                    /\ slot[k] = s /\ status[s] = "free"
                    /\ status'[s] \in {"leaked", "connecting"} /\ target'[s] = k
    BY <1>1, CheckEffect
  <2>2. /\ \A k \in Missing : k \in Stypes /\ server[k] = NoSession /\ ~connecting[k]
        /\ \A k \in Stypes : connecting'[k] = (connecting[k] \/ k \in Missing)
        /\ server' = server
    BY <1>1 DEF CheckServerConnect, Missing
  <2>3. AttemptsTracked'
    <3>1. ASSUME NEW s \in Sessions, Attempt(s)'
          PROVE  \/ /\ \A k \in Missing : slot[k] # s
                    /\ Attempt(s) /\ target'[s] = target[s] /\ target[s] \notin Missing
                 \/ \E k \in Missing : slot[k] = s /\ target'[s] = k
      BY <2>1, <2>2, <3>1 DEF AttemptsTracked, Attempt
    <3>2. ASSUME NEW s \in Sessions, Attempt(s)'
          PROVE  target'[s] \in Stypes /\ connecting'[target'[s]] /\ server'[target'[s]] = NoSession
      <4>1. CASE Attempt(s) /\ target'[s] = target[s]
        <5>1. target[s] \in Stypes /\ connecting[target[s]] /\ server[target[s]] = NoSession
          BY <4>1 DEF AttemptsTracked
        <5> QED
          BY <2>2, <4>1, <5>1
      <4>2. CASE \E k \in Missing : target'[s] = k
        BY <2>2, <4>2
      <4> QED
        BY <3>1, <3>2, <4>1, <4>2
    <3>3. ASSUME NEW s \in Sessions, NEW t \in Sessions, Attempt(s)', Attempt(t)',
                 target'[s] = target'[t]
          PROVE  s = t
      BY <3>1, <3>3 DEF AttemptsTracked
    <3> QED
      BY <3>2, <3>3 DEF AttemptsTracked
  <2>4. OneConnection'
    BY <2>1, <2>2 DEF OneConnection
  <2> QED
    BY <2>3, <2>4
<1>2. ASSUME NEW s \in Sessions, Accept(s) PROVE Goal
  BY <1>2 DEF Accept, serverVars, Free, FreeIsClean, AttemptsTracked, Attempt, OneConnection, TypeOK
<1>3. ASSUME NEW s \in Sessions, Connected(s) PROVE Goal
  BY <1>3 DEF Connected, AttemptsTracked, Attempt, OneConnection, TypeOK
<1>4. ASSUME NEW s \in Sessions, ConnectFailed(s) PROVE Goal
  BY <1>4 DEF ConnectFailed, NoLongerConnecting, AttemptsTracked, Attempt, OneConnection, TypeOK
<1>5. ASSUME NEW s \in Sessions, Disconnect(s) PROVE Goal
  <2>1. ukey \in [1..MaxUkey -> Sessions \cup {NoSession}]
    BY DEF TypeOK
  <2>2. /\ \A t \in Sessions : status'[t] = IF t = s THEN "closing" ELSE status[t]
        /\ \A k \in Stypes : server'[k] = IF server[k] = s THEN NoSession ELSE server[k]
        /\ UNCHANGED <<target, connecting>>
    BY <1>5, <2>1, CloseEffect DEF Disconnect, CloseSession, Closable, Alive
  <2> QED
    BY <1>5, <2>2 DEF Disconnect, AttemptsTracked, Attempt, OneConnection
<1>6. ASSUME NEW s \in Sessions, Destroy(s) PROVE Goal
  BY <1>6 DEF Destroy, serverVars, AttemptsTracked, Attempt, OneConnection, TypeOK
<1>7. CASE UNCHANGED <<status, target, server, connecting>>
  BY <1>7 DEF AttemptsTracked, Attempt, OneConnection
<1>8. ASSUME NEW s \in Sessions, NEW who \in Uids \cup {NoUid}, LoginReq(s, who)
      PROVE  Goal
  BY <1>7, <1>8 DEF LoginReq, serverVars
<1>9. ASSUME NEW s \in Sessions, LoginLogicReq(s) \/ LoginOutReq(s) PROVE Goal
  BY <1>7, <1>9 DEF LoginLogicReq, LoginOutReq, sessionVars, serverVars
<1>10. ASSUME NEW m \in pending, LoginRes(m) PROVE Goal
  <2>1. ASSUME NEW c, NEW k \in Sessions \cup {NoSession}, NEW taken,
               LoggedInOn(m, c, k, taken)
        PROVE  Goal
    <3>1. AttemptsTracked'
      BY <2>1 DEF LoggedInOn, Closable, AttemptsTracked, Attempt, Alive
    <3>2. OneConnection'
      BY <2>1 DEF LoggedInOn, Closable, OneConnection, Alive
    <3> QED
      BY <3>1, <3>2
  <2> QED
    BY <1>7, <1>10, <2>1, LoginResEffect DEF Crash, sessionVars, serverVars
<1>11. ASSUME NEW m \in pending, LoginOutRes(m) PROVE Goal
  BY <1>7, <1>11 DEF LoginOutRes, Crash, sessionVars, serverVars
<1> QED
  BY <1>1, <1>2, <1>3, <1>4, <1>5, <1>6, <1>8, <1>9, <1>10, <1>11 DEF Step

\* A step keeps track of who is logged in.
LEMMA LoginsStep ==
  ASSUME IInv, [Next]_vars
  PROVE  LoginsTracked'
<1>0. CASE UNCHANGED vars
  BY <1>0 DEF vars, sessionVars, tableVars, IInv, LoginsTracked
<1> SUFFICES ASSUME Step, UNCHANGED environment PROVE LoginsTracked'
  BY <1>0 DEF Next
<1> USE NilAssumption DEF IInv
<1>1. CASE CheckServerConnect
  <2>1. \A s \in Sessions : status'[s] = status[s] \/ status[s] = "free"
    BY <1>1, CheckEffect
  <2> QED
    BY <1>1, <2>1 DEF CheckServerConnect, tableVars, FreeIsClean, LoginsTracked
<1>2. ASSUME NEW s \in Sessions, Accept(s) PROVE LoginsTracked'
  BY <1>2 DEF Accept, tableVars, Free, FreeIsClean, LoginsTracked, TypeOK
<1>3. ASSUME NEW s \in Sessions, Connected(s) PROVE LoginsTracked'
  BY <1>3 DEF Connected, tableVars, LoginsTracked, Alive, TypeOK
<1>4. ASSUME NEW s \in Sessions, ConnectFailed(s) PROVE LoginsTracked'
  BY <1>4 DEF ConnectFailed, tableVars, LoginsTracked, Alive, TypeOK
<1>5. ASSUME NEW s \in Sessions, Disconnect(s) PROVE LoginsTracked'
  <2>1. ukey \in [1..MaxUkey -> Sessions \cup {NoSession}]
    BY DEF TypeOK
  <2>2. /\ \A t \in Sessions : status'[t] = IF t = s THEN "closing" ELSE status[t]
        /\ \A u \in Uids : uidmap'[u] =
             IF ClientLeaves(s) /\ uid[s] = u /\ uidmap[u] = s THEN NoSession ELSE uidmap[u]
        /\ uid' = uid
    BY <1>5, <2>1, CloseEffect DEF Disconnect, CloseSession, Closable, Alive
  <2> QED
    BY <2>2 DEF LoginsTracked, Alive, TypeOK
<1>6. ASSUME NEW s \in Sessions, Destroy(s) PROVE LoginsTracked'
  BY <1>6 DEF Destroy, tableVars, LoginsTracked, Alive, TypeOK
<1>7. CASE UNCHANGED <<status, uid, uidmap>>
  BY <1>7 DEF LoginsTracked
<1>8. ASSUME NEW s \in Sessions, NEW who \in Uids \cup {NoUid}, LoginReq(s, who)
      PROVE  LoginsTracked'
  BY <1>7, <1>8 DEF LoginReq
<1>9. ASSUME NEW s \in Sessions, LoginLogicReq(s) \/ LoginOutReq(s) PROVE LoginsTracked'
  BY <1>7, <1>9 DEF LoginLogicReq, LoginOutReq, sessionVars, tableVars
<1>10. ASSUME NEW m \in pending, LoginRes(m) PROVE LoginsTracked'
  <2>1. ASSUME NEW c \in Sessions, NEW k \in Sessions \cup {NoSession}, NEW taken,
               m.who \in Uids, LoggedInOn(m, c, k, taken)
        PROVE  LoginsTracked'
    BY <2>1 DEF LoggedInOn, Closable, LoginsTracked, Alive, TypeOK
  <2> QED
    BY <1>7, <1>10, <2>1, LoginResEffect DEF Crash, sessionVars, tableVars
<1>11. ASSUME NEW m \in pending, LoginOutRes(m) PROVE LoginsTracked'
  <2>1. m.uid \in Uids
    BY <1>11 DEF LoginOutRes, TypeOK, LoginAnswer, LogoutAnswer
  <2>2. CASE /\ uidmap[m.uid] \in Sessions
             /\ uid' = [uid EXCEPT ![uidmap[m.uid]] = NoUid]
             /\ uidmap' = [uidmap EXCEPT ![m.uid] = NoSession]
             /\ status' = status
    BY <2>1, <2>2 DEF LoginsTracked, TypeOK
  <2>3. uidmap[m.uid] \in Sessions \cup {NoSession}
    BY <2>1 DEF TypeOK
  <2> QED
    BY <1>7, <1>11, <2>2, <2>3 DEF LoginOutRes, Crash, sessionVars, tableVars
<1> QED
  BY <1>1, <1>2, <1>3, <1>4, <1>5, <1>6, <1>8, <1>9, <1>10, <1>11 DEF Step

-----------------------------------------------------------------------------
LEMMA InitIInv == Init => IInv
<1> SUFFICES ASSUME Init PROVE IInv
  OBVIOUS
<1>1. FreeIsClean /\ AttemptsTracked /\ LoginsTracked
  BY DEF Init, FreeIsClean, AttemptsTracked, Attempt, LoginsTracked, Alive
<1>2. OneConnection
  BY NilAssumption DEF Init, OneConnection
<1> QED
  BY <1>1, <1>2, TypeInit DEF IInv

LEMMA NextIInv == IInv /\ [Next]_vars => IInv'
  BY TypeStep, FreeIsCleanStep, ConnectionsStep, LoginsStep DEF IInv

LEMMA SpecIInv == Spec => []IInv
  BY InitIInv, NextIInv, PTL DEF Spec

\* The tables and sessions of the gateway have their types always.
THEOREM TypeCorrect == Spec => []TypeOK
<1>1. IInv => TypeOK
  BY DEF IInv
<1> QED
  BY <1>1, SpecIInv, PTL

\* No user has two open sessions, whatever clients and servers do: the login
\* of send_to_client closes the earlier session before it enters the new one.
THEOREM UserHasOneSession == Spec => []SingleLogin
<1>1. IInv => SingleLogin
  BY DEF IInv, LoginsTracked, SingleLogin
<1> QED
  BY <1>1, SpecIInv, PTL

\* do_connecting and server_session_man together keep the gateway from having
\* two connections to a server, and from keeping one that is dead.
THEOREM ServerHasOneConnection == Spec => []OneConnection
<1>1. IInv => OneConnection
  BY DEF IInv
<1> QED
  BY <1>1, SpecIInv, PTL

-----------------------------------------------------------------------------
(***************************************************************************)
(* Connecting again: what Reconnects rests on besides fairness.            *)
(***************************************************************************)

\* libuv is still to report on a connection to server k.
AttemptFor(k) == \E s \in Sessions : Attempt(s) /\ target[s] = k

\* do_connecting is set only while the server is not connected.
ConnectingUnserved == \A k \in Stypes : connecting[k] => server[k] = NoSession

\* do_connecting is not set without an attempt.
ConnectingAttempted ==
  "syncFail" \notin environment => \A k \in Stypes : connecting[k] => AttemptFor(k)

\* Only check_server_connect and the two callbacks of an attempt concern attempts.
LEMMA OtherStepsKeepAttempts ==
  ASSUME IInv, [Next]_vars, ~CheckServerConnect,
         \A s \in Sessions : ~Connected(s) /\ ~ConnectFailed(s)
  PROVE  /\ UNCHANGED connecting
         /\ \A s \in Sessions : Attempt(s)' <=> Attempt(s)
         /\ \A s \in Sessions : Attempt(s) => target'[s] = target[s]
         /\ \A k \in Stypes : server'[k] \in {server[k], NoSession}
<1> USE DEF IInv
<1>1. CASE UNCHANGED <<status, target, connecting, server>>
  BY <1>1 DEF Attempt
<1>2. ASSUME NEW s \in Sessions, Accept(s) \/ Destroy(s)
      PROVE  /\ UNCHANGED <<connecting, server>>
             /\ \A t \in Sessions : t # s => status'[t] = status[t] /\ target'[t] = target[t]
             /\ status[s] \in {"free", "closing"} /\ status'[s] \in {"open", "free"}
  BY <1>2 DEF Accept, Destroy, Free, serverVars, TypeOK
<1>3. CASE \E s \in Sessions : Accept(s) \/ Destroy(s)
  BY <1>2, <1>3 DEF Attempt
<1>4. ASSUME NEW s \in Sessions, Disconnect(s)
      PROVE  /\ UNCHANGED <<connecting, target>> /\ status[s] = "open"
             /\ \A t \in Sessions : status'[t] = IF t = s THEN "closing" ELSE status[t]
             /\ \A k \in Stypes : server'[k] \in {server[k], NoSession}
  <2>1. /\ ukey \in [1..MaxUkey -> Sessions \cup {NoSession}]
        /\ s \in Sessions \cup {NoSession} /\ Closable(s) /\ status[s] = "open"
    BY <1>4, NilAssumption DEF TypeOK, Disconnect, Closable, Alive
  <2> QED
    BY <1>4, <2>1, CloseEffect DEF Disconnect, CloseSession
<1>5. CASE \E s \in Sessions : Disconnect(s)
  BY <1>4, <1>5 DEF Attempt
<1>6. ASSUME NEW m \in pending, LoginRes(m)
      PROVE  /\ UNCHANGED <<connecting, target>>
             /\ \A t \in Sessions :
                  \/ status'[t] = status[t]
                  \/ status[t] = "connecting" /\ status'[t] = "cancelled"
                  \/ status[t] \in {"leaked", "open"} /\ status'[t] = "closing"
             /\ \A k \in Stypes : server'[k] \in {server[k], NoSession}
  <2>1. CASE UNCHANGED <<connecting, target, status, server>>
    BY <2>1
  <2>2. ASSUME NEW c, NEW k, NEW taken, LoggedInOn(m, c, k, taken)
        PROVE  /\ UNCHANGED <<connecting, target>>
               /\ \A t \in Sessions :
                    \/ status'[t] = status[t]
                    \/ status[t] = "connecting" /\ status'[t] = "cancelled"
                    \/ status[t] \in {"leaked", "open"} /\ status'[t] = "closing"
               /\ \A j \in Stypes : server'[j] \in {server[j], NoSession}
    BY <2>2 DEF LoggedInOn, Closable, Alive
  <2> QED
    BY <1>6, <2>1, <2>2, LoginResEffect DEF Crash, sessionVars, serverVars
<1>7. CASE \E m \in pending : LoginRes(m)
  BY <1>6, <1>7 DEF Attempt
<1>8. ASSUME NEW m \in pending, LoginOutRes(m)
      PROVE  UNCHANGED <<status, target, connecting, server>>
  BY <1>8 DEF LoginOutRes, Crash, sessionVars, serverVars
<1>9. ASSUME NEW s \in Sessions,
             \/ \E who \in Uids \cup {NoUid} : LoginReq(s, who)
             \/ LoginLogicReq(s) \/ LoginOutReq(s)
      PROVE  UNCHANGED <<status, target, connecting, server>>
  BY <1>9 DEF LoginReq, LoginLogicReq, LoginOutReq, sessionVars, serverVars
<1>10. CASE UNCHANGED vars
  BY <1>1, <1>10 DEF vars, sessionVars, serverVars
<1> QED
  BY <1>1, <1>3, <1>5, <1>7, <1>8, <1>9, <1>10 DEF Next, Step

\* The end of an attempt, good or bad, clears do_connecting for its server.
LEMMA AttemptEnds ==
  ASSUME IInv, NEW s \in Sessions, Connected(s) \/ ConnectFailed(s)
  PROVE  /\ target[s] \in Stypes /\ Attempt(s) /\ ~Attempt(s)' /\ UNCHANGED target
         /\ \A t \in Sessions : t # s => (Attempt(t)' <=> Attempt(t))
         /\ \A k \in Stypes : connecting'[k] = IF k = target[s] THEN FALSE ELSE connecting[k]
         /\ \A k \in Stypes : k # target[s] => server'[k] = server[k]
<1>1. Attempt(s) /\ UNCHANGED target
  BY DEF Connected, ConnectFailed, Attempt
<1>2. target[s] \in Stypes
  BY <1>1 DEF IInv, AttemptsTracked
<1> QED
  BY <1>1, <1>2 DEF Connected, ConnectFailed, NoLongerConnecting, Attempt, IInv, TypeOK

\* check_server_connect begins one attempt for each server it finds missing.
LEMMA CheckAttempts ==
  ASSUME IInv, CheckServerConnect
  PROVE  /\ UNCHANGED server
         /\ \A k \in Stypes : connecting'[k] = (connecting[k] \/ k \in Missing)
         /\ \A s \in Sessions : Attempt(s) => Attempt(s)' /\ target'[s] = target[s]
         /\ \A s \in Sessions : Attempt(s)' /\ ~Attempt(s) => target'[s] \in Missing
         /\ "syncFail" \notin environment => \A k \in Missing : AttemptFor(k)'
<1>1. TypeOK
  BY DEF IInv
<1>2. /\ UNCHANGED server
      /\ \A k \in Stypes : connecting'[k] = (connecting[k] \/ k \in Missing)
  BY DEF CheckServerConnect
<1>3. \A s \in Sessions :
        \/ status'[s] = status[s] /\ target'[s] = target[s]
        \/ /\ status[s] = "free" /\ target'[s] \in Missing
           /\ status'[s] \in {"leaked", "connecting"}
  BY <1>1, CheckEffect
<1>4. ASSUME "syncFail" \notin environment, NEW k \in Missing
      PROVE  AttemptFor(k)'
  <2>1. PICK slot \in [Missing -> {s \in Sessions : Free(s)}] :
          /\ \A i, j \in Missing : slot[i] = slot[j] => i = j
          /\ status' = [s \in Sessions |->
               IF s \notin {slot[j] : j \in Missing} THEN status[s] ELSE "connecting"]
          /\ target' = [s \in Sessions |->
               IF s \in {slot[j] : j \in Missing}
               THEN CHOOSE j \in Missing : slot[j] = s ELSE target[s]]
    BY <1>4 DEF CheckServerConnect
  <2>2. slot[k] \in Sessions /\ slot[k] \in {slot[j] : j \in Missing}
    BY <2>1
  <2>3. (CHOOSE j \in Missing : slot[j] = slot[k]) = k
    BY <2>1
  <2>4. status'[slot[k]] = "connecting" /\ target'[slot[k]] = k
    BY <2>1, <2>2, <2>3
  <2> QED
    BY <2>2, <2>4 DEF AttemptFor, Attempt
<1> QED
  BY <1>2, <1>3, <1>4 DEF Attempt

LEMMA EnvironmentStays == [Next]_vars => environment' = environment
  BY DEF Next, vars

LEMMA ConnectingStep ==
  ASSUME IInv, ConnectingUnserved, ConnectingAttempted, [Next]_vars
  PROVE  ConnectingUnserved' /\ ConnectingAttempted'
<1>1. CASE CheckServerConnect
  <2>1. ConnectingUnserved'
    BY <1>1, CheckAttempts DEF ConnectingUnserved, Missing
  <2>2. ASSUME "syncFail" \notin environment, NEW k \in Stypes, connecting'[k]
        PROVE  AttemptFor(k)'
    <3>1. CASE k \in Missing
      BY <1>1, <2>2, <3>1, CheckAttempts
    <3>2. CASE k \notin Missing
      <4>1. connecting[k]
        BY <1>1, <2>2, <3>2, CheckAttempts
      <4>2. PICK s \in Sessions : Attempt(s) /\ target[s] = k
        BY <2>2, <4>1 DEF ConnectingAttempted, AttemptFor
      <4>3. Attempt(s)' /\ target'[s] = k
        BY <1>1, <4>2, CheckAttempts
      <4> QED
        BY <4>3 DEF AttemptFor
    <3> QED
      BY <3>1, <3>2
  <2> QED
    BY <2>1, <2>2, EnvironmentStays DEF ConnectingAttempted
<1>2. ASSUME NEW s \in Sessions, Connected(s) \/ ConnectFailed(s)
      PROVE  ConnectingUnserved' /\ ConnectingAttempted'
  <2>1. ConnectingUnserved'
    BY <1>2, AttemptEnds DEF ConnectingUnserved
  <2>2. ASSUME "syncFail" \notin environment, NEW k \in Stypes, connecting'[k]
        PROVE  AttemptFor(k)'
    <3>1. k # target[s] /\ connecting[k]
      BY <1>2, <2>2, AttemptEnds
    <3>2. PICK t \in Sessions : Attempt(t) /\ target[t] = k
      BY <2>2, <3>1 DEF ConnectingAttempted, AttemptFor
    <3>3. Attempt(t)' /\ target'[t] = k
      BY <1>2, <3>1, <3>2, AttemptEnds
    <3> QED
      BY <3>3 DEF AttemptFor
  <2> QED
    BY <2>1, <2>2, EnvironmentStays DEF ConnectingAttempted
<1>3. CASE ~CheckServerConnect /\ \A s \in Sessions : ~Connected(s) /\ ~ConnectFailed(s)
  <2>1. ConnectingUnserved'
    BY <1>3, OtherStepsKeepAttempts DEF ConnectingUnserved
  <2>2. ASSUME NEW k \in Stypes, AttemptFor(k)
        PROVE  AttemptFor(k)'
    <3>1. PICK s \in Sessions : Attempt(s) /\ target[s] = k
      BY <2>2 DEF AttemptFor
    <3>2. Attempt(s)' /\ target'[s] = k
      BY <1>3, <3>1, OtherStepsKeepAttempts
    <3> QED
      BY <3>2 DEF AttemptFor
  <2>3. UNCHANGED connecting
    BY <1>3, OtherStepsKeepAttempts
  <2> QED
    BY <2>1, <2>2, <2>3, EnvironmentStays DEF ConnectingAttempted
<1> QED
  BY <1>1, <1>2, <1>3

LEMMA SpecConnecting == Spec => [](ConnectingUnserved /\ ConnectingAttempted)
<1>1. Init => ConnectingUnserved /\ ConnectingAttempted
  BY DEF Init, ConnectingUnserved, ConnectingAttempted
<1> QED
  BY <1>1, ConnectingStep, SpecIInv, PTL DEF Spec

\* Each server is connected, or the next check_server_connect connects to it, or an
\* attempt to do so is under way.
NoServerGivenUp ==
  "syncFail" \notin environment =>
    \A k \in Stypes : server[k] # NoSession \/ k \in Missing \/ AttemptFor(k)

\* As long as uv_tcp_connect reports failures through its callback, do_connecting never
\* keeps the gateway from connecting to a server again: it is cleared on every path.
THEOREM EveryServerTried == Spec => []NoServerGivenUp
<1>1. ConnectingAttempted => NoServerGivenUp
  BY DEF ConnectingAttempted, NoServerGivenUp, Missing
<1> QED
  BY <1>1, SpecConnecting, PTL

\* do_connecting is set for server k and nothing will clear it.
Forgotten(k) == connecting[k] /\ ~AttemptFor(k)

ForgottenForEver ==
  \A k \in Stypes : Forgotten(k) => Forgotten(k)' /\ server'[k] = NoSession

\* Where uv_tcp_connect fails at once there is no way back: netbus::tcp_connect returns
\* without the callback, do_connecting stays set, and check_server_connect passes the
\* server over in every later round.
THEOREM SyncFailureIsFinal == Spec => [][ForgottenForEver]_vars
<1>1. IInv /\ ConnectingUnserved /\ [Next]_vars => ForgottenForEver
  <2> SUFFICES ASSUME IInv, ConnectingUnserved, [Next]_vars, NEW k \in Stypes,
                      connecting[k], ~AttemptFor(k)
               PROVE  connecting'[k] /\ ~AttemptFor(k)' /\ server'[k] = NoSession
    BY DEF ForgottenForEver, Forgotten
  <2>1. server[k] = NoSession /\ k \notin Missing
    BY DEF ConnectingUnserved, Missing
  <2>2. ASSUME NEW s \in Sessions, Attempt(s)', target'[s] = k
        PROVE  FALSE
    <3>1. ~(Attempt(s) /\ target[s] = k)
      BY DEF AttemptFor
    <3>2. CASE CheckServerConnect
      BY <2>1, <2>2, <3>1, <3>2, CheckAttempts
    <3>3. CASE \E t \in Sessions : Connected(t) \/ ConnectFailed(t)
      BY <2>2, <3>1, <3>3, AttemptEnds
    <3>4. CASE ~CheckServerConnect /\ \A t \in Sessions : ~Connected(t) /\ ~ConnectFailed(t)
      BY <2>2, <3>1, <3>4, OtherStepsKeepAttempts
    <3> QED
      BY <3>2, <3>3, <3>4
  <2>3. connecting'[k] /\ server'[k] = NoSession
    <3>1. CASE CheckServerConnect
      BY <2>1, <3>1, CheckAttempts
    <3>2. CASE \E t \in Sessions : Connected(t) \/ ConnectFailed(t)
      <4>1. PICK t \in Sessions : Connected(t) \/ ConnectFailed(t)
        BY <3>2
      <4>2. target[t] # k
        BY <4>1, AttemptEnds DEF AttemptFor
      <4> QED
        BY <2>1, <4>1, <4>2, AttemptEnds
    <3>3. CASE ~CheckServerConnect /\ \A t \in Sessions : ~Connected(t) /\ ~ConnectFailed(t)
      BY <2>1, <3>3, OtherStepsKeepAttempts
    <3> QED
      BY <3>1, <3>2, <3>3
  <2> QED
    BY <2>2, <2>3 DEF AttemptFor
<1> QED
  BY <1>1, SpecIInv, SpecConnecting, PTL DEF Spec
=============================================================================
