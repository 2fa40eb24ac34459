------------------------------- MODULE Gateway ------------------------------
(***************************************************************************)
(* The gateway process: gateway/gw_service.lua on the sessions of netbus.  *)
(*                                                                         *)
(* The gateway accepts clients, keeps one connection to every server of    *)
(* game_config.servers, and forwards commands between them.  It finds the  *)
(* client of an answer in two tables: client_sessions_ukey (utag ->        *)
(* session) for login answers, client_sessions_uid (uid -> session) for    *)
(* all others.  The tables hold session pointers.  A session is closed in  *)
(* two steps: uv_session::close runs the disconnect handlers at once, and  *)
(* the memory goes back to session_allocer when libuv has closed the       *)
(* handle; a later connection gets the same address.  A session that is    *)
(* already closing can still be read from.                                 *)
(*                                                                         *)
(* Every handler runs to its end in the one libuv loop, so each is one     *)
(* action.  environment, chosen at the start, names what the surroundings  *)
(* may do:                                                                 *)
(*   "switchUser"      a client logs in again without logging out first,   *)
(*   "readAfterClose"  commands of a closing session are still processed,  *)
(*   "logout"          clients log out,                                    *)
(*   "serverLoss"      connections to the servers break,                   *)
(*   "syncFail"        uv_tcp_connect itself fails.                        *)
(***************************************************************************)
EXTENDS Naturals, FiniteSets

CONSTANTS
  Sessions,              \* the addresses of session_allocer
  NoSession,             \* nil in place of a session
  Stypes, Auth, Logic,   \* the server types, two of which have a part here
  NoStype,               \* the session is not a connection to a server
  Uids, NoUid,           \* the users; uid 0
  MaxUkey,               \* bound: utags handed out
  MaxConn,               \* bound: clients accepted
  MaxPending,            \* bound: requests unanswered at a time
  Environments           \* the environments to consider

ASSUME ServersAssumption == {Auth, Logic} \subseteq Stypes /\ NoStype \notin Stypes
ASSUME NilAssumption == NoSession \notin Sessions /\ NoUid \notin Uids
ASSUME BoundAssumption == MaxUkey \in Nat /\ MaxConn \in Nat /\ MaxPending \in Nat

VARIABLES
  environment,           \* what the surroundings may do
  status,                \* where a session is in its life
  target,                \* the server type a session connects to (as_client)
  utag, uid,             \* the fields of session
  conn,                  \* which accepted client a session is (history)
  conns,                 \* clients accepted so far (history)
  server,                \* server_session_man
  connecting,            \* do_connecting
  g_ukey,                \* the next utag
  ukey,                  \* client_sessions_ukey
  uidmap,                \* client_sessions_uid
  pending,               \* requests a server has not answered
  announced,             \* announced[u]: the client the logic server was told
                         \* to be u on the present connection (history)
  crashed                \* a released session was used

sessionVars == <<status, target, utag, uid, conn, conns>>
serverVars == <<server, connecting>>
tableVars == <<g_ukey, ukey, uidmap>>
vars == <<environment, sessionVars, serverVars, tableVars, pending, announced, crashed>>

\* connecting: uv_tcp_connect is under way; leaked: it failed at once and
\* nobody keeps the session; cancelled: closed while connecting.
Alive == {"connecting", "leaked", "open"}
Status == Alive \cup {"free", "cancelled", "closing"}

\* The answer to a login: who the auth server takes the client for, NoUid if it
\* rejects it; and the answer to a logout.  via is the connection it comes by.
LoginAnswer ==
  [kind : {"login"}, via : Sessions, utag : 1..MaxUkey, who : Uids \cup {NoUid},
   conn : 0..MaxConn]
LogoutAnswer == [kind : {"logout"}, via : Sessions, uid : Uids]

\* Type correctness of sessions, tables and answers.
TypeOK ==
  /\ environment \in Environments
  /\ status \in [Sessions -> Status]
  /\ target \in [Sessions -> Stypes \cup {NoStype}]
  /\ utag \in [Sessions -> 0..MaxUkey]
  /\ uid \in [Sessions -> Uids \cup {NoUid}]
  /\ conn \in [Sessions -> 0..MaxConn]
  /\ conns \in 0..MaxConn
  /\ server \in [Stypes -> Sessions \cup {NoSession}]
  /\ connecting \in [Stypes -> BOOLEAN]
  /\ g_ukey \in 1..(MaxUkey + 1)
  /\ ukey \in [1..MaxUkey -> Sessions \cup {NoSession}]
  /\ uidmap \in [Uids -> Sessions \cup {NoSession}]
  /\ pending \subseteq (LoginAnswer \cup LogoutAnswer)
  /\ announced \in [Uids -> 0..MaxConn]
  /\ crashed \in BOOLEAN

\* gw_service_init: no server connected, tables empty.
Init ==
  /\ environment \in Environments
  /\ status = [s \in Sessions |-> "free"]
  /\ target = [s \in Sessions |-> NoStype]
  /\ utag = [s \in Sessions |-> 0]
  /\ uid = [s \in Sessions |-> NoUid]
  /\ conn = [s \in Sessions |-> 0]
  /\ conns = 0
  /\ server = [k \in Stypes |-> NoSession]
  /\ connecting = [k \in Stypes |-> FALSE]
  /\ g_ukey = 1
  /\ ukey = [t \in 1..MaxUkey |-> NoSession]
  /\ uidmap = [u \in Uids |-> NoSession]
  /\ pending = {}
  /\ announced = [u \in Uids |-> 0]
  /\ crashed = FALSE

-----------------------------------------------------------------------------
(***************************************************************************)
(* uv_session::close and the disconnect handler it calls.  The operators   *)
(* give the tables after the closing of s, which may be NoSession (nothing *)
(* is closed) or closing already (close returns at once).                  *)
(***************************************************************************)
Free(s) == s # NoSession /\ status[s] = "free"
Closable(s) == s # NoSession /\ status[s] \in Alive
ClientLeaves(s) == Closable(s) /\ target[s] = NoStype
ServerLeaves(s) == Closable(s) /\ target[s] # NoStype

StatusAfterClose(s) ==
  IF Closable(s)
  THEN [status EXCEPT ![s] = IF @ = "connecting" THEN "cancelled" ELSE "closing"]
  ELSE status

\* A bug the handler could have: the server table keeps the dead connection.
ServerKeptAfterClose(s) == server

\* on_gw_session_disconnect for a connection to a server: the first entry of
\* server_session_man that holds it is cleared.
ServerAfterClose(s) ==
  LET ks == {k \in Stypes : server[k] = s}
  IN  IF ServerLeaves(s) /\ ks # {}
      THEN [server EXCEPT ![CHOOSE k \in ks : TRUE] = NoSession]
      ELSE server

\* on_gw_session_disconnect for a client: is s the holder of its utag?
HoldsUkey(uk, s) == ClientLeaves(s) /\ utag[s] # 0 /\ uk[utag[s]] = s

\* A bug the handler could have: the login table keeps the session.
UkeyKeptAfterClose(uk, s) == uk

\* A bug the handler could have: 0, the utag of nobody, in place of nil.
UkeyZeroAfterClose(uk, s) ==
  IF HoldsUkey(uk, s) THEN [uk EXCEPT ![utag[s]] = 0] ELSE uk

\* The login table uk once s has gone.
UkeyAfterClose(uk, s) ==
  IF HoldsUkey(uk, s) THEN [uk EXCEPT ![utag[s]] = NoSession] ELSE uk

\* Session.set_utag(s, 0) goes with clearing the entry.
UtagAfterClose(uk, s) ==
  IF HoldsUkey(uk, s) THEN [utag EXCEPT ![s] = 0] ELSE utag

\* A bug the handler could have: the user table keeps the session.
UidmapKeptAfterClose(s) == uidmap

\* The user table once s has gone.
UidmapAfterClose(s) ==
  IF ClientLeaves(s) /\ uid[s] # NoUid /\ uidmap[uid[s]] = s
  THEN [uidmap EXCEPT ![uid[s]] = NoSession]
  ELSE uidmap

\* A bug the handler could have: nobody hears of the lost client.
LossNotAnnounced(s) == announced

\* eUserLostConn goes to every server that is connected.  What the logic
\* server was told on a connection is void when the connection breaks.
AnnouncedAfterClose(s) ==
  IF ServerLeaves(s) /\ server[Logic] = s THEN [u \in Uids |-> 0]
  ELSE IF ClientLeaves(s) /\ uid[s] # NoUid /\ server[Logic] # NoSession
       THEN [announced EXCEPT ![uid[s]] = 0]
       ELSE announced

\* session.close() as an action of its own, when nothing else happens.
CloseSession(s) ==
  /\ status' = StatusAfterClose(s)
  /\ server' = ServerAfterClose(s)
  /\ ukey' = UkeyAfterClose(ukey, s)
  /\ utag' = UtagAfterClose(ukey, s)
  /\ uidmap' = UidmapAfterClose(s)
  /\ announced' = AnnouncedAfterClose(s)
  /\ UNCHANGED <<target, uid, conn, conns, g_ukey, pending, crashed>>

\* A virtual call on a session whose memory is on the free list: its vtable
\* pointer is the link of the list, and the process is gone.
Crash ==
  /\ crashed' = TRUE
  /\ UNCHANGED <<sessionVars, serverVars, tableVars, pending, announced>>

-----------------------------------------------------------------------------
\* uv_connection: a client connects and gets a fresh session.
Accept(s) ==
  /\ Free(s)
  /\ conns < MaxConn
  /\ conns' = conns + 1
  /\ status' = [status EXCEPT ![s] = "open"]
  /\ conn' = [conn EXCEPT ![s] = conns + 1]
  /\ UNCHANGED <<target, utag, uid, serverVars, tableVars, pending, announced, crashed>>

\* A bug check_server_connect could have: it does not look at do_connecting.
MissingEvenIfConnecting == {k \in Stypes : server[k] = NoSession}

\* The servers check_server_connect connects to.
Missing == {k \in Stypes : server[k] = NoSession /\ ~connecting[k]}

\* check_server_connect, every five seconds: connect_to_server for each server
\* that is neither connected nor being connected to.  Where uv_tcp_connect
\* fails at once (failing), netbus::tcp_connect returns without the callback.
CheckServerConnect ==
  LET missing == Missing
  IN  \E slot \in [missing -> {s \in Sessions : Free(s)}],
         failing \in SUBSET missing :
        /\ \A j, k \in missing : slot[j] = slot[k] => j = k
        /\ failing # {} => "syncFail" \in environment
        /\ LET new == {slot[k] : k \in missing}
               stypeOf(s) == CHOOSE k \in missing : slot[k] = s
           IN  /\ status' = [s \in Sessions |->
                    IF s \notin new THEN status[s]
                    ELSE IF stypeOf(s) \in failing THEN "leaked" ELSE "connecting"]
               /\ target' = [s \in Sessions |->
                    IF s \in new THEN stypeOf(s) ELSE target[s]]
        /\ connecting' = [k \in Stypes |-> connecting[k] \/ k \in missing]
        /\ UNCHANGED <<utag, uid, conn, conns, server, tableVars, pending, announced, crashed>>

\* after_connect with status 0: the callback of connect_to_server stores the
\* session.
Connected(s) ==
  /\ status[s] = "connecting"
  /\ status' = [status EXCEPT ![s] = "open"]
  /\ connecting' = [connecting EXCEPT ![target[s]] = FALSE]
  /\ server' = [server EXCEPT ![target[s]] = s]
  /\ UNCHANGED <<target, utag, uid, conn, conns, tableVars, pending, announced, crashed>>

\* A bug the callback could have: the attempt still counts as under way.
StillConnecting(k) == connecting

\* The callback of connect_to_server with an error.
NoLongerConnecting(k) == [connecting EXCEPT ![k] = FALSE]

\* after_connect with an error: callback, then s->close().
ConnectFailed(s) ==
  /\ \/ status[s] = "connecting" /\ "serverLoss" \in environment
     \/ status[s] = "cancelled"
  /\ connecting' = NoLongerConnecting(target[s])
  /\ status' = [status EXCEPT ![s] = "closing"]
  /\ UNCHANGED <<target, utag, uid, conn, conns, server, tableVars, pending,
                 announced, crashed>>

\* after_read with an error, or on_recv_client_command closing the session of
\* a client that asks for an unknown service.
Disconnect(s) ==
  /\ status[s] = "open"
  /\ target[s] # NoStype => "serverLoss" \in environment
  /\ CloseSession(s)
  /\ UNCHANGED connecting

\* on_close: libuv has closed the handle; uv_session::destroy.  What is still
\* to come by this connection is lost.  The fields are set here and not by the
\* constructor of the next session at the address: nobody reads them between.
Destroy(s) ==
  /\ status[s] = "closing"
  /\ status' = [status EXCEPT ![s] = "free"]
  /\ target' = [target EXCEPT ![s] = NoStype]
  /\ utag' = [utag EXCEPT ![s] = 0]
  /\ uid' = [uid EXCEPT ![s] = NoUid]
  /\ conn' = [conn EXCEPT ![s] = 0]
  /\ pending' = {m \in pending : m.via # s}
  /\ UNCHANGED <<conns, serverVars, tableVars, announced, crashed>>

-----------------------------------------------------------------------------
\* on_recv_tcp_data runs for an open session, and for a closing one until its
\* handle is closed.
CanRead(s) ==
  \/ status[s] = "open"
  \/ status[s] = "closing" /\ "readAfterClose" \in environment

\* on_gw_recv_raw_cmd gives the commands of clients to send_to_server.
FromClient(s) == CanRead(s) /\ target[s] = NoStype

\* A bug send_to_server could have: the next utag stays the same.
UkeyNotAdvanced == g_ukey

\* g_ukey = g_ukey + 1
NextUkey == g_ukey + 1

\* send_to_server, eGuestLoginReq or eUnameLoginReq: the session gets a utag if
\* it has none and is entered in the login table; who is what the auth server
\* will answer.
LoginReq(s, who) ==
  /\ FromClient(s)
  /\ server[Auth] # NoSession
  /\ uid[s] # NoUid => "switchUser" \in environment
  /\ Cardinality(pending) < MaxPending
  /\ utag[s] = 0 => g_ukey <= MaxUkey
  /\ LET t == IF utag[s] = 0 THEN g_ukey ELSE utag[s]
     IN  /\ utag' = [utag EXCEPT ![s] = t]
         /\ g_ukey' = IF utag[s] = 0 THEN NextUkey ELSE g_ukey
         /\ ukey' = [ukey EXCEPT ![t] = s]
         /\ pending' = pending \cup
              {[kind |-> "login", via |-> server[Auth], utag |-> t, who |-> who,
                conn |-> conn[s]]}
  /\ UNCHANGED <<status, target, uid, conn, conns, serverVars, uidmap, announced, crashed>>

\* send_to_server, eLoginLogicReq: forwarded under the uid of the session.
LoginLogicReq(s) ==
  /\ FromClient(s)
  /\ server[Logic] # NoSession
  /\ uid[s] # NoUid
  /\ announced' = [announced EXCEPT ![uid[s]] = conn[s]]
  /\ UNCHANGED <<sessionVars, serverVars, tableVars, pending, crashed>>

\* send_to_server, any other command, of which eLoginOutReq is the one whose
\* answer changes the tables.
LoginOutReq(s) ==
  /\ "logout" \in environment
  /\ FromClient(s)
  /\ server[Auth] # NoSession
  /\ uid[s] # NoUid
  /\ Cardinality(pending) < MaxPending
  /\ pending' = pending \cup [kind : {"logout"}, via : {server[Auth]}, uid : {uid[s]}]
  /\ UNCHANGED <<sessionVars, serverVars, tableVars, announced, crashed>>

-----------------------------------------------------------------------------
\* A bug send_to_client could have: the earlier session stays.
NobodyKicked(u, c) == NoSession

\* The session send_to_client closes with eRelogin when u logs in on c.
Kicked(u, c) == IF uidmap[u] # c THEN uidmap[u] ELSE NoSession

\* send_to_client for a login answer.
LoginRes(m) ==
  LET c == ukey[m.utag]
      taken == [ukey EXCEPT ![m.utag] = NoSession]
  IN  /\ m \in pending /\ m.kind = "login"
      /\ CanRead(m.via)
      /\ \/ \* nobody waits for the answer, or it is a refusal
            /\ ~Free(c) /\ (c = NoSession \/ m.who = NoUid)
            /\ ukey' = taken
            /\ pending' = pending \ {m}
            /\ UNCHANGED <<sessionVars, serverVars, g_ukey, uidmap, announced, crashed>>
         \/ \* a session is touched that is no more
            /\ c # NoSession
            /\ Free(c) \/ (m.who # NoUid /\ Free(Kicked(m.who, c)))
            /\ Crash
         \/ \* the client is logged in, an earlier session of the user kicked
            /\ c # NoSession /\ ~Free(c)
            /\ m.who # NoUid
            /\ LET k == Kicked(m.who, c)
               IN  /\ ~Free(k)
                   /\ status' = StatusAfterClose(k)
                   /\ server' = ServerAfterClose(k)
                   /\ ukey' = UkeyAfterClose(taken, k)
                   /\ utag' = UtagAfterClose(taken, k)
                   /\ uidmap' = [UidmapAfterClose(k) EXCEPT ![m.who] = c]
                   /\ announced' = AnnouncedAfterClose(k)
            /\ uid' = [uid EXCEPT ![c] = m.who]
            /\ pending' = pending \ {m}
            /\ UNCHANGED <<target, conn, conns, connecting, g_ukey, crashed>>

\* send_to_client for eLoginOutRes: the session the user table holds for the
\* uid of the answer is logged out.  The logic server is not told.
LoginOutRes(m) ==
  /\ m \in pending /\ m.kind = "logout"
  /\ CanRead(m.via)
  /\ LET c == uidmap[m.uid]
     IN  \/ /\ c = NoSession
            /\ pending' = pending \ {m}
            /\ UNCHANGED <<sessionVars, serverVars, tableVars, announced, crashed>>
         \/ Free(c) /\ Crash
         \/ /\ c # NoSession /\ ~Free(c)
            /\ uid' = [uid EXCEPT ![c] = NoUid]
            /\ uidmap' = [uidmap EXCEPT ![m.uid] = NoSession]
            /\ pending' = pending \ {m}
            /\ UNCHANGED <<status, target, utag, conn, conns, serverVars, g_ukey,
                           ukey, announced, crashed>>

Step ==
  \/ CheckServerConnect
  \/ \E s \in Sessions :
       \/ Accept(s) \/ Connected(s) \/ ConnectFailed(s) \/ Disconnect(s) \/ Destroy(s)
       \/ \E who \in Uids \cup {NoUid} : LoginReq(s, who)
       \/ LoginLogicReq(s) \/ LoginOutReq(s)
  \/ \E m \in pending : LoginRes(m) \/ LoginOutRes(m)

\* The process runs until it crashes.
Next == ~crashed /\ Step /\ UNCHANGED environment

Spec == Init /\ [][Next]_vars

(***************************************************************************)
(* Fairness.  The timer of check_server_connect repeats for ever, libuv    *)
(* finishes closing a handle and reports the end of every attempt to       *)
(* connect, and a server that is tried again and again answers at last.    *)
(***************************************************************************)
FairSpec ==
  /\ Spec
  /\ WF_vars(~crashed /\ CheckServerConnect /\ UNCHANGED environment)
  /\ \A s \in Sessions :
       /\ WF_vars(~crashed /\ Destroy(s) /\ UNCHANGED environment)
       /\ WF_vars(~crashed /\ (Connected(s) \/ ConnectFailed(s)) /\ UNCHANGED environment)
  /\ \A k \in Stypes :
       SF_vars(~crashed /\ (\E s \in Sessions : target[s] = k /\ Connected(s))
               /\ UNCHANGED environment)

-----------------------------------------------------------------------------
(***************************************************************************)
(* Properties                                                              *)
(***************************************************************************)
\* Whatever the environment does, no two sessions that are not closed are
\* logged in as the same user: send_to_client kicks the earlier one.
SingleLogin ==
  \A s, t \in Sessions :
    status[s] \in Alive /\ status[t] \in Alive /\ uid[s] = uid[t] /\ uid[s] # NoUid
      => s = t

\* Whatever the environment does, the gateway has at most one connection to
\* each server, the one server_session_man names, and no entry is a dead one.
OneConnection ==
  \A k \in Stypes : \A s \in Sessions :
    server[k] = s <=> status[s] = "open" /\ target[s] = k

\* Clients log out before they log in again, and closing sessions are silent.
Orderly == environment \cap {"switchUser", "readAfterClose"} = {}

\* The user table leads to the client that is logged in as the user.
RoutingSound ==
  Orderly => \A u \in Uids :
    uidmap[u] # NoSession =>
      /\ status[uidmap[u]] = "open"
      /\ target[uidmap[u]] = NoStype
      /\ uid[uidmap[u]] = u

\* The session that will get the answer to a login is the very connection
\* that asked for it, even where addresses of sessions are used again.
LoginToRequester ==
  Orderly => \A m \in {a \in pending : a.kind = "login"} :
    ukey[m.utag] # NoSession =>
      status[ukey[m.utag]] = "open" /\ conn[ukey[m.utag]] = m.conn

\* No handler touches a session that has been destroyed.
NoUseAfterFree == Orderly => ~crashed

\* A user the logic server was told to be here is still here on the same
\* connection: on_gw_session_disconnect reports every loss to it.  (It knows
\* nothing of a client that has logged out: nobody logs out here.)
LossAnnounced ==
  Orderly /\ "logout" \notin environment => \A u \in Uids :
    announced[u] # 0 =>
      \E s \in Sessions : status[s] = "open" /\ conn[s] = announced[u]

\* A server that is not connected is connected to again, unless
\* uv_tcp_connect fails at once.
Reconnects == \A k \in Stypes : (server[k] = NoSession) ~> (server[k] # NoSession)

\* gw_service.lua:209 on a client that has gone: "delete the client from the
\* uid table".
GoneFromUidTable ==
  \A u \in Uids : uidmap[u] # NoSession => status[uidmap[u]] \in Alive
=============================================================================
