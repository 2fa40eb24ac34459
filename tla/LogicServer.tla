----------------------------- MODULE LogicServer ----------------------------
(***************************************************************************)
(* The logic server: logic_server/game_mgr.lua and, up to the start of a   *)
(* match, match_mgr.lua (FrameSync takes over from there).                 *)
(*                                                                         *)
(* One gateway is connected at a time.  It tells the server who logs in    *)
(* (eLoginLogicReq), enters a zone and is lost.  A new player object is    *)
(* loaded from MySQL and then Redis by two callbacks; only then does it    *)
(* get into logic_server_players.  A timer moves the players who wait in   *)
(* a zone into matches.                                                    *)
(*                                                                         *)
(* eExitMatchReq is not an action: do_exit_mathch compares match.status,   *)
(* a field no match has, with State.InView, and never calls exit_player.   *)
(*                                                                         *)
(* environment, chosen at the start, names what the surroundings may do:   *)
(*   "loginAgain"   eLoginLogicReq of a user whose player is still being   *)
(*                  loaded,                                                *)
(*   "gatewayLoss"  the connection to the gateway breaks while no player   *)
(*                  is being loaded and none who was lost sits in a match  *)
(*                  that has not started,                                  *)
(*   "anyLoss"      it breaks at any time.                                 *)
(***************************************************************************)
EXTENDS Naturals, Sequences, FiniteSets, SequencesExt

CONSTANTS
  Uids,                  \* the users
  Zones,                 \* Zone.SGYD, Zone.ASSY
  PLAYER_NUM,            \* players on each side of a match
  MaxPlayers,            \* bound: player objects created
  MaxLinks,              \* bound: connections of the gateway
  Environments           \* the environments to consider

ASSUME ZonesAssumption == Zones \subseteq Nat \ {0}
ASSUME PlayerNumAssumption == PLAYER_NUM \in Nat \ {0}
ASSUME BoundAssumption == MaxPlayers \in Nat /\ MaxLinks \in Nat \ {0}

VARIABLES
  environment,
  link,                  \* the connection to the gateway, 0 for none
  links,                 \* connections so far
  player,                \* the player objects, in the order of player:new
  logic_server_players,  \* uid -> player object
  online_player_num,
  zone_wait_list,        \* zone -> uid -> player object
  zone_match_list,       \* zone -> the matches of the zone
  sg_matchid,            \* the id of the next match
  zid,                   \* do_match_players: the zone it is in, 0 for none
  visits,                \* do_match_players: the entries <<zid, uid>> still to come
  stale                  \* a message went to a connection that is gone

gateway == <<link, links>>
matches == <<zone_match_list, sg_matchid>>
visiting == <<zid, visits>>
vars == <<environment, gateway, player, logic_server_players, online_player_num,
          zone_wait_list, matches, visiting, stale>>

Nil == 0                 \* no object, no session; -1 for zid, matchid, seatid

Players == 1..MaxPlayers
State == {"InView", "Playing"}
Player ==
  [uid : Uids, session : 0..MaxLinks, load : {"ugame", "uinfo", "loaded", "failed"},
   zid : Zones \cup {Nil}, matchid : Nat, seatid : 0..(2 * PLAYER_NUM), state : State]
Match == [matchid : Nat, state : State, seats : Seq(Players)]

\* Type correctness of the player objects, the tables and the matches.
TypeOK ==
  /\ environment \in Environments
  /\ link \in 0..MaxLinks /\ links \in 0..MaxLinks
  /\ player \in Seq(Player)
  /\ logic_server_players \in [Uids -> Players \cup {Nil}]
  /\ online_player_num \in Nat
  /\ zone_wait_list \in [Zones -> [Uids -> Players \cup {Nil}]]
  /\ zone_match_list \in [Zones -> Seq(Match)]
  /\ sg_matchid \in Nat
  /\ zid \in Zones \cup {Nil} /\ visits \subseteq Zones \X Uids
  /\ stale \in BOOLEAN

\* The gateway is connected, nobody has logged in.
Init ==
  /\ environment \in Environments
  /\ link = 1 /\ links = 1
  /\ player = <<>>
  /\ logic_server_players = [u \in Uids |-> Nil]
  /\ online_player_num = 0
  /\ zone_wait_list = [z \in Zones |-> [u \in Uids |-> Nil]]
  /\ zone_match_list = [z \in Zones |-> <<>>]
  /\ sg_matchid = 1
  /\ zid = Nil /\ visits = {}
  /\ stale = FALSE

-----------------------------------------------------------------------------
\* player:init, up to the two queries it starts.
NewPlayer(u, s) ==
  [uid |-> u, session |-> s, load |-> "ugame", zid |-> Nil, matchid |-> Nil,
   seatid |-> Nil, state |-> "InView"]

Loading(o) == player[o].load \in {"ugame", "uinfo"}

\* login_logic_server: a known player gets the session; for an unknown one an
\* object is made, which is entered in the table when it has been loaded.
LoginLogicReq(u) ==
  /\ link # Nil
  /\ LET o == logic_server_players[u]
     IN  IF o # Nil
         THEN player' = [player EXCEPT ![o].session = link]
         ELSE /\ Len(player) < MaxPlayers
              /\ "loginAgain" \in environment
                   \/ \A p \in 1..Len(player) : player[p].uid = u => ~Loading(p)
              /\ player' = Append(player, NewPlayer(u, link))
  /\ UNCHANGED <<gateway, logic_server_players, online_player_num, zone_wait_list,
                 matches, stale>>

\* The callback of get_ugame_info: an error is the answer to the login,
\* otherwise get_uinfo_inredis is next.
UgameInfo(o) ==
  /\ player[o].load = "ugame"
  /\ \/ /\ player' = [player EXCEPT ![o].load = "uinfo"]
        /\ UNCHANGED stale
     \/ /\ player' = [player EXCEPT ![o].load = "failed"]
        /\ stale' = (stale \/ player[o].session # link)
  /\ UNCHANGED <<gateway, logic_server_players, online_player_num, zone_wait_list, matches>>

\* The callback of get_uinfo_inredis, and ret_handler in login_logic_server.
\* The answer goes to the session of the request.
UinfoInRedis(o) ==
  /\ player[o].load = "uinfo"
  /\ stale' = (stale \/ player[o].session # link)
  /\ \/ /\ player' = [player EXCEPT ![o].load = "loaded"]
        /\ logic_server_players' = [logic_server_players EXCEPT ![player[o].uid] = o]
        /\ online_player_num' = online_player_num + 1
     \/ /\ player' = [player EXCEPT ![o].load = "failed"]
        /\ UNCHANGED <<logic_server_players, online_player_num>>
  /\ UNCHANGED <<gateway, zone_wait_list, matches>>

\* There is an entry for the user of o in the wait list of the zone of o.
Waits(o) == player[o].zid # Nil /\ zone_wait_list[player[o].zid][player[o].uid] # Nil

\* A bug on_player_disconnect could have: the player goes on waiting.
StillWaiting(o) == zone_wait_list

\* on_player_disconnect takes the player out of the list of its zone.
NoLongerWaiting(o) ==
  IF Waits(o) THEN [zone_wait_list EXCEPT ![player[o].zid][player[o].uid] = Nil]
  ELSE zone_wait_list

\* A bug on_player_disconnect could have: the number is not decremented.
NobodyLess == online_player_num

\* online_player_num - 1
OneLess == online_player_num - 1

\* on_player_disconnect: the player leaves the table and the wait list, but
\* not a match.
UserLostConn(u) ==
  /\ link # Nil
  /\ LET o == logic_server_players[u]
     IN  /\ o # Nil
         /\ zone_wait_list' = NoLongerWaiting(o)
         /\ player' = IF Waits(o) THEN [player EXCEPT ![o].zid = Nil] ELSE player
  /\ logic_server_players' = [logic_server_players EXCEPT ![u] = Nil]
  /\ online_player_num' = OneLess
  /\ UNCHANGED <<gateway, matches, stale>>

\* enter_zone, for a player who is in no zone.
EnterZone(u, z) ==
  /\ link # Nil
  /\ LET o == logic_server_players[u]
     IN  /\ o # Nil
         /\ player[o].zid = Nil
         /\ zone_wait_list' = [zone_wait_list EXCEPT ![z][u] = o]
         /\ player' = [player EXCEPT ![o].zid = z]
  /\ UNCHANGED <<gateway, logic_server_players, online_player_num, matches, stale>>

-----------------------------------------------------------------------------
(***************************************************************************)
(* do_match_players, round by round.  Nothing else happens before the last *)
(* round: Next keeps the other actions disabled.                           *)
(***************************************************************************)
\* The matches that are being assembled.
InViewMatches(list) == {i \in DOMAIN list : list[i].state = "InView"}

\* A bug the search could have: it makes a match whether there is one or not.
AlwaysOneMore(list) == Len(list) + 1

\* search_inview_match_mgr: the index of the first match that is being
\* assembled, or else of one more.
SearchInView(list) ==
  IF InViewMatches(list) # {} THEN Min(InViewMatches(list)) ELSE Len(list) + 1

\* match_mgr:init
NewMatch(id) == [matchid |-> id, state |-> "InView", seats |-> <<>>]

\* A bug enter_player could have: it starts the match one player too late.
OverFull(seats) == Len(seats) > 2 * PLAYER_NUM

\* #self.inview_players >= PLAYER_NUM*2
Full(seats) == Len(seats) >= 2 * PLAYER_NUM

\* Seated in m, p gets the id and the seat; when m is full, update_players_state
\* sets the state of all in it.  A seat is never given back, so the first
\* empty one follows the last.
Seated(ps, m, p, seats) ==
  [q \in DOMAIN ps |->
     LET at == IF q = p THEN [ps[q] EXCEPT !.matchid = m.matchid, !.seatid = Len(seats)]
                        ELSE ps[q]
     IN  IF Full(seats) /\ q \in ToSet(seats) THEN [at EXCEPT !.state = "Playing"] ELSE at]

\* A bug the loop could have: who has been seated goes on waiting.
KeptWaiting(wait, z, u) == wait

\* wait_list[k] = nil
WaitDone(wait, z, u) == [wait EXCEPT ![z][u] = Nil]

\* match_mgr:enter_player and, for the last player of a match, game_start, in
\* the i-th match of the list.  Everybody in the match is sent a message, by the
\* session of his object.
EnterPlayer(list, i, z, u) ==
  LET p == zone_wait_list[z][u]
      m == list[i]
      seats == Append(m.seats, p)
      state == IF Full(seats) THEN "Playing" ELSE m.state
  IN  IF m.state # "InView" \/ player[p].state # "InView"
      THEN /\ zone_match_list' = [zone_match_list EXCEPT ![z] = list]
           /\ UNCHANGED <<player, zone_wait_list, stale>>
      ELSE /\ player' = Seated(player, m, p, seats)
           /\ zone_wait_list' = WaitDone(zone_wait_list, z, u)
           /\ zone_match_list' = [zone_match_list EXCEPT ![z] =
                [list EXCEPT ![i] = [m EXCEPT !.seats = seats, !.state = state]]]
           /\ stale' = (stale \/ \E q \in ToSet(seats) : player[q].session \notin {Nil, link})

\* do_match_players, every five seconds: everybody who waits will get a seat.
DoMatchPlayers ==
  /\ visits' = {zu \in Zones \X Uids : zone_wait_list[zu[1]][zu[2]] # Nil}
  /\ visits' # {}
  /\ UNCHANGED <<zid, gateway, player, logic_server_players, online_player_num,
                 zone_wait_list, matches, stale>>

\* One round of its loop: pairs() visits the entries in any order, zone by zone.
MatchPlayer(z, u) ==
  LET list == zone_match_list[z]
      i == SearchInView(list)
      found == i \in DOMAIN list
  IN  /\ <<z, u>> \in visits
      /\ z = zid \/ \A v \in Uids : <<zid, v>> \notin visits
      /\ visits' = visits \ {<<z, u>>}
      /\ zid' = IF visits' = {} THEN Nil ELSE z
      /\ EnterPlayer(IF found THEN list ELSE Append(list, NewMatch(sg_matchid)), i, z, u)
      /\ sg_matchid' = IF found THEN sg_matchid ELSE sg_matchid + 1
      /\ UNCHANGED <<gateway, logic_server_players, online_player_num>>

-----------------------------------------------------------------------------
\* The gateway connects.  service_man::on_session_connect is called by nobody,
\* so on_gateway_connect does not run and no session is set.
GatewayConnect ==
  /\ link = Nil
  /\ links < MaxLinks
  /\ links' = links + 1
  /\ link' = links + 1
  /\ UNCHANGED <<player, logic_server_players, online_player_num, zone_wait_list,
                 matches, stale>>

Online == {logic_server_players[u] : u \in Uids} \ {Nil}

\* A bug on_gateway_disconnect could have: the sessions stay.
SessionsKept == player

\* on_gateway_disconnect: the players of the table lose their session.
SessionsCleared ==
  [o \in DOMAIN player |->
     IF o \in Online THEN [player[o] EXCEPT !.session = Nil] ELSE player[o]]

\* Nobody but the players of the table will be sent a message.
Quiet ==
  /\ \A o \in DOMAIN player : ~Loading(o)
  /\ \A z \in Zones : \A i \in InViewMatches(zone_match_list[z]) :
       ToSet(zone_match_list[z][i].seats) \subseteq Online

GatewayDisconnect ==
  /\ link # Nil
  /\ "anyLoss" \in environment \/ ("gatewayLoss" \in environment /\ Quiet)
  /\ link' = Nil
  /\ player' = SessionsCleared
  /\ UNCHANGED <<links, logic_server_players, online_player_num, zone_wait_list,
                 matches, stale>>

\* on_next_frame_event looks for the match of the id a client names at this
\* index of the list of the zone: nothing, or the match that is there.
MatchFor(z, matchid) ==
  {zone_match_list[z][i] : i \in {matchid} \cap DOMAIN zone_match_list[z]}

\* What happens while do_match_players does not run.
Idle ==
  /\ visits = {}
  /\ \/ \E u \in Uids : LoginLogicReq(u) \/ UserLostConn(u)
     \/ \E u \in Uids, z \in Zones : EnterZone(u, z)
     \/ \E o \in 1..Len(player) : UgameInfo(o) \/ UinfoInRedis(o)
     \/ GatewayConnect
     \/ GatewayDisconnect
  /\ UNCHANGED visiting

Next ==
  /\ \/ Idle
     \/ visits = {} /\ DoMatchPlayers
     \/ \E z \in Zones, u \in Uids : MatchPlayer(z, u)
  /\ UNCHANGED environment

Spec == Init /\ [][Next]_vars

-----------------------------------------------------------------------------
(***************************************************************************)
(* Properties                                                              *)
(***************************************************************************)
\* Whatever the environment does, seats and players agree: who sits in a match
\* knows its zone, its id and his seat and shares its state, who believes to
\* sit in a match does, ids of matches are unique over all zones, and a match
\* is Playing exactly when it is full.
SeatsSound ==
  /\ \A z \in Zones : \A i \in DOMAIN zone_match_list[z] :
       LET m == zone_match_list[z][i]
       IN  /\ m.matchid < sg_matchid
           /\ m.state = IF Len(m.seats) = 2 * PLAYER_NUM THEN "Playing" ELSE "InView"
           /\ \A k \in DOMAIN m.seats :
                LET p == player[m.seats[k]]
                IN  p.zid = z /\ p.matchid = m.matchid /\ p.seatid = k /\ p.state = m.state
           /\ \A y \in Zones : \A j \in DOMAIN zone_match_list[y] :
                zone_match_list[y][j].matchid = m.matchid => <<y, j>> = <<z, i>>
  /\ \A o \in DOMAIN player : player[o].matchid # Nil =>
       \E i \in DOMAIN zone_match_list[player[o].zid] :
         LET m == zone_match_list[player[o].zid][i]
         IN  m.matchid = player[o].matchid /\ m.seats[player[o].seatid] = o

\* Whatever the environment does, whoever waits can be seated: enter_player
\* never refuses and "match system error" is never logged (game_mgr.lua:146).
WaitersCanEnter ==
  \A z \in Zones, u \in Uids :
    LET o == zone_wait_list[z][u]
    IN  o # Nil =>
          /\ player[o].uid = u /\ player[o].zid = z /\ player[o].load = "loaded"
          /\ player[o].state = "InView" /\ player[o].matchid = Nil

\* At most one match of a zone is being assembled, the last one.
OneMatchAssembled ==
  \A z \in Zones : InViewMatches(zone_match_list[z]) \subseteq {Len(zone_match_list[z])}

\* Users log in when they have the answer to the last request.
Patient == "loginAgain" \notin environment

\* Who waits is online, with this very object: a user who has left does not
\* take a seat in a match, and nobody waits in two zones.
NoGhostWaits ==
  Patient => \A z \in Zones, u \in Uids :
    zone_wait_list[z][u] # Nil => zone_wait_list[z][u] = logic_server_players[u]

\* online_player_num counts the players of the table.
OnlineCounted == Patient => online_player_num = Cardinality(Online)

\* No message goes to a connection of the gateway that is gone, if it goes at
\* a quiet moment: on_gateway_disconnect clears every session that is used.
NoDeadSession == Patient /\ "anyLoss" \notin environment => ~stale

\* match_mgr.lua:184 on the handler of eNextFrameOpts: clients, all players of
\* the room, send the operations of the latest frame.  So the operations of a
\* player in a match that is Playing get to this match.
FramesReachMatch ==
  \A o \in DOMAIN player : player[o].state = "Playing" =>
    \E m \in MatchFor(player[o].zid, player[o].matchid) : o \in ToSet(m.seats)

\* match_mgr.lua:12 on PLAYER_NUM: one against one.  The seats of a match belong
\* to different users.
OneAgainstOne ==
  \A z \in Zones : \A i \in DOMAIN zone_match_list[z] :
    LET seats == zone_match_list[z][i].seats
    IN  \A j, k \in DOMAIN seats : player[seats[j]].uid = player[seats[k]].uid => j = k
=============================================================================
