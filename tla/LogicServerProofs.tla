-------------------------- MODULE LogicServerProofs -------------------------
(***************************************************************************)
(* Proofs about the logic server.                                          *)
(***************************************************************************)
EXTENDS LogicServer, FiniteSetTheorems, TLAPS

Objects == 1..Len(player)

\* The tables and the seats name objects that exist.
Bounded ==
  /\ TypeOK
  /\ Len(player) <= MaxPlayers
  /\ \A u \in Uids : logic_server_players[u] \in {Nil} \cup Objects
  /\ \A z \in Zones, u \in Uids : zone_wait_list[z][u] \in {Nil} \cup Objects

\* Only a loaded object is in a zone, and only one in a zone sits in a match.
ObjectSound(o) ==
  /\ player[o].load # "loaded" => player[o].zid = Nil
  /\ player[o].zid = Nil => player[o].matchid = Nil
  /\ player[o].matchid = Nil => player[o].state = "InView"

\* The object in the table for u; in its zone it either waits or sits in a match.
OnlineSound(u, o) ==
  /\ player[o].uid = u /\ player[o].load = "loaded"
  /\ player[o].zid # Nil =>
       zone_wait_list[player[o].zid][u] = IF player[o].matchid = Nil THEN o ELSE Nil

WaiterSound(z, u, o) ==
  /\ player[o].uid = u /\ player[o].zid = z /\ player[o].load = "loaded"
  /\ player[o].state = "InView" /\ player[o].matchid = Nil

\* The seats of m, a match of zone z.
MatchSound(z, m) ==
  /\ m.matchid \in 1..(sg_matchid - 1)
  /\ Len(m.seats) <= 2 * PLAYER_NUM
  /\ m.state = IF Len(m.seats) = 2 * PLAYER_NUM THEN "Playing" ELSE "InView"
  /\ \A k \in DOMAIN m.seats :
       /\ m.seats[k] \in Objects
       /\ player[m.seats[k]].zid = z /\ player[m.seats[k]].matchid = m.matchid
       /\ player[m.seats[k]].seatid = k /\ player[m.seats[k]].state = m.state

\* Object o sits in m.
SitsIn(o, m) ==
  /\ m.matchid = player[o].matchid
  /\ player[o].seatid \in DOMAIN m.seats /\ m.seats[player[o].seatid] = o

UniqueIds ==
  \A z, y \in Zones : \A i \in DOMAIN zone_match_list[z], j \in DOMAIN zone_match_list[y] :
    zone_match_list[y][j].matchid = zone_match_list[z][i].matchid => y = z /\ j = i

Placed ==
  /\ \A o \in Objects : ObjectSound(o)
  /\ \A u \in Uids : logic_server_players[u] # Nil => OnlineSound(u, logic_server_players[u])
  /\ \A z \in Zones, u \in Uids :
       zone_wait_list[z][u] # Nil => WaiterSound(z, u, zone_wait_list[z][u])
  /\ \A zu \in visits : zone_wait_list[zu[1]][zu[2]] # Nil

Seating ==
  /\ sg_matchid >= 1
  /\ \A z \in Zones : \A i \in DOMAIN zone_match_list[z] : MatchSound(z, zone_match_list[z][i])
  /\ UniqueIds
  /\ \A o \in Objects : player[o].matchid # Nil =>
       \E i \in DOMAIN zone_match_list[player[o].zid] :
         SitsIn(o, zone_match_list[player[o].zid][i])
  /\ OneMatchAssembled

\* Every object of the table is counted; one that was replaced may be, too.
Counted == online_player_num >= Cardinality(Online) /\ OnlineCounted

\* Users who are patient have one object, the one in the table or the one being loaded.
OneObject ==
  Patient =>
    /\ NoGhostWaits
    /\ \A o \in Objects : Loading(o) =>
         /\ logic_server_players[player[o].uid] = Nil
         /\ \A q \in Objects : Loading(q) /\ player[q].uid = player[o].uid => q = o

\* Sessions that will be used are those of the present connection.
SessionsSound ==
  Patient /\ "anyLoss" \notin environment =>
    /\ ~stale
    /\ \A o \in Objects : Loading(o) => player[o].session = link /\ link # Nil
    /\ \A o \in Online : player[o].session \in {Nil, link}
    /\ \A z \in Zones : \A i \in InViewMatches(zone_match_list[z]) :
         \A k \in DOMAIN zone_match_list[z][i].seats :
           player[zone_match_list[z][i].seats[k]].session \in {Nil, link}

LInv == Bounded /\ Placed /\ Seating /\ Counted /\ OneObject /\ SessionsSound
-----------------------------------------------------------------------------
LEMMA FunctionIsSequence ==
  ASSUME NEW S, NEW n \in Nat, NEW f \in [1..n -> S]
  PROVE  f \in Seq(S) /\ Len(f) = n /\ DOMAIN f = 1..n
  OBVIOUS

LEMMA SequenceIsFunction ==
  ASSUME NEW S, NEW s \in Seq(S)
  PROVE  Len(s) \in Nat /\ DOMAIN s = 1..Len(s) /\ s \in [1..Len(s) -> S]
  OBVIOUS

LEMMA AppendFacts ==
  ASSUME NEW S, NEW s \in Seq(S), NEW e \in S
  PROVE  /\ Append(s, e) \in Seq(S) /\ Len(Append(s, e)) = Len(s) + 1
         /\ DOMAIN Append(s, e) = 1..(Len(s) + 1)
         /\ \A k \in 1..Len(s) : Append(s, e)[k] = s[k]
         /\ Append(s, e)[Len(s) + 1] = e
  OBVIOUS

LEMMA BoundedFacts ==
  ASSUME Bounded
  PROVE  /\ Len(player) \in Nat /\ Objects = DOMAIN player /\ Objects \subseteq Players
         /\ player \in [Objects -> Player]
         /\ \A o \in Objects : player[o] \in Player
         /\ Nil \notin Zones /\ Nil \notin Players
<1>1. player \in Seq(Player)
  BY DEF Bounded, TypeOK
<1>2. Len(player) \in Nat /\ Objects = DOMAIN player /\ player \in [Objects -> Player]
  BY <1>1, SequenceIsFunction DEF Objects
<1>3. Objects \subseteq Players
  BY <1>2, BoundAssumption DEF Bounded, Objects, Players
<1> QED
  BY <1>2, <1>3, ZonesAssumption DEF Nil, Players

\* An object that changes only in fields whose values keep their types.
LEMMA PlayerKept ==
  ASSUME Bounded, NEW f, DOMAIN f = Objects, \A o \in Objects : f[o] \in Player,
         f = [o \in Objects |-> f[o]]
  PROVE  f \in Seq(Player) /\ Len(f) = Len(player)
<1>1. f \in [1..Len(player) -> Player]
  BY DEF Objects
<1> QED
  BY <1>1, BoundedFacts, FunctionIsSequence

LEMMA OnlineFacts ==
  ASSUME Bounded
  PROVE  Online \subseteq Objects /\ IsFiniteSet(Online) /\ Cardinality(Online) \in Nat
<1>1. Online \subseteq Objects
  BY DEF Bounded, Online
<1>2. IsFiniteSet(Objects)
  BY BoundedFacts, FS_Interval DEF Objects
<1> QED
  BY <1>1, <1>2, FS_Subset, FS_CardinalityType

-----------------------------------------------------------------------------
(***************************************************************************)
(* The types.  That the number of players does not become negative follows *)
(* from Counted.                                                           *)
(***************************************************************************)
LEMMA LoginTypes ==
  ASSUME Bounded, NEW u \in Uids, LoginLogicReq(u), UNCHANGED <<environment, visiting>>
  PROVE  Bounded'
<1> USE BoundedFacts
<1> DEFINE o == logic_server_players[u]
<1>1. link \in 0..MaxLinks /\ o \in {Nil} \cup Objects
  BY DEF Bounded, TypeOK
<1>2. CASE o # Nil
  <2>1. player' = [player EXCEPT ![o].session = link]
    BY <1>2 DEF LoginLogicReq
  <2>2. player' = [q \in Objects |->
                     IF q = o THEN [player[o] EXCEPT !.session = link] ELSE player[q]]
    BY <1>1, <1>2, <2>1
  <2>3. [player[o] EXCEPT !.session = link] \in Player
    BY <1>1, <1>2 DEF Player
  <2>4. player' \in Seq(Player) /\ Len(player') = Len(player)
    BY <2>2, <2>3, PlayerKept
  <2> QED
    BY <1>2, <2>4 DEF LoginLogicReq, Bounded, TypeOK, Objects, gateway, matches, visiting
<1>3. CASE o = Nil
  <2>1. player' = Append(player, NewPlayer(u, link)) /\ Len(player) < MaxPlayers
    BY <1>3 DEF LoginLogicReq
  <2>2. NewPlayer(u, link) \in Player
    BY <1>1, PlayerNumAssumption DEF NewPlayer, Player, Nil, State
  <2>3. player' \in Seq(Player) /\ Len(player') = Len(player) + 1
    BY <2>1, <2>2, AppendFacts DEF Bounded, TypeOK
  <2>4. Objects \subseteq Objects' /\ Len(player') <= MaxPlayers
    BY <2>1, <2>3, BoundAssumption DEF Objects
  <2> QED
    BY <1>3, <2>3, <2>4 DEF LoginLogicReq, Bounded, TypeOK, gateway, matches, visiting
<1> QED
  BY <1>2, <1>3

LEMMA UgameTypes ==
  ASSUME Bounded, NEW o \in Objects, UgameInfo(o), UNCHANGED <<environment, visiting>>
  PROVE  Bounded'
<1> USE BoundedFacts
<1>1. PICK l \in {"uinfo", "failed"} : player' = [player EXCEPT ![o].load = l]
  BY DEF UgameInfo
<1>2. player' = [q \in Objects |-> IF q = o THEN [player[o] EXCEPT !.load = l] ELSE player[q]]
  BY <1>1
<1>3. [player[o] EXCEPT !.load = l] \in Player
  BY DEF Player
<1>4. player' \in Seq(Player) /\ Len(player') = Len(player)
  BY <1>2, <1>3, PlayerKept
<1>5. stale' \in BOOLEAN
  BY DEF UgameInfo, Bounded, TypeOK
<1> QED
  BY <1>4, <1>5 DEF UgameInfo, Bounded, TypeOK, Objects, gateway, matches, visiting

LEMMA UinfoTypes ==
  ASSUME Bounded, NEW o \in Objects, UinfoInRedis(o), UNCHANGED <<environment, visiting>>
  PROVE  Bounded'
<1> USE BoundedFacts
<1>1. PICK l \in {"loaded", "failed"} : player' = [player EXCEPT ![o].load = l]
  BY DEF UinfoInRedis
<1>2. player' = [q \in Objects |-> IF q = o THEN [player[o] EXCEPT !.load = l] ELSE player[q]]
  BY <1>1
<1>3. [player[o] EXCEPT !.load = l] \in Player /\ player[o].uid \in Uids
  BY DEF Player
<1>4. player' \in Seq(Player) /\ Len(player') = Len(player)
  BY <1>2, <1>3, PlayerKept
<1>5. /\ logic_server_players' \in [Uids -> Players \cup {Nil}]
      /\ \A u \in Uids : logic_server_players'[u] \in {Nil} \cup Objects
      /\ online_player_num' \in Nat
  <2>1. CASE logic_server_players' = [logic_server_players EXCEPT ![player[o].uid] = o]
             /\ online_player_num' = online_player_num + 1
    BY <1>3, <2>1 DEF Bounded, TypeOK
  <2>2. CASE UNCHANGED <<logic_server_players, online_player_num>>
    BY <2>2 DEF Bounded, TypeOK
  <2> QED
    BY <2>1, <2>2 DEF UinfoInRedis
<1>6. stale' \in BOOLEAN
  BY DEF UinfoInRedis, Bounded, TypeOK
<1> QED
  BY <1>4, <1>5, <1>6 DEF UinfoInRedis, Bounded, TypeOK, Objects, gateway, matches, visiting

LEMMA LostTypes ==
  ASSUME Bounded, NEW u \in Uids, UserLostConn(u), Online # {} => online_player_num > 0,
         UNCHANGED <<environment, visiting>>
  PROVE  Bounded'
<1> USE BoundedFacts
<1> DEFINE o == logic_server_players[u]
<1>1. o \in Objects /\ o \in Online
  BY DEF UserLostConn, Bounded, Online
<1>2. player' \in Seq(Player) /\ Len(player') = Len(player)
  <2>1. CASE Waits(o)
    <3>1. player' = [q \in Objects |->
                       IF q = o THEN [player[o] EXCEPT !.zid = Nil] ELSE player[q]]
      BY <1>1, <2>1 DEF UserLostConn
    <3>2. [player[o] EXCEPT !.zid = Nil] \in Player
      BY <1>1 DEF Player
    <3> QED
      BY <3>1, <3>2, PlayerKept
  <2>2. CASE ~Waits(o)
    BY <2>2 DEF UserLostConn, Bounded, TypeOK
  <2> QED
    BY <2>1, <2>2
<1>3. /\ zone_wait_list' \in [Zones -> [Uids -> Players \cup {Nil}]]
      /\ \A z \in Zones, v \in Uids : zone_wait_list'[z][v] \in {Nil} \cup Objects
  BY DEF UserLostConn, NoLongerWaiting, Bounded, TypeOK
<1>4. /\ logic_server_players' \in [Uids -> Players \cup {Nil}]
      /\ \A v \in Uids : logic_server_players'[v] \in {Nil} \cup Objects
      /\ online_player_num' \in Nat
  BY <1>1 DEF UserLostConn, OneLess, Bounded, TypeOK
<1> QED
  BY <1>2, <1>3, <1>4 DEF UserLostConn, Bounded, TypeOK, Objects, gateway, matches, visiting

LEMMA EnterZoneTypes ==
  ASSUME Bounded, NEW u \in Uids, NEW z \in Zones, EnterZone(u, z),
         UNCHANGED <<environment, visiting>>
  PROVE  Bounded'
<1> USE BoundedFacts
<1> DEFINE o == logic_server_players[u]
<1>1. o \in Objects
  BY DEF EnterZone, Bounded
<1>2. player' = [q \in Objects |-> IF q = o THEN [player[o] EXCEPT !.zid = z] ELSE player[q]]
  BY <1>1 DEF EnterZone
<1>3. [player[o] EXCEPT !.zid = z] \in Player
  BY <1>1 DEF Player
<1>4. player' \in Seq(Player) /\ Len(player') = Len(player)
  BY <1>2, <1>3, PlayerKept
<1>5. /\ zone_wait_list' \in [Zones -> [Uids -> Players \cup {Nil}]]
      /\ \A y \in Zones, v \in Uids : zone_wait_list'[y][v] \in {Nil} \cup Objects
  BY <1>1 DEF EnterZone, Bounded, TypeOK
<1> QED
  BY <1>4, <1>5 DEF EnterZone, Bounded, TypeOK, Objects, gateway, matches, visiting

LEMMA GatewayTypes ==
  ASSUME Bounded, GatewayConnect \/ GatewayDisconnect, UNCHANGED <<environment, visiting>>
  PROVE  Bounded'
<1> USE BoundedFacts
<1>1. CASE GatewayConnect
  BY <1>1, BoundAssumption DEF GatewayConnect, Bounded, TypeOK, Objects, matches, visiting
<1>2. CASE GatewayDisconnect
  <2>1. player' = [q \in Objects |->
                     IF q \in Online THEN [player[q] EXCEPT !.session = Nil] ELSE player[q]]
    BY <1>2 DEF GatewayDisconnect, SessionsCleared
  <2>2. \A q \in Objects : [player[q] EXCEPT !.session = Nil] \in Player
    BY BoundAssumption DEF Player, Nil
  <2>3. player' \in Seq(Player) /\ Len(player') = Len(player)
    BY <2>1, <2>2, PlayerKept
  <2>4. link' \in 0..MaxLinks
    BY <1>2, BoundAssumption DEF GatewayDisconnect, Nil
  <2> QED
    BY <1>2, <2>3, <2>4 DEF GatewayDisconnect, Bounded, TypeOK, Objects, matches, visiting
<1> QED
  BY <1>1, <1>2

LEMMA LoopTypes ==
  ASSUME Bounded, DoMatchPlayers, UNCHANGED environment
  PROVE  Bounded'
  BY DEF DoMatchPlayers, Bounded, TypeOK, Objects, gateway, matches

-----------------------------------------------------------------------------
(***************************************************************************)
(* One round of do_match_players: it seats p in match m, the i-th of the   *)
(* list of the zone, which is the only one that is being assembled.        *)
(***************************************************************************)
Index(z) == SearchInView(zone_match_list[z])
ListFound(z) ==
  IF Index(z) \in DOMAIN zone_match_list[z] THEN zone_match_list[z]
  ELSE Append(zone_match_list[z], NewMatch(sg_matchid))
MatchFound(z) == ListFound(z)[Index(z)]
SeatsTaken(z, p) == Append(MatchFound(z).seats, p)
StateThen(z, p) == IF Full(SeatsTaken(z, p)) THEN "Playing" ELSE "InView"
MatchThen(z, p) ==
  [MatchFound(z) EXCEPT !.seats = SeatsTaken(z, p), !.state = StateThen(z, p)]

LEMMA NewMatchFacts ==
  ASSUME NEW id \in Nat
  PROVE  /\ NewMatch(id) \in Match /\ NewMatch(id).seats = <<>>
         /\ NewMatch(id).matchid = id /\ NewMatch(id).state = "InView"
<1>1. <<>> \in Seq(Players)
  OBVIOUS
<1> QED
  BY <1>1 DEF NewMatch, Match, State

LEMMA IndexFacts ==
  ASSUME Bounded, Seating, NEW z \in Zones
  PROVE  LET list == zone_match_list[z]
             i == Index(z)
         IN  /\ i \in Nat \ {0} /\ DOMAIN ListFound(z) = 1..i /\ ListFound(z) \in Seq(Match)
             /\ DOMAIN list \subseteq 1..i /\ 1..i \subseteq DOMAIN list \cup {i}
             /\ \A k \in DOMAIN list : ListFound(z)[k] = list[k]
             /\ MatchFound(z) \in Match /\ MatchFound(z).state = "InView"
             /\ \A k \in DOMAIN list : k # i => list[k].state # "InView"
             /\ i \notin DOMAIN list => MatchFound(z) = NewMatch(sg_matchid)
<1> DEFINE list == zone_match_list[z]
           i == Index(z)
<1>1. list \in Seq(Match) /\ sg_matchid \in Nat
  BY DEF Bounded, TypeOK
<1>2. Len(list) \in Nat /\ DOMAIN list = 1..Len(list) /\ \A k \in DOMAIN list : list[k] \in Match
  BY <1>1, SequenceIsFunction
<1>3. InViewMatches(list) \subseteq {Len(list)}
  BY DEF Seating, OneMatchAssembled
<1>4. CASE InViewMatches(list) # {}
  <2>1. InViewMatches(list) = {Len(list)}
    BY <1>3, <1>4
  <2>2. Min(InViewMatches(list)) = Len(list)
    BY <1>2, <2>1 DEF Min
  <2>3. i = Len(list) /\ i \in DOMAIN list /\ list[i].state = "InView"
    BY <1>4, <2>1, <2>2 DEF Index, SearchInView, InViewMatches
  <2>4. \A k \in DOMAIN list : k # i => list[k].state # "InView"
    BY <2>1, <2>3 DEF InViewMatches
  <2> QED
    BY <1>1, <1>2, <2>3, <2>4 DEF ListFound, MatchFound
<1>5. CASE InViewMatches(list) = {}
  <2>1. i = Len(list) + 1 /\ i \notin DOMAIN list
    BY <1>2, <1>5 DEF Index, SearchInView
  <2>2. ListFound(z) = Append(list, NewMatch(sg_matchid))
    BY <2>1 DEF ListFound
  <2>3. NewMatch(sg_matchid) \in Match /\ NewMatch(sg_matchid).state = "InView"
    BY <1>1, NewMatchFacts
  <2>4. /\ ListFound(z) \in Seq(Match) /\ DOMAIN ListFound(z) = 1..i
        /\ ListFound(z)[i] = NewMatch(sg_matchid)
        /\ \A k \in 1..Len(list) : ListFound(z)[k] = list[k]
    <3> HIDE DEF i
    <3> QED
      BY <1>1, <2>1, <2>2, <2>3, AppendFacts
  <2>5. \A k \in DOMAIN list : list[k].state # "InView"
    BY <1>5 DEF InViewMatches
  <2> QED
    BY <1>2, <2>1, <2>3, <2>4, <2>5 DEF MatchFound
<1> QED
  BY <1>4, <1>5

LEMMA SeatsFacts ==
  ASSUME Bounded, Placed, Seating, NEW z \in Zones, NEW p \in Objects, player[p].matchid = Nil
  PROVE  LET m == MatchFound(z)
             n == Len(m.seats)
         IN  /\ n \in 0..(2 * PLAYER_NUM - 1) /\ DOMAIN m.seats = 1..n
             /\ SeatsTaken(z, p) \in Seq(Players) /\ Len(SeatsTaken(z, p)) = n + 1
             /\ DOMAIN SeatsTaken(z, p) = 1..(n + 1) /\ SeatsTaken(z, p)[n + 1] = p
             /\ m.matchid \in 1..sg_matchid
             /\ \A k \in 1..n :
                  /\ SeatsTaken(z, p)[k] = m.seats[k] /\ m.seats[k] \in Objects \ {p}
                  /\ player[m.seats[k]].zid = z /\ player[m.seats[k]].matchid = m.matchid
                  /\ player[m.seats[k]].seatid = k /\ player[m.seats[k]].state = "InView"
<1> DEFINE m == MatchFound(z)
           n == Len(m.seats)
<1>1. m \in Match /\ m.state = "InView"
  BY IndexFacts
<1>2. m.seats \in Seq(Players) /\ n \in Nat /\ DOMAIN m.seats = 1..n
  BY <1>1, SequenceIsFunction DEF Match
<1>3. p \in Players
  BY BoundedFacts
<1>4. /\ SeatsTaken(z, p) \in Seq(Players) /\ Len(SeatsTaken(z, p)) = n + 1
      /\ DOMAIN SeatsTaken(z, p) = 1..(n + 1) /\ SeatsTaken(z, p)[n + 1] = p
      /\ \A k \in 1..n : SeatsTaken(z, p)[k] = m.seats[k]
  BY <1>2, <1>3, AppendFacts DEF SeatsTaken
<1>5. /\ n \in 0..(2 * PLAYER_NUM - 1) /\ m.matchid \in 1..sg_matchid
      /\ \A k \in 1..n :
           /\ m.seats[k] \in Objects \ {p}
           /\ player[m.seats[k]].zid = z /\ player[m.seats[k]].matchid = m.matchid
           /\ player[m.seats[k]].seatid = k /\ player[m.seats[k]].state = "InView"
  <2>1. CASE Index(z) \in DOMAIN zone_match_list[z]
    <3>1. m = zone_match_list[z][Index(z)]
      BY <2>1 DEF MatchFound, ListFound
    <3>2. MatchSound(z, m) /\ sg_matchid \in Nat
      BY <2>1, <3>1 DEF Seating, Bounded, TypeOK
    <3> QED
      BY <1>1, <1>2, <3>2, PlayerNumAssumption DEF MatchSound, Nil
  <2>2. CASE Index(z) \notin DOMAIN zone_match_list[z]
    <3>1. m = NewMatch(sg_matchid) /\ sg_matchid \in Nat
      BY <2>2, IndexFacts DEF Bounded, TypeOK
    <3>2. m.seats = <<>> /\ m.matchid = sg_matchid
      BY <3>1, NewMatchFacts
    <3>3. n = 0
      BY <3>2
    <3> QED
      BY <1>2, <3>1, <3>2, <3>3, PlayerNumAssumption DEF Seating
  <2> QED
    BY <2>1, <2>2
<1> QED
  BY <1>2, <1>4, <1>5

LEMMA RoundFacts ==
  ASSUME Bounded, Placed, Seating, NEW z \in Zones, NEW u \in Uids, MatchPlayer(z, u)
  PROVE  LET p == zone_wait_list[z][u]
             i == Index(z)
             m == MatchFound(z)
             seats == SeatsTaken(z, p)
         IN  /\ p \in Objects /\ WaiterSound(z, u, p)
             /\ player' = Seated(player, m, p, seats)
             /\ zone_wait_list' = [zone_wait_list EXCEPT ![z][u] = Nil]
             /\ zone_match_list' = [zone_match_list EXCEPT ![z] =
                  [ListFound(z) EXCEPT ![i] = MatchThen(z, p)]]
             /\ stale' = (stale \/ \E q \in ToSet(seats) : player[q].session \notin {Nil, link})
             /\ sg_matchid' = IF i \in DOMAIN zone_match_list[z] THEN sg_matchid
                              ELSE sg_matchid + 1
             /\ visits' = visits \ {<<z, u>>} /\ zid' \in {Nil, z}
             /\ UNCHANGED <<link, links, logic_server_players, online_player_num>>
<1> DEFINE p == zone_wait_list[z][u]
<1>1. p # Nil
  BY DEF MatchPlayer, Placed
<1>2. p \in Objects /\ WaiterSound(z, u, p)
  BY <1>1 DEF Bounded, Placed
<1>3. MatchFound(z).state = "InView" /\ player[p].state = "InView"
  BY <1>2, IndexFacts DEF WaiterSound
<1>4. EnterPlayer(ListFound(z), Index(z), z, u)
  BY DEF MatchPlayer, ListFound, Index
<1>5. /\ player' = Seated(player, MatchFound(z), p, SeatsTaken(z, p))
      /\ zone_wait_list' = [zone_wait_list EXCEPT ![z][u] = Nil]
      /\ zone_match_list' = [zone_match_list EXCEPT ![z] =
           [ListFound(z) EXCEPT ![Index(z)] = MatchThen(z, p)]]
      /\ stale' = (stale \/ \E q \in ToSet(SeatsTaken(z, p)) :
                              player[q].session \notin {Nil, link})
  BY <1>3, <1>4 DEF EnterPlayer, MatchFound, SeatsTaken, StateThen, MatchThen, WaitDone
<1> QED
  BY <1>2, <1>5 DEF MatchPlayer, Index, gateway

LEMMA SeatedFacts ==
  ASSUME Bounded, Placed, Seating, NEW z \in Zones, NEW u \in Uids, MatchPlayer(z, u)
  PROVE  LET p == zone_wait_list[z][u]
             m == MatchFound(z)
             seats == SeatsTaken(z, p)
         IN  /\ player' \in Seq(Player) /\ Len(player') = Len(player)
             /\ \A q \in Objects :
                  /\ player'[q].uid = player[q].uid /\ player'[q].session = player[q].session
                  /\ player'[q].load = player[q].load /\ player'[q].zid = player[q].zid
                  /\ q # p => player'[q].matchid = player[q].matchid
                                /\ player'[q].seatid = player[q].seatid
                  /\ player'[q].state = IF Full(seats) /\ q \in ToSet(seats) THEN "Playing"
                                        ELSE player[q].state
             /\ player'[p].matchid = m.matchid /\ player'[p].seatid = Len(m.seats) + 1
<1> USE BoundedFacts
<1> DEFINE p == zone_wait_list[z][u]
           m == MatchFound(z)
           seats == SeatsTaken(z, p)
           at(q) == IF q = p THEN [player[q] EXCEPT !.matchid = m.matchid, !.seatid = Len(seats)]
                    ELSE player[q]
           then(q) == IF Full(seats) /\ q \in ToSet(seats) THEN [at(q) EXCEPT !.state = "Playing"]
                      ELSE at(q)
<1>1. p \in Objects /\ player[p].matchid = Nil
  BY RoundFacts DEF WaiterSound
<1>2. /\ Len(seats) = Len(m.seats) + 1 /\ Len(m.seats) \in 0..(2 * PLAYER_NUM - 1)
      /\ m.matchid \in 1..sg_matchid /\ sg_matchid \in Nat
  BY <1>1, SeatsFacts DEF Bounded, TypeOK
<1>3. player' = [q \in Objects |-> then(q)]
  <2>1. player' = Seated(player, m, p, seats)
    BY RoundFacts
  <2> HIDE DEF p, m, seats
  <2> QED
    BY <2>1 DEF Seated
<1>4. \A q \in Objects : at(q) \in Player
  <2>1. m.matchid \in Nat /\ Len(seats) \in 0..(2 * PLAYER_NUM)
    BY <1>2, PlayerNumAssumption
  <2> HIDE DEF p, m, seats
  <2> QED
    BY <2>1 DEF Player
<1>5. \A q \in Objects : then(q) \in Player
  <2> HIDE DEF at
  <2> QED
    BY <1>4 DEF Player, State
<1>6. player' \in Seq(Player) /\ Len(player') = Len(player)
  BY <1>3, <1>5, PlayerKept
<1>7. ASSUME NEW q \in Objects
      PROVE  /\ player'[q].uid = player[q].uid /\ player'[q].session = player[q].session
             /\ player'[q].load = player[q].load /\ player'[q].zid = player[q].zid
             /\ q # p => player'[q].matchid = player[q].matchid
                           /\ player'[q].seatid = player[q].seatid
             /\ q = p => player'[q].matchid = m.matchid /\ player'[q].seatid = Len(seats)
             /\ player'[q].state = IF Full(seats) /\ q \in ToSet(seats) THEN "Playing"
                                   ELSE player[q].state
  <2>1. player'[q] = then(q) /\ player[q] \in Player
    BY <1>3
  <2> HIDE DEF p, m, seats
  <2> QED
    BY <2>1 DEF Player
<1> QED
  BY <1>1, <1>2, <1>6, <1>7

LEMMA RoundTypes ==
  ASSUME Bounded, Placed, Seating, NEW z \in Zones, NEW u \in Uids, MatchPlayer(z, u),
         UNCHANGED environment
  PROVE  Bounded'
<1> USE BoundedFacts
<1> DEFINE p == zone_wait_list[z][u]
           i == Index(z)
           m == MatchFound(z)
           then == MatchThen(z, p)
<1>1. p \in Objects /\ player[p].matchid = Nil
  BY RoundFacts DEF WaiterSound
<1>2. then \in Match
  <2>1. m \in Match /\ SeatsTaken(z, p) \in Seq(Players)
    BY <1>1, IndexFacts, SeatsFacts
  <2>2. StateThen(z, p) \in State
    BY DEF StateThen, State
  <2> QED
    BY <2>1, <2>2 DEF Match, MatchThen
<1>3. [ListFound(z) EXCEPT ![i] = then] \in Seq(Match)
  <2>1. ListFound(z) \in Seq(Match) /\ i \in DOMAIN ListFound(z) /\ DOMAIN ListFound(z) = 1..i
        /\ i \in Nat
    BY IndexFacts
  <2>2. ListFound(z) \in [1..i -> Match]
    BY <2>1, SequenceIsFunction
  <2> HIDE DEF i, then
  <2>3. [ListFound(z) EXCEPT ![i] = then] \in [1..i -> Match]
    BY <1>2, <2>2
  <2> QED
    BY <2>1, <2>3, FunctionIsSequence
<1>4. zone_match_list' \in [Zones -> Seq(Match)] /\ sg_matchid' \in Nat
  <2>1. zone_match_list' = [zone_match_list EXCEPT ![z] = [ListFound(z) EXCEPT ![i] = then]]
        /\ sg_matchid' \in {sg_matchid, sg_matchid + 1}
    BY RoundFacts
  <2> HIDE DEF i, then
  <2> QED
    BY <1>3, <2>1 DEF Bounded, TypeOK
<1>5. /\ zone_wait_list' \in [Zones -> [Uids -> Players \cup {Nil}]]
      /\ \A y \in Zones, v \in Uids : zone_wait_list'[y][v] \in {Nil} \cup Objects
  <2>1. zone_wait_list' = [zone_wait_list EXCEPT ![z][u] = Nil]
    BY RoundFacts
  <2> QED
    BY <2>1 DEF Bounded, TypeOK
<1>6. player' \in Seq(Player) /\ Len(player') = Len(player)
  BY SeatedFacts
<1>7. /\ zid' \in Zones \cup {Nil} /\ visits' \subseteq Zones \X Uids
      /\ stale' \in BOOLEAN /\ UNCHANGED <<link, links, logic_server_players, online_player_num>>
  BY RoundFacts DEF Bounded, TypeOK
<1> QED
  BY <1>4, <1>5, <1>6, <1>7 DEF Bounded, TypeOK, Objects

-----------------------------------------------------------------------------
(***************************************************************************)
(* Seats.  Only a round of do_match_players changes a match; all else      *)
(* leaves those who sit in one where they are.                             *)
(***************************************************************************)
LEMMA SeatingKept ==
  ASSUME Bounded, Seating, UNCHANGED matches, Objects \subseteq Objects',
         \A q \in Objects :
           /\ player'[q].matchid = player[q].matchid
           /\ player[q].matchid # Nil =>
                /\ player'[q].zid = player[q].zid /\ player'[q].seatid = player[q].seatid
                /\ player'[q].state = player[q].state,
         \A q \in Objects' : q \notin Objects => player'[q].matchid = Nil
  PROVE  Seating'
<1>1. zone_match_list' = zone_match_list /\ sg_matchid' = sg_matchid
  BY DEF matches
<1>2. ASSUME NEW z \in Zones, NEW i \in DOMAIN zone_match_list[z]
      PROVE  MatchSound(z, zone_match_list[z][i])'
  <2>1. MatchSound(z, zone_match_list[z][i])
    BY DEF Seating
  <2>2. zone_match_list[z][i].matchid # Nil
    BY <2>1 DEF MatchSound, Nil
  <2> QED
    BY <1>1, <2>1, <2>2 DEF MatchSound
<1>3. ASSUME NEW o \in Objects', player'[o].matchid # Nil
      PROVE  \E i \in DOMAIN zone_match_list[player'[o].zid] :
               SitsIn(o, zone_match_list[player[o].zid][i])'
  <2>1. o \in Objects /\ player[o].matchid # Nil
    BY <1>3
  <2>2. /\ player'[o].zid = player[o].zid /\ player'[o].seatid = player[o].seatid
        /\ player'[o].matchid = player[o].matchid
    BY <2>1
  <2> QED
    BY <1>1, <2>1, <2>2 DEF Seating, SitsIn
<1> QED
  BY <1>1, <1>2, <1>3 DEF Seating, UniqueIds, OneMatchAssembled

\* The session or the progress of loading changes, or who is in the table.
LEMMA PlacedKept ==
  ASSUME Bounded, Placed, Objects' = Objects, UNCHANGED zone_wait_list,
         \A zu \in visits' : zone_wait_list[zu[1]][zu[2]] # Nil,
         \A q \in Objects :
           /\ player'[q].uid = player[q].uid /\ player'[q].zid = player[q].zid
           /\ player'[q].matchid = player[q].matchid /\ player'[q].state = player[q].state
           /\ player[q].load = "loaded" => player'[q].load = "loaded",
         \A u \in Uids :
           \/ logic_server_players'[u] \in {Nil, logic_server_players[u]}
           \/ /\ logic_server_players'[u] \in Objects
              /\ player[logic_server_players'[u]].uid = u
              /\ player[logic_server_players'[u]].zid = Nil
              /\ player'[logic_server_players'[u]].load = "loaded"
  PROVE  Placed'
<1>1. \A o \in Objects' : ObjectSound(o)'
  BY DEF Placed, ObjectSound
<1>2. ASSUME NEW u \in Uids, logic_server_players'[u] # Nil
      PROVE  OnlineSound(u, logic_server_players[u])'
  <2>1. CASE logic_server_players'[u] = logic_server_players[u]
    <3>1. logic_server_players[u] \in Objects
      BY <1>2, <2>1 DEF Bounded
    <3>2. OnlineSound(u, logic_server_players[u])
      BY <1>2, <2>1 DEF Placed
    <3> QED
      BY <2>1, <3>1, <3>2 DEF OnlineSound
  <2>2. CASE logic_server_players'[u] # logic_server_players[u]
    BY <1>2, <2>2 DEF OnlineSound
  <2> QED
    BY <2>1, <2>2
<1>3. ASSUME NEW z \in Zones, NEW u \in Uids, zone_wait_list[z][u] # Nil
      PROVE  WaiterSound(z, u, zone_wait_list[z][u])'
  <2>1. zone_wait_list[z][u] \in Objects /\ WaiterSound(z, u, zone_wait_list[z][u])
    BY <1>3 DEF Bounded, Placed
  <2> QED
    BY <2>1 DEF WaiterSound
<1> QED
  BY <1>1, <1>2, <1>3 DEF Placed

LEMMA LoginPlaced ==
  ASSUME Bounded, Placed, Seating, visits = {}, NEW u \in Uids, LoginLogicReq(u),
         UNCHANGED <<environment, visiting>>
  PROVE  Placed' /\ Seating'
<1> USE BoundedFacts
<1> DEFINE o == logic_server_players[u]
<1>1. UNCHANGED <<zone_wait_list, matches, logic_server_players, visits>>
  BY DEF LoginLogicReq, visiting
<1>2. CASE o # Nil
  <2>1. o \in Objects
    BY <1>2 DEF Bounded
  <2>2. player' = [q \in Objects |->
                     IF q = o THEN [player[o] EXCEPT !.session = link] ELSE player[q]]
    BY <1>2, <2>1 DEF LoginLogicReq
  <2>3. \A q \in Objects :
          /\ player'[q].uid = player[q].uid /\ player'[q].zid = player[q].zid
          /\ player'[q].matchid = player[q].matchid /\ player'[q].seatid = player[q].seatid
          /\ player'[q].state = player[q].state /\ player'[q].load = player[q].load
    BY <2>1, <2>2 DEF Player
  <2>4. Objects' = Objects
    <3>1. Len(player') = Len(player)
      BY <1>2 DEF LoginLogicReq
    <3> QED
      BY <3>1 DEF Objects
  <2>5. Placed'
    BY <1>1, <2>3, <2>4, PlacedKept DEF Placed
  <2> QED
    BY <1>1, <2>3, <2>4, <2>5, SeatingKept
<1>3. CASE o = Nil
  <2>1. player' = Append(player, NewPlayer(u, link)) /\ player \in Seq(Player)
    BY <1>3 DEF LoginLogicReq, Bounded, TypeOK
  <2>2. link \in 0..MaxLinks
    BY DEF Bounded, TypeOK
  <2>3. NewPlayer(u, link) \in Player
    BY <2>2, PlayerNumAssumption DEF NewPlayer, Player, Nil, State
  <2>4. /\ Objects' = Objects \cup {Len(player) + 1}
        /\ \A q \in Objects : player'[q] = player[q]
        /\ player'[Len(player) + 1] = NewPlayer(u, link)
    BY <2>1, <2>3, AppendFacts DEF Objects
  <2>5. \A q \in Objects' : q \notin Objects =>
          /\ player'[q].matchid = Nil /\ player'[q].zid = Nil /\ player'[q].state = "InView"
    <3> DEFINE n == NewPlayer(u, link)
    <3>1. n.matchid = Nil /\ n.zid = Nil /\ n.state = "InView"
      BY DEF NewPlayer
    <3>2. \A q \in Objects' : q \notin Objects => player'[q] = n
      BY <2>4
    <3> HIDE DEF n
    <3> QED
      BY <3>1, <3>2
  <2>6. Seating'
    BY <1>1, <2>4, <2>5, SeatingKept
  <2>7. \A q \in Objects' : ObjectSound(q)'
    BY <2>4, <2>5 DEF Placed, ObjectSound
  <2>8. ASSUME NEW v \in Uids, logic_server_players[v] # Nil
        PROVE  OnlineSound(v, logic_server_players[v])'
    <3>1. logic_server_players[v] \in Objects /\ OnlineSound(v, logic_server_players[v])
      BY <2>8 DEF Bounded, Placed
    <3> QED
      BY <1>1, <2>4, <3>1 DEF OnlineSound
  <2>9. ASSUME NEW z \in Zones, NEW v \in Uids, zone_wait_list[z][v] # Nil
        PROVE  WaiterSound(z, v, zone_wait_list[z][v])'
    <3>1. zone_wait_list[z][v] \in Objects /\ WaiterSound(z, v, zone_wait_list[z][v])
      BY <2>9 DEF Bounded, Placed
    <3> QED
      BY <1>1, <2>4, <3>1 DEF WaiterSound
  <2> QED
    BY <1>1, <2>6, <2>7, <2>8, <2>9 DEF Placed
<1> QED
  BY <1>2, <1>3

LEMMA LoadingPlaced ==
  ASSUME Bounded, Placed, Seating, visits = {}, NEW o \in Objects,
         UgameInfo(o) \/ UinfoInRedis(o), UNCHANGED <<environment, visiting>>
  PROVE  Placed' /\ Seating'
<1> USE BoundedFacts
<1>1. UNCHANGED <<zone_wait_list, matches, visits>> /\ player[o].load # "loaded"
  BY DEF UgameInfo, UinfoInRedis, visiting
<1>2. PICK l \in {"uinfo", "loaded", "failed"} : player' = [player EXCEPT ![o].load = l]
  BY DEF UgameInfo, UinfoInRedis
<1>3. player' = [q \in Objects |-> IF q = o THEN [player[o] EXCEPT !.load = l] ELSE player[q]]
  BY <1>2
<1>4. \A q \in Objects :
        /\ player'[q].uid = player[q].uid /\ player'[q].zid = player[q].zid
        /\ player'[q].matchid = player[q].matchid /\ player'[q].seatid = player[q].seatid
        /\ player'[q].state = player[q].state
        /\ player'[q].load = IF q = o THEN l ELSE player[q].load
  BY <1>3 DEF Player
<1>5. Objects' = Objects
  <2>1. Len(player') = Len(player)
    BY <1>2
  <2> QED
    BY <2>1 DEF Objects
<1>6. Seating'
  BY <1>1, <1>4, <1>5, SeatingKept
<1>7. \A u \in Uids :
        \/ logic_server_players'[u] \in {Nil, logic_server_players[u]}
        \/ /\ logic_server_players'[u] \in Objects
           /\ player[logic_server_players'[u]].uid = u
           /\ player[logic_server_players'[u]].zid = Nil
           /\ player'[logic_server_players'[u]].load = "loaded"
  <2>1. CASE UNCHANGED logic_server_players
    BY <2>1
  <2>2. CASE /\ logic_server_players' = [logic_server_players EXCEPT ![player[o].uid] = o]
             /\ player' = [player EXCEPT ![o].load = "loaded"]
    <3>1. l = "loaded"
      BY <1>2, <2>2, <1>3 DEF Player
    <3>2. player'[o].load = "loaded" /\ player[o].zid = Nil
      BY <1>1, <1>4, <3>1 DEF Placed, ObjectSound
    <3> QED
      BY <2>2, <3>2 DEF Bounded, TypeOK
  <2> QED
    BY <2>1, <2>2 DEF UgameInfo, UinfoInRedis
<1>8. Placed'
  BY <1>1, <1>4, <1>5, <1>7, PlacedKept DEF Placed
<1> QED
  BY <1>6, <1>8

LEMMA GatewayPlaced ==
  ASSUME Bounded, Placed, Seating, visits = {}, GatewayConnect \/ GatewayDisconnect,
         UNCHANGED <<environment, visiting>>
  PROVE  Placed' /\ Seating'
<1> USE BoundedFacts
<1>1. UNCHANGED <<zone_wait_list, matches, logic_server_players, visits>>
  BY DEF GatewayConnect, GatewayDisconnect, visiting
<1>2. /\ DOMAIN player' = Objects
      /\ \A q \in Objects :
           /\ player'[q].uid = player[q].uid /\ player'[q].zid = player[q].zid
           /\ player'[q].matchid = player[q].matchid /\ player'[q].seatid = player[q].seatid
           /\ player'[q].state = player[q].state /\ player'[q].load = player[q].load
  <2>1. CASE UNCHANGED player
    BY <2>1
  <2>2. CASE player' = SessionsCleared
    <3>1. player' = [q \in Objects |->
                       IF q \in Online THEN [player[q] EXCEPT !.session = Nil] ELSE player[q]]
      BY <2>2 DEF SessionsCleared
    <3> QED
      BY <3>1 DEF Player
  <2> QED
    BY <2>1, <2>2 DEF GatewayConnect, GatewayDisconnect
<1>3. Objects' = Objects
  <2>1. Bounded'
    BY GatewayTypes
  <2>2. Objects' = DOMAIN player'
    BY <2>1, SequenceIsFunction DEF Bounded, TypeOK, Objects
  <2> QED
    BY <1>2, <2>2
<1>4. Placed'
  BY <1>1, <1>2, <1>3, PlacedKept DEF Placed
<1> QED
  BY <1>1, <1>2, <1>3, <1>4, SeatingKept

LEMMA LoopPlaced ==
  ASSUME Bounded, Placed, Seating, DoMatchPlayers, UNCHANGED environment
  PROVE  Placed' /\ Seating'
<1> USE BoundedFacts
<1>1. UNCHANGED <<player, zone_wait_list, matches, logic_server_players>>
  BY DEF DoMatchPlayers
<1>2. \A zu \in visits' : zone_wait_list[zu[1]][zu[2]] # Nil
  BY DEF DoMatchPlayers
<1>3. Objects' = Objects
  BY <1>1 DEF Objects
<1>4. Placed'
  BY <1>1, <1>2, <1>3, PlacedKept
<1> QED
  BY <1>1, <1>3, <1>4, SeatingKept

LEMMA LostPlaced ==
  ASSUME Bounded, Placed, Seating, visits = {}, NEW u \in Uids, UserLostConn(u),
         UNCHANGED <<environment, visiting>>
  PROVE  Placed' /\ Seating'
<1> USE BoundedFacts
<1> DEFINE o == logic_server_players[u]
           y == player[o].zid
<1>1. o \in Objects /\ OnlineSound(u, o)
  BY DEF UserLostConn, Bounded, Placed
<1>2. /\ UNCHANGED <<matches, visits>>
      /\ logic_server_players' = [logic_server_players EXCEPT ![u] = Nil]
  BY DEF UserLostConn, visiting
<1>3. CASE ~Waits(o)
  <2>1. UNCHANGED <<player, zone_wait_list>>
    BY <1>3 DEF UserLostConn, NoLongerWaiting
  <2>2. Objects' = Objects
    BY <2>1 DEF Objects
  <2>3. \A v \in Uids : logic_server_players'[v] \in {Nil, logic_server_players[v]}
    BY <1>2 DEF Bounded, TypeOK
  <2>4. Placed'
    BY <1>2, <2>1, <2>2, <2>3, PlacedKept DEF Placed
  <2> QED
    BY <1>2, <2>1, <2>2, <2>4, SeatingKept
<1>4. CASE Waits(o)
  <2>1. y \in Zones /\ zone_wait_list[y][u] = o /\ player[o].matchid = Nil
        /\ player[o].state = "InView"
    <3>1. y # Nil /\ zone_wait_list[y][u] # Nil /\ player[o] \in Player
      BY <1>1, <1>4 DEF Waits, OnlineSound
    <3> QED
      BY <1>1, <3>1 DEF OnlineSound, Player, Placed, ObjectSound
  <2>2. zone_wait_list' = [zone_wait_list EXCEPT ![y][u] = Nil]
    BY <1>1, <1>4 DEF UserLostConn, NoLongerWaiting, OnlineSound
  <2>3. player' = [q \in Objects |->
                     IF q = o THEN [player[o] EXCEPT !.zid = Nil] ELSE player[q]]
    BY <1>1, <1>4 DEF UserLostConn
  <2>4. \A q \in Objects :
          /\ player'[q].uid = player[q].uid /\ player'[q].load = player[q].load
          /\ player'[q].matchid = player[q].matchid /\ player'[q].seatid = player[q].seatid
          /\ player'[q].state = player[q].state
          /\ player'[q].zid = IF q = o THEN Nil ELSE player[q].zid
    BY <2>3 DEF Player
  <2>5. Objects' = Objects
    <3>1. player' = [player EXCEPT ![o].zid = Nil]
      BY <1>4 DEF UserLostConn
    <3>2. Len(player') = Len(player)
      BY <3>1
    <3> QED
      BY <3>2 DEF Objects
  <2>6. Seating'
    BY <1>2, <2>1, <2>4, <2>5, SeatingKept
  <2>7. \A q \in Objects' : ObjectSound(q)'
    BY <2>1, <2>4, <2>5 DEF Placed, ObjectSound
  <2>8. \A z \in Zones, v \in Uids :
          zone_wait_list'[z][v] = IF z = y /\ v = u THEN Nil ELSE zone_wait_list[z][v]
    BY <2>1, <2>2 DEF Bounded, TypeOK
  <2>9. ASSUME NEW v \in Uids, logic_server_players'[v] # Nil
        PROVE  OnlineSound(v, logic_server_players[v])'
    <3>1. v # u /\ logic_server_players'[v] = logic_server_players[v]
      BY <1>2, <2>9 DEF Bounded, TypeOK
    <3>2. logic_server_players[v] \in Objects /\ OnlineSound(v, logic_server_players[v])
      BY <2>9, <3>1 DEF Bounded, Placed
    <3>3. logic_server_players[v] # o /\ player[logic_server_players[v]].zid \in Zones \cup {Nil}
      BY <1>1, <3>1, <3>2 DEF OnlineSound, Player
    <3> QED
      BY <2>4, <2>8, <3>1, <3>2, <3>3 DEF OnlineSound
  <2>10. ASSUME NEW z \in Zones, NEW v \in Uids, zone_wait_list'[z][v] # Nil
         PROVE  WaiterSound(z, v, zone_wait_list[z][v])'
    <3>1. zone_wait_list'[z][v] = zone_wait_list[z][v] /\ ~(z = y /\ v = u)
      BY <2>8, <2>10
    <3>2. zone_wait_list[z][v] \in Objects /\ WaiterSound(z, v, zone_wait_list[z][v])
      BY <2>10, <3>1 DEF Bounded, Placed
    <3>3. zone_wait_list[z][v] # o
      BY <1>1, <3>1, <3>2 DEF WaiterSound, OnlineSound
    <3> QED
      BY <2>4, <3>1, <3>2, <3>3 DEF WaiterSound
  <2>11. visits' = {}
    BY <1>2
  <2> QED
    BY <2>6, <2>7, <2>9, <2>10, <2>11 DEF Placed
<1> QED
  BY <1>3, <1>4

LEMMA EnterZonePlaced ==
  ASSUME Bounded, Placed, Seating, visits = {}, NEW u \in Uids, NEW z \in Zones, EnterZone(u, z),
         UNCHANGED <<environment, visiting>>
  PROVE  Placed' /\ Seating'
<1> USE BoundedFacts
<1> DEFINE o == logic_server_players[u]
<1>1. /\ o \in Objects /\ OnlineSound(u, o) /\ player[o].zid = Nil
      /\ player[o].matchid = Nil /\ player[o].state = "InView"
  BY DEF EnterZone, Bounded, Placed, ObjectSound
<1>2. UNCHANGED <<matches, visits, logic_server_players>>
  BY DEF EnterZone, visiting
<1>3. player' = [q \in Objects |-> IF q = o THEN [player[o] EXCEPT !.zid = z] ELSE player[q]]
  BY <1>1 DEF EnterZone
<1>4. \A q \in Objects :
        /\ player'[q].uid = player[q].uid /\ player'[q].load = player[q].load
        /\ player'[q].matchid = player[q].matchid /\ player'[q].seatid = player[q].seatid
        /\ player'[q].state = player[q].state
        /\ player'[q].zid = IF q = o THEN z ELSE player[q].zid
  BY <1>3 DEF Player
<1>5. Objects' = Objects
  <2>1. Len(player') = Len(player)
    BY DEF EnterZone
  <2> QED
    BY <2>1 DEF Objects
<1>6. Seating'
  BY <1>1, <1>2, <1>4, <1>5, SeatingKept
<1>7. \A q \in Objects' : ObjectSound(q)'
  BY <1>1, <1>4, <1>5 DEF Placed, ObjectSound, OnlineSound
<1>8. \A y \in Zones, v \in Uids :
        zone_wait_list'[y][v] = IF y = z /\ v = u THEN o ELSE zone_wait_list[y][v]
  BY DEF EnterZone, Bounded, TypeOK
<1>9. ASSUME NEW v \in Uids, logic_server_players'[v] # Nil
      PROVE  OnlineSound(v, logic_server_players[v])'
  <2>1. logic_server_players[v] \in Objects /\ OnlineSound(v, logic_server_players[v])
    BY <1>2, <1>9 DEF Bounded, Placed
  <2>2. CASE v = u
    BY <1>1, <1>2, <1>4, <1>8, <2>1, <2>2 DEF OnlineSound
  <2>3. CASE v # u
    <3>1. logic_server_players[v] # o
          /\ player[logic_server_players[v]].zid \in Zones \cup {Nil}
      BY <1>1, <2>1, <2>3 DEF OnlineSound, Player
    <3> QED
      BY <1>2, <1>4, <1>8, <2>1, <2>3, <3>1 DEF OnlineSound
  <2> QED
    BY <2>2, <2>3
<1>10. ASSUME NEW y \in Zones, NEW v \in Uids, zone_wait_list'[y][v] # Nil
       PROVE  WaiterSound(y, v, zone_wait_list[y][v])'
  <2>1. CASE y = z /\ v = u
    BY <1>1, <1>4, <1>8, <2>1 DEF WaiterSound, OnlineSound
  <2>2. CASE ~(y = z /\ v = u)
    <3>1. zone_wait_list'[y][v] = zone_wait_list[y][v]
      BY <1>8, <2>2
    <3>2. zone_wait_list[y][v] \in Objects /\ WaiterSound(y, v, zone_wait_list[y][v])
      BY <1>10, <3>1 DEF Bounded, Placed
    <3>3. zone_wait_list[y][v] # o
      BY <1>1, <3>2 DEF WaiterSound
    <3> QED
      BY <1>4, <3>1, <3>2, <3>3 DEF WaiterSound
  <2> QED
    BY <2>1, <2>2
<1>11. visits' = {}
  BY <1>2
<1> QED
  BY <1>6, <1>7, <1>9, <1>10, <1>11 DEF Placed

LEMMA RoundPlaced ==
  ASSUME Bounded, Placed, Seating, NEW z \in Zones, NEW u \in Uids, MatchPlayer(z, u)
  PROVE  Placed'
<1> USE BoundedFacts
<1> DEFINE p == zone_wait_list[z][u]
           m == MatchFound(z)
           seats == SeatsTaken(z, p)
<1>1. p \in Objects /\ WaiterSound(z, u, p) /\ visits' = visits \ {<<z, u>>}
      /\ UNCHANGED logic_server_players
  BY RoundFacts
<1>2. \A y \in Zones, v \in Uids :
        zone_wait_list'[y][v] = IF y = z /\ v = u THEN Nil ELSE zone_wait_list[y][v]
  <2>1. zone_wait_list' = [zone_wait_list EXCEPT ![z][u] = Nil]
    BY RoundFacts
  <2> QED
    BY <2>1 DEF Bounded, TypeOK
<1>3. /\ Objects' = Objects
      /\ \A q \in Objects :
           /\ player'[q].uid = player[q].uid /\ player'[q].load = player[q].load
           /\ player'[q].zid = player[q].zid
           /\ q # p => player'[q].matchid = player[q].matchid
           /\ q \notin ToSet(seats) => player'[q].state = player[q].state
      /\ player'[p].matchid = m.matchid
  BY SeatedFacts DEF Objects
<1>4. m.matchid # Nil
  BY <1>1, SeatsFacts DEF WaiterSound, Nil
<1>5. ASSUME NEW q \in Objects, q \in ToSet(seats), q # p
      PROVE  player[q].matchid # Nil
  <2>1. DOMAIN seats = 1..(Len(m.seats) + 1) /\ Len(m.seats) \in Nat
        /\ seats[Len(m.seats) + 1] = p
    BY <1>1, SeatsFacts DEF WaiterSound
  <2>2. PICK k \in DOMAIN seats : seats[k] = q
    BY <1>5 DEF ToSet
  <2>3. k \in 1..Len(m.seats)
    BY <1>5, <2>1, <2>2
  <2>4. q = m.seats[k] /\ player[m.seats[k]].matchid = m.matchid
    BY <1>1, <2>2, <2>3, SeatsFacts DEF WaiterSound
  <2> QED
    BY <1>4, <2>4
<1>6. ASSUME NEW o \in Objects
      PROVE  ObjectSound(o)'
  <2>1. ObjectSound(o) /\ player[p].zid # Nil
    BY <1>1 DEF Placed, WaiterSound
  <2> QED
    BY <1>3, <1>4, <1>5, <2>1 DEF ObjectSound
<1>7. ASSUME NEW v \in Uids, logic_server_players'[v] # Nil
      PROVE  OnlineSound(v, logic_server_players[v])'
  <2> DEFINE o == logic_server_players[v]
  <2>1. o \in Objects /\ OnlineSound(v, o) /\ player[o].zid \in Zones \cup {Nil}
    BY <1>1, <1>7 DEF Bounded, Placed, Player
  <2>2. CASE o = p
    <3>1. v = u /\ player[p].zid = z
      BY <1>1, <2>1, <2>2 DEF OnlineSound, WaiterSound
    <3> QED
      BY <1>1, <1>2, <1>3, <1>4, <2>1, <2>2, <3>1 DEF OnlineSound
  <2>3. CASE o # p
    <3>1. ~(player[o].zid = z /\ v = u)
      BY <1>1, <2>1, <2>3 DEF OnlineSound, WaiterSound
    <3> QED
      BY <1>1, <1>2, <1>3, <2>1, <2>3, <3>1 DEF OnlineSound
  <2> QED
    BY <2>2, <2>3
<1>8. ASSUME NEW y \in Zones, NEW v \in Uids, zone_wait_list'[y][v] # Nil
      PROVE  WaiterSound(y, v, zone_wait_list[y][v])'
  <2> DEFINE o == zone_wait_list[y][v]
  <2>1. zone_wait_list'[y][v] = o /\ ~(y = z /\ v = u)
    BY <1>2, <1>8
  <2>2. o \in Objects /\ WaiterSound(y, v, o)
    BY <1>8, <2>1 DEF Bounded, Placed
  <2>3. o # p /\ o \notin ToSet(seats)
    BY <1>1, <1>5, <2>1, <2>2 DEF WaiterSound
  <2> QED
    BY <1>3, <2>1, <2>2, <2>3 DEF WaiterSound
<1>9. ASSUME NEW zu \in visits'
      PROVE  zone_wait_list'[zu[1]][zu[2]] # Nil
  <2>1. zu \in visits /\ zu # <<z, u>> /\ zu \in Zones \X Uids
    BY <1>1 DEF Bounded, TypeOK
  <2> QED
    BY <1>2, <2>1 DEF Placed
<1> QED
  BY <1>3, <1>6, <1>7, <1>8, <1>9 DEF Placed

LEMMA RoundLists ==
  ASSUME Bounded, Placed, Seating, NEW z \in Zones, NEW u \in Uids, MatchPlayer(z, u)
  PROVE  LET p == zone_wait_list[z][u]
             i == Index(z)
             m == MatchFound(z)
         IN  /\ \A y \in Zones : y # z => zone_match_list'[y] = zone_match_list[y]
             /\ i \in Nat /\ Len(zone_match_list'[z]) = i
             /\ DOMAIN zone_match_list'[z] = DOMAIN zone_match_list[z] \cup {i}
             /\ \A k \in DOMAIN zone_match_list[z] :
                  k # i => zone_match_list'[z][k] = zone_match_list[z][k]
             /\ zone_match_list'[z][i].matchid = m.matchid
             /\ zone_match_list'[z][i].seats = SeatsTaken(z, p)
             /\ zone_match_list'[z][i].state =
                  IF Len(m.seats) + 1 = 2 * PLAYER_NUM THEN "Playing" ELSE "InView"
             /\ Full(SeatsTaken(z, p)) <=> Len(m.seats) + 1 = 2 * PLAYER_NUM
<1> DEFINE p == zone_wait_list[z][u]
           i == Index(z)
           m == MatchFound(z)
           list == zone_match_list[z]
<1>1. p \in Objects /\ player[p].matchid = Nil
  BY RoundFacts DEF WaiterSound
<1>2. zone_match_list' = [zone_match_list EXCEPT ![z] =
                            [ListFound(z) EXCEPT ![i] = MatchThen(z, p)]]
  BY RoundFacts
<1>3. /\ i \in Nat \ {0} /\ DOMAIN ListFound(z) = 1..i /\ ListFound(z) \in Seq(Match)
      /\ DOMAIN list \subseteq 1..i /\ 1..i \subseteq DOMAIN list \cup {i}
      /\ \A k \in DOMAIN list : ListFound(z)[k] = list[k]
      /\ m \in Match
  BY IndexFacts
<1>4. Full(SeatsTaken(z, p)) <=> Len(m.seats) + 1 = 2 * PLAYER_NUM
  BY <1>1, SeatsFacts, PlayerNumAssumption DEF Full
<1>5. /\ MatchThen(z, p).matchid = m.matchid /\ MatchThen(z, p).seats = SeatsTaken(z, p)
      /\ MatchThen(z, p).state = StateThen(z, p)
  <2> HIDE DEF p
  <2> QED
    BY <1>3 DEF MatchThen, Match
<1>6. zone_match_list'[z] = [ListFound(z) EXCEPT ![i] = MatchThen(z, p)]
  <2> HIDE DEF p, i
  <2> QED
    BY <1>2 DEF Bounded, TypeOK
<1>7. \A y \in Zones : y # z => zone_match_list'[y] = zone_match_list[y]
  <2> HIDE DEF p, i
  <2> QED
    BY <1>2 DEF Bounded, TypeOK
<1>8. /\ DOMAIN zone_match_list'[z] = 1..i /\ Len(zone_match_list'[z]) = i
      /\ zone_match_list'[z][i] = MatchThen(z, p)
      /\ \A k \in 1..i : k # i => zone_match_list'[z][k] = ListFound(z)[k]
  <2> HIDE DEF p, i
  <2> QED
    BY <1>3, <1>6
<1> QED
  BY <1>3, <1>4, <1>5, <1>7, <1>8 DEF StateThen

LEMMA OtherIds ==
  ASSUME Bounded, Seating, NEW z \in Zones, NEW y \in Zones, NEW k \in DOMAIN zone_match_list[y],
         ~(y = z /\ k = Index(z))
  PROVE  zone_match_list[y][k].matchid # MatchFound(z).matchid
<1>1. MatchSound(y, zone_match_list[y][k]) /\ sg_matchid \in Nat
  BY DEF Seating, Bounded, TypeOK
<1>2. CASE Index(z) \in DOMAIN zone_match_list[z]
  <2>1. MatchFound(z) = zone_match_list[z][Index(z)]
    BY <1>2 DEF MatchFound, ListFound
  <2> QED
    BY <1>2, <2>1 DEF Seating, UniqueIds
<1>3. CASE Index(z) \notin DOMAIN zone_match_list[z]
  <2>1. MatchFound(z).matchid = sg_matchid
    BY <1>1, <1>3, IndexFacts, NewMatchFacts
  <2> QED
    BY <1>1, <2>1 DEF MatchSound
<1> QED
  BY <1>2, <1>3

LEMMA RoundSeating ==
  ASSUME Bounded, Placed, Seating, NEW z \in Zones, NEW u \in Uids, MatchPlayer(z, u)
  PROVE  Seating'
<1> USE BoundedFacts
<1> DEFINE p == zone_wait_list[z][u]
           i == Index(z)
           m == MatchFound(z)
           n == Len(m.seats)
           seats == SeatsTaken(z, p)
<1>1. /\ p \in Objects /\ WaiterSound(z, u, p)
      /\ sg_matchid' = IF i \in DOMAIN zone_match_list[z] THEN sg_matchid ELSE sg_matchid + 1
  BY RoundFacts
<1>2. /\ n \in 0..(2 * PLAYER_NUM - 1) /\ DOMAIN m.seats = 1..n
      /\ DOMAIN seats = 1..(n + 1) /\ Len(seats) = n + 1 /\ seats[n + 1] = p
      /\ m.matchid \in 1..sg_matchid
      /\ \A k \in 1..n :
           /\ seats[k] = m.seats[k] /\ seats[k] \in Objects \ {p}
           /\ player[seats[k]].zid = z /\ player[seats[k]].matchid = m.matchid
           /\ player[seats[k]].seatid = k /\ player[seats[k]].state = "InView"
  BY <1>1, SeatsFacts DEF WaiterSound
<1>3. sg_matchid \in Nat /\ sg_matchid >= 1 /\ sg_matchid' >= sg_matchid /\ sg_matchid' \in Nat
      /\ m.matchid \in 1..(sg_matchid' - 1)
  <2>1. sg_matchid \in Nat /\ sg_matchid >= 1
    BY DEF Bounded, TypeOK, Seating
  <2>2. CASE i \in DOMAIN zone_match_list[z]
    <3>1. m = zone_match_list[z][i] /\ MatchSound(z, m)
      BY <2>2 DEF MatchFound, ListFound, Seating
    <3> QED
      BY <1>1, <2>1, <2>2, <3>1 DEF MatchSound
  <2>3. CASE i \notin DOMAIN zone_match_list[z]
    BY <1>1, <1>2, <2>1, <2>3
  <2> QED
    BY <2>2, <2>3
<1>4. /\ Objects' = Objects
      /\ \A q \in Objects :
           /\ player'[q].zid = player[q].zid
           /\ q # p => player'[q].matchid = player[q].matchid
                         /\ player'[q].seatid = player[q].seatid
           /\ player'[q].state = IF Full(seats) /\ q \in ToSet(seats) THEN "Playing"
                                 ELSE player[q].state
      /\ player'[p].matchid = m.matchid /\ player'[p].seatid = n + 1
  BY SeatedFacts DEF Objects
<1>5. /\ \A y \in Zones : y # z => zone_match_list'[y] = zone_match_list[y]
      /\ i \in Nat /\ Len(zone_match_list'[z]) = i
      /\ DOMAIN zone_match_list'[z] = DOMAIN zone_match_list[z] \cup {i}
      /\ \A k \in DOMAIN zone_match_list[z] :
           k # i => zone_match_list'[z][k] = zone_match_list[z][k]
      /\ zone_match_list'[z][i].matchid = m.matchid
      /\ zone_match_list'[z][i].seats = seats
      /\ zone_match_list'[z][i].state = IF n + 1 = 2 * PLAYER_NUM THEN "Playing" ELSE "InView"
      /\ Full(seats) <=> n + 1 = 2 * PLAYER_NUM
  BY RoundLists
<1>6. \A q \in ToSet(seats) : q = p \/ player[q].matchid = m.matchid
  <2>1. \A k \in 1..(n + 1) : k \in 1..n \/ k = n + 1
    BY <1>2
  <2> QED
    BY <1>2, <2>1 DEF ToSet
<1>7. \A y \in Zones : \A k \in DOMAIN zone_match_list'[y] :
        ~(y = z /\ k = i) =>
          /\ k \in DOMAIN zone_match_list[y]
          /\ zone_match_list'[y][k] = zone_match_list[y][k]
          /\ zone_match_list[y][k].matchid # m.matchid
  <2>1. \A y \in Zones : \A k \in DOMAIN zone_match_list'[y] :
          ~(y = z /\ k = i) =>
            /\ k \in DOMAIN zone_match_list[y]
            /\ zone_match_list'[y][k] = zone_match_list[y][k]
    BY <1>5
  <2> QED
    BY <2>1, OtherIds
<1> HIDE DEF p, i, m, seats
<1>8. ASSUME NEW y \in Zones, NEW k \in DOMAIN zone_match_list'[y]
      PROVE  MatchSound(y, zone_match_list[y][k])'
  <2>1. CASE y = z /\ k = i
    <3>1. ASSUME NEW j \in 1..(n + 1)
          PROVE  /\ seats[j] \in Objects
                 /\ player'[seats[j]].zid = z /\ player'[seats[j]].matchid = m.matchid
                 /\ player'[seats[j]].seatid = j
                 /\ player'[seats[j]].state = IF n + 1 = 2 * PLAYER_NUM THEN "Playing"
                                              ELSE "InView"
      <4>1. seats[j] \in ToSet(seats)
        BY <1>2 DEF ToSet
      <4>2. CASE j = n + 1
        <5>1. seats[j] = p /\ player[p].zid = z /\ player[p].state = "InView"
          BY <1>1, <1>2, <4>2 DEF WaiterSound
        <5> QED
          BY <1>1, <1>4, <1>5, <4>1, <4>2, <5>1
      <4>3. CASE j \in 1..n
        BY <1>2, <1>4, <1>5, <4>1, <4>3
      <4> QED
        BY <1>2, <4>2, <4>3
    <3>2. Len(seats) <= 2 * PLAYER_NUM
      BY <1>2, PlayerNumAssumption
    <3> DEFINE m2 == zone_match_list'[y][k]
    <3>3. /\ m2.matchid = m.matchid /\ m2.seats = seats
          /\ m2.state = IF n + 1 = 2 * PLAYER_NUM THEN "Playing" ELSE "InView"
      BY <1>5, <2>1
    <3>4. m2.matchid \in 1..(sg_matchid' - 1) /\ Len(m2.seats) <= 2 * PLAYER_NUM
      BY <1>3, <3>2, <3>3
    <3>5. m2.state = IF Len(m2.seats) = 2 * PLAYER_NUM THEN "Playing" ELSE "InView"
      BY <1>2, <3>3
    <3>6. \A j \in DOMAIN m2.seats :
            /\ m2.seats[j] \in Objects'
            /\ player'[m2.seats[j]].zid = y /\ player'[m2.seats[j]].matchid = m2.matchid
            /\ player'[m2.seats[j]].seatid = j /\ player'[m2.seats[j]].state = m2.state
      BY <1>2, <1>4, <2>1, <3>1, <3>3
    <3> HIDE DEF m2
    <3>7. m2 = zone_match_list'[y][k]
      BY DEF m2
    <3> QED
      BY <3>4, <3>5, <3>6, <3>7 DEF MatchSound
  <2>2. CASE ~(y = z /\ k = i)
    <3> DEFINE m2 == zone_match_list[y][k]
    <3>1. k \in DOMAIN zone_match_list[y] /\ zone_match_list'[y][k] = m2 /\ m2.matchid # m.matchid
      BY <1>7, <2>2
    <3>2. MatchSound(y, m2)
      BY <3>1 DEF Seating
    <3>3. ASSUME NEW j \in DOMAIN m2.seats
          PROVE  /\ m2.seats[j] \in Objects
                 /\ player'[m2.seats[j]].zid = y /\ player'[m2.seats[j]].matchid = m2.matchid
                 /\ player'[m2.seats[j]].seatid = j /\ player'[m2.seats[j]].state = m2.state
      <4> DEFINE q == m2.seats[j]
      <4>1. /\ q \in Objects /\ player[q].zid = y /\ player[q].matchid = m2.matchid
            /\ player[q].seatid = j /\ player[q].state = m2.state /\ m2.matchid # Nil
        BY <3>2 DEF MatchSound, Nil
      <4>2. q # p /\ q \notin ToSet(seats)
        BY <1>1, <1>6, <3>1, <4>1 DEF WaiterSound
      <4> QED
        BY <1>4, <4>1, <4>2
    <3>4. m2.matchid \in 1..(sg_matchid' - 1)
      BY <1>3, <3>2 DEF MatchSound
    <3> QED
      BY <1>4, <3>1, <3>2, <3>3, <3>4 DEF MatchSound
  <2> QED
    BY <2>1, <2>2
<1>9. UniqueIds'
  <2> SUFFICES ASSUME NEW x \in Zones, NEW y \in Zones, NEW j \in DOMAIN zone_match_list'[x],
                      NEW k \in DOMAIN zone_match_list'[y],
                      zone_match_list'[y][k].matchid = zone_match_list'[x][j].matchid
               PROVE  y = x /\ k = j
    BY DEF UniqueIds
  <2>1. CASE (x = z /\ j = i) \/ (y = z /\ k = i)
    BY <1>5, <1>7, <2>1
  <2>2. CASE ~(x = z /\ j = i) /\ ~(y = z /\ k = i)
    BY <1>7, <2>2 DEF Seating, UniqueIds
  <2> QED
    BY <2>1, <2>2
<1>10. ASSUME NEW o \in Objects, player'[o].matchid # Nil
       PROVE  \E k \in DOMAIN zone_match_list'[player'[o].zid] :
                SitsIn(o, zone_match_list[player[o].zid][k])'
  <2> PICK j \in Nat : j = i
    BY <1>5
  <2>1. CASE o = p
    <3>1. player'[o].zid = z /\ n + 1 \in 1..(n + 1)
      BY <1>1, <1>2, <1>4, <2>1 DEF WaiterSound
    <3>2. SitsIn(o, zone_match_list[player[o].zid][j])'
      BY <1>2, <1>4, <1>5, <2>1, <3>1 DEF SitsIn
    <3> QED
      BY <1>5, <3>1, <3>2
  <2>2. CASE o # p
    <3> DEFINE y == player[o].zid
    <3>1. /\ player'[o].zid = y /\ player'[o].matchid = player[o].matchid
          /\ player'[o].seatid = player[o].seatid /\ player[o].matchid # Nil
      BY <1>4, <1>10, <2>2
    <3>2. PICK k \in DOMAIN zone_match_list[y] : SitsIn(o, zone_match_list[y][k])
      BY <3>1 DEF Seating
    <3>3. y \in Zones
      BY <3>1 DEF Player, Placed, ObjectSound
    <3>4. CASE y = z /\ k = i
      <4>1. m = zone_match_list[z][i]
        BY <3>2, <3>4 DEF m, i, MatchFound, ListFound
      <4>2. player[o].seatid \in 1..n /\ m.seats[player[o].seatid] = o
            /\ m.matchid = player[o].matchid
        BY <1>2, <3>2, <3>4, <4>1 DEF SitsIn
      <4>3. player[o].seatid \in DOMAIN seats /\ seats[player[o].seatid] = o
        BY <1>2, <4>2
      <4>4. SitsIn(o, zone_match_list[player[o].zid][j])'
        BY <1>5, <3>1, <3>4, <4>2, <4>3 DEF SitsIn
      <4> QED
        BY <1>5, <3>1, <3>4, <4>4
    <3>5. CASE ~(y = z /\ k = i)
      <4>1. k \in DOMAIN zone_match_list'[y] /\ zone_match_list'[y][k] = zone_match_list[y][k]
        BY <1>5, <3>2, <3>3, <3>5
      <4>2. SitsIn(o, zone_match_list[player[o].zid][k])'
        BY <3>1, <3>2, <4>1 DEF SitsIn
      <4> QED
        BY <3>1, <4>1, <4>2
    <3> QED
      BY <3>4, <3>5
  <2> QED
    BY <2>1, <2>2
<1>11. OneMatchAssembled'
  <2> SUFFICES ASSUME NEW y \in Zones, NEW k \in DOMAIN zone_match_list'[y],
                      zone_match_list'[y][k].state = "InView"
               PROVE  k = Len(zone_match_list'[y])
    BY DEF OneMatchAssembled, InViewMatches
  <2>1. CASE y # z
    BY <1>5, <2>1 DEF Seating, OneMatchAssembled, InViewMatches
  <2>2. CASE y = z
    <3>1. \A j \in DOMAIN zone_match_list[z] : j # i => zone_match_list[z][j].state # "InView"
      BY IndexFacts DEF i
    <3> QED
      BY <1>5, <2>2, <3>1
  <2> QED
    BY <2>1, <2>2
<1> QED
  BY <1>3, <1>4, <1>8, <1>9, <1>10, <1>11 DEF Seating

-----------------------------------------------------------------------------
(***************************************************************************)
(* The number of players.                                                  *)
(***************************************************************************)
LEMMA CountedKept ==
  ASSUME Counted, UNCHANGED <<environment, logic_server_players, online_player_num>>
  PROVE  Counted'
  BY DEF Counted, OnlineCounted, Online, Patient

LEMMA UinfoCounted ==
  ASSUME Bounded, Placed, Counted, OneObject, NEW o \in Objects, UinfoInRedis(o),
         UNCHANGED environment
  PROVE  Counted'
<1> USE BoundedFacts
<1> DEFINE u == player[o].uid
<1>1. CASE UNCHANGED <<logic_server_players, online_player_num>>
  BY <1>1, CountedKept
<1>2. CASE /\ logic_server_players' = [logic_server_players EXCEPT ![u] = o]
           /\ online_player_num' = online_player_num + 1
  <2>1. u \in Uids /\ player[o].load = "uinfo" /\ Loading(o) /\ o # Nil
    BY DEF Player, UinfoInRedis, Loading
  <2>2. o \notin Online
    BY <2>1 DEF Online, Placed, OnlineSound
  <2>3. /\ Online \cup {o} \in SUBSET Objects /\ IsFiniteSet(Online)
        /\ Cardinality(Online \cup {o}) = Cardinality(Online) + 1 /\ Cardinality(Online) \in Nat
    BY <2>2, OnlineFacts, FS_AddElement
  <2>4. IsFiniteSet(Online \cup {o})
    BY <2>3, FS_AddElement
  <2>5. Online' \subseteq Online \cup {o}
    BY <1>2, <2>1 DEF Online, Bounded, TypeOK
  <2>6. Cardinality(Online') <= Cardinality(Online) + 1 /\ Cardinality(Online') \in Nat
    BY <2>3, <2>4, <2>5, FS_Subset, FS_CardinalityType
  <2>7. online_player_num \in Nat
    BY DEF Bounded, TypeOK
  <2>8. Patient => Online' = Online \cup {o}
    <3> SUFFICES ASSUME Patient, NEW q \in Online
                 PROVE  q \in Online'
      BY <1>2, <2>1, <2>5 DEF Online, Bounded, TypeOK
    <3>1. logic_server_players[u] = Nil
      BY <2>1 DEF OneObject
    <3>2. PICK v \in Uids : logic_server_players[v] = q /\ q # Nil
      BY DEF Online
    <3> QED
      BY <1>2, <3>1, <3>2 DEF Online, Bounded, TypeOK
  <2>9. Patient => Cardinality(Online') = Cardinality(Online) + 1
    BY <2>3, <2>8
  <2>10. /\ online_player_num >= Cardinality(Online)
         /\ Patient => online_player_num = Cardinality(Online)
    BY DEF Counted, OnlineCounted
  <2>11. online_player_num' >= Cardinality(Online')
    BY <1>2, <2>3, <2>6, <2>7, <2>10
  <2>12. Patient => online_player_num' = Cardinality(Online')
    BY <1>2, <2>9, <2>10
  <2> QED
    BY <2>11, <2>12 DEF Counted, OnlineCounted, Patient
<1> QED
  BY <1>1, <1>2 DEF UinfoInRedis

LEMMA LostCounted ==
  ASSUME Bounded, Placed, Counted, NEW u \in Uids, UserLostConn(u), UNCHANGED environment
  PROVE  Counted' /\ (Online # {} => online_player_num > 0)
<1> USE BoundedFacts
<1> DEFINE o == logic_server_players[u]
<1>1. o \in Online /\ o # Nil
  BY DEF UserLostConn, Online
<1>2. /\ IsFiniteSet(Online) /\ Cardinality(Online) \in Nat
      /\ Cardinality(Online \ {o}) = Cardinality(Online) - 1
      /\ Cardinality(Online \ {o}) \in Nat
  BY <1>1, OnlineFacts, FS_RemoveElement, FS_CardinalityType
<1>3. Online' = Online \ {o}
  <2>1. logic_server_players' = [logic_server_players EXCEPT ![u] = Nil]
    BY DEF UserLostConn
  <2>2. \A v \in Uids : logic_server_players[v] = o => v = u
    BY <1>1 DEF Placed, OnlineSound
  <2> QED
    BY <2>1, <2>2 DEF Online, Bounded, TypeOK
<1>4. online_player_num' = online_player_num - 1 /\ online_player_num \in Nat
  BY DEF UserLostConn, OneLess, Bounded, TypeOK
<1> QED
  BY <1>2, <1>3, <1>4 DEF Counted, OnlineCounted, Patient

-----------------------------------------------------------------------------
(***************************************************************************)
(* One object of a user who is patient.                                    *)
(***************************************************************************)
LEMMA OneObjectKept ==
  ASSUME OneObject, UNCHANGED <<environment, logic_server_players>>, Objects' = Objects,
         \A z \in Zones, v \in Uids :
           zone_wait_list'[z][v] \in {Nil, zone_wait_list[z][v], logic_server_players[v]},
         \A q \in Objects : player'[q].uid = player[q].uid /\ (Loading(q)' => Loading(q))
  PROVE  OneObject'
<1>1. Patient' => NoGhostWaits'
  BY DEF OneObject, NoGhostWaits, Patient
<1>2. ASSUME Patient, NEW o \in Objects, Loading(o)'
      PROVE  /\ logic_server_players[player[o].uid] = Nil
             /\ \A q \in Objects : Loading(q)' /\ player[q].uid = player[o].uid => q = o
  BY <1>2 DEF OneObject
<1> QED
  BY <1>1, <1>2 DEF OneObject, Patient

LEMMA UinfoOneObject ==
  ASSUME Bounded, Placed, OneObject, NEW o \in Objects, UinfoInRedis(o), UNCHANGED environment
  PROVE  OneObject'
<1> USE BoundedFacts
<1> DEFINE u == player[o].uid
<1>1. PICK l \in {"loaded", "failed"} :
        /\ player' = [player EXCEPT ![o].load = l]
        /\ \/ UNCHANGED logic_server_players
           \/ logic_server_players' = [logic_server_players EXCEPT ![u] = o]
  BY DEF UinfoInRedis
<1>2. player' = [q \in Objects |-> IF q = o THEN [player[o] EXCEPT !.load = l] ELSE player[q]]
  BY <1>1
<1>3. \A q \in Objects : /\ player'[q].uid = player[q].uid
                         /\ player'[q].load = IF q = o THEN l ELSE player[q].load
  BY <1>2 DEF Player
<1>4. Objects' = Objects /\ UNCHANGED zone_wait_list
  <2>1. Len(player') = Len(player)
    BY <1>1
  <2> QED
    BY <2>1 DEF Objects, UinfoInRedis
<1>5. \A q \in Objects : Loading(q)' => Loading(q) /\ q # o
  BY <1>3 DEF Loading
<1>6. CASE UNCHANGED logic_server_players
  BY <1>3, <1>4, <1>5, <1>6, OneObjectKept
<1>7. CASE logic_server_players' = [logic_server_players EXCEPT ![u] = o]
  <2> SUFFICES ASSUME Patient
               PROVE  /\ NoGhostWaits'
                      /\ \A p \in Objects : Loading(p)' =>
                           /\ logic_server_players'[player[p].uid] = Nil
                           /\ \A q \in Objects :
                                Loading(q)' /\ player[q].uid = player[p].uid => q = p
    BY <1>3, <1>4 DEF OneObject, Patient
  <2>1. u \in Uids /\ Loading(o)
    BY DEF Player, Loading, UinfoInRedis
  <2>2. logic_server_players[u] = Nil
    BY <2>1 DEF OneObject
  <2>3. \A v \in Uids : logic_server_players'[v] = IF v = u THEN o ELSE logic_server_players[v]
    BY <1>7, <2>1 DEF Bounded, TypeOK
  <2>4. NoGhostWaits'
    BY <1>4, <2>2, <2>3 DEF OneObject, NoGhostWaits
  <2>5. ASSUME NEW p \in Objects, Loading(p)'
        PROVE  /\ logic_server_players'[player[p].uid] = Nil
               /\ \A q \in Objects :
                    Loading(q)' /\ player[q].uid = player[p].uid => q = p
    <3>1. Loading(p) /\ p # o /\ player[p].uid \in Uids
      BY <1>5, <2>5 DEF Player
    <3>2. player[p].uid # u /\ logic_server_players[player[p].uid] = Nil
      BY <2>1, <3>1 DEF OneObject
    <3> QED
      BY <1>5, <2>3, <3>1, <3>2 DEF OneObject
  <2> QED
    BY <2>4, <2>5
<1> QED
  BY <1>1, <1>6, <1>7

LEMMA LostOneObject ==
  ASSUME Bounded, Placed, OneObject, NEW u \in Uids, UserLostConn(u), UNCHANGED environment
  PROVE  OneObject'
<1> USE BoundedFacts
<1> DEFINE o == logic_server_players[u]
<1>1. o \in Objects /\ OnlineSound(u, o)
  BY DEF UserLostConn, Bounded, Placed
<1>2. \A v \in Uids : logic_server_players'[v] = IF v = u THEN Nil ELSE logic_server_players[v]
  BY DEF UserLostConn, Bounded, TypeOK
<1>3. \A q \in Objects : /\ player'[q].uid = player[q].uid /\ player'[q].load = player[q].load
  <2>1. CASE UNCHANGED player
    BY <2>1
  <2>2. CASE player' = [player EXCEPT ![o].zid = Nil]
    <3>1. player' = [q \in Objects |->
                       IF q = o THEN [player[o] EXCEPT !.zid = Nil] ELSE player[q]]
      BY <1>1, <2>2
    <3> QED
      BY <3>1 DEF Player
  <2> QED
    BY <2>1, <2>2 DEF UserLostConn
<1>4. Objects' = Objects
  <2>1. Len(player') = Len(player)
    BY DEF UserLostConn
  <2> QED
    BY <2>1 DEF Objects
<1>5. \A q \in Objects : Loading(q)' <=> Loading(q)
  BY <1>3 DEF Loading
<1>6. ASSUME Patient
      PROVE  NoGhostWaits'
  <2> SUFFICES ASSUME NEW z \in Zones, NEW v \in Uids, zone_wait_list'[z][v] # Nil
               PROVE  zone_wait_list'[z][v] = logic_server_players'[v]
    BY DEF NoGhostWaits
  <2>1. zone_wait_list'[z][v] = zone_wait_list[z][v] /\ zone_wait_list[z][v] # Nil
    BY DEF UserLostConn, NoLongerWaiting, Bounded, TypeOK
  <2>2. zone_wait_list[z][v] = logic_server_players[v] /\ WaiterSound(z, v, zone_wait_list[z][v])
    BY <1>6, <2>1 DEF OneObject, NoGhostWaits, Placed
  <2>3. ASSUME v = u
        PROVE  FALSE
    <3>1. Waits(o) /\ player[o].zid = z /\ player[o].uid = u
      BY <2>1, <2>2, <2>3 DEF Waits, WaiterSound
    <3>2. zone_wait_list' = [zone_wait_list EXCEPT ![z][u] = Nil]
      BY <3>1 DEF UserLostConn, NoLongerWaiting
    <3>3. zone_wait_list'[z][u] = Nil
      BY <3>2 DEF Bounded, TypeOK
    <3> QED
      BY <2>3, <3>3
  <2> QED
    BY <1>2, <2>1, <2>2, <2>3
<1>7. ASSUME Patient, NEW p \in Objects, Loading(p)
      PROVE  /\ logic_server_players'[player[p].uid] = Nil
             /\ \A q \in Objects : Loading(q) /\ player[q].uid = player[p].uid => q = p
  BY <1>2, <1>7 DEF OneObject, Player
<1> QED
  BY <1>3, <1>4, <1>5, <1>6, <1>7 DEF OneObject, Patient

LEMMA LoginOneObject ==
  ASSUME Bounded, OneObject, NEW u \in Uids, LoginLogicReq(u), UNCHANGED environment
  PROVE  OneObject'
<1> USE BoundedFacts
<1> DEFINE o == logic_server_players[u]
<1>1. UNCHANGED <<logic_server_players, zone_wait_list>>
  BY DEF LoginLogicReq
<1>2. CASE o # Nil
  <2>1. o \in Objects /\ player' = [player EXCEPT ![o].session = link]
    BY <1>2 DEF LoginLogicReq, Bounded
  <2>2. player' = [q \in Objects |->
                     IF q = o THEN [player[o] EXCEPT !.session = link] ELSE player[q]]
    BY <2>1
  <2>3. \A q \in Objects : player'[q].uid = player[q].uid /\ player'[q].load = player[q].load
    BY <2>2 DEF Player
  <2>4. Objects' = Objects
    <3>1. Len(player') = Len(player)
      BY <2>1
    <3> QED
      BY <3>1 DEF Objects
  <2> QED
    BY <1>1, <2>3, <2>4, OneObjectKept DEF Loading
<1>3. CASE o = Nil
  <2> DEFINE n == NewPlayer(u, link)
  <2>1. player' = Append(player, n) /\ player \in Seq(Player)
    BY <1>3 DEF LoginLogicReq, Bounded, TypeOK
  <2>2. n \in Player /\ n.uid = u
    <3>1. link \in 0..MaxLinks
      BY DEF Bounded, TypeOK
    <3> QED
      BY <3>1, PlayerNumAssumption DEF NewPlayer, Player, Nil, State
  <2>3. /\ Objects' = Objects \cup {Len(player) + 1}
        /\ \A q \in Objects : player'[q] = player[q]
        /\ player'[Len(player) + 1] = n
    BY <2>1, <2>2, AppendFacts DEF Objects
  <2> HIDE DEF n
  <2>4. \A q \in Objects' : \/ q \in Objects /\ player'[q] = player[q]
                            \/ q = Len(player) + 1 /\ player'[q].uid = u
    BY <2>2, <2>3
  <2>5. Patient => \A q \in Objects : Loading(q) => player[q].uid # u
    BY <1>3 DEF LoginLogicReq, Patient, Objects
  <2>6. ASSUME Patient, NEW p \in Objects', Loading(p)'
        PROVE  /\ logic_server_players[player'[p].uid] = Nil
               /\ \A q \in Objects' : Loading(q)' /\ player'[q].uid = player'[p].uid => q = p
    <3>1. \A q \in Objects' : q \in Objects /\ Loading(q)' => Loading(q) /\ player'[q].uid # u
      BY <2>3, <2>5, <2>6 DEF Loading
    <3>2. CASE p \in Objects
      BY <2>3, <2>4, <2>6, <3>1, <3>2 DEF OneObject
    <3>3. CASE p \notin Objects
      BY <1>3, <2>4, <2>6, <3>1, <3>3
    <3> QED
      BY <3>2, <3>3
  <2>7. Patient => NoGhostWaits'
    BY <1>1 DEF OneObject, NoGhostWaits
  <2> QED
    BY <1>1, <2>6, <2>7 DEF OneObject, Patient
<1> QED
  BY <1>2, <1>3

-----------------------------------------------------------------------------
(***************************************************************************)
(* Sessions.                                                               *)
(***************************************************************************)
LEMMA SessionsStaySound ==
  ASSUME Bounded, Seating, SessionsSound, UNCHANGED <<environment, link, matches>>,
         Objects \subseteq Objects',
         Patient /\ "anyLoss" \notin environment => stale' = stale,
         \A q \in Objects :
           player'[q].session \in {player[q].session, link} /\ (Loading(q)' => Loading(q)),
         \A q \in Objects' : q \notin Objects => player'[q].session = link /\ link # Nil,
         \A q \in Online' : q \in Online \/ player'[q].session = link
  PROVE  SessionsSound'
<1>0. zone_match_list' = zone_match_list /\ environment' = environment /\ link' = link
  BY DEF matches
<1> SUFFICES ASSUME Patient, "anyLoss" \notin environment
             PROVE  /\ ~stale'
                    /\ \A o \in Objects' : Loading(o)' => player'[o].session = link /\ link # Nil
                    /\ \A o \in Online' : player'[o].session \in {Nil, link}
                    /\ \A z \in Zones : \A i \in InViewMatches(zone_match_list[z]) :
                         \A k \in DOMAIN zone_match_list[z][i].seats :
                           player'[zone_match_list[z][i].seats[k]].session \in {Nil, link}
  BY <1>0 DEF SessionsSound, Patient, InViewMatches
<1>1. ~stale'
  BY DEF SessionsSound
<1>2. \A o \in Objects' : Loading(o)' => player'[o].session = link /\ link # Nil
  BY DEF SessionsSound
<1>3. \A o \in Online' : player'[o].session \in {Nil, link}
  BY OnlineFacts DEF SessionsSound
<1>4. ASSUME NEW z \in Zones, NEW i \in InViewMatches(zone_match_list[z]),
             NEW k \in DOMAIN zone_match_list[z][i].seats
      PROVE  player'[zone_match_list[z][i].seats[k]].session \in {Nil, link}
  <2>1. zone_match_list[z][i].seats[k] \in Objects
    BY DEF Seating, MatchSound, InViewMatches
  <2> QED
    BY <2>1 DEF SessionsSound
<1> QED
  BY <1>1, <1>2, <1>3, <1>4

LEMMA LoginSessions ==
  ASSUME Bounded, Seating, SessionsSound, NEW u \in Uids, LoginLogicReq(u), UNCHANGED environment
  PROVE  SessionsSound'
<1> USE BoundedFacts
<1> DEFINE o == logic_server_players[u]
<1>1. UNCHANGED <<logic_server_players, link, matches, stale>> /\ link # Nil
  BY DEF LoginLogicReq, gateway
<1>2. Online' = Online
  BY <1>1 DEF Online
<1>3. CASE o # Nil
  <2>1. o \in Objects /\ player' = [player EXCEPT ![o].session = link]
    BY <1>3 DEF LoginLogicReq, Bounded
  <2>2. player' = [q \in Objects |->
                     IF q = o THEN [player[o] EXCEPT !.session = link] ELSE player[q]]
    BY <2>1
  <2>3. \A q \in Objects : player'[q].load = player[q].load
                           /\ player'[q].session \in {player[q].session, link}
    BY <2>2 DEF Player
  <2>4. Objects' = Objects
    <3>1. Len(player') = Len(player)
      BY <2>1
    <3> QED
      BY <3>1 DEF Objects
  <2> QED
    BY <1>1, <1>2, <2>3, <2>4, SessionsStaySound DEF Loading
<1>4. CASE o = Nil
  <2> DEFINE n == NewPlayer(u, link)
  <2>1. player' = Append(player, n) /\ player \in Seq(Player)
    BY <1>4 DEF LoginLogicReq, Bounded, TypeOK
  <2>2. n \in Player /\ n.session = link
    <3>1. link \in 0..MaxLinks
      BY DEF Bounded, TypeOK
    <3> QED
      BY <3>1, PlayerNumAssumption DEF NewPlayer, Player, Nil, State
  <2>3. /\ Objects' = Objects \cup {Len(player) + 1}
        /\ \A q \in Objects : player'[q] = player[q]
        /\ player'[Len(player) + 1] = n
    BY <2>1, <2>2, AppendFacts DEF Objects
  <2> HIDE DEF n
  <2>4. \A q \in Objects' : q \notin Objects => player'[q].session = link /\ link # Nil
    BY <1>1, <2>2, <2>3
  <2>5. \A q \in Objects : Loading(q)' => Loading(q)
    BY <2>3 DEF Loading
  <2> QED
    BY <1>1, <1>2, <2>3, <2>4, <2>5, SessionsStaySound
<1> QED
  BY <1>3, <1>4

LEMMA LoadingSessions ==
  ASSUME Bounded, Seating, SessionsSound, NEW o \in Objects, UgameInfo(o) \/ UinfoInRedis(o),
         UNCHANGED environment
  PROVE  SessionsSound'
<1> USE BoundedFacts
<1>1. UNCHANGED <<link, matches>> /\ Loading(o)
  BY DEF UgameInfo, UinfoInRedis, gateway, Loading
<1>2. PICK l \in {"uinfo", "loaded", "failed"} : player' = [player EXCEPT ![o].load = l]
  BY DEF UgameInfo, UinfoInRedis
<1>3. player' = [q \in Objects |-> IF q = o THEN [player[o] EXCEPT !.load = l] ELSE player[q]]
  BY <1>2
<1>4. \A q \in Objects : player'[q].session = player[q].session
                         /\ (Loading(q)' => Loading(q))
  BY <1>1, <1>3 DEF Player, Loading
<1>5. Objects' = Objects
  <2>1. Len(player') = Len(player)
    BY <1>2
  <2> QED
    BY <2>1 DEF Objects
<1>6. Patient /\ "anyLoss" \notin environment => player[o].session = link
  BY <1>1 DEF SessionsSound
<1>7. Patient /\ "anyLoss" \notin environment => stale' = stale
  BY <1>6 DEF UgameInfo, UinfoInRedis, Bounded, TypeOK
<1>8. Online' \subseteq Online \cup {o}
  <2>1. CASE UNCHANGED logic_server_players
    BY <2>1 DEF Online
  <2>2. CASE logic_server_players' = [logic_server_players EXCEPT ![player[o].uid] = o]
    BY <2>2 DEF Online, Bounded, TypeOK
  <2> QED
    BY <2>1, <2>2 DEF UgameInfo, UinfoInRedis
<1>9. CASE Patient /\ "anyLoss" \notin environment
  <2>1. \A q \in Online' : q \in Online \/ player'[q].session = link
    BY <1>4, <1>6, <1>8, <1>9
  <2> QED
    BY <1>1, <1>4, <1>5, <1>7, <2>1, SessionsStaySound
<1>10. CASE ~(Patient /\ "anyLoss" \notin environment)
  BY <1>10 DEF SessionsSound, Patient
<1> QED
  BY <1>9, <1>10

LEMMA UserSessions ==
  ASSUME Bounded, Seating, SessionsSound, NEW u \in Uids,
         UserLostConn(u) \/ \E z \in Zones : EnterZone(u, z), UNCHANGED environment
  PROVE  SessionsSound'
<1> USE BoundedFacts
<1> DEFINE o == logic_server_players[u]
<1>1. UNCHANGED <<link, matches, stale>> /\ o \in Objects
  BY DEF UserLostConn, EnterZone, gateway, Bounded
<1>2. PICK x : player' = player \/ player' = [player EXCEPT ![o].zid = x]
  BY DEF UserLostConn, EnterZone
<1>3. \A q \in Objects : player'[q].session = player[q].session /\ player'[q].load = player[q].load
  <2>1. CASE player' = [player EXCEPT ![o].zid = x]
    <3>1. player' = [q \in Objects |->
                       IF q = o THEN [player[o] EXCEPT !.zid = x] ELSE player[q]]
      BY <1>1, <2>1
    <3> QED
      BY <3>1 DEF Player
  <2> QED
    BY <1>2, <2>1
<1>4. Objects' = Objects
  <2>1. Len(player') = Len(player)
    BY <1>2
  <2> QED
    BY <2>1 DEF Objects
<1>5. Online' \subseteq Online
  BY DEF UserLostConn, EnterZone, Online, Bounded, TypeOK
<1> QED
  BY <1>1, <1>3, <1>4, <1>5, SessionsStaySound DEF Loading

LEMMA GatewaySessions ==
  ASSUME Bounded, Seating, SessionsSound, GatewayConnect \/ GatewayDisconnect,
         UNCHANGED <<environment, visiting>>
  PROVE  SessionsSound'
<1> USE BoundedFacts
<1>1. UNCHANGED <<environment, logic_server_players, zone_match_list, stale>>
  BY DEF GatewayConnect, GatewayDisconnect, matches
<1>2. Online' = Online /\ Online \subseteq Objects
  BY <1>1, OnlineFacts DEF Online
<1> SUFFICES ASSUME Patient, "anyLoss" \notin environment
             PROVE  /\ ~stale'
                    /\ \A o \in Objects' : ~Loading(o)'
                    /\ \A o \in Online : player'[o].session = Nil
                    /\ \A z \in Zones : \A i \in InViewMatches(zone_match_list[z]) :
                         \A k \in DOMAIN zone_match_list[z][i].seats :
                           player'[zone_match_list[z][i].seats[k]].session = Nil
  BY <1>1, <1>2 DEF SessionsSound, Patient, InViewMatches
<1>3. CASE GatewayConnect
  <2>1. link = Nil /\ UNCHANGED player
    BY <1>3 DEF GatewayConnect
  <2> QED
    BY <1>1, <2>1 DEF SessionsSound, Objects, Loading
<1>4. CASE GatewayDisconnect
  <2>1. Quiet
    BY <1>4 DEF GatewayDisconnect
  <2>2. player' = [q \in Objects |->
                     IF q \in Online THEN [player[q] EXCEPT !.session = Nil] ELSE player[q]]
    BY <1>4 DEF GatewayDisconnect, SessionsCleared
  <2>3. \A q \in Objects : player'[q].load = player[q].load
                           /\ (q \in Online => player'[q].session = Nil)
    BY <2>2 DEF Player
  <2>4. Objects' = Objects
    <3>1. Bounded'
      BY <1>4, GatewayTypes
    <3>2. Objects' = DOMAIN player'
      BY <3>1, SequenceIsFunction DEF Bounded, TypeOK, Objects
    <3> QED
      BY <2>2, <3>2
  <2>5. \A o \in Objects' : ~Loading(o)'
    BY <2>1, <2>3, <2>4 DEF Quiet, Loading
  <2>6. ASSUME NEW z \in Zones, NEW i \in InViewMatches(zone_match_list[z]),
               NEW k \in DOMAIN zone_match_list[z][i].seats
        PROVE  player'[zone_match_list[z][i].seats[k]].session = Nil
    <3>1. zone_match_list[z][i].seats[k] \in Online
      BY <2>1 DEF Quiet, ToSet
    <3> QED
      BY <1>2, <2>3, <3>1
  <2> QED
    BY <1>1, <1>2, <2>3, <2>5, <2>6 DEF SessionsSound
<1> QED
  BY <1>3, <1>4

LEMMA RoundSessions ==
  ASSUME Bounded, Placed, Seating, OneObject, SessionsSound, NEW z \in Zones, NEW u \in Uids,
         MatchPlayer(z, u), UNCHANGED environment
  PROVE  SessionsSound' /\ OneObject'
<1> USE BoundedFacts
<1> DEFINE p == zone_wait_list[z][u]
           i == Index(z)
           m == MatchFound(z)
           seats == SeatsTaken(z, p)
<1>1. /\ p \in Objects /\ WaiterSound(z, u, p)
      /\ link' = link /\ UNCHANGED logic_server_players
      /\ stale' = (stale \/ \E q \in ToSet(seats) : player[q].session \notin {Nil, link})
  BY RoundFacts
<1>2. /\ Objects' = Objects
      /\ \A q \in Objects :
           /\ player'[q].uid = player[q].uid /\ player'[q].session = player[q].session
           /\ player'[q].load = player[q].load
  BY SeatedFacts DEF Objects
<1>3. OneObject'
  <2>1. zone_wait_list' = [zone_wait_list EXCEPT ![z][u] = Nil]
    BY RoundFacts
  <2>2. \A y \in Zones, v \in Uids :
          zone_wait_list'[y][v] \in {Nil, zone_wait_list[y][v], logic_server_players[v]}
    BY <2>1 DEF Bounded, TypeOK
  <2>3. \A q \in Objects : player'[q].uid = player[q].uid /\ (Loading(q)' => Loading(q))
    BY <1>2 DEF Loading
  <2> QED
    BY <1>1, <1>2, <2>2, <2>3, OneObjectKept
<1>4. SessionsSound'
  <2> SUFFICES ASSUME Patient, "anyLoss" \notin environment
               PROVE  SessionsSound'
    BY DEF SessionsSound, Patient
  <2>1. Online' = Online /\ Online \subseteq Objects
    BY <1>1, OnlineFacts DEF Online
  <2>2. player[p].session \in {Nil, link}
    <3>1. p = logic_server_players[u] /\ p # Nil
      BY <1>1 DEF OneObject, NoGhostWaits
    <3>2. p \in Online
      BY <3>1 DEF Online
    <3> QED
      BY <3>2 DEF SessionsSound
  <2>3. ASSUME NEW k \in DOMAIN seats
        PROVE  seats[k] \in Objects /\ player[seats[k]].session \in {Nil, link}
    <3>1. /\ DOMAIN m.seats = 1..Len(m.seats) /\ Len(m.seats) \in Nat
          /\ DOMAIN seats = 1..(Len(m.seats) + 1) /\ seats[Len(m.seats) + 1] = p
          /\ \A j \in 1..Len(m.seats) : seats[j] = m.seats[j] /\ m.seats[j] \in Objects
      BY <1>1, SeatsFacts DEF WaiterSound
    <3>2. CASE k = Len(m.seats) + 1
      BY <1>1, <2>2, <3>1, <3>2
    <3>3. CASE k \in 1..Len(m.seats)
      <4>1. i \in DOMAIN zone_match_list[z]
        <5>1. ASSUME i \notin DOMAIN zone_match_list[z]
              PROVE  FALSE
          <6>1. m = NewMatch(sg_matchid) /\ sg_matchid \in Nat
            BY <5>1, IndexFacts DEF Bounded, TypeOK
          <6>2. m.seats = <<>>
            BY <6>1, NewMatchFacts
          <6>3. Len(m.seats) = 0
            BY <6>2
          <6> QED
            BY <3>3, <6>3
        <5> QED
          BY <5>1
      <4>2. m = zone_match_list[z][i] /\ m.state = "InView"
        BY <4>1, IndexFacts DEF MatchFound, ListFound
      <4>3. player[m.seats[k]].session \in {Nil, link}
        BY <3>1, <3>3, <4>1, <4>2 DEF SessionsSound, InViewMatches
      <4> QED
        BY <3>1, <3>3, <4>3
    <3> QED
      BY <3>1, <3>2, <3>3
  <2>4. ~stale'
    BY <1>1, <2>3 DEF SessionsSound, ToSet
  <2>5. ASSUME NEW y \in Zones, NEW j \in InViewMatches(zone_match_list'[y]),
               NEW k \in DOMAIN zone_match_list'[y][j].seats
        PROVE  player'[zone_match_list'[y][j].seats[k]].session \in {Nil, link}
    <3>1. /\ y # z => zone_match_list'[y] = zone_match_list[y]
          /\ DOMAIN zone_match_list'[z] = DOMAIN zone_match_list[z] \cup {i}
          /\ \A l \in DOMAIN zone_match_list[z] :
               l # i => zone_match_list'[z][l] = zone_match_list[z][l]
          /\ zone_match_list'[z][i].seats = seats
      BY RoundLists
    <3>2. j \in DOMAIN zone_match_list'[y] /\ zone_match_list'[y][j].state = "InView"
      BY DEF InViewMatches
    <3> HIDE DEF i, seats
    <3>3. CASE y = z /\ j = i
      BY <1>2, <2>3, <3>1, <3>3
    <3>4. CASE ~(y = z /\ j = i)
      <4>1. j \in DOMAIN zone_match_list[y] /\ zone_match_list'[y][j] = zone_match_list[y][j]
        BY <3>1, <3>2, <3>4
      <4>2. k \in DOMAIN zone_match_list[y][j].seats
        BY <4>1
      <4>3. zone_match_list[y][j].seats[k] \in Objects
        BY <4>1, <4>2 DEF Seating, MatchSound
      <4>4. player[zone_match_list[y][j].seats[k]].session \in {Nil, link}
        BY <3>2, <4>1, <4>2 DEF SessionsSound, InViewMatches
      <4> QED
        BY <1>2, <4>1, <4>3, <4>4
    <3> QED
      BY <3>3, <3>4
  <2>6. \A o \in Objects' : Loading(o)' => player'[o].session = link /\ link # Nil
    BY <1>2 DEF SessionsSound, Loading
  <2>7. \A o \in Online' : player'[o].session \in {Nil, link}
    BY <1>2, <2>1 DEF SessionsSound
  <2> QED
    BY <1>1, <2>4, <2>5, <2>6, <2>7 DEF SessionsSound
<1> QED
  BY <1>3, <1>4

LEMMA OneObjectSteps ==
  ASSUME Bounded, Placed, OneObject, UNCHANGED environment,
         \/ \E o \in Objects : UgameInfo(o)
         \/ \E u \in Uids, z \in Zones : EnterZone(u, z)
         \/ GatewayConnect \/ GatewayDisconnect \/ DoMatchPlayers,
         Bounded'
  PROVE  OneObject'
<1> USE BoundedFacts
<1>1. UNCHANGED logic_server_players
  BY DEF UgameInfo, EnterZone, GatewayConnect, GatewayDisconnect, DoMatchPlayers
<1>2. \A z \in Zones, v \in Uids :
        zone_wait_list'[z][v] \in {Nil, zone_wait_list[z][v], logic_server_players[v]}
  <2>1. CASE UNCHANGED zone_wait_list
    BY <2>1
  <2>2. ASSUME NEW u \in Uids, NEW z \in Zones, EnterZone(u, z)
        PROVE  <1>2!:
    BY <2>2 DEF EnterZone, Bounded, TypeOK
  <2> QED
    BY <2>1, <2>2 DEF UgameInfo, GatewayConnect, GatewayDisconnect, DoMatchPlayers
<1>3. /\ DOMAIN player' = Objects
      /\ \A q \in Objects :
           player'[q].uid = player[q].uid /\ (Loading(q)' => Loading(q))
  <2>1. ASSUME NEW o \in Objects, UgameInfo(o)
        PROVE  <1>3!:
    <3>1. PICK l \in {"uinfo", "failed"} : player' = [player EXCEPT ![o].load = l]
      BY <2>1 DEF UgameInfo
    <3>2. player' = [q \in Objects |->
                       IF q = o THEN [player[o] EXCEPT !.load = l] ELSE player[q]]
      BY <3>1
    <3>3. Loading(o)
      BY <2>1 DEF UgameInfo, Loading
    <3> QED
      BY <3>2, <3>3 DEF Player, Loading
  <2>2. ASSUME NEW u \in Uids, NEW z \in Zones, EnterZone(u, z)
        PROVE  <1>3!:
    <3> DEFINE o == logic_server_players[u]
    <3>1. o \in Objects
      BY <2>2 DEF EnterZone, Bounded
    <3>2. player' = [q \in Objects |-> IF q = o THEN [player[o] EXCEPT !.zid = z] ELSE player[q]]
      BY <2>2, <3>1 DEF EnterZone
    <3> QED
      BY <3>2 DEF Player, Loading
  <2>3. CASE GatewayConnect \/ DoMatchPlayers
    BY <2>3 DEF GatewayConnect, DoMatchPlayers, Loading
  <2>4. CASE GatewayDisconnect
    <3>1. player' = [q \in Objects |->
                       IF q \in Online THEN [player[q] EXCEPT !.session = Nil] ELSE player[q]]
      BY <2>4 DEF GatewayDisconnect, SessionsCleared
    <3> QED
      BY <3>1 DEF Player, Loading
  <2> QED
    BY <2>1, <2>2, <2>3, <2>4
<1>4. Objects' = Objects
  <2>1. Objects' = DOMAIN player'
    BY SequenceIsFunction DEF Bounded, TypeOK, Objects
  <2> QED
    BY <1>3, <2>1
<1> QED
  BY <1>1, <1>2, <1>3, <1>4, OneObjectKept

-----------------------------------------------------------------------------
(***************************************************************************)
(* The invariant, one action at a time.                                    *)
(***************************************************************************)
LEMMA LInvInit == Init => LInv
<1> SUFFICES ASSUME Init
             PROVE  LInv
  OBVIOUS
<1>1. <<>> \in Seq(Player) /\ Len(player) = 0 /\ player = <<>> /\ <<>> \in Seq(Match)
  BY DEF Init
<1>2. Objects = {}
  BY <1>1 DEF Objects
<1>3. link \in 0..MaxLinks /\ links \in 0..MaxLinks
  BY BoundAssumption DEF Init
<1>4. Bounded
  <2>1. TypeOK
    BY <1>1, <1>3 DEF Init, TypeOK
  <2> QED
    BY <1>1, <2>1, BoundAssumption DEF Init, Bounded
<1>5. Online = {}
  BY DEF Init, Online
<1>6. Placed
  BY <1>2 DEF Init, Placed
<1>7. \A z \in Zones : DOMAIN zone_match_list[z] = {} /\ zone_match_list[z] = <<>>
  BY DEF Init
<1>8. Seating
  BY <1>2, <1>7 DEF Init, Seating, UniqueIds, OneMatchAssembled, InViewMatches
<1>9. Counted
  BY <1>5, FS_EmptySet DEF Init, Counted, OnlineCounted
<1>10. OneObject
  BY <1>2 DEF Init, OneObject, NoGhostWaits
<1>11. SessionsSound
  BY <1>2, <1>5, <1>7 DEF Init, SessionsSound, InViewMatches
<1> QED
  BY <1>4, <1>6, <1>8, <1>9, <1>10, <1>11 DEF LInv

LEMMA LInvStep == LInv /\ [Next]_vars => LInv'
<1> SUFFICES ASSUME LInv, [Next]_vars
             PROVE  LInv'
  OBVIOUS
<1> USE DEF LInv
<1>1. CASE UNCHANGED vars
  <2>1. UNCHANGED <<environment, link, player, logic_server_players, online_player_num,
                    zone_wait_list, zone_match_list, sg_matchid, visits, stale>>
    BY <1>1 DEF vars, gateway, matches, visiting
  <2>2. UNCHANGED <<links, zid>>
    BY <1>1 DEF vars, gateway, visiting
  <2>3. Objects' = Objects /\ Online' = Online
    BY <2>1 DEF Objects, Online
  <2>4. Bounded'
    BY <2>1, <2>2, <2>3 DEF Bounded, TypeOK
  <2>5. Placed'
    BY <2>1, <2>3 DEF Placed, ObjectSound, OnlineSound, WaiterSound
  <2>6. Seating'
    BY <2>1, <2>3, SeatingKept DEF matches
  <2>7. Counted'
    BY <2>1, CountedKept
  <2>8. OneObject'
    BY <2>1, <2>3 DEF OneObject, NoGhostWaits, Patient, Loading
  <2>9. SessionsSound'
    BY <2>1, <2>3 DEF SessionsSound, Patient, Loading, InViewMatches
  <2> QED
    BY <2>4, <2>5, <2>6, <2>7, <2>8, <2>9
<1>2. ASSUME NEW u \in Uids, LoginLogicReq(u), visits = {}, UNCHANGED <<environment, visiting>>
      PROVE  LInv'
  <2>1. UNCHANGED <<logic_server_players, online_player_num>>
    BY <1>2 DEF LoginLogicReq
  <2> QED
    BY <1>2, <2>1, LoginTypes, LoginPlaced, CountedKept, LoginOneObject, LoginSessions
<1>3. ASSUME NEW u \in Uids, UserLostConn(u), visits = {}, UNCHANGED <<environment, visiting>>
      PROVE  LInv'
  BY <1>3, LostTypes, LostPlaced, LostCounted, LostOneObject, UserSessions
<1>4. ASSUME NEW u \in Uids, NEW z \in Zones, EnterZone(u, z), visits = {},
             UNCHANGED <<environment, visiting>>
      PROVE  LInv'
  <2>1. UNCHANGED <<logic_server_players, online_player_num>>
    BY <1>4 DEF EnterZone
  <2>2. Bounded'
    BY <1>4, EnterZoneTypes
  <2>3. OneObject'
    BY <1>4, <2>2, OneObjectSteps
  <2> QED
    BY <1>4, <2>1, <2>2, <2>3, EnterZonePlaced, CountedKept, UserSessions
<1>5. ASSUME NEW o \in Objects, UgameInfo(o), visits = {}, UNCHANGED <<environment, visiting>>
      PROVE  LInv'
  <2>1. UNCHANGED <<logic_server_players, online_player_num>>
    BY <1>5 DEF UgameInfo
  <2>2. Bounded'
    BY <1>5, UgameTypes
  <2>3. OneObject'
    BY <1>5, <2>2, OneObjectSteps
  <2> QED
    BY <1>5, <2>1, <2>2, <2>3, LoadingPlaced, CountedKept, LoadingSessions
<1>6. ASSUME NEW o \in Objects, UinfoInRedis(o), visits = {}, UNCHANGED <<environment, visiting>>
      PROVE  LInv'
  BY <1>6, UinfoTypes, LoadingPlaced, UinfoCounted, UinfoOneObject, LoadingSessions
<1>7. ASSUME GatewayConnect \/ GatewayDisconnect, visits = {},
             UNCHANGED <<environment, visiting>>
      PROVE  LInv'
  <2>1. UNCHANGED <<logic_server_players, online_player_num>>
    BY <1>7 DEF GatewayConnect, GatewayDisconnect
  <2>2. Bounded'
    BY <1>7, GatewayTypes
  <2>3. OneObject'
    BY <1>7, <2>2, OneObjectSteps
  <2> QED
    BY <1>7, <2>1, <2>2, <2>3, GatewayPlaced, CountedKept, GatewaySessions
<1>8. ASSUME DoMatchPlayers, UNCHANGED environment
      PROVE  LInv'
  <2>1. UNCHANGED <<link, player, logic_server_players, online_player_num, matches, stale>>
    BY <1>8 DEF DoMatchPlayers, gateway
  <2>2. Bounded'
    BY <1>8, LoopTypes
  <2>3. OneObject'
    BY <1>8, <2>2, OneObjectSteps
  <2>4. Objects' = Objects /\ Online' = Online
    BY <2>1 DEF Objects, Online
  <2>5. SessionsSound'
    BY <1>8, <2>1, <2>4, SessionsStaySound DEF Loading
  <2> QED
    BY <1>8, <2>1, <2>2, <2>3, <2>5, LoopPlaced, CountedKept
<1>9. ASSUME NEW z \in Zones, NEW u \in Uids, MatchPlayer(z, u), UNCHANGED environment
      PROVE  LInv'
  <2>1. UNCHANGED <<logic_server_players, online_player_num>>
    BY <1>9 DEF MatchPlayer
  <2> QED
    BY <1>9, <2>1, RoundTypes, RoundPlaced, RoundSeating, CountedKept, RoundSessions
<1> QED
  BY <1>1, <1>2, <1>3, <1>4, <1>5, <1>6, <1>7, <1>8, <1>9 DEF Next, Idle, Objects

LEMMA LInvariance == Spec => []LInv
  BY LInvInit, LInvStep, PTL DEF Spec

-----------------------------------------------------------------------------
(* The theorems. *)

\* Player objects, tables and matches keep their types, and the tables and seats name
\* objects that exist, in every environment: game_mgr.lua and match_mgr.lua.
THEOREM TypeCorrect == Spec => []TypeOK
<1>1. LInv => TypeOK
  BY DEF LInv, Bounded
<1> QED
  BY <1>1, LInvariance, PTL

\* Whatever the surroundings do, a player and the match he sits in agree about zone, id,
\* seat and state, ids are unique over all zones, and a match is Playing exactly when it
\* is full: match_mgr:enter_player, game_start and the loss of users.
THEOREM SeatsAgree == Spec => []SeatsSound
<1>1. LInv => SeatsSound
  <2> SUFFICES ASSUME LInv
               PROVE  SeatsSound
    OBVIOUS
  <2>1. ASSUME NEW z \in Zones, NEW i \in DOMAIN zone_match_list[z]
        PROVE  LET m == zone_match_list[z][i]
               IN  /\ m.matchid < sg_matchid
                   /\ m.state = IF Len(m.seats) = 2 * PLAYER_NUM THEN "Playing" ELSE "InView"
                   /\ \A k \in DOMAIN m.seats :
                        LET p == player[m.seats[k]]
                        IN  /\ p.zid = z /\ p.matchid = m.matchid
                            /\ p.seatid = k /\ p.state = m.state
    <3>1. MatchSound(z, zone_match_list[z][i]) /\ sg_matchid \in Nat
      BY DEF LInv, Seating, Bounded, TypeOK
    <3> QED
      BY <3>1 DEF MatchSound
  <2>2. ASSUME NEW o \in DOMAIN player, player[o].matchid # Nil
        PROVE  \E i \in DOMAIN zone_match_list[player[o].zid] :
                 LET m == zone_match_list[player[o].zid][i]
                 IN  m.matchid = player[o].matchid /\ m.seats[player[o].seatid] = o
    BY <2>2, BoundedFacts DEF LInv, Seating, SitsIn
  <2>3. UniqueIds
    BY DEF LInv, Seating
  <2> QED
    BY <2>1, <2>2, <2>3 DEF SeatsSound, UniqueIds
<1> QED
  BY <1>1, LInvariance, PTL

\* Whatever the surroundings do, do_match_players can seat everybody who waits.
THEOREM EveryWaiterCanEnter == Spec => []WaitersCanEnter
<1>1. LInv => WaitersCanEnter
  BY DEF LInv, Placed, WaiterSound, WaitersCanEnter
<1> QED
  BY <1>1, LInvariance, PTL

\* search_inview_match_mgr finds the one match of a zone that is being assembled.
THEOREM OneAtATime == Spec => []OneMatchAssembled
<1>1. LInv => OneMatchAssembled
  BY DEF LInv, Seating
<1> QED
  BY <1>1, LInvariance, PTL

\* Where users wait for the answer to a login, only who is online waits for a match.
THEOREM WaitersAreOnline == Spec => []NoGhostWaits
<1>1. LInv => NoGhostWaits
  BY DEF LInv, OneObject, NoGhostWaits
<1> QED
  BY <1>1, LInvariance, PTL

\* Where users wait for the answer to a login, online_player_num is the size of the
\* table of players.
THEOREM NumberIsRight == Spec => []OnlineCounted
<1>1. LInv => OnlineCounted
  BY DEF LInv, Counted
<1> QED
  BY <1>1, LInvariance, PTL

\* Where, besides, the gateway is lost at quiet moments only, no message goes to a
\* connection that is gone: on_gateway_disconnect clears every session that is used.
THEOREM NoMessageToDeadSession == Spec => []NoDeadSession
<1>1. LInv => NoDeadSession
  BY DEF LInv, SessionsSound, NoDeadSession
<1> QED
  BY <1>1, LInvariance, PTL

-----------------------------------------------------------------------------
(***************************************************************************)
(* What users may rely on: consequences of the invariant that no run       *)
(* checks, and seats and ids over time.                                    *)
(***************************************************************************)
\* A user of the table whose player is in a zone waits there for a match, or has a seat
\* in a match of this zone and does not wait.
EveryPlayerPlaced ==
  \A u \in Uids :
    LET o == logic_server_players[u]
        z == player[o].zid
    IN  o # Nil /\ z # Nil =>
          \/ zone_wait_list[z][u] = o /\ player[o].matchid = Nil
          \/ /\ zone_wait_list[z][u] = Nil
             /\ \E i \in DOMAIN zone_match_list[z] : o \in ToSet(zone_match_list[z][i].seats)

\* enter_zone, do_match_players and the loss of users never leave a player of the table in
\* a zone in which do_match_players does not find him and in which he has no match, and
\* they never do both to him.
THEOREM NobodyForgotten == Spec => []EveryPlayerPlaced
<1>1. LInv => EveryPlayerPlaced
  <2> SUFFICES ASSUME LInv, NEW u \in Uids, NEW o, o = logic_server_players[u],
                      NEW z, z = player[o].zid, o # Nil, z # Nil
               PROVE  \/ zone_wait_list[z][u] = o /\ player[o].matchid = Nil
                      \/ /\ zone_wait_list[z][u] = Nil
                         /\ \E i \in DOMAIN zone_match_list[z] :
                              o \in ToSet(zone_match_list[z][i].seats)
    BY DEF EveryPlayerPlaced
  <2>1. o \in Objects /\ OnlineSound(u, o)
    BY DEF LInv, Bounded, Placed
  <2>2. CASE player[o].matchid = Nil
    BY <2>1, <2>2 DEF OnlineSound
  <2>3. CASE player[o].matchid # Nil
    <3>1. PICK i \in DOMAIN zone_match_list[z] : SitsIn(o, zone_match_list[z][i])
      BY <2>1, <2>3 DEF LInv, Seating
    <3>2. o \in ToSet(zone_match_list[z][i].seats)
      BY <3>1 DEF SitsIn, ToSet
    <3> QED
      BY <2>1, <2>3, <3>2 DEF OnlineSound
  <2> QED
    BY <2>2, <2>3
<1> QED
  BY <1>1, LInvariance, PTL

\* No player has two seats, in one match, in two matches of a zone or in two zones.
OneSeatEach ==
  \A y, z \in Zones : \A i \in DOMAIN zone_match_list[z], j \in DOMAIN zone_match_list[y] :
    \A k \in DOMAIN zone_match_list[z][i].seats, l \in DOMAIN zone_match_list[y][j].seats :
      zone_match_list[z][i].seats[k] = zone_match_list[y][j].seats[l] =>
        y = z /\ j = i /\ l = k

\* Over all matches of all zones enter_player gives a player at most one seat, whatever the
\* surroundings do.
THEOREM OneSeatForEach == Spec => []OneSeatEach
<1>1. LInv => OneSeatEach
  <2> SUFFICES ASSUME LInv, NEW y \in Zones, NEW z \in Zones,
                      NEW i \in DOMAIN zone_match_list[z], NEW j \in DOMAIN zone_match_list[y],
                      NEW k \in DOMAIN zone_match_list[z][i].seats,
                      NEW l \in DOMAIN zone_match_list[y][j].seats,
                      zone_match_list[z][i].seats[k] = zone_match_list[y][j].seats[l]
               PROVE  y = z /\ j = i /\ l = k
    BY DEF OneSeatEach
  <2>1. MatchSound(z, zone_match_list[z][i]) /\ MatchSound(y, zone_match_list[y][j]) /\ UniqueIds
    BY DEF LInv, Seating
  <2>2. zone_match_list[z][i].matchid = zone_match_list[y][j].matchid /\ k = l
    BY <2>1 DEF MatchSound
  <2> QED
    BY <2>1, <2>2 DEF UniqueIds
<1> QED
  BY <1>1, LInvariance, PTL

\* Two seats of a match whose players are both in the table belong to different users.
PresentUsersDiffer ==
  \A z \in Zones : \A i \in DOMAIN zone_match_list[z] :
    LET seats == zone_match_list[z][i].seats
    IN  \A j, k \in DOMAIN seats :
          {seats[j], seats[k]} \subseteq Online /\ player[seats[j]].uid = player[seats[k]].uid
            => j = k

\* What is left of OneAgainstOne: a user plays against himself only in a match with a
\* player object of his that has left the table, which on_player_disconnect leaves seated.
THEOREM PresentOpponentsDiffer == Spec => []PresentUsersDiffer
<1>1. LInv => PresentUsersDiffer
  <2> SUFFICES ASSUME LInv, NEW z \in Zones, NEW i \in DOMAIN zone_match_list[z],
                      NEW j \in DOMAIN zone_match_list[z][i].seats,
                      NEW k \in DOMAIN zone_match_list[z][i].seats,
                      zone_match_list[z][i].seats[j] \in Online,
                      zone_match_list[z][i].seats[k] \in Online,
                      player[zone_match_list[z][i].seats[j]].uid =
                        player[zone_match_list[z][i].seats[k]].uid
               PROVE  j = k
    BY DEF PresentUsersDiffer
  <2> DEFINE a == zone_match_list[z][i].seats[j]
             b == zone_match_list[z][i].seats[k]
  <2>1. \A q \in Online : logic_server_players[player[q].uid] = q
    BY DEF LInv, Placed, Online, OnlineSound
  <2>2. a = b
    BY <2>1
  <2>3. MatchSound(z, zone_match_list[z][i])
    BY DEF LInv, Seating
  <2>4. player[a].seatid = j /\ player[b].seatid = k
    BY <2>3 DEF MatchSound
  <2> HIDE DEF a, b
  <2> QED
    BY <2>2, <2>4
<1> QED
  BY <1>1, LInvariance, PTL

-----------------------------------------------------------------------------
\* Object o keeps its user, its zone and its seat, and a match it plays goes on.
SeatStays(o) ==
  /\ o \in DOMAIN player'
  /\ player'[o].uid = player[o].uid /\ player'[o].zid = player[o].zid
  /\ player'[o].matchid = player[o].matchid /\ player'[o].seatid = player[o].seatid
  /\ player[o].state = "Playing" => player'[o].state = "Playing"

\* A seat is for good: no later step changes the match or the place of who has one.
SeatsForGood == [][\A o \in DOMAIN player : player[o].matchid # Nil => SeatStays(o)]_vars

LEMMA UserSeatStays ==
  ASSUME Bounded, Placed, NEW o \in Objects, player[o].matchid # Nil, NEW u \in Uids,
         LoginLogicReq(u) \/ UserLostConn(u) \/ \E z \in Zones : EnterZone(u, z)
  PROVE  SeatStays(o)
<1> USE BoundedFacts
<1> DEFINE q == logic_server_players[u]
<1>1. q \in {Nil} \cup Objects
  BY DEF Bounded
<1>2. CASE UNCHANGED player
  BY <1>2 DEF SeatStays
<1>3. CASE LoginLogicReq(u) /\ q # Nil
  <2>1. player' = [p \in Objects |->
                     IF p = q THEN [player[q] EXCEPT !.session = link] ELSE player[p]]
    BY <1>1, <1>3 DEF LoginLogicReq
  <2> QED
    BY <2>1 DEF Player, SeatStays
<1>4. CASE LoginLogicReq(u) /\ q = Nil
  <2>1. player' = Append(player, NewPlayer(u, link)) /\ player \in Seq(Player)
    BY <1>4 DEF LoginLogicReq, Bounded, TypeOK
  <2>2. link \in 0..MaxLinks
    BY DEF Bounded, TypeOK
  <2>3. NewPlayer(u, link) \in Player
    BY <2>2, PlayerNumAssumption DEF NewPlayer, Player, Nil, State
  <2>4. o \in DOMAIN player' /\ player'[o] = player[o]
    BY <2>1, <2>3, AppendFacts DEF Objects
  <2> QED
    BY <2>4 DEF SeatStays
<1>5. CASE UserLostConn(u)
  <2>1. q \in Objects /\ OnlineSound(u, q)
    BY <1>1, <1>5 DEF UserLostConn, Placed
  <2>2. CASE ~Waits(q)
    BY <1>2, <1>5, <2>2 DEF UserLostConn
  <2>3. CASE Waits(q)
    <3>1. player' = [p \in Objects |->
                       IF p = q THEN [player[q] EXCEPT !.zid = Nil] ELSE player[p]]
      BY <1>5, <2>1, <2>3 DEF UserLostConn
    <3>2. player[q].matchid = Nil
      BY <2>1, <2>3 DEF Waits, OnlineSound
    <3>3. q # o
      BY <3>2
    <3> QED
      BY <3>1, <3>3 DEF SeatStays
  <2> QED
    BY <2>2, <2>3
<1>6. ASSUME NEW z \in Zones, EnterZone(u, z)
      PROVE  SeatStays(o)
  <2>1. q \in Objects /\ player[q].zid = Nil
    BY <1>1, <1>6 DEF EnterZone
  <2>2. player' = [p \in Objects |->
                     IF p = q THEN [player[q] EXCEPT !.zid = z] ELSE player[p]]
    BY <1>6, <2>1 DEF EnterZone
  <2>3. q # o
    BY <2>1 DEF Placed, ObjectSound
  <2> QED
    BY <2>2, <2>3 DEF SeatStays
<1> QED
  BY <1>3, <1>4, <1>5, <1>6

LEMMA OtherSeatStays ==
  ASSUME Bounded, Placed, Seating, NEW o \in Objects, player[o].matchid # Nil,
         \/ \E q \in Objects : UgameInfo(q) \/ UinfoInRedis(q)
         \/ GatewayConnect \/ GatewayDisconnect \/ DoMatchPlayers
         \/ \E z \in Zones, u \in Uids : MatchPlayer(z, u)
         \/ UNCHANGED player
  PROVE  SeatStays(o)
<1> USE BoundedFacts
<1>1. CASE UNCHANGED player
  BY <1>1 DEF SeatStays
<1>2. ASSUME NEW q \in Objects, UgameInfo(q) \/ UinfoInRedis(q)
      PROVE  SeatStays(o)
  <2>1. PICK l \in {"uinfo", "loaded", "failed"} : player' = [player EXCEPT ![q].load = l]
    BY <1>2 DEF UgameInfo, UinfoInRedis
  <2>2. player' = [p \in Objects |->
                     IF p = q THEN [player[q] EXCEPT !.load = l] ELSE player[p]]
    BY <2>1
  <2> QED
    BY <2>2 DEF Player, SeatStays
<1>3. CASE GatewayConnect \/ DoMatchPlayers
  BY <1>1, <1>3 DEF GatewayConnect, DoMatchPlayers
<1>4. CASE GatewayDisconnect
  <2>1. player' = [p \in Objects |->
                     IF p \in Online THEN [player[p] EXCEPT !.session = Nil] ELSE player[p]]
    BY <1>4 DEF GatewayDisconnect, SessionsCleared
  <2> QED
    BY <2>1 DEF Player, SeatStays
<1>5. ASSUME NEW z \in Zones, NEW u \in Uids, MatchPlayer(z, u)
      PROVE  SeatStays(o)
  <2> DEFINE p == zone_wait_list[z][u]
  <2>1. p \in Objects /\ player[p].matchid = Nil
    BY <1>5, RoundFacts DEF WaiterSound
  <2>2. o # p
    BY <2>1
  <2>3. /\ player' \in Seq(Player) /\ Len(player') = Len(player)
        /\ player'[o].uid = player[o].uid /\ player'[o].zid = player[o].zid
        /\ player'[o].matchid = player[o].matchid /\ player'[o].seatid = player[o].seatid
        /\ player[o].state = "Playing" => player'[o].state = "Playing"
    BY <1>5, <2>2, SeatedFacts
  <2>4. o \in DOMAIN player'
    BY <2>3, SequenceIsFunction DEF Objects
  <2> QED
    BY <2>3, <2>4 DEF SeatStays
<1> QED
  BY <1>1, <1>2, <1>3, <1>4, <1>5

\* Whatever happens to a user and to the gateway, the zone, the match and the seat of a
\* player object are fixed once enter_player has set them, and no match that has started
\* goes back: nothing in game_mgr.lua clears matchid or seatid.
THEOREM SeatsAreForGood == Spec => SeatsForGood
<1>1. LInv /\ [Next]_vars =>
        [\A o \in DOMAIN player : player[o].matchid # Nil => SeatStays(o)]_vars
  <2> SUFFICES ASSUME LInv, [Next]_vars, NEW o \in DOMAIN player, player[o].matchid # Nil
               PROVE  SeatStays(o)
    OBVIOUS
  <2>1. Bounded /\ Placed /\ Seating
    BY DEF LInv
  <2>2. o \in Objects
    BY <2>1, BoundedFacts
  <2>3. CASE UNCHANGED vars
    BY <2>1, <2>2, <2>3, OtherSeatStays DEF vars
  <2>4. CASE Next
    BY <2>1, <2>2, <2>4, OtherSeatStays, UserSeatStays DEF Next, Idle, Objects
  <2> QED
    BY <2>3, <2>4
<1> QED
  BY <1>1, LInvariance, PTL DEF Spec, SeatsForGood

-----------------------------------------------------------------------------
(***************************************************************************)
(* The ids of matches and their places in the lists: MatchFor looks at the *)
(* place an id names, and the zones share one count of ids.                *)
(***************************************************************************)
\* The ids of the matches of zone z grow along its list, and none is smaller than its place.
IdsGrow(z) ==
  /\ Len(zone_match_list[z]) < sg_matchid
  /\ \A i \in DOMAIN zone_match_list[z] : i <= zone_match_list[z][i].matchid
  /\ \A i, j \in DOMAIN zone_match_list[z] :
       i < j => zone_match_list[z][i].matchid < zone_match_list[z][j].matchid

IdsInv == LInv /\ \A z \in Zones : IdsGrow(z)

LEMMA IdsInit == Init => IdsInv
<1> SUFFICES ASSUME Init PROVE IdsInv
  OBVIOUS
<1>1. LInv
  BY LInvInit
<1>2. \A z \in Zones : zone_match_list[z] = <<>> /\ Len(zone_match_list[z]) = 0
                         /\ DOMAIN zone_match_list[z] = {}
  BY DEF Init
<1>3. sg_matchid = 1
  BY DEF Init
<1> QED
  BY <1>1, <1>2, <1>3 DEF IdsInv, IdsGrow

\* A new match gets an id that no match of any zone has had, and the last place.
LEMMA RoundIds ==
  ASSUME IdsInv, NEW z \in Zones, NEW u \in Uids, MatchPlayer(z, u), NEW y \in Zones
  PROVE  IdsGrow(y)'
<1>0. Bounded /\ Placed /\ Seating /\ sg_matchid \in Nat /\ IdsGrow(y)
      /\ zone_match_list[y] \in Seq(Match)
  BY DEF IdsInv, LInv, Bounded, TypeOK
<1>1. Len(zone_match_list[y]) \in Nat /\ DOMAIN zone_match_list[y] = 1..Len(zone_match_list[y])
      /\ \A k \in DOMAIN zone_match_list[y] : zone_match_list[y][k].matchid \in 1..(sg_matchid - 1)
  BY <1>0, SequenceIsFunction DEF Seating, MatchSound
<1> DEFINE i == Index(z)
           list == zone_match_list[z]
<1>2. sg_matchid' = IF i \in DOMAIN list THEN sg_matchid ELSE sg_matchid + 1
  BY <1>0, RoundFacts
<1>3. /\ \A x \in Zones : x # z => zone_match_list'[x] = zone_match_list[x]
      /\ i \in Nat /\ Len(zone_match_list'[z]) = i
      /\ DOMAIN zone_match_list'[z] = DOMAIN list \cup {i}
      /\ \A k \in DOMAIN list : k # i => zone_match_list'[z][k] = list[k]
      /\ zone_match_list'[z][i].matchid = MatchFound(z).matchid
  BY <1>0, RoundLists
<1>4. /\ i \in Nat \ {0} /\ DOMAIN list \subseteq 1..i /\ 1..i \subseteq DOMAIN list \cup {i}
      /\ i \notin DOMAIN list => MatchFound(z) = NewMatch(sg_matchid)
  BY <1>0, IndexFacts
<1>5. CASE y # z
  <2>1. zone_match_list'[y] = zone_match_list[y]
    BY <1>3, <1>5
  <2>2. sg_matchid <= sg_matchid' /\ sg_matchid' \in Nat
    BY <1>0, <1>2
  <2>3. Len(zone_match_list[y]) < sg_matchid'
    BY <1>0, <1>1, <2>2 DEF IdsGrow
  <2> QED
    BY <1>0, <2>1, <2>3 DEF IdsGrow
<1>6. CASE y = z /\ i \in DOMAIN list
  <2>1. MatchFound(z) = list[i]
    BY <1>6 DEF MatchFound, ListFound
  <2>2. /\ DOMAIN zone_match_list'[z] = DOMAIN list
        /\ \A k \in DOMAIN list : zone_match_list'[z][k].matchid = list[k].matchid
    BY <1>3, <1>6, <2>1
  <2>3. i < sg_matchid'
    BY <1>0, <1>1, <1>2, <1>6 DEF IdsGrow
  <2> QED
    BY <1>0, <1>3, <1>6, <2>2, <2>3 DEF IdsGrow
<1>7. CASE y = z /\ i \notin DOMAIN list
  <2>1. zone_match_list'[z][i].matchid = sg_matchid
    BY <1>0, <1>3, <1>4, <1>7, NewMatchFacts
  <2>2. i = Len(list) + 1 /\ sg_matchid' = sg_matchid + 1
    <3> DEFINE n == Len(list)
    <3>1. n \in Nat /\ DOMAIN list = 1..n
      BY <1>1, <1>7
    <3> HIDE DEF n, i, list
    <3>2. ~(i <= n) /\ (n + 1 \in 1..i => n + 1 = i)
      BY <1>4, <1>7, <3>1
    <3>3. i = n + 1
      BY <1>4, <3>1, <3>2
    <3> QED
      BY <1>2, <1>7, <3>3 DEF n
  <2>3. \A k \in DOMAIN list :
          /\ k # i /\ k < i /\ zone_match_list'[z][k] = list[k]
          /\ list[k].matchid \in Nat /\ list[k].matchid < sg_matchid
    <3> SUFFICES ASSUME NEW k \in DOMAIN list
                 PROVE  /\ k # i /\ k < i /\ zone_match_list'[z][k] = list[k]
                        /\ list[k].matchid \in Nat /\ list[k].matchid < sg_matchid
      OBVIOUS
    <3>1. list[k].matchid \in 1..(sg_matchid - 1) /\ k \in 1..Len(list) /\ Len(list) \in Nat
      BY <1>1, <1>7
    <3>2. k # i
      BY <1>7
    <3> HIDE DEF i, list
    <3>3. k < i
      BY <2>2, <3>1
    <3> QED
      BY <1>0, <1>3, <3>1, <3>2, <3>3
  <2>4. i <= sg_matchid /\ i < sg_matchid'
    BY <1>0, <1>1, <1>7, <2>2 DEF IdsGrow
  <2>5. \A k \in DOMAIN zone_match_list'[z] : k \in DOMAIN list \/ k = i
    BY <1>3
  <2> HIDE DEF i
  <2>6. \A k \in DOMAIN zone_match_list'[z] : k <= zone_match_list'[z][k].matchid
    BY <1>0, <1>7, <2>1, <2>3, <2>4, <2>5 DEF IdsGrow
  <2>7. ASSUME NEW j \in DOMAIN zone_match_list'[z], NEW k \in DOMAIN zone_match_list'[z], j < k
        PROVE  zone_match_list'[z][j].matchid < zone_match_list'[z][k].matchid
    <3>1. j \in DOMAIN list
      BY <1>3, <2>3, <2>5, <2>7
    <3>2. CASE k = i
      BY <2>1, <2>3, <3>1, <3>2
    <3>3. CASE k \in DOMAIN list
      BY <1>0, <1>7, <2>3, <2>7, <3>1, <3>3 DEF IdsGrow
    <3> QED
      BY <2>5, <3>2, <3>3
  <2> QED
    BY <1>3, <1>7, <2>4, <2>6, <2>7 DEF IdsGrow
<1> QED
  BY <1>5, <1>6, <1>7

LEMMA IdsInvariance == Spec => []IdsInv
<1>1. IdsInv /\ [Next]_vars => IdsInv'
  <2> SUFFICES ASSUME IdsInv, [Next]_vars
               PROVE  IdsInv'
    OBVIOUS
  <2>1. LInv'
    BY LInvStep DEF IdsInv
  <2>2. CASE \E z \in Zones, u \in Uids : MatchPlayer(z, u)
    BY <2>1, <2>2, RoundIds DEF IdsInv
  <2>3. CASE ~(\E z \in Zones, u \in Uids : MatchPlayer(z, u))
    <3>1. UNCHANGED matches
      BY <2>3 DEF Next, Idle, vars, LoginLogicReq, UserLostConn, EnterZone, UgameInfo,
                  UinfoInRedis, GatewayConnect, GatewayDisconnect, DoMatchPlayers
    <3> QED
      BY <2>1, <3>1 DEF IdsInv, IdsGrow, matches
  <2> QED
    BY <2>2, <2>3
<1> QED
  BY <1>1, IdsInit, PTL DEF Spec

\* The match at the place the id of a player's match names is his own or one of a later id.
FramesGoNoEarlier ==
  \A o \in DOMAIN player : player[o].matchid # Nil =>
    \A m \in MatchFor(player[o].zid, player[o].matchid) :
      player[o].matchid <= m.matchid /\ (m.matchid = player[o].matchid => o \in ToSet(m.seats))

\* What is left of FramesReachMatch: on_next_frame_event never hands the operations of a
\* player to a match that was made before his own; they reach his own match, a later one,
\* or none.
THEOREM NoFrameGoesBack == Spec => []FramesGoNoEarlier
<1>1. IdsInv => FramesGoNoEarlier
  <2> SUFFICES ASSUME IdsInv, NEW o \in DOMAIN player, player[o].matchid # Nil,
                      NEW m \in MatchFor(player[o].zid, player[o].matchid)
               PROVE  /\ player[o].matchid <= m.matchid
                      /\ m.matchid = player[o].matchid => o \in ToSet(m.seats)
    BY DEF FramesGoNoEarlier
  <2> DEFINE z == player[o].zid
             id == player[o].matchid
  <2>1. o \in Objects /\ Bounded /\ Placed /\ Seating
    BY BoundedFacts DEF IdsInv, LInv
  <2>2. z \in Zones
    <3>1. player[o] \in Player /\ z # Nil
      BY <2>1, BoundedFacts DEF Placed, ObjectSound
    <3> QED
      BY <3>1 DEF Player
  <2>3. id \in DOMAIN zone_match_list[z] /\ m = zone_match_list[z][id]
    BY DEF MatchFor
  <2>4. id <= m.matchid
    BY <2>2, <2>3 DEF IdsInv, IdsGrow
  <2>5. ASSUME m.matchid = id
        PROVE  o \in ToSet(m.seats)
    <3>1. PICK i \in DOMAIN zone_match_list[z] : SitsIn(o, zone_match_list[z][i])
      BY <2>1 DEF Seating
    <3>2. zone_match_list[z][i] = m
      BY <2>1, <2>2, <2>3, <2>5, <3>1 DEF Seating, UniqueIds, SitsIn
    <3> QED
      BY <3>1, <3>2 DEF SitsIn, ToSet
  <2> QED
    BY <2>4, <2>5
<1> QED
  BY <1>1, IdsInvariance, PTL
=============================================================================
