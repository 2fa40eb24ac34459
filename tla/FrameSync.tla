------------------------------ MODULE FrameSync -----------------------------
(***************************************************************************)
(* Lockstep frame synchronisation of one running match                     *)
(* (logic_server/match_mgr.lua, from game_start on).                       *)
(*                                                                         *)
(* Every LOGIC_FRAME_TIME the server closes the current frame, stores it   *)
(* in match_frames and sends each player, over UDP, every frame the player *)
(* is not known to hold.  A client answers with the operations of its      *)
(* player for the next frame; that datagram is also the acknowledgement of *)
(* the frames before it.  UDP loses, duplicates and reorders datagrams.    *)
(*                                                                         *)
(* The client is not in the repository: it is modelled from the messages   *)
(* the server sends and from what match_mgr:on_next_frame_event concludes  *)
(* from the answer.                                                        *)
(***************************************************************************)
EXTENDS Naturals, Sequences, FiniteSets

CONSTANTS
  Seats,                 \* 1..PLAYER_NUM*2
  MaxFrame,              \* bound: frames in the log
  MaxDup,                \* bound: datagrams the network delivers again
  MaxLoss,               \* bound: datagrams the network loses
  MaxOutage              \* bound: times players lose their gateway session

ASSUME SeatsAssumption == IsFiniteSet(Seats)
ASSUME BoundsAssumption ==
  MaxFrame \in Nat /\ MaxDup \in Nat /\ MaxLoss \in Nat /\ MaxOutage \in Nat

VARIABLES
  frameid,               \* match.frameid: the number of the frame being filled
  match_frames,          \* match.match_frames
  next_opts,             \* match.next_frame_opt.opts
  sync_frameid,          \* sync_frameid[p]: frames the server knows p to hold
  session,               \* session[p]: p.session is not nil
  down,                  \* eLogicFrame datagrams in flight
  up,                    \* eNextFrameOpts datagrams in flight
  client_frame,          \* the last frame the client of a seat has applied
  applied,               \* the frames the client of a seat has applied
  dups, losses, outages  \* how much of each bound is used

server == <<frameid, match_frames, next_opts, sync_frameid>>
client == <<client_frame, applied>>
budget == <<dups, losses, outages>>
vars == <<server, session, down, up, client, budget>>

\* An operation of a player: who issued it, and the frame it is meant for.
Op == [seat : Seats, frame : Nat]
Frame == [frameid : Nat, opts : Seq(Op)]
LogicFrameMsg == [seat : Seats, frameid : Nat, frames : SUBSET Frame]
NextFrameOptsMsg == [seat : Seats, frameid : Nat, opts : Seq(Op)]

\* Type correctness of the server's match, the datagrams and the clients.
TypeOK ==
  /\ frameid \in Nat
  /\ match_frames \in Seq(Frame)
  /\ next_opts \in Seq(Op)
  /\ sync_frameid \in [Seats -> Nat]
  /\ session \in [Seats -> BOOLEAN]
  /\ down \subseteq LogicFrameMsg
  /\ up \subseteq NextFrameOptsMsg
  /\ client_frame \in [Seats -> Nat]
  /\ applied \in [Seats -> SUBSET Frame]
  /\ dups \in Nat /\ losses \in Nat /\ outages \in Nat

-----------------------------------------------------------------------------
\* A bug player:init could have: "none", as it is for zid, matchid and side.
SyncMinusOne == 0 - 1

\* sync_frameid as player:init sets it; game_start does not touch it, and no
\* player gets into a second match.
SyncAtStart == 0

\* match_mgr:game_start: the match is Playing and frame 1 is being filled.
Init ==
  /\ frameid = 1
  /\ match_frames = <<>>
  /\ next_opts = <<>>
  /\ sync_frameid = [p \in Seats |-> SyncAtStart]
  /\ session = [p \in Seats |-> TRUE]
  /\ down = {} /\ up = {}
  /\ client_frame = [p \in Seats |-> 0]
  /\ applied = [p \in Seats |-> {}]
  /\ dups = 0 /\ losses = 0 /\ outages = 0

\* The datagram network delivers m: it is gone, or (a duplicate) stays in
\* flight to be delivered again.
Deliver(net, netNext, m) ==
  \/ netNext = net \ {m} /\ UNCHANGED dups
  \/ /\ dups < MaxDup
     /\ netNext = net
     /\ dups' = dups + 1

-----------------------------------------------------------------------------

\* player:udp_send_cmd sends nothing to a player without a session (nor to a
\* robot, but isActiveRobot is false and no robot ever gets a seat).
CanSendUdp(p) == session[p]

\* A bug send_unsync_frames could have: it starts one frame too late.
UnsyncFromTooLate(stored, p) ==
  {stored[i] : i \in (sync_frameid[p] + 2)..Len(stored)}

\* match_mgr:send_unsync_frames: every stored frame p has not acknowledged.
UnsyncFrames(stored, p) ==
  {stored[i] : i \in (sync_frameid[p] + 1)..Len(stored)}

\* A bug on_logic_frame could have: the next frame starts with the old
\* operations.
KeptOpts == next_opts

\* The operations of the frame on_logic_frame opens.
FreshOpts == <<>>

\* match_mgr:on_logic_frame, called by the frame timer: store the frame, send
\* every player what it misses, open the next frame.
OnLogicFrame ==
  LET stored == Append(match_frames, [frameid |-> frameid, opts |-> next_opts])
  IN  /\ Len(match_frames) < MaxFrame
      /\ match_frames' = stored
      /\ down' = down \cup
           {[seat |-> p, frameid |-> frameid, frames |-> UnsyncFrames(stored, p)]
              : p \in {q \in Seats : CanSendUdp(q)}}
      /\ frameid' = frameid + 1
      /\ next_opts' = FreshOpts
      /\ UNCHANGED <<sync_frameid, session, up, client, losses, outages, dups>>

\* A bug on_next_frame_event could have: the frame a client is filling counts
\* as a frame it holds.
AckedTooMuch(p, f) == IF sync_frameid[p] < f THEN f ELSE sync_frameid[p]

\* A client which fills frame f holds all the frames before it.
Acked(p, f) == IF sync_frameid[p] < f - 1 THEN f - 1 ELSE sync_frameid[p]

\* A bug on_next_frame_event could have: late operations are not discarded.
AcceptsAnyFrame(f) == TRUE

\* The server takes operations for the frame being filled and no other.
AcceptsOpts(f) == f = frameid

\* match_mgr:on_next_frame_event, for the datagram m.
OnNextFrameEvent(m) ==
  /\ m \in up
  /\ Deliver(up, up', m)
  /\ sync_frameid' = [sync_frameid EXCEPT ![m.seat] = Acked(m.seat, m.frameid)]
  /\ next_opts' = IF AcceptsOpts(m.frameid) THEN next_opts \o m.opts ELSE next_opts
  /\ UNCHANGED <<frameid, match_frames, session, down, client, losses, outages>>

-----------------------------------------------------------------------------
\* The client of seat m.seat receives the datagram m: one that is older than
\* what it holds is dropped; otherwise the frames it has not applied are
\* applied, and the operations of the player (one or none) are sent for the
\* frame after.
RecvLogicFrame(m) ==
  /\ m \in down
  /\ Deliver(down, down', m)
  /\ IF m.frameid < client_frame[m.seat]
     THEN UNCHANGED <<client, up>>
     ELSE /\ applied' = [applied EXCEPT ![m.seat] = @ \cup
               {f \in m.frames : f.frameid > client_frame[m.seat]}]
          /\ client_frame' = [client_frame EXCEPT ![m.seat] = m.frameid]
          /\ \E opts \in {<<>>, <<[seat |-> m.seat, frame |-> m.frameid + 1]>>} :
               up' = up \cup
                 {[seat |-> m.seat, frameid |-> m.frameid + 1, opts |-> opts]}
  /\ UNCHANGED <<server, session, losses, outages>>

\* The network loses a datagram, in either direction.
Lose ==
  /\ losses < MaxLoss
  /\ losses' = losses + 1
  /\ \/ \E m \in down : down' = down \ {m} /\ UNCHANGED up
     \/ \E m \in up : up' = up \ {m} /\ UNCHANGED down
  /\ UNCHANGED <<server, session, client, dups, outages>>

-----------------------------------------------------------------------------
\* game_mgr on_gateway_disconnect: the players which are still in
\* logic_server_players, whichever they are, lose their session.
GatewayDisconnect ==
  /\ outages < MaxOutage
  /\ outages' = outages + 1
  /\ \E S \in SUBSET Seats :
       session' = [p \in Seats |-> IF p \in S THEN FALSE ELSE session[p]]
  /\ UNCHANGED <<server, down, up, client, dups, losses>>

\* game_mgr login_logic_server for a player which is there already: the new
\* session replaces the old one.
PlayerLogin(p) ==
  /\ ~session[p]
  /\ session' = [session EXCEPT ![p] = TRUE]
  /\ UNCHANGED <<server, down, up, client, budget>>

Next ==
  \/ OnLogicFrame
  \/ \E m \in up : OnNextFrameEvent(m)
  \/ \E m \in down : RecvLogicFrame(m)
  \/ Lose
  \/ GatewayDisconnect
  \/ \E p \in Seats : PlayerLogin(p)

Spec == Init /\ [][Next]_vars

(***************************************************************************)
(* Fairness.  The frame timer repeats for ever (Scheduler.schedule with    *)
(* count -1), so a tick that is possible happens.  A datagram the network  *)
(* does not lose (at most MaxLoss are lost) is delivered in the end, and   *)
(* the event loop runs the handler of each datagram it receives.           *)
(***************************************************************************)
FairSpec ==
  /\ Spec
  /\ WF_vars(OnLogicFrame)
  /\ WF_vars(\E m \in down : RecvLogicFrame(m))
  /\ WF_vars(\E m \in up : OnNextFrameEvent(m))

-----------------------------------------------------------------------------
(***************************************************************************)
(* Properties                                                              *)
(***************************************************************************)
\* The first n frames the server has stored.
Stored(n) == {match_frames[i] : i \in 1..n}

\* Lockstep agreement: what a client has applied is exactly the first
\* client_frame frames of the match, none missing, whichever datagrams
\* were lost, repeated or overtaken.  It rests on send_unsync_frames starting
\* at the last frame on_next_frame_event concluded the client to hold.
PrefixAgreement ==
  \A c \in Seats :
    /\ client_frame[c] <= Len(match_frames)
    /\ applied[c] = Stored(client_frame[c])

\* The server never counts a frame as held by a client that does not hold it
\* (p.sync_frameid in on_next_frame_event), or it would never send it again.
AckSound == \A p \in Seats : sync_frameid[p] <= client_frame[p]

\* The operations s holds were all issued for frame f.
MeantFor(s, f) == \A k \in 1..Len(s) : s[k].frame = f

\* An operation is in the frame its player issued it for or in none: late
\* ones are discarded by on_next_frame_event, never moved to a later frame.
OpsInTheirFrame ==
  /\ \A i \in 1..Len(match_frames) : MeantFor(match_frames[i].opts, i)
  /\ MeantFor(next_opts, frameid)

\* Where the network repeats no datagram, no operation is executed twice,
\* in one frame or in two.
\* (on_next_frame_event does not look for repeated datagrams.)
NoOpTwice ==
  \A i, h \in 1..Len(match_frames) :
    \A j \in 1..Len(match_frames[i].opts), k \in 1..Len(match_frames[h].opts) :
      match_frames[i].opts[j] = match_frames[h].opts[k] => <<i, j>> = <<h, k>>

\* The session of c is there at the last MaxLoss + 1 ticks.
ServedAtLast(c) == Len(match_frames) >= MaxFrame - MaxLoss - 1 => session[c]


\* FrameSync implements the shared log of FrameLog.
Log == INSTANCE FrameLog WITH log <- match_frames, view <- applied
ImplementsLog == Log!Spec
=============================================================================
