--------------------------- MODULE FrameSyncProofs --------------------------
(***************************************************************************)
(* Lockstep agreement of FrameSync for any number of seats, frames, lost   *)
(* and repeated datagrams, and the refinement of FrameLog.                 *)
(***************************************************************************)
EXTENDS FrameSync, SequenceTheorems, TLAPS

\* A datagram to a client carries the stored frames from some frame the
\* client can continue with up to the one it names.
GoodDown(m) ==
  /\ m.frameid \in 1..Len(match_frames)
  /\ \E from \in 1..(client_frame[m.seat] + 1) :
       m.frames = {match_frames[i] : i \in from..m.frameid}

\* A datagram of a client names the frame after one it has applied, and
\* brings operations for that frame.
GoodUp(m) ==
  /\ m.frameid <= client_frame[m.seat] + 1
  /\ MeantFor(m.opts, m.frameid)

\* The stored frames are numbered 1, 2, ... and frameid is the next number.
Numbered ==
  /\ frameid = Len(match_frames) + 1
  /\ \A i \in 1..Len(match_frames) : match_frames[i].frameid = i

\* The inductive invariant.
IInv ==
  /\ TypeOK
  /\ Numbered
  /\ \A m \in down : GoodDown(m)
  /\ \A m \in up : GoodUp(m)
  /\ PrefixAgreement
  /\ AckSound
  /\ OpsInTheirFrame

-----------------------------------------------------------------------------
\* Appending a frame leaves the frames before it where they are.
LEMMA AppendFrame ==
  ASSUME NEW s \in Seq(Frame), NEW f \in Frame
  PROVE  /\ Append(s, f) \in Seq(Frame)
         /\ Len(Append(s, f)) = Len(s) + 1
         /\ \A i \in 1..Len(s) : Append(s, f)[i] = s[i]
         /\ Append(s, f)[Len(s) + 1] = f
  BY DEF Frame

\* Operations meant for a frame, appended to others meant for it, are still
\* all meant for it.
LEMMA ConcatMeantFor ==
  ASSUME NEW s \in Seq(Op), NEW t \in Seq(Op), NEW f \in Nat,
         MeantFor(s, f), MeantFor(t, f)
  PROVE  s \o t \in Seq(Op) /\ MeantFor(s \o t, f)
<1>1. /\ s \o t \in Seq(Op)
      /\ Len(s \o t) = Len(s) + Len(t)
      /\ \A i \in 1..(Len(s) + Len(t)) :
           (s \o t)[i] = IF i <= Len(s) THEN s[i] ELSE t[i - Len(s)]
  BY ConcatProperties
<1>2. ASSUME NEW k \in 1..Len(s \o t) PROVE (s \o t)[k].frame = f
  <2>0. Len(s) \in Nat /\ Len(t) \in Nat
    OBVIOUS
  <2>1. CASE k <= Len(s)
    <3>1. k \in 1..Len(s)
      BY <2>1, <1>1, <2>0
    <3>2. (s \o t)[k] = s[k]
      BY <2>1, <1>1, <2>0
    <3> QED
      BY <3>1, <3>2 DEF MeantFor
  <2>2. CASE ~(k <= Len(s))
    <3>1. k - Len(s) \in 1..Len(t)
      BY <2>2, <1>1, <2>0
    <3>2. (s \o t)[k] = t[k - Len(s)]
      BY <2>2, <1>1, <2>0
    <3> QED
      BY <3>1, <3>2 DEF MeantFor
  <2> QED
    BY <2>1, <2>2
<1> QED
  BY <1>1, <1>2 DEF MeantFor

-----------------------------------------------------------------------------
LEMMA InitIInv == Init => IInv
<1> SUFFICES ASSUME Init PROVE IInv
  OBVIOUS
<1>1. TypeOK
  BY DEF Init, TypeOK, SyncAtStart
<1>2. Numbered
  BY DEF Init, Numbered
<1>3. (\A m \in down : GoodDown(m)) /\ (\A m \in up : GoodUp(m))
  BY DEF Init
<1>4. PrefixAgreement
  BY DEF Init, PrefixAgreement, Stored
<1>5. AckSound
  BY DEF Init, AckSound, SyncAtStart
<1>6. OpsInTheirFrame
  BY DEF Init, OpsInTheirFrame, MeantFor
<1> QED
  BY <1>1, <1>2, <1>3, <1>4, <1>5, <1>6 DEF IInv

\* The frame timer.
LEMMA OnLogicFrameIInv ==
  ASSUME IInv, OnLogicFrame
  PROVE  IInv'
<1> DEFINE new == [frameid |-> frameid, opts |-> next_opts]
           sent(p) == [seat |-> p, frameid |-> frameid,
                       frames |-> UnsyncFrames(match_frames', p)]
<1> USE DEF IInv
<1>1. new \in Frame
  BY DEF TypeOK, Frame
<1>2. /\ match_frames' = Append(match_frames, new)
      /\ match_frames' \in Seq(Frame)
      /\ Len(match_frames') = Len(match_frames) + 1
      /\ \A i \in 1..Len(match_frames) : match_frames'[i] = match_frames[i]
      /\ match_frames'[Len(match_frames) + 1] = new
      /\ Len(match_frames) \in Nat
  BY <1>1, AppendFrame DEF OnLogicFrame, TypeOK
<1>3. /\ frameid' = frameid + 1 /\ next_opts' = <<>>
      /\ UNCHANGED <<sync_frameid, session, up, client_frame, applied>>
      /\ dups' = dups /\ losses' = losses /\ outages' = outages
  BY DEF OnLogicFrame, FreshOpts, client
<1>4. down' = down \cup {sent(p) : p \in {q \in Seats : CanSendUdp(q)}}
  BY DEF OnLogicFrame
<1>5. TypeOK'
  <2>1. \A p \in Seats : sent(p) \in LogicFrameMsg
    <3> SUFFICES ASSUME NEW p \in Seats PROVE sent(p) \in LogicFrameMsg
      OBVIOUS
    <3>0. sync_frameid[p] \in Nat
      BY DEF TypeOK
    <3>1. \A i \in (sync_frameid[p] + 1)..Len(match_frames') : match_frames'[i] \in Frame
      BY <1>2, <3>0
    <3>2. UnsyncFrames(match_frames', p) \subseteq Frame
      BY <3>1 DEF UnsyncFrames
    <3> QED
      BY <3>2 DEF LogicFrameMsg, TypeOK
  <2>2. down' \subseteq LogicFrameMsg
    BY <2>1, <1>4 DEF TypeOK
  <2> QED
    BY <1>2, <1>3, <2>2 DEF TypeOK
<1>6. Numbered'
  BY <1>2, <1>3 DEF Numbered
<1>7. ASSUME NEW m \in down' PROVE GoodDown(m)'
  <2>1. CASE m \in down
    <3>1. m \in LogicFrameMsg /\ m.seat \in Seats /\ client_frame[m.seat] \in Nat
      BY <2>1 DEF TypeOK, LogicFrameMsg
    <3>2. m.frameid \in 1..Len(match_frames')
      BY <2>1, <1>2 DEF GoodDown
    <3>3. PICK from \in 1..(client_frame[m.seat] + 1) :
             m.frames = {match_frames[i] : i \in from..m.frameid}
      BY <2>1 DEF GoodDown
    <3>4. \A i \in from..m.frameid : match_frames'[i] = match_frames[i]
      BY <2>1, <1>2, <3>1, <3>3 DEF GoodDown
    <3>5. m.frames = {match_frames'[i] : i \in from..m.frameid}
      BY <3>3, <3>4
    <3> QED
      BY <3>2, <3>3, <3>5, <1>3 DEF GoodDown
  <2>2. CASE m \notin down
    <3>1. PICK p \in Seats : m = sent(p)
      BY <2>2, <1>4
    <3>2. m.seat = p /\ m.frameid = frameid /\ m.frames = UnsyncFrames(match_frames', p)
      BY <3>1
    <3>3. sync_frameid[p] + 1 \in 1..(client_frame[p] + 1)
      BY DEF TypeOK, AckSound
    <3>4. frameid = Len(match_frames')
      BY <1>2 DEF Numbered
    <3>5. m.frames = {match_frames'[i] : i \in (sync_frameid[p] + 1)..m.frameid}
      BY <3>2, <3>4 DEF UnsyncFrames
    <3> QED
      BY <3>2, <3>3, <3>4, <3>5, <1>2, <1>3 DEF GoodDown
  <2> QED
    BY <2>1, <2>2
<1>8. ASSUME NEW m \in up' PROVE GoodUp(m)'
  BY <1>8, <1>3 DEF GoodUp, MeantFor
<1>9. PrefixAgreement'
  <2> SUFFICES ASSUME NEW c \in Seats
               PROVE  /\ client_frame[c] <= Len(match_frames')
                      /\ applied[c] = {match_frames'[i] : i \in 1..client_frame[c]}
    BY <1>3 DEF PrefixAgreement, Stored
  <2>1. /\ client_frame[c] \in Nat
        /\ client_frame[c] <= Len(match_frames)
        /\ applied[c] = {match_frames[i] : i \in 1..client_frame[c]}
    BY DEF PrefixAgreement, Stored, TypeOK
  <2>2. \A i \in 1..client_frame[c] : match_frames'[i] = match_frames[i]
    BY <2>1, <1>2
  <2> QED
    BY <2>1, <2>2, <1>2
<1>10. AckSound'
  BY <1>3 DEF AckSound
<1>11. OpsInTheirFrame'
  <2>1. ASSUME NEW i \in 1..Len(match_frames') PROVE MeantFor(match_frames'[i].opts, i)
    <3>1. CASE i \in 1..Len(match_frames)
      BY <3>1, <1>2 DEF OpsInTheirFrame
    <3>2. CASE i = Len(match_frames) + 1
      BY <3>2, <1>2 DEF OpsInTheirFrame, Numbered
    <3> QED
      BY <3>1, <3>2, <1>2
  <2>2. MeantFor(<<>>, frameid')
    BY DEF MeantFor
  <2> QED
    BY <2>1, <2>2, <1>3 DEF OpsInTheirFrame, MeantFor
<1> QED
  BY <1>5, <1>6, <1>7, <1>8, <1>9, <1>10, <1>11

\* A datagram of a client arrives at the server.
LEMMA OnNextFrameEventIInv ==
  ASSUME IInv, NEW m \in up, OnNextFrameEvent(m)
  PROVE  IInv'
<1> USE DEF IInv
<1>1. /\ m.seat \in Seats /\ m.frameid \in Nat /\ m.opts \in Seq(Op)
      /\ sync_frameid[m.seat] \in Nat /\ client_frame[m.seat] \in Nat
  BY DEF TypeOK, NextFrameOptsMsg
<1>2. /\ up' \subseteq up
      /\ dups' \in Nat
  BY DEF OnNextFrameEvent, Deliver, TypeOK
<1>3. UNCHANGED <<frameid, match_frames, session, down, client_frame, applied, losses, outages>>
  BY DEF OnNextFrameEvent, client
<1>4. sync_frameid' = [sync_frameid EXCEPT ![m.seat] = Acked(m.seat, m.frameid)]
  BY DEF OnNextFrameEvent
<1>5. /\ Acked(m.seat, m.frameid) \in Nat
      /\ Acked(m.seat, m.frameid) <= client_frame[m.seat]
  BY <1>1 DEF Acked, GoodUp, AckSound
<1>6. next_opts' \in Seq(Op) /\ MeantFor(next_opts', frameid)
  <2>1. CASE m.frameid = frameid
    <3>1. MeantFor(m.opts, frameid) /\ MeantFor(next_opts, frameid)
      BY <2>1 DEF GoodUp, OpsInTheirFrame
    <3>2. next_opts' = next_opts \o m.opts
      BY <2>1 DEF OnNextFrameEvent, AcceptsOpts
    <3> QED
      BY <3>1, <3>2, <1>1, ConcatMeantFor DEF TypeOK
  <2>2. CASE m.frameid # frameid
    BY <2>2 DEF OnNextFrameEvent, AcceptsOpts, OpsInTheirFrame, TypeOK
  <2> QED
    BY <2>1, <2>2
<1>7. TypeOK'
  BY <1>1, <1>2, <1>3, <1>4, <1>5, <1>6 DEF TypeOK
<1>8. Numbered'
  BY <1>3 DEF Numbered
<1>9. \A x \in down' : GoodDown(x)'
  BY <1>3 DEF GoodDown
<1>10. \A x \in up' : GoodUp(x)'
  BY <1>2, <1>3 DEF GoodUp, MeantFor
<1>11. PrefixAgreement'
  BY <1>3 DEF PrefixAgreement, Stored
<1>12. AckSound'
  BY <1>3, <1>4, <1>5 DEF AckSound, TypeOK
<1>13. OpsInTheirFrame'
  BY <1>3, <1>6 DEF OpsInTheirFrame, MeantFor
<1> QED
  BY <1>7, <1>8, <1>9, <1>10, <1>11, <1>12, <1>13

\* A datagram of the server arrives at a client: what it brings joins what the
\* client holds without a gap.
LEMMA RecvLogicFrameIInv ==
  ASSUME IInv, NEW m \in down, RecvLogicFrame(m)
  PROVE  IInv'
<1> USE DEF IInv
<1> DEFINE c == m.seat
<1>1. /\ c \in Seats /\ m.frameid \in Nat /\ m.frames \subseteq Frame
      /\ client_frame[c] \in Nat /\ Len(match_frames) \in Nat
  BY DEF TypeOK, LogicFrameMsg
<1>2. /\ down' \subseteq down
      /\ dups' \in Nat
  BY DEF RecvLogicFrame, Deliver, TypeOK
<1>3. UNCHANGED <<frameid, match_frames, next_opts, sync_frameid, session, losses, outages>>
  BY DEF RecvLogicFrame, server
<1>4. CASE m.frameid < client_frame[c]
  <2>1. UNCHANGED <<client_frame, applied, up>>
    BY <1>4 DEF RecvLogicFrame, client
  <2>2. TypeOK'
    BY <1>2, <1>3, <2>1 DEF TypeOK
  <2>3. Numbered' /\ OpsInTheirFrame'
    BY <1>3 DEF Numbered, OpsInTheirFrame, MeantFor
  <2>4. \A x \in down' : GoodDown(x)'
    BY <1>2, <1>3, <2>1 DEF GoodDown
  <2>5. \A x \in up' : GoodUp(x)'
    BY <2>1 DEF GoodUp, MeantFor
  <2>6. PrefixAgreement' /\ AckSound'
    BY <1>3, <2>1 DEF PrefixAgreement, AckSound, Stored
  <2> QED
    BY <2>2, <2>3, <2>4, <2>5, <2>6
<1>5. CASE ~(m.frameid < client_frame[c])
  <2> DEFINE opt == [seat |-> c, frame |-> m.frameid + 1]
             fresh == {f \in m.frames : f.frameid > client_frame[c]}
  <2>1. /\ applied' = [applied EXCEPT ![c] = @ \cup fresh]
        /\ client_frame' = [client_frame EXCEPT ![c] = m.frameid]
    BY <1>5 DEF RecvLogicFrame
  <2>2. PICK opts \in {<<>>, <<opt>>} :
          up' = up \cup {[seat |-> c, frameid |-> m.frameid + 1, opts |-> opts]}
    BY <1>5 DEF RecvLogicFrame
  <2>3. opts \in Seq(Op) /\ MeantFor(opts, m.frameid + 1)
    <3>1. opt \in Op /\ opt.frame = m.frameid + 1
      BY <1>1 DEF Op
    <3> HIDE DEF opt
    <3>2. CASE opts = <<>>
      BY <3>2 DEF MeantFor
    <3>3. CASE opts = <<opt>>
      <4>1. opts \in Seq(Op) /\ Len(opts) = 1 /\ opts[1] = opt
        BY <3>1, <3>3
      <4> QED
        BY <3>1, <4>1 DEF MeantFor
    <3> QED
      BY <3>2, <3>3
  <2>4. TypeOK'
    <3>1. up' \subseteq NextFrameOptsMsg
      BY <1>1, <2>2, <2>3 DEF TypeOK, NextFrameOptsMsg
    <3>2. applied' \in [Seats -> SUBSET Frame]
      BY <1>1, <2>1 DEF TypeOK
    <3>3. client_frame' \in [Seats -> Nat]
      BY <1>1, <2>1 DEF TypeOK
    <3> QED
      BY <1>2, <1>3, <3>1, <3>2, <3>3 DEF TypeOK
  <2>5. Numbered' /\ OpsInTheirFrame'
    BY <1>3 DEF Numbered, OpsInTheirFrame, MeantFor
  <2>6. \A p \in Seats : client_frame[p] <= client_frame'[p] /\ client_frame'[p] \in Nat
    BY <1>1, <1>5, <2>1 DEF TypeOK
  <2>7. ASSUME NEW x \in down' PROVE GoodDown(x)'
    <3>1. x \in down /\ x.seat \in Seats
      BY <1>2 DEF TypeOK, LogicFrameMsg
    <3>2. /\ x.frameid \in 1..Len(match_frames)
          /\ \E from \in 1..(client_frame[x.seat] + 1) :
               x.frames = {match_frames[i] : i \in from..x.frameid}
      BY <3>1 DEF GoodDown
    <3>3. PICK from \in 1..(client_frame[x.seat] + 1) :
             x.frames = {match_frames[i] : i \in from..x.frameid}
      BY <3>2
    <3>4. from \in 1..(client_frame'[x.seat] + 1)
      BY <3>1, <3>3, <2>6 DEF TypeOK
    <3> QED
      BY <3>2, <3>3, <3>4, <1>3 DEF GoodDown
  <2>8. ASSUME NEW x \in up' PROVE GoodUp(x)'
    <3>1. CASE x \in up
      <4>1. x.seat \in Seats /\ x.frameid \in Nat
        BY <3>1 DEF TypeOK, NextFrameOptsMsg
      <4>2. x.frameid <= client_frame[x.seat] + 1 /\ client_frame[x.seat] \in Nat
        BY <3>1, <4>1 DEF GoodUp, TypeOK
      <4>3. x.frameid <= client_frame'[x.seat] + 1
        BY <4>1, <4>2, <2>6
      <4> QED
        BY <4>3, <3>1 DEF GoodUp, MeantFor
    <3>2. CASE x \notin up
      <4>1. x = [seat |-> c, frameid |-> m.frameid + 1, opts |-> opts]
        BY <3>2, <2>2
      <4>2. client_frame'[c] = m.frameid
        BY <1>1, <2>1 DEF TypeOK
      <4> QED
        BY <4>1, <4>2, <2>3, <1>1 DEF GoodUp, MeantFor
    <3> QED
      BY <3>1, <3>2
  <2>9. PrefixAgreement'
    <3>1. PICK from \in 1..(client_frame[c] + 1) :
             m.frames = {match_frames[i] : i \in from..m.frameid}
      BY DEF GoodDown
    <3>2. m.frameid \in 1..Len(match_frames)
      BY DEF GoodDown
    <3>3. applied[c] = {match_frames[i] : i \in 1..client_frame[c]}
      BY <1>1 DEF PrefixAgreement, Stored
    <3>4. fresh = {match_frames[i] : i \in (client_frame[c] + 1)..m.frameid}
      <4>1. \A i \in from..m.frameid : match_frames[i].frameid = i
        BY <3>1, <3>2 DEF Numbered
      <4>2. \A f \in fresh : \E i \in (client_frame[c] + 1)..m.frameid : f = match_frames[i]
        BY <4>1, <3>1, <1>1
      <4>3. \A i \in (client_frame[c] + 1)..m.frameid :
              i \in from..m.frameid /\ match_frames[i] \in fresh
        BY <4>1, <3>1, <1>1
      <4> QED
        BY <4>2, <4>3
    <3>5. applied[c] \cup fresh = {match_frames[i] : i \in 1..m.frameid}
      <4>1. 1..m.frameid = (1..client_frame[c]) \cup ((client_frame[c] + 1)..m.frameid)
        BY <1>1, <1>5, <3>2
      <4> QED
        BY <3>3, <3>4, <4>1
    <3>6. applied'[c] = applied[c] \cup fresh /\ client_frame'[c] = m.frameid
      BY <1>1, <2>1 DEF TypeOK
    <3>7. ASSUME NEW d \in Seats, d # c
          PROVE  applied'[d] = applied[d] /\ client_frame'[d] = client_frame[d]
      BY <3>7, <2>1 DEF TypeOK
    <3> QED
      BY <3>2, <3>5, <3>6, <3>7, <1>1, <1>3 DEF PrefixAgreement, Stored
  <2>10. AckSound'
    <3> SUFFICES ASSUME NEW p \in Seats PROVE sync_frameid[p] <= client_frame'[p]
      BY <1>3 DEF AckSound
    <3>1. sync_frameid[p] \in Nat /\ client_frame[p] \in Nat
      BY DEF TypeOK
    <3> QED
      BY <3>1, <2>6 DEF AckSound
  <2> QED
    BY <2>4, <2>5, <2>7, <2>8, <2>9, <2>10
<1> QED
  BY <1>4, <1>5

\* Losing datagrams, losing and regaining sessions touch neither the log nor
\* what anybody holds of it.
LEMMA OtherStepsIInv ==
  ASSUME IInv,
         \/ Lose
         \/ GatewayDisconnect
         \/ \E p \in Seats : PlayerLogin(p)
         \/ UNCHANGED vars
  PROVE  IInv'
<1> USE DEF IInv
<1>1. /\ UNCHANGED <<frameid, match_frames, next_opts, sync_frameid, client_frame, applied>>
      /\ up' \subseteq up /\ down' \subseteq down
  BY DEF Lose, GatewayDisconnect, PlayerLogin, vars, server, client
<1>2. session' \in [Seats -> BOOLEAN]
  <2>1. CASE Lose
    BY <2>1 DEF Lose, TypeOK
  <2>2. CASE GatewayDisconnect
    BY <2>2 DEF GatewayDisconnect, TypeOK
  <2>3. CASE \E p \in Seats : PlayerLogin(p)
    BY <2>3 DEF PlayerLogin, TypeOK
  <2>4. CASE UNCHANGED vars
    BY <2>4 DEF vars, TypeOK
  <2> QED
    BY <2>1, <2>2, <2>3, <2>4
<1>3. dups' \in Nat /\ losses' \in Nat /\ outages' \in Nat
  <2>0. dups \in Nat /\ losses \in Nat /\ outages \in Nat
    BY DEF TypeOK
  <2>1. CASE Lose
    BY <2>0, <2>1 DEF Lose
  <2>2. CASE GatewayDisconnect
    BY <2>0, <2>2 DEF GatewayDisconnect
  <2>3. CASE \E p \in Seats : PlayerLogin(p)
    BY <2>0, <2>3 DEF PlayerLogin, budget
  <2>4. CASE UNCHANGED vars
    BY <2>0, <2>4 DEF vars, budget
  <2> QED
    BY <2>1, <2>2, <2>3, <2>4
<1>4. TypeOK'
  BY <1>1, <1>2, <1>3 DEF TypeOK
<1>5. Numbered' /\ OpsInTheirFrame'
  BY <1>1 DEF Numbered, OpsInTheirFrame, MeantFor
<1>6. \A x \in down' : GoodDown(x)'
  BY <1>1 DEF GoodDown
<1>7. \A x \in up' : GoodUp(x)'
  BY <1>1 DEF GoodUp, MeantFor
<1>8. PrefixAgreement' /\ AckSound'
  BY <1>1 DEF PrefixAgreement, AckSound, Stored
<1> QED
  BY <1>4, <1>5, <1>6, <1>7, <1>8

\* Every step keeps the inductive invariant.
LEMMA NextIInv == IInv /\ [Next]_vars => IInv'
<1> SUFFICES ASSUME IInv, [Next]_vars PROVE IInv'
  OBVIOUS
<1>1. CASE OnLogicFrame
  BY <1>1, OnLogicFrameIInv
<1>2. CASE \E m \in up : OnNextFrameEvent(m)
  BY <1>2, OnNextFrameEventIInv
<1>3. CASE \E m \in down : RecvLogicFrame(m)
  BY <1>3, RecvLogicFrameIInv
<1>4. CASE \/ Lose
           \/ GatewayDisconnect
           \/ \E p \in Seats : PlayerLogin(p)
           \/ UNCHANGED vars
  BY <1>4, OtherStepsIInv
<1> QED
  BY <1>1, <1>2, <1>3, <1>4 DEF Next

LEMMA InvariantHolds == Spec => []IInv
  BY InitIInv, NextIInv, PTL DEF Spec

-----------------------------------------------------------------------------
\* The state of the match, the datagrams and the clients is well typed.
THEOREM TypeCorrect == Spec => []TypeOK
<1>1. IInv => TypeOK
  BY DEF IInv
<1> QED
  BY <1>1, InvariantHolds, PTL

\* Every client has applied exactly a prefix of the frames of the match.
THEOREM LockstepAgreement == Spec => []PrefixAgreement
<1>1. IInv => PrefixAgreement
  BY DEF IInv
<1> QED
  BY <1>1, InvariantHolds, PTL

\* The server counts no frame as held by a client that lacks it.
THEOREM AcknowledgementsAreSound == Spec => []AckSound
<1>1. IInv => AckSound
  BY DEF IInv
<1> QED
  BY <1>1, InvariantHolds, PTL

\* An operation is executed in the frame it was issued for or not at all.
THEOREM NoLateOperation == Spec => []OpsInTheirFrame
<1>1. IInv => OpsInTheirFrame
  BY DEF IInv
<1> QED
  BY <1>1, InvariantHolds, PTL

-----------------------------------------------------------------------------
\* A tick publishes the next frame of the log.
LEMMA TickPublishes ==
  ASSUME IInv, OnLogicFrame
  PROVE  Log!Publish
<1> DEFINE f == [frameid |-> frameid, opts |-> next_opts]
<1>1. f \in Frame /\ match_frames \in Seq(Frame) /\ Len(match_frames) \in Nat
  BY DEF IInv, TypeOK, Frame
<1>2. match_frames' = Append(match_frames, f) /\ UNCHANGED applied
  BY DEF OnLogicFrame, client
<1>3. Len(match_frames') = Len(match_frames) + 1 /\ match_frames'[Len(match_frames) + 1] = f
  BY <1>1, <1>2, AppendFrame
<1>4. f.frameid = Len(match_frames) + 1 /\ \A k \in 1..Len(f.opts) : f.opts[k].frame = f.frameid
  BY DEF IInv, Numbered, OpsInTheirFrame, MeantFor
<1> QED
  BY <1>2, <1>3, <1>4 DEF Log!Publish

\* A datagram a client receives advances it in the log, or changes nothing.
LEMMA DatagramAdvances ==
  ASSUME IInv, IInv', NEW m \in down, RecvLogicFrame(m)
  PROVE  (\E c \in Seats : Log!Advance(c)) \/ UNCHANGED Log!flVars
<1>1. UNCHANGED match_frames
  BY DEF RecvLogicFrame, server
<1>2. CASE m.frameid < client_frame[m.seat]
  BY <1>1, <1>2 DEF RecvLogicFrame, client, Log!flVars
<1>3. CASE ~(m.frameid < client_frame[m.seat])
  <2> DEFINE c == m.seat
             n == m.frameid
  <2>1. c \in Seats /\ n \in 1..Len(match_frames)
    BY DEF IInv, TypeOK, LogicFrameMsg, GoodDown
  <2>2. applied' = [applied EXCEPT ![c] = @ \cup {f \in m.frames : f.frameid > client_frame[c]}]
    BY <1>3 DEF RecvLogicFrame
  <2>3. client_frame'[c] = n
    BY <1>3, <2>1 DEF RecvLogicFrame, IInv, TypeOK
  <2>4. applied'[c] = {match_frames[i] : i \in 1..n}
    BY <1>1, <2>1, <2>3 DEF IInv, PrefixAgreement, Stored
  <2>5. applied' = [applied EXCEPT ![c] = Log!Prefix(n)]
    BY <2>1, <2>2, <2>4 DEF Log!Prefix, IInv, TypeOK
  <2>6. applied[c] \subseteq Log!Prefix(n)
    BY <2>1, <2>2, <2>4 DEF Log!Prefix, IInv, TypeOK
  <2> QED
    BY <1>1, <2>1, <2>5, <2>6 DEF Log!Advance
<1> QED
  BY <1>2, <1>3

\* Frame synchronisation over UDP implements the shared log of FrameLog.
THEOREM FrameSyncImplementsFrameLog == Spec => ImplementsLog
<1>1. Init => Log!Init
  BY DEF Init, Log!Init
<1>2. IInv /\ IInv' /\ [Next]_vars => [Log!Next]_(Log!flVars)
  <2> SUFFICES ASSUME IInv, IInv', [Next]_vars PROVE [Log!Next]_(Log!flVars)
    OBVIOUS
  <2>1. CASE OnLogicFrame
    BY <2>1, TickPublishes DEF Log!Next
  <2>2. CASE \E m \in down : RecvLogicFrame(m)
    BY <2>2, DatagramAdvances DEF Log!Next
  <2>3. CASE \/ \E m \in up : OnNextFrameEvent(m)
             \/ Lose \/ GatewayDisconnect
             \/ \E p \in Seats : PlayerLogin(p)
             \/ UNCHANGED vars
    BY <2>3 DEF OnNextFrameEvent, Lose, GatewayDisconnect, PlayerLogin, vars,
                server, client, Log!flVars
  <2> QED
    BY <2>1, <2>2, <2>3 DEF Next
<1> QED
  BY <1>1, <1>2, InvariantHolds, PTL DEF Spec, ImplementsLog, Log!Spec

-----------------------------------------------------------------------------
\* No two operations of s are the same.
Once(s) == \A j, k \in 1..Len(s) : s[j] = s[k] => j = k

\* An answer in flight brings at most one operation, one of its own seat.
OneOwnOp(m) == Len(m.opts) <= 1 /\ \A k \in 1..Len(m.opts) : m.opts[k].seat = m.seat

\* Where no datagram is repeated, the right of a seat to one operation for
\* frame f is in one place: in the datagram of frame f - 1 which its client has
\* not read, in the one answer for f, or spent.
Tickets ==
  /\ \A m, n \in down : m.seat = n.seat /\ m.frameid = n.frameid => m = n
  /\ \A m, n \in up : m.seat = n.seat /\ m.frameid = n.frameid => m = n
  /\ \A m \in down, n \in up : m.seat = n.seat => n.frameid # m.frameid + 1
  /\ \A m \in up : OneOwnOp(m)

\* Who has an operation in the frame being filled has no right to another.
Spent ==
  \A k \in 1..Len(next_opts) :
    /\ \A m \in up : m.seat = next_opts[k].seat => m.frameid # frameid
    /\ \A m \in down : m.seat = next_opts[k].seat => m.frameid + 1 # frameid

\* No frame holds an operation twice, the one being filled included.
FramesOnce ==
  /\ \A i \in 1..Len(match_frames) : Once(match_frames[i].opts)
  /\ Once(next_opts)

\* What holds in addition to IInv where no datagram is repeated.
SingleUse == Tickets /\ Spent /\ FramesOnce

\* Operations of other seats or none, and then at most one, occur once.
LEMMA OnceConcat ==
  ASSUME NEW s \in Seq(Op), NEW t \in Seq(Op), Once(s), Len(t) <= 1,
         \A j \in 1..Len(s), k \in 1..Len(t) : s[j] # t[k]
  PROVE  /\ Once(s \o t)
         /\ \A j \in 1..Len(s \o t) :
              \/ j \in 1..Len(s) /\ (s \o t)[j] = s[j]
              \/ \E k \in 1..Len(t) : (s \o t)[j] = t[k]
<1>0. Len(s) \in Nat /\ Len(t) \in {0, 1}
  OBVIOUS
<1>1. /\ Len(s \o t) = Len(s) + Len(t)
      /\ \A i \in 1..(Len(s) + Len(t)) :
           (s \o t)[i] = IF i <= Len(s) THEN s[i] ELSE t[i - Len(s)]
  BY ConcatProperties
<1>2. \A j \in 1..Len(s \o t) :
        \/ j \in 1..Len(s) /\ (s \o t)[j] = s[j]
        \/ j = Len(s) + 1 /\ Len(t) = 1 /\ (s \o t)[j] = t[1]
  BY <1>0, <1>1
<1>3. ASSUME NEW j \in 1..Len(s \o t), NEW k \in 1..Len(s \o t), (s \o t)[j] = (s \o t)[k]
      PROVE  j = k
  <2>1. CASE j \in 1..Len(s) /\ k \in 1..Len(s)
    BY <1>3, <2>1, <1>1, <1>2 DEF Once
  <2>2. CASE j = Len(s) + 1 /\ k = Len(s) + 1
    BY <2>2
  <2>3. CASE j = Len(s) + 1 /\ k \in 1..Len(s)
    BY <1>0, <1>1, <1>2, <1>3, <2>3
  <2>4. CASE k = Len(s) + 1 /\ j \in 1..Len(s)
    BY <1>0, <1>1, <1>2, <1>3, <2>4
  <2> QED
    BY <1>2, <2>1, <2>2, <2>3, <2>4
<1> QED
  BY <1>0, <1>1, <1>2, <1>3 DEF Once

\* The frame timer stores a frame without repetitions and hands out new rights.
LEMMA OnLogicFrameSingleUse ==
  ASSUME IInv, SingleUse, OnLogicFrame
  PROVE  SingleUse'
<1> USE DEF SingleUse
<1> DEFINE f == [frameid |-> frameid, opts |-> next_opts]
<1>1. /\ match_frames \in Seq(Frame) /\ f \in Frame
      /\ frameid = Len(match_frames) + 1
      /\ frameid \in Nat /\ Len(match_frames) \in Nat
  BY DEF IInv, TypeOK, Numbered, Frame
<1>2. /\ match_frames' = Append(match_frames, f)
      /\ frameid' = frameid + 1 /\ next_opts' = <<>> /\ UNCHANGED up
  BY DEF OnLogicFrame, FreshOpts
<1>3. \A m \in down' :
        m \in down \/ m = [seat |-> m.seat, frameid |-> frameid,
                           frames |-> UnsyncFrames(match_frames', m.seat)]
  BY DEF OnLogicFrame
<1>4. \A m \in down : m.frameid \in Nat /\ m.frameid < frameid
  BY <1>1 DEF IInv, GoodDown
<1>5. \A m \in up : m.frameid \in Nat /\ m.frameid <= frameid
  <2> SUFFICES ASSUME NEW m \in up PROVE m.frameid \in Nat /\ m.frameid <= frameid
    OBVIOUS
  <2>1. m.seat \in Seats /\ m.frameid \in Nat
    BY DEF IInv, TypeOK, NextFrameOptsMsg
  <2>2. m.frameid <= client_frame[m.seat] + 1
    BY DEF IInv, GoodUp
  <2>3. client_frame[m.seat] \in Nat /\ client_frame[m.seat] <= Len(match_frames)
    BY <2>1 DEF IInv, PrefixAgreement, TypeOK
  <2> QED
    BY <1>1, <2>1, <2>2, <2>3
<1>6. Tickets'
  <2>1. ASSUME NEW m \in down', NEW n \in down', m.seat = n.seat, m.frameid = n.frameid
        PROVE  m = n
    <3>1. CASE m \in down /\ n \in down
      BY <2>1, <3>1 DEF Tickets
    <3>2. CASE m \notin down /\ n \notin down
      BY <2>1, <3>2, <1>3
    <3>3. CASE m \in down /\ n \notin down
      <4>1. m.frameid < frameid /\ m.frameid \in Nat /\ n.frameid = frameid
        BY <3>3, <1>3, <1>4
      <4> QED
        BY <4>1, <2>1, <1>1
    <3>4. CASE m \notin down /\ n \in down
      <4>1. n.frameid < frameid /\ n.frameid \in Nat /\ m.frameid = frameid
        BY <3>4, <1>3, <1>4
      <4> QED
        BY <4>1, <2>1, <1>1
    <3> QED
      BY <3>1, <3>2, <3>3, <3>4
  <2>2. ASSUME NEW m \in down', NEW n \in up, m.seat = n.seat
        PROVE  n.frameid # m.frameid + 1
    <3>1. CASE m \in down
      BY <2>2, <3>1 DEF Tickets
    <3>2. CASE m \notin down
      <4>1. m.frameid = frameid /\ n.frameid <= frameid /\ n.frameid \in Nat
        BY <3>2, <1>3, <1>5
      <4> QED
        BY <4>1, <1>1
    <3> QED
      BY <3>1, <3>2
  <2> QED
    BY <2>1, <2>2, <1>2 DEF Tickets, OneOwnOp
<1>7. Spent'
  BY <1>2 DEF Spent
<1>8. FramesOnce'
  <2>1. Once(<<>>)
    BY DEF Once
  <2>2. ASSUME NEW i \in 1..Len(match_frames') PROVE Once(match_frames'[i].opts)
    <3>1. /\ Len(match_frames') = Len(match_frames) + 1
          /\ \A h \in 1..Len(match_frames) : match_frames'[h] = match_frames[h]
          /\ match_frames'[Len(match_frames) + 1] = f
      BY <1>1, <1>2, AppendFrame
    <3>2. CASE i \in 1..Len(match_frames)
      BY <3>1, <3>2 DEF FramesOnce
    <3>3. CASE i = Len(match_frames) + 1
      BY <3>1, <3>3 DEF FramesOnce
    <3> QED
      BY <3>1, <3>2, <3>3, <1>1
  <2> QED
    BY <2>1, <2>2, <1>2 DEF FramesOnce, Once
<1> QED
  BY <1>6, <1>7, <1>8

\* An answer is read: the right it carries is spent, or lost with it.
LEMMA OnNextFrameEventSingleUse ==
  ASSUME MaxDup = 0, IInv, SingleUse, NEW m \in up, OnNextFrameEvent(m)
  PROVE  SingleUse'
<1> USE DEF SingleUse
<1>1. up' = up \ {m}
  BY DEF OnNextFrameEvent, Deliver, IInv, TypeOK
<1>2. UNCHANGED <<frameid, match_frames, down>>
  BY DEF OnNextFrameEvent
<1>3. Tickets'
  BY <1>1, <1>2 DEF Tickets, OneOwnOp
<1>4. CASE m.frameid # frameid
  <2>1. UNCHANGED next_opts
    BY <1>4 DEF OnNextFrameEvent, AcceptsOpts
  <2> QED
    BY <2>1, <1>1, <1>2, <1>3 DEF Spent, FramesOnce, Once
<1>5. CASE m.frameid = frameid
  <2>1. next_opts' = next_opts \o m.opts
    BY <1>5 DEF OnNextFrameEvent, AcceptsOpts
  <2>2. next_opts \in Seq(Op) /\ m.opts \in Seq(Op)
    BY DEF IInv, TypeOK, NextFrameOptsMsg
  <2>3. OneOwnOp(m)
    BY DEF Tickets
  <2>4. ASSUME NEW j \in 1..Len(next_opts), NEW k \in 1..Len(m.opts)
        PROVE  next_opts[j] # m.opts[k]
    BY <1>5, <2>3 DEF Spent, OneOwnOp
  <2>5. /\ Once(next_opts')
        /\ \A j \in 1..Len(next_opts') :
             \/ j \in 1..Len(next_opts) /\ next_opts'[j] = next_opts[j]
             \/ \E k \in 1..Len(m.opts) : next_opts'[j] = m.opts[k]
    BY <2>1, <2>2, <2>3, <2>4, OnceConcat DEF FramesOnce, OneOwnOp
  <2>6. FramesOnce'
    BY <2>5, <1>2 DEF FramesOnce, Once
  <2>7. Spent'
    <3> SUFFICES ASSUME NEW j \in 1..Len(next_opts')
                 PROVE  /\ \A n \in up' : n.seat = next_opts'[j].seat => n.frameid # frameid
                        /\ \A n \in down : n.seat = next_opts'[j].seat => n.frameid + 1 # frameid
      BY <1>2 DEF Spent
    <3>1. CASE j \in 1..Len(next_opts) /\ next_opts'[j] = next_opts[j]
      BY <3>1, <1>1 DEF Spent
    <3>2. CASE \E k \in 1..Len(m.opts) : next_opts'[j] = m.opts[k]
      <4>1. next_opts'[j].seat = m.seat
        BY <3>2, <2>3 DEF OneOwnOp
      <4>2. \A n \in up' : n.seat = m.seat => n.frameid # frameid
        BY <1>1, <1>5 DEF Tickets
      <4>3. \A n \in down : n.seat = m.seat => n.frameid + 1 # frameid
        BY <1>5 DEF Tickets
      <4> QED
        BY <4>1, <4>2, <4>3
    <3> QED
      BY <3>1, <3>2, <2>5
  <2> QED
    BY <1>3, <2>6, <2>7
<1> QED
  BY <1>4, <1>5

\* A client reads a datagram: the right it gives goes into one answer, or is
\* lost with a datagram that is too old.
LEMMA RecvLogicFrameSingleUse ==
  ASSUME MaxDup = 0, IInv, SingleUse, NEW m \in down, RecvLogicFrame(m)
  PROVE  SingleUse'
<1> USE DEF SingleUse
<1>1. down' = down \ {m}
  BY DEF RecvLogicFrame, Deliver, IInv, TypeOK
<1>2. UNCHANGED <<frameid, match_frames, next_opts>>
  BY DEF RecvLogicFrame, server
<1>3. FramesOnce'
  BY <1>2 DEF FramesOnce, Once
<1>4. m.frameid \in Nat
  BY DEF IInv, TypeOK, LogicFrameMsg
<1>5. CASE m.frameid < client_frame[m.seat]
  <2>1. UNCHANGED up
    BY <1>5 DEF RecvLogicFrame
  <2> QED
    BY <2>1, <1>1, <1>2, <1>3 DEF Tickets, Spent, OneOwnOp
<1>6. CASE ~(m.frameid < client_frame[m.seat])
  <2> DEFINE opt == [seat |-> m.seat, frame |-> m.frameid + 1]
  <2>1. PICK opts \in {<<>>, <<opt>>} :
          up' = up \cup {[seat |-> m.seat, frameid |-> m.frameid + 1, opts |-> opts]}
    BY <1>6 DEF RecvLogicFrame
  <2>2. Len(opts) <= 1 /\ \A k \in 1..Len(opts) : opts[k].seat = m.seat
    <3>1. opt.seat = m.seat
      OBVIOUS
    <3> HIDE DEF opt
    <3>2. CASE opts = <<>>
      BY <3>2
    <3>3. CASE opts = <<opt>>
      <4>1. Len(opts) = 1 /\ opts[1] = opt
        BY <3>3
      <4> QED
        BY <4>1, <3>1
    <3> QED
      BY <3>2, <3>3
  <2>3. PICK new : /\ new.seat = m.seat /\ new.frameid = m.frameid + 1 /\ new.opts = opts
                   /\ up' = up \cup {new}
    BY <2>1
  <2>4. OneOwnOp(new)
    BY <2>2, <2>3 DEF OneOwnOp
  <2>5. Tickets'
    <3>1. \A x, y \in down' : x.seat = y.seat /\ x.frameid = y.frameid => x = y
      BY <1>1 DEF Tickets
    <3>2. \A x \in up : x.seat = new.seat => x.frameid # new.frameid
      BY <2>3 DEF Tickets
    <3>3. \A x, y \in up' : x.seat = y.seat /\ x.frameid = y.frameid => x = y
      BY <2>3, <3>2 DEF Tickets
    <3>4. \A x \in down' : x.seat = new.seat => new.frameid # x.frameid + 1
      <4> SUFFICES ASSUME NEW x \in down, x # m, x.seat = m.seat, m.frameid + 1 = x.frameid + 1
                   PROVE  FALSE
        BY <1>1, <2>3
      <4>1. x.frameid \in Nat
        BY DEF IInv, TypeOK, LogicFrameMsg
      <4>2. x.frameid = m.frameid
        BY <4>1, <1>4
      <4> QED
        BY <4>2 DEF Tickets
    <3>5. \A x \in down', y \in up' : x.seat = y.seat => y.frameid # x.frameid + 1
      BY <1>1, <2>3, <3>4 DEF Tickets
    <3> QED
      BY <3>1, <3>3, <3>5, <2>3, <2>4 DEF Tickets, OneOwnOp
  <2>6. Spent'
    BY <1>1, <1>2, <2>3 DEF Spent
  <2> QED
    BY <1>3, <2>5, <2>6
<1> QED
  BY <1>5, <1>6

LEMMA NextSingleUse ==
  ASSUME MaxDup = 0, IInv, SingleUse, [Next]_vars
  PROVE  SingleUse'
<1>1. CASE OnLogicFrame
  BY <1>1, OnLogicFrameSingleUse
<1>2. CASE \E m \in up : OnNextFrameEvent(m)
  BY <1>2, OnNextFrameEventSingleUse
<1>3. CASE \E m \in down : RecvLogicFrame(m)
  BY <1>3, RecvLogicFrameSingleUse
<1>4. CASE \/ Lose
           \/ GatewayDisconnect
           \/ \E p \in Seats : PlayerLogin(p)
           \/ UNCHANGED vars
  <2>1. /\ UNCHANGED <<frameid, match_frames, next_opts>>
        /\ up' \subseteq up /\ down' \subseteq down
    BY <1>4 DEF Lose, GatewayDisconnect, PlayerLogin, vars, server
  <2> QED
    BY <2>1 DEF SingleUse, Tickets, Spent, FramesOnce, Once, OneOwnOp
<1> QED
  BY <1>1, <1>2, <1>3, <1>4 DEF Next

\* Where every datagram is delivered at most once, no operation is executed
\* twice: not in one frame, as its seat gets one right for each frame, and not
\* in two, as it is meant for one of them.
THEOREM NoOperationTwice ==
  ASSUME MaxDup = 0
  PROVE  Spec => []NoOpTwice
<1>1. Init => SingleUse
  BY DEF Init, SingleUse, Tickets, Spent, FramesOnce, Once
<1>2. IInv /\ SingleUse /\ [Next]_vars => SingleUse'
  BY NextSingleUse
<1>3. IInv /\ SingleUse => NoOpTwice
  <2> SUFFICES ASSUME IInv, SingleUse,
                      NEW i \in 1..Len(match_frames), NEW h \in 1..Len(match_frames),
                      NEW j \in 1..Len(match_frames[i].opts),
                      NEW k \in 1..Len(match_frames[h].opts),
                      match_frames[i].opts[j] = match_frames[h].opts[k]
               PROVE  i = h /\ j = k
    BY DEF NoOpTwice
  <2>1. match_frames[i].opts[j].frame = i /\ match_frames[h].opts[k].frame = h
    BY DEF IInv, OpsInTheirFrame, MeantFor
  <2>2. i = h
    BY <2>1
  <2> QED
    BY <2>2 DEF SingleUse, FramesOnce, Once
<1> QED
  BY <1>1, <1>2, <1>3, InvariantHolds, PTL DEF Spec

-----------------------------------------------------------------------------
\* No two clients disagree on a frame both have applied, and the client that
\* is behind lacks only later frames.
ClientsAgree ==
  \A c, d \in Seats :
    /\ client_frame[c] <= client_frame[d] => applied[c] \subseteq applied[d]
    /\ \A f \in applied[c], g \in applied[d] : f.frameid = g.frameid => f = g

\* Lockstep between the clients themselves: what PrefixAgreement says of each
\* client and the server makes any two of them agree.
THEOREM ClientsNeverDiverge == Spec => []ClientsAgree
<1>1. IInv => ClientsAgree
  <2> SUFFICES ASSUME IInv, NEW c \in Seats, NEW d \in Seats
               PROVE  /\ client_frame[c] <= client_frame[d] => applied[c] \subseteq applied[d]
                      /\ \A f \in applied[c], g \in applied[d] : f.frameid = g.frameid => f = g
    BY DEF ClientsAgree
  <2>1. /\ client_frame[c] \in Nat /\ client_frame[d] \in Nat /\ Len(match_frames) \in Nat
        /\ client_frame[c] <= Len(match_frames) /\ client_frame[d] <= Len(match_frames)
        /\ applied[c] = {match_frames[i] : i \in 1..client_frame[c]}
        /\ applied[d] = {match_frames[i] : i \in 1..client_frame[d]}
    BY DEF IInv, PrefixAgreement, Stored, TypeOK
  <2>2. \A i \in 1..Len(match_frames) : match_frames[i].frameid = i
    BY DEF IInv, Numbered
  <2>3. client_frame[c] <= client_frame[d] => applied[c] \subseteq applied[d]
    BY <2>1
  <2>4. ASSUME NEW f \in applied[c], NEW g \in applied[d], f.frameid = g.frameid
        PROVE  f = g
    <3>1. PICK i \in 1..client_frame[c] : f = match_frames[i]
      BY <2>1
    <3>2. PICK h \in 1..client_frame[d] : g = match_frames[h]
      BY <2>1
    <3>3. i = h
      BY <3>1, <3>2, <2>1, <2>2, <2>4
    <3> QED
      BY <3>1, <3>2, <3>3
  <2> QED
    BY <2>3, <2>4
<1> QED
  BY <1>1, InvariantHolds, PTL

\* Every tick puts one datagram in flight for each player with a session which
\* alone completes what the player's client holds.
TickCompletes ==
  OnLogicFrame =>
    \A p \in Seats : CanSendUdp(p) =>
      \E m \in down' :
        m.seat = p /\ applied[p] \cup m.frames = {match_frames'[i] : i \in 1..frameid}

\* What CatchUp rests on, whatever was lost before: send_unsync_frames never
\* leaves a gap between what a client has applied and what it is sent.
THEOREM EveryTickCompletes == Spec => [][TickCompletes]_vars
<1>1. IInv /\ [Next]_vars => TickCompletes
  <2> SUFFICES ASSUME IInv, OnLogicFrame, NEW p \in Seats, CanSendUdp(p)
               PROVE  \E m \in down' :
                        /\ m.seat = p
                        /\ applied[p] \cup m.frames = {match_frames'[i] : i \in 1..frameid}
    BY DEF TickCompletes
  <2> DEFINE f == [frameid |-> frameid, opts |-> next_opts]
             m == [seat |-> p, frameid |-> frameid, frames |-> UnsyncFrames(match_frames', p)]
  <2>1. /\ match_frames \in Seq(Frame) /\ f \in Frame
        /\ frameid = Len(match_frames) + 1 /\ Len(match_frames) \in Nat
        /\ sync_frameid[p] \in Nat /\ client_frame[p] \in Nat
        /\ sync_frameid[p] <= client_frame[p] /\ client_frame[p] <= Len(match_frames)
        /\ applied[p] = {match_frames[i] : i \in 1..client_frame[p]}
    BY DEF IInv, TypeOK, Numbered, Frame, AckSound, PrefixAgreement, Stored
  <2>2. match_frames' = Append(match_frames, f) /\ m \in down'
    BY DEF OnLogicFrame
  <2>3. /\ Len(match_frames') = frameid
        /\ \A i \in 1..Len(match_frames) : match_frames'[i] = match_frames[i]
    BY <2>1, <2>2, AppendFrame
  <2>4. m.frames = {match_frames'[i] : i \in (sync_frameid[p] + 1)..frameid}
    BY <2>3 DEF UnsyncFrames
  <2>5. applied[p] = {match_frames'[i] : i \in 1..client_frame[p]}
    BY <2>1, <2>3
  <2>6. 1..frameid = (1..client_frame[p]) \cup ((sync_frameid[p] + 1)..frameid)
    BY <2>1
  <2>7. applied[p] \cup m.frames = {match_frames'[i] : i \in 1..frameid}
    BY <2>4, <2>5, <2>6
  <2> QED
    BY <2>2, <2>7
<1> QED
  BY <1>1, InvariantHolds, PTL DEF Spec
=============================================================================
