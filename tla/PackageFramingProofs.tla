------------------------ MODULE PackageFramingProofs ------------------------
(***************************************************************************)
(* What PackageFraming promises, for buffers, requests and commands of any *)
(* length and every division of the stream by the network.                 *)
(***************************************************************************)
EXTENDS PackageFraming, TLAPS

(***************************************************************************)
(* The inductive invariant.  Layout: the packages lie one behind the other *)
(* on the stream.  Position: the receiver's base is the first byte of the  *)
(* package it has to hand over next.  SmallBuffer: while all packages fit, *)
(* a session that waits has room in recv_buf, and no long_pkg.             *)
(***************************************************************************)
Types ==
  /\ environment \in Environments
  /\ socket_type \in {"TCP", "WS"}
  /\ is_ws_shake \in BOOLEAN
  /\ sent \in Seq([first : Nat, len : Lengths])
  /\ written \in Nat
  /\ base \in Int /\ recved \in Nat /\ base + recved <= written
  /\ long_pkg_size \in Nat
  /\ looping \in BOOLEAN
  /\ status \in {"open", "closing", "lost", "destroyed", "undefined"}
  /\ handled \in Seq([from : Int, to : Int])

Layout ==
  /\ \A k \in DOMAIN sent : End(k) <= written
  /\ \A j, k \in DOMAIN sent : j < k => End(j) <= sent[k].first

\* The position of package k, also of the one that is sent next.
Start(k) == IF k <= Len(sent) THEN sent[k].first ELSE written

Adjacent == Start(1) = 0 /\ \A k \in DOMAIN sent : Start(k + 1) = End(k)

Framing == socket_type = "TCP" \/ is_ws_shake

Handshake ==
  ~Framing => /\ sent = <<>> /\ written = 0 /\ handled = <<>>
              /\ base = -REQUEST /\ recved < REQUEST /\ ~looping
              /\ long_pkg_size = 0 /\ status # "undefined"

Position ==
  /\ Len(handled) <= Len(sent)
  /\ \A k \in DOMAIN handled : handled[k] = Body(k)
  /\ Framing => base = Start(Len(handled) + 1)

Fitting == \A k \in DOMAIN sent : PackageSize(sent[k].len) <= RECV_LEN

SmallBuffer ==
  Fitting => /\ status # "undefined" /\ long_pkg_size = 0
             /\ recved <= RECV_LEN /\ (~looping => recved < RECV_LEN)

Inv == Types /\ Layout /\ Adjacent /\ Handshake /\ Position /\ SmallBuffer
-----------------------------------------------------------------------------
(* Reading a header. *)

\* Two bytes, low one first, give back every size a TCP header is written for.
LEMMA LittleEndian ==
  ASSUME NEW n \in Nat, n < 256 * 256
  PROVE  (n % 256) + 256 * ((n \div 256) % 256) = n
<1>1. n \div 256 \in Nat /\ n \div 256 < 256
  BY Z3
<1>2. \A m \in Nat : m < 256 => m % 256 = m
  OBVIOUS
<1>3. (n % 256) + 256 * (n \div 256) = n
  OBVIOUS
<1> QED
  BY <1>1, <1>2, <1>3

\* A package has its size, a positive one, and room for the header.
LEMMA Sizes ==
  ASSUME NEW len \in Lengths, socket_type \in {"TCP", "WS"}
  PROVE  /\ len \in Nat /\ 0 < len /\ len + 2 < 256 * 256
         /\ PackageSize(len) \in Nat /\ HeadSize(len) \in Nat
         /\ HeadSize(len) > 0 /\ HeadSize(len) < PackageSize(len)
         /\ socket_type = "TCP" => PackageSize(len) = len + 2
         /\ socket_type = "WS" => PackageSize(len) = len + (IF len <= 125 THEN 6 ELSE 8)
  BY LengthAssumption DEF PackageSize, HeadSize

\* The elements of a sequence over S are in S.
LEMMA SeqElement ==
  ASSUME NEW S, NEW s \in Seq(S)
  PROVE  /\ Len(s) \in Nat /\ DOMAIN s = 1..Len(s)
         /\ \A k \in DOMAIN s : s[k] \in S
  OBVIOUS

LEMMA EmptySeq == ASSUME NEW S PROVE <<>> \in Seq(S)
  OBVIOUS

\* The packages on the stream are numbered 1, 2, ...
LEMMA SentPackage ==
  ASSUME Types
  PROVE  /\ Len(sent) \in Nat /\ DOMAIN sent = 1..Len(sent)
         /\ \A k \in DOMAIN sent : sent[k].first \in Nat /\ sent[k].len \in Lengths
<1> DEFINE Package == [first : Nat, len : Lengths]
<1>1. sent \in Seq(Package)
  BY DEF Types
<1> HIDE DEF Package
<1>2. Len(sent) \in Nat /\ DOMAIN sent = 1..Len(sent)
      /\ \A k \in DOMAIN sent : sent[k] \in Package
  BY <1>1, SeqElement
<1> QED
  BY <1>2 DEF Package

\* A byte belongs to the one package that covers it.
LEMMA ByteOfPackage ==
  ASSUME Types, Layout, NEW k \in DOMAIN sent,
         NEW i \in Nat, i < PackageSize(sent[k].len)
  PROVE  ByteAt(sent[k].first + i) = IF socket_type = "TCP" THEN TcpByte(sent[k].len, i)
                                                            ELSE WsByte(sent[k].len, i)
<1> DEFINE p == sent[k].first + i
           Covers(j) == sent[j].first <= p /\ p < End(j)
           c == CHOOSE j \in DOMAIN sent : Covers(j)
<1>0. socket_type \in {"TCP", "WS"}
  BY DEF Types
<1>1. \A j \in DOMAIN sent : j \in Nat /\ sent[j].first \in Nat /\ sent[j].len \in Lengths
  BY SentPackage
<1>2. \A j \in DOMAIN sent : End(j) = sent[j].first + PackageSize(sent[j].len)
                            /\ End(j) \in Nat /\ PackageSize(sent[j].len) \in Nat
  BY <1>0, <1>1, Sizes DEF End
<1>3. Covers(k)
  BY <1>1, <1>2
<1>4. c \in DOMAIN sent /\ Covers(c)
  BY <1>3
<1>5. p \in Nat /\ p - sent[k].first = i
  BY <1>1
<1> HIDE DEF c, p
<1>6. ~(c < k) /\ ~(k < c)
  <2>1. ASSUME NEW j \in DOMAIN sent, Covers(j), NEW l \in DOMAIN sent, Covers(l), j < l
        PROVE  FALSE
    BY <1>1, <1>2, <1>5, <2>1 DEF Layout
  <2> QED
    BY <1>3, <1>4, <2>1
<1>7. c = k
  BY <1>1, <1>4, <1>6
<1> QED
  <2>1. ByteAt(p) = IF socket_type = "TCP" THEN TcpByte(sent[c].len, p - sent[c].first)
                                           ELSE WsByte(sent[c].len, p - sent[c].first)
    BY DEF ByteAt, c
  <2> QED
    BY <1>5, <1>7, <2>1 DEF p

\* The header of a package says its size, once enough of it is there.
HeaderOf(k) == [pkg_size  |-> PackageSize(sent[k].len),
                head_size |-> HeadSize(sent[k].len)]

LEMMA TcpHeader ==
  ASSUME Types, Layout, NEW k \in DOMAIN sent, base = sent[k].first,
         socket_type = "TCP"
  PROVE  read_header = IF recved < 2 THEN Unreadable ELSE HeaderOf(k)
<1>1. sent[k].first \in Nat /\ sent[k].len \in Lengths
  BY SentPackage
<1> DEFINE n == sent[k].len
<1>2. n \in Nat /\ 0 < n /\ n + 2 < 256 * 256 /\ PackageSize(n) = n + 2 /\ HeadSize(n) = 2
  BY <1>1, Sizes DEF HeadSize
<1>3. ByteAt(base + 0) = TcpByte(n, 0) /\ ByteAt(base + 1) = TcpByte(n, 1)
  BY <1>2, ByteOfPackage
<1>4. base + 0 = base
  BY <1>1
<1> HIDE DEF n
<1>5. ByteAt(base) = (n + 2) % 256 /\ ByteAt(base + 1) = ((n + 2) \div 256) % 256
  BY <1>3, <1>4 DEF TcpByte
<1>6. ByteAt(base) + 256 * ByteAt(base + 1) = PackageSize(n)
  <2>1. n + 2 \in Nat
    BY <1>2
  <2> QED
    BY <1>2, <1>5, <2>1, LittleEndian
<1>7. HeaderOf(k) = [pkg_size |-> PackageSize(n), head_size |-> 2]
  BY <1>2 DEF HeaderOf, n
<1> QED
  BY <1>6, <1>7 DEF read_header, read_tp_header

LEMMA WsHeader ==
  ASSUME Types, Layout, NEW k \in DOMAIN sent, base = sent[k].first,
         socket_type = "WS"
  PROVE  read_header = IF recved < (IF sent[k].len <= 125 THEN 2 ELSE 4)
                       THEN Unreadable ELSE HeaderOf(k)
<1>1. sent[k].first \in Nat /\ sent[k].len \in Lengths /\ recved \in Nat
  BY SentPackage DEF Types
<1> DEFINE n == sent[k].len
<1>2. n \in Nat /\ 0 < n /\ n + 2 < 256 * 256
      /\ HeadSize(n) = (IF n <= 125 THEN 6 ELSE 8)
      /\ PackageSize(n) = n + (IF n <= 125 THEN 6 ELSE 8)
  BY <1>1, Sizes DEF HeadSize
<1>3. /\ ByteAt(base + 0) = WsByte(n, 0) /\ ByteAt(base + 1) = WsByte(n, 1)
      /\ ByteAt(base + 2) = WsByte(n, 2) /\ ByteAt(base + 3) = WsByte(n, 3)
  BY <1>2, ByteOfPackage
<1>4. base + 0 = base
  BY <1>1
<1>5. HeaderOf(k) = [pkg_size |-> PackageSize(n), head_size |-> HeadSize(n)]
  BY DEF HeaderOf
<1> HIDE DEF n
<1>6. ByteAt(base) = 130 /\ ByteAt(base + 1) = 128 + (IF n <= 125 THEN n ELSE 126)
  BY <1>3, <1>4 DEF WsByte
<1>7. ByteAt(base + 1) % 128 = IF n <= 125 THEN n ELSE 126
  BY <1>2, <1>6
<1>8. CASE n <= 125
  <2>1. HeaderOf(k) = [pkg_size |-> n + 6, head_size |-> 6]
    BY <1>2, <1>5, <1>8
  <2>2. ByteAt(base + 1) % 128 = n /\ n # 126
    BY <1>2, <1>7, <1>8
  <2> QED
    BY <1>1, <1>6, <1>8, <2>1, <2>2 DEF read_header, read_ws_header, n
<1>9. CASE ~(n <= 125)
  <2>1. HeaderOf(k) = [pkg_size |-> n + 8, head_size |-> 8]
    BY <1>2, <1>5, <1>9
  <2>2. ByteAt(base + 2) = n \div 256 /\ ByteAt(base + 3) = n % 256
    BY <1>2, <1>3, <1>9 DEF WsByte
  <2>3. ByteAt(base + 3) + 256 * ByteAt(base + 2) + 8 = n + 8
    BY <1>2, <2>2
  <2>4. ByteAt(base + 1) % 128 = 126
    BY <1>7, <1>9
  <2> QED
    BY <1>1, <1>6, <1>9, <2>1, <2>3, <2>4 DEF read_header, read_ws_header, n
<1> QED
  BY <1>8, <1>9

LEMMA HeaderSays ==
  ASSUME Types, Layout, NEW k \in DOMAIN sent, base = sent[k].first
  PROVE  /\ read_header \in {Unreadable, HeaderOf(k)}
         /\ recved >= 4 => read_header = HeaderOf(k)
<1>1. socket_type \in {"TCP", "WS"} /\ recved \in Nat
  BY DEF Types
<1>2. CASE socket_type = "TCP"
  BY <1>1, <1>2, TcpHeader
<1>3. CASE socket_type = "WS"
  BY <1>1, <1>3, WsHeader
<1> QED
  BY <1>1, <1>2, <1>3
-----------------------------------------------------------------------------
(* The invariant. *)

LEMMA InitInv == Init => Inv
<1> SUFFICES ASSUME Init PROVE Inv
  OBVIOUS
<1> USE DEF Init
<1>1. REQUEST \in Nat /\ 0 < REQUEST /\ REQUEST <= RECV_LEN /\ RECV_LEN \in Nat
  BY RequestAssumption, BufferAssumption
<1>2. Types
  <2>1. base \in Int /\ base <= 0
    BY <1>1
  <2>2. sent \in Seq([first : Nat, len : Lengths]) /\ handled \in Seq([from : Int, to : Int])
    BY EmptySeq
  <2>3. base + recved <= written
    BY <2>1
  <2> HIDE DEF Init
  <2> QED
    BY <2>1, <2>2, <2>3 DEF Types, Init
<1>3. Layout /\ Adjacent
  BY DEF Layout, Adjacent, Start
<1>4. Handshake
  BY <1>1 DEF Handshake, Framing
<1>5. Position
  BY DEF Position, Start, Framing
<1>6. SmallBuffer
  BY <1>1 DEF SmallBuffer
<1> QED
  BY <1>2, <1>3, <1>4, <1>5, <1>6 DEF Inv

\* A new package is put behind the others; the receiver is not touched.
LEMMA SendInv ==
  ASSUME Inv, NEW len \in Lengths, Send(len)
  PROVE  Inv'
<1>0. socket_type \in {"TCP", "WS"} /\ socket_type' = socket_type
      /\ Types /\ Layout /\ Adjacent /\ Handshake /\ Position /\ SmallBuffer
  BY DEF Inv, Types, Send
<1>1. PICK n \in Nat :
        /\ n = Len(sent) /\ DOMAIN sent = 1..n
        /\ \A k \in 1..n : sent[k].first \in Nat /\ sent[k].len \in Lengths
  BY <1>0, SentPackage
<1>2. /\ Len(sent') = n + 1 /\ DOMAIN sent' = 1..(n + 1)
      /\ \A k \in 1..n : sent'[k] = sent[k]
      /\ sent'[n + 1] = [first |-> written, len |-> len]
      /\ sent' \in Seq([first : Nat, len : Lengths])
  BY <1>0, <1>1 DEF Send, Types
<1>3. written \in Nat /\ written' = written + PackageSize(len) /\ PackageSize(len) \in Nat
      /\ PackageSize(len) > 0
  BY <1>0, Sizes DEF Send, Types
<1>4. \A l : HeadSize(l)' = HeadSize(l) /\ PackageSize(l)' = PackageSize(l)
  BY <1>0 DEF HeadSize, PackageSize
<1>5. \A k \in 1..n : End(k)' = End(k) /\ End(k) \in Nat /\ Body(k)' = Body(k)
  <2> SUFFICES ASSUME NEW k \in 1..n
               PROVE  End(k)' = End(k) /\ End(k) \in Nat /\ Body(k)' = Body(k)
    OBVIOUS
  <2>1. sent'[k] = sent[k] /\ sent[k].len \in Lengths /\ sent[k].first \in Nat
    BY <1>1, <1>2
  <2>2. PackageSize(sent[k].len) \in Nat
    BY <1>0, <2>1, Sizes
  <2>3. End(k)' = End(k)
    BY <1>0, <2>1 DEF End, PackageSize, HeadSize
  <2>4. Body(k)' = Body(k)
    BY <1>0, <2>1, <2>3 DEF Body, HeadSize
  <2> QED
    BY <2>1, <2>2, <2>3, <2>4 DEF End
<1>6. End(n + 1)' = written'
  BY <1>0, <1>2, <1>3 DEF End, PackageSize, HeadSize
<1>7. Types'
  BY <1>0, <1>2, <1>3 DEF Types, Send, receiverVars
<1>8. Layout'
  <2>1. \A k \in 1..n : End(k) <= written
    BY <1>0, <1>1 DEF Layout
  <2>2. \A k \in 1..(n + 1) : End(k)' <= written'
    BY <1>3, <1>5, <1>6, <2>1
  <2>3. ASSUME NEW j \in 1..(n + 1), NEW k \in 1..(n + 1), j < k
        PROVE  End(j)' <= sent'[k].first
    <3>1. j \in 1..n /\ End(j)' = End(j)
      BY <1>5, <2>3
    <3>2. CASE k = n + 1
      BY <1>2, <2>1, <3>1, <3>2
    <3>3. CASE k # n + 1
      <4>1. k \in 1..n /\ sent'[k] = sent[k]
        BY <1>2, <3>3
      <4> QED
        BY <1>0, <1>1, <2>3, <3>1, <4>1 DEF Layout
    <3> QED
      BY <3>2, <3>3
  <2> QED
    BY <1>2, <2>2, <2>3 DEF Layout
<1>9. \A k \in 1..(n + 1) : Start(k)' = Start(k)
  BY <1>1, <1>2 DEF Start
<1>10. Adjacent'
  <2>1. Start(n + 2)' = written'
    BY <1>2 DEF Start
  <2>2. ASSUME NEW k \in 1..n
        PROVE  Start(k + 1)' = End(k)'
    <3>1. k + 1 \in 1..(n + 1) /\ Start(k + 1) = End(k)
      BY <1>0, <1>1 DEF Adjacent
    <3> QED
      BY <1>5, <1>9, <3>1
  <2>3. Start(1)' = 0
    BY <1>0, <1>9 DEF Adjacent
  <2>4. ASSUME NEW k \in 1..(n + 1)
        PROVE  Start(k + 1)' = End(k)'
    <3>1. CASE k = n + 1
      <4>1. k + 1 = n + 2
        BY <3>1
      <4> QED
        BY <1>6, <2>1, <3>1, <4>1
    <3>2. CASE k # n + 1
      BY <2>2, <3>2
    <3> QED
      BY <3>1, <3>2
  <2> QED
    BY <1>2, <2>3, <2>4 DEF Adjacent
<1>11. Handshake'
  BY DEF Handshake, Framing, Send, receiverVars
<1>12. Position'
  <2>1. PICK h \in Nat : h = Len(handled) /\ h <= n /\ DOMAIN handled = 1..h
    BY <1>0, <1>1, SeqElement DEF Position, Types
  <2>2. handled' = handled /\ base' = base /\ (Framing' <=> Framing)
    BY <1>0 DEF Send, receiverVars, Framing
  <2>3. Start(h + 1)' = Start(h + 1)
    BY <1>9, <2>1
  <2>4. \A k \in DOMAIN handled : handled[k] = Body(k)'
    BY <1>0, <1>5, <2>1 DEF Position
  <2> QED
    BY <1>0, <1>2, <2>1, <2>2, <2>3, <2>4 DEF Position
<1>13. SmallBuffer'
  <2>1. Fitting' => Fitting
    BY <1>0, <1>1, <1>2 DEF Fitting, PackageSize, HeadSize
  <2> QED
    BY <1>0, <2>1 DEF SmallBuffer, Send, receiverVars
<1> QED
  BY <1>7, <1>8, <1>10, <1>11, <1>12, <1>13 DEF Inv

\* What a step of the receiver leaves alone.
LEMMA StreamUnchanged ==
  ASSUME Inv, UNCHANGED <<socket_type, sent, written>>
  PROVE  /\ Layout' /\ Adjacent' /\ (Fitting' <=> Fitting)
         /\ \A k : Body(k)' = Body(k) /\ Start(k)' = Start(k)
<1>1. \A l : HeadSize(l)' = HeadSize(l) /\ PackageSize(l)' = PackageSize(l)
  BY DEF HeadSize, PackageSize
<1>2. \A k : End(k)' = End(k)
  BY DEF End, HeadSize, PackageSize
<1>3. \A k : Body(k)' = Body(k)
  BY <1>2 DEF Body, HeadSize
<1>4. \A k : Start(k)' = Start(k)
  BY DEF Start
<1>5. Layout'
  BY <1>2 DEF Inv, Layout
<1>6. Adjacent'
  BY <1>2, <1>4 DEF Inv, Adjacent
<1>7. Fitting' <=> Fitting
  BY DEF Fitting, HeadSize, PackageSize
<1> QED
  BY <1>3, <1>4, <1>5, <1>6, <1>7

\* What follows base is the first package that has not been handed over.
LEMMA NextPackage ==
  ASSUME Inv, Framing, base < written
  PROVE  /\ Len(handled) \in Nat
         /\ Len(handled) + 1 \in DOMAIN sent
         /\ base = sent[Len(handled) + 1].first
<1>1. Len(handled) \in Nat /\ Len(handled) <= Len(sent) /\ base = Start(Len(handled) + 1)
  BY SeqElement DEF Inv, Position, Types
<1>2. Len(sent) \in Nat /\ DOMAIN sent = 1..Len(sent) /\ written \in Nat
  BY SentPackage DEF Inv, Types
<1>3. Len(handled) + 1 <= Len(sent)
  BY <1>1, <1>2 DEF Start
<1> QED
  BY <1>1, <1>2, <1>3 DEF Start

\* Bytes of a package are only looked at when the handshake is over.
LEMMA Framed ==
  ASSUME Inv, looping \/ RECV_LEN <= recved
  PROVE  Framing
  BY RequestAssumption, BufferAssumption DEF Inv, Handshake, Types

\* Reading more bytes: recv_buf never takes more than it has room for.
LEMMA ReadInv ==
  ASSUME Inv, NEW upto \in CutPoints, Read(upto)
  PROVE  Inv'
<1>0. /\ Types /\ Handshake /\ Position /\ SmallBuffer
      /\ ~looping /\ status \in {"open", "closing"} /\ REQUEST \in Nat /\ REQUEST > 0
      /\ RECV_LEN \in Nat /\ REQUEST <= RECV_LEN
      /\ base \in Int /\ recved \in Nat /\ written \in Nat /\ long_pkg_size \in Nat
  BY RequestAssumption, BufferAssumption DEF Inv, Types, Read, Reading
<1>1. UNCHANGED <<environment, socket_type, sent, written, long_pkg_size, handled>>
  BY DEF Read, senderVars
<1>2. Layout' /\ Adjacent' /\ (Fitting' <=> Fitting)
      /\ \A k : Body(k)' = Body(k) /\ Start(k)' = Start(k)
  BY <1>1, StreamUnchanged
<1>3. Room \in Int
  BY <1>0 DEF Room
<1>4. upto \in Int
  <2>1. \A k \in DOMAIN sent : sent[k].first \in Nat
    BY <1>0, SentPackage
  <2>2. \A d \in Offsets : d \in Nat
    BY BoundAssumption
  <2> QED
    BY <1>0, <1>3, <2>1, <2>2 DEF CutPoints
<1>5. base + recved < upto /\ upto <= written /\ upto <= base + recved + Room
  BY <1>0, <1>3, <1>4 DEF Read, Lesser
<1>6. CASE Framing
  <2>1. /\ recved' = upto - base /\ looping' = TRUE
        /\ status' = IF recved < RECV_LEN /\ long_pkg_size # 0 THEN "undefined" ELSE status
        /\ UNCHANGED <<is_ws_shake, base>>
    BY <1>0, <1>6 DEF Read, Framing, Types
  <2>2. recved' \in Nat /\ base' + recved' <= written'
    BY <1>0, <1>1, <1>4, <1>5, <2>1
  <2>3. Types'
    BY <1>0, <1>1, <2>1, <2>2 DEF Types
  <2>4. Framing'
    BY <1>1, <1>6, <2>1 DEF Framing
  <2>5. Handshake'
    BY <2>4 DEF Handshake
  <2>6. Position'
    <3>1. Len(handled)' = Len(handled) /\ Start(Len(handled) + 1)' = Start(Len(handled) + 1)
      BY <1>1 DEF Start
    <3> QED
      BY <1>0, <1>1, <1>2, <1>6, <2>1, <3>1 DEF Position
  <2>7. SmallBuffer'
    <3> SUFFICES ASSUME Fitting
                 PROVE  status' # "undefined" /\ long_pkg_size' = 0 /\ recved' <= RECV_LEN
      BY <1>2, <2>1 DEF SmallBuffer
    <3>1. long_pkg_size = 0 /\ recved < RECV_LEN
      BY <1>0 DEF SmallBuffer
    <3>2. recved' <= RECV_LEN
      BY <1>0, <1>4, <1>5, <2>1, <3>1 DEF Room
    <3> QED
      BY <1>0, <1>1, <2>1, <3>1, <3>2
  <2> QED
    BY <1>2, <2>3, <2>5, <2>6, <2>7 DEF Inv
<1>7. CASE ~Framing
  <2>1. /\ sent = <<>> /\ written = 0 /\ handled = <<>> /\ base = -REQUEST
        /\ recved < REQUEST /\ long_pkg_size = 0 /\ status # "undefined"
        /\ socket_type = "WS" /\ is_ws_shake = FALSE
    BY <1>0, <1>7 DEF Handshake, Framing, Types
  <2>2. UNCHANGED <<looping, status>>
    BY <2>1 DEF Read
  <2>3. CASE upto = 0
    <3>1. is_ws_shake' = TRUE /\ base' = 0 /\ recved' = 0
      BY <2>1, <2>3 DEF Read
    <3>2. Types'
      BY <1>0, <1>1, <2>1, <2>2, <3>1 DEF Types
    <3>3. Start(Len(handled) + 1) = 0
      BY <2>1 DEF Start
    <3>4. Position'
      BY <1>1, <1>2, <2>1, <3>1, <3>3 DEF Position, Start
    <3> QED
      BY <1>0, <1>1, <1>2, <2>1, <2>2, <3>1, <3>2, <3>4
      DEF Inv, Handshake, Framing, SmallBuffer
  <2>4. CASE upto # 0
    <3>1. recved' = upto - base /\ UNCHANGED <<is_ws_shake, base>>
      BY <2>1, <2>4 DEF Read
    <3>2. recved' \in Nat /\ recved' < REQUEST /\ base' + recved' <= written'
      BY <1>0, <1>1, <1>4, <1>5, <2>1, <2>4, <3>1
    <3>3. Types'
      BY <1>0, <1>1, <2>2, <3>1, <3>2 DEF Types
    <3>4. ~Framing'
      BY <1>1, <1>7, <3>1 DEF Framing
    <3>5. Position'
      BY <1>1, <2>1, <3>4 DEF Position
    <3>6. Handshake'
      BY <1>0, <1>1, <2>1, <2>2, <3>1, <3>2 DEF Handshake
    <3>7. SmallBuffer'
      BY <1>0, <1>1, <2>1, <2>2, <3>2 DEF SmallBuffer
    <3> QED
      BY <1>2, <3>3, <3>5, <3>6, <3>7 DEF Inv
  <2> QED
    BY <2>3, <2>4
<1> QED
  BY <1>6, <1>7

\* Making long_pkg: only happens once a package that does not fit was sent.
LEMMA StartLongPackageInv ==
  ASSUME Inv, StartLongPackage
  PROVE  Inv'
<1>0. /\ Types /\ Position /\ SmallBuffer /\ ~looping
      /\ recved \in Nat /\ RECV_LEN \in Nat /\ RECV_LEN >= 8 /\ RECV_LEN <= recved
      /\ base \in Int /\ written \in Nat
  BY BufferAssumption DEF Inv, Types, StartLongPackage, Reading
<1>1. UNCHANGED <<environment, socket_type, sent, written, is_ws_shake, base, recved, looping,
                 handled>>
  BY DEF StartLongPackage, senderVars
<1>2. Layout' /\ Adjacent' /\ (Fitting' <=> Fitting)
      /\ \A k : Body(k)' = Body(k) /\ Start(k)' = Start(k)
  BY <1>1, StreamUnchanged
<1>3. Framing /\ Framing'
  BY <1>0, <1>1, Framed DEF Framing
<1>4. long_pkg_size' \in Nat
  <2>1. base < written
    BY <1>0 DEF StartLongPackage
  <2>2. PICK k \in DOMAIN sent : base = sent[k].first
    BY <1>3, <2>1, NextPackage
  <2>3. read_header = HeaderOf(k)
    BY <1>0, <2>2, HeaderSays DEF Inv
  <2>4. PackageSize(sent[k].len) \in Nat
    BY <1>0, <2>2, SentPackage, Sizes DEF Types
  <2> QED
    BY <2>3, <2>4 DEF StartLongPackage, HeaderOf
<1>5. status' \in {"closing", "undefined"}
  BY DEF StartLongPackage
<1>6. Types'
  BY <1>0, <1>1, <1>4, <1>5 DEF Types
<1>7. Position'
  <2>1. Start(Len(handled) + 1)' = Start(Len(handled) + 1)
    BY <1>1 DEF Start
  <2> QED
    BY <1>0, <1>1, <1>2, <1>3, <2>1 DEF Position
<1>8. ~Fitting'
  BY <1>0, <1>2 DEF SmallBuffer
<1> QED
  BY <1>2, <1>3, <1>6, <1>7, <1>8 DEF Inv, Handshake, SmallBuffer

\* The loop hands over exactly the next package.
LEMMA HandledNext ==
  ASSUME Inv, HandlePackage
  PROVE  /\ Framing /\ Len(handled) \in Nat /\ Len(handled) + 1 \in DOMAIN sent
         /\ handled' = Append(handled, Body(Len(handled) + 1))
         /\ base' = End(Len(handled) + 1)
         /\ base' \in Int /\ recved' \in Nat /\ base' + recved' = base + recved
         /\ recved' <= recved
<1>0. /\ Types /\ Layout /\ looping /\ Complete
      /\ recved \in Nat /\ base \in Int /\ written \in Nat
      /\ base + recved <= written
  BY DEF Inv, Types, HandlePackage
<1>1. Framing
  BY <1>0, Framed
<1>2. base < written
  BY <1>0 DEF Complete
<1>3. PICK k : k = Len(handled) + 1 /\ Len(handled) \in Nat /\ k \in DOMAIN sent
              /\ base = sent[k].first
  BY <1>1, <1>2, NextPackage
<1>4. read_header = HeaderOf(k)
  BY <1>0, <1>3, HeaderSays DEF Complete, Unreadable
<1>5. PackageSize(sent[k].len) \in Nat /\ HeadSize(sent[k].len) \in Nat
  BY <1>0, <1>3, SentPackage, Sizes DEF Types
<1>6. /\ handled' = Append(handled, [from |-> base + HeadSize(sent[k].len),
                                     to   |-> base + PackageSize(sent[k].len)])
      /\ base' = base + PackageSize(sent[k].len)
      /\ recved' = recved - PackageSize(sent[k].len)
      /\ PackageSize(sent[k].len) <= recved
  BY <1>0, <1>4 DEF HandlePackage, HeaderOf, Complete
<1>7. handled' = Append(handled, Body(k)) /\ base' = End(k)
  BY <1>3, <1>6 DEF Body, End
<1>8. /\ base' \in Int /\ recved' \in Nat /\ base' + recved' = base + recved
      /\ recved' <= recved
  BY <1>0, <1>5, <1>6
<1> QED
  BY <1>1, <1>3, <1>7, <1>8

LEMMA HandlePackageInv ==
  ASSUME Inv, HandlePackage
  PROVE  Inv'
<1>0. Types /\ Layout /\ Adjacent /\ Position /\ SmallBuffer /\ looping
      /\ long_pkg_size \in Nat /\ recved \in Nat
  BY DEF Inv, Types, HandlePackage
<1>1. UNCHANGED <<environment, socket_type, sent, written, is_ws_shake, looping>>
      /\ status' \in {status, "closing"} /\ long_pkg_size' \in {0, long_pkg_size}
  BY DEF HandlePackage, senderVars
<1>2. Layout' /\ Adjacent' /\ (Fitting' <=> Fitting)
      /\ \A k : Body(k)' = Body(k) /\ Start(k)' = Start(k)
  BY <1>1, StreamUnchanged
<1>3. PICK h \in Nat :
        /\ h = Len(handled) /\ h + 1 \in DOMAIN sent /\ Framing
        /\ handled' = Append(handled, Body(h + 1))
        /\ base' = End(h + 1)
        /\ base' \in Int /\ recved' \in Nat /\ base' + recved' = base + recved
        /\ recved' <= recved
  BY HandledNext
<1>4. sent[h + 1].first \in Nat /\ HeadSize(sent[h + 1].len) \in Nat /\ Len(sent) \in Nat
      /\ DOMAIN sent = 1..Len(sent)
  BY <1>0, <1>3, SentPackage, Sizes DEF Types
<1>5. Body(h + 1) \in [from : Int, to : Int]
  BY <1>3, <1>4 DEF Body
<1>6. handled \in Seq([from : Int, to : Int]) /\ DOMAIN handled = 1..h
  BY <1>0, <1>3, SeqElement DEF Types
<1>7. /\ handled' \in Seq([from : Int, to : Int]) /\ Len(handled') = h + 1
      /\ DOMAIN handled' = 1..(h + 1)
      /\ handled'[h + 1] = Body(h + 1) /\ \A k \in 1..h : handled'[k] = handled[k]
  <2> DEFINE S == [from : Int, to : Int]
             b == Body(h + 1)
  <2>1. handled \in Seq(S) /\ b \in S /\ handled' = Append(handled, b) /\ Len(handled) = h
    BY <1>3, <1>5, <1>6
  <2> HIDE DEF S, b
  <2>2. /\ handled' \in Seq(S) /\ Len(handled') = h + 1 /\ DOMAIN handled' = 1..(h + 1)
        /\ handled'[h + 1] = b /\ \A k \in 1..h : handled'[k] = handled[k]
    BY <2>1
  <2> QED
    BY <2>2 DEF S, b
<1>8. Types'
  BY <1>0, <1>1, <1>3, <1>7 DEF Types
<1>9. Framing'
  BY <1>1, <1>3 DEF Framing
<1>10. Position'
  <2>1. base' = Start(h + 2)
    <3>1. Start(h + 1 + 1) = End(h + 1)
      BY <1>0, <1>3 DEF Adjacent
    <3> QED
      BY <1>3, <3>1
  <2>2. Start(h + 2)' = Start(h + 2)
    BY <1>2
  <2>3. \A k \in 1..h : handled[k] = Body(k)
    BY <1>0, <1>6 DEF Position
  <2>4. \A k \in 1..(h + 1) : handled'[k] = Body(k)
    BY <1>7, <2>3
  <2>5. h + 1 <= Len(sent)
    BY <1>3, <1>4
  <2>6. Len(handled') + 1 = h + 2
    BY <1>7
  <2> QED
    BY <1>1, <1>2, <1>7, <2>1, <2>2, <2>4, <2>5, <2>6 DEF Position, Start
<1>11. SmallBuffer'
  BY <1>0, <1>1, <1>2, <1>3, BufferAssumption DEF SmallBuffer
<1> QED
  BY <1>2, <1>8, <1>9, <1>10, <1>11 DEF Inv, Handshake

\* The loop is not left while a package that fits lies complete in recv_buf.
LEMMA LeaveLoopInv ==
  ASSUME Inv, LeaveLoop
  PROVE  Inv'
<1>0. /\ Types /\ Layout /\ Position /\ SmallBuffer /\ looping /\ ~Complete
      /\ recved \in Nat /\ RECV_LEN \in Nat /\ RECV_LEN >= 8
      /\ base \in Int /\ written \in Nat /\ base + recved <= written
  BY BufferAssumption DEF Inv, Types, LeaveLoop
<1>1. UNCHANGED <<environment, socket_type, sent, written, is_ws_shake, base, recved,
                 long_pkg_size, status, handled>> /\ looping' = FALSE
  BY DEF LeaveLoop, senderVars
<1>2. Layout' /\ Adjacent' /\ (Fitting' <=> Fitting)
      /\ \A k : Body(k)' = Body(k) /\ Start(k)' = Start(k)
  BY <1>1, StreamUnchanged
<1>3. Framing /\ Framing'
  BY <1>0, <1>1, Framed DEF Framing
<1>4. Types'
  BY <1>0, <1>1 DEF Types
<1>5. Position'
  BY <1>0, <1>1, <1>2, <1>3 DEF Position, Start
<1>6. ASSUME Fitting
      PROVE  recved # RECV_LEN
  <2> SUFFICES ASSUME recved = RECV_LEN
               PROVE  Complete
    BY <1>0
  <2>1. base < written
    BY <1>0
  <2>2. PICK k \in DOMAIN sent : base = sent[k].first
    BY <1>3, <2>1, NextPackage
  <2>3. read_header = HeaderOf(k)
    BY <1>0, <2>2, HeaderSays
  <2>4. HeadSize(sent[k].len) > 0 /\ PackageSize(sent[k].len) <= RECV_LEN
    BY <1>0, <1>6, <2>2, SentPackage, Sizes DEF Types, Fitting
  <2> QED
    BY <1>0, <2>3, <2>4 DEF Complete, HeaderOf
<1>7. SmallBuffer'
  <2> SUFFICES ASSUME Fitting
               PROVE  status' # "undefined" /\ long_pkg_size' = 0 /\ recved' < RECV_LEN
    BY <1>0, <1>1, <1>2 DEF SmallBuffer
  <2> QED
    BY <1>0, <1>1, <1>6 DEF SmallBuffer
<1> QED
  BY <1>2, <1>3, <1>4, <1>5, <1>7 DEF Inv, Handshake

\* Losing and releasing the session, and stuttering, move no bytes.
LEMMA OtherInv ==
  ASSUME Inv, LoseConnection \/ Destroy \/ UNCHANGED vars
  PROVE  Inv'
<1>1. UNCHANGED <<environment, socket_type, sent, written, is_ws_shake, base, recved,
                 long_pkg_size, looping, handled>>
      /\ status' \in {status, "lost", "destroyed"}
  BY DEF LoseConnection, Destroy, vars, senderVars, receiverVars
<1>2. Layout' /\ Adjacent' /\ (Fitting' <=> Fitting)
      /\ \A k : Body(k)' = Body(k) /\ Start(k)' = Start(k)
  BY <1>1, StreamUnchanged
<1>3. Types'
  BY <1>1 DEF Inv, Types
<1>4. Position'
  BY <1>1, <1>2 DEF Inv, Position, Start, Framing
<1>5. Handshake'
  BY <1>1 DEF Inv, Handshake, Framing
<1>6. SmallBuffer'
  BY <1>1, <1>2 DEF Inv, SmallBuffer
<1> QED
  BY <1>2, <1>3, <1>4, <1>5, <1>6 DEF Inv

LEMMA NextInv ==
  ASSUME Inv, [Next]_vars
  PROVE  Inv'
<1>1. CASE \E len \in Lengths : Send(len)
  BY <1>1, SendInv
<1>2. CASE \E upto \in CutPoints : Read(upto)
  BY <1>2, ReadInv
<1>3. CASE StartLongPackage
  BY <1>3, StartLongPackageInv
<1>4. CASE HandlePackage
  BY <1>4, HandlePackageInv
<1>5. CASE LeaveLoop
  BY <1>5, LeaveLoopInv
<1>6. CASE LoseConnection \/ Destroy \/ UNCHANGED vars
  BY <1>6, OtherInv
<1> QED
  BY <1>1, <1>2, <1>3, <1>4, <1>5, <1>6 DEF Next

\* What the theorems below rest on: the receiver stands at a boundary between
\* packages, and the bytes it holds are those that follow.
THEOREM Invariance == Spec => []Inv
<1>1. Init => Inv
  BY InitInv
<1>2. Inv /\ [Next]_vars => Inv'
  BY NextInv
<1> QED
  BY <1>1, <1>2, PTL DEF Spec

\* The types, for any buffer, any packages and any division of the stream:
\* the receiver never takes or gives back more bytes than were written.
THEOREM TypeCorrect == Spec => []TypeOK
<1>1. Inv => TypeOK
  BY DEF Inv, Types, TypeOK
<1> QED
  BY <1>1, Invariance, PTL

\* While all packages fit, the buffers of a session are used as they should
\* be: whatever the network does, recv_buf never fills up with an incomplete
\* package.
THEOREM BuffersSuffice == Spec => []DefinedWhilePackagesFit
<1>1. Inv => DefinedWhilePackagesFit
  BY DEF Inv, SmallBuffer, Fitting, DefinedWhilePackagesFit
<1> QED
  BY <1>1, Invariance, PTL
-----------------------------------------------------------------------------
(* The stream of packages. *)

Bodies == [k \in DOMAIN sent |-> Body(k)]

LEMMA StreamSend ==
  ASSUME Inv, NEW len \in Lengths, Send(len)
  PROVE  Stream!Send
<1>1. PICK n \in Nat : n = Len(sent) /\ DOMAIN sent = 1..n
  BY SentPackage DEF Inv
<1>2. /\ DOMAIN sent' = 1..(n + 1) /\ Len(sent') = n + 1
      /\ \A k \in 1..n : sent'[k] = sent[k]
  BY <1>1 DEF Send, Inv, Types
<1>3. \A k \in 1..n : Body(k)' = Body(k)
  BY <1>2 DEF Body, End, PackageSize, HeadSize, Send
<1>4. Bodies = [k \in 1..n |-> Body(k)] /\ Bodies' = [k \in 1..(n + 1) |-> Body(k)']
  BY <1>1, <1>2 DEF Bodies
<1>5. Len(Bodies) = n /\ Len(Bodies') = n + 1
  BY <1>4
<1>6. Bodies' # <<>>
  BY <1>5
<1>7. Bodies' = Append(Bodies, Bodies'[n + 1])
  BY <1>3, <1>4
<1>8. handled' = handled
  BY DEF Send, receiverVars
<1> QED
  BY <1>5, <1>6, <1>7, <1>8 DEF Stream!Send, Bodies

LEMMA StreamHandle ==
  ASSUME Inv, HandlePackage
  PROVE  Stream!Handle
<1>1. /\ Len(handled) \in Nat /\ Len(handled) + 1 \in DOMAIN sent
      /\ handled' = Append(handled, Body(Len(handled) + 1))
  BY HandledNext
<1>2. Len(sent) \in Nat /\ DOMAIN sent = 1..Len(sent)
  BY SentPackage DEF Inv
<1>3. Len(Bodies) = Len(sent) /\ Bodies[Len(handled) + 1] = Body(Len(handled) + 1)
  BY <1>1, <1>2 DEF Bodies
<1>4. Bodies' = Bodies
  BY DEF HandlePackage, senderVars, Bodies, Body, End, PackageSize, HeadSize
<1> QED
  BY <1>1, <1>2, <1>3, <1>4 DEF Stream!Handle, Bodies

LEMMA StreamStutter ==
  ASSUME UNCHANGED <<sent, socket_type, handled>>
  PROVE  UNCHANGED <<Bodies, handled>>
  BY DEF Bodies, Body, End, PackageSize, HeadSize

\* Whatever the lengths and the division of the stream by the network, the
\* loop hands over the commands that were sent, each whole, once and in order.
THEOREM Refinement == Spec => StreamImplemented
<1>1. Init => Stream!Init
  BY DEF Init, Stream!Init
<1>2. Inv /\ [Next]_vars => [Stream!Send \/ Stream!Handle]_<<Bodies, handled>>
  <2> SUFFICES ASSUME Inv, [Next]_vars
               PROVE  Stream!Send \/ Stream!Handle \/ UNCHANGED <<Bodies, handled>>
    OBVIOUS
  <2>1. CASE \E len \in Lengths : Send(len)
    BY <2>1, StreamSend
  <2>2. CASE HandlePackage
    BY <2>2, StreamHandle
  <2>3. CASE (\E upto \in CutPoints : Read(upto)) \/ StartLongPackage \/ LeaveLoop
             \/ LoseConnection \/ Destroy \/ UNCHANGED vars
    BY <2>3, StreamStutter
    DEF Read, StartLongPackage, LeaveLoop, LoseConnection, Destroy, vars, senderVars,
        receiverVars
  <2> QED
    BY <2>1, <2>2, <2>3 DEF Next
<1> QED
  BY <1>1, <1>2, Invariance, PTL DEF Spec, StreamImplemented, Stream!Spec, Bodies
-----------------------------------------------------------------------------
(***************************************************************************)
(* Nothing is left behind: the safety core of FittingPackagesHandled.      *)
(***************************************************************************)
\* Outside the loop, the next package has not been received to its end.
Caught == ~looping => \A k \in DOMAIN sent : End(k) <= base + recved => k <= Len(handled)

\* In sound surroundings packages fit, and nothing closes the session.
SoundSession == environment = "sound" => Fitting /\ status = "open"

CaughtInv == Inv /\ Caught /\ SoundSession

\* There is something to read and room to read it into: Read can take a step.
ReadReady ==
  /\ Reading
  /\ \E upto \in CutPoints :
       base + recved < upto /\ upto <= Lesser(written, base + recved + Room)

\* When the loop finds no complete package, the next one is not there to its end.
LEMMA MoreToCome ==
  ASSUME Inv, Framing, ~Complete, base < written
  PROVE  base + recved < End(Len(handled) + 1)
<1>1. PICK k \in DOMAIN sent : k = Len(handled) + 1 /\ base = sent[k].first
  BY NextPackage
<1>2. Types /\ Layout /\ recved \in Nat /\ socket_type \in {"TCP", "WS"}
      /\ sent[k].first \in Nat /\ sent[k].len \in Lengths
  BY SentPackage DEF Inv, Types
<1> DEFINE n == sent[k].len
<1>3. n \in Nat /\ 0 < n /\ PackageSize(n) \in Nat /\ HeadSize(n) > 0
  BY <1>2, Sizes
<1>4. recved < PackageSize(n)
  <2>1. CASE read_header = HeaderOf(k) /\ recved > 0
    BY <1>2, <1>3, <2>1 DEF Complete, HeaderOf
  <2>2. CASE recved = 0
    BY <1>2, <1>3, <2>2, Sizes
  <2>3. CASE read_header # HeaderOf(k) /\ socket_type = "TCP"
    <3>1. recved < 2
      BY <1>1, <1>2, <2>3, TcpHeader
    <3> QED
      BY <1>2, <1>3, <2>3, <3>1, Sizes
  <2>4. CASE read_header # HeaderOf(k) /\ socket_type = "WS"
    <3>1. recved < 4
      BY <1>1, <1>2, <2>4, HeaderSays
    <3> QED
      BY <1>2, <1>3, <2>4, <3>1, Sizes
  <2> QED
    BY <1>2, <2>1, <2>2, <2>3, <2>4
<1> QED
  BY <1>1, <1>2, <1>3, <1>4 DEF End

\* Packages behind the next one end behind it.
LEMMA NoneBehind ==
  ASSUME Inv, base + recved < End(Len(handled) + 1),
         NEW k \in DOMAIN sent, End(k) <= base + recved
  PROVE  k <= Len(handled)
<1>1. PICK h \in Nat : h = Len(handled)
  BY SeqElement DEF Inv, Types
<1>2. Types /\ Layout /\ base \in Int /\ recved \in Nat /\ socket_type \in {"TCP", "WS"}
  BY DEF Inv, Types
<1>3. \A j \in DOMAIN sent : sent[j].first \in Nat /\ sent[j].len \in Lengths /\ j \in Nat
  BY <1>2, SentPackage
<1>4. DOMAIN sent = 1..Len(sent) /\ Len(sent) \in Nat
  BY <1>2, SentPackage
<1> SUFFICES ASSUME ~(k <= h)
             PROVE  FALSE
  BY <1>1
<1>5. h + 1 \in DOMAIN sent /\ (k = h + 1 \/ h + 1 < k)
  BY <1>3, <1>4
<1>6. /\ sent[k].first \in Nat /\ PackageSize(sent[k].len) \in Nat
      /\ sent[h + 1].first \in Nat /\ PackageSize(sent[h + 1].len) \in Nat
  BY <1>2, <1>3, <1>5, Sizes
<1>7. CASE k = h + 1
  BY <1>1, <1>2, <1>6, <1>7 DEF End
<1>8. CASE h + 1 < k
  <2>1. End(h + 1) <= sent[k].first
    BY <1>2, <1>5, <1>8 DEF Layout
  <2> QED
    BY <1>1, <1>2, <1>6, <2>1 DEF End
<1> QED
  BY <1>5, <1>7, <1>8

\* While a package has not been handed over, there are bytes behind base.
LEMMA Unhandled ==
  ASSUME Inv, Framing, Len(handled) < Len(sent)
  PROVE  /\ base < written
         /\ Len(handled) + 1 \in DOMAIN sent /\ End(Len(handled) + 1) <= written
<1>1. PICK h \in Nat : h = Len(handled)
  BY SeqElement DEF Inv, Types
<1>2. Types /\ Layout /\ base \in Int /\ written \in Nat /\ socket_type \in {"TCP", "WS"}
  BY DEF Inv, Types
<1>3. DOMAIN sent = 1..Len(sent) /\ Len(sent) \in Nat /\ h + 1 \in DOMAIN sent
  BY <1>1, <1>2, SentPackage
<1>4. sent[h + 1].first \in Nat /\ sent[h + 1].len \in Lengths
  BY <1>2, <1>3, SentPackage
<1>5. PackageSize(sent[h + 1].len) \in Nat /\ PackageSize(sent[h + 1].len) > 0
  BY <1>2, <1>4, Sizes
<1>6. base = sent[h + 1].first
  BY <1>1, <1>3 DEF Inv, Position, Start
<1>7. End(h + 1) <= written
  BY <1>2, <1>3 DEF Layout
<1> QED
  BY <1>1, <1>2, <1>3, <1>4, <1>5, <1>6, <1>7 DEF End

LEMMA CaughtInit == Init => CaughtInv
<1> SUFFICES ASSUME Init PROVE CaughtInv
  OBVIOUS
<1>1. Inv
  BY InitInv
<1>2. DOMAIN sent = {} /\ status = "open"
  BY DEF Init
<1> QED
  BY <1>1, <1>2 DEF CaughtInv, Caught, SoundSession, Fitting

\* A package that has just been sent has not been received.
LEMMA SendCaught ==
  ASSUME CaughtInv, NEW len \in Lengths, Send(len)
  PROVE  Caught' /\ SoundSession'
<1>0. /\ Inv /\ Types /\ Caught /\ SoundSession
      /\ socket_type \in {"TCP", "WS"} /\ base \in Int /\ recved \in Nat /\ written \in Nat
      /\ base + recved <= written
  BY DEF CaughtInv, Inv, Types
<1>1. PICK n \in Nat :
        /\ n = Len(sent) /\ DOMAIN sent = 1..n
        /\ \A k \in 1..n : sent[k].first \in Nat /\ sent[k].len \in Lengths
  BY <1>0, SentPackage
<1>2. /\ DOMAIN sent' = 1..(n + 1)
      /\ \A k \in 1..n : sent'[k] = sent[k]
      /\ sent'[n + 1] = [first |-> written, len |-> len]
  BY <1>0, <1>1 DEF Send, Types
<1>3. UNCHANGED <<environment, socket_type, base, recved, looping, status, handled>>
  BY DEF Send, receiverVars
<1>4. \A l : PackageSize(l)' = PackageSize(l)
  BY <1>3 DEF HeadSize, PackageSize
<1>5. \A k \in 1..n : End(k)' = End(k)
  BY <1>2, <1>4 DEF End
<1>6. End(n + 1)' = written + PackageSize(len) /\ PackageSize(len) \in Nat
      /\ PackageSize(len) > 0
  BY <1>0, <1>2, <1>4, Sizes DEF End
<1>7. Caught'
  <2> SUFFICES ASSUME ~looping', NEW k \in DOMAIN sent', End(k)' <= base' + recved'
               PROVE  k <= Len(handled')
    BY DEF Caught
  <2>1. k # n + 1
    BY <1>0, <1>3, <1>6
  <2>2. k \in 1..n
    BY <1>2, <2>1
  <2> QED
    BY <1>0, <1>1, <1>3, <1>5, <2>2 DEF Caught
<1>8. SoundSession'
  <2> SUFFICES ASSUME environment = "sound"
               PROVE  Fitting' /\ status' = "open"
    BY <1>3 DEF SoundSession
  <2>1. PackageSize(len) <= RECV_LEN
    BY DEF Send
  <2>2. \A k \in 1..n : PackageSize(sent[k].len) <= RECV_LEN
    BY <1>0, <1>1 DEF SoundSession, Fitting
  <2>3. ASSUME NEW k \in 1..(n + 1)
        PROVE  PackageSize(sent[k].len)' <= RECV_LEN
    <3>1. CASE k = n + 1
      BY <1>2, <1>3, <2>1, <3>1 DEF PackageSize, HeadSize
    <3>2. CASE k # n + 1
      BY <1>2, <1>3, <2>2, <3>2 DEF PackageSize, HeadSize
    <3> QED
      BY <3>1, <3>2
  <2> QED
    BY <1>0, <1>2, <1>3, <2>3 DEF SoundSession, Fitting
<1> QED
  BY <1>7, <1>8

\* Nothing is left in recv_buf when the loop ends, and nothing is added outside it.
LEMMA ReceiverCaught ==
  ASSUME CaughtInv,
         \/ \E upto \in CutPoints : Read(upto)
         \/ StartLongPackage \/ HandlePackage \/ LeaveLoop \/ LoseConnection \/ Destroy
         \/ UNCHANGED vars
  PROVE  Caught' /\ SoundSession'
<1>0. /\ Inv /\ Types /\ Handshake /\ SmallBuffer /\ Caught /\ SoundSession
      /\ base \in Int /\ recved \in Nat /\ written \in Nat /\ RECV_LEN \in Nat
  BY BufferAssumption DEF CaughtInv, Inv, Types
<1>1. UNCHANGED <<environment, socket_type, sent, written>>
  BY DEF Read, StartLongPackage, HandlePackage, LeaveLoop, LoseConnection, Destroy, vars,
         senderVars
<1>2. (Fitting' <=> Fitting) /\ \A k : End(k)' = End(k)
  BY <1>0, <1>1, StreamUnchanged DEF End, PackageSize, HeadSize
<1>3. ASSUME NEW upto \in CutPoints, Read(upto)
      PROVE  Caught' /\ SoundSession'
  <2>1. CASE Framing
    <3>1. looping' = TRUE /\ status' = IF recved < RECV_LEN /\ long_pkg_size # 0
                                       THEN "undefined" ELSE status
      BY <1>3, <2>1 DEF Read, Framing
    <3> QED
      BY <1>0, <1>1, <1>2, <3>1 DEF Caught, SoundSession, SmallBuffer
  <2>2. CASE ~Framing
    <3>1. sent = <<>> /\ UNCHANGED status
      BY <1>0, <1>3, <2>2 DEF Read, Handshake, Framing, Types
    <3>2. DOMAIN sent' = {}
      BY <1>1, <3>1
    <3> QED
      BY <1>0, <1>1, <1>2, <3>1, <3>2 DEF Caught, SoundSession
  <2> QED
    BY <2>1, <2>2
<1>4. CASE StartLongPackage
  <2>1. UNCHANGED <<base, recved, looping, handled>> /\ ~Fitting
    BY <1>0, <1>4 DEF StartLongPackage, SmallBuffer, Reading
  <2> QED
    BY <1>0, <1>1, <1>2, <2>1 DEF Caught, SoundSession
<1>5. CASE HandlePackage
  <2>1. looping' /\ (environment = "sound" => UNCHANGED status)
    BY <1>5 DEF HandlePackage
  <2> QED
    BY <1>0, <1>1, <1>2, <2>1 DEF Caught, SoundSession
<1>6. CASE LeaveLoop
  <2>1. UNCHANGED <<base, recved, status, handled>> /\ ~Complete /\ looping
    BY <1>6 DEF LeaveLoop
  <2>2. Framing
    BY <1>0, <2>1, Framed
  <2>3. ASSUME NEW k \in DOMAIN sent, End(k) <= base + recved
        PROVE  k <= Len(handled)
    <3>1. Len(handled) \in Nat /\ Len(sent) \in Nat /\ k \in 1..Len(sent)
      BY <1>0, SeqElement, SentPackage DEF Types
    <3>2. CASE Len(handled) < Len(sent)
      <4>1. base < written
        BY <1>0, <2>2, <3>2, Unhandled
      <4> QED
        BY <1>0, <2>1, <2>2, <2>3, <4>1, MoreToCome, NoneBehind
    <3> QED
      BY <3>1, <3>2
  <2> QED
    BY <1>0, <1>1, <1>2, <2>1, <2>3 DEF Caught, SoundSession
<1>7. CASE LoseConnection \/ Destroy \/ UNCHANGED vars
  <2>1. UNCHANGED <<base, recved, looping, handled>>
    BY <1>7 DEF LoseConnection, Destroy, vars, receiverVars
  <2>2. environment = "sound" => UNCHANGED status
    BY <1>0, <1>7 DEF LoseConnection, Destroy, vars, receiverVars, SoundSession
  <2> QED
    BY <1>0, <1>1, <1>2, <2>1, <2>2 DEF Caught, SoundSession
<1> QED
  BY <1>3, <1>4, <1>5, <1>6, <1>7

LEMMA CaughtInvariance == Spec => []CaughtInv
<1>1. CaughtInv /\ [Next]_vars => CaughtInv'
  <2> SUFFICES ASSUME CaughtInv, [Next]_vars
               PROVE  CaughtInv'
    OBVIOUS
  <2>1. Inv'
    BY NextInv DEF CaughtInv
  <2>2. CASE \E len \in Lengths : Send(len)
    BY <2>1, <2>2, SendCaught DEF CaughtInv
  <2>3. CASE ~(\E len \in Lengths : Send(len))
    BY <2>1, <2>3, ReceiverCaught DEF CaughtInv, Next
  <2> QED
    BY <2>2, <2>3
<1> QED
  BY <1>1, CaughtInit, PTL DEF Spec

\* For any lengths and any division of the stream: once the loop of on_recv_*_data has
\* ended, every package that has come in to its last byte has been handed to
\* on_recv_client_command; none waits in the buffer for the bytes of a later one.
THEOREM NoPackageLeftBehind == Spec => []Caught
<1>1. CaughtInv => Caught
  BY DEF CaughtInv
<1> QED
  BY <1>1, CaughtInvariance, PTL

\* While there is something to do in sound surroundings, Read can take a step, or the loop:
\* HandlePackage or LeaveLoop.
ReceiverReady ==
  environment = "sound" /\ (Len(handled) < Len(sent) \/ base + recved < written) =>
    (looping /\ status # "undefined") \/ ReadReady

\* Where packages fit and the connection and the services are fine, the receiver is never
\* stuck: while a package has not been handed over, or bytes of it or of the handshake are
\* on their way, the loop runs, which it always can, or uv_alloc_buf has room for them.
THEOREM ReceiverNeverStuck == Spec => []ReceiverReady
<1>1. CaughtInv => ReceiverReady
  <2> SUFFICES ASSUME CaughtInv, environment = "sound", ~looping,
                      Len(handled) < Len(sent) \/ base + recved < written
               PROVE  ReadReady
    BY DEF CaughtInv, SoundSession, ReceiverReady
  <2>1. /\ Inv /\ Types /\ Handshake /\ SmallBuffer /\ Fitting /\ status = "open"
        /\ base \in Int /\ recved \in Nat /\ written \in Nat /\ base + recved <= written
        /\ RECV_LEN \in Nat /\ recved < RECV_LEN
    BY BufferAssumption DEF CaughtInv, Inv, Types, SoundSession, SmallBuffer
  <2>2. base + recved < written
    <3> SUFFICES ASSUME Len(handled) < Len(sent)
                 PROVE  base + recved < written
      OBVIOUS
    <3>1. Framing
      <4>1. sent # <<>>
        BY <2>1, SeqElement DEF Types
      <4> QED
        BY <2>1, <4>1 DEF Handshake
    <3>2. Len(handled) + 1 \in DOMAIN sent /\ End(Len(handled) + 1) <= written
      BY <2>1, <3>1, Unhandled
    <3>3. ~(End(Len(handled) + 1) <= base + recved)
      <4>1. Len(handled) \in Nat
        BY <2>1, SeqElement DEF Types
      <4> QED
        BY <3>2, <4>1 DEF CaughtInv, Caught
    <3>4. End(Len(handled) + 1) \in Int
      <4>1. /\ sent[Len(handled) + 1].first \in Nat /\ sent[Len(handled) + 1].len \in Lengths
            /\ socket_type \in {"TCP", "WS"}
        BY <2>1, <3>2, SentPackage DEF Types
      <4> QED
        BY <4>1, Sizes DEF End
    <3> QED
      BY <2>1, <3>2, <3>3, <3>4
  <2>3. Room = RECV_LEN - recved /\ Room > 0
    BY <2>1 DEF Room
  <2> DEFINE upto == Lesser(written, base + recved + Room)
  <2>4. upto \in CutPoints
    BY DEF CutPoints, Lesser
  <2>5. base + recved < upto
    BY <2>1, <2>2, <2>3 DEF Lesser
  <2>6. upto <= upto
    BY <2>1, <2>3 DEF Lesser
  <2>7. Reading
    BY <2>1 DEF Reading
  <2> QED
    BY <2>4, <2>5, <2>6, <2>7 DEF ReadReady
<1> QED
  BY <1>1, CaughtInvariance, PTL
=============================================================================
