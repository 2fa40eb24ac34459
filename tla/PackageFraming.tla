--------------------------- MODULE PackageFraming ---------------------------
(***************************************************************************)
(* Packages on the byte stream of one session.  The sender writes headers: *)
(* on TCP those of tp_protocol::package, as the servers do among           *)
(* themselves; on a websocket those of a client, which the repository only *)
(* reads.  uv_alloc_buf, after_read and on_recv_tcp_data / on_recv_ws_data *)
(* of netbus.cc cut the stream again.                                      *)
(*                                                                         *)
(* A byte is its position in the stream.  The receiver holds the recved    *)
(* bytes from position base on; the handshake of a websocket lies before   *)
(* position 0.  What the byte at a position says is computed from the      *)
(* package that covers it, so a receiver that loses its place reads the    *)
(* wrong sizes here too.                                                   *)
(*                                                                         *)
(* The loop of on_recv_*_data runs inside one callback: while looping      *)
(* holds only the peer may take a step.  environment says what may happen: *)
(*   "sound"   packages fit recv_buf, the connection and services are fine *)
(*   "long"    packages of any length                                      *)
(*   "faulty"  also, the connection breaks or a service refuses a command  *)
(***************************************************************************)
EXTENDS Integers, Sequences

CONSTANTS
  RECV_LEN,              \* size of recv_buf
  REQUEST,               \* size of the handshake request of a websocket
  Lengths,               \* lengths of the commands that are sent
  MaxPackages,           \* bound: packages sent
  Offsets,               \* bound: offsets in a package where the network may cut
  Environments           \* the environments to consider

ASSUME BufferAssumption == RECV_LEN \in Nat /\ RECV_LEN >= 8
ASSUME RequestAssumption == REQUEST \in 1..RECV_LEN
ASSUME LengthAssumption == \A len \in Lengths : len \in Nat /\ 0 < len /\ len + 2 < 256 * 256
ASSUME BoundAssumption == MaxPackages \in Nat /\ Offsets \subseteq Nat
ASSUME EnvironmentAssumption == Environments \subseteq {"sound", "long", "faulty"}

VARIABLES
  environment,           \* what may happen, chosen at the start
  socket_type,           \* "TCP" or "WS"
  is_ws_shake,           \* the handshake of the websocket is done
  sent,                  \* the packages sent: position of the first byte, command length
  written,               \* the position the next package will have
  base,                  \* the position of the first byte the receiver holds
  recved,                \* how many bytes it holds
  long_pkg_size,         \* size of long_pkg; 0 when it is NULL
  looping,               \* on_recv_*_data is in its loop
  status,                \* "open", "closing", "lost" (closing, nothing read
                         \* any more), "destroyed", "undefined"
  handled                \* the bodies handed to on_recv_client_command

senderVars == <<sent, written>>
receiverVars == <<is_ws_shake, base, recved, long_pkg_size, looping, status, handled>>
vars == <<environment, socket_type, senderVars, receiverVars>>

Lesser(a, b) == IF a < b THEN a ELSE b
-----------------------------------------------------------------------------
(* The packages. *)

\* Two bytes of size in front of a command.  From the client of a websocket
\* (RFC 6455; package_ws_send_data, for the other direction, writes no mask) two
\* bytes, two more for a length over 125, and the four bytes of the mask, all of
\* which read_ws_header expects.
HeadSize(len) == IF socket_type = "TCP" THEN 2 ELSE IF len <= 125 THEN 6 ELSE 8
PackageSize(len) == HeadSize(len) + len
End(k) == sent[k].first + PackageSize(sent[k].len)

\* The byte at offset i of a package with a command of length len; what is
\* in a body and in a mask does not matter, and is 0.
TcpByte(len, i) ==
  CASE i = 0 -> (len + 2) % 256
    [] i = 1 -> ((len + 2) \div 256) % 256
    [] OTHER -> 0

\* The client of a websocket: one binary frame, the bit of the mask set.
WsByte(len, i) ==
  CASE i = 0 -> 130
    [] i = 1 -> 128 + (IF len <= 125 THEN len ELSE 126)
    [] i = 2 /\ len > 125 -> len \div 256
    [] i = 3 /\ len > 125 -> len % 256
    [] OTHER -> 0
ByteAt(p) ==
  LET k == CHOOSE j \in DOMAIN sent : sent[j].first <= p /\ p < End(j)
  IN  IF socket_type = "TCP" THEN TcpByte(sent[k].len, p - sent[k].first)
                             ELSE WsByte(sent[k].len, p - sent[k].first)
-----------------------------------------------------------------------------
(* Reading a header from the bytes the receiver holds. *)

Unreadable == [pkg_size |-> 0, head_size |-> 0]

read_tp_header ==
  IF recved < 2 THEN Unreadable
  ELSE [pkg_size |-> ByteAt(base) + 256 * ByteAt(base + 1), head_size |-> 2]

read_ws_header ==
  IF ByteAt(base) \notin {129, 130} \/ recved < 2 THEN Unreadable
  ELSE LET data_len == ByteAt(base + 1) % 128
       IN  IF data_len # 126
           THEN [pkg_size |-> data_len + 6, head_size |-> 6]
           ELSE IF recved < 4 THEN Unreadable
           ELSE [pkg_size |-> ByteAt(base + 3) + 256 * ByteAt(base + 2) + 8,
                 head_size |-> 8]

read_header == IF socket_type = "TCP" THEN read_tp_header ELSE read_ws_header
-----------------------------------------------------------------------------
(* The peer. *)

\* session::send_data of the other end; a websocket client waits for the
\* handshake to be answered.
Send(len) ==
  /\ status # "undefined" /\ Len(sent) < MaxPackages
  /\ is_ws_shake \/ socket_type = "TCP"
  /\ environment = "sound" => PackageSize(len) <= RECV_LEN
  /\ sent' = Append(sent, [first |-> written, len |-> len])
  /\ written' = written + PackageSize(len)
  /\ UNCHANGED <<environment, socket_type, receiverVars>>
-----------------------------------------------------------------------------
(* The receiver. *)

Reading == status \in {"open", "closing"} /\ ~looping

\* The room uv_alloc_buf offers libuv.
Room == IF recved < RECV_LEN THEN RECV_LEN - recved ELSE long_pkg_size - recved

\* Where the network may cut the stream, and where all that is there, or the
\* room, ends.
CutPoints ==
  {written, base + recved + Room} \cup {-d : d \in Offsets}
    \cup {sent[k].first + d : k \in DOMAIN sent, d \in Offsets}

\* uv_alloc_buf, the read of libuv, and after_read up to the loop.  Bytes
\* read into recv_buf beside a long_pkg are lost to the loop.
Read(upto) ==
  /\ Reading
  /\ base + recved < upto
  /\ upto <= Lesser(written, base + recved + Room)
  /\ IF socket_type = "WS" /\ ~is_ws_shake
     THEN \* ws_shake_hand needs the whole request, and takes all there is
          /\ IF upto = 0
             THEN is_ws_shake' = TRUE /\ base' = 0 /\ recved' = 0
             ELSE recved' = upto - base /\ UNCHANGED <<is_ws_shake, base>>
          /\ UNCHANGED <<looping, status>>
     ELSE /\ recved' = upto - base
          /\ looping' = TRUE
          /\ status' = IF recved < RECV_LEN /\ long_pkg_size # 0 THEN "undefined" ELSE status
          /\ UNCHANGED <<is_ws_shake, base>>
  /\ UNCHANGED <<environment, socket_type, senderVars, long_pkg_size, handled>>

\* uv_alloc_buf when recv_buf is full: long_pkg is made, and the bytes
\* received are copied to it, but *buf is not set.  An empty buffer makes
\* libuv report UV_ENOBUFS, upon which the session is closed while it goes
\* on reading; anything else there is not defined, nor is a copy of more
\* bytes than long_pkg has.
StartLongPackage ==
  /\ Reading /\ recved >= RECV_LEN /\ long_pkg_size = 0 /\ base + recved < written
  /\ long_pkg_size' = read_header.pkg_size
  /\ status' \in IF read_header.pkg_size >= recved THEN {"closing", "undefined"}
                                                  ELSE {"undefined"}
  /\ UNCHANGED <<environment, socket_type, senderVars, is_ws_shake, base, recved,
                 looping, handled>>

\* A bug Complete could have: the size is not compared with what was received.
CompleteUnchecked == recved > 0 /\ read_header.head_size > 0

\* A bug Complete could have: one byte must follow a package.
CompleteNeedsMore ==
  recved > 0 /\ read_header.head_size > 0 /\ read_header.pkg_size < recved

Complete == recved > 0 /\ read_header.head_size > 0 /\ read_header.pkg_size <= recved

\* A bug HandlePackage could have: what follows the package is thrown away.
HandleAndForget ==
  /\ looping /\ status # "undefined" /\ Complete
  /\ LET pkg == read_header
     IN  handled' = Append(handled, [from |-> base + pkg.head_size,
                                     to   |-> base + pkg.pkg_size])
  /\ base' = base + recved
  /\ recved' = 0 /\ long_pkg_size' = 0
  /\ UNCHANGED <<environment, socket_type, senderVars, is_ws_shake, looping, status>>

\* A bug HandlePackage could have: if in place of while, one package for a read.
HandleOne ==
  /\ looping /\ status # "undefined" /\ Complete
  /\ looping' = FALSE
  /\ LET pkg == read_header
     IN  /\ handled' = Append(handled, [from |-> base + pkg.head_size,
                                        to   |-> base + pkg.pkg_size])
         /\ base' = base + pkg.pkg_size
         /\ recved' = recved - pkg.pkg_size
  /\ long_pkg_size' = IF recved' = 0 THEN 0 ELSE long_pkg_size
  /\ UNCHANGED <<environment, socket_type, senderVars, is_ws_shake, status>>

\* The body of the loop.  The session stays readable after a close.
HandlePackage ==
  /\ looping /\ status # "undefined" /\ Complete
  /\ LET pkg == read_header
     IN  /\ handled' = Append(handled, [from |-> base + pkg.head_size,
                                        to   |-> base + pkg.pkg_size])
         /\ base' = base + pkg.pkg_size
         /\ recved' = recved - pkg.pkg_size
  /\ long_pkg_size' = IF recved' = 0 THEN 0 ELSE long_pkg_size
  /\ \/ UNCHANGED status
     \/ environment = "faulty" /\ status = "open" /\ status' = "closing"
  /\ UNCHANGED <<environment, socket_type, senderVars, is_ws_shake, looping>>

LeaveLoop ==
  /\ looping /\ status # "undefined" /\ ~Complete
  /\ looping' = FALSE
  /\ UNCHANGED <<environment, socket_type, senderVars, is_ws_shake, base, recved,
                 long_pkg_size, status, handled>>

\* after_read with a negative nread: libuv stops reading and the session closes.
LoseConnection ==
  /\ environment = "faulty" /\ Reading
  /\ status' = "lost"
  /\ UNCHANGED <<environment, socket_type, senderVars, is_ws_shake, base, recved,
                 long_pkg_size, looping, handled>>

\* on_shutdown and on_close.
Destroy ==
  /\ status \in {"closing", "lost"} /\ ~looping
  /\ status' = "destroyed"
  /\ UNCHANGED <<environment, socket_type, senderVars, is_ws_shake, base, recved,
                 long_pkg_size, looping, handled>>
-----------------------------------------------------------------------------
Init ==
  /\ environment \in Environments
  /\ socket_type \in {"TCP", "WS"}
  /\ is_ws_shake = FALSE
  /\ sent = <<>> /\ written = 0
  /\ base = IF socket_type = "TCP" THEN 0 ELSE -REQUEST
  /\ recved = 0 /\ long_pkg_size = 0
  /\ looping = FALSE /\ status = "open"
  /\ handled = <<>>

Next ==
  \/ \E len \in Lengths : Send(len)
  \/ \E upto \in CutPoints : Read(upto)
  \/ StartLongPackage
  \/ HandlePackage
  \/ LeaveLoop
  \/ LoseConnection
  \/ Destroy

Spec == Init /\ [][Next]_vars

\* The network delivers what was sent on a connection that stays up, and the
\* callback that libuv runs for it runs to its end.
Fairness ==
  /\ WF_vars(\E upto \in CutPoints : Read(upto))
  /\ WF_vars(StartLongPackage)
  /\ WF_vars(HandlePackage)
  /\ WF_vars(LeaveLoop)

FairSpec == Spec /\ Fairness
-----------------------------------------------------------------------------
(* Properties. *)

\* Types; and the receiver never takes or gives back more than was written.
TypeOK ==
  /\ environment \in Environments
  /\ socket_type \in {"TCP", "WS"}
  /\ is_ws_shake \in BOOLEAN
  /\ sent \in Seq([first : Nat, len : Lengths])
  /\ written \in Nat
  /\ base \in Int /\ recved \in Nat /\ base + recved <= written
  /\ long_pkg_size \in Nat
  /\ looping \in BOOLEAN
  /\ status \in {"open", "closing", "lost", "destroyed", "undefined"}
  /\ handled \in Seq([from : Int, to : Int])

\* As long as every package sent fits recv_buf, uv_alloc_buf never leaves the
\* buffer of a read unset, never copies past the end of long_pkg, and the loop
\* never looks at another buffer than the bytes were read into.
DefinedWhilePackagesFit ==
  (\A k \in DOMAIN sent : PackageSize(sent[k].len) <= RECV_LEN) => status # "undefined"

\* What the loop hands to on_recv_client_command, over any split of the
\* stream, are the commands that were sent: each whole, once and in order.
Body(k) == [from |-> sent[k].first + HeadSize(sent[k].len), to |-> End(k)]
Stream == INSTANCE PackageStream WITH sent <- [k \in DOMAIN sent |-> Body(k)]
StreamImplemented == Stream!Spec

\* On a connection that stays up every package that fits is handled at last,
\* however the network splits the stream: the loop leaves no complete package
\* behind in the buffer.
FittingPackagesHandled ==
  \A k \in 1..MaxPackages :
    (environment = "sound" /\ k <= Len(sent)) ~> (k <= Len(handled))

\* netbus.cc:168 gives packages of more than RECV_LEN bytes a buffer of their
\* own, for them to be handled like any other.
LongPackagesHandled ==
  \A k \in 1..MaxPackages :
    (environment = "long" /\ k <= Len(sent)) ~> (k <= Len(handled))
=============================================================================
