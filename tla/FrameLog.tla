------------------------------ MODULE FrameLog ------------------------------
(***************************************************************************)
(* What the frame synchronisation of a match promises, without a network:  *)
(* one shared log of logic frames, to which a frame is appended at each    *)
(* tick, and clients which each hold a prefix of that log.  A client gets  *)
(* frames only in the order of the log, never skips one and never sees a   *)
(* frame that differs from the one in the log, so two clients which        *)
(* replay what they hold compute the same game.                            *)
(*                                                                         *)
(* FrameSync, which models match_mgr.lua over UDP, implements it.          *)
(***************************************************************************)
EXTENDS Naturals, Sequences

CONSTANT Seats           \* the seats of the match, one client each

VARIABLES
  log,                   \* the frames of the match, in order
  view                   \* view[c]: the set of frames client c has applied

flVars == <<log, view>>

\* The first n frames of the log.
Prefix(n) == {log[i] : i \in 1..n}

Init ==
  /\ log = <<>>
  /\ view = [c \in Seats |-> {}]

\* The tick closes the current frame; the frame carries its own number and
\* only operations its players meant for it.
Publish ==
  /\ Len(log') = Len(log) + 1
  /\ LET f == log'[Len(log) + 1]
     IN  /\ log' = Append(log, f)
         /\ f.frameid = Len(log) + 1
         /\ \A k \in 1..Len(f.opts) : f.opts[k].frame = f.frameid
  /\ UNCHANGED view

\* A client moves from the prefix it holds to a longer one.
Advance(c) ==
  /\ \E n \in 1..Len(log) :
       /\ view[c] \subseteq Prefix(n)
       /\ view' = [view EXCEPT ![c] = Prefix(n)]
  /\ UNCHANGED log

Next == Publish \/ \E c \in Seats : Advance(c)

Spec == Init /\ [][Next]_flVars
=============================================================================
