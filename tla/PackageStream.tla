---------------------------- MODULE PackageStream ---------------------------
(***************************************************************************)
(* What the framing of a session promises: the packages one end sends are  *)
(* handed to the other end one at a time, each whole, each once, and in    *)
(* the order they were sent.  PackageFraming implements it.                *)
(***************************************************************************)
EXTENDS Naturals, Sequences

VARIABLES
  sent,                  \* the packages sent so far, each of them any value
  handled                \* the packages handed to the services so far

Init == sent = <<>> /\ handled = <<>>

Send ==
  /\ sent' # <<>>
  /\ sent' = Append(sent, sent'[Len(sent')])
  /\ UNCHANGED handled

Handle ==
  /\ Len(handled) < Len(sent)
  /\ handled' = Append(handled, sent[Len(handled) + 1])
  /\ UNCHANGED sent

Spec == Init /\ [][Send \/ Handle]_<<sent, handled>>
=============================================================================
