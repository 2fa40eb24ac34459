----------------------------- MODULE MCFrameSync ----------------------------
(* A match of two seats for the model checker. *)
EXTENDS FrameSync

MCSeats == 1..2
=============================================================================
