---------------------------- MODULE MCQm35Driver ----------------------------
(* Device control, on every kind of board. *)
EXTENDS Qm35Driver
=============================================================================
