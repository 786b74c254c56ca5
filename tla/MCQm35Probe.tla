---------------------------- MODULE MCQm35Probe ----------------------------
(* Probe, control calls and remove, on every kind of board. *)
EXTENDS Qm35Probe
=============================================================================
