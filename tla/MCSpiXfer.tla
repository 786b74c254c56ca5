----------------------------- MODULE MCSpiXfer -----------------------------
(* Model checking of SpiXfer. *)
EXTENDS SpiXfer
============================================================================
