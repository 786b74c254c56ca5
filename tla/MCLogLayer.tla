----------------------------- MODULE MCLogLayer -----------------------------
(* Model checking of LogLayer. *)
EXTENDS LogLayer
=============================================================================
