----------------------------- MODULE MCUciLayer -----------------------------
(* The UCI layer: the .cfg files choose the readers and writers. *)
EXTENDS UciLayer
=============================================================================
