----------------------------- MODULE MCCoredump -----------------------------
(* The coredump layer with three dumps, one of them empty, and a checksum   *)
(* of two bits, so that it wraps: <<1, 3>> sums up to 0 and <<2, 1, 3>> to  *)
(* 2; each may be announced with the other's.                               *)
EXTENDS Coredump

MCDumps == {<<>>, <<1, 3>>, <<2, 1, 3>>}
MCCrcs  == {0, 2}
MCJunk  == -2
=============================================================================
