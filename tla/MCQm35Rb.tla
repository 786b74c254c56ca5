------------------------------ MODULE MCQm35Rb ------------------------------
(* Model checking of Qm35Rb. *)
EXTENDS Qm35Rb

Filled(first, rest) ==
  [i \in 0..(Size - 1) |-> IF i = 0 THEN first ELSE IF i = 1 THEN 0 ELSE rest]

MCCleared == {Filled(0, 0)}

\* What kmalloc may leave: nothing; a first size of which the tail goes to the
\* middle of the buffer, where there are zeros (the loop of a later rb_push
\* finds the first entry again, or does not end) or sizes that lead out of it;
\* and a first size that leads out at once.
MCInitBufs == {Filled(0, 0), Filled(5, 0), Filled(2, 1), Filled(40, 0)}
=============================================================================
