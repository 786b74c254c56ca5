------------------------------ MODULE TraceLog ------------------------------
(***************************************************************************)
(* What the ring buffer of the firmware traces promises to the one reader  *)
(* of the debugfs traces file, without its bytes: a log whose oldest       *)
(* entries are dropped to make room for new ones.                          *)
(*                                                                         *)
(* Number 0 stands for no number: the buffer promises nothing about its    *)
(* oldest entry before it is settled, nor to a reader that came before.    *)
(***************************************************************************)
EXTENDS Naturals, Sequences

CONSTANTS
  Lens,         \* lengths of entries
  Counts,       \* sizes of a caller's buffer
  Entry(_, _),  \* Entry(n, l): the n-th entry, of l bytes
  Nothing       \* no entry

VARIABLES
  sizes,   \* length of every entry pushed
  first,   \* number of the oldest entry that is kept
  next,    \* number of the entry that is next for the reader
  reader,  \* the traces file: closed, open, or told the size of an entry
  count,   \* the size of the buffer in which that entry fits
  got      \* the entry read last

vars == <<sizes, first, next, reader, count, got>>

Init ==
  /\ sizes = <<>> /\ first \in {0, 1} /\ next = first
  /\ reader = "closed" /\ count = 0 /\ got = Nothing

\* A new entry is kept, and it is ahead of the reader.  It may push out older
\* ones.  A reader stays where it is or is moved to an entry that is kept:
\* not always to the one after its last (ReaderFindsUnread of Qm35Rb), nor,
\* when it was told a size already, to one that fits.
Push ==
  /\ \E l \in Lens \ {0} : sizes' = Append(sizes, l)
  /\ first' \in first..Len(sizes')
  /\ next' \in IF next = 0 THEN {0} ELSE {next} \cup (first'..Len(sizes'))
  /\ UNCHANGED <<reader, count, got>>

\* Opening the file starts at the oldest entry that is kept.
Open ==
  /\ reader = "closed"
  /\ reader' = "open"
  /\ next' = first
  /\ got' = Nothing
  /\ UNCHANGED <<sizes, first, count>>

\* A size is told when, and only when, there is an entry, and the read goes on
\* only with a buffer that is large enough for it.
Peek ==
  /\ reader = "open"
  /\ reader' = "peeked"
  /\ count' \in Counts
  /\ next # 0 => next <= Len(sizes) /\ sizes[next] <= count'
  /\ UNCHANGED <<sizes, first, next, got>>

\* A read that was told a size returns an entry, whole, and the next one.
Read ==
  /\ reader = "peeked" /\ next # 0 /\ next <= Len(sizes)
  /\ reader' = "open" /\ count' = 0
  /\ got' = Entry(next, sizes[next])
  /\ next' = next + 1
  /\ UNCHANGED <<sizes, first>>

\* What a reader gets that no promise was made to.
ReadJunk ==
  /\ reader = "peeked" /\ next = 0
  /\ reader' = "open" /\ count' = 0
  /\ UNCHANGED <<sizes, first, next>>

Close ==
  /\ reader = "open"
  /\ reader' = "closed"
  /\ UNCHANGED <<sizes, first, next, count, got>>

Next == Push \/ Open \/ Peek \/ Read \/ ReadJunk \/ Close

Spec == Init /\ [][Next]_vars
=============================================================================
