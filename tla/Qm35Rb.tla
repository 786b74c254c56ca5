------------------------------- MODULE Qm35Rb -------------------------------
(***************************************************************************)
(* The ring buffer of the firmware traces (qm35_rb.c): one writer, the log *)
(* layer, and one reader, the debugfs traces file, which compares the size *)
(* of the next entry with the caller's buffer before it takes the entry,   *)
(* and waits on debug->wq for one.  Every operation of the buffer runs     *)
(* under rb->lock, so it is one step; the wake-up of the reader is another.*)
(*                                                                         *)
(* The buffer is modelled byte by byte: an entry is a two-byte size and    *)
(* that many bytes of payload, size zero marks the end of a lap.  Every    *)
(* payload byte of the n-th entry pushed is n, which stands for its value. *)
(*                                                                         *)
(* rb_init does not clear the buffer, and the first rb_push reads the size *)
(* at its beginning.  Unless that is zero, the tails follow whatever       *)
(* kmalloc left, behind the head and out of the buffer, until the tail is  *)
(* back at an entry: the buffer is then settled.                           *)
(***************************************************************************)
EXTENDS Integers, Sequences

CONSTANTS
  Size,       \* rb->size
  Lens,       \* payload lengths the firmware sends
  Counts,     \* sizes of the buffer a caller reads into
  InitBufs,   \* what kmalloc may leave in the buffer
  Behind,     \* sizes that may be read behind the end of the buffer
  MaxPush,    \* bound: entries pushed in a behaviour
  MaxOffset   \* bound: how far a reader goes on behind the buffer

Byte == 0..255

HDR == 2      \* sizeof(rb_entry_size_t)

MaxSize == 65535   \* the largest rb_entry_size_t

\* The longest payload for which entry_size fits in rb_entry_size_t.
MaxLen == MaxSize - HDR

ASSUME RbAssumption ==
  /\ Size \in Nat /\ MaxPush \in Nat /\ MaxOffset \in Nat
  /\ Lens \subseteq 0..MaxLen /\ Lens # {}
  /\ Counts \subseteq Nat /\ Behind \subseteq 0..MaxSize
  /\ \A n \in Lens : Size > 3 * (HDR + n) + HDR

ASSUME BytesAssumption == InitBufs \subseteq [0..(Size - 1) -> Byte]

VARIABLES
  buf,        \* rb->buf
  head, tail, rdtail,
  sizes,      \* history: payload length of every entry pushed
  rpc,        \* the reader: "closed", "open", in a "wait", or "peeked" a size
  count,      \* the size of its caller's buffer, while a read is under way
  woken,      \* the waiting reader is runnable
  wpc,        \* the writer: "idle", about to "wake" the reader, or "hung"
  got,        \* history: what the last rb_pop returned
  settled,    \* history: the tail owes nothing to what kmalloc left
  trusted     \* history: nor does rdtail, as of the last rb_reset

vars == <<buf, head, tail, rdtail, sizes, rpc, count, woken, wpc, got,
          settled, trusted>>

Nothing == [len |-> 0, data |-> <<>>]

-----------------------------------------------------------------------------
\* The size stored at offset t, little endian.
SizeAt(b, t) == b[t] + 256 * b[t + 1]

\* rb->buf with the bytes bs written from offset t on.
Write(b, t, bs) ==
  [i \in DOMAIN b |-> IF i \in t..(t + Len(bs) - 1) THEN bs[i - t + 1] ELSE b[i]]

Init ==
  /\ buf \in InitBufs
  /\ head = 0 /\ tail = 0 /\ rdtail = 0
  /\ sizes = <<>>
  /\ rpc = "closed" /\ count = 0 /\ woken = FALSE
  /\ wpc = "idle"
  /\ got = Nothing
  /\ settled = (SizeAt(buf, 0) = 0) /\ trusted = settled

\* Where __rb_next_size leaves the tail it is given: at the end marker it goes
\* back to the beginning.
NextTail(t) ==
  IF t # head /\ SizeAt(buf, t) = 0 /\ t # 0 THEN 0 ELSE t

\* __rb_next_size: zero when there is nothing to pop.
NextSize(t) == IF t = head THEN 0 ELSE SizeAt(buf, NextTail(t))

\* The tail and the size that __rb_next_size may find from a reader's tail t.
\* One that was led out of the buffer reads what is behind it.
Found(t) ==
  IF t + HDR <= Size
    THEN {[tail |-> NextTail(t), size |-> NextSize(t)]}
    ELSE {IF s = 0 THEN [tail |-> 0, size |-> SizeAt(buf, 0)]
                   ELSE [tail |-> t, size |-> s] : s \in Behind}

\* A byte that is not the buffer's, whatever it is.
Foreign == -1

\* The entry at offset u, with l bytes of payload.
EntryAt(u, l) ==
  [len |-> l,
   data |-> [i \in 1..l |-> IF u + HDR + i - 1 < Size THEN buf[u + HDR + i - 1]
                                                     ELSE Foreign]]

\* __rb_skip on buffer b: the tail past the oldest entry, or the tail itself
\* when there is none.
Skip_NoWrap(b, t) ==
  IF SizeAt(b, t) = 0 THEN t ELSE t + HDR + SizeAt(b, t)

Skip(b, t) ==
  IF SizeAt(b, t) = 0
    THEN IF t = 0 THEN t ELSE HDR + SizeAt(b, 0)
    ELSE t + HDR + SizeAt(b, t)

\* The tail t is in the way of a new entry of n bytes at h, and there is an
\* entry to skip: the loop of rb_push goes on.
InTheWay(b, h, n, t) ==
  h <= t /\ h + n >= t /\ ~(t = 0 /\ SizeAt(b, t) = 0)

\* One round of the loop, on the two tails s.  Two tails that are together
\* move together.
RoomStep_TailOnly(b, h, n, s) ==
  IF InTheWay(b, h, n, s[1]) THEN <<Skip(b, s[1]), s[2]>> ELSE s

RoomStep(b, h, n, s) ==
  IF InTheWay(b, h, n, s[1])
    THEN LET v == Skip(b, s[1]) IN <<v, IF s[1] = s[2] THEN v ELSE s[2]>>
    ELSE s

\* The loop that moves the tails t and rt out of the way of the new entry.  A
\* round moves the tail on, or from a size zero to one and the same offset:
\* what is in the way after Size rounds is so for ever.
MakeRoom(b, h, t, rt, n) ==
  LET loop[k \in 0..Size] ==
        IF k = 0 THEN <<t, rt>> ELSE RoomStep(b, h, n, loop[k - 1])
  IN  loop[Size]

\* rb_push of an entry with l bytes of payload: whether it begins a new lap,
\* the buffer with the end marker, the offset of the entry, and the tails.
Wraps_OffByOne(l) == Size - head <= HDR + l

Wraps(l) == Size - head <= (HDR + l) + HDR

Marked(l) == IF Wraps(l) THEN Write(buf, head, <<0, 0>>) ELSE buf

NewAt(l) == IF Wraps(l) THEN 0 ELSE head

Room(l) ==
  MakeRoom(Marked(l), NewAt(l),
           IF Wraps(l) /\ tail >= head THEN 0 ELSE tail,
           IF Wraps(l) /\ rdtail >= head THEN 0 ELSE rdtail, HDR + l)

LoopEnds(l) == ~InTheWay(Marked(l), NewAt(l), HDR + l, Room(l)[1])

rb_push(l) ==
  /\ l # 0
  /\ wpc = "idle"
  /\ Len(sizes) < MaxPush
  /\ LoopEnds(l)
  /\ buf' = Write(Marked(l), NewAt(l),
                  <<l % 256, l \div 256>> \o [i \in 1..l |-> Len(sizes) + 1])
  /\ head' = NewAt(l) + (HDR + l)
  /\ tail' = Room(l)[1]
  /\ rdtail' = Room(l)[2]
  /\ sizes' = Append(sizes, l)
  /\ wpc' = "wake"
  /\ settled' = (settled \/ Wraps(l) \/ tail' < head')
  /\ UNCHANGED <<rpc, count, woken, got, trusted>>

\* The loop of rb_push does not end: the thread keeps rb->lock for good.
rb_push_hang(l) ==
  /\ l # 0
  /\ wpc = "idle"
  /\ Len(sizes) < MaxPush
  /\ ~LoopEnds(l)
  /\ wpc' = "hung"
  /\ UNCHANGED <<buf, head, tail, rdtail, sizes, rpc, count, woken, got,
                 settled, trusted>>

\* debug_new_trace_available, after every rb_push of log_received.
debug_new_trace_available_NoWake ==
  /\ wpc = "wake"
  /\ wpc' = "idle"
  /\ UNCHANGED <<buf, head, tail, rdtail, sizes, rpc, count, woken, got,
                 settled, trusted>>

debug_new_trace_available ==
  /\ wpc = "wake"
  /\ wpc' = "idle"
  /\ woken' = (woken \/ rpc = "wait")
  /\ UNCHANGED <<buf, head, tail, rdtail, sizes, rpc, count, got,
                 settled, trusted>>

\* The lock of the buffer can be had.
Unlocked == wpc # "hung"

\* debug_traces_open: rb_reset gives the reader everything that is left.
rb_reset ==
  /\ rpc = "closed" /\ Unlocked
  /\ rdtail' = tail
  /\ rpc' = "open"
  /\ got' = Nothing
  /\ trusted' = settled
  /\ UNCHANGED <<buf, head, tail, sizes, count, woken, wpc, settled>>

\* debug_traces_read was told size s: the caller's c bytes are too few
\* (-EMSGSIZE, and the entry stays), or it goes on to rb_pop.
Compare_Unchecked(s, c) == rpc' = "peeked" /\ count' = c

Compare(s, c) ==
  IF s > c THEN rpc' = "open" /\ count' = 0
           ELSE rpc' = "peeked" /\ count' = c

\* rb_next_size: the first half of debug_traces_read.  Without an entry a
\* non-blocking read returns and a blocking one goes to its wait.
rb_next_size(c) ==
  /\ rpc = "open" /\ Unlocked
  /\ \E x \in Found(rdtail) :
       /\ rdtail' = x.tail
       /\ \/ x.size # 0 /\ Compare(x.size, c) /\ UNCHANGED woken
          \/ x.size = 0 /\ UNCHANGED <<rpc, count, woken>>
          \/ x.size = 0 /\ rpc' = "wait" /\ count' = c /\ woken' = TRUE
  /\ UNCHANGED <<buf, head, tail, sizes, wpc, got, settled, trusted>>

\* wait_event_interruptible: in the queue, the reader looks again, and sleeps
\* if there is still nothing.
debug_traces_wait ==
  /\ rpc = "wait" /\ woken /\ Unlocked
  /\ \E x \in Found(rdtail) :
       /\ rdtail' = x.tail
       /\ IF x.size = 0 THEN UNCHANGED <<rpc, count>> ELSE Compare(x.size, count)
  /\ woken' = FALSE
  /\ UNCHANGED <<buf, head, tail, sizes, wpc, got, settled, trusted>>

\* A signal ends the wait, and the read if one more look finds nothing.
debug_traces_signal ==
  /\ rpc = "wait" /\ Unlocked
  /\ \E x \in Found(rdtail) :
       /\ rdtail' = x.tail
       /\ IF x.size = 0 THEN rpc' = "open" /\ count' = 0
                        ELSE Compare(x.size, count)
  /\ woken' = FALSE
  /\ UNCHANGED <<buf, head, tail, sizes, wpc, got, settled, trusted>>

\* rb_pop: the second half takes what is next now, and all of it is copied to
\* the caller, whose buffer was only compared with what was next then.
rb_pop ==
  /\ rpc = "peeked" /\ Unlocked
  /\ \E x \in Found(rdtail) :
       LET t == x.tail
           l == x.size
       IN  /\ got' = IF l = 0 THEN Nothing ELSE EntryAt(t, l)
           /\ rdtail' = IF l = 0 THEN t ELSE t + HDR + l
           /\ rdtail' <= MaxOffset
  /\ rpc' = "open" /\ count' = 0
  /\ UNCHANGED <<buf, head, tail, sizes, woken, wpc, settled, trusted>>

debug_traces_release ==
  /\ rpc = "open"
  /\ rpc' = "closed"
  /\ UNCHANGED <<buf, head, tail, rdtail, sizes, count, woken, wpc, got,
                 settled, trusted>>

Next ==
  \/ \E l \in Lens : rb_push(l) \/ rb_push_hang(l)
  \/ debug_new_trace_available
  \/ rb_reset \/ (\E c \in Counts : rb_next_size(c)) \/ debug_traces_wait
  \/ debug_traces_signal \/ rb_pop \/ debug_traces_release

Spec == Init /\ [][Next]_vars

\* The thread goes on from rb_push to the wake-up; a runnable reader runs.
FairSpec ==
  Spec /\ WF_vars(debug_new_trace_available) /\ WF_vars(debug_traces_wait)

-----------------------------------------------------------------------------
\* For every offset of a reader: the size of the entry that is next, the entry,
\* and the offset after it.
SizeFrom == [u \in 0..Size |-> NextSize(u)]

EntryFrom == [u \in 0..Size |-> EntryAt(NextTail(u), NextSize(u))]

After ==
  [u \in 0..Size |->
     LET v == NextTail(u) + HDR + NextSize(u)
     IN  IF NextSize(u) = 0 THEN u ELSE IF v <= Size THEN v ELSE head]

\* The offsets of a reader that starts at offset t and takes entry by entry.
Offsets(t) ==
  LET at[k \in 0..Size] == IF k = 0 THEN t ELSE After[at[k - 1]]
  IN  at

\* What it finds until there is nothing more: the entries from t to the head.
Entries(t) ==
  LET at == Offsets(t)
      n  == CHOOSE m \in 0..Size :
              /\ m = Size \/ SizeFrom[at[m]] = 0
              /\ m = 0 \/ SizeFrom[at[m - 1]] # 0
  IN  [i \in 1..n |-> EntryFrom[at[i - 1]]]

\* The n-th entry, of l bytes, and the n-th entry pushed.
EntryOf(n, l) == [len |-> l, data |-> [i \in 1..l |-> n]]

Pushed(n) == EntryOf(n, sizes[n])

\* es is the last entries pushed, in order.
IsSuffix(es) ==
  /\ Len(es) <= Len(sizes)
  /\ \A i \in DOMAIN es : es[i] = Pushed(Len(sizes) - Len(es) + i)

\* The offset from which the entries in the buffer are found: the tail, or the
\* beginning of the first lap while the tail is not settled.
Oldest == IF settled THEN tail ELSE 0

\* The head is where a size can be read; so is the tail once it is settled,
\* and the reader of a file that was opened since.
TypeOK ==
  /\ DOMAIN buf = 0..(Size - 1)
  /\ head \in 0..(Size - HDR)
  /\ tail \in Nat /\ (settled => tail <= Size - HDR)
  /\ rdtail \in Nat /\ (trusted => rdtail <= Size - HDR)
  /\ rpc \in {"closed", "open", "wait", "peeked"}
  /\ count \in Counts \cup {0}
  /\ woken \in BOOLEAN /\ (woken => rpc = "wait")
  /\ wpc \in {"idle", "wake", "hung"}
  /\ settled \in BOOLEAN /\ trusted \in BOOLEAN /\ (trusted => settled)

\* From the tail to the head the buffer holds the newest entries, whole and in
\* order, and always the last one pushed, however often it has wrapped: no
\* entry is overwritten that the tail still counts, and the loop of rb_push
\* ends.  What kmalloc left in the buffer can spoil this in the first lap
\* only: while the tail is not settled everything that was pushed is still
\* there from offset 0 on, and the tail has gone past it.
BufferIsNewest ==
  LET es == Entries(Oldest)
  IN  /\ IsSuffix(es) /\ (sizes # <<>> => es # <<>>)
      /\ settled => wpc # "hung"
      /\ ~settled => Len(es) = Len(sizes) /\ (sizes # <<>> => tail > head)

\* The log that the buffer implements: its oldest entry and the reader's next
\* one are what is found from the two tails on, once these can be trusted.
Log ==
  INSTANCE TraceLog WITH
    Entry   <- EntryOf,
    first   <- IF settled THEN Len(sizes) - Len(Entries(tail)) + 1 ELSE 0,
    next    <- IF trusted THEN Len(sizes) - Len(Entries(rdtail)) + 1 ELSE 0,
    reader  <- IF rpc = "wait" THEN "open" ELSE rpc,
    count   <- IF rpc = "peeked" THEN count ELSE 0

\* The ring buffer implements the log of module TraceLog: a reader gets whole
\* entries in the order they were pushed from where it is, the newest is
\* always kept and ahead of it, and a read whose buffer is too small for the
\* entry is refused.  Between the two halves of debug_traces_read the writer
\* may overwrite the entry whose size was compared, and the reader is then
\* given another one, whatever its size, but never none (a read of 0 is end
\* of file).  All this from the first rb_reset on that finds the tail
\* settled.
ImplementsTraceLog == Log!Spec

\* A reader of the traces file that waits while an entry is ahead of it gets
\* to run: the wake-up that follows every rb_push is not lost, wherever
\* between its looks the reader is.  The exception is the writer that hangs in
\* its loop: rb->lock is then never free again.
TraceReaderWakes ==
  (rpc = "wait" /\ \E x \in Found(rdtail) : x.size # 0)
    ~> (rpc # "wait" \/ wpc = "hung")

\* The entry the reader got last (0: none since it opened the file).
LastRead == IF got = Nothing THEN 0 ELSE got.data[1]

\* rb_push moves a tail "to point to the next log not overwritten": so what
\* is ahead of the reader has all that is newer than its last entry and still
\* kept (no entry is skipped), and nothing older (none is read twice).
ReaderFindsUnread ==
  rpc # "closed" /\ trusted =>
    LET ahead  == Len(Entries(rdtail))
        unread == Len(sizes) - LastRead
    IN  /\ ahead >= unread \/ ahead >= Len(Entries(tail))
        /\ ahead <= unread
=============================================================================
