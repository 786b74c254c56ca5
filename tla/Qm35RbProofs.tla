---------------------------- MODULE Qm35RbProofs ----------------------------
(***************************************************************************)
(* Proofs about module Qm35Rb, for a buffer of any size that holds three   *)
(* entries, any lengths of entries and any number of them: the tails stay  *)
(* in the buffer, what is between the tail and the head is whole and the   *)
(* newest, and the buffer implements the log of module TraceLog.           *)
(*                                                                         *)
(* Nothing is assumed of what kmalloc leaves in the buffer: what the tails *)
(* make of it in the first lap is part of the invariant.                   *)
(***************************************************************************)
EXTENDS Qm35Rb, SequenceTheorems, WellFoundedInduction, TLAPS

-----------------------------------------------------------------------------
(***************************************************************************)
(* The inductive invariant.  The offsets of the entries are no variable of *)
(* the driver: the invariant says that there are some.  A lap is a run of  *)
(* entries, each of which begins where the one before it ends.  The        *)
(* current lap begins at offset 0 and ends at the head; what is left of    *)
(* the lap before it, if anything, lies behind the head and ends at the    *)
(* end marker.                                                             *)
(***************************************************************************)

N == Len(sizes)

\* The tails that count: while the tail is not settled nothing has been dropped
\* yet, and the entries are found from offset 0; a reader that cannot be
\* trusted is as good as one at the tail.
LogTail == Oldest

RdTail == IF trusted THEN rdtail ELSE LogTail

\* The k-th entry pushed is whole at offset o of b; sz has the sizes.
Stands(b, sz, o, k) ==
  /\ SizeAt(b, o) = sz[k]
  /\ \A i \in 1..sz[k] : b[o + HDR + i - 1] = k

\* The entries lo..(hi - 1) follow each other in b, at the offsets at[lo] to
\* at[hi - 1], and at[hi] is where the last one ends.
Lap(b, sz, at, lo, hi) ==
  /\ \A k \in lo..hi : at[k] \in Nat
  /\ \A j, k \in lo..hi : j <= k => at[j] + (k - j) <= at[k]
  /\ \A k \in lo..(hi - 1) :
       at[k + 1] = at[k] + HDR + sz[k] /\ Stands(b, sz, at[k], k)

\* The current lap: the entries from w on.
Current(at, w) ==
  /\ w \in 1..N
  /\ Lap(buf, sizes, at, w, N + 1)
  /\ at[w] = 0 /\ at[N + 1] = head

\* The tail is in the current lap, at entry f, which is one of the first two
\* (the loop of rb_push has gone past no more), and so is the reader, at entry
\* g.  It may have been left at offset 0 by the tail (ReaderFindsUnread).
Unwrapped(at, w, f, g) ==
  /\ Current(at, w)
  /\ f \in w..N /\ f <= w + 1 /\ LogTail = at[f]
  /\ g \in {w} \cup (f..(N + 1)) /\ RdTail = at[g]

\* The tail is in the lap before, at entry f or at the end marker, which that
\* lap had to have: the first entry of the current one did not fit.
Wrapped(at, old, w, f, g) ==
  /\ Current(at, w)
  /\ f \in 1..w /\ Lap(buf, sizes, old, f, w)
  /\ LogTail = old[f] /\ head < LogTail
  /\ SizeAt(buf, old[w]) = 0 /\ old[w] + HDR <= Size
  /\ Size <= old[w] + HDR + sizes[w] + HDR
  /\ \/ g \in f..w /\ RdTail = old[g]
     \/ g \in w..(N + 1) /\ RdTail = at[g]

\* Nothing was pushed yet.
Unused(f, g) ==
  /\ sizes = <<>> /\ f = 1 /\ g = 1
  /\ head = 0 /\ LogTail = 0 /\ RdTail = 0

\* f is the number of the oldest entry, g of the one that is next to be read.
Layout(f, g) ==
  \/ Unused(f, g)
  \/ \E at, w : Unwrapped(at, w, f, g)
  \/ \E at, old, w : Wrapped(at, old, w, f, g)

Types ==
  /\ DOMAIN buf = 0..(Size - 1) /\ \A i \in 0..(Size - 1) : buf[i] \in Nat
  /\ sizes \in Seq(Lens \ {0})
  /\ head \in Nat /\ head + HDR < Size

\* The parts of the state that the buffer's content does not depend on.
Control ==
  /\ rpc \in {"closed", "open", "wait", "peeked"}
  /\ count \in Counts \cup {0} /\ (rpc \in {"wait", "peeked"} => count \in Counts)
  /\ woken \in BOOLEAN /\ (woken => rpc = "wait")
  /\ wpc \in {"idle", "wake", "hung"}
  /\ settled \in BOOLEAN /\ trusted \in BOOLEAN /\ (trusted => settled)

\* What is left of the buffer's first content: it counts only until the tail is
\* settled.  Until then the tail is ahead of everything that was pushed.
Leftover ==
  /\ tail \in Nat /\ rdtail \in Nat
  /\ settled => wpc # "hung"
  /\ N = 0 => head = 0 /\ tail = 0 /\ (settled <=> SizeAt(buf, 0) = 0)
  /\ N # 0 /\ ~settled => tail > head

\* The reader that was told a size finds an entry, and nothing is dropped
\* before the tail is settled.
Numbers(f, g) ==
  /\ Layout(f, g)
  /\ rpc = "peeked" /\ trusted => g <= N
  /\ ~settled => f = 1

RbInv ==
  /\ Types /\ Control /\ Leftover
  /\ \E f, g \in Nat : Numbers(f, g)

-----------------------------------------------------------------------------
(***************************************************************************)
(* Induction, as a statement about sets of numbers.                        *)
(***************************************************************************)

\* Every non-empty set of naturals has a least element.
LEMMA LeastNatural ==
  ASSUME NEW T \in SUBSET Nat, T # {}
  PROVE  \E x \in T : \A y \in T : x <= y
<1>1. PICK x \in T : \A y \in T : ~(<<y, x>> \in OpToRel(<, Nat))
  BY NatLessThanWellFounded, WFMin
<1>2. \A y \in T : ~(y < x)
  BY <1>1 DEF OpToRel
<1>3. \A y \in T : x \in Nat /\ y \in Nat
  OBVIOUS
<1> QED BY <1>2, <1>3

\* A set that holds 0 and, with every n below m, also n + 1, holds all of
\* 0..m.
LEMMA UpTo ==
  ASSUME NEW m \in Nat, NEW P, 0 \in P,
         \A n \in 0..m : n < m /\ n \in P => n + 1 \in P
  PROVE  \A n \in 0..m : n \in P
<1> DEFINE T == {n \in 0..m : n \notin P}
<1> SUFFICES ASSUME T # {} PROVE FALSE
  OBVIOUS
<1>1. PICK x \in T : \A y \in T : x <= y
  <2>1. T \in SUBSET Nat
    OBVIOUS
  <2> HIDE DEF T
  <2> QED BY <2>1, LeastNatural
<1>2. x - 1 \in 0..m /\ x - 1 \notin T /\ x - 1 < m
  BY <1>1
<1> QED BY <1>1, <1>2

-----------------------------------------------------------------------------
(***************************************************************************)
(* The loop of rb_push.                                                    *)
(***************************************************************************)

\* r is the first m rounds of the loop.
Rounds(r, b, h, t, rt, n, m) ==
  r = [k \in 0..m |-> IF k = 0 THEN <<t, rt>> ELSE RoomStep(b, h, n, r[k - 1])]

\* The recursive definition of MakeRoom defines a function.
LEMMA MakeRoomDef ==
  ASSUME NEW b, NEW h, NEW t, NEW rt, NEW n
  PROVE  \E r : /\ Rounds(r, b, h, t, rt, n, Size)
                /\ MakeRoom(b, h, t, rt, n) = r[Size]
<1> DEFINE P == {m \in 0..Size : \E r : Rounds(r, b, h, t, rt, n, m)}
<1>0. Size \in Nat
  BY RbAssumption
<1>1. 0 \in P
  <2>1. Rounds([k \in 0..0 |-> <<t, rt>>], b, h, t, rt, n, 0)
    BY DEF Rounds
  <2> QED BY <1>0, <2>1
<1>2. ASSUME NEW m \in 0..Size, m < Size, m \in P
      PROVE  m + 1 \in P
  <2>1. PICK r : Rounds(r, b, h, t, rt, n, m)
    BY <1>2
  <2> DEFINE q == [k \in 0..(m + 1) |->
                     IF k = m + 1 THEN RoomStep(b, h, n, r[m]) ELSE r[k]]
  <2>2. \A k \in 0..m :
          r[k] = IF k = 0 THEN <<t, rt>> ELSE RoomStep(b, h, n, r[k - 1])
    BY <2>1 DEF Rounds
  <2>3. ASSUME NEW k \in 0..(m + 1)
        PROVE  q[k] = IF k = 0 THEN <<t, rt>> ELSE RoomStep(b, h, n, q[k - 1])
    <3>1. CASE k = m + 1
      <4>1. q[k] = RoomStep(b, h, n, r[m]) /\ q[k - 1] = r[m] /\ k # 0
        BY <1>0, <3>1
      <4> QED BY <4>1
    <3>2. CASE k \in 0..m /\ k # 0
      <4>1. q[k] = r[k] /\ k - 1 \in 0..m /\ q[k - 1] = r[k - 1]
        BY <1>0, <3>2
      <4> QED BY <2>2, <3>2, <4>1
    <3>3. CASE k = 0
      BY <1>0, <2>2, <3>3
    <3> QED BY <1>0, <3>1, <3>2, <3>3
  <2>4. q = [k \in 0..(m + 1) |-> q[k]]
    OBVIOUS
  <2> HIDE DEF q
  <2>5. Rounds(q, b, h, t, rt, n, m + 1)
    BY <2>3, <2>4 DEF Rounds
  <2> QED BY <1>0, <1>2, <2>5
<1> HIDE DEF P
<1>3. Size \in P
  <2>1. \A k \in 0..Size : k \in P
    BY <1>0, <1>1, <1>2, UpTo
  <2> QED BY <1>0, <2>1
<1>4. \E r : Rounds(r, b, h, t, rt, n, Size)
  BY <1>3 DEF P
<1> DEFINE c == CHOOSE r : Rounds(r, b, h, t, rt, n, Size)
<1>5. MakeRoom(b, h, t, rt, n) = c[Size]
  BY DEF MakeRoom, Rounds
<1>6. Rounds(c, b, h, t, rt, n, Size)
  BY <1>4
<1> QED BY <1>5, <1>6

\* Where the loop may have brought two tails t and rt that were in, or the
\* second one before, the lap of entries f..(w - 1): the tail to entry j, and
\* the other one, if the tail met it, no less far.
Moved(s, old, w, j, t, rt) ==
  /\ s[1] = old[j]
  /\ rt < t => s[2] = rt
  /\ ~(rt < t) => \E g \in j..w : s[2] = old[g]

\* LogTail rt is in the lap, or at an offset before it.
Trails(rt, old, f, w) == rt < old[f] \/ \E g \in f..w : rt = old[g]

\* The tails r that the loop leaves: out of the way of the n bytes at h, or
\* past the first entry of the next lap, at nx.
RoomMade(r, old, f, w, h, n, rt, nx) ==
  \/ \E j \in f..w : h + n < old[j] /\ Moved(r, old, w, j, old[f], rt)
  \/ h + n >= old[w] /\ r = <<nx, IF rt < old[f] THEN rt ELSE nx>>

\* What the loop of rb_push does to tails in a lap that ends with the marker:
\* the tail goes on to the first entry, or to the marker, that the new entry
\* of n bytes at h leaves alone.  Where not even the marker is out of the way
\* it goes past the first entry of the next lap.
LEMMA MakeRoomFacts ==
  ASSUME NEW b, NEW sz, NEW old, NEW h \in Nat, NEW n \in Nat,
         NEW f \in Nat, NEW w \in Nat, f <= w,
         Lap(b, sz, old, f, w),
         \A k \in f..(w - 1) : sz[k] \in Nat \ {0},
         SizeAt(b, old[w]) = 0, old[w] # 0, old[w] < Size,
         h <= old[f],
         NEW rt \in Nat, Trails(rt, old, f, w),
         NEW nx, nx = HDR + SizeAt(b, 0),
         h + n >= old[w] => nx \in Nat /\ nx < h,
         NEW r, r = MakeRoom(b, h, old[f], rt, n)
  PROVE  RoomMade(r, old, f, w, h, n, rt, nx)
<1> DEFINE t == old[f]
           away == <<nx, IF rt < t THEN rt ELSE nx>>
           Ok(s, k) ==
             \/ \E j \in f..w : /\ h + n < old[j] \/ k <= old[j]
                                /\ Moved(s, old, w, j, t, rt)
             \/ h + n >= old[w] /\ s = away
<1>0. /\ Size \in Nat /\ f \in f..w /\ w \in f..w
      /\ \A k \in f..w : k \in Nat /\ old[k] \in Nat
      /\ \A j, k \in f..w : j < k => old[j] < old[k]
  <2>1. /\ \A k \in f..w : k \in Nat /\ old[k] \in Nat
        /\ \A j, k \in f..w : j <= k => old[j] + (k - j) <= old[k]
    BY DEF Lap
  <2>2. ASSUME NEW j \in f..w, NEW k \in f..w, j < k
        PROVE  old[j] < old[k]
    <3>1. old[j] + (k - j) <= old[k] /\ j \in Nat /\ k \in Nat
          /\ old[j] \in Nat /\ old[k] \in Nat
      BY <2>1, <2>2
    <3> QED BY <2>2, <3>1
  <2> QED BY <2>1, <2>2, RbAssumption
<1>1. PICK q : /\ Rounds(q, b, h, t, rt, n, Size)
               /\ MakeRoom(b, h, t, rt, n) = q[Size]
  BY MakeRoomDef
<1>2. /\ q[0] = <<t, rt>>
      /\ \A k \in 0..Size : k < Size => q[k + 1] = RoomStep(b, h, n, q[k])
  <2>1. \A k \in 0..Size :
          q[k] = IF k = 0 THEN <<t, rt>> ELSE RoomStep(b, h, n, q[k - 1])
    BY <1>1 DEF Rounds
  <2>2. ASSUME NEW k \in 0..Size, k < Size
        PROVE  q[k + 1] = RoomStep(b, h, n, q[k])
    <3>1. k + 1 \in 0..Size /\ k + 1 # 0 /\ (k + 1) - 1 = k
      BY <1>0, <2>2
    <3> QED BY <2>1, <3>1
  <2> QED BY <1>0, <2>1, <2>2
<1> DEFINE P == {k \in 0..Size : Ok(q[k], k)}
<1>3. 0 \in P
  <2>1. Moved(<<t, rt>>, old, w, f, t, rt)
    BY <1>0 DEF Moved, Trails
  <2>2. Ok(<<t, rt>>, 0)
    BY <1>0, <2>1
  <2> QED BY <1>0, <1>2, <2>2
<1>4. ASSUME NEW k \in 0..Size, k < Size, k \in P
      PROVE  k + 1 \in P
  <2> DEFINE s == q[k]
             v == Skip(b, s[1])
  <2>1. k + 1 \in 0..Size /\ Ok(s, k) /\ q[k + 1] = RoomStep(b, h, n, s)
    BY <1>0, <1>2, <1>4
  <2> HIDE DEF s
  <2>2. CASE h + n >= old[w] /\ s = away
    <3>1. s[1] = nx /\ ~(h <= s[1])
      BY <1>0, <2>2
    <3>2. RoomStep(b, h, n, s) = s
      BY <3>1 DEF RoomStep, InTheWay
    <3> QED BY <2>1, <2>2, <3>2
  <2>3. ASSUME NEW j \in f..w, h + n < old[j] \/ k <= old[j],
               Moved(s, old, w, j, t, rt)
        PROVE  k + 1 \in P
    <3>0. /\ s[1] = old[j] /\ old[j] \in Nat /\ j \in Nat
          /\ t \in Nat /\ t <= old[j] /\ h <= s[1]
      BY <1>0, <2>3 DEF Moved
    <3>1. CASE h + n < old[j]
      <4>1. ~(h + n >= s[1])
        BY <3>0, <3>1
      <4>2. RoomStep(b, h, n, s) = s
        BY <4>1 DEF RoomStep, InTheWay
      <4> QED BY <2>1, <2>3, <3>1, <4>2
    <3>2. CASE h + n >= old[j] /\ j < w
      <4>1. /\ j \in f..(w - 1) /\ j + 1 \in f..w
            /\ old[j + 1] = old[j] + HDR + sz[j] /\ SizeAt(b, old[j]) = sz[j]
            /\ sz[j] \in Nat \ {0}
        BY <1>0, <3>2 DEF Lap, Stands
      <4>2. v = old[j + 1] /\ v # s[1]
        BY <1>0, <3>0, <4>1 DEF Skip, HDR
      <4>3. RoomStep(b, h, n, s) = <<v, IF s[1] = s[2] THEN v ELSE s[2]>>
        BY <3>0, <3>2, <4>1 DEF RoomStep, InTheWay
      <4>4. Moved(RoomStep(b, h, n, s), old, w, j + 1, t, rt)
        <5>1. ASSUME rt < t PROVE s[2] = rt /\ s[1] # s[2]
          BY <2>3, <3>0, <5>1 DEF Moved
        <5>2. ASSUME ~(rt < t), s[1] # s[2]
              PROVE  \E g \in (j + 1)..w : s[2] = old[g]
          <6>1. PICK g \in j..w : s[2] = old[g]
            BY <2>3, <5>2 DEF Moved
          <6>2. g # j
            BY <3>0, <5>2, <6>1
          <6>3. g \in (j + 1)..w
            BY <3>0, <6>2
          <6> QED BY <6>1, <6>3
        <5>3. j + 1 \in (j + 1)..w
          BY <3>0, <4>1
        <5> HIDE DEF v, t
        <5> QED BY <4>2, <4>3, <5>1, <5>2, <5>3 DEF Moved
      <4>5. k + 1 <= old[j + 1]
        BY <1>0, <2>3, <3>0, <3>2, <4>1 DEF HDR
      <4> QED BY <2>1, <4>1, <4>4, <4>5
    <3>3. CASE h + n >= old[j] /\ j = w
      <4>1. v = nx /\ s[1] # 0
        BY <3>0, <3>3 DEF Skip
      <4>2. RoomStep(b, h, n, s) = <<v, IF s[1] = s[2] THEN v ELSE s[2]>>
        BY <3>0, <3>3, <4>1 DEF RoomStep, InTheWay
      <4>3. IF rt < t THEN s[2] = rt /\ s[1] # s[2] ELSE s[1] = s[2]
        <5>1. CASE rt < t
          BY <2>3, <3>0, <5>1 DEF Moved
        <5>2. CASE ~(rt < t)
          <6>1. PICK g \in j..w : s[2] = old[g]
            BY <2>3, <5>2 DEF Moved
          <6>2. g = j
            BY <3>0, <3>3
          <6> QED BY <3>0, <5>2, <6>1, <6>2
        <5> QED BY <5>1, <5>2
      <4>4. RoomStep(b, h, n, s) = away
        <5> HIDE DEF v, t
        <5> QED BY <4>1, <4>2, <4>3
      <4> QED BY <2>1, <3>3, <4>4
    <3> QED BY <1>0, <3>0, <3>1, <3>2, <3>3
  <2> HIDE DEF P
  <2> QED BY <2>1, <2>2, <2>3
<1> HIDE DEF P
<1>5. Size \in P
  <2>1. \A k \in 0..Size : k \in P
    BY <1>0, <1>3, <1>4, UpTo
  <2> QED BY <1>0, <2>1
<1>6. Ok(r, Size)
  BY <1>1, <1>5 DEF P
<1>7. ASSUME NEW j \in f..w PROVE old[j] < Size
  BY <1>0
<1>8. ASSUME NEW j \in f..w, h + n < old[j] \/ Size <= old[j]
      PROVE  h + n < old[j]
  BY <1>0, <1>7, <1>8
<1> HIDE DEF t
<1> QED BY <1>6, <1>8 DEF t, RoomMade

-----------------------------------------------------------------------------
(***************************************************************************)
(* What a reader finds.                                                    *)
(***************************************************************************)

\* The values that function A has when it is applied to t again and again.
Iter(at, A, t, n) == at = [k \in 0..n |-> IF k = 0 THEN t ELSE A[at[k - 1]]]

LEMMA Iterates ==
  ASSUME NEW A, NEW t, NEW m \in Nat
  PROVE  \E at : Iter(at, A, t, m)
<1> DEFINE P == {n \in 0..m : \E at : Iter(at, A, t, n)}
<1>1. 0 \in P
  <2>1. Iter([k \in 0..0 |-> t], A, t, 0)
    BY DEF Iter
  <2> QED BY <2>1
<1>2. ASSUME NEW n \in 0..m, n < m, n \in P
      PROVE  n + 1 \in P
  <2>1. PICK at : Iter(at, A, t, n)
    BY <1>2
  <2> DEFINE q == [k \in 0..(n + 1) |-> IF k = n + 1 THEN A[at[n]] ELSE at[k]]
  <2>2. \A k \in 0..n : at[k] = IF k = 0 THEN t ELSE A[at[k - 1]]
    BY <2>1 DEF Iter
  <2>3. ASSUME NEW k \in 0..(n + 1)
        PROVE  q[k] = IF k = 0 THEN t ELSE A[q[k - 1]]
    <3>1. CASE k = n + 1
      <4>1. q[k] = A[at[n]] /\ q[k - 1] = at[n] /\ k # 0
        BY <3>1
      <4> QED BY <4>1
    <3>2. CASE k \in 0..n /\ k # 0
      <4>1. q[k] = at[k] /\ k - 1 \in 0..n /\ q[k - 1] = at[k - 1]
        BY <3>2
      <4> QED BY <2>2, <3>2, <4>1
    <3>3. CASE k = 0
      BY <2>2, <3>3
    <3> QED BY <3>1, <3>2, <3>3
  <2>4. q = [k \in 0..(n + 1) |-> q[k]]
    OBVIOUS
  <2> HIDE DEF q
  <2>5. Iter(q, A, t, n + 1)
    BY <2>3, <2>4 DEF Iter
  <2> QED BY <1>2, <2>5
<1> HIDE DEF P
<1>3. \A k \in 0..m : k \in P
  BY <1>1, <1>2, UpTo
<1> QED BY <1>3 DEF P

\* The offsets of a reader, one after the other.
LEMMA OffsetsAre ==
  ASSUME NEW t
  PROVE  /\ Offsets(t)[0] = t
         /\ \A k \in 1..Size : Offsets(t)[k] = After[Offsets(t)[k - 1]]
<1> DEFINE A == After
           o == CHOOSE at : Iter(at, A, t, Size)
<1>1. Size \in Nat
  BY RbAssumption
<1>2. Offsets(t) = o
  BY DEF Offsets, Iter
<1> HIDE DEF A
<1>3. \E at : Iter(at, A, t, Size)
  BY <1>1, Iterates
<1>4. Iter(o, A, t, Size)
  BY <1>3
<1> HIDE DEF o
<1>5. \A k \in 0..Size : o[k] = IF k = 0 THEN t ELSE A[o[k - 1]]
  BY <1>4 DEF Iter
<1>6. o[0] = t /\ \A k \in 1..Size : o[k] = A[o[k - 1]]
  BY <1>1, <1>5
<1> QED BY <1>2, <1>6 DEF A

\* The entries pushed, from the k-th on.
From(k) == [i \in 1..(N + 1 - k) |-> Pushed(k + i - 1)]

\* A reader that is at offset ps[k] for entry k finds the entries from its
\* first on, and all of them.
LEMMA ReaderFinds ==
  ASSUME NEW ps, N \in Nat, NEW g \in 1..(N + 1), N + 1 - g <= Size,
         ps[N + 1] = head,
         \A k \in g..(N + 1) : ps[k] \in 0..Size,
         \A k \in g..N : /\ NextSize(ps[k]) # 0
                         /\ After[ps[k]] = ps[k + 1]
                         /\ EntryFrom[ps[k]] = Pushed(k)
  PROVE  Entries(ps[g]) = From(g)
<1> DEFINE at == Offsets(ps[g])
           M == N + 1 - g
           Num(i) == IF i <= M THEN g + i ELSE N + 1
<1>s. Size \in Nat
  BY RbAssumption
<1>0. Size \in Nat /\ g \in Nat /\ M \in Nat /\ M <= Size
  BY <1>s
<1>1. at[0] = ps[g] /\ \A k \in 1..Size : at[k] = After[at[k - 1]]
  BY OffsetsAre
<1>2. /\ NextSize(head) = 0 /\ head \in 0..Size
      /\ After[head] = head /\ SizeFrom[head] = 0
  <2>1. NextSize(head) = 0 /\ head \in 0..Size
    BY DEF NextSize
  <2> QED BY <2>1 DEF After, SizeFrom
<1>3. ASSUME NEW k \in g..N PROVE SizeFrom[ps[k]] # 0
  <2>1. ps[k] \in 0..Size /\ NextSize(ps[k]) # 0
    BY <1>0
  <2> QED BY <2>1 DEF SizeFrom
<1> HIDE DEF at
<1>4. \A i \in 0..Size : at[i] = ps[Num(i)]
  <2> DEFINE P == {i \in 0..Size : at[i] = ps[Num(i)]}
  <2>1. 0 \in P
    BY <1>0, <1>1
  <2>2. ASSUME NEW i \in 0..Size, i < Size, i \in P
        PROVE  i + 1 \in P
    <3>1. /\ i + 1 \in 1..Size /\ i + 1 \in 0..Size /\ (i + 1) - 1 = i
          /\ at[i] = ps[Num(i)]
      BY <1>0, <2>2
    <3>2. at[i + 1] = After[ps[Num(i)]]
      BY <1>1, <3>1
    <3>3. CASE i < M
      <4>1. Num(i) = g + i /\ Num(i) \in g..N /\ Num(i + 1) = Num(i) + 1
        BY <1>0, <3>3
      <4> HIDE DEF Num
      <4> QED BY <3>1, <3>2, <4>1
    <3>4. CASE ~(i < M)
      <4>1. Num(i) = N + 1 /\ Num(i + 1) = N + 1
        BY <1>0, <3>4
      <4> HIDE DEF Num
      <4> QED BY <1>2, <3>1, <3>2, <4>1
    <3> QED BY <3>3, <3>4
  <2> HIDE DEF P
  <2>3. \A i \in 0..Size : i \in P
    BY <1>0, <2>1, <2>2, UpTo
  <2> QED BY <2>3 DEF P
<1> DEFINE Last(m) == /\ m = Size \/ SizeFrom[at[m]] = 0
                      /\ m = 0 \/ SizeFrom[at[m - 1]] # 0
           n == CHOOSE m \in 0..Size : Last(m)
<1>5. M \in 0..Size /\ Last(M)
  <2>1. at[M] = head
    BY <1>0, <1>4
  <2>2. M # 0 => at[M - 1] = ps[N] /\ N \in g..N
    BY <1>0, <1>4
  <2> QED BY <1>0, <1>2, <1>3, <2>1, <2>2
<1>6. ASSUME NEW m \in 0..Size, Last(m)
      PROVE  m = M
  <2>1. CASE m < M
    <3>1. at[m] = ps[g + m] /\ g + m \in g..N
      BY <1>0, <1>4, <2>1
    <3> QED BY <1>0, <1>3, <1>6, <2>1, <3>1
  <2>2. CASE m > M
    <3>1. m - 1 \in 0..Size /\ Num(m - 1) = N + 1 /\ m # 0
      BY <1>0, <2>2
    <3>2. at[m - 1] = head
      <4> HIDE DEF Num
      <4> QED BY <1>4, <3>1
    <3> QED BY <1>2, <1>6, <3>1, <3>2
  <2> QED BY <1>0, <2>1, <2>2
<1> HIDE DEF Last
<1>7. n = M
  BY <1>5, <1>6
<1>8. Entries(ps[g]) = [i \in 1..n |-> EntryFrom[at[i - 1]]]
  BY DEF Entries, at, Last
<1>9. ASSUME NEW i \in 1..M
      PROVE  EntryFrom[at[i - 1]] = Pushed(g + i - 1)
  <2>1. /\ i - 1 \in 0..Size /\ Num(i - 1) = g + i - 1 /\ g + i - 1 \in g..N
    BY <1>0
  <2> HIDE DEF Num
  <2> QED BY <1>4, <2>1
<1> HIDE DEF n
<1> QED BY <1>7, <1>8, <1>9 DEF From

LEMMA NumberTypes ==
  ASSUME Types
  PROVE  /\ N \in Nat /\ Size \in Nat
         /\ \A k \in 1..N : sizes[k] \in Nat \ {0} /\ sizes[k] \in Lens
         /\ \A l \in Lens : l \in Nat /\ Size > 3 * (HDR + l) + HDR
<1>1. N \in Nat /\ \A k \in 1..N : sizes[k] \in Lens \ {0}
  <2>1. sizes \in Seq(Lens \ {0})
    BY DEF Types
  <2> QED BY <2>1 DEF N
<1>2. Size \in Nat
  BY RbAssumption
<1>3. ASSUME NEW l \in Lens
      PROVE  l \in Nat /\ Size > 3 * (HDR + l) + HDR
  <2>1. /\ Lens \subseteq 0..MaxLen
        /\ \A n \in Lens : Size > 3 * (HDR + n) + HDR
    BY RbAssumption
  <2> QED BY <1>3, <2>1
<1> QED BY <1>1, <1>2, <1>3
\* What __rb_next_size and __rb_pop make of an entry that is whole at o.
Reads(o, q, k) ==
  /\ NextTail(o) = q /\ NextSize(o) = sizes[k] /\ sizes[k] # 0
  /\ EntryAt(q, sizes[k]) = Pushed(k)
  /\ After[o] = q + HDR + sizes[k]
  /\ EntryFrom[o] = Pushed(k)

LEMMA EntryReads ==
  ASSUME Types, NEW o \in 0..Size, NEW q \in Nat, NEW k \in 1..N,
         Stands(buf, sizes, q, k), q + HDR + sizes[k] <= Size,
         o # head, NextTail(o) = q
  PROVE  Reads(o, q, k)
<1>1. /\ N \in Nat /\ Size \in Nat /\ sizes[k] \in Nat \ {0}
  BY NumberTypes
<1>2. SizeAt(buf, q) = sizes[k]
  BY DEF Stands
<1>3. NextSize(o) = sizes[k]
  BY <1>2 DEF NextSize
<1>4. EntryAt(q, sizes[k]) = Pushed(k)
  <2>1. ASSUME NEW i \in 1..sizes[k]
        PROVE  q + HDR + i - 1 < Size /\ buf[q + HDR + i - 1] = k
    BY <1>1 DEF Stands, HDR
  <2> QED BY <2>1 DEF EntryAt, Pushed, EntryOf
<1>5. After[o] = q + HDR + sizes[k]
  <2>1. After[o] = LET v == NextTail(o) + HDR + NextSize(o)
                   IN IF NextSize(o) = 0 THEN o ELSE IF v <= Size THEN v ELSE head
    BY DEF After
  <2> QED BY <1>1, <1>3, <2>1
<1>6. EntryFrom[o] = Pushed(k)
  <2>1. EntryFrom[o] = EntryAt(NextTail(o), NextSize(o))
    BY DEF EntryFrom
  <2> QED BY <1>3, <1>4, <2>1
<1> QED BY <1>1, <1>3, <1>4, <1>5, <1>6 DEF Reads

\* The offsets of a lap grow.
LEMMA LapGrows ==
  ASSUME NEW b, NEW sz, NEW at, NEW lo \in Nat, NEW hi \in Nat,
         Lap(b, sz, at, lo, hi)
  PROVE  /\ \A k \in lo..hi : k \in Nat /\ at[k] \in Nat
         /\ \A j, k \in lo..hi : j < k => at[j] < at[k]
         /\ \A j, k \in lo..hi : j <= k => at[j] <= at[k]
<1>1. /\ \A k \in lo..hi : k \in Nat /\ at[k] \in Nat
      /\ \A j, k \in lo..hi : j <= k => at[j] + (k - j) <= at[k]
  BY DEF Lap
<1>2. ASSUME NEW j \in lo..hi, NEW k \in lo..hi, j <= k
      PROVE  at[j] <= at[k] /\ (j < k => at[j] < at[k])
  <2>1. at[j] + (k - j) <= at[k] /\ j \in Nat /\ k \in Nat
        /\ at[j] \in Nat /\ at[k] \in Nat
    BY <1>1, <1>2
  <2> QED BY <1>2, <2>1
<1> QED BY <1>1, <1>2

\* An entry of the current lap is found where it is.
LEMMA CurrentReads ==
  ASSUME Types, NEW at, NEW w, Current(at, w), NEW k \in w..N
  PROVE  /\ Reads(at[k], at[k], k)
         /\ at[k] \in 0..Size /\ at[k] # head /\ at[k + 1] = at[k] + HDR + sizes[k]
<1>1. /\ N \in Nat /\ Size \in Nat /\ w \in 1..N /\ w \in Nat /\ N + 1 \in Nat
      /\ k \in 1..N /\ sizes[k] \in Nat \ {0} /\ head \in Nat /\ head < Size
      /\ Lap(buf, sizes, at, w, N + 1) /\ at[N + 1] = head
  <2>1. N \in Nat /\ Size \in Nat /\ w \in 1..N
    BY NumberTypes DEF Current
  <2>2. k \in 1..N
    BY <2>1
  <2> QED BY <2>1, <2>2, NumberTypes DEF Current, Types, HDR
<1>2. /\ k \in w..(N + 1) /\ k + 1 \in w..(N + 1) /\ N + 1 \in w..(N + 1)
      /\ k < N + 1 /\ k + 1 <= N + 1
  BY <1>1
<1>3. at[k] \in Nat /\ at[k + 1] \in Nat /\ at[k] < head /\ at[k + 1] <= head
  BY <1>1, <1>2, LapGrows
<1>4. /\ at[k + 1] = at[k] + HDR + sizes[k] /\ Stands(buf, sizes, at[k], k)
  BY <1>1 DEF Lap
<1>5. NextTail(at[k]) = at[k]
  BY <1>1, <1>4 DEF NextTail, Stands
<1>6. at[k] \in 0..Size /\ at[k] # head /\ at[k] + HDR + sizes[k] <= Size
  BY <1>1, <1>3, <1>4
<1> QED BY <1>1, <1>3, <1>4, <1>5, <1>6, EntryReads

\* The reader in the current lap.
LEMMA CurrentFinds ==
  ASSUME Types, NEW at, NEW w, Current(at, w), NEW g \in w..(N + 1)
  PROVE  Entries(at[g]) = From(g)
<1>1. /\ N \in Nat /\ Size \in Nat /\ w \in 1..N /\ w \in Nat /\ N + 1 \in Nat
      /\ head \in Nat /\ head < Size
      /\ Lap(buf, sizes, at, w, N + 1) /\ at[N + 1] = head
  BY NumberTypes DEF Current, Types, HDR
<1>2. \A k \in g..N : /\ NextSize(at[k]) # 0
                      /\ After[at[k]] = at[k + 1]
                      /\ EntryFrom[at[k]] = Pushed(k)
  <2>1. SUFFICES ASSUME NEW k \in g..N
                 PROVE  Reads(at[k], at[k], k)
                        /\ at[k + 1] = at[k] + HDR + sizes[k]
    BY DEF Reads
  <2>2. k \in w..N
    BY <1>1
  <2> QED BY <2>2, CurrentReads
<1>3. \A k \in g..(N + 1) : at[k] \in 0..Size
  <2>1. SUFFICES ASSUME NEW k \in g..(N + 1) PROVE at[k] \in 0..Size
    OBVIOUS
  <2>2. k \in w..(N + 1) /\ N + 1 \in w..(N + 1) /\ k <= N + 1
    BY <1>1
  <2>3. at[k] \in Nat /\ at[k] <= head
    BY <1>1, <2>2, LapGrows
  <2> QED BY <1>1, <2>3
<1>4. g \in 1..(N + 1) /\ N + 1 - g <= Size
  <2>1. g \in w..(N + 1) /\ N + 1 \in w..(N + 1) /\ g <= N + 1 /\ g \in Nat
    BY <1>1
  <2>2. at[g] + (N + 1 - g) <= at[N + 1] /\ at[g] \in Nat
    BY <1>1, <2>1 DEF Lap
  <2> QED BY <1>1, <2>1, <2>2
<1> QED BY <1>1, <1>2, <1>3, <1>4, ReaderFinds

\* The wrapped buffer: an entry of the lap before is found where it is, and at
\* the end marker the first entry of the current lap.
LEMMA OldReads ==
  ASSUME Types, NEW at, NEW old, NEW w, NEW f, NEW g, Wrapped(at, old, w, f, g),
         NEW k \in f..w
  PROVE  /\ old[k] \in 0..Size /\ old[k] # head
         /\ k < w => /\ Reads(old[k], old[k], k)
                     /\ old[k + 1] = old[k] + HDR + sizes[k]
         /\ k = w => /\ Reads(old[k], 0, k)
                     /\ at[k + 1] = HDR + sizes[k]
<1>1. /\ N \in Nat /\ Size \in Nat /\ w \in 1..N /\ w \in Nat /\ f \in 1..w
      /\ f \in Nat /\ Current(at, w) /\ at[w] = 0
      /\ head \in Nat /\ head < Size
      /\ Lap(buf, sizes, old, f, w) /\ head < old[f]
      /\ SizeAt(buf, old[w]) = 0 /\ old[w] + HDR <= Size
  BY NumberTypes DEF Wrapped, Current, Types, HDR
<1>2. k \in 1..N /\ k \in Nat /\ f \in f..w /\ w \in f..w /\ f <= k /\ k <= w
  BY <1>1
<1>3. /\ old[k] \in Nat /\ old[f] \in Nat /\ old[w] \in Nat
      /\ old[f] <= old[k] /\ old[k] <= old[w]
  BY <1>1, <1>2, LapGrows
<1>4. old[k] \in 0..Size /\ old[k] # head /\ old[k] # 0
  BY <1>1, <1>3 DEF HDR
<1>5. sizes[k] \in Nat \ {0}
  BY <1>2, NumberTypes
<1>6. ASSUME k < w
      PROVE  /\ Reads(old[k], old[k], k)
             /\ old[k + 1] = old[k] + HDR + sizes[k]
  <2>1. k \in f..(w - 1) /\ k + 1 \in f..w /\ k + 1 <= w
    BY <1>1, <1>2, <1>6
  <2>2. old[k + 1] = old[k] + HDR + sizes[k] /\ Stands(buf, sizes, old[k], k)
    BY <1>1, <2>1 DEF Lap
  <2>3. old[k + 1] \in Nat /\ old[k + 1] <= old[w]
    BY <1>1, <1>2, <2>1, LapGrows
  <2>4. NextTail(old[k]) = old[k]
    BY <1>5, <2>2 DEF NextTail, Stands
  <2>5. old[k] + HDR + sizes[k] <= Size
    BY <1>1, <1>3, <2>2, <2>3 DEF HDR
  <2> QED BY <1>2, <1>3, <1>4, <2>2, <2>4, <2>5, EntryReads
<1>7. ASSUME k = w
      PROVE  Reads(old[k], 0, k) /\ at[k + 1] = HDR + sizes[k]
  <2>1. k \in w..N /\ N + 1 \in w..(N + 1) /\ k + 1 \in w..(N + 1)
        /\ k + 1 <= N + 1 /\ N + 1 \in Nat
    BY <1>1, <1>2, <1>7
  <2>2. at[k + 1] = 0 + HDR + sizes[k] /\ Stands(buf, sizes, 0, k)
    BY <1>1, <1>7, <2>1 DEF Current, Lap
  <2>3. at[k + 1] \in Nat /\ at[k + 1] <= head
    BY <1>1, <2>1, LapGrows DEF Current
  <2>4. NextTail(old[k]) = 0
    BY <1>1, <1>4, <1>7 DEF NextTail
  <2>5. 0 + HDR + sizes[k] <= Size
    BY <1>1, <1>5, <2>2, <2>3 DEF HDR
  <2>6. Reads(old[k], 0, k)
    BY <1>2, <1>4, <2>2, <2>4, <2>5, EntryReads
  <2> QED BY <1>5, <2>2, <2>6 DEF HDR
<1> QED BY <1>4, <1>6, <1>7

\* The reader in the lap before.
LEMMA OldFinds ==
  ASSUME Types, NEW at, NEW old, NEW w, NEW f, NEW r, Wrapped(at, old, w, f, r),
         NEW g \in f..w
  PROVE  Entries(old[g]) = From(g)
<1>1. /\ N \in Nat /\ Size \in Nat /\ w \in 1..N /\ w \in Nat /\ f \in 1..w
      /\ f \in Nat /\ Current(at, w) /\ N + 1 \in Nat
      /\ head \in Nat /\ head < Size /\ at[w] = 0 /\ at[N + 1] = head
      /\ Lap(buf, sizes, at, w, N + 1)
      /\ Lap(buf, sizes, old, f, w) /\ head < old[f] /\ old[w] + HDR <= Size
  <2>1. N \in Nat /\ Size \in Nat /\ head \in Nat /\ head < Size
    BY NumberTypes DEF Types, HDR
  <2>2. /\ Current(at, w) /\ f \in 1..w /\ Lap(buf, sizes, old, f, w)
        /\ head < old[f] /\ old[w] + HDR <= Size
    BY DEF Wrapped
  <2>3. w \in 1..N /\ Lap(buf, sizes, at, w, N + 1) /\ at[w] = 0 /\ at[N + 1] = head
    BY <2>2 DEF Current
  <2> QED BY <2>1, <2>2, <2>3
<1> DEFINE ps == [k \in g..(N + 1) |-> IF k <= w THEN old[k] ELSE at[k]]
<1>2. g \in Nat /\ g <= w /\ g \in f..w /\ w \in f..w
  BY <1>1
<1>3. ASSUME NEW k \in g..N
      PROVE  /\ NextSize(ps[k]) # 0
             /\ After[ps[k]] = ps[k + 1]
             /\ EntryFrom[ps[k]] = Pushed(k)
  <2>1. k \in g..(N + 1) /\ k + 1 \in g..(N + 1) /\ k \in Nat
    BY <1>1, <1>2
  <2>2. CASE k < w
    <3>1. k \in f..w /\ ps[k] = old[k] /\ ps[k + 1] = old[k + 1]
      BY <1>1, <1>2, <2>1, <2>2
    <3> HIDE DEF ps
    <3> QED BY <2>2, <3>1, OldReads DEF Reads
  <2>3. CASE k = w
    <3>1. ps[k] = old[k] /\ ps[k + 1] = at[k + 1] /\ sizes[k] \in Nat
      BY <1>1, <1>2, <2>1, <2>3, NumberTypes
    <3>2. After[old[k]] = at[k + 1]
      <4>1. After[old[k]] = 0 + HDR + sizes[k] /\ at[k + 1] = HDR + sizes[k]
        BY <1>2, <2>3, OldReads DEF Reads
      <4> QED BY <3>1, <4>1 DEF HDR
    <3> HIDE DEF ps
    <3> QED BY <1>2, <2>3, <3>1, <3>2, OldReads DEF Reads
  <2>4. CASE k > w
    <3>1. k \in w..N /\ ps[k] = at[k] /\ ps[k + 1] = at[k + 1]
      BY <1>1, <1>2, <2>1, <2>4
    <3> HIDE DEF ps
    <3> QED BY <1>1, <3>1, CurrentReads DEF Reads
  <2> QED BY <1>1, <2>1, <2>2, <2>3, <2>4
<1>4. ASSUME NEW k \in g..(N + 1) PROVE ps[k] \in 0..Size
  <2>1. CASE k <= w
    <3>1. k \in f..w
      BY <1>1, <1>2, <2>1
    <3> QED BY <2>1, <3>1, OldReads
  <2>2. CASE ~(k <= w)
    <3>1. k \in w..(N + 1) /\ N + 1 \in w..(N + 1) /\ k <= N + 1
      BY <1>1, <1>2, <2>2
    <3>2. at[k] \in Nat /\ at[k] <= head
      BY <1>1, <3>1, LapGrows
    <3> QED BY <1>1, <2>2, <3>2
  <2> QED BY <2>1, <2>2
<1>5. g \in 1..(N + 1) /\ N + 1 - g <= Size
  <2>1. w \in w..(N + 1) /\ N + 1 \in w..(N + 1) /\ w <= N + 1 /\ f \in f..w
    BY <1>1
  <2>2. at[w] + (N + 1 - w) <= head
    BY <1>1, <2>1 DEF Lap
  <2>3. old[g] + (w - g) <= old[w] /\ old[g] \in Nat /\ old[w] \in Nat
    BY <1>1, <1>2 DEF Lap
  <2>4. old[f] <= old[g] /\ old[f] \in Nat
    BY <1>1, <1>2, <2>1, LapGrows
  <2> QED BY <1>1, <1>2, <2>2, <2>3, <2>4 DEF HDR
<1>6. ps[N + 1] = head /\ ps[g] = old[g]
  BY <1>1, <1>2
<1> HIDE DEF ps
<1>7. Entries(ps[g]) = From(g)
  BY <1>1, <1>3, <1>4, <1>5, <1>6, ReaderFinds
<1> QED BY <1>6, <1>7

\* What a reader at rdtail finds next: entry g, or nothing.
FindsNext(g) ==
  /\ g = N + 1 => NextSize(RdTail) = 0 /\ NextTail(RdTail) = RdTail
  /\ g <= N => Reads(RdTail, NextTail(RdTail), g)

\* The numbers of a layout are those of the log: the entries from f on are
\* found from the tail, and those from g on from the reader's tail.
LEMMA LayoutFinds ==
  ASSUME Types, NEW f \in Nat, NEW g \in Nat, Layout(f, g)
  PROVE  /\ f \in 1..(N + 1) /\ (N # 0 => f <= N) /\ g \in 1..(N + 1)
         /\ Entries(LogTail) = From(f) /\ Entries(RdTail) = From(g)
         /\ FindsNext(g)
<1>0. N \in Nat /\ Size \in Nat /\ head \in Nat /\ head < Size
  BY NumberTypes DEF Types, HDR
<1>h. NextSize(head) = 0 /\ NextTail(head) = head
  BY DEF NextSize, NextTail
<1>1. CASE Unused(f, g)
  <2>1. N = 0 /\ f = 1 /\ g = 1 /\ LogTail = head /\ RdTail = head /\ head = 0
    BY <1>1 DEF Unused, N
  <2> DEFINE ps == [k \in 1..1 |-> head]
  <2>2. /\ ps[N + 1] = head /\ N \in Nat /\ 1 \in 1..(N + 1) /\ N + 1 - 1 <= Size
        /\ \A k \in 1..(N + 1) : ps[k] \in 0..Size
        /\ \A k \in 1..N : FALSE
    BY <1>0, <2>1
  <2>3. ps[1] = head
    OBVIOUS
  <2> HIDE DEF ps
  <2>4. Entries(ps[1]) = From(1)
    BY <2>2, ReaderFinds
  <2> QED BY <1>h, <2>1, <2>3, <2>4 DEF FindsNext
<1>2. ASSUME NEW at, NEW w, Current(at, w), g \in w..(N + 1), RdTail = at[g]
      PROVE  Entries(RdTail) = From(g) /\ FindsNext(g) /\ g \in 1..(N + 1)
  <2>1. w \in 1..N /\ at[N + 1] = head /\ g \in 1..(N + 1)
    BY <1>0, <1>2 DEF Current
  <2>2. Entries(RdTail) = From(g)
    BY <1>2, CurrentFinds
  <2>3. CASE g = N + 1
    BY <1>0, <1>2, <1>h, <2>1, <2>2, <2>3 DEF FindsNext
  <2>4. CASE g <= N
    <3>1. g \in w..N /\ g # N + 1
      BY <1>0, <1>2, <2>1, <2>4
    <3>2. Reads(at[g], at[g], g)
      BY <1>2, <3>1, CurrentReads
    <3>3. NextTail(RdTail) = at[g]
      BY <1>2, <3>2 DEF Reads
    <3> QED BY <1>2, <2>1, <2>2, <3>1, <3>2, <3>3 DEF FindsNext
  <2> QED BY <1>0, <2>1, <2>3, <2>4
<1>3. ASSUME NEW at, NEW w, Unwrapped(at, w, f, g)
      PROVE  /\ f \in 1..N /\ g \in 1..(N + 1)
             /\ Entries(LogTail) = From(f) /\ Entries(RdTail) = From(g)
             /\ FindsNext(g)
  <2>1. /\ Current(at, w) /\ w \in 1..N /\ f \in w..N /\ f \in w..(N + 1)
        /\ g \in w..(N + 1) /\ LogTail = at[f] /\ RdTail = at[g]
    BY <1>0, <1>3 DEF Unwrapped, Current
  <2>2. Entries(LogTail) = From(f)
    BY <2>1, CurrentFinds
  <2>3. f \in 1..N
    BY <1>0, <2>1
  <2> QED BY <1>2, <2>1, <2>2, <2>3
<1>4. ASSUME NEW at, NEW old, NEW w, Wrapped(at, old, w, f, g)
      PROVE  /\ f \in 1..N /\ g \in 1..(N + 1)
             /\ Entries(LogTail) = From(f) /\ Entries(RdTail) = From(g)
             /\ FindsNext(g)
  <2>1. /\ Current(at, w) /\ w \in 1..N /\ f \in 1..w /\ LogTail = old[f]
        /\ f \in f..w
    BY <1>0, <1>4 DEF Wrapped, Current
  <2>2. Entries(LogTail) = From(f) /\ f \in 1..N
    BY <1>0, <1>4, <2>1, OldFinds
  <2>3. CASE g \in f..w /\ RdTail = old[g]
    <3>1. g \in 1..(N + 1) /\ g # N + 1
      BY <1>0, <2>1, <2>3
    <3>2. Entries(RdTail) = From(g)
      BY <1>4, <2>3, OldFinds
    <3>3. \E q : Reads(RdTail, q, g)
      <4>1. g < w \/ g = w
        BY <1>0, <2>1, <2>3
      <4> QED BY <1>4, <2>3, <4>1, OldReads
    <3>4. FindsNext(g)
      BY <3>1, <3>3 DEF FindsNext, Reads
    <3> QED BY <2>2, <3>1, <3>2, <3>4
  <2>4. CASE g \in w..(N + 1) /\ RdTail = at[g]
    BY <1>2, <2>1, <2>2, <2>4
  <2> QED BY <1>4, <2>3, <2>4 DEF Wrapped
<1>5. f \in 1..N => f \in 1..(N + 1) /\ f <= N
  BY <1>0
<1>6. CASE \E at, w : Unwrapped(at, w, f, g)
  BY <1>3, <1>5, <1>6
<1>7. CASE \E at, old, w : Wrapped(at, old, w, f, g)
  BY <1>4, <1>5, <1>7
<1>8. CASE Unused(f, g)
  BY <1>1, <1>8
<1> QED BY <1>6, <1>7, <1>8 DEF Layout

-----------------------------------------------------------------------------
(***************************************************************************)
(* Writing to the buffer.                                                  *)
(***************************************************************************)

LEMMA WriteFacts ==
  ASSUME NEW b, DOMAIN b = 0..(Size - 1), NEW h, NEW bs
  PROVE  /\ DOMAIN Write(b, h, bs) = 0..(Size - 1)
         /\ \A i \in 0..(Size - 1) :
              Write(b, h, bs)[i]
                = IF i \in h..(h + Len(bs) - 1) THEN bs[i - h + 1] ELSE b[i]
BY DEF Write

\* The end marker at h.
LEMMA MarkerWritten ==
  ASSUME NEW b, DOMAIN b = 0..(Size - 1), NEW h \in Nat, h + HDR <= Size,
         NEW m, m = Write(b, h, <<0, 0>>)
  PROVE  /\ DOMAIN m = 0..(Size - 1) /\ SizeAt(m, h) = 0
         /\ \A i \in 0..(Size - 1) : i < h => m[i] = b[i]
         /\ \A i \in 0..(Size - 1) : b[i] \in Nat => m[i] \in Nat
<1>1. Size \in Nat
  BY RbAssumption
<1> DEFINE z == <<0, 0>>
<1>2. Len(z) = 2 /\ z[1] = 0 /\ z[2] = 0 /\ m = Write(b, h, z)
  OBVIOUS
<1> HIDE DEF z
<1>3. /\ DOMAIN m = 0..(Size - 1)
      /\ \A i \in 0..(Size - 1) :
           m[i] = IF i \in h..(h + Len(z) - 1) THEN z[i - h + 1] ELSE b[i]
  <2>1. m = Write(b, h, z)
    BY <1>2
  <2> QED BY <2>1 DEF Write
<1>4. m[h] = 0 /\ m[h + 1] = 0
  <2>1. h \in 0..(Size - 1) /\ h + 1 \in 0..(Size - 1)
    BY <1>1 DEF HDR
  <2>2. h - h + 1 = 1 /\ (h + 1) - h + 1 = 2
    OBVIOUS
  <2>3. h \in h..(h + Len(z) - 1) /\ h + 1 \in h..(h + Len(z) - 1)
    BY <1>2
  <2> QED BY <1>2, <1>3, <2>1, <2>2, <2>3
<1>5. ASSUME NEW i \in 0..(Size - 1), i < h PROVE m[i] = b[i]
  <2>1. i \notin h..(h + Len(z) - 1)
    BY <1>2, <1>5
  <2> QED BY <1>3, <2>1
<1>6. ASSUME NEW i \in 0..(Size - 1), b[i] \in Nat PROVE m[i] \in Nat
  <2>1. CASE i \in h..(h + Len(z) - 1)
    <3>1. i = h \/ i = h + 1
      BY <1>2, <2>1
    <3> QED BY <1>4, <3>1
  <2>2. CASE i \notin h..(h + Len(z) - 1)
    BY <1>3, <1>6, <2>2
  <2> QED BY <2>1, <2>2
<1> QED BY <1>3, <1>4, <1>5, <1>6 DEF SizeAt

\* The bytes of the k-th entry: its size, then its payload.
Encoded(l, k) == <<l % 256, l \div 256>> \o [i \in 1..l |-> k]

\* e is that: its length and its bytes.
Encodes(e, l, k) ==
  /\ Len(e) = HDR + l /\ e[1] = l % 256 /\ e[2] = l \div 256
  /\ \A i \in 1..l : e[HDR + i] = k

\* c is s followed by p.
Joined(c, s, p) ==
  /\ Len(c) = Len(s) + Len(p)
  /\ \A i \in 1..(Len(s) + Len(p)) :
       c[i] = IF i <= Len(s) THEN s[i] ELSE p[i - Len(s)]

LEMMA ConcatJoins ==
  ASSUME NEW s \in Seq(Int), NEW p \in Seq(Int)
  PROVE  Joined(s \o p, s, p)
BY ConcatProperties DEF Joined

LEMMA EncodedFacts ==
  ASSUME NEW l \in Nat, NEW k \in Nat
  PROVE  Encodes(Encoded(l, k), l, k)
<1> DEFINE s == <<l % 256, l \div 256>>
           p == [i \in 1..l |-> k]
<1>1. s \in Seq(Int) /\ Len(s) = 2 /\ s[1] = l % 256 /\ s[2] = l \div 256
  OBVIOUS
<1>2. p \in Seq(Int) /\ Len(p) = l /\ \A i \in 1..l : p[i] = k
  OBVIOUS
<1>3. Encoded(l, k) = s \o p
  BY DEF Encoded
<1> HIDE DEF s, p
<1> DEFINE c == s \o p
<1>c. Joined(c, s, p)
  BY <1>1, <1>2, ConcatJoins
<1> HIDE DEF c
<1>4. /\ Len(c) = 2 + l
      /\ \A i \in 1..(2 + l) : c[i] = IF i <= 2 THEN s[i] ELSE p[i - 2]
  <2>1. Len(s) = 2 /\ Len(p) = l
    BY <1>1, <1>2
  <2> QED BY <1>c, <2>1 DEF Joined
<1>5. ASSUME NEW i \in 1..l PROVE c[2 + i] = k
  <2>1. 2 + i \in 1..(2 + l) /\ ~(2 + i <= 2) /\ (2 + i) - 2 = i
    OBVIOUS
  <2> QED BY <1>2, <1>4, <2>1
<1>6. c[1] = s[1] /\ c[2] = s[2]
  <2>1. 1 \in 1..(2 + l) /\ 2 \in 1..(2 + l) /\ 1 <= 2 /\ 2 <= 2
    OBVIOUS
  <2> QED BY <1>4, <2>1
<1>7. Encodes(c, l, k)
  BY <1>1, <1>4, <1>5, <1>6 DEF Encodes, HDR
<1> QED BY <1>3, <1>7 DEF c

\* m is b with the k-th entry, of l bytes, written at h.
HasEntry(m, b, h, l, k) ==
  /\ DOMAIN m = 0..(Size - 1) /\ SizeAt(m, h) = l
  /\ \A i \in 1..l : m[h + HDR + i - 1] = k
  /\ \A i \in 0..(Size - 1) : i < h \/ h + HDR + l <= i => m[i] = b[i]
  /\ \A i \in 0..(Size - 1) : b[i] \in Nat => m[i] \in Nat

LEMMA EntryWritten ==
  ASSUME NEW b, DOMAIN b = 0..(Size - 1), NEW h \in Nat, NEW l \in Nat,
         NEW k \in Nat, h + HDR + l <= Size
  PROVE  HasEntry(Write(b, h, Encoded(l, k)), b, h, l, k)
<1> DEFINE e == Encoded(l, k)
           m == Write(b, h, e)
<1>1. Size \in Nat
  BY RbAssumption
<1>2. /\ Len(e) = HDR + l
      /\ e[1] = l % 256 /\ e[2] = l \div 256
      /\ \A i \in 1..l : e[HDR + i] = k
  <2>1. Encodes(e, l, k)
    BY EncodedFacts
  <2> QED BY <2>1 DEF Encodes
<1>3. /\ DOMAIN m = 0..(Size - 1)
      /\ \A i \in 0..(Size - 1) :
           m[i] = IF i \in h..(h + Len(e) - 1) THEN e[i - h + 1] ELSE b[i]
  BY WriteFacts
<1>m. m = Write(b, h, Encoded(l, k))
  OBVIOUS
<1> HIDE DEF e, m
<1>4. \A i \in 0..(Size - 1) :
        m[i] = IF i >= h /\ i < h + HDR + l THEN e[i - h + 1] ELSE b[i]
  <2>1. \A i \in 0..(Size - 1) :
          i \in h..(h + Len(e) - 1) <=> i >= h /\ i < h + HDR + l
    BY <1>1, <1>2 DEF HDR
  <2> QED BY <1>3, <2>1
<1>5. m[h] = l % 256 /\ m[h + 1] = l \div 256
  <2>1. h \in 0..(Size - 1) /\ h + 1 \in 0..(Size - 1)
    BY <1>1 DEF HDR
  <2>2. h - h + 1 = 1 /\ (h + 1) - h + 1 = 2
    OBVIOUS
  <2>3. h >= h /\ h < h + HDR + l /\ h + 1 >= h /\ h + 1 < h + HDR + l
    BY DEF HDR
  <2> QED BY <1>2, <1>4, <2>1, <2>2, <2>3
<1>6. SizeAt(m, h) = l
  <2>1. (l % 256) + 256 * (l \div 256) = l
    OBVIOUS
  <2> QED BY <1>5, <2>1 DEF SizeAt
<1>7. ASSUME NEW i \in 1..l PROVE m[h + HDR + i - 1] = k
  <2> DEFINE x == h + HDR + i - 1
  <2>1. /\ x \in 0..(Size - 1) /\ x >= h /\ x < h + HDR + l
        /\ x - h + 1 = HDR + i
    BY <1>1 DEF HDR
  <2> HIDE DEF x
  <2>2. m[x] = e[HDR + i]
    BY <1>4, <2>1
  <2> QED BY <1>2, <2>2 DEF x
<1>8. ASSUME NEW i \in 0..(Size - 1), i < h \/ h + HDR + l <= i
      PROVE  m[i] = b[i]
  <2>1. ~(i >= h /\ i < h + HDR + l)
    BY <1>1, <1>8 DEF HDR
  <2> QED BY <1>4, <2>1
<1>9. ASSUME NEW i \in 0..(Size - 1), b[i] \in Nat PROVE m[i] \in Nat
  <2>1. CASE i = h \/ i = h + 1
    <3>1. l % 256 \in Nat /\ l \div 256 \in Nat
      OBVIOUS
    <3> QED BY <1>5, <2>1, <3>1
  <2>2. CASE i < h \/ h + HDR + l <= i
    BY <1>8, <1>9, <2>2
  <2>3. CASE h + HDR <= i /\ i < h + HDR + l
    <3>1. i - h - 1 \in 1..l /\ h + HDR + (i - h - 1) - 1 = i
      BY <1>1, <2>3 DEF HDR
    <3>2. m[h + HDR + (i - h - 1) - 1] = k
      BY <1>7, <3>1
    <3> QED BY <3>1, <3>2
  <2> QED BY <1>1, <2>1, <2>2, <2>3 DEF HDR
<1> QED BY <1>3, <1>6, <1>7, <1>8, <1>9, <1>m DEF HasEntry

\* A lap is kept by what is written outside of it.
LEMMA LapKept ==
  ASSUME NEW b, NEW sz, NEW at, NEW lo \in Nat, NEW hi \in Nat,
         Lap(b, sz, at, lo, hi), lo <= hi,
         NEW c, NEW tz,
         \A k \in lo..(hi - 1) : sz[k] \in Nat /\ tz[k] = sz[k],
         \A i \in Nat : at[lo] <= i /\ i < at[hi] => c[i] = b[i]
  PROVE  Lap(c, tz, at, lo, hi)
<1>1. SUFFICES ASSUME NEW k \in lo..(hi - 1)
               PROVE  /\ at[k + 1] = at[k] + HDR + tz[k]
                      /\ Stands(c, tz, at[k], k)
  BY DEF Lap
<1>2. /\ k \in lo..hi /\ k + 1 \in lo..hi /\ lo \in lo..hi /\ hi \in lo..hi
      /\ lo <= k /\ k + 1 <= hi /\ k \in Nat
  OBVIOUS
<1>3. /\ at[k] \in Nat /\ at[k + 1] \in Nat /\ at[lo] \in Nat /\ at[hi] \in Nat
      /\ at[lo] <= at[k] /\ at[k + 1] <= at[hi]
  BY <1>2, LapGrows
<1>4. /\ at[k + 1] = at[k] + HDR + sz[k] /\ Stands(b, sz, at[k], k)
      /\ sz[k] \in Nat /\ tz[k] = sz[k]
  BY DEF Lap
<1>5. \A i \in Nat : at[k] <= i /\ i < at[k] + HDR + sz[k] => c[i] = b[i]
  BY <1>3, <1>4 DEF HDR
<1>6. SizeAt(c, at[k]) = tz[k]
  <2>1. /\ at[k] < at[k] + HDR + sz[k] /\ at[k] <= at[k]
        /\ at[k] + 1 < at[k] + HDR + sz[k] /\ at[k] <= at[k] + 1
        /\ at[k] + 1 \in Nat
    BY <1>3, <1>4 DEF HDR
  <2>2. c[at[k]] = b[at[k]] /\ c[at[k] + 1] = b[at[k] + 1]
    BY <1>3, <1>5, <2>1
  <2> QED BY <1>4, <2>2 DEF SizeAt, Stands
<1>7. ASSUME NEW i \in 1..tz[k] PROVE c[at[k] + HDR + i - 1] = k
  <2> DEFINE x == at[k] + HDR + i - 1
  <2>1. x \in Nat /\ at[k] <= x /\ x < at[k] + HDR + sz[k]
    BY <1>3, <1>4 DEF HDR
  <2>2. b[x] = k
    BY <1>4 DEF Stands
  <2> HIDE DEF x
  <2>3. c[x] = b[x]
    BY <1>5, <2>1
  <2> QED BY <2>2, <2>3 DEF x
<1> QED BY <1>4, <1>6, <1>7 DEF Stands

\* One entry more at the end of a lap.
LEMMA LapLonger ==
  ASSUME NEW b, NEW sz, NEW at, NEW lo \in Nat, NEW hi \in Nat, lo <= hi,
         Lap(b, sz, at, lo, hi), sz[hi] \in Nat, Stands(b, sz, at[hi], hi),
         NEW bt, \A k \in lo..hi : bt[k] = at[k],
         bt[hi + 1] = at[hi] + HDR + sz[hi]
  PROVE  Lap(b, sz, bt, lo, hi + 1)
<1>1. /\ hi \in lo..hi /\ \A k \in lo..hi : k \in Nat /\ at[k] \in Nat
      /\ \A j, k \in lo..hi : j <= k => at[j] + (k - j) <= at[k]
  BY DEF Lap
<1>2. ASSUME NEW k \in lo..(hi + 1), k \notin lo..hi PROVE k = hi + 1
  BY <1>2
<1>3. bt[hi + 1] \in Nat /\ at[hi] \in Nat /\ bt[hi + 1] = at[hi] + HDR + sz[hi]
  BY <1>1 DEF HDR
<1>4. \A k \in lo..(hi + 1) : bt[k] \in Nat
  BY <1>1, <1>2, <1>3
<1>5. ASSUME NEW j \in lo..(hi + 1), NEW k \in lo..(hi + 1), j <= k
      PROVE  bt[j] + (k - j) <= bt[k]
  <2>1. CASE k \in lo..hi
    <3>1. j \in lo..hi
      BY <1>5, <2>1
    <3> QED BY <1>1, <1>5, <2>1, <3>1
  <2>2. CASE k = hi + 1 /\ j \in lo..hi
    <3>1. at[j] + (hi - j) <= at[hi] /\ j \in Nat /\ at[j] \in Nat /\ bt[j] = at[j]
      BY <1>1, <2>2
    <3> QED BY <1>3, <2>2, <3>1 DEF HDR
  <2>3. CASE k = hi + 1 /\ j = hi + 1
    BY <1>3, <2>3
  <2> QED BY <1>2, <2>1, <2>2, <2>3
<1>6. ASSUME NEW k \in lo..((hi + 1) - 1)
      PROVE  bt[k + 1] = bt[k] + HDR + sz[k] /\ Stands(b, sz, bt[k], k)
  <2>1. CASE k \in lo..(hi - 1)
    <3>1. k \in lo..hi /\ k + 1 \in lo..hi
      BY <2>1
    <3> QED BY <2>1, <3>1 DEF Lap
  <2>2. CASE k = hi
    BY <1>1, <1>3, <2>2
  <2> QED BY <2>1, <2>2
<1> QED BY <1>4, <1>5, <1>6 DEF Lap

-----------------------------------------------------------------------------
(***************************************************************************)
(* rb_push.                                                                *)
(***************************************************************************)

\* The rounds q of the loop, one after the other.
IsLoop(q, b, h, t, rt, n) ==
  /\ q[0] = <<t, rt>>
  /\ \A k \in 0..Size : k < Size => q[k + 1] = RoomStep(b, h, n, q[k])
  /\ MakeRoom(b, h, t, rt, n) = q[Size]

LEMMA LoopRounds ==
  ASSUME NEW b, NEW h, NEW t, NEW rt, NEW n
  PROVE  \E q : IsLoop(q, b, h, t, rt, n)
<1>0. Size \in Nat
  BY RbAssumption
<1>1. PICK q : /\ Rounds(q, b, h, t, rt, n, Size)
               /\ MakeRoom(b, h, t, rt, n) = q[Size]
  BY MakeRoomDef
<1>2. \A k \in 0..Size :
        q[k] = IF k = 0 THEN <<t, rt>> ELSE RoomStep(b, h, n, q[k - 1])
  BY <1>1 DEF Rounds
<1>3. q[0] = <<t, rt>>
  BY <1>0, <1>2
<1>4. ASSUME NEW k \in 0..Size, k < Size
      PROVE  q[k + 1] = RoomStep(b, h, n, q[k])
  <2>1. k + 1 \in 0..Size /\ k + 1 # 0 /\ (k + 1) - 1 = k
    BY <1>0, <1>4
  <2> QED BY <1>2, <2>1
<1> QED BY <1>1, <1>3, <1>4 DEF IsLoop

\* Tails that are not in the way stay where they are.
LEMMA MakeRoomStays ==
  ASSUME NEW b, NEW h, NEW t, NEW rt, NEW n, ~InTheWay(b, h, n, t)
  PROVE  MakeRoom(b, h, t, rt, n) = <<t, rt>>
<1>0. Size \in Nat
  BY RbAssumption
<1>q. PICK q : IsLoop(q, b, h, t, rt, n)
  BY LoopRounds
<1>1. /\ q[0] = <<t, rt>>
      /\ \A k \in 0..Size : k < Size => q[k + 1] = RoomStep(b, h, n, q[k])
      /\ MakeRoom(b, h, t, rt, n) = q[Size]
  BY <1>q DEF IsLoop
<1>2. RoomStep(b, h, n, <<t, rt>>) = <<t, rt>>
  BY DEF RoomStep
<1> DEFINE P == {k \in 0..Size : q[k] = <<t, rt>>}
<1>3. 0 \in P
  BY <1>0, <1>1
<1>4. ASSUME NEW k \in 0..Size, k < Size, k \in P
      PROVE  k + 1 \in P
  BY <1>0, <1>1, <1>2, <1>4
<1> HIDE DEF P
<1>5. \A k \in 0..Size : k \in P
  BY <1>0, <1>3, <1>4, UpTo
<1> QED BY <1>0, <1>1, <1>5 DEF P

\* Where the tail goes does not depend on the reader's, and two tails that
\* begin together stay together.
LEMMA TailAlone ==
  ASSUME NEW b, NEW h, NEW t, NEW rt, NEW n,
         NEW x, x = MakeRoom(b, h, t, rt, n)[1]
  PROVE  MakeRoom(b, h, t, t, n) = <<x, x>>
<1>0. Size \in Nat
  BY RbAssumption
<1>q. PICK q : IsLoop(q, b, h, t, rt, n)
  BY LoopRounds
<1>1. /\ q[0] = <<t, rt>>
      /\ \A k \in 0..Size : k < Size => q[k + 1] = RoomStep(b, h, n, q[k])
      /\ MakeRoom(b, h, t, rt, n) = q[Size]
  BY <1>q DEF IsLoop
<1>p. PICK p : IsLoop(p, b, h, t, t, n)
  BY LoopRounds
<1>2. /\ p[0] = <<t, t>>
      /\ \A k \in 0..Size : k < Size => p[k + 1] = RoomStep(b, h, n, p[k])
      /\ MakeRoom(b, h, t, t, n) = p[Size]
  BY <1>p DEF IsLoop
<1> DEFINE P == {k \in 0..Size : p[k] = <<q[k][1], q[k][1]>>}
<1>3. 0 \in P
  BY <1>0, <1>1, <1>2
<1>4. ASSUME NEW k \in 0..Size, k < Size, k \in P
      PROVE  k + 1 \in P
  <2>1. PICK u : u = q[k][1]
    OBVIOUS
  <2>2. /\ k + 1 \in 0..Size /\ p[k] = <<u, u>>
        /\ p[k + 1] = RoomStep(b, h, n, <<u, u>>)
        /\ q[k + 1] = RoomStep(b, h, n, q[k])
    BY <1>0, <1>1, <1>2, <1>4, <2>1
  <2>3. CASE InTheWay(b, h, n, u)
    <3>1. q[k + 1][1] = Skip(b, u) /\ p[k + 1] = <<Skip(b, u), Skip(b, u)>>
      BY <2>1, <2>2, <2>3 DEF RoomStep
    <3> QED BY <2>2, <3>1
  <2>4. CASE ~InTheWay(b, h, n, u)
    <3>1. q[k + 1][1] = u /\ p[k + 1] = <<u, u>>
      BY <2>1, <2>2, <2>4 DEF RoomStep
    <3> QED BY <2>2, <3>1
  <2> QED BY <2>3, <2>4
<1> HIDE DEF P
<1>5. \A k \in 0..Size : k \in P
  BY <1>0, <1>3, <1>4, UpTo
<1> QED BY <1>0, <1>1, <1>2, <1>5 DEF P

\* Whatever sizes the loop meets: tails stay numbers, and a tail that was not
\* behind h gets behind it only by the way of the first entry.
Bytes(b) == DOMAIN b = 0..(Size - 1) /\ \A i \in 0..(Size - 1) : b[i] \in Nat

RoomTyped(r, b, h, t) ==
  /\ r[1] \in Nat /\ r[2] \in Nat
  /\ h <= t => h <= r[1] \/ r[1] = HDR + SizeAt(b, 0)

LEMMA RoomTypes ==
  ASSUME NEW b, Bytes(b),
         NEW h \in Nat, NEW n \in Nat, h + n + HDR < Size,
         NEW t \in Nat, NEW rt \in Nat,
         NEW r, r = MakeRoom(b, h, t, rt, n)
  PROVE  RoomTyped(r, b, h, t)
<1>0. Size \in Nat /\ \A i \in 0..(Size - 1) : b[i] \in Nat
  BY RbAssumption DEF Bytes
<1>s. \A u \in Nat : u <= h + n => SizeAt(b, u) \in Nat
  <2> SUFFICES ASSUME NEW u \in Nat, u <= h + n PROVE SizeAt(b, u) \in Nat
    OBVIOUS
  <2>1. u \in 0..(Size - 1) /\ u + 1 \in 0..(Size - 1)
    BY <1>0 DEF HDR
  <2>2. b[u] \in Nat /\ b[u + 1] \in Nat
    BY <1>0, <2>1
  <2> QED BY <2>2 DEF SizeAt
<1>q. PICK q : IsLoop(q, b, h, t, rt, n)
  BY LoopRounds
<1>1. /\ q[0] = <<t, rt>>
      /\ \A k \in 0..Size : k < Size => q[k + 1] = RoomStep(b, h, n, q[k])
      /\ MakeRoom(b, h, t, rt, n) = q[Size]
  BY <1>q DEF IsLoop
<1> DEFINE nx == HDR + SizeAt(b, 0)
           Ok(s) == /\ s[1] \in Nat /\ s[2] \in Nat
                    /\ h <= t => h <= s[1] \/ s[1] = nx
           P == {k \in 0..Size : Ok(q[k])}
<1>2. nx \in Nat
  BY <1>s DEF HDR
<1>3. 0 \in P
  BY <1>0, <1>1
<1>4. ASSUME NEW k \in 0..Size, k < Size, k \in P
      PROVE  k + 1 \in P
  <2> DEFINE s == q[k]
             v == Skip(b, s[1])
  <2>1. k + 1 \in 0..Size /\ Ok(s) /\ q[k + 1] = RoomStep(b, h, n, s)
    BY <1>0, <1>1, <1>4
  <2> HIDE DEF s
  <2>2. CASE InTheWay(b, h, n, s[1])
    <3>1. /\ s[1] \in Nat /\ s[2] \in Nat /\ h <= s[1] /\ SizeAt(b, s[1]) \in Nat
          /\ ~(s[1] = 0 /\ SizeAt(b, s[1]) = 0)
      BY <1>s, <2>1, <2>2 DEF InTheWay
    <3>2. v \in Nat /\ (h <= v \/ v = nx)
      <4> HIDE DEF nx
      <4>1. CASE SizeAt(b, s[1]) = 0
        BY <1>2, <3>1, <4>1 DEF Skip, nx
      <4>2. CASE SizeAt(b, s[1]) # 0
        BY <3>1, <4>2 DEF Skip, HDR
      <4> QED BY <4>1, <4>2
    <3>3. RoomStep(b, h, n, s) = <<v, IF s[1] = s[2] THEN v ELSE s[2]>>
      BY <2>2 DEF RoomStep
    <3> HIDE DEF v, nx
    <3>4. Ok(RoomStep(b, h, n, s))
      BY <3>1, <3>2, <3>3
    <3> QED BY <2>1, <3>4
  <2>3. CASE ~InTheWay(b, h, n, s[1])
    <3>1. RoomStep(b, h, n, s) = s
      BY <2>3 DEF RoomStep
    <3> HIDE DEF nx
    <3> QED BY <2>1, <3>1
  <2> QED BY <2>2, <2>3
<1> HIDE DEF P
<1>5. \A k \in 0..Size : k \in P
  BY <1>0, <1>3, <1>4, UpTo
<1>6. Ok(q[Size])
  BY <1>0, <1>5 DEF P
<1> QED BY <1>1, <1>6 DEF RoomTyped

\* The tails that the loop leaves when it is given the tails that count.
VRoom(l) ==
  MakeRoom(Marked(l), NewAt(l),
           IF Wraps(l) /\ LogTail >= head THEN 0 ELSE LogTail,
           IF Wraps(l) /\ RdTail >= head THEN 0 ELSE RdTail, HDR + l)

\* These are the ones that count afterwards.
Follows(l) == LogTail' = VRoom(l)[1] /\ RdTail' = VRoom(l)[2]

LEMMA PushIs ==
  ASSUME NEW l, rb_push(l)
  PROVE  /\ buf' = Write(Marked(l), NewAt(l), Encoded(l, N + 1))
         /\ head' = NewAt(l) + (HDR + l)
         /\ sizes' = Append(sizes, l)
         /\ l # 0 /\ wpc' = "wake"
         /\ UNCHANGED <<rpc, count, woken, got, trusted>>
BY DEF rb_push, Encoded, N

\* The buffer before the entry is written.
LEMMA MarkedFacts ==
  ASSUME Types, NEW l \in Lens, l # 0
  PROVE  /\ l \in Nat \ {0} /\ N \in Nat /\ Size \in Nat /\ head \in Nat
         /\ head + HDR < Size /\ Size > 3 * (HDR + l) + HDR
         /\ DOMAIN Marked(l) = 0..(Size - 1)
         /\ \A i \in 0..(Size - 1) : Marked(l)[i] \in Nat
         /\ \A i \in 0..(Size - 1) : i < head => Marked(l)[i] = buf[i]
         /\ Wraps(l) => SizeAt(Marked(l), head) = 0
         /\ NewAt(l) \in Nat /\ NewAt(l) + (HDR + l) \in Nat
         /\ NewAt(l) + (HDR + l) + HDR < Size
<1>1. /\ l \in Nat \ {0} /\ N \in Nat /\ Size \in Nat /\ head \in Nat
      /\ head + HDR < Size /\ Size > 3 * (HDR + l) + HDR
      /\ DOMAIN buf = 0..(Size - 1) /\ \A i \in 0..(Size - 1) : buf[i] \in Nat
  BY NumberTypes DEF Types
<1>2. /\ DOMAIN Marked(l) = 0..(Size - 1)
      /\ \A i \in 0..(Size - 1) : Marked(l)[i] \in Nat
      /\ \A i \in 0..(Size - 1) : i < head => Marked(l)[i] = buf[i]
      /\ Wraps(l) => SizeAt(Marked(l), head) = 0
  <2>1. CASE Wraps(l)
    <3>1. Marked(l) = Write(buf, head, <<0, 0>>) /\ head + HDR <= Size
      BY <1>1, <2>1 DEF Marked, HDR
    <3> QED BY <1>1, <3>1, MarkerWritten
  <2>2. CASE ~Wraps(l)
    BY <1>1, <2>2 DEF Marked
  <2> QED BY <2>1, <2>2
<1>3. /\ NewAt(l) \in Nat /\ NewAt(l) + (HDR + l) \in Nat
      /\ NewAt(l) + (HDR + l) + HDR < Size
  BY <1>1 DEF NewAt, Wraps, HDR
<1> QED BY <1>1, <1>2, <1>3

\* What rb_push does to the buffer, whatever happens to the tails.
LEMMA PushWrites ==
  ASSUME Types, NEW l \in Lens, rb_push(l)
  PROVE  /\ l \in Nat \ {0} /\ N \in Nat /\ Size \in Nat /\ head \in Nat
         /\ N' = N + 1 /\ sizes'[N + 1] = l
         /\ \A k \in 1..N : sizes[k] \in Nat \ {0} /\ sizes'[k] = sizes[k]
         /\ NewAt(l) \in Nat /\ head' = NewAt(l) + (HDR + l)
         /\ DOMAIN Marked(l) = 0..(Size - 1)
         /\ \A i \in 0..(Size - 1) : i < head => Marked(l)[i] = buf[i]
         /\ Wraps(l) => SizeAt(Marked(l), head) = 0
         /\ Stands(buf', sizes', NewAt(l), N + 1)
         /\ \A i \in 0..(Size - 1) :
              i < NewAt(l) \/ NewAt(l) + (HDR + l) <= i
                => buf'[i] = Marked(l)[i]
         /\ Types'
<1>1. l # 0
  BY PushIs
<1>2. /\ N' = N + 1 /\ sizes'[N + 1] = l /\ sizes' \in Seq(Lens \ {0})
      /\ \A k \in 1..N : sizes'[k] = sizes[k]
  <2>1. sizes' = Append(sizes, l) /\ l \in Lens \ {0} /\ sizes \in Seq(Lens \ {0})
    BY <1>1, PushIs DEF Types
  <2> QED BY <2>1 DEF N
<1>3. \A k \in 1..N : sizes[k] \in Nat \ {0} /\ sizes'[k] = sizes[k]
  BY <1>2, NumberTypes
<1>4. /\ l \in Nat /\ N \in Nat /\ Size \in Nat /\ NewAt(l) \in Nat
      /\ DOMAIN Marked(l) = 0..(Size - 1)
      /\ \A i \in 0..(Size - 1) : Marked(l)[i] \in Nat
      /\ NewAt(l) + (HDR + l) + HDR < Size
  BY <1>1, MarkedFacts
<1>5. /\ NewAt(l) + HDR + l <= Size
      /\ NewAt(l) + HDR + l = NewAt(l) + (HDR + l)
  BY <1>4 DEF HDR
<1>6. /\ buf' = Write(Marked(l), NewAt(l), Encoded(l, N + 1))
      /\ head' = NewAt(l) + (HDR + l)
  BY PushIs
<1>7. /\ DOMAIN buf' = 0..(Size - 1) /\ SizeAt(buf', NewAt(l)) = l
      /\ \A i \in 1..l : buf'[NewAt(l) + HDR + i - 1] = N + 1
      /\ \A i \in 0..(Size - 1) :
           i < NewAt(l) \/ NewAt(l) + HDR + l <= i => buf'[i] = Marked(l)[i]
      /\ \A i \in 0..(Size - 1) : buf'[i] \in Nat
  <2>1. N + 1 \in Nat /\ l \in Nat
    BY <1>4
  <2>2. HasEntry(Write(Marked(l), NewAt(l), Encoded(l, N + 1)),
                 Marked(l), NewAt(l), l, N + 1)
    BY <1>4, <1>5, <2>1, EntryWritten
  <2>3. HasEntry(buf', Marked(l), NewAt(l), l, N + 1)
    BY <1>6, <2>2
  <2> QED BY <1>4, <2>3 DEF HasEntry
<1>8. Stands(buf', sizes', NewAt(l), N + 1)
  BY <1>2, <1>7 DEF Stands
<1>9. Types'
  <2>1. head' \in Nat /\ head' + HDR < Size
    BY <1>1, <1>4, <1>6, MarkedFacts
  <2> QED BY <1>2, <1>7, <2>1 DEF Types
<1>10. \A i \in 0..(Size - 1) :
         i < NewAt(l) \/ NewAt(l) + (HDR + l) <= i => buf'[i] = Marked(l)[i]
  BY <1>5, <1>7
<1> QED BY <1>1, <1>2, <1>3, <1>6, <1>8, <1>9, <1>10, MarkedFacts

\* A later part of a lap is a lap.
LEMMA LapPart ==
  ASSUME NEW b, NEW sz, NEW at, NEW lo \in Nat, NEW hi \in Nat, NEW j \in lo..hi,
         Lap(b, sz, at, lo, hi)
  PROVE  Lap(b, sz, at, j, hi)
<1>1. \A k \in j..hi : k \in lo..hi
  OBVIOUS
<1>2. \A k \in j..(hi - 1) : k \in lo..(hi - 1)
  OBVIOUS
<1> QED BY <1>1, <1>2 DEF Lap

\* The current lap has one entry more when the new one fits behind it.
LEMMA PushAppends ==
  ASSUME Types, NEW l \in Lens, rb_push(l), ~Wraps(l),
         NEW at, NEW w, Current(at, w)
  PROVE  \E bt : Current(bt, w)' /\ \A k \in w..(N + 1) : bt[k] = at[k]
<1>1. /\ l \in Nat \ {0} /\ N \in Nat /\ Size \in Nat /\ head \in Nat
      /\ N' = N + 1 /\ sizes'[N + 1] = l /\ NewAt(l) = head
      /\ \A k \in 1..N : sizes[k] \in Nat \ {0} /\ sizes'[k] = sizes[k]
      /\ head' = head + (HDR + l) /\ Marked(l) = buf
      /\ Stands(buf', sizes', head, N + 1)
      /\ \A i \in 0..(Size - 1) : i < head => buf'[i] = buf[i]
      /\ head < Size
  <2>1. NewAt(l) = head /\ Marked(l) = buf
    BY DEF NewAt, Marked
  <2>2. head + HDR < Size /\ head \in Nat /\ Size \in Nat
    BY PushWrites DEF Types
  <2>3. head < Size
    BY <2>2 DEF HDR
  <2> QED BY <2>1, <2>3, PushWrites
<1>2. /\ w \in 1..N /\ w \in Nat /\ N + 1 \in Nat /\ w <= N + 1
      /\ Lap(buf, sizes, at, w, N + 1) /\ at[w] = 0 /\ at[N + 1] = head
  BY <1>1 DEF Current
<1>3. Lap(buf', sizes', at, w, N + 1)
  <2>1. \A k \in w..((N + 1) - 1) : sizes[k] \in Nat /\ sizes'[k] = sizes[k]
    BY <1>1, <1>2
  <2>2. \A i \in Nat : at[w] <= i /\ i < at[N + 1] => buf'[i] = buf[i]
    BY <1>1, <1>2
  <2> DEFINE c == buf'
             tz == sizes'
  <2> HIDE DEF c, tz
  <2>3. Lap(c, tz, at, w, N + 1)
    BY <1>2, <2>1, <2>2, LapKept DEF c, tz
  <2> QED BY <2>3 DEF c, tz
<1>4. PICK bt : bt = [k \in w..(N + 2) |-> IF k = N + 2 THEN head' ELSE at[k]]
  OBVIOUS
<1>5. /\ \A k \in w..(N + 1) : bt[k] = at[k]
      /\ bt[(N + 1) + 1] = at[N + 1] + HDR + sizes'[N + 1]
      /\ bt[(N + 1) + 1] = head'
  <2>1. bt[N + 2] = head' /\ \A k \in w..(N + 1) : bt[k] = at[k]
    BY <1>1, <1>2, <1>4
  <2>2. head' = at[N + 1] + HDR + sizes'[N + 1]
    BY <1>1, <1>2 DEF HDR
  <2>3. (N + 1) + 1 = N + 2
    BY <1>1
  <2> QED BY <2>1, <2>2, <2>3
<1>6. Lap(buf', sizes', bt, w, (N + 1) + 1)
  <2> DEFINE c == buf'
             tz == sizes'
  <2>1. /\ Lap(c, tz, at, w, N + 1) /\ tz[N + 1] \in Nat
        /\ Stands(c, tz, at[N + 1], N + 1)
        /\ bt[(N + 1) + 1] = at[N + 1] + HDR + tz[N + 1]
    BY <1>1, <1>2, <1>3, <1>5
  <2> HIDE DEF c, tz
  <2>2. Lap(c, tz, bt, w, (N + 1) + 1)
    BY <1>2, <1>5, <2>1, LapLonger
  <2> QED BY <2>2 DEF c, tz
<1>7. Current(bt, w)'
  <2>1. w \in 1..N' /\ bt[w] = 0 /\ bt[N' + 1] = head'
    BY <1>1, <1>2, <1>5
  <2>2. Lap(buf', sizes', bt, w, N' + 1)
    BY <1>1, <1>6
  <2> QED BY <2>1, <2>2 DEF Current
<1> QED BY <1>5, <1>7

\* The new entry is the first of a lap.
LEMMA PushBegins ==
  ASSUME Types, NEW l \in Lens, rb_push(l), NewAt(l) = 0, NEW w, w = N + 1
  PROVE  \E bt : Current(bt, w)' /\ bt[w] = 0
<1>1. /\ l \in Nat \ {0} /\ N \in Nat /\ w \in Nat
      /\ N' = w /\ sizes'[w] = l /\ head' = HDR + l
      /\ Stands(buf', sizes', 0, w)
  <2>1. l \in Nat /\ head' = 0 + (HDR + l)
    BY PushWrites
  <2>2. 0 + (HDR + l) = HDR + l
    BY <2>1 DEF HDR
  <2> QED BY <2>1, <2>2, PushWrites
<1>2. PICK bt : bt = [k \in w..(w + 1) |-> IF k = w + 1 THEN HDR + l ELSE 0]
  OBVIOUS
<1>3. bt[w] = 0 /\ bt[w + 1] = HDR + l /\ bt[w + 1] = bt[w] + HDR + l
  BY <1>1, <1>2 DEF HDR
<1>4. Lap(buf', sizes', bt, w, w + 1)
  <2> DEFINE c == buf'
             tz == sizes'
  <2>1. /\ w <= w /\ bt[w] = 0 /\ tz[w] = l /\ l \in Nat
        /\ Stands(c, tz, bt[w], w) /\ bt[w + 1] = bt[w] + HDR + tz[w]
    BY <1>1, <1>3
  <2> HIDE DEF c, tz
  <2>2. Lap(c, tz, bt, w, w)
    <3>1. \A k \in w..w : k = w
      BY <1>1
    <3>2. \A k \in w..(w - 1) : FALSE
      BY <1>1
    <3>3. bt[w] + (w - w) <= bt[w]
      BY <1>1, <2>1
    <3>4. \A k \in w..w : bt[k] \in Nat
      BY <2>1, <3>1
    <3>5. \A j, k \in w..w : j <= k => bt[j] + (k - j) <= bt[k]
      BY <3>1, <3>3
    <3> QED BY <3>2, <3>4, <3>5 DEF Lap
  <2>3. \A k \in w..w : bt[k] = bt[k]
    OBVIOUS
  <2>4. Lap(c, tz, bt, w, w + 1)
    BY <1>1, <2>1, <2>2, <2>3, LapLonger
  <2> QED BY <2>4 DEF c, tz
<1>5. Current(bt, w)'
  <2>1. w \in 1..N' /\ bt[N' + 1] = head'
    BY <1>1, <1>3
  <2>2. Lap(buf', sizes', bt, w, N' + 1)
    BY <1>1, <1>4
  <2> QED BY <1>3, <2>1, <2>2 DEF Current
<1> QED BY <1>3, <1>5

\* The first entry of all.
LEMMA PushUnused ==
  ASSUME Types, NEW f, NEW g, Unused(f, g), NEW l \in Lens, rb_push(l),
         LogTail' = 0, RdTail' = 0
  PROVE  Layout(1, 1)'
<1>1. N = 0 /\ head = 0
  BY DEF Unused, N
<1>2. NewAt(l) = 0
  BY <1>1 DEF NewAt
<1>3. PICK bt : Current(bt, 1)' /\ bt[1] = 0
  <2>1. 1 = N + 1
    BY <1>1
  <2> QED BY <1>2, <2>1, PushBegins
<1>4. N' = 1
  BY <1>1, PushWrites
<1>5. Unwrapped(bt, 1, 1, 1)'
  BY <1>3, <1>4 DEF Unwrapped
<1> QED BY <1>5 DEF Layout

\* A new entry behind the current lap, the tail in that lap: nothing is in its
\* way.
LEMMA PushUnwrapped ==
  ASSUME Types, NEW at, NEW w, NEW f \in Nat, NEW g \in Nat,
         Unwrapped(at, w, f, g), NEW l \in Lens, rb_push(l), ~Wraps(l),
         Follows(l)
  PROVE  Layout(f, g)'
<1>1. /\ Current(at, w) /\ f \in w..N /\ f <= w + 1 /\ LogTail = at[f]
      /\ g \in {w} \cup (f..(N + 1)) /\ RdTail = at[g]
  BY DEF Unwrapped
<1>2. /\ N \in Nat /\ N' = N + 1 /\ w \in 1..N /\ w \in Nat /\ N + 1 \in Nat
      /\ Lap(buf, sizes, at, w, N + 1) /\ at[N + 1] = head
  BY <1>1, PushWrites DEF Current
<1>3. /\ f \in w..(N + 1) /\ g \in w..(N + 1) /\ N + 1 \in w..(N + 1)
      /\ f < N + 1
  BY <1>1, <1>2
<1>4. at[f] \in Nat /\ head \in Nat /\ at[f] < head
  BY <1>2, <1>3, LapGrows
<1>5. ~InTheWay(buf, head, HDR + l, LogTail)
  BY <1>1, <1>4 DEF InTheWay
<1>6. VRoom(l) = MakeRoom(buf, head, LogTail, RdTail, HDR + l)
  BY DEF VRoom, Marked, NewAt
<1>7. LogTail' = LogTail /\ RdTail' = RdTail
  BY <1>5, <1>6, MakeRoomStays DEF Follows
<1>8. PICK bt : Current(bt, w)' /\ \A k \in w..(N + 1) : bt[k] = at[k]
  BY <1>1, PushAppends
<1>9. f \in w..N' /\ f <= w + 1 /\ g \in {w} \cup (f..(N' + 1))
  BY <1>1, <1>2
<1>10. Unwrapped(bt, w, f, g)'
  BY <1>1, <1>3, <1>7, <1>8, <1>9 DEF Unwrapped
<1> QED BY <1>10 DEF Layout

\* The end marker at o is out of the way of what is written below o.
LEMMA MarkerKept ==
  ASSUME NEW b, NEW c, NEW o \in Nat, o + HDR <= Size, SizeAt(b, o) = 0,
         \A i \in 0..(Size - 1) : o <= i => c[i] = b[i]
  PROVE  SizeAt(c, o) = 0
<1>1. Size \in Nat
  BY RbAssumption
<1>2. /\ o \in 0..(Size - 1) /\ o + 1 \in 0..(Size - 1)
      /\ o <= o /\ o <= o + 1
  BY <1>1 DEF HDR
<1> QED BY <1>2 DEF SizeAt

\* The loop, for a new entry that begins a lap, when the tail is, or was put,
\* in the lap that ends now, at entry e, and the reader's tail rt is there, not
\* before the tail, or at offset 0.
LEMMA RoomWraps ==
  ASSUME Types, NEW l \in Lens, l # 0, Wraps(l),
         NEW at, NEW w, Current(at, w), NEW e \in w..N,
         NEW rt, rt = 0 \/ \E g \in e..N : rt = at[g],
         NEW r, r = MakeRoom(Marked(l), 0, at[e], rt, HDR + l)
  PROVE  /\ Lap(Marked(l), sizes, at, e, N + 1)
         /\ HDR + l < head
         /\ \E j \in e..(N + 1) :
              HDR + l < at[j] /\ Moved(r, at, N + 1, j, at[e], rt)
<1>1. /\ l \in Nat \ {0} /\ N \in Nat /\ Size \in Nat /\ head \in Nat
      /\ \A k \in 1..N : sizes[k] \in Nat \ {0}
      /\ head + HDR < Size
      /\ \A i \in 0..(Size - 1) : i < head => Marked(l)[i] = buf[i]
      /\ SizeAt(Marked(l), head) = 0
      /\ Size > 3 * (HDR + l) + HDR
  BY MarkedFacts, NumberTypes
<1>2. /\ w \in 1..N /\ w \in Nat /\ N + 1 \in Nat /\ e \in Nat /\ e <= N + 1
      /\ Lap(buf, sizes, at, w, N + 1) /\ at[w] = 0 /\ at[N + 1] = head
  BY <1>1 DEF Current
<1>3. /\ HDR + l \in Nat /\ 0 + (HDR + l) < head /\ 0 + (HDR + l) = HDR + l
      /\ head # 0 /\ head < Size
  BY <1>1 DEF Wraps, HDR
<1>4. /\ \A k \in w..(N + 1) : k \in Nat /\ at[k] \in Nat
      /\ e \in w..(N + 1) /\ N + 1 \in w..(N + 1) /\ w \in w..(N + 1)
  <2>1. e \in w..(N + 1) /\ N + 1 \in w..(N + 1) /\ w \in w..(N + 1)
    BY <1>1, <1>2
  <2> QED BY <1>2, <2>1, LapGrows
<1>5. Lap(Marked(l), sizes, at, e, N + 1)
  <2> DEFINE c == Marked(l)
  <2>1. Lap(buf, sizes, at, e, N + 1)
    BY <1>2, <1>4, LapPart
  <2>2. \A k \in e..((N + 1) - 1) : sizes[k] \in Nat /\ sizes[k] = sizes[k]
    BY <1>1, <1>2
  <2>3. ASSUME NEW i \in Nat, at[e] <= i, i < at[N + 1] PROVE c[i] = buf[i]
    <3>1. head \in Nat /\ Size \in Nat /\ head < Size /\ at[N + 1] = head
      BY <1>1, <1>2, <1>3
    <3>2. i \in 0..(Size - 1) /\ i < head
      BY <2>3, <3>1
    <3> QED BY <1>1, <3>2
  <2> HIDE DEF c
  <2>4. Lap(c, sizes, at, e, N + 1)
    BY <1>2, <2>1, <2>2, <2>3, LapKept
  <2> QED BY <2>4 DEF c
<1>6. \E j \in e..(N + 1) :
        HDR + l < at[j] /\ Moved(r, at, N + 1, j, at[e], rt)
  <2> DEFINE b == Marked(l)
             sz == sizes
             u == N + 1
             n == HDR + l
             h == 0
             nx == HDR + SizeAt(b, 0)
  <2>1. \A k \in e..(u - 1) : sz[k] \in Nat \ {0}
    BY <1>1, <1>2
  <2>2. rt \in Nat /\ Trails(rt, at, e, u)
    <3>1. CASE rt = 0 /\ at[e] # 0
      BY <1>4, <3>1 DEF Trails
    <3>2. CASE rt = 0 /\ at[e] = 0
      <4>1. e \in e..u
        BY <1>2
      <4> QED BY <3>2, <4>1 DEF Trails
    <3>3. CASE \E g \in e..N : rt = at[g]
      <4>1. PICK g \in e..N : rt = at[g]
        BY <3>3
      <4>2. g \in e..u /\ g \in w..(N + 1)
        BY <1>1, <1>2
      <4> QED BY <1>4, <4>1, <4>2 DEF Trails
    <3> QED BY <3>1, <3>2, <3>3
  <2>3. /\ Lap(b, sz, at, e, u) /\ SizeAt(b, at[u]) = 0 /\ at[u] # 0
        /\ at[u] < Size /\ h <= at[e] /\ ~(h + n >= at[u])
        /\ u \in Nat /\ e <= u /\ n \in Nat /\ h \in Nat
        /\ r = MakeRoom(b, h, at[e], rt, n) /\ h + n = n
    BY <1>1, <1>2, <1>3, <1>4, <1>5
  <2> HIDE DEF b, sz, u, n, nx, h
  <2>4. RoomMade(r, at, e, u, h, n, rt, nx)
    <3>1. nx = HDR + SizeAt(b, 0)
      BY DEF nx
    <3> QED BY <1>2, <2>1, <2>2, <2>3, <3>1, MakeRoomFacts
  <2>5. \E j \in e..u : n < at[j] /\ Moved(r, at, u, j, at[e], rt)
    BY <2>3, <2>4 DEF RoomMade
  <2> QED BY <2>5 DEF u, n
<1> QED BY <1>3, <1>5, <1>6

\* The layout after such an entry.
LEMMA PushWraps ==
  ASSUME Types, NEW l \in Lens, rb_push(l), Wraps(l), Follows(l),
         NEW at, NEW w, Current(at, w), NEW e \in w..N,
         NEW rt, rt = 0 \/ \E g \in e..N : rt = at[g],
         VRoom(l) = MakeRoom(Marked(l), 0, at[e], rt, HDR + l)
  PROVE  \E j \in e..(N + 1) : \E g1 \in j..(N + 1) : Layout(j, g1)'
<1>1. /\ l \in Nat \ {0} /\ N \in Nat /\ Size \in Nat /\ head \in Nat
      /\ N' = N + 1 /\ sizes'[N + 1] = l /\ NewAt(l) = 0
      /\ \A k \in 1..N : sizes[k] \in Nat \ {0} /\ sizes'[k] = sizes[k]
      /\ head' = 0 + (HDR + l) /\ head + HDR < Size
      /\ SizeAt(Marked(l), head) = 0
      /\ \A i \in 0..(Size - 1) : 0 + (HDR + l) <= i => buf'[i] = Marked(l)[i]
      /\ Size > 3 * (HDR + l) + HDR
  <2>1. NewAt(l) = 0 /\ Size > 3 * (HDR + l) + HDR /\ head + HDR < Size
    BY NumberTypes DEF NewAt, Types
  <2> QED BY <2>1, PushWrites
<1>2. /\ w \in 1..N /\ w \in Nat /\ N + 1 \in Nat /\ e \in Nat /\ e <= N + 1
      /\ Lap(buf, sizes, at, w, N + 1) /\ at[w] = 0 /\ at[N + 1] = head
  BY <1>1 DEF Current
<1>3. /\ HDR + l \in Nat /\ 0 + (HDR + l) < head /\ 0 + (HDR + l) = HDR + l
      /\ head # 0 /\ head < Size /\ Size <= head + HDR + l + HDR
  BY <1>1 DEF Wraps, HDR
<1>4. /\ \A k \in w..(N + 1) : k \in Nat /\ at[k] \in Nat
      /\ \A j, k \in w..(N + 1) : j <= k => at[j] <= at[k]
      /\ e \in w..(N + 1) /\ N + 1 \in w..(N + 1) /\ w \in w..(N + 1)
  <2>1. e \in w..(N + 1) /\ N + 1 \in w..(N + 1) /\ w \in w..(N + 1)
    BY <1>1, <1>2
  <2> QED BY <1>2, <2>1, LapGrows
<1>5. /\ Lap(Marked(l), sizes, at, e, N + 1)
      /\ \E j \in e..(N + 1) :
           HDR + l < at[j] /\ Moved(VRoom(l), at, N + 1, j, at[e], rt)
  <2>1. l # 0
    BY <1>1
  <2> QED BY <2>1, RoomWraps
<1>6. PICK j \in e..(N + 1) :
        HDR + l < at[j] /\ Moved(VRoom(l), at, N + 1, j, at[e], rt)
  BY <1>5
<1>7. j \in Nat /\ j \in w..(N + 1) /\ j <= N + 1 /\ j \in 1..(N + 1)
  BY <1>1, <1>2
<1>8. Lap(buf', sizes', at, j, N + 1)
  <2> DEFINE b == Marked(l)
             c == buf'
             sz == sizes'
  <2>1. Lap(b, sizes, at, j, N + 1)
    <3> HIDE DEF b
    <3>1. Lap(b, sizes, at, e, N + 1)
      BY <1>5 DEF b
    <3> QED BY <1>2, <3>1, LapPart
  <2>2. \A k \in j..((N + 1) - 1) : sizes[k] \in Nat /\ sz[k] = sizes[k]
    BY <1>1, <1>2, <1>7
  <2>3. ASSUME NEW i \in Nat, at[j] <= i, i < at[N + 1] PROVE c[i] = b[i]
    <3>1. at[j] \in Nat
      BY <1>4, <1>7
    <3>2. i \in 0..(Size - 1) /\ 0 + (HDR + l) <= i
      BY <1>1, <1>2, <1>3, <1>6, <2>3, <3>1
    <3> QED BY <1>1, <3>2
  <2> HIDE DEF b, c, sz
  <2>4. Lap(c, sz, at, j, N + 1)
    BY <1>2, <1>7, <2>1, <2>2, <2>3, LapKept
  <2> QED BY <2>4 DEF c, sz
<1>9. SizeAt(buf', head) = 0
  <2> DEFINE b == Marked(l)
             c == buf'
  <2>1. \A i \in 0..(Size - 1) : head <= i => c[i] = b[i]
    BY <1>1, <1>3
  <2>2. SizeAt(b, head) = 0 /\ head + HDR <= Size
    BY <1>1 DEF HDR
  <2> HIDE DEF b, c
  <2>3. SizeAt(c, head) = 0
    BY <1>1, <2>1, <2>2, MarkerKept
  <2> QED BY <2>3 DEF c
<1>10. PICK v : v = N + 1
  OBVIOUS
<1>11. PICK bt : Current(bt, v)' /\ bt[v] = 0
  BY <1>1, <1>10, PushBegins
<1>12. \E g1 \in j..v : RdTail' = at[g1] \/ (g1 = v /\ RdTail' = bt[v])
  <2>1. RdTail' = VRoom(l)[2]
    BY DEF Follows
  <2>2. CASE rt < at[e]
    <3>1. rt = 0
      <4>1. ASSUME NEW g \in e..N, rt = at[g] PROVE FALSE
        <5>1. g \in w..(N + 1) /\ e <= g
          BY <1>1, <1>2
        <5> QED BY <1>4, <2>2, <4>1, <5>1
      <4> QED BY <4>1
    <3>2. RdTail' = 0 /\ v \in j..v
      BY <1>6, <1>7, <1>10, <2>1, <2>2, <3>1 DEF Moved
    <3> QED BY <1>11, <3>2
  <2>3. CASE ~(rt < at[e])
    BY <1>6, <1>10, <2>1, <2>3 DEF Moved
  <2> QED BY <2>2, <2>3
<1>13. PICK g1 \in j..v : RdTail' = at[g1] \/ (g1 = v /\ RdTail' = bt[v])
  BY <1>12
<1>14. Wrapped(bt, at, v, j, g1)'
  <2>1. LogTail' = at[j] /\ head' < LogTail'
    BY <1>1, <1>3, <1>6 DEF Moved, Follows
  <2>2. j \in 1..v /\ Lap(buf', sizes', at, j, v)
    BY <1>7, <1>8, <1>10
  <2>3. SizeAt(buf', at[v]) = 0 /\ at[v] + HDR <= Size
    BY <1>1, <1>2, <1>9, <1>10 DEF HDR
  <2>4. Size <= at[v] + HDR + sizes'[v] + HDR
    BY <1>1, <1>2, <1>3, <1>10
  <2>5. v \in v..(N' + 1)
    BY <1>1, <1>10
  <2>6. \/ g1 \in j..v /\ RdTail' = at[g1]
        \/ g1 \in v..(N' + 1) /\ RdTail' = bt[g1]
    BY <1>13, <2>5
  <2> QED BY <1>11, <2>1, <2>2, <2>3, <2>4, <2>6 DEF Wrapped
<1>15. Layout(j, g1)'
  BY <1>14 DEF Layout
<1> QED BY <1>10, <1>15

\* The loop, for a new entry behind the current lap, when the tail is in the
\* lap before: it finds room there, or goes on to the second entry of the
\* current lap, of which there is more than one then.
RoomOfWrapped(at, old, w, f, g, l) ==
  /\ head + (HDR + l) >= old[w] => w < N /\ at[w + 1] \in Nat /\ at[w + 1] < head
  /\ RdTail < old[f] => g \in w..(N + 1) /\ RdTail = at[g]
  /\ \/ \E j \in f..w : /\ head + (HDR + l) < old[j]
                         /\ Moved(VRoom(l), old, w, j, old[f], RdTail)
     \/ /\ head + (HDR + l) >= old[w]
        /\ VRoom(l) = <<at[w + 1], IF RdTail < old[f] THEN RdTail ELSE at[w + 1]>>

LEMMA RoomWrapped ==
  ASSUME Types, NEW at, NEW old, NEW w, NEW f \in Nat, NEW g \in Nat,
         Wrapped(at, old, w, f, g), NEW l \in Lens, l # 0, ~Wraps(l)
  PROVE  RoomOfWrapped(at, old, w, f, g, l)
<1>1. /\ l \in Nat \ {0} /\ N \in Nat /\ Size \in Nat /\ head \in Nat
      /\ \A k \in 1..N : sizes[k] \in Nat \ {0}
      /\ Size > 3 * (HDR + l) + HDR
  BY MarkedFacts, NumberTypes
<1>2. /\ Current(at, w) /\ f \in 1..w /\ Lap(buf, sizes, old, f, w)
      /\ LogTail = old[f] /\ head < LogTail
      /\ SizeAt(buf, old[w]) = 0 /\ old[w] + HDR <= Size
      /\ Size <= old[w] + HDR + sizes[w] + HDR
      /\ \/ g \in f..w /\ RdTail = old[g]
         \/ g \in w..(N + 1) /\ RdTail = at[g]
  BY DEF Wrapped
<1>3. /\ w \in 1..N /\ w \in Nat /\ N + 1 \in Nat /\ f <= w
      /\ Lap(buf, sizes, at, w, N + 1) /\ at[w] = 0 /\ at[N + 1] = head
  BY <1>1, <1>2 DEF Current
<1>4. /\ w \in w..(N + 1) /\ w + 1 \in w..(N + 1) /\ N + 1 \in w..(N + 1)
      /\ w \in w..N /\ w \in f..w /\ f \in f..w
  BY <1>1, <1>2, <1>3
<1>5. /\ \A k \in w..(N + 1) : k \in Nat /\ at[k] \in Nat
      /\ \A j, k \in w..(N + 1) : j < k => at[j] < at[k]
      /\ \A j, k \in w..(N + 1) : j <= k => at[j] <= at[k]
  BY <1>3, LapGrows
<1>6. /\ \A k \in f..w : k \in Nat /\ old[k] \in Nat
      /\ \A j, k \in f..w : j <= k => old[j] <= old[k]
  BY <1>2, <1>3, LapGrows
<1>7. /\ at[w + 1] = HDR + sizes[w] /\ SizeAt(buf, 0) = sizes[w]
      /\ sizes[w] \in Nat \ {0} /\ Size > 3 * (HDR + sizes[w]) + HDR
  <2>1. sizes[w] \in Nat \ {0} /\ Size > 3 * (HDR + sizes[w]) + HDR
    BY <1>3, NumberTypes
  <2>2. w \in w..((N + 1) - 1)
    BY <1>1, <1>4
  <2>3. at[w + 1] = 0 + HDR + sizes[w] /\ SizeAt(buf, 0) = sizes[w]
    BY <1>3, <2>2 DEF Lap, Stands
  <2> QED BY <2>1, <2>3 DEF HDR
<1>8. ASSUME head + (HDR + l) >= old[w]
      PROVE  w < N /\ at[w + 1] \in Nat /\ at[w + 1] < head
  <2>1. old[w] \in Nat
    BY <1>4, <1>6
  <2>2. CASE w = N
    <3>1. head = HDR + sizes[w]
      BY <1>3, <1>7, <2>2
    <3> QED BY <1>1, <1>2, <1>7, <1>8, <2>1, <3>1 DEF HDR
  <2>3. CASE w < N
    <3>1. w + 1 < N + 1
      BY <1>1, <1>3, <2>3
    <3> QED BY <1>3, <1>4, <1>5, <2>3, <3>1
  <2> QED BY <1>1, <1>3, <2>2, <2>3
<1>9. /\ RdTail \in Nat
      /\ RdTail < old[f] \/ \E k \in f..w : RdTail = old[k]
      /\ RdTail < old[f] => g \in w..(N + 1) /\ RdTail = at[g]
  <2>1. CASE g \in f..w /\ RdTail = old[g]
    <3>1. old[f] <= old[g] /\ old[f] \in Nat /\ old[g] \in Nat
      BY <1>4, <1>6, <2>1
    <3> QED BY <2>1, <3>1
  <2>2. CASE g \in w..(N + 1) /\ RdTail = at[g]
    <3>1. at[g] \in Nat /\ at[g] <= head /\ old[f] \in Nat
      BY <1>3, <1>4, <1>5, <1>6, <2>2
    <3> QED BY <1>1, <1>2, <2>2, <3>1
  <2> QED BY <1>2, <2>1, <2>2
<1>10. \/ \E j \in f..w : /\ head + (HDR + l) < old[j]
                          /\ Moved(VRoom(l), old, w, j, old[f], RdTail)
       \/ /\ head + (HDR + l) >= old[w]
          /\ VRoom(l) = <<at[w + 1],
                         IF RdTail < old[f] THEN RdTail ELSE at[w + 1]>>
  <2> DEFINE b == buf
             sz == sizes
             h == head
             rt == RdTail
             r == VRoom(l)
             n == HDR + l
             nx == at[w + 1]
  <2>1. \A k \in f..(w - 1) : sz[k] \in Nat \ {0}
    BY <1>1, <1>2, <1>3
  <2>2. old[w] \in Nat /\ old[w] # 0 /\ old[w] < Size /\ h <= old[f]
    <3>1. old[f] <= old[w] /\ old[f] \in Nat /\ old[w] \in Nat
      BY <1>3, <1>4, <1>6
    <3> QED BY <1>1, <1>2, <3>1 DEF HDR
  <2>3. r = MakeRoom(b, h, old[f], rt, n)
    BY <1>2 DEF VRoom, Marked, NewAt
  <2>4. /\ n \in Nat /\ h \in Nat /\ nx = HDR + SizeAt(b, 0)
        /\ h + n >= old[w] => nx \in Nat /\ nx < h
    BY <1>1, <1>7, <1>8 DEF HDR
  <2>5. /\ rt \in Nat /\ Trails(rt, old, f, w)
        /\ Lap(b, sz, old, f, w) /\ SizeAt(b, old[w]) = 0
    BY <1>2, <1>9 DEF Trails
  <2> HIDE DEF b, sz, h, rt, r, n, nx
  <2>6. RoomMade(r, old, f, w, h, n, rt, nx)
    <3>1. w \in Nat /\ f <= w
      BY <1>3
    <3> QED BY <2>1, <2>2, <2>3, <2>4, <2>5, <3>1, MakeRoomFacts
  <2> QED BY <2>6 DEF h, rt, r, n, nx, RoomMade
<1> QED BY <1>8, <1>9, <1>10 DEF RoomOfWrapped

\* A new entry behind the current lap, the tail in the lap before.
LEMMA PushWrapped ==
  ASSUME Types, NEW at, NEW old, NEW w, NEW f \in Nat, NEW g \in Nat,
         Wrapped(at, old, w, f, g), NEW l \in Lens, rb_push(l), ~Wraps(l),
         Follows(l)
  PROVE  \E j \in f..(N + 1) : \E g1 \in {g} \cup (j..(N + 1)) : Layout(j, g1)'
<1>1. /\ l \in Nat \ {0} /\ N \in Nat /\ Size \in Nat /\ head \in Nat
      /\ N' = N + 1 /\ NewAt(l) = head
      /\ \A k \in 1..N : sizes[k] \in Nat \ {0} /\ sizes'[k] = sizes[k]
      /\ head' = head + (HDR + l)
      /\ \A i \in 0..(Size - 1) : head + (HDR + l) <= i => buf'[i] = buf[i]
      /\ Size > 3 * (HDR + l) + HDR
  <2>1. NewAt(l) = head /\ Marked(l) = buf /\ Size > 3 * (HDR + l) + HDR
    BY NumberTypes DEF NewAt, Marked
  <2> QED BY <2>1, PushWrites
<1>2. /\ Current(at, w) /\ f \in 1..w /\ Lap(buf, sizes, old, f, w)
      /\ LogTail = old[f] /\ head < LogTail
      /\ SizeAt(buf, old[w]) = 0 /\ old[w] + HDR <= Size
      /\ Size <= old[w] + HDR + sizes[w] + HDR
      /\ \/ g \in f..w /\ RdTail = old[g]
         \/ g \in w..(N + 1) /\ RdTail = at[g]
  BY DEF Wrapped
<1>3. /\ w \in 1..N /\ w \in Nat /\ N + 1 \in Nat /\ f <= w
      /\ Lap(buf, sizes, at, w, N + 1) /\ at[w] = 0 /\ at[N + 1] = head
  BY <1>1, <1>2 DEF Current
<1>4. /\ w \in w..(N + 1) /\ w + 1 \in w..(N + 1) /\ N + 1 \in w..(N + 1)
      /\ w \in w..N /\ w \in f..w /\ f \in f..w
  BY <1>1, <1>2, <1>3
<1>6. /\ \A k \in f..w : k \in Nat /\ old[k] \in Nat
      /\ \A j, k \in f..w : j <= k => old[j] <= old[k]
  BY <1>2, <1>3, LapGrows
<1>7. RoomOfWrapped(at, old, w, f, g, l)
  <2>1. l # 0
    BY <1>1
  <2> QED BY <2>1, RoomWrapped
<1>8. ASSUME head + (HDR + l) >= old[w]
      PROVE  w < N /\ at[w + 1] \in Nat /\ at[w + 1] < head
  BY <1>7, <1>8 DEF RoomOfWrapped
<1>9. RdTail < old[f] => g \in w..(N + 1) /\ RdTail = at[g]
  BY <1>7 DEF RoomOfWrapped
<1>10. \/ \E j \in f..w : /\ head + (HDR + l) < old[j]
                          /\ Moved(VRoom(l), old, w, j, old[f], RdTail)
       \/ /\ head + (HDR + l) >= old[w]
          /\ VRoom(l) = <<at[w + 1],
                         IF RdTail < old[f] THEN RdTail ELSE at[w + 1]>>
  BY <1>7 DEF RoomOfWrapped
<1>11. PICK bt : Current(bt, w)' /\ \A k \in w..(N + 1) : bt[k] = at[k]
  BY <1>2, PushAppends
<1>12. LogTail' = VRoom(l)[1] /\ RdTail' = VRoom(l)[2]
  BY DEF Follows
<1>13. ASSUME NEW j \in f..w, head + (HDR + l) < old[j],
              Moved(VRoom(l), old, w, j, old[f], RdTail)
       PROVE  \E g1 \in {g} \cup (j..(N + 1)) : Layout(j, g1)'
  <2>1. /\ j \in Nat /\ j <= w /\ j \in 1..w /\ old[j] \in Nat
        /\ old[j] <= old[w] /\ old[w] \in Nat
    BY <1>2, <1>3, <1>4, <1>6
  <2>2. Lap(buf', sizes', old, j, w)
    <3> DEFINE c == buf'
               tz == sizes'
    <3>1. Lap(buf, sizes, old, j, w)
      BY <1>2, <1>3, LapPart
    <3>2. \A k \in j..(w - 1) : sizes[k] \in Nat /\ tz[k] = sizes[k]
      BY <1>1, <1>3, <2>1
    <3>3. ASSUME NEW i \in Nat, old[j] <= i, i < old[w] PROVE c[i] = buf[i]
      <4>1. i \in 0..(Size - 1)
        BY <1>1, <1>2, <2>1, <3>3 DEF HDR
      <4>2. head + (HDR + l) <= i
        BY <1>1, <1>13, <2>1, <3>3 DEF HDR
      <4> QED BY <1>1, <4>1, <4>2
    <3> HIDE DEF c, tz
    <3>4. Lap(c, tz, old, j, w)
      BY <1>3, <2>1, <3>1, <3>2, <3>3, LapKept
    <3> QED BY <3>4 DEF c, tz
  <2>3. SizeAt(buf', old[w]) = 0
    <3> DEFINE c == buf'
    <3>1. ASSUME NEW i \in 0..(Size - 1), old[w] <= i PROVE c[i] = buf[i]
      <4>1. head + (HDR + l) <= i
        BY <1>1, <1>13, <2>1, <3>1 DEF HDR
      <4> QED BY <1>1, <4>1
    <3> HIDE DEF c
    <3>2. SizeAt(c, old[w]) = 0
      BY <1>2, <2>1, <3>1, MarkerKept
    <3> QED BY <3>2 DEF c
  <2>4. LogTail' = old[j] /\ head' < LogTail'
    BY <1>1, <1>12, <1>13 DEF Moved
  <2>5. Size <= old[w] + HDR + sizes'[w] + HDR
    BY <1>1, <1>2, <1>3
  <2>6. \E g1 \in {g} \cup (j..(N + 1)) :
          \/ g1 \in j..w /\ RdTail' = old[g1]
          \/ g1 \in w..(N' + 1) /\ RdTail' = bt[g1]
    <3>1. CASE RdTail < old[f]
      <4>1. RdTail' = at[g] /\ g \in w..(N + 1)
        BY <1>9, <1>12, <1>13, <3>1 DEF Moved
      <4>2. g \in w..(N' + 1)
        BY <1>1, <1>3, <4>1
      <4> QED BY <1>11, <4>1, <4>2
    <3>2. CASE ~(RdTail < old[f])
      <4>1. PICK k \in j..w : RdTail' = old[k]
        BY <1>12, <1>13, <3>2 DEF Moved
      <4>2. k \in j..(N + 1)
        BY <1>1, <1>3, <2>1
      <4> QED BY <4>1, <4>2
    <3> QED BY <3>1, <3>2
  <2>7. PICK g1 \in {g} \cup (j..(N + 1)) :
          \/ g1 \in j..w /\ RdTail' = old[g1]
          \/ g1 \in w..(N' + 1) /\ RdTail' = bt[g1]
    BY <2>6
  <2>8. Wrapped(bt, old, w, j, g1)'
    BY <1>2, <1>11, <2>1, <2>2, <2>3, <2>4, <2>5, <2>7 DEF Wrapped
  <2>9. Layout(j, g1)'
    BY <2>8 DEF Layout
  <2> QED BY <2>9
<1>14. ASSUME head + (HDR + l) >= old[w],
              VRoom(l) = <<at[w + 1],
                          IF RdTail < old[f] THEN RdTail ELSE at[w + 1]>>
       PROVE  \E g1 \in {g} \cup ((w + 1)..(N + 1)) : Layout(w + 1, g1)'
  <2>1. w < N /\ w + 1 \in w..N' /\ w + 1 <= w + 1 /\ bt[w + 1] = at[w + 1]
    BY <1>1, <1>3, <1>4, <1>8, <1>11, <1>14
  <2>2. LogTail' = bt[w + 1]
    BY <1>12, <1>14, <2>1
  <2>3. \E g1 \in {g} \cup ((w + 1)..(N + 1)) :
          g1 \in {w} \cup ((w + 1)..(N' + 1)) /\ RdTail' = bt[g1]
    <3>1. CASE RdTail < old[f]
      <4>1. RdTail' = at[g] /\ g \in w..(N + 1)
        BY <1>9, <1>12, <1>14, <3>1
      <4>2. g \in {w} \cup ((w + 1)..(N' + 1)) /\ bt[g] = at[g]
        BY <1>1, <1>3, <1>11, <4>1
      <4> QED BY <4>1, <4>2
    <3>2. CASE ~(RdTail < old[f])
      <4>1. RdTail' = bt[w + 1]
        BY <1>12, <1>14, <2>1, <3>2
      <4>2. w + 1 \in (w + 1)..(N + 1) /\ w + 1 \in (w + 1)..(N' + 1)
        BY <1>1, <1>3, <2>1
      <4> QED BY <4>1, <4>2
    <3> QED BY <3>1, <3>2
  <2>4. PICK g1 \in {g} \cup ((w + 1)..(N + 1)) :
          g1 \in {w} \cup ((w + 1)..(N' + 1)) /\ RdTail' = bt[g1]
    BY <2>3
  <2>5. Unwrapped(bt, w, w + 1, g1)'
    BY <1>11, <2>1, <2>2, <2>4 DEF Unwrapped
  <2>6. Layout(w + 1, g1)'
    BY <2>5 DEF Layout
  <2> QED BY <2>6
<1>15. /\ \A j \in f..w : j \in f..(N + 1)
       /\ head + (HDR + l) >= old[w] => w + 1 \in f..(N + 1)
  BY <1>1, <1>3, <1>8
<1>16. CASE \E j \in f..w : /\ head + (HDR + l) < old[j]
                            /\ Moved(VRoom(l), old, w, j, old[f], RdTail)
  BY <1>13, <1>15, <1>16
<1>17. CASE /\ head + (HDR + l) >= old[w]
            /\ VRoom(l) = <<at[w + 1],
                           IF RdTail < old[f] THEN RdTail ELSE at[w + 1]>>
  BY <1>14, <1>15, <1>17
<1> QED BY <1>10, <1>16, <1>17

\* An entry that is pushed is kept, and it is ahead of the reader: the oldest
\* entry and the next one for the reader afterwards.
Advances(f, g) ==
  \E f1 \in f..(N + 1) : \E g1 \in {g} \cup (f1..(N + 1)) : Layout(f1, g1)'

LEMMA PushLayout ==
  ASSUME Types, NEW f \in Nat, NEW g \in Nat, Layout(f, g),
         NEW l \in Lens, rb_push(l),
         IF N = 0 THEN LogTail' = 0 /\ RdTail' = 0 ELSE Follows(l)
  PROVE  Advances(f, g)
<1>1. N \in Nat /\ head \in Nat /\ f \in 1..(N + 1) /\ g \in 1..(N + 1)
  BY PushWrites, LayoutFinds
<1>2. CASE Unused(f, g)
  <2>1. N = 0
    BY <1>2 DEF Unused, N
  <2>2. Layout(1, 1)' /\ f = 1 /\ g = 1 /\ 1 \in 1..(N + 1)
    BY <1>1, <1>2, <2>1, PushUnused DEF Unused
  <2> QED BY <2>2 DEF Advances
<1>3. ASSUME Layout(f, g)' PROVE Advances(f, g)
  <2>1. f \in f..(N + 1)
    BY <1>1
  <2> QED BY <1>3, <2>1 DEF Advances
<1>4. ASSUME NEW e \in f..(N + 1),
             \E j \in e..(N + 1) : \E g1 \in j..(N + 1) : Layout(j, g1)'
      PROVE  Advances(f, g)
  <2>1. PICK j \in e..(N + 1) : \E g1 \in j..(N + 1) : Layout(j, g1)'
    BY <1>4
  <2>2. j \in f..(N + 1)
    BY <1>1
  <2> QED BY <2>1, <2>2 DEF Advances
<1>5. ASSUME NEW at, NEW w, Unwrapped(at, w, f, g) PROVE Advances(f, g)
  <2>1. /\ Current(at, w) /\ w \in 1..N /\ w \in Nat /\ f \in w..N
        /\ LogTail = at[f] /\ g \in {w} \cup (f..(N + 1)) /\ RdTail = at[g]
        /\ at[w] = 0 /\ at[N + 1] = head /\ Lap(buf, sizes, at, w, N + 1)
        /\ N + 1 \in Nat
    BY <1>1, <1>5 DEF Unwrapped, Current
  <2>0. Follows(l)
    BY <1>1, <2>1
  <2>2. CASE ~Wraps(l)
    BY <1>3, <1>5, <2>0, <2>2, PushUnwrapped
  <2>3. CASE Wraps(l)
    <3>1. ASSUME NEW k \in w..N
          PROVE  at[k] \in Nat /\ at[k] < head
      <4>1. k \in w..(N + 1) /\ N + 1 \in w..(N + 1) /\ k < N + 1
        BY <1>1, <2>1
      <4> QED BY <2>1, <4>1, LapGrows
    <3> DEFINE rt == IF RdTail >= head THEN 0 ELSE RdTail
    <3>2. rt = 0 \/ \E k \in f..N : rt = at[k]
      <4>1. CASE g = w
        <5>1. rt = 0
          BY <1>1, <2>1, <4>1
        <5> QED BY <5>1
      <4>2. CASE g = N + 1
        <5>1. rt = 0
          BY <1>1, <2>1, <4>2
        <5> QED BY <5>1
      <4>3. CASE g \in f..N
        <5>1. g \in w..N
          BY <1>1, <2>1, <4>3
        <5>2. at[g] \in Nat /\ at[g] < head
          BY <3>1, <5>1
        <5>3. rt = at[g]
          BY <1>1, <2>1, <5>2
        <5> QED BY <4>3, <5>3
      <4>4. g = w \/ g = N + 1 \/ g \in f..N
        BY <1>1, <2>1
      <4> QED BY <4>1, <4>2, <4>3, <4>4
    <3>3. VRoom(l) = MakeRoom(Marked(l), 0, at[f], rt, HDR + l)
      <4>1. ~(LogTail >= head)
        BY <1>1, <2>1, <3>1
      <4> QED BY <2>1, <2>3, <4>1 DEF VRoom, NewAt
    <3> HIDE DEF rt
    <3>4. \E j \in f..(N + 1) : \E g1 \in j..(N + 1) : Layout(j, g1)'
      BY <2>0, <2>1, <2>3, <3>2, <3>3, PushWraps
    <3>5. f \in f..(N + 1)
      BY <1>1
    <3> QED BY <1>4, <3>4, <3>5
  <2> QED BY <2>2, <2>3
<1>6. ASSUME NEW at, NEW old, NEW w, Wrapped(at, old, w, f, g)
      PROVE  Advances(f, g)
  <2>1. /\ Current(at, w) /\ w \in 1..N /\ w \in Nat /\ f \in 1..w
        /\ LogTail = old[f] /\ head < LogTail /\ Lap(buf, sizes, old, f, w)
        /\ at[w] = 0 /\ at[N + 1] = head /\ Lap(buf, sizes, at, w, N + 1)
        /\ N + 1 \in Nat
        /\ \/ g \in f..w /\ RdTail = old[g]
           \/ g \in w..(N + 1) /\ RdTail = at[g]
    BY <1>1, <1>6 DEF Wrapped, Current
  <2>0. Follows(l)
    BY <1>1, <2>1
  <2>2. CASE ~Wraps(l)
    BY <1>6, <2>0, <2>2, PushWrapped DEF Advances
  <2>3. CASE Wraps(l)
    <3> DEFINE rt == IF RdTail >= head THEN 0 ELSE RdTail
    <3>1. old[f] \in Nat
      BY <2>1 DEF Lap
    <3>2. rt = 0 \/ \E k \in w..N : rt = at[k]
      <4>1. CASE g \in f..w /\ RdTail = old[g]
        <5>1. f \in f..w /\ f <= g
          BY <1>1, <2>1, <4>1
        <5>2. old[g] \in Nat /\ old[f] <= old[g]
          BY <2>1, <4>1, <5>1, LapGrows
        <5>3. rt = 0
          BY <1>1, <2>1, <3>1, <4>1, <5>2
        <5> QED BY <5>3
      <4>2. CASE g = N + 1 /\ RdTail = at[g]
        <5>1. rt = 0
          BY <1>1, <2>1, <4>2
        <5> QED BY <5>1
      <4>3. CASE g \in w..N /\ RdTail = at[g]
        <5>1. g \in w..(N + 1) /\ N + 1 \in w..(N + 1) /\ g < N + 1
          BY <1>1, <2>1, <4>3
        <5>2. at[g] \in Nat /\ at[g] < head
          BY <2>1, <5>1, LapGrows
        <5>3. rt = at[g]
          BY <1>1, <4>3, <5>2
        <5> QED BY <4>3, <5>3
      <4>4. g \in w..(N + 1) => g = N + 1 \/ g \in w..N
        BY <1>1, <2>1
      <4> QED BY <2>1, <4>1, <4>2, <4>3, <4>4
    <3>3. VRoom(l) = MakeRoom(Marked(l), 0, at[w], rt, HDR + l)
      <4>1. LogTail >= head
        BY <1>1, <2>1, <3>1
      <4> QED BY <2>1, <2>3, <4>1 DEF VRoom, NewAt
    <3> HIDE DEF rt
    <3>4. w \in w..N /\ w \in f..(N + 1)
      BY <1>1, <2>1
    <3>5. \E j \in w..(N + 1) : \E g1 \in j..(N + 1) : Layout(j, g1)'
      BY <2>0, <2>1, <2>3, <3>2, <3>3, <3>4, PushWraps
    <3> QED BY <1>4, <3>4, <3>5
  <2> QED BY <2>2, <2>3
<1> QED BY <1>2, <1>5, <1>6 DEF Layout

-----------------------------------------------------------------------------
(***************************************************************************)
(* The tails that rb_push leaves are the ones that count, settled or not.  *)
(***************************************************************************)

LEMMA HeadAhead ==
  ASSUME Types, NEW f, NEW g, Layout(f, g), N # 0
  PROVE  head > 0
<1>1. ASSUME NEW at, NEW w, Current(at, w) PROVE head > 0
  <2>1. w \in w..N /\ at[w] = 0 /\ head \in Nat
    BY <1>1, NumberTypes DEF Current, Types
  <2>2. at[w] # head
    BY <1>1, <2>1, CurrentReads
  <2> QED BY <2>1, <2>2
<1>2. ~Unused(f, g)
  BY DEF Unused, N
<1>3. CASE \E at, w : Unwrapped(at, w, f, g)
  BY <1>1, <1>3 DEF Unwrapped
<1>4. CASE \E at, old, w : Wrapped(at, old, w, f, g)
  BY <1>1, <1>4 DEF Wrapped
<1> QED BY <1>2, <1>3, <1>4 DEF Layout

\* A tail that is not settled is past the new entry, or it has come back, by
\* the way of the first entry, to the second.
PushedTail(l) ==
  /\ tail' \in Nat /\ rdtail' \in Nat
  /\ tail' = Room(l)[1] /\ rdtail' = Room(l)[2]
  /\ settled' <=> settled \/ Wraps(l) \/ tail' < head'
  /\ ~settled /\ ~Wraps(l) =>
       tail' > head' \/ (N # 0 /\ tail' = HDR + SizeAt(buf, 0) /\ tail' < head)

LEMMA PushTail ==
  ASSUME Types, Leftover, NEW l \in Lens, rb_push(l), N # 0 => head > 0
  PROVE  PushedTail(l)
<1>1. /\ l # 0 /\ tail' = Room(l)[1] /\ rdtail' = Room(l)[2]
      /\ head' = NewAt(l) + (HDR + l)
  BY DEF rb_push
<1>2. settled' <=> settled \/ Wraps(l) \/ tail' < head'
  BY Zenon DEF rb_push
<1>3. /\ l \in Nat /\ head \in Nat /\ NewAt(l) \in Nat /\ HDR + l \in Nat
      /\ NewAt(l) + (HDR + l) + HDR < Size
      /\ DOMAIN Marked(l) = 0..(Size - 1)
      /\ \A i \in 0..(Size - 1) : Marked(l)[i] \in Nat
      /\ tail \in Nat /\ rdtail \in Nat
  BY <1>1, MarkedFacts DEF Leftover, HDR
<1> DEFINE t == IF Wraps(l) /\ tail >= head THEN 0 ELSE tail
           rt == IF Wraps(l) /\ rdtail >= head THEN 0 ELSE rdtail
<1>4. t \in Nat /\ rt \in Nat /\ (~Wraps(l) => t = tail)
  BY <1>3
<1>5. Room(l) = MakeRoom(Marked(l), NewAt(l), t, rt, HDR + l)
  BY DEF Room
<1> HIDE DEF t, rt
<1>6. /\ Room(l)[1] \in Nat /\ Room(l)[2] \in Nat
      /\ NewAt(l) <= t =>
           NewAt(l) <= Room(l)[1] \/ Room(l)[1] = HDR + SizeAt(Marked(l), 0)
  <2>1. PICK b : b = Marked(l)
    OBVIOUS
  <2>2. PICK r : r = Room(l)
    OBVIOUS
  <2>3. Bytes(b) /\ r = MakeRoom(b, NewAt(l), t, rt, HDR + l)
    BY <1>3, <1>5, <2>1, <2>2 DEF Bytes
  <2>4. RoomTyped(r, b, NewAt(l), t)
    BY <1>3, <1>4, <2>3, RoomTypes
  <2> QED BY <2>1, <2>2, <2>4 DEF RoomTyped
<1>7. ASSUME ~settled, ~Wraps(l)
      PROVE  tail' > head' \/ (N # 0 /\ tail' = HDR + SizeAt(buf, 0) /\ tail' < head)
  <2>1. NewAt(l) = head /\ Marked(l) = buf /\ t = tail
    BY <1>4, <1>7 DEF NewAt, Marked
  <2>2. head <= tail
    BY <1>3, <1>7 DEF Leftover
  <2>3. head <= tail' \/ tail' = HDR + SizeAt(buf, 0)
    BY <1>1, <1>6, <2>1, <2>2
  <2>4. ~InTheWay(buf, head, HDR + l, tail')
    BY <1>1, <2>1 DEF rb_push, LoopEnds
  <2>5. CASE head <= tail'
    <3>1. ~(tail' = 0 /\ SizeAt(buf, tail') = 0)
      <4>1. CASE N = 0
        BY <1>7, <4>1 DEF Leftover
      <4>2. CASE N # 0
        BY <1>3, <2>5, <4>2
      <4> QED BY <4>1, <4>2
    <3>2. ~(head + (HDR + l) >= tail')
      BY <2>4, <2>5, <3>1 DEF InTheWay
    <3> QED BY <1>1, <1>3, <1>6, <2>1, <3>2
  <2>6. CASE ~(head <= tail')
    <3>1. N # 0
      BY <1>1, <1>3, <1>6, <2>6 DEF Leftover
    <3> QED BY <1>1, <1>3, <1>6, <2>3, <2>6, <3>1
  <2> QED BY <2>5, <2>6
<1> QED BY <1>1, <1>2, <1>6, <1>7 DEF PushedTail

LEMMA PushLeftover ==
  ASSUME Types, Leftover, NEW l \in Lens, rb_push(l), N # 0 => head > 0
  PROVE  Leftover'
<1>1. PushedTail(l)
  BY PushTail
<1>2. N' # 0 /\ wpc' = "wake" /\ head' \in Nat /\ head \in Nat
  <2>1. N \in Nat /\ N' = N + 1 /\ wpc' = "wake" /\ Types' /\ Types
    BY PushWrites, PushIs
  <2> QED BY <2>1 DEF Types
<1>3. ASSUME ~settled' PROVE tail' > head'
  <2>1. ~settled /\ ~Wraps(l) /\ ~(tail' < head') /\ tail' \in Nat
    BY <1>1, <1>3, Zenon DEF PushedTail
  <2>2. head' = head + (HDR + l) /\ l \in Nat
    BY <2>1, PushIs, NumberTypes DEF NewAt
  <2>3. tail' > head' \/ tail' < head
    BY <1>1, <2>1 DEF PushedTail
  <2> QED BY <1>2, <2>1, <2>2, <2>3 DEF HDR
<1> QED BY <1>1, <1>2, <1>3 DEF PushedTail, Leftover

\* The first entry of all is found at offset 0, whatever the buffer held.
LEMMA PushFirst ==
  ASSUME Types, Control, Leftover, NEW f, NEW g, Layout(f, g), N = 0,
         NEW l \in Lens, rb_push(l)
  PROVE  LogTail' = 0 /\ RdTail' = 0
<1>1. PushedTail(l)
  BY PushTail
<1>2. /\ head = 0 /\ tail = 0 /\ (settled <=> SizeAt(buf, 0) = 0)
      /\ (trusted => settled) /\ trusted' = trusted /\ l \in Nat
  BY PushIs, PushWrites DEF Leftover, Control
<1>3. ~Wraps(l) /\ NewAt(l) = 0 /\ Marked(l) = buf
  <2>1. Size \in Nat /\ l \in Nat /\ Size > 3 * (HDR + l) + HDR
    BY NumberTypes
  <2>2. ~Wraps(l)
    BY <1>2, <2>1 DEF Wraps, HDR
  <2> QED BY <1>2, <2>2 DEF NewAt, Marked
<1>4. CASE settled
  <2>1. ~InTheWay(buf, 0, HDR + l, 0)
    BY <1>2, <1>4 DEF InTheWay
  <2>2. Room(l) = <<0, rdtail>>
    <3>1. Room(l) = MakeRoom(buf, 0, 0, rdtail, HDR + l)
      BY <1>2, <1>3 DEF Room
    <3> QED BY <2>1, <3>1, MakeRoomStays
  <2>3. settled' /\ tail' = 0 /\ rdtail' = rdtail
    BY <1>1, <1>4, <2>2 DEF PushedTail
  <2>4. trusted => rdtail = 0
    <3>1. RdTail = 0
      <4>1. ASSUME NEW at, NEW w, Current(at, w) PROVE FALSE
        BY <4>1 DEF Current
      <4> QED BY <4>1 DEF Layout, Unused, Unwrapped, Wrapped
    <3> QED BY <3>1 DEF RdTail
  <2> QED BY <1>2, <2>3, <2>4 DEF LogTail, Oldest, RdTail
<1>5. CASE ~settled
  <2>1. tail' > head' /\ tail' \in Nat /\ head' \in Nat
    <3>1. head' \in Nat
      BY PushWrites DEF Types
    <3> QED BY <1>1, <1>3, <1>5, <3>1 DEF PushedTail
  <2>2. ~settled'
    BY <1>1, <1>3, <1>5, <2>1 DEF PushedTail
  <2> QED BY <1>2, <1>5, <2>2 DEF LogTail, Oldest, RdTail
<1> QED BY <1>4, <1>5

\* The tail that becomes settled in the first lap: it is at the second entry.
Settles(l) == ~settled /\ ~Wraps(l) /\ settled'

LEMMA PushFollows ==
  ASSUME Types, Control, Leftover, head > 0, N # 0,
         NEW l \in Lens, rb_push(l), ~Settles(l)
  PROVE  Follows(l)
<1>1. PushedTail(l)
  BY PushTail
<1>2. /\ trusted => settled
      /\ trusted' <=> trusted
      /\ head \in Nat /\ tail \in Nat /\ head > 0
      /\ ~settled => tail > head
  BY PushIs DEF Leftover, Control, Types
<1> DEFINE t == IF Wraps(l) /\ tail >= head THEN 0 ELSE tail
           rt == IF Wraps(l) /\ rdtail >= head THEN 0 ELSE rdtail
<1>3. Room(l) = MakeRoom(Marked(l), NewAt(l), t, rt, HDR + l)
  BY DEF Room
<1>4. CASE trusted
  <2>1. settled /\ settled' /\ trusted'
    BY <1>1, <1>2, <1>4 DEF PushedTail
  <2>2. LogTail = tail /\ RdTail = rdtail /\ LogTail' = tail' /\ RdTail' = rdtail'
    BY <1>4, <2>1 DEF LogTail, Oldest, RdTail
  <2>3. VRoom(l) = Room(l)
    BY <1>3, <2>2 DEF VRoom
  <2> QED BY <1>1, <2>2, <2>3 DEF Follows, PushedTail
<1>5. ASSUME ~trusted, settled \/ Wraps(l) PROVE Follows(l)
  <2>1. settled' /\ ~trusted' /\ RdTail = LogTail
    BY <1>1, <1>2, <1>5 DEF PushedTail, RdTail
  <2>2. LogTail' = tail' /\ RdTail' = tail'
    BY <2>1 DEF LogTail, Oldest, RdTail
  <2>3. t = IF Wraps(l) /\ LogTail >= head THEN 0 ELSE LogTail
    BY <1>2, <1>5 DEF LogTail, Oldest
  <2>4. VRoom(l) = MakeRoom(Marked(l), NewAt(l), t, t, HDR + l)
    BY <2>1, <2>3 DEF VRoom
  <2> HIDE DEF t, rt
  <2>5. VRoom(l) = <<Room(l)[1], Room(l)[1]>>
    BY <1>3, <2>4, TailAlone
  <2> QED BY <1>1, <2>2, <2>5 DEF Follows, PushedTail
<1>6. CASE ~settled /\ ~Wraps(l)
  <2>1. ~settled' /\ ~trusted' /\ ~trusted
    BY <1>2, <1>6 DEF Settles
  <2>2. LogTail = 0 /\ RdTail = 0 /\ LogTail' = 0 /\ RdTail' = 0
    BY <1>6, <2>1 DEF LogTail, Oldest, RdTail
  <2>3. ~InTheWay(buf, head, HDR + l, 0)
    BY <1>2 DEF InTheWay
  <2>4. VRoom(l) = MakeRoom(buf, head, 0, 0, HDR + l)
    BY <1>6, <2>2 DEF VRoom, Marked, NewAt
  <2>5. VRoom(l) = <<0, 0>>
    BY <2>3, <2>4, MakeRoomStays
  <2> QED BY <2>2, <2>5 DEF Follows
<1> QED BY <1>4, <1>5, <1>6

LEMMA PushSettles ==
  ASSUME Types, Control, Leftover, NEW f \in Nat, NEW g \in Nat, Layout(f, g),
         head > 0, N # 0, NEW l \in Lens, rb_push(l), Settles(l)
  PROVE  Advances(f, g)
<1>1. /\ PushedTail(l) /\ ~settled /\ ~trusted /\ ~Wraps(l) /\ settled'
      /\ trusted' = trusted
  BY PushTail, PushIs DEF Settles, Control
<1>2. /\ N \in Nat /\ N' = N + 1 /\ head \in Nat /\ head' \in Nat
  BY PushWrites DEF Types
<1>3. /\ tail' \in Nat /\ tail' = HDR + SizeAt(buf, 0) /\ tail' < head
  BY <1>1, <1>2 DEF PushedTail
<1>4. /\ LogTail = 0 /\ RdTail = 0 /\ LogTail' = tail' /\ RdTail' = tail'
  BY <1>1 DEF LogTail, Oldest, RdTail
<1>5. ASSUME NEW at, NEW w, Unwrapped(at, w, f, g) PROVE Advances(f, g)
  <2>1. /\ Current(at, w) /\ w \in 1..N /\ w \in Nat /\ N + 1 \in Nat
        /\ f \in w..N /\ LogTail = at[f] /\ at[w] = 0 /\ at[N + 1] = head
        /\ Lap(buf, sizes, at, w, N + 1)
    BY <1>2, <1>5 DEF Unwrapped, Current
  <2>2. w \in w..N /\ w \in w..(N + 1) /\ f \in w..(N + 1) /\ w \in w..((N + 1) - 1)
    BY <1>2, <2>1
  <2>3. /\ \A k \in w..(N + 1) : k \in Nat /\ at[k] \in Nat
        /\ \A j, k \in w..(N + 1) : j < k => at[j] < at[k]
    BY <2>1, LapGrows
  <2>4. f = w
    <3>1. ~(w < f)
      BY <1>4, <2>1, <2>2, <2>3
    <3> QED BY <2>1, <3>1
  <2>5. at[w + 1] = tail'
    <3>1. at[w + 1] = 0 + HDR + sizes[w] /\ SizeAt(buf, 0) = sizes[w]
          /\ sizes[w] \in Nat
      BY <2>1, <2>2, NumberTypes DEF Lap, Stands
    <3> QED BY <1>3, <3>1 DEF HDR
  <2>6. w + 1 \in w..N
    <3>1. w + 1 # N + 1
      BY <1>2, <1>3, <2>1, <2>5
    <3> QED BY <1>2, <2>1, <3>1
  <2>7. PICK bt : Current(bt, w)' /\ \A k \in w..(N + 1) : bt[k] = at[k]
    BY <1>1, <2>1, PushAppends
  <2>8. /\ w + 1 \in w..N' /\ w + 1 \in w..(N + 1) /\ w + 1 <= w + 1
        /\ w + 1 \in (w + 1)..(N' + 1) /\ w + 1 \in (w + 1)..(N + 1)
        /\ w + 1 \in f..(N + 1)
    BY <1>2, <2>1, <2>4, <2>6
  <2>9. Unwrapped(bt, w, w + 1, w + 1)'
    BY <1>4, <2>5, <2>7, <2>8 DEF Unwrapped
  <2>10. Layout(w + 1, w + 1)'
    BY <2>9 DEF Layout
  <2> QED BY <2>8, <2>10 DEF Advances
<1>6. ~Unused(f, g)
  BY DEF Unused, N
<1>7. ASSUME NEW at, NEW old, NEW w, Wrapped(at, old, w, f, g) PROVE FALSE
  BY <1>2, <1>4, <1>7 DEF Wrapped
<1> QED BY <1>5, <1>6, <1>7 DEF Layout

LEMMA PushAdvances ==
  ASSUME Types, Control, Leftover, NEW f \in Nat, NEW g \in Nat, Layout(f, g),
         NEW l \in Lens, rb_push(l)
  PROVE  Advances(f, g)
<1>1. CASE N = 0
  BY <1>1, PushFirst, PushLayout
<1>2. CASE N # 0 /\ Settles(l)
  BY <1>2, HeadAhead, PushSettles
<1>3. CASE N # 0 /\ ~Settles(l)
  <2>1. Follows(l)
    BY <1>3, HeadAhead, PushFollows
  <2> QED BY <1>3, <2>1, PushLayout
<1> QED BY <1>1, <1>2, <1>3

\* A push that leaves the tail unsettled drops nothing.
LEMMA PushUnsettled ==
  ASSUME Types, Control, Leftover, NEW f \in Nat, NEW g \in Nat, Layout(f, g),
         NEW l \in Lens, rb_push(l), ~settled'
  PROVE  Layout(f, g)'
<1>1. CASE N = 0
  <2>1. Unused(f, g)
    <3>1. ASSUME NEW at, NEW w, Current(at, w) PROVE FALSE
      BY <1>1, <3>1 DEF Current
    <3> QED BY <3>1 DEF Layout, Unwrapped, Wrapped
  <2>2. LogTail' = 0 /\ RdTail' = 0
    BY <1>1, PushFirst
  <2>3. Layout(1, 1)'
    BY <2>1, <2>2, PushUnused
  <2>4. f = 1 /\ g = 1
    BY <2>1 DEF Unused
  <2> QED BY <2>3, <2>4
<1>2. CASE N # 0
  <2>1. ~settled /\ ~Wraps(l)
    <3>1. PushedTail(l)
      BY <1>2, HeadAhead, PushTail
    <3> QED BY <3>1 DEF PushedTail
  <2>2. Follows(l)
    BY <1>2, HeadAhead, PushFollows DEF Settles
  <2>3. LogTail = 0 /\ head \in Nat
    BY <2>1 DEF LogTail, Oldest, Types
  <2>4. ~Unused(f, g) /\ \A at, old, w : ~Wrapped(at, old, w, f, g)
    BY <1>2, <2>3 DEF Unused, Wrapped, N
  <2> QED BY <2>1, <2>2, <2>4, PushUnwrapped DEF Layout
<1> QED BY <1>1, <1>2

\* Once the tail is settled the loop of rb_push ends: the tail gets out of the
\* way of the new entry, or back to the first one that is left.
LEMMA LoopAlwaysEnds ==
  ASSUME Types, Leftover, settled, NEW f \in Nat, NEW g \in Nat, Layout(f, g),
         NEW l \in Lens, l # 0
  PROVE  LoopEnds(l)
<1> DEFINE t == IF Wraps(l) /\ tail >= head THEN 0 ELSE tail
           x == Room(l)[1]
           r == MakeRoom(Marked(l), NewAt(l), t, t, HDR + l)
<1>1. /\ N \in Nat /\ Size \in Nat /\ head \in Nat /\ tail \in Nat /\ l \in Nat
      /\ HDR + l \in Nat /\ LogTail = tail /\ Size > 3 * (HDR + l) + HDR
  BY NumberTypes DEF Types, Leftover, LogTail, Oldest, HDR
<1>2. r = <<x, x>>
  BY TailAlone DEF Room
<1>3. VRoom(l)[1] = x
  <2>1. r = <<VRoom(l)[1], VRoom(l)[1]>>
    BY <1>1, TailAlone DEF VRoom
  <2> QED BY <1>2, <2>1
<1>4. ~Wraps(l) => t = tail /\ NewAt(l) = head /\ Marked(l) = buf
  BY DEF NewAt, Marked
<1> SUFFICES ~InTheWay(Marked(l), NewAt(l), HDR + l, x)
  BY DEF LoopEnds
<1> HIDE DEF t, x, r
<1>5. ASSUME ~Wraps(l), ~InTheWay(buf, head, HDR + l, tail)
      PROVE  ~InTheWay(Marked(l), NewAt(l), HDR + l, x)
  <2>1. r = <<tail, tail>>
    BY <1>4, <1>5, MakeRoomStays DEF r
  <2> QED BY <1>2, <1>4, <1>5, <2>1
<1>6. CASE Unused(f, g)
  <2>1. head = 0 /\ tail = 0 /\ N = 0 /\ SizeAt(buf, 0) = 0
    BY <1>1, <1>6 DEF Unused, N, Leftover
  <2>2. ~Wraps(l)
    BY <1>1, <2>1 DEF Wraps, HDR
  <2>3. ~InTheWay(buf, head, HDR + l, tail)
    BY <2>1 DEF InTheWay
  <2> QED BY <1>5, <2>2, <2>3
<1>7. ASSUME NEW at, NEW w, Current(at, w), NEW e \in w..N, Wraps(l), t = at[e]
      PROVE  ~InTheWay(Marked(l), NewAt(l), HDR + l, x)
  <2>1. NewAt(l) = 0 /\ e \in e..N
    BY <1>1, <1>7 DEF NewAt, Current
  <2>2. r = MakeRoom(Marked(l), 0, at[e], at[e], HDR + l)
    BY <1>7, <2>1 DEF r
  <2>3. PICK j \in e..(N + 1) :
          HDR + l < at[j] /\ Moved(r, at, N + 1, j, at[e], at[e])
    BY <1>7, <2>1, <2>2, RoomWraps
  <2>4. x = at[j] /\ at[j] \in Nat
    <3>1. j \in w..(N + 1)
      BY <1>1, <1>7 DEF Current
    <3> QED BY <1>2, <1>7, <2>3, <3>1 DEF Moved, Current, Lap
  <2>5. ~(0 + (HDR + l) >= x)
    BY <1>1, <2>3, <2>4
  <2> QED BY <2>1, <2>5 DEF InTheWay
<1>8. ASSUME NEW at, NEW w, Unwrapped(at, w, f, g)
      PROVE  ~InTheWay(Marked(l), NewAt(l), HDR + l, x)
  <2>1. /\ Current(at, w) /\ w \in 1..N /\ w \in Nat /\ f \in w..N /\ tail = at[f]
        /\ Lap(buf, sizes, at, w, N + 1) /\ at[N + 1] = head /\ N + 1 \in Nat
    BY <1>1, <1>8 DEF Unwrapped, Current
  <2>2. tail < head
    <3>1. f \in w..(N + 1) /\ N + 1 \in w..(N + 1) /\ f < N + 1
      BY <1>1, <2>1
    <3> QED BY <2>1, <3>1, LapGrows
  <2>3. CASE ~Wraps(l)
    <3>1. ~InTheWay(buf, head, HDR + l, tail)
      BY <1>1, <2>2 DEF InTheWay
    <3> QED BY <1>5, <2>3, <3>1
  <2>4. CASE Wraps(l)
    <3>1. t = at[f]
      BY <1>1, <2>1, <2>2 DEF t
    <3> QED BY <1>7, <2>1, <2>4, <3>1
  <2> QED BY <2>3, <2>4
<1>9. ASSUME NEW at, NEW old, NEW w, Wrapped(at, old, w, f, g)
      PROVE  ~InTheWay(Marked(l), NewAt(l), HDR + l, x)
  <2>1. /\ Current(at, w) /\ w \in 1..N /\ at[w] = 0 /\ head < tail
        /\ Lap(buf, sizes, old, f, w) /\ f \in 1..w /\ w \in w..N
    BY <1>1, <1>9 DEF Wrapped, Current
  <2>2. CASE Wraps(l)
    <3>1. t = at[w]
      BY <1>1, <2>1, <2>2 DEF t
    <3> QED BY <1>7, <2>1, <2>2, <3>1
  <2>3. CASE ~Wraps(l)
    <3>1. RoomOfWrapped(at, old, w, f, g, l)
      BY <1>9, <2>3, RoomWrapped
    <3>2. CASE \E j \in f..w : /\ head + (HDR + l) < old[j]
                               /\ Moved(VRoom(l), old, w, j, old[f], RdTail)
      <4>1. PICK j \in f..w : /\ head + (HDR + l) < old[j] /\ old[j] \in Nat
                              /\ Moved(VRoom(l), old, w, j, old[f], RdTail)
        BY <2>1, <3>2 DEF Lap
      <4>2. x = old[j]
        BY <1>3, <4>1 DEF Moved
      <4>3. ~(head + (HDR + l) >= x)
        BY <1>1, <4>1, <4>2
      <4> QED BY <1>4, <2>3, <4>3 DEF InTheWay
    <3>3. CASE VRoom(l) = <<at[w + 1], IF RdTail < old[f] THEN RdTail ELSE at[w + 1]>>
               /\ at[w + 1] < head
      <4>1. x = at[w + 1] /\ at[w + 1] \in Nat
        <5>1. w + 1 \in w..(N + 1)
          BY <1>1, <2>1
        <5> QED BY <1>3, <2>1, <3>3, <5>1 DEF Current, Lap
      <4>2. ~(head <= x)
        BY <1>1, <3>3, <4>1
      <4> QED BY <1>4, <2>3, <4>2 DEF InTheWay
    <3> QED BY <3>1, <3>2, <3>3 DEF RoomOfWrapped
  <2> QED BY <2>2, <2>3
<1> QED BY <1>6, <1>8, <1>9 DEF Layout

-----------------------------------------------------------------------------
(***************************************************************************)
(* The other operations leave the buffer and its tail alone.               *)
(***************************************************************************)

LEMMA CurrentSame ==
  ASSUME UNCHANGED <<buf, head, LogTail, sizes>>, NEW at, NEW w, Current(at, w)
  PROVE  Current(at, w)'
BY DEF Current, N

LEMMA UnwrappedMoves ==
  ASSUME UNCHANGED <<buf, head, LogTail, sizes>>, NEW at, NEW w, NEW f, NEW g,
         Unwrapped(at, w, f, g),
         NEW g1 \in {w} \cup (f..(N + 1)), RdTail' = at[g1]
  PROVE  Layout(f, g1)'
<1>1. Current(at, w)' /\ N' = N /\ LogTail' = LogTail
  BY CurrentSame DEF Unwrapped, N
<1>2. Unwrapped(at, w, f, g1)'
  BY <1>1 DEF Unwrapped
<1> QED BY <1>2 DEF Layout

LEMMA WrappedMoves ==
  ASSUME UNCHANGED <<buf, head, LogTail, sizes>>, NEW at, NEW old, NEW w, NEW f, NEW g,
         Wrapped(at, old, w, f, g),
         NEW g1, \/ g1 \in f..w /\ RdTail' = old[g1]
                 \/ g1 \in w..(N + 1) /\ RdTail' = at[g1]
  PROVE  Layout(f, g1)'
<1>1. /\ Current(at, w)' /\ N' = N /\ LogTail' = LogTail /\ head' = head
      /\ buf' = buf /\ sizes' = sizes
  BY CurrentSame DEF Wrapped, N
<1>2. Wrapped(at, old, w, f, g1)'
  BY <1>1 DEF Wrapped
<1> QED BY <1>2 DEF Layout

\* What becomes of the layout when only the reader moves: to the tail
\* (rb_reset), from the end marker to the beginning (__rb_next_size), or on to
\* the next entry (__rb_pop).
ReaderMoves(f, g) ==
  /\ RdTail' = RdTail => Layout(f, g)'
  /\ RdTail' = LogTail => Layout(f, f)'
  /\ RdTail' = NextTail(RdTail) => Layout(f, g)'
  /\ g <= N /\ RdTail' = NextTail(RdTail) + HDR + NextSize(RdTail)
       => Layout(f, g + 1)'

LEMMA LayoutMoves ==
  ASSUME Types, NEW f \in Nat, NEW g \in Nat, Layout(f, g),
         UNCHANGED <<buf, head, LogTail, sizes>>
  PROVE  ReaderMoves(f, g)
<1>0. N \in Nat /\ head \in Nat
  BY NumberTypes DEF Types
<1>h. NextTail(head) = head
  BY DEF NextTail
<1>1. CASE Unused(f, g)
  <2>1. /\ N = 0 /\ f = 1 /\ g = 1 /\ head = 0 /\ LogTail = 0 /\ RdTail = 0
        /\ sizes = <<>>
    BY <1>1 DEF Unused, N
  <2>2. NextTail(RdTail) = 0 /\ ~(g <= N)
    BY <1>h, <2>1
  <2>3. RdTail' = 0 => Layout(1, 1)'
    BY <2>1 DEF Layout, Unused
  <2> QED BY <2>1, <2>2, <2>3 DEF ReaderMoves
<1>2. ASSUME NEW at, NEW w, Unwrapped(at, w, f, g)
      PROVE  ReaderMoves(f, g)
  <2>1. /\ Current(at, w) /\ w \in 1..N /\ f \in w..N /\ f <= w + 1
        /\ LogTail = at[f] /\ g \in {w} \cup (f..(N + 1)) /\ RdTail = at[g]
        /\ at[N + 1] = head
    BY <1>2 DEF Unwrapped, Current
  <2>2. f \in {w} \cup (f..(N + 1)) /\ (g <= N => g \in w..N) /\ (~(g <= N) => g = N + 1)
    BY <1>0, <2>1
  <2>3. ASSUME g <= N PROVE NextTail(RdTail) = at[g]
    BY <2>1, <2>2, <2>3, CurrentReads DEF Reads
  <2>4. NextTail(RdTail) = at[g]
    BY <1>h, <2>1, <2>2, <2>3
  <2>5. ASSUME g <= N
        PROVE  /\ g + 1 \in {w} \cup (f..(N + 1))
               /\ NextTail(RdTail) + HDR + NextSize(RdTail) = at[g + 1]
    <3>1. g \in w..N
      BY <2>2, <2>5
    <3>2. Reads(at[g], at[g], g) /\ at[g + 1] = at[g] + HDR + sizes[g]
      BY <2>1, <3>1, CurrentReads
    <3>3. g + 1 \in f..(N + 1)
      BY <1>0, <2>1, <2>5
    <3> QED BY <2>1, <3>2, <3>3 DEF Reads
  <2> QED BY <1>2, <2>1, <2>2, <2>4, <2>5, UnwrappedMoves DEF ReaderMoves
<1>3. ASSUME NEW at, NEW old, NEW w, Wrapped(at, old, w, f, g)
      PROVE  ReaderMoves(f, g)
  <2>1. /\ Current(at, w) /\ w \in 1..N /\ f \in 1..w /\ LogTail = old[f]
        /\ at[N + 1] = head /\ at[w] = 0
    BY <1>3 DEF Wrapped, Current
  <2>2. f \in f..w /\ w \in w..(N + 1)
    BY <1>0, <2>1
  <2>3. RdTail' = LogTail => Layout(f, f)'
    BY <1>3, <2>1, <2>2, WrappedMoves
  <2>4. RdTail' = RdTail => Layout(f, g)'
    <3>1. \/ g \in f..w /\ RdTail = old[g]
          \/ g \in w..(N + 1) /\ RdTail = at[g]
      BY <1>3 DEF Wrapped
    <3> QED BY <1>3, <3>1, WrappedMoves
  <2>5. CASE g \in f..w /\ RdTail = old[g] /\ g < w
    <3>1. Reads(old[g], old[g], g) /\ old[g + 1] = old[g] + HDR + sizes[g]
      BY <1>3, <2>5, OldReads
    <3>2. /\ NextTail(RdTail) = RdTail
          /\ NextTail(RdTail) + HDR + NextSize(RdTail) = old[g + 1]
      BY <2>5, <3>1 DEF Reads
    <3>3. g + 1 \in f..w
      BY <1>0, <2>1, <2>5
    <3>4. RdTail' = old[g + 1] => Layout(f, g + 1)'
      BY <1>3, <3>3, WrappedMoves
    <3> QED BY <2>3, <2>4, <3>2, <3>4 DEF ReaderMoves
  <2>6. CASE g = w /\ RdTail = old[g]
    <3>1. Reads(old[g], 0, g) /\ at[g + 1] = HDR + sizes[g] /\ sizes[g] \in Nat
      BY <1>0, <1>3, <2>1, <2>2, <2>6, OldReads, NumberTypes
    <3>2. 0 + HDR + sizes[g] = at[g + 1]
      BY <3>1 DEF HDR
    <3>3. /\ NextTail(RdTail) = 0
          /\ NextTail(RdTail) + HDR + NextSize(RdTail) = at[g + 1]
      BY <2>6, <3>1, <3>2 DEF Reads
    <3>4. g + 1 \in w..(N + 1)
      BY <1>0, <2>1, <2>6
    <3>5. RdTail' = at[g + 1] => Layout(f, g + 1)'
      BY <1>3, <3>4, WrappedMoves
    <3>6. RdTail' = 0 => Layout(f, g)'
      BY <1>3, <2>1, <2>2, <2>6, WrappedMoves
    <3> QED BY <2>3, <2>4, <3>3, <3>5, <3>6 DEF ReaderMoves
  <2>7. CASE g \in w..N /\ RdTail = at[g]
    <3>1. Reads(at[g], at[g], g) /\ at[g + 1] = at[g] + HDR + sizes[g]
      BY <2>1, <2>7, CurrentReads
    <3>2. /\ NextTail(RdTail) = RdTail
          /\ NextTail(RdTail) + HDR + NextSize(RdTail) = at[g + 1]
      BY <2>7, <3>1 DEF Reads
    <3>3. g + 1 \in w..(N + 1)
      BY <1>0, <2>1, <2>7
    <3>4. RdTail' = at[g + 1] => Layout(f, g + 1)'
      BY <1>3, <3>3, WrappedMoves
    <3> QED BY <2>3, <2>4, <3>2, <3>4 DEF ReaderMoves
  <2>8. CASE g = N + 1 /\ RdTail = at[g]
    <3>1. NextTail(RdTail) = RdTail /\ ~(g <= N)
      BY <1>0, <1>h, <2>1, <2>8
    <3> QED BY <2>3, <2>4, <3>1 DEF ReaderMoves
  <2>9. /\ g \in f..w => g < w \/ g = w
        /\ g \in w..(N + 1) => g \in w..N \/ g = N + 1
    BY <1>0, <2>1
  <2> QED BY <1>3, <2>5, <2>6, <2>7, <2>8, <2>9 DEF Wrapped
<1> QED BY <1>1, <1>2, <1>3 DEF Layout

-----------------------------------------------------------------------------
(***************************************************************************)
(* What the reader's tail leads to.                                        *)
(***************************************************************************)

\* The tails that count are where a size can be read.
LEMMA LayoutInside ==
  ASSUME Types, NEW f \in Nat, NEW g \in Nat, Layout(f, g)
  PROVE  LogTail \in 0..(Size - HDR) /\ RdTail \in 0..(Size - HDR)
<1>2. N \in Nat /\ Size \in Nat /\ head \in Nat /\ head + HDR < Size
  BY NumberTypes DEF Types
<1> DEFINE In(t) == t \in 0..(Size - HDR)
<1>3. ASSUME NEW at, NEW w, Current(at, w), NEW k \in w..(N + 1)
      PROVE  In(at[k])
  <2>1. /\ w \in 1..N /\ w \in Nat /\ N + 1 \in Nat /\ N + 1 \in w..(N + 1)
        /\ Lap(buf, sizes, at, w, N + 1) /\ at[N + 1] = head /\ k <= N + 1
    BY <1>2, <1>3 DEF Current
  <2>2. at[k] \in Nat /\ at[k] <= head
    BY <2>1, LapGrows
  <2> QED BY <1>2, <2>2 DEF HDR
<1>4. In(head)
  BY <1>2 DEF HDR
<1>5. ASSUME NEW at, NEW w, Unwrapped(at, w, f, g)
      PROVE  In(LogTail) /\ In(RdTail)
  <2>1. /\ Current(at, w) /\ f \in w..(N + 1) /\ g \in w..(N + 1)
        /\ LogTail = at[f] /\ RdTail = at[g]
    BY <1>2, <1>5 DEF Unwrapped, Current
  <2> HIDE DEF In
  <2> QED BY <1>3, <2>1
<1>6. ASSUME NEW at, NEW old, NEW w, Wrapped(at, old, w, f, g)
      PROVE  In(LogTail) /\ In(RdTail)
  <2>1. /\ Current(at, w) /\ w \in Nat /\ f \in f..w /\ w \in f..w
        /\ Lap(buf, sizes, old, f, w) /\ old[w] + HDR <= Size
        /\ LogTail = old[f]
        /\ \/ g \in f..w /\ RdTail = old[g]
           \/ g \in w..(N + 1) /\ RdTail = at[g]
    BY <1>2, <1>6 DEF Wrapped, Current
  <2>2. ASSUME NEW k \in f..w PROVE In(old[k])
    <3>1. old[k] \in Nat /\ old[w] \in Nat /\ old[k] <= old[w]
      BY <2>1, LapGrows
    <3> QED BY <1>2, <2>1, <3>1 DEF HDR
  <2> HIDE DEF In
  <2> QED BY <1>3, <2>1, <2>2
<1>7. ASSUME Unused(f, g) PROVE In(LogTail) /\ In(RdTail)
  BY <1>4, <1>7 DEF Unused
<1> HIDE DEF In
<1>8. In(LogTail) /\ In(RdTail)
  BY <1>5, <1>6, <1>7 DEF Layout
<1> QED BY <1>8 DEF In

\* Whatever it finds, the reader goes on to an offset; if it can be trusted it
\* finds what its tail is at.
LEMMA FoundIs ==
  ASSUME Types, Leftover, NEW f \in Nat, NEW g \in Nat, Layout(f, g),
         NEW x \in Found(rdtail)
  PROVE  /\ x.tail \in Nat /\ x.size \in Nat
         /\ trusted => x.tail = NextTail(RdTail) /\ x.size = NextSize(RdTail)
<1>1. /\ Size \in Nat /\ rdtail \in Nat /\ head + HDR < Size /\ head \in Nat
      /\ \A i \in 0..(Size - 1) : buf[i] \in Nat
  BY RbAssumption DEF Types, Leftover
<1>s. \A u \in Nat : u + HDR <= Size => SizeAt(buf, u) \in Nat
  <2> SUFFICES ASSUME NEW u \in Nat, u + HDR <= Size PROVE SizeAt(buf, u) \in Nat
    OBVIOUS
  <2>1. u \in 0..(Size - 1) /\ u + 1 \in 0..(Size - 1)
    BY <1>1 DEF HDR
  <2>2. buf[u] \in Nat /\ buf[u + 1] \in Nat
    BY <1>1, <2>1
  <2> QED BY <2>2 DEF SizeAt
<1>2. trusted => rdtail = RdTail /\ rdtail + HDR <= Size
  <2>1. RdTail \in 0..(Size - HDR)
    BY LayoutInside
  <2> QED BY <1>1, <2>1 DEF RdTail, HDR
<1>3. CASE rdtail + HDR <= Size
  <2>1. x = [tail |-> NextTail(rdtail), size |-> NextSize(rdtail)]
    BY <1>3 DEF Found
  <2>2. NextTail(rdtail) \in Nat /\ NextTail(rdtail) + HDR <= Size
    BY <1>1, <1>3 DEF NextTail, HDR
  <2>3. NextSize(rdtail) \in Nat
    BY <1>s, <2>2 DEF NextSize
  <2> QED BY <1>2, <2>1, <2>2, <2>3
<1>4. CASE ~(rdtail + HDR <= Size)
  <2>1. PICK s \in Behind :
          x = IF s = 0 THEN [tail |-> 0, size |-> SizeAt(buf, 0)]
                       ELSE [tail |-> rdtail, size |-> s]
    BY <1>4 DEF Found
  <2>2. s \in Nat
    <3>1. Behind \subseteq 0..MaxSize
      BY RbAssumption
    <3> QED BY <3>1
  <2>3. SizeAt(buf, 0) \in Nat
    BY <1>1, <1>s DEF HDR
  <2>4. ~trusted
    BY <1>2, <1>4
  <2> QED BY <1>1, <2>1, <2>2, <2>3, <2>4
<1> QED BY <1>3, <1>4

-----------------------------------------------------------------------------
(***************************************************************************)
(* Every step, as a step of the log: its oldest entry and the reader's     *)
(* next one, p and n, become p1 and n1.                                    *)
(***************************************************************************)

Reader == IF rpc = "wait" THEN "open" ELSE rpc

Given == IF rpc = "peeked" THEN count ELSE 0

\* The numbers in the log of the oldest entry f, and of the next one g.
Kept(f) == IF settled THEN f ELSE 0

Ahead(g) == IF trusted THEN g ELSE 0

LogPush(p, n, p1, n1) ==
  /\ Reader' = Reader /\ Given' = Given /\ got' = got
  /\ \E l \in Lens \ {0} : sizes' = Append(sizes, l)
  /\ p1 \in p..(N + 1)
  /\ n1 \in IF n = 0 THEN {0} ELSE {n} \cup (p1..(N + 1))

LogOpen(p, n, p1, n1) ==
  /\ Reader = "closed" /\ Reader' = "open" /\ Given' = Given
  /\ got' = Nothing /\ sizes' = sizes /\ p1 = p /\ n1 = p

LogPeek(p, n, p1, n1) ==
  /\ Reader = "open" /\ Reader' = "peeked" /\ Given' \in Counts
  /\ n # 0 => n <= N /\ sizes[n] <= Given'
  /\ got' = got /\ sizes' = sizes /\ p1 = p /\ n1 = n

LogRead(p, n, p1, n1) ==
  /\ Reader = "peeked" /\ Reader' = "open" /\ Given' = 0
  /\ n # 0 /\ n <= N /\ got' = Pushed(n)
  /\ sizes' = sizes /\ p1 = p /\ n1 = n + 1

LogJunk(p, n, p1, n1) ==
  /\ Reader = "peeked" /\ Reader' = "open" /\ Given' = 0
  /\ n = 0 /\ sizes' = sizes /\ p1 = p /\ n1 = n

LogSame(p, n, p1, n1) ==
  /\ Reader' = Reader \/ (Reader = "open" /\ Reader' = "closed")
  /\ Given' = Given /\ got' = got /\ sizes' = sizes /\ p1 = p /\ n1 = n

LogStep(p, n, p1, n1) ==
  \/ LogPush(p, n, p1, n1) \/ LogOpen(p, n, p1, n1) \/ LogPeek(p, n, p1, n1)
  \/ LogRead(p, n, p1, n1) \/ LogJunk(p, n, p1, n1) \/ LogSame(p, n, p1, n1)

\* A step keeps the invariant and is a step of the log.
Keeps(f, g) ==
  /\ Types' /\ Control' /\ Leftover'
  /\ \E f1, g1 \in Nat :
       /\ Numbers(f1, g1)'
       /\ LogStep(Kept(f), Ahead(g), Kept(f1)', Ahead(g1)')

\* The invariant, with the numbers of its layout.
RbInvOf(f, g) == Types /\ Control /\ Leftover /\ Numbers(f, g)

LEMMA PushKeeps ==
  ASSUME NEW f \in Nat, NEW g \in Nat, RbInvOf(f, g), NEW l \in Lens, rb_push(l)
  PROVE  Keeps(f, g)
<1>0. /\ Types /\ Control /\ Leftover /\ Layout(f, g)
      /\ rpc = "peeked" /\ trusted => g <= N
      /\ ~settled => f = 1
  BY DEF RbInvOf, Numbers
<1>1. /\ N \in Nat /\ N' = N + 1 /\ Types' /\ sizes' = Append(sizes, l)
      /\ l \in Lens \ {0} /\ UNCHANGED <<rpc, count, woken, got, trusted>>
      /\ wpc' = "wake"
  BY <1>0, PushWrites, PushIs
<1>2. g \in 1..(N + 1) /\ f \in 1..(N + 1)
  BY <1>0, LayoutFinds
<1>3. Leftover'
  BY <1>0, HeadAhead, PushLeftover
<1>4. /\ settled \in BOOLEAN /\ trusted \in BOOLEAN /\ (trusted => settled)
      /\ settled' \in BOOLEAN /\ (settled => settled')
  <2>1. settled' = (settled \/ Wraps(l) \/ tail' < head')
    BY DEF rb_push
  <2>2. settled' \in BOOLEAN /\ (settled => settled')
    BY <2>1, Zenon
  <2> QED BY <1>0, <2>2 DEF Control
<1>5. Control'
  BY <1>0, <1>1, <1>4 DEF Control
<1>6. PICK f1 \in f..(N + 1) : \E g1 \in {g} \cup (f1..(N + 1)) :
        Layout(f1, g1)' /\ (~settled' => f1 = f)
  <2>1. CASE settled'
    BY <1>0, <2>1, PushAdvances DEF Advances
  <2>2. CASE ~settled'
    <3>1. Layout(f, g)' /\ f \in f..(N + 1)
      BY <1>0, <1>2, <2>2, PushUnsettled
    <3> QED BY <3>1
  <2> QED BY <2>1, <2>2
<1>7. PICK g1 \in {g} \cup (f1..(N + 1)) :
        Layout(f1, g1)' /\ (~settled' => f1 = f)
  BY <1>6
<1>8. f1 \in Nat /\ g1 \in Nat /\ g1 <= N'
  BY <1>1, <1>2
<1>9. Numbers(f1, g1)'
  BY <1>0, <1>4, <1>7, <1>8 DEF Numbers
<1>10. LogPush(Kept(f), Ahead(g), Kept(f1)', Ahead(g1)')
  <2>1. Reader' = Reader /\ Given' = Given
    BY <1>1 DEF Reader, Given
  <2>2. Kept(f1)' \in Kept(f)..(N + 1)
    <3>1. CASE settled
      BY <1>4, <3>1 DEF Kept
    <3>2. CASE ~settled
      <4>1. Kept(f) = 0 /\ Kept(f1)' \in {0, f1}
        BY <3>2 DEF Kept
      <4> QED BY <1>1, <1>8, <4>1
    <3> QED BY <3>1, <3>2
  <2>3. Ahead(g1)' \in IF Ahead(g) = 0 THEN {0}
                       ELSE {Ahead(g)} \cup (Kept(f1)'..(N + 1))
    <3>1. CASE trusted
      <4>1. Ahead(g) = g /\ Ahead(g1)' = g1 /\ Kept(f1)' = f1 /\ g # 0
        BY <1>1, <1>2, <1>4, <3>1 DEF Ahead, Kept
      <4> QED BY <4>1
    <3>2. CASE ~trusted
      BY <1>1, <3>2 DEF Ahead
    <3> QED BY <3>1, <3>2
  <2> QED BY <1>1, <2>1, <2>2, <2>3 DEF LogPush
<1> QED BY <1>1, <1>3, <1>5, <1>8, <1>9, <1>10 DEF Keeps, LogStep

\* The steps that leave the buffer alone, if the reader's tail that counts
\* moves to entry g1.
LEMMA StaysKeeps ==
  ASSUME NEW f \in Nat, NEW g \in Nat, RbInvOf(f, g),
         UNCHANGED <<buf, head, tail, sizes, settled>>, Control',
         rdtail' \in Nat, settled => wpc' # "hung",
         NEW g1 \in Nat, Layout(f, g1)', rpc' = "peeked" /\ trusted' => g1 <= N,
         LogStep(Kept(f), Ahead(g), Kept(f), Ahead(g1)')
  PROVE  Keeps(f, g)
<1>1. Types /\ Control /\ Leftover /\ N' = N
  BY DEF RbInvOf, N
<1>2. Types'
  BY <1>1 DEF Types
<1>3. Leftover'
  BY <1>1 DEF Leftover
<1>4. Numbers(f, g1)'
  BY <1>1 DEF Numbers, RbInvOf
<1>5. Kept(f)' = Kept(f)
  BY DEF Kept
<1> QED BY <1>2, <1>3, <1>4, <1>5 DEF Keeps

\* Nothing about the buffer or its reader's tail changes.
LEMMA SameKeeps ==
  ASSUME NEW f \in Nat, NEW g \in Nat, RbInvOf(f, g),
         UNCHANGED <<buf, head, tail, rdtail, sizes, settled, trusted, got>>,
         Control', settled => wpc' # "hung", rpc' = "peeked" => rpc = "peeked",
         Reader' = Reader \/ (Reader = "open" /\ Reader' = "closed"),
         Given' = Given
  PROVE  Keeps(f, g)
<1>1. Types /\ Layout(f, g) /\ rdtail \in Nat /\ LogTail' = LogTail /\ RdTail' = RdTail
      /\ (rpc = "peeked" /\ trusted => g <= N)
  BY DEF RbInvOf, Numbers, Leftover, LogTail, Oldest, RdTail
<1>2. Layout(f, g)'
  BY <1>1, LayoutMoves DEF ReaderMoves
<1>3. LogSame(Kept(f), Ahead(g), Kept(f), Ahead(g)')
  BY DEF LogSame, Ahead
<1> QED BY <1>1, <1>2, <1>3, StaysKeeps DEF LogStep

\* rb_next_size, where the reader may go to its wait or told a size.
LEMMA LookKeeps ==
  ASSUME NEW f \in Nat, NEW g \in Nat, RbInvOf(f, g), NEW x \in Found(rdtail),
         UNCHANGED <<buf, head, tail, sizes, settled, trusted, got, wpc>>,
         rdtail' = x.tail, Control', rpc \in {"open", "wait"},
         \/ rpc' \in {"open", "wait"}
         \/ rpc' = "peeked" /\ count' \in Counts /\ x.size # 0 /\ x.size <= count'
  PROVE  Keeps(f, g)
<1>1. /\ Types /\ Leftover /\ Layout(f, g) /\ LogTail' = LogTail
      /\ settled => wpc' # "hung"
  BY DEF RbInvOf, Numbers, Leftover, LogTail, Oldest
<1>2. /\ x.tail \in Nat /\ x.size \in Nat
      /\ trusted => x.tail = NextTail(RdTail) /\ x.size = NextSize(RdTail)
  BY <1>1, FoundIs
<1>3. RdTail' \in {RdTail, NextTail(RdTail)}
  BY <1>1, <1>2 DEF RdTail
<1>4. Layout(f, g)'
  BY <1>1, <1>3, LayoutMoves DEF ReaderMoves
<1>5. trusted /\ x.size # 0 => g <= N /\ sizes[g] = x.size
  <2>1. g \in 1..(N + 1) /\ FindsNext(g) /\ N \in Nat
    BY <1>1, LayoutFinds, NumberTypes
  <2>2. g = N + 1 \/ g <= N
    BY <2>1
  <2> QED BY <1>2, <2>1, <2>2 DEF FindsNext, Reads
<1>6. CASE rpc' \in {"open", "wait"}
  <2>1. LogSame(Kept(f), Ahead(g), Kept(f), Ahead(g)')
    BY <1>6 DEF LogSame, Ahead, Reader, Given
  <2> QED BY <1>1, <1>2, <1>4, <1>6, <2>1, StaysKeeps DEF LogStep
<1>7. CASE rpc' = "peeked" /\ count' \in Counts /\ x.size # 0 /\ x.size <= count'
  <2>1. Ahead(g) # 0 => Ahead(g) <= N /\ sizes[Ahead(g)] <= count'
    BY <1>5, <1>7 DEF Ahead
  <2>2. LogPeek(Kept(f), Ahead(g), Kept(f), Ahead(g)')
    BY <1>7, <2>1 DEF LogPeek, Ahead, Reader, Given
  <2> QED BY <1>1, <1>2, <1>4, <1>5, <1>7, <2>2, StaysKeeps DEF LogStep
<1> QED BY <1>6, <1>7

\* The reader's tail takes it to the entry that is next, or, if it cannot be
\* trusted, to any.
LEMMA ReadKeeps ==
  ASSUME NEW f \in Nat, NEW g \in Nat, RbInvOf(f, g), rb_pop
  PROVE  Keeps(f, g)
<1>1. /\ Types /\ Control /\ Leftover /\ Layout(f, g) /\ LogTail' = LogTail
      /\ rpc = "peeked" /\ rpc' = "open" /\ count' = 0 /\ N' = N
      /\ UNCHANGED <<buf, head, tail, sizes, woken, wpc, settled, trusted>>
      /\ trusted => g <= N
      /\ settled => wpc' # "hung"
  BY DEF RbInvOf, Numbers, rb_pop, N, LogTail, Oldest, Leftover
<1>2. PICK x \in Found(rdtail) :
        /\ got' = IF x.size = 0 THEN Nothing ELSE EntryAt(x.tail, x.size)
        /\ rdtail' = IF x.size = 0 THEN x.tail ELSE x.tail + HDR + x.size
  BY DEF rb_pop
<1>3. /\ x.tail \in Nat /\ x.size \in Nat
      /\ trusted => x.tail = NextTail(RdTail) /\ x.size = NextSize(RdTail)
  BY <1>1, FoundIs
<1>4. rdtail' \in Nat
  BY <1>2, <1>3 DEF HDR
<1>5. Control'
  BY <1>1 DEF Control
<1>6. Reader = "peeked" /\ Reader' = "open" /\ Given' = 0 /\ sizes' = sizes
  BY <1>1 DEF Reader, Given
<1>7. CASE trusted
  <2>1. Reads(RdTail, NextTail(RdTail), g) /\ g \in 1..(N + 1)
    BY <1>1, <1>7, LayoutFinds DEF FindsNext
  <2>2. /\ got' = Pushed(g)
        /\ RdTail' = NextTail(RdTail) + HDR + NextSize(RdTail)
    BY <1>1, <1>2, <1>3, <1>7, <2>1 DEF Reads, RdTail
  <2>3. Layout(f, g + 1)' /\ g + 1 \in Nat
    BY <1>1, <1>7, <2>2, LayoutMoves DEF ReaderMoves
  <2>4. LogRead(Kept(f), Ahead(g), Kept(f), Ahead(g + 1)')
    BY <1>1, <1>6, <1>7, <2>1, <2>2 DEF LogRead, Ahead
  <2> QED BY <1>1, <1>4, <1>5, <2>3, <2>4, StaysKeeps DEF LogStep
<1>8. CASE ~trusted
  <2>1. RdTail' = RdTail
    BY <1>1, <1>8 DEF RdTail
  <2>2. Layout(f, g)'
    BY <1>1, <2>1, LayoutMoves DEF ReaderMoves
  <2>3. LogJunk(Kept(f), Ahead(g), Kept(f), Ahead(g)')
    BY <1>1, <1>6, <1>8 DEF LogJunk, Ahead
  <2> QED BY <1>1, <1>4, <1>5, <2>2, <2>3, StaysKeeps DEF LogStep
<1> QED BY <1>7, <1>8

LEMMA OpenKeeps ==
  ASSUME NEW f \in Nat, NEW g \in Nat, RbInvOf(f, g), rb_reset
  PROVE  Keeps(f, g)
<1>1. /\ Types /\ Control /\ Leftover /\ Layout(f, g)
      /\ rpc = "closed" /\ rpc' = "open" /\ rdtail' = tail /\ got' = Nothing
      /\ trusted' = settled
      /\ UNCHANGED <<buf, head, tail, sizes, count, woken, wpc, settled>>
  BY DEF RbInvOf, Numbers, rb_reset
<1>2. LogTail' = LogTail /\ RdTail' = LogTail
  BY <1>1 DEF LogTail, Oldest, RdTail
<1>3. Layout(f, f)'
  BY <1>1, <1>2, LayoutMoves DEF ReaderMoves
<1>4. Control'
  BY <1>1 DEF Control
<1>5. rdtail' \in Nat /\ (settled => wpc' # "hung")
  BY <1>1 DEF Leftover
<1>6. LogOpen(Kept(f), Ahead(g), Kept(f), Ahead(f)')
  BY <1>1 DEF LogOpen, Kept, Ahead, Reader, Given
<1> QED BY <1>1, <1>3, <1>4, <1>5, <1>6, StaysKeeps DEF LogStep

\* The writer hangs only before the tail is settled.
LEMMA HangKeeps ==
  ASSUME NEW f \in Nat, NEW g \in Nat, RbInvOf(f, g),
         NEW l \in Lens, rb_push_hang(l)
  PROVE  Keeps(f, g)
<1>1. /\ l # 0 /\ ~LoopEnds(l) /\ wpc' = "hung"
      /\ UNCHANGED <<buf, head, tail, rdtail, sizes, rpc, count, woken, got,
                     settled, trusted>>
  BY DEF rb_push_hang
<1>2. ~settled
  BY <1>1, LoopAlwaysEnds DEF RbInvOf, Numbers
<1>3. Control'
  BY <1>1 DEF RbInvOf, Control
<1> QED BY <1>1, <1>2, <1>3, SameKeeps DEF Reader, Given

\* A size told to the reader is compared with the buffer it has.
LEMMA Compared ==
  ASSUME NEW s \in Nat, NEW c \in Counts, Compare(s, c)
  PROVE  \/ rpc' = "open" /\ count' = 0
         \/ rpc' = "peeked" /\ count' = c /\ s <= count'
<1>1. c \in Nat
  BY RbAssumption
<1> QED BY <1>1 DEF Compare

LEMMA NextSizeKeeps ==
  ASSUME NEW f \in Nat, NEW g \in Nat, RbInvOf(f, g),
         NEW c \in Counts, rb_next_size(c)
  PROVE  Keeps(f, g)
<1>1. /\ Types /\ Control /\ Leftover /\ Layout(f, g) /\ rpc = "open"
      /\ woken \in BOOLEAN /\ ~woken
      /\ UNCHANGED <<buf, head, tail, sizes, wpc, got, settled, trusted>>
  BY DEF RbInvOf, Numbers, Control, rb_next_size
<1>2. PICK x \in Found(rdtail) :
        /\ rdtail' = x.tail
        /\ \/ x.size # 0 /\ Compare(x.size, c) /\ UNCHANGED woken
           \/ x.size = 0 /\ UNCHANGED <<rpc, count, woken>>
           \/ x.size = 0 /\ rpc' = "wait" /\ count' = c /\ woken' = TRUE
  BY DEF rb_next_size
<1>3. x.size \in Nat
  BY <1>1, FoundIs
<1>4. \/ x.size # 0 /\ rpc' = "open" /\ count' = 0 /\ woken' = woken
      \/ /\ x.size # 0 /\ rpc' = "peeked" /\ count' = c /\ x.size <= count'
         /\ woken' = woken
      \/ rpc' = "open" /\ count' = count /\ woken' = woken
      \/ rpc' = "wait" /\ count' = c /\ woken' = TRUE
  BY <1>1, <1>2, <1>3, Compared
<1>5. woken' \in BOOLEAN /\ (woken' => rpc' = "wait")
  <2>1. CASE woken' = woken
    BY <1>1, <2>1, Zenon
  <2>2. CASE woken' = TRUE /\ rpc' = "wait"
    BY <2>2, Zenon
  <2> QED BY <1>4, <2>1, <2>2
<1>6. Control'
  BY <1>1, <1>4, <1>5 DEF Control
<1> QED BY <1>1, <1>2, <1>4, <1>6, LookKeeps

\* The looks of a reader that waits.
LEMMA WaitKeeps ==
  ASSUME NEW f \in Nat, NEW g \in Nat, RbInvOf(f, g),
         debug_traces_wait \/ debug_traces_signal
  PROVE  Keeps(f, g)
<1>1. /\ Types /\ Control /\ Leftover /\ Layout(f, g) /\ rpc = "wait"
      /\ count \in Counts /\ woken' = FALSE
      /\ UNCHANGED <<buf, head, tail, sizes, wpc, got, settled, trusted>>
  BY DEF RbInvOf, Numbers, Control, debug_traces_wait, debug_traces_signal
<1>2. PICK x \in Found(rdtail) :
        /\ rdtail' = x.tail
        /\ \/ x.size # 0 /\ Compare(x.size, count)
           \/ UNCHANGED <<rpc, count>>
           \/ rpc' = "open" /\ count' = 0
  BY DEF debug_traces_wait, debug_traces_signal
<1>3. x.size \in Nat
  BY <1>1, FoundIs
<1>4. \/ rpc' = "open" /\ count' = 0
      \/ x.size # 0 /\ rpc' = "peeked" /\ count' = count /\ x.size <= count'
      \/ rpc' = "wait" /\ count' = count
  BY <1>1, <1>2, <1>3, Compared
<1>5. Control'
  BY <1>1, <1>4 DEF Control
<1> QED BY <1>1, <1>2, <1>4, <1>5, LookKeeps

LEMMA StepKeeps ==
  ASSUME NEW f \in Nat, NEW g \in Nat, RbInvOf(f, g), [Next]_vars
  PROVE  Keeps(f, g)
<1>0. Control /\ Leftover
  BY DEF RbInvOf
<1>1. ASSUME NEW l \in Lens, rb_push(l) PROVE Keeps(f, g)
  BY <1>1, PushKeeps
<1>2. ASSUME NEW l \in Lens, rb_push_hang(l) PROVE Keeps(f, g)
  BY <1>2, HangKeeps
<1>3. CASE debug_new_trace_available
  <2>1. woken' \in BOOLEAN /\ (woken' => rpc' = "wait")
    <3>1. woken' = (woken \/ rpc = "wait") /\ rpc' = rpc
      BY <1>3 DEF debug_new_trace_available
    <3>2. woken => rpc = "wait"
      BY <1>0 DEF Control
    <3> QED BY <3>1, <3>2, Zenon
  <2>2. /\ UNCHANGED <<buf, head, tail, rdtail, sizes, rpc, count, got,
                       settled, trusted>>
        /\ wpc' = "idle"
    BY <1>3 DEF debug_new_trace_available
  <2>3. Control'
    BY <1>0, <2>1, <2>2 DEF Control
  <2> QED BY <2>2, <2>3, SameKeeps DEF Reader, Given
<1>4. CASE rb_reset
  BY <1>4, OpenKeeps
<1>5. ASSUME NEW c \in Counts, rb_next_size(c) PROVE Keeps(f, g)
  BY <1>5, NextSizeKeeps
<1>6. CASE debug_traces_wait \/ debug_traces_signal
  BY <1>6, WaitKeeps
<1>7. CASE rb_pop
  BY <1>7, ReadKeeps
<1>8. CASE debug_traces_release
  <2>1. /\ rpc = "open" /\ rpc' = "closed"
        /\ UNCHANGED <<buf, head, tail, rdtail, sizes, count, woken, wpc, got,
                       settled, trusted>>
    BY <1>8 DEF debug_traces_release
  <2>2. Control' /\ (settled => wpc' # "hung")
    BY <1>0, <2>1 DEF Control, Leftover
  <2> QED BY <2>1, <2>2, SameKeeps DEF Reader, Given
<1>9. CASE UNCHANGED vars
  <2>1. UNCHANGED <<buf, head, tail, rdtail, sizes, rpc, count, woken, wpc, got,
                    settled, trusted>>
    BY <1>9 DEF vars
  <2>2. Control' /\ (settled => wpc' # "hung")
    BY <1>0, <2>1 DEF Control, Leftover
  <2> QED BY <2>1, <2>2, SameKeeps DEF Reader, Given
<1> QED
  BY <1>1, <1>2, <1>3, <1>4, <1>5, <1>6, <1>7, <1>8, <1>9 DEF Next

-----------------------------------------------------------------------------
(***************************************************************************)
(* The invariant and what follows from it.                                 *)
(***************************************************************************)

LEMMA InitIs ==
  ASSUME Init
  PROVE  RbInvOf(1, 1)
<1>1. Size \in Nat /\ Size > HDR
  <2>1. PICK l \in Lens : TRUE
    BY RbAssumption
  <2>2. /\ Size \in Nat /\ Lens \subseteq 0..MaxLen
        /\ \A n \in Lens : Size > 3 * (HDR + n) + HDR
    BY RbAssumption
  <2>3. l \in Nat /\ Size > 3 * (HDR + l) + HDR
    BY <2>1, <2>2
  <2> QED BY <2>2, <2>3 DEF HDR
<1>2. DOMAIN buf = 0..(Size - 1) /\ \A i \in 0..(Size - 1) : buf[i] \in Nat
  <2>1. buf \in [0..(Size - 1) -> Byte]
    BY BytesAssumption DEF Init
  <2>2. Byte \subseteq Nat
    BY DEF Byte
  <2> QED BY <2>1, <2>2
<1>3. /\ sizes = <<>> /\ sizes \in Seq(Lens \ {0}) /\ N = 0
      /\ head = 0 /\ tail = 0 /\ rdtail = 0
      /\ rpc = "closed" /\ count = 0 /\ wpc = "idle"
  BY DEF Init, N
<1>4. /\ settled \in BOOLEAN /\ trusted \in BOOLEAN /\ (trusted => settled)
      /\ settled <=> SizeAt(buf, 0) = 0
  <2>1. settled = (SizeAt(buf, 0) = 0) /\ trusted = settled
    BY DEF Init
  <2> QED BY <2>1, Zenon
<1>5. woken \in BOOLEAN /\ (woken => rpc = "wait")
  BY Zenon DEF Init
<1>6. Types
  BY <1>1, <1>2, <1>3 DEF Types, HDR
<1>7. Control
  BY <1>3, <1>4, <1>5 DEF Control
<1>8. Leftover
  BY <1>3, <1>4 DEF Leftover
<1>9. Unused(1, 1)
  BY <1>3 DEF Unused, LogTail, Oldest, RdTail
<1>10. Numbers(1, 1)
  BY <1>3, <1>9 DEF Numbers, Layout
<1> QED BY <1>6, <1>7, <1>8, <1>10 DEF RbInvOf

LEMMA RbInvStep ==
  ASSUME RbInv, [Next]_vars
  PROVE  RbInv'
<1>1. PICK f, g \in Nat : RbInvOf(f, g)
  BY DEF RbInv, RbInvOf
<1>2. Keeps(f, g)
  BY <1>1, StepKeeps
<1> QED BY <1>2 DEF Keeps, RbInv

\* The layout of the buffer (RbInv) is an invariant of every behaviour of
\* rb_push, the reader's operations and the wake-up, whatever the memory that
\* rb_init allocates holds.
THEOREM RbInvariant == Spec => []RbInv
<1>1. Init => RbInv
  BY InitIs DEF RbInv, RbInvOf
<1>2. RbInv /\ [Next]_vars => RbInv'
  BY RbInvStep
<1> QED BY <1>1, <1>2, PTL DEF Spec

\* The head of the ring buffer stays where a size can be read without leaving
\* it; so does the tail once it is settled, and the tail of a reader that has
\* opened the file since; and a reader is woken only while it waits: for every
\* size of the buffer that has room for three entries.
THEOREM TypeInvariant == Spec => []TypeOK
<1>1. RbInv => TypeOK
  <2> SUFFICES ASSUME RbInv PROVE TypeOK
    OBVIOUS
  <2>1. PICK f, g \in Nat : Layout(f, g)
    BY DEF RbInv, Numbers
  <2>2. Types /\ Control /\ Leftover /\ Size \in Nat
    BY RbAssumption DEF RbInv
  <2>3. head \in 0..(Size - HDR)
    BY <2>2 DEF Types, HDR
  <2>4. LogTail \in 0..(Size - HDR) /\ RdTail \in 0..(Size - HDR)
    BY <2>1, <2>2, LayoutInside
  <2>5. settled => tail <= Size - HDR
    BY <2>4 DEF LogTail, Oldest
  <2>6. trusted => rdtail <= Size - HDR
    BY <2>4 DEF RdTail
  <2> QED BY <2>2, <2>3, <2>5, <2>6 DEF Types, Control, Leftover, TypeOK
<1> QED BY <1>1, RbInvariant, PTL

\* Between the tail and the head there are the newest entries, whole and in
\* the order of rb_push, and the last one pushed is among them: however often
\* the buffer has wrapped and wherever the wraps fell.  The loop of rb_push
\* ends.  Before the tail is settled, which is in the first lap, every entry
\* is still there, from offset 0 on.
THEOREM NewestInvariant == Spec => []BufferIsNewest
<1>1. RbInv => BufferIsNewest
  <2> SUFFICES ASSUME RbInv PROVE BufferIsNewest
    OBVIOUS
  <2>1. PICK f, g \in Nat : Numbers(f, g)
    BY DEF RbInv
  <2>2. /\ N \in Nat /\ f \in 1..(N + 1) /\ (N # 0 => f <= N)
        /\ Entries(LogTail) = From(f) /\ sizes \in Seq(Lens \ {0})
        /\ ~settled => f = 1
    BY <2>1, NumberTypes, LayoutFinds DEF RbInv, Types, Numbers
  <2> DEFINE es == Entries(LogTail)
             m == N + 1 - f
  <2>3. es = [i \in 1..m |-> Pushed(f + i - 1)]
    BY <2>2 DEF From
  <2>4. m \in Nat /\ m <= N /\ (N # 0 => m # 0) /\ (~settled => m = N)
    BY <2>2
  <2> HIDE DEF es, m
  <2>5. Len(es) = m /\ DOMAIN es = 1..m
    BY <2>3, <2>4
  <2>6. ASSUME NEW i \in 1..m PROVE es[i] = Pushed(N - m + i)
    <3>1. N - m + i = f + i - 1
      BY <2>2 DEF m
    <3> QED BY <2>3, <3>1
  <2>7. IsSuffix(es)
    BY <2>4, <2>5, <2>6 DEF IsSuffix, N
  <2>8. sizes # <<>> => N # 0
    BY <2>2 DEF N
  <2>9. sizes # <<>> => es # <<>>
    BY <2>4, <2>5, <2>8
  <2>10. /\ settled => wpc # "hung"
         /\ N # 0 /\ ~settled => tail > head
    BY DEF RbInv, Leftover
  <2>11. ~settled => Len(es) = Len(sizes)
    BY <2>4, <2>5 DEF N
  <2> QED BY <2>7, <2>8, <2>9, <2>10, <2>11 DEF BufferIsNewest, es, LogTail
<1> QED BY <1>1, RbInvariant, PTL

-----------------------------------------------------------------------------
(***************************************************************************)
(* The ring buffer implements the log.                                     *)
(***************************************************************************)

\* What the refinement mapping says in a state with the layout of f and g.
First == IF settled THEN Len(sizes) - Len(Entries(tail)) + 1 ELSE 0

NextOne == IF trusted THEN Len(sizes) - Len(Entries(rdtail)) + 1 ELSE 0

Numbered ==
  \A f, g \in Nat :
    Types /\ Layout(f, g) => First = Kept(f) /\ NextOne = Ahead(g)

LEMMA LayoutNumbers == Numbered
<1> SUFFICES ASSUME NEW f \in Nat, NEW g \in Nat, Types, Layout(f, g)
             PROVE  First = Kept(f) /\ NextOne = Ahead(g)
  BY DEF Numbered
<1>1. /\ N \in Nat /\ f \in 1..(N + 1) /\ g \in 1..(N + 1)
      /\ Entries(LogTail) = From(f) /\ Entries(RdTail) = From(g)
  BY NumberTypes, LayoutFinds
<1>2. ASSUME NEW k \in 1..(N + 1) PROVE Len(From(k)) = N + 1 - k
  <2>1. N + 1 - k \in Nat
    BY <1>1
  <2> QED BY <2>1 DEF From
<1>3. Len(Entries(LogTail)) = N + 1 - f /\ Len(Entries(RdTail)) = N + 1 - g
  BY <1>1, <1>2
<1>4. (settled => LogTail = tail) /\ (trusted => RdTail = rdtail)
  BY DEF LogTail, Oldest, RdTail
<1> QED BY <1>1, <1>3, <1>4 DEF First, NextOne, Kept, Ahead, N

LEMMA StepIsLogStep ==
  ASSUME RbInv, [Next]_vars, Numbered, Numbered'
  PROVE  [Log!Next]_(Log!vars)
<1>1. PICK f, g \in Nat : RbInvOf(f, g)
  BY DEF RbInv, RbInvOf
<1>2. Keeps(f, g)
  BY <1>1, StepKeeps
<1>3. PICK f1, g1 \in Nat :
        /\ Numbers(f1, g1)'
        /\ LogStep(Kept(f), Ahead(g), Kept(f1)', Ahead(g1)')
  BY <1>2 DEF Keeps
<1>4. First = Kept(f) /\ NextOne = Ahead(g)
  BY <1>1 DEF Numbered, RbInvOf, Numbers
<1>5. First' = Kept(f1)' /\ NextOne' = Ahead(g1)'
  <2>1. Types'
    BY <1>2 DEF Keeps
  <2> QED BY <1>3, <2>1 DEF Numbered, Numbers
<1>6. LogStep(First, NextOne, First', NextOne')
  BY <1>3, <1>4, <1>5
<1>7. CASE LogPush(First, NextOne, First', NextOne')
  <2>1. Log!Push
    BY <1>7 DEF LogPush, Log!Push, First, NextOne, Reader, Given, N
  <2> QED BY <2>1 DEF Log!Next
<1>8. CASE LogOpen(First, NextOne, First', NextOne')
  <2>1. Log!Open
    BY <1>8 DEF LogOpen, Log!Open, First, NextOne, Reader, Given
  <2> QED BY <2>1 DEF Log!Next
<1>9. CASE LogPeek(First, NextOne, First', NextOne')
  <2>1. Log!Peek
    BY <1>9 DEF LogPeek, Log!Peek, First, NextOne, Reader, Given, N
  <2> QED BY <2>1 DEF Log!Next
<1>10. CASE LogRead(First, NextOne, First', NextOne')
  <2>1. Log!Read
    BY <1>10 DEF LogRead, Log!Read, First, NextOne, Reader, Given, N, Pushed
  <2> QED BY <2>1 DEF Log!Next
<1>11. CASE LogJunk(First, NextOne, First', NextOne')
  <2>1. Log!ReadJunk
    BY <1>11 DEF LogJunk, Log!ReadJunk, First, NextOne, Reader, Given
  <2> QED BY <2>1 DEF Log!Next
<1>12. CASE LogSame(First, NextOne, First', NextOne')
  <2>1. Log!Close \/ UNCHANGED Log!vars
    BY <1>12 DEF LogSame, Log!Close, Log!vars, First, NextOne, Reader, Given
  <2> QED BY <2>1 DEF Log!Next
<1> QED BY <1>6, <1>7, <1>8, <1>9, <1>10, <1>11, <1>12 DEF LogStep

\* The byte buffer with its wraps, end markers and two tails implements the
\* log of whole entries of TraceLog: rb_push, rb_reset, rb_next_size and
\* rb_pop are its operations, for every size, every choice of lengths and of
\* the callers' counts, and whatever kmalloc left in the buffer.
THEOREM RbImplementsTraceLog == Spec => ImplementsTraceLog
<1>1. Init => Log!Init
  <2> SUFFICES ASSUME Init PROVE Log!Init
    OBVIOUS
  <2>1. Types /\ Layout(1, 1)
    BY InitIs DEF RbInvOf, Numbers
  <2>2. First = Kept(1) /\ NextOne = Ahead(1)
    BY <2>1, LayoutNumbers DEF Numbered
  <2>3. (trusted <=> settled) /\ First \in {0, 1} /\ NextOne = First
    BY <2>2 DEF Init, Kept, Ahead
  <2> QED BY <2>3 DEF Init, Log!Init, First, NextOne
<1>2. RbInv /\ [Next]_vars /\ Numbered /\ Numbered' => [Log!Next]_(Log!vars)
  BY StepIsLogStep
<1> QED
  BY <1>1, <1>2, RbInvariant, LayoutNumbers, PTL
     DEF Spec, ImplementsTraceLog, Log!Spec
=============================================================================
