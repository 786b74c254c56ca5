------------------------------ MODULE UciLayer ------------------------------
(***************************************************************************)
(* The UCI upper layer (hsspi_uci.c) and the /dev/uci file operations on   *)
(* top of it (uci_open, uci_release, uci_read, uci_write, uci_poll of      *)
(* qm35-spi.c).                                                            *)
(*                                                                         *)
(* The HSSPI thread gives the layer received blocks and gives back the     *)
(* blocks it has sent.  A received block carries one or several UCI        *)
(* packets; uci_received queues each of them as a struct uci_packet of its *)
(* own, but all of them point into the memory of the one block, which goes *)
(* with the last of them.  UCI packets are numbered here in the order of   *)
(* reception, and a struct uci_packet covers the numbers lo..hi.           *)
(*                                                                         *)
(* Of HSSPI this module uses what module Hsspi establishes: hsspi_send     *)
(* accepts a block only for a registered layer, and hsspi_unregister       *)
(* returns when neither the list nor the thread refers to the layer.       *)
(***************************************************************************)
EXTENDS Integers, Sequences, FiniteSets

CONSTANTS
  Readers,    \* threads that read or poll the open file
  Writers,    \* threads that write to the open file
  Blocks,     \* data areas of blocks that memory can hold at a time
  None,       \* a NULL pointer
  BlkPackets, \* bound: UCI packets in one received block
  MaxPackets  \* bound: UCI packets received in a behaviour

ASSUME ConstantsAssumption ==
  /\ IsFiniteSet(Readers)
  /\ None \notin Blocks
  /\ BlkPackets \in Nat \ {0}
  /\ MaxPackets \in Nat

VARIABLES
  file,     \* the file: "closed", "open", or "release" inside uci_release
  mem,      \* the data areas that are allocated
  rx_list,  \* uci->rx_list
  tpc,      \* where the HSSPI thread is in the layer's callbacks
  p,        \* the packet the thread received into and is splitting
  tx_queue, \* the writers whose blocks HSSPI holds, oldest first
  rpc,      \* where each reader is
  rwoken,   \* the reader is runnable at uci->wq
  held,     \* the packet a reader took off the list
  wpc,      \* where each writer is
  wblk,     \* the writer's block
  received, \* number of UCI packets received so far
  taken     \* number of UCI packets taken off the list by readers so far

readerVars == <<rpc, rwoken, held>>
writerVars == <<tx_queue, wpc, wblk>>
vars == <<file, mem, rx_list, tpc, p, readerVars, writerVars, received, taken>>

\* struct uci_packet: data points into area `at`; `own` is blk.data, the area
\* that uci_packet_free frees, NULL for the packets split off before the last.
Packet  == [at : Blocks, own : Blocks \cup {None},
            lo : 0..MaxPackets, hi : 0..MaxPackets]

ASSUME NullIsNoPacket == None \notin Packet

Length(q) == q.hi - q.lo + 1

Init ==
  /\ file = "closed"
  /\ mem = {}
  /\ rx_list = <<>>
  /\ tpc = "idle"
  /\ p = None
  /\ tx_queue = <<>>
  /\ rpc = [r \in Readers |-> "idle"]
  /\ rwoken = [r \in Readers |-> FALSE]
  /\ held = [r \in Readers |-> None]
  /\ wpc = [w \in Writers |-> "idle"]
  /\ wblk = [w \in Writers |-> None]
  /\ received = 0
  /\ taken = 0

\* uci_packet_free: kfree of blk.data, which may be NULL, and of the packet.
uci_packet_free(q) == mem' = mem \ {q.own}

wake_up_all == rwoken' = [r \in Readers |-> TRUE]

-----------------------------------------------------------------------------
(***************************************************************************)
(* Opening and closing.  Only one struct file can be open, since a second  *)
(* hsspi_register returns -EBUSY; release runs when no call is inside it.  *)
(***************************************************************************)

uci_open ==
  /\ file = "closed"
  /\ file' = "open"
  /\ UNCHANGED <<mem, rx_list, tpc, p, readerVars, writerVars, received, taken>>

uci_release ==
  /\ file = "open"
  /\ \A r \in Readers : rpc[r] = "idle"
  /\ \A w \in Writers : wpc[w] = "idle"
  /\ file' = "release"
  /\ UNCHANGED <<mem, rx_list, tpc, p, readerVars, writerVars, received, taken>>

\* hsspi_unregister returns.  It calls no operation of the layer.
uci_release_return ==
  /\ file = "release"
  /\ tpc = "idle"
  /\ tx_queue = <<>>
  /\ file' = "closed"
  /\ UNCHANGED <<mem, rx_list, tpc, p, readerVars, writerVars, received, taken>>

\* Unbind: uci_layer_deinit runs clear_rx_list.  The driver may be bound
\* again, uci_layer_init then starts from the same state.
clear_rx_list_HeadOnly ==
  /\ rx_list # <<>>
  /\ rx_list' = <<>>
  /\ mem' = mem \ {Head(rx_list).own}
  /\ taken' = received
  /\ wake_up_all

clear_rx_list ==
  /\ rx_list # <<>>
  /\ rx_list' = <<>>
  /\ mem' = mem \ {rx_list[i].own : i \in DOMAIN rx_list}
  /\ taken' = received
  /\ wake_up_all

uci_layer_deinit ==
  /\ file = "closed"
  /\ clear_rx_list
  /\ UNCHANGED <<file, tpc, p, rpc, held, writerVars, received>>

-----------------------------------------------------------------------------
(***************************************************************************)
(* The callbacks, run by the HSSPI thread.                                 *)
(***************************************************************************)

\* uci_get: the thread, about to read a block for the registered layer,
\* allocates it.  When memory is short the thread reads no payload instead.
uci_get(b) ==
  /\ tpc = "idle"
  /\ file = "open"
  /\ b \notin mem
  /\ mem' = mem \cup {b}
  /\ p' = [at |-> b, own |-> b, lo |-> 0, hi |-> 0]
  /\ tpc' = "read"
  /\ UNCHANGED <<file, rx_list, readerVars, writerVars, received, taken>>

\* uci_received with an error status.
uci_received_error ==
  /\ tpc = "read"
  /\ uci_packet_free(p)
  /\ p' = None
  /\ tpc' = "idle"
  /\ UNCHANGED <<file, rx_list, readerVars, writerVars, received, taken>>

\* uci_received with status 0: the block holds n UCI packets.
uci_received(n) ==
  /\ tpc = "read"
  /\ received + n <= MaxPackets
  /\ received' = received + n
  /\ p' = [p EXCEPT !.lo = received + 1, !.hi = received + n]
  /\ tpc' = "split"
  /\ UNCHANGED <<file, mem, rx_list, readerVars, writerVars, taken>>

\* One turn of the loop: the first UCI packet of what is left is queued as a
\* packet of its own that points into the block.
uci_received_next_First ==
  /\ tpc = "split"
  /\ Length(p) > 1
  /\ rx_list' = Append(rx_list, [p EXCEPT !.hi = p.lo])
  /\ p' = [p EXCEPT !.lo = p.lo + 1, !.own = None]
  /\ UNCHANGED <<file, mem, tpc, readerVars, writerVars, received, taken>>

uci_received_next ==
  /\ tpc = "split"
  /\ Length(p) > 1
  /\ rx_list' = Append(rx_list, [p EXCEPT !.own = None, !.hi = p.lo])
  /\ p' = [p EXCEPT !.lo = p.lo + 1]
  /\ UNCHANGED <<file, mem, tpc, readerVars, writerVars, received, taken>>

\* The loop ends, since one UCI packet is left or there is no memory for
\* another struct uci_packet: what is left is queued with the block.
uci_received_last ==
  /\ tpc = "split"
  /\ rx_list' = Append(rx_list, p)
  /\ p' = None
  /\ tpc' = "wake"
  /\ UNCHANGED <<file, mem, readerVars, writerVars, received, taken>>

uci_received_wake_Lost ==
  /\ tpc = "wake"
  /\ tpc' = "idle"
  /\ UNCHANGED <<file, mem, rx_list, p, readerVars, writerVars, received, taken>>

uci_received_wake ==
  /\ tpc = "wake"
  /\ wake_up_all
  /\ tpc' = "idle"
  /\ UNCHANGED <<file, mem, rx_list, p, rpc, held, writerVars, received, taken>>

\* The thread has sent, or failed to send, the oldest block: uci_sent
\* completes the writer's on-stack completion.
uci_sent ==
  /\ tpc = "idle"
  /\ tx_queue # <<>>
  /\ tx_queue' = Tail(tx_queue)
  /\ wpc' = [wpc EXCEPT ![Head(tx_queue)] = "done"]
  /\ UNCHANGED <<file, mem, rx_list, tpc, p, readerVars, wblk, received, taken>>

-----------------------------------------------------------------------------
(***************************************************************************)
(* uci_read and uci_poll.                                                  *)
(***************************************************************************)

\* uci_read: a blocking call goes to the wait, a non-blocking one past it.
uci_read(r, non_blocking) ==
  /\ file = "open"
  /\ rpc[r] = "idle"
  /\ rpc' = [rpc EXCEPT ![r] = IF non_blocking THEN "try" ELSE "wait"]
  /\ rwoken' = [rwoken EXCEPT ![r] = TRUE]
  /\ UNCHANGED <<file, mem, rx_list, tpc, p, held, writerVars, received, taken>>

\* poll(2): the caller is put on uci->wq before uci_poll looks at the list.
uci_poll(r) ==
  /\ file = "open"
  /\ rpc[r] = "idle"
  /\ rpc' = [rpc EXCEPT ![r] = "poll"]
  /\ rwoken' = [rwoken EXCEPT ![r] = TRUE]
  /\ UNCHANGED <<file, mem, rx_list, tpc, p, held, writerVars, received, taken>>

uci_layer_has_data_available == rx_list # <<>>

\* The reader, on the wait queue, evaluates the condition, and goes on or
\* sleeps.  After EPOLLIN it reads without blocking.
wait_event(r) ==
  /\ rpc[r] \in {"wait", "poll"}
  /\ rwoken[r]
  /\ rwoken' = [rwoken EXCEPT ![r] = FALSE]
  /\ rpc' = IF uci_layer_has_data_available
              THEN [rpc EXCEPT ![r] = "take"] ELSE rpc
  /\ UNCHANGED <<file, mem, rx_list, tpc, p, held, writerVars, received, taken>>

\* A signal ends the wait: -EINTR.
wait_event_signal(r) ==
  /\ rpc[r] \in {"wait", "poll"}
  /\ rpc' = [rpc EXCEPT ![r] = "idle"]
  /\ rwoken' = [rwoken EXCEPT ![r] = FALSE]
  /\ UNCHANGED <<file, mem, rx_list, tpc, p, held, writerVars, received, taken>>

\* The rest of uci_layer_read, under uci->lock: the first packet, -EMSGSIZE
\* when it does not fit in max_size, -EAGAIN when there is none.
uci_layer_read_Drop(r, max_size) ==
  /\ rpc[r] \in {"take", "try"}
  /\ IF rx_list # <<>>
       THEN /\ held' = IF Length(Head(rx_list)) <= max_size
                         THEN [held EXCEPT ![r] = Head(rx_list)] ELSE held
            /\ rx_list' = Tail(rx_list)
            /\ taken' = IF Length(Head(rx_list)) <= max_size
                          THEN taken + Length(Head(rx_list)) ELSE taken
            /\ rpc' = [rpc EXCEPT ![r] =
                         IF Length(Head(rx_list)) <= max_size
                           THEN "copy" ELSE "idle"]
       ELSE /\ rpc' = [rpc EXCEPT ![r] = "idle"]
            /\ UNCHANGED <<rx_list, held, taken>>
  /\ rwoken' = [rwoken EXCEPT ![r] = FALSE]
  /\ UNCHANGED <<file, mem, tpc, p, writerVars, received>>

uci_layer_read(r, max_size) ==
  /\ rpc[r] \in {"take", "try"}
  /\ IF rx_list # <<>> /\ Length(Head(rx_list)) <= max_size
       THEN /\ held' = [held EXCEPT ![r] = Head(rx_list)]
            /\ rx_list' = Tail(rx_list)
            /\ taken' = taken + Length(Head(rx_list))
            /\ rpc' = [rpc EXCEPT ![r] = "copy"]
       ELSE /\ rpc' = [rpc EXCEPT ![r] = "idle"]
            /\ UNCHANGED <<rx_list, held, taken>>
  /\ rwoken' = [rwoken EXCEPT ![r] = FALSE]
  /\ UNCHANGED <<file, mem, tpc, p, writerVars, received>>

\* copy_to_user, which may fault, then uci_packet_free in any case.
uci_read_copy(r) ==
  /\ rpc[r] = "copy"
  /\ uci_packet_free(held[r])
  /\ held' = [held EXCEPT ![r] = None]
  /\ rpc' = [rpc EXCEPT ![r] = "idle"]
  /\ UNCHANGED <<file, rx_list, tpc, p, rwoken, writerVars, received, taken>>

-----------------------------------------------------------------------------
(***************************************************************************)
(* uci_write.  A call that finds no memory, faults, or whose hsspi_send is *)
(* refused frees its packet and changes nothing.                           *)
(***************************************************************************)

uci_write(w, b) ==
  /\ file = "open"
  /\ wpc[w] = "idle"
  /\ b \notin mem
  /\ mem' = mem \cup {b}
  /\ wblk' = [wblk EXCEPT ![w] = b]
  /\ tx_queue' = Append(tx_queue, w)
  /\ wpc' = [wpc EXCEPT ![w] = "wait"]
  /\ UNCHANGED <<file, rx_list, tpc, p, readerVars, received, taken>>

\* wait_for_completion returns; the status is read and the packet freed.
uci_write_return(w) ==
  /\ wpc[w] = "done"
  /\ mem' = mem \ {wblk[w]}
  /\ wblk' = [wblk EXCEPT ![w] = None]
  /\ wpc' = [wpc EXCEPT ![w] = "idle"]
  /\ UNCHANGED <<file, rx_list, tpc, p, tx_queue, readerVars, received, taken>>

-----------------------------------------------------------------------------
Thread ==
  \/ \E b \in Blocks : uci_get(b)
  \/ uci_received_error
  \/ \E n \in 1..BlkPackets : uci_received(n)
  \/ uci_received_next
  \/ uci_received_last
  \/ uci_received_wake
  \/ uci_sent

\* The steps of a reader that is inside a call, signals aside.
ReaderRuns(r) ==
  \/ wait_event(r)
  \/ \E m \in 1..BlkPackets : uci_layer_read(r, m)
  \/ uci_read_copy(r)

Reader(r) ==
  \/ \E nb \in BOOLEAN : uci_read(r, nb)
  \/ uci_poll(r)
  \/ wait_event_signal(r)
  \/ ReaderRuns(r)

Writer(w) ==
  \/ \E b \in Blocks : uci_write(w, b)
  \/ uci_write_return(w)

Next ==
  \/ uci_open \/ uci_release \/ uci_release_return \/ uci_layer_deinit
  \/ Thread
  \/ \E r \in Readers : Reader(r)
  \/ \E w \in Writers : Writer(w)

Spec == Init /\ [][Next]_vars

(***************************************************************************)
(* Fairness: the HSSPI thread finishes a callback it entered, and a        *)
(* runnable reader runs.                                                   *)
(***************************************************************************)
Fairness ==
  /\ WF_vars(uci_received_error \/ (\E n \in 1..BlkPackets : uci_received(n))
             \/ uci_received_next \/ uci_received_last \/ uci_received_wake)
  /\ \A r \in Readers : WF_vars(ReaderRuns(r))

FairSpec == Spec /\ Fairness

-----------------------------------------------------------------------------
(***************************************************************************)
(* Properties.                                                             *)
(***************************************************************************)

TypeOK ==
  /\ file \in {"closed", "open", "release"}
  /\ mem \subseteq Blocks
  /\ rx_list \in Seq(Packet)
  /\ tpc \in {"idle", "read", "split", "wake"}
  /\ p \in Packet \cup {None}
  /\ tx_queue \in Seq(Writers)
  /\ rpc \in [Readers -> {"idle", "wait", "poll", "take", "try", "copy"}]
  /\ rwoken \in [Readers -> BOOLEAN]
  /\ held \in [Readers -> Packet \cup {None}]
  /\ wpc \in [Writers -> {"idle", "wait", "done"}]
  /\ wblk \in [Writers -> Blocks \cup {None}]
  /\ received \in 0..MaxPackets
  /\ taken \in 0..MaxPackets

\* The places that hold the right to free area b.
OwnersInList(b) == {i \in DOMAIN rx_list : rx_list[i].own = b}
OwningReaders(b) == {r \in Readers : held[r] # None /\ held[r].own = b}
OwningWriters(b) == {w \in Writers : wblk[w] = b}
OwningThread(b) == {t \in {p} : t # None /\ t.own = b}

\* Every allocated block is to be freed by exactly one place and no freed
\* block is to be freed again: the way uci_received passes the block to the
\* last packet, and each exit of uci_read and uci_write, leak nothing and
\* free nothing twice.
BlockHasOneOwner ==
  \A b \in Blocks :
    Cardinality(OwnersInList(b)) + Cardinality(OwningReaders(b))
      + Cardinality(OwningWriters(b)) + Cardinality(OwningThread(b))
    = IF b \in mem THEN 1 ELSE 0

\* What a queued packet, the packet a lone reader is copying, and a block
\* that HSSPI is to send point to is still allocated.  With several readers
\* the clause on the packet being copied does not hold: see the README.
DataIsAlive ==
  /\ \A i \in DOMAIN rx_list : rx_list[i].at \in mem
  /\ Cardinality(Readers) = 1 =>
       \A r \in Readers : held[r] # None => held[r].at \in mem
  /\ \A i \in DOMAIN tx_queue : wblk[tx_queue[i]] \in mem

\* The list is the stream of UCI packets from the last one read to the last
\* one received, in order: splitting, -EMSGSIZE, signals and concurrent
\* reads neither drop nor repeat nor reorder one.
ListIsTheStream ==
  LET Lo(i) == IF i = 1 THEN taken + 1 ELSE rx_list[i - 1].hi + 1
      End == IF tpc = "split" THEN p.lo - 1 ELSE received
  IN  /\ \A i \in DOMAIN rx_list : rx_list[i].lo = Lo(i)
      /\ End = IF rx_list = <<>> THEN taken ELSE rx_list[Len(rx_list)].hi

\* uci_unregistered empties the list, and hsspi.h says of unregistered()
\* "Called when unregistered": a file that was closed leaves nothing to be
\* read by the next one that is opened.
ClosedIsEmpty == file = "closed" => rx_list = <<>>

\* A reader or poller that waits while a packet is queued gets to run: no
\* wake-up is lost between the list and the wait queue.
WaitingReaderWakes ==
  \A r \in Readers :
    (rpc[r] \in {"wait", "poll"} /\ rx_list # <<>>)
      ~> (rpc[r] \notin {"wait", "poll"} \/ rx_list = <<>>)
==============================================================================
