--------------------------- MODULE UciLayerProofs ---------------------------
(***************************************************************************)
(* Proofs about module UciLayer, for any number of readers, writers,       *)
(* blocks and packets.                                                     *)
(***************************************************************************)
EXTENDS UciLayer, FiniteSetTheorems, TLAPS

-----------------------------------------------------------------------------
(***************************************************************************)
(* Sequences, element by element.                                          *)
(***************************************************************************)

\* list_add_tail keeps every element in its place and adds one behind them.
LEMMA AppendFacts ==
  ASSUME NEW S, NEW s \in Seq(S), NEW x \in S
  PROVE  /\ Append(s, x) \in Seq(S)
         /\ Len(s) \in Nat
         /\ DOMAIN s = 1..Len(s)
         /\ Len(Append(s, x)) = Len(s) + 1
         /\ DOMAIN Append(s, x) = 1..(Len(s) + 1)
         /\ \A i \in 1..Len(s) : Append(s, x)[i] = s[i]
         /\ Append(s, x)[Len(s) + 1] = x
         /\ Append(s, x) # <<>>
         /\ s # <<>> => Len(s) >= 1
         /\ s = <<>> => Len(s) = 0
  OBVIOUS

LEMMA EmptyFacts ==
  ASSUME NEW S, NEW s \in Seq(S)
  PROVE  s = <<>> <=> Len(s) = 0
  OBVIOUS

\* list_del of the first element moves the others up by one.
LEMMA TailFacts ==
  ASSUME NEW S, NEW s \in Seq(S), s # <<>>
  PROVE  /\ Tail(s) \in Seq(S)
         /\ Head(s) \in S
         /\ Head(s) = s[1]
         /\ Len(s) \in Nat /\ Len(s) >= 1
         /\ DOMAIN s = 1..Len(s)
         /\ Len(Tail(s)) = Len(s) - 1
         /\ DOMAIN Tail(s) = 1..(Len(s) - 1)
         /\ \A i \in 1..(Len(s) - 1) : Tail(s)[i] = s[i + 1]
         /\ Tail(s) = <<>> <=> Len(s) = 1
<1>1. /\ Tail(s) \in Seq(S)
      /\ Head(s) \in S
      /\ Head(s) = s[1]
      /\ Len(s) \in Nat /\ Len(s) >= 1
      /\ DOMAIN s = 1..Len(s)
      /\ Len(Tail(s)) = Len(s) - 1
      /\ DOMAIN Tail(s) = 1..(Len(s) - 1)
      /\ \A i \in 1..(Len(s) - 1) : Tail(s)[i] = s[i + 1]
  OBVIOUS
<1>2. Tail(s) = <<>> <=> Len(Tail(s)) = 0
  BY <1>1, EmptyFacts
<1> QED BY <1>1, <1>2

\* The numbers of a packet are numbers.
LEMMA PacketFacts ==
  \A q \in Packet : /\ q.lo \in Int /\ q.hi \in Int
                    /\ q.lo \in 0..MaxPackets /\ q.hi \in 0..MaxPackets
                    /\ q.at \in Blocks /\ q.own \in Blocks \cup {None}
                    /\ q # None
  BY ConstantsAssumption, NullIsNoPacket DEF Packet

-----------------------------------------------------------------------------
(***************************************************************************)
(* Types, the scopes of the local variables, and the stream of packets.    *)
(* The number of packets read is bounded only because the packets in the   *)
(* list are consecutive, so these are shown together.                      *)
(***************************************************************************)

Scoped ==
  /\ tpc \in {"read", "split"} <=> p # None
  /\ tpc \in {"read", "split"} => p.own = p.at
  /\ tpc = "split" => p.hi = received
  /\ \A r \in Readers : held[r] # None <=> rpc[r] = "copy"
  /\ \A w \in Writers : wblk[w] = None <=> wpc[w] = "idle"
  /\ file # "open" => /\ \A r \in Readers : rpc[r] = "idle"
                      /\ \A w \in Writers : wpc[w] = "idle"
  /\ file = "closed" => tpc = "idle"

\* The writers whose blocks HSSPI holds wait for them, each for one.
QueueIsWaiting ==
  /\ \A i \in DOMAIN tx_queue : wpc[tx_queue[i]] = "wait"
  /\ \A i, j \in DOMAIN tx_queue : tx_queue[i] = tx_queue[j] => i = j

TypeInv == TypeOK /\ Scoped /\ QueueIsWaiting /\ ListIsTheStream

\* Steps that leave the list, the reader count and the split alone.
LEMMA StreamFrame ==
  ASSUME ListIsTheStream, UNCHANGED <<rx_list, taken, received>>,
         tpc # "split", tpc' # "split"
  PROVE  ListIsTheStream'
  BY DEF ListIsTheStream

\* Queueing the next packets of the stream.
LEMMA StreamAppend ==
  ASSUME TypeOK, ListIsTheStream, tpc = "split", NEW q \in Packet,
         rx_list' = Append(rx_list, q), taken' = taken, received' = received,
         p \in Packet, q.lo = p.lo,
         \/ tpc' = "split" /\ p'.lo = q.hi + 1
         \/ tpc' # "split" /\ q.hi = received
  PROVE  ListIsTheStream'
<1>1. /\ rx_list \in Seq(Packet)
      /\ Len(rx_list) \in Nat
      /\ DOMAIN rx_list = 1..Len(rx_list)
      /\ Len(rx_list') = Len(rx_list) + 1
      /\ DOMAIN rx_list' = 1..(Len(rx_list) + 1)
      /\ \A i \in 1..Len(rx_list) : rx_list'[i] = rx_list[i]
      /\ rx_list'[Len(rx_list) + 1] = q
      /\ rx_list' # <<>>
      /\ rx_list # <<>> => Len(rx_list) >= 1
      /\ rx_list = <<>> => Len(rx_list) = 0
  BY AppendFacts DEF TypeOK
<1>2. /\ \A i \in DOMAIN rx_list :
           rx_list[i].lo = IF i = 1 THEN taken + 1 ELSE rx_list[i - 1].hi + 1
      /\ p.lo - 1 = IF rx_list = <<>> THEN taken ELSE rx_list[Len(rx_list)].hi
  BY DEF ListIsTheStream
<1>3. /\ q.hi \in Int /\ p.lo \in Int /\ taken \in Int
      /\ \A i \in 1..Len(rx_list) : rx_list[i].hi \in Int
  <2>1. \A i \in 1..Len(rx_list) : rx_list[i] \in Packet
    BY <1>1
  <2> QED BY <2>1, PacketFacts DEF TypeOK
<1>4. ASSUME NEW i \in 1..(Len(rx_list) + 1)
      PROVE  rx_list'[i].lo = IF i = 1 THEN taken + 1 ELSE rx_list'[i - 1].hi + 1
  <2>1. CASE i \in 1..Len(rx_list)
    BY <1>1, <1>2, <2>1
  <2>2. CASE i = Len(rx_list) + 1 /\ rx_list = <<>>
    BY <1>1, <1>2, <1>3, <2>2
  <2>3. CASE i = Len(rx_list) + 1 /\ rx_list # <<>>
    <3>1. i # 1 /\ i - 1 = Len(rx_list) /\ i - 1 \in 1..Len(rx_list)
      BY <1>1, <2>3
    <3> QED BY <1>1, <1>2, <1>3, <2>3, <3>1
  <2> QED BY <1>1, <2>1, <2>2, <2>3
<1>5. (IF tpc' = "split" THEN p'.lo - 1 ELSE received')
        = rx_list'[Len(rx_list')].hi
  BY <1>1, <1>3
<1> QED BY <1>1, <1>4, <1>5 DEF ListIsTheStream

\* Taking the first packet of the list.
LEMMA StreamTake ==
  ASSUME TypeOK, ListIsTheStream, rx_list # <<>>, rx_list' = Tail(rx_list),
         taken' = taken + Length(Head(rx_list)),
         UNCHANGED <<tpc, p, received>>
  PROVE  ListIsTheStream' /\ taken' = Head(rx_list).hi
<1>1. /\ Len(rx_list) \in Nat /\ Len(rx_list) >= 1
      /\ rx_list \in Seq(Packet)
      /\ Head(rx_list) = rx_list[1]
      /\ DOMAIN rx_list = 1..Len(rx_list)
      /\ Len(rx_list') = Len(rx_list) - 1
      /\ DOMAIN rx_list' = 1..(Len(rx_list) - 1)
      /\ \A i \in 1..(Len(rx_list) - 1) : rx_list'[i] = rx_list[i + 1]
      /\ rx_list' = <<>> <=> Len(rx_list) = 1
  BY TailFacts DEF TypeOK
<1>2. /\ \A i \in DOMAIN rx_list :
           rx_list[i].lo = IF i = 1 THEN taken + 1 ELSE rx_list[i - 1].hi + 1
      /\ (IF tpc = "split" THEN p.lo - 1 ELSE received)
           = rx_list[Len(rx_list)].hi
  BY DEF ListIsTheStream
<1>3. /\ taken \in Int
      /\ \A i \in 1..Len(rx_list) : rx_list[i].hi \in Int /\ rx_list[i].lo \in Int
  <2>1. \A i \in 1..Len(rx_list) : rx_list[i] \in Packet
    BY <1>1
  <2> QED BY <2>1, PacketFacts DEF TypeOK
<1>4. taken' = rx_list[1].hi
  <2>1. 1 \in DOMAIN rx_list
    BY <1>1
  <2>2. rx_list[1].lo = taken + 1
    BY <1>2, <2>1
  <2>3. taken' = taken + (rx_list[1].hi - rx_list[1].lo + 1)
    BY <1>1 DEF Length
  <2>4. taken \in Int /\ rx_list[1].hi \in Int /\ rx_list[1].lo \in Int
    BY <1>1, <1>3, <2>1
  <2> QED BY <2>2, <2>3, <2>4
<1>5. ASSUME NEW i \in 1..(Len(rx_list) - 1)
      PROVE  rx_list'[i].lo = IF i = 1 THEN taken' + 1 ELSE rx_list'[i - 1].hi + 1
  <2>1. i + 1 \in DOMAIN rx_list /\ i + 1 # 1 /\ (i + 1) - 1 = i
    BY <1>1
  <2>2. rx_list'[i].lo = rx_list[i].hi + 1
    BY <1>1, <1>2, <2>1
  <2>3. CASE i = 1
    BY <1>4, <2>2, <2>3
  <2>4. CASE i # 1
    <3>1. i - 1 \in 1..(Len(rx_list) - 1) /\ (i - 1) + 1 = i
      BY <1>1, <2>4
    <3> QED BY <1>1, <2>2, <2>4, <3>1
  <2> QED BY <2>3, <2>4
<1>6. (IF tpc' = "split" THEN p'.lo - 1 ELSE received')
        = IF rx_list' = <<>> THEN taken' ELSE rx_list'[Len(rx_list')].hi
  <2>1. CASE rx_list' = <<>>
    BY <1>1, <1>2, <1>4, <2>1
  <2>2. CASE rx_list' # <<>>
    <3>1. Len(rx_list') \in 1..(Len(rx_list) - 1)
          /\ Len(rx_list') + 1 = Len(rx_list)
      BY <1>1, <2>2
    <3> QED BY <1>1, <1>2, <2>2, <3>1
  <2> QED BY <2>1, <2>2
<1> QED BY <1>1, <1>4, <1>5, <1>6 DEF ListIsTheStream

\* hsspi_send, uci_sent and the writers keep the queue waiting.
LEMMA QueueStep ==
  ASSUME TypeInv, [Next]_vars
  PROVE  QueueIsWaiting'
<1> USE DEF readerVars, writerVars
<1>0. /\ QueueIsWaiting /\ tx_queue \in Seq(Writers)
      /\ wpc \in [Writers -> {"idle", "wait", "done"}]
  BY DEF TypeInv, TypeOK
<1>1. ASSUME NEW w \in Writers, NEW b \in Blocks, uci_write(w, b)
      PROVE  QueueIsWaiting'
  <2>1. /\ tx_queue' = Append(tx_queue, w)
        /\ wpc[w] = "idle" /\ wpc' = [wpc EXCEPT ![w] = "wait"]
    BY <1>1 DEF uci_write
  <2>2. /\ Len(tx_queue) \in Nat
        /\ DOMAIN tx_queue = 1..Len(tx_queue)
        /\ DOMAIN tx_queue' = 1..(Len(tx_queue) + 1)
        /\ \A i \in 1..Len(tx_queue) : tx_queue'[i] = tx_queue[i]
        /\ tx_queue'[Len(tx_queue) + 1] = w
    BY <1>0, <2>1, AppendFacts
  <2>3. \A i \in 1..Len(tx_queue) : tx_queue[i] # w /\ tx_queue[i] \in Writers
    BY <1>0, <2>1, <2>2 DEF QueueIsWaiting
  <2> QED BY <1>0, <2>1, <2>2, <2>3 DEF QueueIsWaiting
<1>2. CASE uci_sent
  <2>1. /\ tx_queue # <<>> /\ tx_queue' = Tail(tx_queue)
        /\ wpc' = [wpc EXCEPT ![Head(tx_queue)] = "done"]
    BY <1>2 DEF uci_sent
  <2>2. /\ Head(tx_queue) = tx_queue[1] /\ Len(tx_queue) \in Nat
        /\ DOMAIN tx_queue = 1..Len(tx_queue)
        /\ DOMAIN tx_queue' = 1..(Len(tx_queue) - 1)
        /\ \A i \in 1..(Len(tx_queue) - 1) : tx_queue'[i] = tx_queue[i + 1]
    BY <1>0, <2>1, TailFacts
  <2>3. ASSUME NEW i \in 1..(Len(tx_queue) - 1)
        PROVE  /\ i + 1 \in DOMAIN tx_queue /\ 1 \in DOMAIN tx_queue
               /\ tx_queue[i + 1] # tx_queue[1]
               /\ tx_queue[i + 1] \in Writers
    BY <1>0, <2>2 DEF QueueIsWaiting
  <2>4. \A i \in DOMAIN tx_queue' : wpc'[tx_queue'[i]] = "wait"
    BY <1>0, <2>1, <2>2, <2>3 DEF QueueIsWaiting
  <2>5. \A i, j \in DOMAIN tx_queue' : tx_queue'[i] = tx_queue'[j] => i = j
    BY <1>0, <2>2, <2>3 DEF QueueIsWaiting
  <2> QED BY <2>4, <2>5 DEF QueueIsWaiting
<1>3. ASSUME NEW w \in Writers, uci_write_return(w)
      PROVE  QueueIsWaiting'
  <2>1. /\ wpc[w] = "done" /\ tx_queue' = tx_queue
        /\ wpc' = [wpc EXCEPT ![w] = "idle"]
    BY <1>3 DEF uci_write_return
  <2>2. \A i \in DOMAIN tx_queue : tx_queue[i] # w /\ tx_queue[i] \in Writers
    BY <1>0, <2>1 DEF QueueIsWaiting
  <2> QED BY <1>0, <2>1, <2>2 DEF QueueIsWaiting
<1>4. CASE UNCHANGED <<tx_queue, wpc>>
  BY <1>0, <1>4 DEF QueueIsWaiting
<1>5. \/ uci_sent
      \/ \E w \in Writers : Writer(w)
      \/ UNCHANGED <<tx_queue, wpc>>
  BY DEF Next, Thread, Reader, ReaderRuns, vars, uci_open, uci_release,
     uci_release_return, uci_layer_deinit, uci_get, uci_received_error,
     uci_received, uci_received_next, uci_received_last, uci_received_wake,
     uci_read, uci_poll, wait_event, wait_event_signal, uci_layer_read,
     uci_read_copy
<1> QED BY <1>1, <1>2, <1>3, <1>4, <1>5 DEF Writer

\* Every step keeps types, scopes and the stream.
LEMMA TypeStep ==
  ASSUME TypeInv, [Next]_vars
  PROVE  TypeInv'
<1> USE ConstantsAssumption, NullIsNoPacket DEF readerVars, writerVars
<1> SUFFICES TypeOK' /\ Scoped' /\ ListIsTheStream'
  BY QueueStep DEF TypeInv
<1> DEFINE Goal == TypeOK' /\ Scoped' /\ ListIsTheStream'
<1>0. TypeOK /\ Scoped /\ ListIsTheStream
  BY DEF TypeInv
<1>1. CASE uci_open \/ uci_release \/ uci_release_return
  <2>1. /\ UNCHANGED <<mem, rx_list, tpc, p, rpc, rwoken, held, tx_queue, wpc,
                       wblk, received, taken>>
        /\ file' \in {"closed", "open", "release"}
    BY <1>1 DEF uci_open, uci_release, uci_release_return
  <2>2. TypeOK' /\ ListIsTheStream'
    BY <1>0, <2>1 DEF TypeOK, ListIsTheStream
  <2>3. /\ file' # "open" => /\ \A r \in Readers : rpc[r] = "idle"
                             /\ \A w \in Writers : wpc[w] = "idle"
        /\ file' = "closed" => tpc = "idle"
    BY <1>0, <1>1 DEF uci_open, uci_release, uci_release_return, Scoped
  <2>4. Scoped'
    BY <1>0, <2>1, <2>3 DEF Scoped
  <2> QED BY <2>2, <2>4
<1>2. CASE uci_layer_deinit
  <2>1. /\ UNCHANGED <<file, tpc, p, rpc, held, tx_queue, wpc, wblk, received>>
        /\ file = "closed" /\ rx_list' = <<>> /\ taken' = received
        /\ mem' \subseteq mem /\ rwoken' = [r \in Readers |-> TRUE]
    BY <1>2 DEF uci_layer_deinit, clear_rx_list, wake_up_all
  <2>2. rwoken' \in [Readers -> BOOLEAN] /\ rx_list' \in Seq(Packet)
    BY <2>1
  <2>3. TypeOK'
    BY <1>0, <2>1, <2>2 DEF TypeOK
  <2>4. Scoped'
    BY <1>0, <2>1 DEF Scoped
  <2>5. ListIsTheStream'
    BY <1>0, <2>1 DEF Scoped, ListIsTheStream
  <2> QED BY <2>3, <2>4, <2>5
<1>3. ASSUME NEW b \in Blocks, uci_get(b)
      PROVE  Goal
  <2>1. p' \in Packet /\ p'.own = p'.at
    BY <1>3 DEF uci_get, Packet
  <2>2. TypeOK'
    BY <1>0, <1>3, <2>1 DEF TypeOK, uci_get
  <2>3. Scoped'
    BY <1>0, <1>3, <2>1 DEF Scoped, uci_get
  <2>4. ListIsTheStream'
    BY <1>0, <1>3, StreamFrame DEF uci_get
  <2> QED BY <2>2, <2>3, <2>4
<1>4. CASE uci_received_error
  <2>1. TypeOK'
    BY <1>0, <1>4 DEF TypeOK, uci_received_error, uci_packet_free
  <2>2. Scoped'
    BY <1>0, <1>4 DEF Scoped, uci_received_error
  <2>3. ListIsTheStream'
    BY <1>0, <1>4, StreamFrame DEF uci_received_error
  <2> QED BY <2>1, <2>2, <2>3
<1>5. ASSUME NEW n \in 1..BlkPackets, uci_received(n)
      PROVE  Goal
  <2>1. /\ p \in Packet /\ p.own = p.at /\ received \in 0..MaxPackets
        /\ received + n <= MaxPackets /\ n \in Nat \ {0}
        /\ p' = [p EXCEPT !.lo = received + 1, !.hi = received + n]
        /\ received' = received + n
    BY <1>0, <1>5 DEF Scoped, TypeOK, uci_received
  <2>2. /\ received' \in 0..MaxPackets
        /\ received + 1 \in 0..MaxPackets /\ received + n \in 0..MaxPackets
    BY <2>1
  <2>3. /\ p' \in Packet /\ p'.own = p'.at /\ p'.lo = received + 1
        /\ p'.hi = received'
    BY <2>1, <2>2 DEF Packet
  <2>4. TypeOK'
    BY <1>0, <1>5, <2>2, <2>3 DEF TypeOK, uci_received
  <2>5. Scoped'
    BY <1>0, <1>5, <2>3 DEF Scoped, uci_received
  <2>6. /\ UNCHANGED <<rx_list, taken>> /\ tpc = "read" /\ tpc' = "split"
        /\ p'.lo - 1 = received
    BY <1>5, <2>1, <2>3 DEF uci_received
  <2>7. ListIsTheStream'
    BY <1>0, <2>6 DEF ListIsTheStream
  <2> QED BY <2>4, <2>5, <2>7
<1>6. CASE uci_received_next
  <2> DEFINE q == [p EXCEPT !.own = None, !.hi = p.lo]
  <2>1. /\ p \in Packet /\ p.own = p.at /\ p.hi = received
        /\ p.lo \in Int /\ p.hi \in Int
        /\ p.lo \in 0..MaxPackets /\ p.hi \in 0..MaxPackets
        /\ tpc = "split" /\ tpc' = "split" /\ p.hi - p.lo + 1 > 1
        /\ rx_list' = Append(rx_list, q) /\ p' = [p EXCEPT !.lo = p.lo + 1]
    BY <1>0, <1>6, PacketFacts DEF Scoped, TypeOK, uci_received_next, Length
  <2>2. q \in Packet /\ q.lo = p.lo /\ q.hi = p.lo
    BY <2>1 DEF Packet
  <2>3. p.lo + 1 \in 0..MaxPackets
    BY <2>1
  <2>4. /\ p' \in Packet /\ p'.lo = p.lo + 1 /\ p'.own = p'.at
        /\ p'.hi = received
    BY <2>1, <2>3 DEF Packet
  <2> HIDE DEF q
  <2>5. rx_list' \in Seq(Packet)
    BY <1>0, <2>1, <2>2, AppendFacts DEF TypeOK
  <2>6. TypeOK'
    BY <1>0, <1>6, <2>4, <2>5 DEF TypeOK, uci_received_next
  <2>7. Scoped'
    BY <1>0, <1>6, <2>4 DEF Scoped, uci_received_next
  <2>8. taken' = taken /\ received' = received
    BY <1>6 DEF uci_received_next
  <2>9. ListIsTheStream'
    BY <1>0, <2>1, <2>2, <2>4, <2>8, StreamAppend
  <2> QED BY <2>6, <2>7, <2>9
<1>7. CASE uci_received_last
  <2>1. /\ p \in Packet /\ p.own = p.at /\ p.hi = received
        /\ tpc = "split" /\ tpc' = "wake" /\ rx_list' = Append(rx_list, p)
        /\ taken' = taken /\ received' = received
    BY <1>0, <1>7 DEF Scoped, TypeOK, uci_received_last
  <2>2. rx_list' \in Seq(Packet)
    BY <1>0, <2>1, AppendFacts DEF TypeOK
  <2>3. TypeOK'
    BY <1>0, <1>7, <2>2 DEF TypeOK, uci_received_last
  <2>4. Scoped'
    BY <1>0, <1>7 DEF Scoped, uci_received_last
  <2>5. ListIsTheStream'
    BY <1>0, <2>1, StreamAppend
  <2> QED BY <2>3, <2>4, <2>5
<1>8. CASE uci_received_wake
  <2>1. rwoken' \in [Readers -> BOOLEAN]
    BY <1>8 DEF uci_received_wake, wake_up_all
  <2>2. TypeOK'
    BY <1>0, <1>8, <2>1 DEF TypeOK, uci_received_wake
  <2>3. Scoped'
    BY <1>0, <1>8 DEF Scoped, uci_received_wake
  <2>4. ListIsTheStream'
    BY <1>0, <1>8, StreamFrame DEF uci_received_wake
  <2> QED BY <2>2, <2>3, <2>4
<1>9. ASSUME UNCHANGED <<rx_list, taken, received, tpc, p>>
      PROVE  ListIsTheStream'
  BY <1>0, <1>9 DEF ListIsTheStream
<1>10. CASE uci_sent
  <2>1. tx_queue \in Seq(Writers) /\ tx_queue # <<>>
    BY <1>0, <1>10 DEF TypeOK, uci_sent
  <2>2. Tail(tx_queue) \in Seq(Writers) /\ Head(tx_queue) \in Writers
    BY <2>1, TailFacts
  <2>3. TypeOK'
    BY <1>0, <1>10, <2>2 DEF TypeOK, uci_sent
  <2>4. wpc' = [wpc EXCEPT ![Head(tx_queue)] = "done"] /\ tpc' = tpc
        /\ UNCHANGED <<file, p, held, rpc, wblk, received>>
    BY <1>10 DEF uci_sent
  <2>5. wpc[Head(tx_queue)] = "wait"
    BY <2>1, TailFacts DEF TypeInv, QueueIsWaiting
  <2>6. Scoped'
    BY <1>0, <2>2, <2>4, <2>5 DEF Scoped, TypeOK
  <2>7. ListIsTheStream'
    BY <1>9, <1>10 DEF uci_sent
  <2> QED BY <2>3, <2>6, <2>7
<1>11. ASSUME NEW r \in Readers, NEW nb \in BOOLEAN,
              uci_read(r, nb) \/ uci_poll(r)
       PROVE  Goal
  <2>1. /\ file = "open" /\ rpc[r] = "idle"
        /\ rpc' \in [Readers -> {"idle", "wait", "poll", "take", "try", "copy"}]
        /\ rpc'[r] # "copy" /\ \A x \in Readers \ {r} : rpc'[x] = rpc[x]
        /\ UNCHANGED <<file, mem, rx_list, tpc, p, held, tx_queue, wpc, wblk,
                       received, taken>>
    BY <1>0, <1>11 DEF uci_read, uci_poll, TypeOK
  <2>2. rwoken' \in [Readers -> BOOLEAN]
    BY <1>0, <1>11 DEF uci_read, uci_poll, TypeOK
  <2>3. TypeOK'
    BY <1>0, <2>1, <2>2 DEF TypeOK
  <2>4. Scoped'
    BY <1>0, <2>1 DEF Scoped
  <2> QED BY <1>9, <2>1, <2>3, <2>4
<1>12. ASSUME NEW r \in Readers, wait_event(r) \/ wait_event_signal(r)
       PROVE  Goal
  <2>1. /\ rpc[r] \in {"wait", "poll"}
        /\ rpc' \in [Readers -> {"idle", "wait", "poll", "take", "try", "copy"}]
        /\ rpc'[r] # "copy" /\ \A x \in Readers \ {r} : rpc'[x] = rpc[x]
        /\ UNCHANGED <<file, mem, rx_list, tpc, p, held, tx_queue, wpc, wblk,
                       received, taken>>
    BY <1>0, <1>12 DEF wait_event, wait_event_signal, TypeOK
  <2>2. rwoken' \in [Readers -> BOOLEAN]
    BY <1>0, <1>12 DEF wait_event, wait_event_signal, TypeOK
  <2>3. TypeOK'
    BY <1>0, <2>1, <2>2 DEF TypeOK
  <2>4. Scoped'
    BY <1>0, <2>1 DEF Scoped
  <2> QED BY <1>9, <2>1, <2>3, <2>4
<1>13. ASSUME NEW r \in Readers, NEW m \in 1..BlkPackets, uci_layer_read(r, m)
       PROVE  Goal
  <2>1. /\ rpc[r] \in {"take", "try"}
        /\ rwoken' = [rwoken EXCEPT ![r] = FALSE]
        /\ UNCHANGED <<file, mem, tpc, p, tx_queue, wpc, wblk, received>>
    BY <1>13 DEF uci_layer_read
  <2>2. rwoken' \in [Readers -> BOOLEAN]
    BY <1>0, <2>1 DEF TypeOK
  <2>3. CASE /\ rx_list # <<>>
             /\ held' = [held EXCEPT ![r] = Head(rx_list)]
             /\ rx_list' = Tail(rx_list)
             /\ taken' = taken + Length(Head(rx_list))
             /\ rpc' = [rpc EXCEPT ![r] = "copy"]
    <3>1. Head(rx_list) \in Packet /\ rx_list' \in Seq(Packet)
      BY <1>0, <2>3, TailFacts DEF TypeOK
    <3>2. ListIsTheStream' /\ taken' = Head(rx_list).hi
      BY <1>0, <2>1, <2>3, StreamTake
    <3>3. taken' \in 0..MaxPackets
      BY <3>1, <3>2, PacketFacts
    <3>4. TypeOK'
      BY <1>0, <2>1, <2>2, <2>3, <3>1, <3>3 DEF TypeOK
    <3>5. Scoped'
      BY <1>0, <2>1, <2>3, <3>1, PacketFacts DEF Scoped, TypeOK
    <3> QED BY <3>2, <3>4, <3>5
  <2>4. CASE /\ rpc' = [rpc EXCEPT ![r] = "idle"]
             /\ UNCHANGED <<rx_list, held, taken>>
    <3>1. TypeOK'
      BY <1>0, <2>1, <2>2, <2>4 DEF TypeOK
    <3>2. Scoped'
      BY <1>0, <2>1, <2>4 DEF Scoped, TypeOK
    <3> QED BY <1>9, <2>1, <2>4, <3>1, <3>2
  <2> QED BY <1>13, <2>3, <2>4 DEF uci_layer_read
<1>14. ASSUME NEW r \in Readers, uci_read_copy(r)
       PROVE  Goal
  <2>1. TypeOK'
    BY <1>0, <1>14 DEF TypeOK, uci_read_copy, uci_packet_free
  <2>2. Scoped'
    BY <1>0, <1>14 DEF Scoped, TypeOK, uci_read_copy
  <2> QED BY <1>9, <1>14, <2>1, <2>2 DEF uci_read_copy
<1>15. ASSUME NEW w \in Writers, NEW b \in Blocks, uci_write(w, b)
       PROVE  Goal
  <2>1. tx_queue' \in Seq(Writers)
    BY <1>0, <1>15, AppendFacts DEF TypeOK, uci_write
  <2>2. TypeOK'
    BY <1>0, <1>15, <2>1 DEF TypeOK, uci_write
  <2>3. Scoped'
    BY <1>0, <1>15 DEF Scoped, TypeOK, uci_write
  <2> QED BY <1>9, <1>15, <2>2, <2>3 DEF uci_write
<1>16. ASSUME NEW w \in Writers, uci_write_return(w)
       PROVE  Goal
  <2>1. TypeOK'
    BY <1>0, <1>16 DEF TypeOK, uci_write_return
  <2>2. Scoped'
    BY <1>0, <1>16 DEF Scoped, TypeOK, uci_write_return
  <2> QED BY <1>9, <1>16, <2>1, <2>2 DEF uci_write_return
<1>17. CASE UNCHANGED vars
  BY <1>0, <1>17 DEF TypeOK, Scoped, ListIsTheStream, vars
<1> QED
  BY <1>1, <1>2, <1>3, <1>4, <1>5, <1>6, <1>7, <1>8, <1>10, <1>11, <1>12,
     <1>13, <1>14, <1>15, <1>16, <1>17
     DEF Next, Thread, Reader, ReaderRuns, Writer

LEMMA InitType ==
  ASSUME Init
  PROVE  TypeInv
<1> USE ConstantsAssumption DEF Init
<1>1. rx_list \in Seq(Packet) /\ tx_queue \in Seq(Writers)
  OBVIOUS
<1>2. /\ rpc \in [Readers -> {"idle", "wait", "poll", "take", "try", "copy"}]
      /\ rwoken \in [Readers -> BOOLEAN]
      /\ held \in [Readers -> Packet \cup {None}]
      /\ wpc \in [Writers -> {"idle", "wait", "done"}]
      /\ wblk \in [Writers -> Blocks \cup {None}]
  OBVIOUS
<1>3. TypeOK
  BY <1>1, <1>2 DEF TypeOK
<1>4. Scoped
  BY DEF Scoped
<1>5. DOMAIN rx_list = {} /\ DOMAIN tx_queue = {}
  OBVIOUS
<1>6. QueueIsWaiting /\ ListIsTheStream
  BY <1>5 DEF QueueIsWaiting, ListIsTheStream
<1> QED BY <1>3, <1>4, <1>6 DEF TypeInv

LEMMA TypeInvHolds == Spec => []TypeInv
<1>1. Init => TypeInv
  BY InitType
<1>2. TypeInv /\ [Next]_vars => TypeInv'
  BY TypeStep
<1> QED BY <1>1, <1>2, PTL DEF Spec

\* Every variable of the UCI layer keeps its type.
THEOREM TypeCorrect == Spec => []TypeOK
  BY TypeInvHolds, PTL DEF TypeInv

\* uci_received, uci_layer_read and clear_rx_list neither drop nor repeat
\* nor reorder a UCI packet, however many readers and signals there are.
THEOREM StreamIsSafe == Spec => []ListIsTheStream
  BY TypeInvHolds, PTL DEF TypeInv

-----------------------------------------------------------------------------
(***************************************************************************)
(* Blocks: each is held by one place, which will free it.                  *)
(***************************************************************************)

InList(b)   == \E i \in DOMAIN rx_list : rx_list[i].own = b
InReader(b) == \E r \in Readers : held[r] # None /\ held[r].own = b
InWriter(b) == \E w \in Writers : wblk[w] = b
InThread(b) == p # None /\ p.own = b

ListOnce ==
  \A i, j \in DOMAIN rx_list :
    rx_list[i].own = rx_list[j].own => i = j \/ rx_list[i].own = None

ReaderOnce ==
  \A r, s \in Readers :
    held[r] # None /\ held[s] # None /\ held[r].own = held[s].own
      => r = s \/ held[r].own = None

WriterOnce ==
  \A v, w \in Writers : wblk[v] = wblk[w] => v = w \/ wblk[v] = None

\* The four kinds of place exclude each other, and hold what is allocated.
KindOnce ==
  \A b \in Blocks :
    /\ ~(InList(b) /\ InReader(b)) /\ ~(InList(b) /\ InWriter(b))
    /\ ~(InList(b) /\ InThread(b)) /\ ~(InReader(b) /\ InWriter(b))
    /\ ~(InReader(b) /\ InThread(b)) /\ ~(InWriter(b) /\ InThread(b))

MemIsHeld ==
  \A b \in Blocks :
    b \in mem <=> InList(b) \/ InReader(b) \/ InWriter(b) \/ InThread(b)

OwnerInv == ListOnce /\ ReaderOnce /\ WriterOnce /\ KindOnce /\ MemIsHeld

\* A queued packet brings its block, if it has one, into the list.
LEMMA ListAdds ==
  ASSUME TypeOK, ListOnce, NEW q \in Packet,
         q.own = None \/ ~InList(q.own), rx_list' = Append(rx_list, q)
  PROVE  /\ ListOnce'
         /\ \A b \in Blocks : InList(b)' <=> InList(b) \/ b = q.own
<1>1. /\ Len(rx_list) \in Nat
      /\ DOMAIN rx_list = 1..Len(rx_list)
      /\ DOMAIN rx_list' = 1..(Len(rx_list) + 1)
      /\ \A i \in 1..Len(rx_list) : rx_list'[i] = rx_list[i]
      /\ rx_list'[Len(rx_list) + 1] = q
  BY AppendFacts DEF TypeOK
<1>2. \A b \in Blocks : InList(b)' <=> InList(b) \/ b = q.own
  BY <1>1 DEF InList
<1>3. ListOnce'
  BY <1>1 DEF ListOnce, InList
<1> QED BY <1>2, <1>3

\* The first packet leaves the list with its block.
LEMMA ListGives ==
  ASSUME TypeOK, ListOnce, rx_list # <<>>, rx_list' = Tail(rx_list)
  PROVE  /\ ListOnce'
         /\ \A b \in Blocks : InList(b)' <=> InList(b) /\ b # Head(rx_list).own
         /\ InList(Head(rx_list).own)
<1>1. /\ Head(rx_list) = rx_list[1]
      /\ Len(rx_list) \in Nat /\ Len(rx_list) >= 1
      /\ DOMAIN rx_list = 1..Len(rx_list)
      /\ DOMAIN rx_list' = 1..(Len(rx_list) - 1)
      /\ \A i \in 1..(Len(rx_list) - 1) : rx_list'[i] = rx_list[i + 1]
  BY TailFacts DEF TypeOK
<1>2. \A i \in DOMAIN rx_list' : /\ i + 1 \in DOMAIN rx_list /\ i + 1 # 1
                                 /\ rx_list'[i] = rx_list[i + 1]
  BY <1>1
<1>3. ListOnce'
  <2> SUFFICES ASSUME NEW i \in DOMAIN rx_list', NEW j \in DOMAIN rx_list',
                      rx_list'[i].own = rx_list'[j].own, rx_list'[i].own # None
               PROVE  i = j
    BY DEF ListOnce
  <2>1. i + 1 = j + 1
    BY <1>2 DEF ListOnce
  <2> QED BY <1>1, <2>1
<1>4. InList(Head(rx_list).own)
  BY <1>1 DEF InList
<1>5. ASSUME NEW b \in Blocks, InList(b)'
      PROVE  InList(b) /\ b # Head(rx_list).own
  <2>1. PICK i \in DOMAIN rx_list' : rx_list'[i].own = b
    BY <1>5 DEF InList
  <2>2. rx_list[i + 1].own = b /\ i + 1 \in DOMAIN rx_list /\ i + 1 # 1
    BY <1>2, <2>1
  <2>3. rx_list[1].own # b
    BY <1>1, <2>2, ConstantsAssumption DEF ListOnce
  <2> QED BY <1>1, <2>2, <2>3 DEF InList
<1>6. ASSUME NEW b \in Blocks, InList(b), b # Head(rx_list).own
      PROVE  InList(b)'
  <2>1. PICK i \in DOMAIN rx_list : rx_list[i].own = b
    BY <1>6 DEF InList
  <2>2. i # 1
    BY <1>1, <1>6, <2>1
  <2>3. i - 1 \in DOMAIN rx_list' /\ rx_list'[i - 1] = rx_list[i]
    BY <1>1, <2>1, <2>2
  <2> QED BY <2>1, <2>3 DEF InList
<1> QED BY <1>3, <1>4, <1>5, <1>6

\* A reader without a packet takes one.
LEMMA ReaderTakes ==
  ASSUME TypeOK, ReaderOnce, NEW r \in Readers, held[r] = None,
         NEW q \in Packet, q.own = None \/ ~InReader(q.own),
         held' = [held EXCEPT ![r] = q]
  PROVE  /\ ReaderOnce'
         /\ \A b \in Blocks : InReader(b)' <=> InReader(b) \/ b = q.own
<1>1. /\ held'[r] = q /\ q # None
      /\ \A s \in Readers : s # r => held'[s] = held[s]
  BY PacketFacts DEF TypeOK
<1>2. \A b \in Blocks : InReader(b)' <=> InReader(b) \/ b = q.own
  BY <1>1 DEF InReader
<1>3. ReaderOnce'
  BY <1>1 DEF ReaderOnce, InReader
<1> QED BY <1>2, <1>3

\* A reader frees the packet it holds.
LEMMA ReaderFrees ==
  ASSUME TypeOK, ReaderOnce, NEW r \in Readers, held[r] # None,
         held' = [held EXCEPT ![r] = None]
  PROVE  /\ ReaderOnce'
         /\ \A b \in Blocks : InReader(b)' <=> InReader(b) /\ b # held[r].own
         /\ InReader(held[r].own)
<1>1. held'[r] = None /\ \A s \in Readers : s # r => held'[s] = held[s]
  BY DEF TypeOK
<1>2. ReaderOnce' /\ InReader(held[r].own)
  BY <1>1 DEF ReaderOnce, InReader
<1>3. \A b \in Blocks : InReader(b)' <=> InReader(b) /\ b # held[r].own
  BY <1>1, ConstantsAssumption DEF ReaderOnce, InReader
<1> QED BY <1>2, <1>3

\* Every step keeps each block in one place.
LEMMA OwnerStep ==
  ASSUME TypeInv, OwnerInv, [Next]_vars
  PROVE  OwnerInv'
<1> USE DEF readerVars, writerVars
<1>0. /\ TypeOK /\ Scoped
      /\ ListOnce /\ ReaderOnce /\ WriterOnce /\ KindOnce /\ MemIsHeld
  BY DEF TypeInv, OwnerInv
<1>1. ASSUME rx_list' = rx_list
      PROVE  ListOnce' /\ \A b : InList(b)' <=> InList(b)
  BY <1>0, <1>1 DEF ListOnce, InList
<1>2. ASSUME held' = held
      PROVE  ReaderOnce' /\ \A b : InReader(b)' <=> InReader(b)
  BY <1>0, <1>2 DEF ReaderOnce, InReader
<1>3. ASSUME wblk' = wblk
      PROVE  WriterOnce' /\ \A b : InWriter(b)' <=> InWriter(b)
  BY <1>0, <1>3 DEF WriterOnce, InWriter
<1>4. ASSUME p' = p
      PROVE  \A b : InThread(b)' <=> InThread(b)
  BY <1>4 DEF InThread
<1>5. CASE uci_layer_deinit
  <2>1. /\ rx_list' = <<>> /\ UNCHANGED <<held, wblk, p>>
        /\ mem' = mem \ {rx_list[i].own : i \in DOMAIN rx_list}
    BY <1>5 DEF uci_layer_deinit, clear_rx_list
  <2>2. ListOnce' /\ \A b : ~InList(b)'
    BY <2>1 DEF ListOnce, InList
  <2>3. \A b \in Blocks : b \in mem' <=> b \in mem /\ ~InList(b)
    BY <2>1 DEF InList
  <2>4. KindOnce'
    BY <1>0, <1>2, <1>3, <1>4, <2>1, <2>2 DEF KindOnce
  <2>5. MemIsHeld'
    BY <1>0, <1>2, <1>3, <1>4, <2>1, <2>2, <2>3 DEF KindOnce, MemIsHeld
  <2> QED BY <1>2, <1>3, <2>1, <2>2, <2>4, <2>5 DEF OwnerInv
<1>6. ASSUME NEW b \in Blocks, uci_get(b)
      PROVE  OwnerInv'
  <2>1. /\ p = None /\ p' # None /\ p'.own = b /\ b \notin mem
        /\ mem' = mem \cup {b} /\ UNCHANGED <<rx_list, held, wblk>>
    BY <1>0, <1>6, ConstantsAssumption, PacketFacts
       DEF uci_get, Scoped, Packet
  <2>2. \A x : ~InThread(x) /\ (InThread(x)' <=> x = b)
    BY <2>1 DEF InThread
  <2>3. KindOnce'
    BY <1>0, <1>1, <1>2, <1>3, <2>1, <2>2 DEF KindOnce, MemIsHeld
  <2>4. MemIsHeld'
    BY <1>0, <1>1, <1>2, <1>3, <2>1, <2>2 DEF MemIsHeld
  <2> QED BY <1>1, <1>2, <1>3, <2>1, <2>3, <2>4 DEF OwnerInv
<1>7. CASE uci_received_error
  <2>1. /\ p # None /\ p' = None /\ mem' = mem \ {p.own}
        /\ UNCHANGED <<rx_list, held, wblk>>
    BY <1>0, <1>7 DEF uci_received_error, uci_packet_free, Scoped
  <2>2. \A x : (InThread(x) <=> x = p.own) /\ ~InThread(x)'
    BY <2>1 DEF InThread
  <2>3. KindOnce'
    BY <1>0, <1>1, <1>2, <1>3, <2>1, <2>2 DEF KindOnce
  <2>4. MemIsHeld'
    BY <1>0, <1>1, <1>2, <1>3, <2>1, <2>2 DEF MemIsHeld, KindOnce
  <2> QED BY <1>1, <1>2, <1>3, <2>1, <2>3, <2>4 DEF OwnerInv
<1>8. ASSUME UNCHANGED <<mem, held, wblk>>,
             ListOnce', \A b \in Blocks : InList(b)' <=> InList(b),
             \A b \in Blocks : InThread(b)' <=> InThread(b)
      PROVE  OwnerInv'
  <2>1. KindOnce'
    BY <1>0, <1>2, <1>3, <1>8 DEF KindOnce
  <2>2. MemIsHeld'
    BY <1>0, <1>2, <1>3, <1>8 DEF MemIsHeld
  <2> QED BY <1>2, <1>3, <1>8, <2>1, <2>2 DEF OwnerInv
<1>9. ASSUME NEW n \in 1..BlkPackets, uci_received(n)
      PROVE  OwnerInv'
  <2>1. p \in Packet
    BY <1>0, <1>9 DEF TypeOK, Scoped, uci_received
  <2>2. p'.own = p.own /\ p' # None /\ p # None
    BY <1>9, <2>1, TypeStep, PacketFacts
       DEF uci_received, Packet, TypeInv, TypeOK, Scoped
  <2>3. \A b : InThread(b)' <=> InThread(b)
    BY <2>2 DEF InThread
  <2> QED BY <1>1, <1>8, <1>9, <2>3 DEF uci_received
<1>10. CASE uci_received_next
  <2> DEFINE q == [p EXCEPT !.own = None, !.hi = p.lo]
  <2>1. p \in Packet /\ p # None
    BY <1>0, <1>10 DEF TypeOK, Scoped, uci_received_next
  <2>2. q \in Packet /\ q.own = None
    BY <2>1 DEF Packet
  <2>3. p'.own = p.own /\ p' # None
    BY <1>10, <2>1, TypeStep, PacketFacts
       DEF uci_received_next, Packet, TypeInv, TypeOK, Scoped
  <2>4. rx_list' = Append(rx_list, q)
    BY <1>10 DEF uci_received_next
  <2> HIDE DEF q
  <2>5. ListOnce' /\ \A b \in Blocks : InList(b)' <=> InList(b)
    BY <1>0, <2>2, <2>4, ListAdds, ConstantsAssumption
  <2>6. \A b : InThread(b)' <=> InThread(b)
    BY <2>1, <2>3 DEF InThread
  <2> QED BY <1>8, <1>10, <2>5, <2>6 DEF uci_received_next
<1>11. CASE uci_received_last
  <2>1. /\ p \in Packet /\ p # None /\ p.own = p.at /\ p' = None
        /\ rx_list' = Append(rx_list, p) /\ UNCHANGED <<mem, held, wblk>>
    BY <1>0, <1>11 DEF TypeOK, Scoped, uci_received_last
  <2>2. p.own \in Blocks
    BY <2>1, PacketFacts
  <2>3. \A b : (InThread(b) <=> b = p.own) /\ ~InThread(b)'
    BY <2>1 DEF InThread
  <2>4. ListOnce' /\ \A b \in Blocks : InList(b)' <=> InList(b) \/ b = p.own
    BY <1>0, <2>1, <2>2, <2>3, ListAdds DEF KindOnce
  <2>5. KindOnce'
    BY <1>0, <1>2, <1>3, <2>1, <2>3, <2>4 DEF KindOnce
  <2>6. MemIsHeld'
    BY <1>0, <1>2, <1>3, <2>1, <2>3, <2>4 DEF MemIsHeld
  <2> QED BY <1>2, <1>3, <2>1, <2>4, <2>5, <2>6 DEF OwnerInv
<1>12. ASSUME NEW r \in Readers, NEW m \in 1..BlkPackets, uci_layer_read(r, m)
       PROVE  OwnerInv'
  <2>1. CASE /\ rx_list # <<>>
             /\ held' = [held EXCEPT ![r] = Head(rx_list)]
             /\ rx_list' = Tail(rx_list)
    <3>1. /\ held[r] = None /\ UNCHANGED <<mem, p, wblk>>
          /\ Head(rx_list) \in Packet
      BY <1>0, <1>12, <2>1, TailFacts DEF uci_layer_read, Scoped, TypeOK
    <3> DEFINE q == Head(rx_list)
    <3>2. /\ ListOnce'
          /\ \A b \in Blocks : InList(b)' <=> InList(b) /\ b # q.own
          /\ InList(q.own)
      BY <1>0, <2>1, ListGives
    <3>3. q \in Packet /\ (q.own = None \/ ~InReader(q.own))
      BY <1>0, <3>1, <3>2, PacketFacts DEF KindOnce
    <3>4. held' = [held EXCEPT ![r] = q]
      BY <2>1
    <3> HIDE DEF q
    <3>5. /\ ReaderOnce'
          /\ \A b \in Blocks : InReader(b)' <=> InReader(b) \/ b = q.own
      BY <1>0, <3>1, <3>3, <3>4, ReaderTakes
    <3>6. KindOnce'
      BY <1>0, <1>3, <1>4, <3>1, <3>2, <3>5 DEF KindOnce
    <3>7. MemIsHeld'
      BY <1>0, <1>3, <1>4, <3>1, <3>2, <3>5 DEF MemIsHeld
    <3> QED BY <1>3, <3>1, <3>2, <3>5, <3>6, <3>7 DEF OwnerInv
  <2>2. CASE UNCHANGED <<rx_list, held>>
    BY <1>1, <1>4, <1>8, <1>12, <2>2 DEF uci_layer_read
  <2> QED BY <1>12, <2>1, <2>2 DEF uci_layer_read
<1>13. ASSUME NEW r \in Readers, uci_read_copy(r)
       PROVE  OwnerInv'
  <2>1. /\ held[r] # None /\ held' = [held EXCEPT ![r] = None]
        /\ mem' = mem \ {held[r].own} /\ UNCHANGED <<rx_list, p, wblk>>
    BY <1>0, <1>13 DEF uci_read_copy, uci_packet_free, Scoped
  <2>2. /\ ReaderOnce'
        /\ \A b \in Blocks : InReader(b)' <=> InReader(b) /\ b # held[r].own
        /\ InReader(held[r].own)
    BY <1>0, <2>1, ReaderFrees
  <2>3. KindOnce'
    BY <1>0, <1>1, <1>3, <1>4, <2>1, <2>2 DEF KindOnce
  <2>4. MemIsHeld'
    BY <1>0, <1>1, <1>3, <1>4, <2>1, <2>2 DEF MemIsHeld, KindOnce
  <2> QED BY <1>1, <1>3, <2>1, <2>2, <2>3, <2>4 DEF OwnerInv
<1>14. ASSUME NEW w \in Writers, NEW b \in Blocks, uci_write(w, b)
       PROVE  OwnerInv'
  <2>1. /\ wblk[w] = None /\ wblk' = [wblk EXCEPT ![w] = b] /\ b \notin mem
        /\ mem' = mem \cup {b} /\ UNCHANGED <<rx_list, p, held>>
        /\ wblk \in [Writers -> Blocks \cup {None}]
    BY <1>0, <1>14 DEF uci_write, Scoped, TypeOK
  <2>2. ~InWriter(b)
    BY <1>0, <2>1 DEF MemIsHeld
  <2>3. \A x \in Blocks : InWriter(x)' <=> InWriter(x) \/ x = b
    BY <2>1, ConstantsAssumption DEF InWriter
  <2>4. WriterOnce'
    BY <1>0, <2>1, <2>2 DEF WriterOnce, InWriter
  <2>5. KindOnce'
    BY <1>0, <1>1, <1>2, <1>4, <2>1, <2>3 DEF KindOnce, MemIsHeld
  <2>6. MemIsHeld'
    BY <1>0, <1>1, <1>2, <1>4, <2>1, <2>3 DEF MemIsHeld
  <2> QED BY <1>1, <1>2, <2>1, <2>4, <2>5, <2>6 DEF OwnerInv
<1>15. ASSUME NEW w \in Writers, uci_write_return(w)
       PROVE  OwnerInv'
  <2>1. /\ wblk[w] # None /\ wblk' = [wblk EXCEPT ![w] = None]
        /\ mem' = mem \ {wblk[w]} /\ UNCHANGED <<rx_list, p, held>>
        /\ wblk \in [Writers -> Blocks \cup {None}]
    BY <1>0, <1>15 DEF uci_write_return, Scoped, TypeOK
  <2>2. \A x \in Blocks : InWriter(x)' <=> InWriter(x) /\ x # wblk[w]
    BY <1>0, <2>1, ConstantsAssumption DEF InWriter, WriterOnce
  <2>3. WriterOnce' /\ InWriter(wblk[w])
    BY <1>0, <2>1 DEF WriterOnce, InWriter
  <2>4. KindOnce'
    BY <1>0, <1>1, <1>2, <1>4, <2>1, <2>2 DEF KindOnce
  <2>5. MemIsHeld'
    BY <1>0, <1>1, <1>2, <1>4, <2>1, <2>2, <2>3 DEF MemIsHeld, KindOnce
  <2> QED BY <1>1, <1>2, <2>1, <2>3, <2>4, <2>5 DEF OwnerInv
<1>16. CASE UNCHANGED <<mem, rx_list, p, held, wblk>>
  BY <1>1, <1>4, <1>8, <1>16
<1>17. CASE \/ uci_open \/ uci_release \/ uci_release_return
            \/ uci_received_wake \/ uci_sent \/ UNCHANGED vars
            \/ \E r \in Readers :
                 \/ \E nb \in BOOLEAN : uci_read(r, nb)
                 \/ uci_poll(r) \/ wait_event(r) \/ wait_event_signal(r)
  BY <1>16, <1>17 DEF uci_open, uci_release, uci_release_return,
     uci_received_wake, uci_sent, vars, uci_read, uci_poll, wait_event,
     wait_event_signal
<1> QED
  BY <1>5, <1>6, <1>7, <1>9, <1>10, <1>11, <1>12, <1>13, <1>14, <1>15, <1>17
     DEF Next, Thread, Reader, ReaderRuns, Writer

\* A set that is empty, or has one element, is counted.
LEMMA CountOnce ==
  ASSUME NEW S, \A x, y \in S : x = y
  PROVE  Cardinality(S) = IF S = {} THEN 0 ELSE 1
<1>1. CASE S = {}
  BY <1>1, FS_EmptySet
<1>2. CASE S # {}
  <2>1. PICK x : S = {x}
    BY <1>2
  <2> QED BY <1>2, <2>1, FS_Singleton
<1> QED BY <1>1, <1>2

LEMMA OwnerInvHolds == Spec => [](TypeInv /\ OwnerInv)
<1>1. Init => OwnerInv
  <2> SUFFICES ASSUME Init PROVE OwnerInv
    OBVIOUS
  <2>1. \A b \in Blocks : ~InList(b) /\ ~InReader(b) /\ ~InWriter(b) /\ ~InThread(b)
    BY ConstantsAssumption DEF Init, InList, InReader, InWriter, InThread
  <2>2. ListOnce /\ ReaderOnce /\ WriterOnce
    BY DEF Init, ListOnce, ReaderOnce, WriterOnce
  <2> QED BY <2>1, <2>2 DEF OwnerInv, KindOnce, MemIsHeld, Init
<1>2. TypeInv /\ OwnerInv /\ [Next]_vars => OwnerInv'
  BY OwnerStep
<1> QED BY <1>1, <1>2, TypeInvHolds, PTL DEF Spec

\* uci_packet_free never frees a block twice, and no exit of uci_received,
\* uci_read, uci_write or clear_rx_list leaks one.
THEOREM BlocksAreSafe == Spec => []BlockHasOneOwner
<1>1. OwnerInv => BlockHasOneOwner
  <2> SUFFICES ASSUME OwnerInv, NEW b \in Blocks
               PROVE  Cardinality(OwnersInList(b)) + Cardinality(OwningReaders(b))
                        + Cardinality(OwningWriters(b))
                        + Cardinality(OwningThread(b))
                      = IF b \in mem THEN 1 ELSE 0
    BY DEF BlockHasOneOwner
  <2>1. b # None
    BY ConstantsAssumption
  <2>2. Cardinality(OwnersInList(b)) = IF InList(b) THEN 1 ELSE 0
    <3>1. \A x, y \in OwnersInList(b) : x = y
      BY <2>1 DEF OwnersInList, OwnerInv, ListOnce
    <3>2. InList(b) <=> OwnersInList(b) # {}
      BY DEF InList, OwnersInList
    <3> QED BY <3>1, <3>2, CountOnce
  <2>3. Cardinality(OwningReaders(b)) = IF InReader(b) THEN 1 ELSE 0
    <3>1. \A x, y \in OwningReaders(b) : x = y
      BY <2>1 DEF OwningReaders, OwnerInv, ReaderOnce
    <3>2. InReader(b) <=> OwningReaders(b) # {}
      BY DEF InReader, OwningReaders
    <3> QED BY <3>1, <3>2, CountOnce
  <2>4. Cardinality(OwningWriters(b)) = IF InWriter(b) THEN 1 ELSE 0
    <3>1. \A x, y \in OwningWriters(b) : x = y
      BY <2>1 DEF OwningWriters, OwnerInv, WriterOnce
    <3>2. InWriter(b) <=> OwningWriters(b) # {}
      BY DEF InWriter, OwningWriters
    <3> QED BY <3>1, <3>2, CountOnce
  <2>5. Cardinality(OwningThread(b)) = IF InThread(b) THEN 1 ELSE 0
    <3>1. \A x, y \in OwningThread(b) : x = y
      BY DEF OwningThread
    <3>2. InThread(b) <=> OwningThread(b) # {}
      BY DEF InThread, OwningThread
    <3> QED BY <3>1, <3>2, CountOnce
  <2>6. /\ ~(InList(b) /\ InReader(b)) /\ ~(InList(b) /\ InWriter(b))
        /\ ~(InList(b) /\ InThread(b)) /\ ~(InReader(b) /\ InWriter(b))
        /\ ~(InReader(b) /\ InThread(b)) /\ ~(InWriter(b) /\ InThread(b))
        /\ b \in mem <=> InList(b) \/ InReader(b) \/ InWriter(b) \/ InThread(b)
    BY DEF OwnerInv, KindOnce, MemIsHeld
  <2>7. CASE InList(b)
    BY <2>2, <2>3, <2>4, <2>5, <2>6, <2>7
  <2>8. CASE ~InList(b)
    BY <2>2, <2>3, <2>4, <2>5, <2>6, <2>8
  <2> QED BY <2>7, <2>8
<1> QED BY <1>1, OwnerInvHolds, PTL

-----------------------------------------------------------------------------
(***************************************************************************)
(* Memory that is pointed to.  A packet split off before the last points   *)
(* into a block it does not own; the packet that owns the block is behind  *)
(* it in the list, or the thread is still splitting it.                    *)
(***************************************************************************)

BlockIsAhead(a, i) ==
  \/ \E j \in DOMAIN rx_list : j > i /\ rx_list[j].own = a
  \/ tpc = "split" /\ p.own = a

Guarded(q, i) ==
  \/ q.own = q.at
  \/ q.own = None /\ BlockIsAhead(q.at, i)

ListGuarded == \A i \in DOMAIN rx_list : Guarded(rx_list[i], i)

LoneReaderGuarded ==
  Cardinality(Readers) = 1 =>
    \A r \in Readers : held[r] # None => Guarded(held[r], 0)

AliveInv == ListGuarded /\ LoneReaderGuarded

\* A lone reader is alone.
LEMMA LoneReader ==
  ASSUME Cardinality(Readers) = 1, NEW r \in Readers, NEW s \in Readers
  PROVE  r = s
<1>1. \E x : Readers = {x}
  BY ConstantsAssumption, FS_Singleton
<1> QED BY <1>1

\* Steps that keep the list and what the thread splits keep every guard.
LEMMA GuardFrame ==
  ASSUME rx_list' = rx_list,
         tpc = "split" => tpc' = "split" /\ p'.own = p.own,
         NEW q, NEW i, Guarded(q, i)
  PROVE  Guarded(q, i)'
  BY DEF Guarded, BlockIsAhead

\* What the thread queues keeps every guard: the block goes on being split,
\* or into the list.
LEMMA GuardAppend ==
  ASSUME TypeOK, NEW w \in Packet, rx_list' = Append(rx_list, w),
         NEW q, NEW i \in 0..Len(rx_list), Guarded(q, i),
         \/ tpc' = "split" /\ p'.own = p.own
         \/ w = p
  PROVE  Guarded(q, i)'
<1>1. /\ Len(rx_list) \in Nat
      /\ DOMAIN rx_list = 1..Len(rx_list)
      /\ DOMAIN rx_list' = 1..(Len(rx_list) + 1)
      /\ \A j \in 1..Len(rx_list) : rx_list'[j] = rx_list[j]
      /\ rx_list'[Len(rx_list) + 1] = w
  BY AppendFacts DEF TypeOK
<1> QED BY <1>1 DEF Guarded, BlockIsAhead

\* Taking the first packet moves every guard up with what it guards.
LEMMA GuardTake ==
  ASSUME TypeOK, rx_list # <<>>, rx_list' = Tail(rx_list),
         UNCHANGED <<tpc, p>>, NEW q, NEW i \in Nat, Guarded(q, i + 1)
  PROVE  Guarded(q, i)'
<1>1. /\ Len(rx_list) \in Nat /\ Len(rx_list) >= 1
      /\ DOMAIN rx_list = 1..Len(rx_list)
      /\ DOMAIN rx_list' = 1..(Len(rx_list) - 1)
      /\ \A j \in 1..(Len(rx_list) - 1) : rx_list'[j] = rx_list[j + 1]
  BY TailFacts DEF TypeOK
<1>2. ASSUME NEW j \in DOMAIN rx_list, j > i + 1
      PROVE  j - 1 \in DOMAIN rx_list' /\ j - 1 > i
             /\ rx_list'[j - 1] = rx_list[j]
  BY <1>1, <1>2
<1> QED BY <1>2 DEF Guarded, BlockIsAhead

\* Every step keeps the guards.
LEMMA AliveStep ==
  ASSUME TypeInv, AliveInv, [Next]_vars
  PROVE  AliveInv'
<1> USE DEF readerVars, writerVars
<1>0. TypeOK /\ Scoped /\ ListGuarded /\ LoneReaderGuarded
  BY DEF TypeInv, AliveInv
<1>1. ASSUME rx_list' = rx_list,
             tpc = "split" => tpc' = "split" /\ p'.own = p.own,
             \A r \in Readers : held'[r] # None => held'[r] = held[r]
      PROVE  AliveInv'
  <2>1. ListGuarded'
    BY <1>0, <1>1, GuardFrame DEF ListGuarded
  <2>2. LoneReaderGuarded'
    BY <1>0, <1>1, GuardFrame DEF LoneReaderGuarded
  <2> QED BY <2>1, <2>2 DEF AliveInv
<1>2. CASE uci_layer_deinit
  <2>1. rx_list' = <<>> /\ \A r \in Readers : held'[r] = None
    BY <1>0, <1>2 DEF uci_layer_deinit, clear_rx_list, Scoped
  <2> QED BY <2>1 DEF AliveInv, ListGuarded, LoneReaderGuarded
<1>3. ASSUME NEW w \in Packet, rx_list' = Append(rx_list, w), held' = held,
             \/ tpc' = "split" /\ p'.own = p.own
             \/ w = p,
             w.own = w.at \/ (w.own = None /\ tpc' = "split" /\ p'.own = w.at)
      PROVE  AliveInv'
  <2>1. /\ Len(rx_list) \in Nat
        /\ DOMAIN rx_list = 1..Len(rx_list)
        /\ DOMAIN rx_list' = 1..(Len(rx_list) + 1)
        /\ \A j \in 1..Len(rx_list) : rx_list'[j] = rx_list[j]
        /\ rx_list'[Len(rx_list) + 1] = w
    BY <1>0, <1>3, AppendFacts DEF TypeOK
  <2>2. \A q : \A i \in 0..Len(rx_list) : Guarded(q, i) => Guarded(q, i)'
    BY <1>0, <1>3, GuardAppend
  <2>3. \A i : Guarded(w, i)'
    BY <1>3 DEF Guarded, BlockIsAhead
  <2>4. ListGuarded'
    <3> SUFFICES ASSUME NEW i \in DOMAIN rx_list'
                 PROVE  Guarded(rx_list[i], i)'
      BY DEF ListGuarded
    <3>1. CASE i \in 1..Len(rx_list)
      <4>1. Guarded(rx_list[i], i) /\ i \in 0..Len(rx_list)
        BY <1>0, <2>1, <3>1 DEF ListGuarded
      <4>2. rx_list'[i] = rx_list[i]
        BY <2>1, <3>1
      <4>3. \A q : Guarded(q, i) => Guarded(q, i)'
        BY <2>2, <4>1
      <4> QED BY <4>1, <4>2, <4>3 DEF Guarded, BlockIsAhead
    <3>2. CASE i = Len(rx_list) + 1
      BY <2>1, <2>3, <3>2 DEF Guarded, BlockIsAhead
    <3> QED BY <2>1, <3>1, <3>2
  <2>5. LoneReaderGuarded'
    <3>1. 0 \in 0..Len(rx_list)
      BY <2>1
    <3>2. \A q : Guarded(q, 0) => Guarded(q, 0)'
      BY <2>2, <3>1
    <3> QED BY <1>0, <1>3, <3>2 DEF LoneReaderGuarded, Guarded, BlockIsAhead
  <2> QED BY <2>4, <2>5 DEF AliveInv
<1>4. CASE uci_received_next
  <2> DEFINE q == [p EXCEPT !.own = None, !.hi = p.lo]
  <2>1. /\ p \in Packet /\ p.own = p.at /\ tpc' = "split" /\ held' = held
        /\ rx_list' = Append(rx_list, q) /\ p' = [p EXCEPT !.lo = p.lo + 1]
    BY <1>0, <1>4 DEF TypeOK, Scoped, uci_received_next
  <2>2. q \in Packet /\ q.own = None /\ q.at = p.at /\ p'.own = p.own
    BY <2>1 DEF Packet
  <2> HIDE DEF q
  <2> QED BY <1>3, <2>1, <2>2
<1>5. CASE uci_received_last
  <2>1. /\ p \in Packet /\ p.own = p.at /\ rx_list' = Append(rx_list, p)
        /\ held' = held
    BY <1>0, <1>5 DEF TypeOK, Scoped, uci_received_last
  <2> QED BY <1>3, <2>1
<1>6. ASSUME NEW r \in Readers, NEW m \in 1..BlkPackets, uci_layer_read(r, m)
      PROVE  AliveInv'
  <2>1. UNCHANGED <<tpc, p>>
    BY <1>6 DEF uci_layer_read
  <2>2. CASE /\ rx_list # <<>>
             /\ held' = [held EXCEPT ![r] = Head(rx_list)]
             /\ rx_list' = Tail(rx_list)
    <3>1. /\ Head(rx_list) = rx_list[1] /\ Len(rx_list) \in Nat
          /\ Len(rx_list) >= 1
          /\ DOMAIN rx_list = 1..Len(rx_list)
          /\ DOMAIN rx_list' = 1..(Len(rx_list) - 1)
          /\ \A j \in 1..(Len(rx_list) - 1) : rx_list'[j] = rx_list[j + 1]
      BY <1>0, <2>2, TailFacts DEF TypeOK
    <3>2. \A q : \A i \in Nat : Guarded(q, i + 1) => Guarded(q, i)'
      BY <1>0, <2>1, <2>2, GuardTake
    <3>3. ListGuarded'
      <4> SUFFICES ASSUME NEW i \in DOMAIN rx_list'
                   PROVE  Guarded(rx_list[i], i)'
        BY DEF ListGuarded
      <4>1. i \in Nat /\ i + 1 \in DOMAIN rx_list
            /\ rx_list'[i] = rx_list[i + 1]
        BY <3>1
      <4>2. Guarded(rx_list[i + 1], i + 1)
        BY <1>0, <4>1 DEF ListGuarded
      <4>3. \A q : Guarded(q, i + 1) => Guarded(q, i)'
        BY <3>2, <4>1
      <4> QED BY <4>1, <4>2, <4>3 DEF Guarded, BlockIsAhead
    <3>4. LoneReaderGuarded'
      <4> SUFFICES ASSUME Cardinality(Readers) = 1, NEW s \in Readers
                   PROVE  Guarded(held[s], 0)'
        BY DEF LoneReaderGuarded
      <4>1. s = r
        BY LoneReader
      <4>2. held'[s] = rx_list[1]
        BY <1>0, <2>2, <3>1, <4>1 DEF TypeOK
      <4>3. Guarded(rx_list[1], 0 + 1)
        BY <1>0, <3>1 DEF ListGuarded
      <4>4. \A q : Guarded(q, 0 + 1) => Guarded(q, 0)'
        BY <3>2
      <4> QED BY <4>2, <4>3, <4>4 DEF Guarded, BlockIsAhead
    <3> QED BY <3>3, <3>4 DEF AliveInv
  <2>3. CASE UNCHANGED <<rx_list, held>>
    BY <1>1, <2>1, <2>3
  <2> QED BY <1>6, <2>2, <2>3 DEF uci_layer_read
<1>7. ASSUME NEW r \in Readers, uci_read_copy(r)
      PROVE  AliveInv'
  <2>1. /\ rx_list' = rx_list /\ UNCHANGED <<tpc, p>>
        /\ held' = [held EXCEPT ![r] = None]
    BY <1>7 DEF uci_read_copy
  <2>2. \A s \in Readers : held'[s] # None => held'[s] = held[s]
    BY <1>0, <2>1 DEF TypeOK
  <2> QED BY <1>1, <2>1, <2>2
<1>8. CASE \/ uci_open \/ uci_release \/ uci_release_return
           \/ uci_received_wake \/ uci_sent \/ UNCHANGED vars
           \/ uci_received_error
           \/ (\E b \in Blocks : uci_get(b))
           \/ (\E n \in 1..BlkPackets : uci_received(n))
           \/ (\E w \in Writers : Writer(w))
           \/ \E r \in Readers :
                \/ \E nb \in BOOLEAN : uci_read(r, nb)
                \/ uci_poll(r) \/ wait_event(r) \/ wait_event_signal(r)
  <2>1. rx_list' = rx_list /\ held' = held
    BY <1>8 DEF uci_open, uci_release, uci_release_return, uci_received_wake,
       uci_sent, vars, uci_received_error, uci_get, uci_received, Writer,
       uci_write, uci_write_return, uci_read, uci_poll, wait_event,
       wait_event_signal
  <2>2. tpc = "split" => tpc' = "split" /\ p' = p
    BY <1>8 DEF uci_open, uci_release, uci_release_return, uci_received_wake,
       uci_sent, vars, uci_received_error, uci_get, uci_received, Writer,
       uci_write, uci_write_return, uci_read, uci_poll, wait_event,
       wait_event_signal
  <2> QED BY <1>1, <2>1, <2>2
<1> QED
  BY <1>2, <1>4, <1>5, <1>6, <1>7, <1>8
     DEF Next, Thread, Reader, ReaderRuns

\* uci_received and a lone uci_read never leave a queued packet, or one that
\* is being copied to user space, pointing into a block that was freed, and
\* a writer never frees a block that HSSPI is still to send.
THEOREM DataIsSafe == Spec => []DataIsAlive
<1>1. Init => AliveInv
  BY DEF Init, AliveInv, ListGuarded, LoneReaderGuarded
<1>2. TypeInv /\ AliveInv /\ [Next]_vars => AliveInv'
  BY AliveStep
<1>3. TypeInv /\ OwnerInv /\ AliveInv => DataIsAlive
  <2> SUFFICES ASSUME TypeInv, OwnerInv, AliveInv
               PROVE  DataIsAlive
    OBVIOUS
  <2>0. TypeOK /\ Scoped /\ QueueIsWaiting /\ MemIsHeld
    BY DEF TypeInv, OwnerInv
  <2>1. ASSUME NEW q \in Packet, NEW i, Guarded(q, i),
               InList(q.own) \/ InReader(q.own)
        PROVE  q.at \in mem
    <3>1. q.at \in Blocks
      BY PacketFacts
    <3>2. InList(q.at) \/ InReader(q.at) \/ InThread(q.at)
      BY <2>0, <2>1 DEF Guarded, BlockIsAhead, InList, InThread, Scoped
    <3> QED BY <2>0, <3>1, <3>2 DEF MemIsHeld
  <2>2. ASSUME NEW i \in DOMAIN rx_list
        PROVE  rx_list[i].at \in mem
    <3>1. rx_list[i] \in Packet
      BY <2>0 DEF TypeOK
    <3>2. Guarded(rx_list[i], i) /\ InList(rx_list[i].own)
      BY DEF AliveInv, ListGuarded, InList
    <3> QED BY <2>1, <3>1, <3>2
  <2>3. ASSUME Cardinality(Readers) = 1, NEW r \in Readers, held[r] # None
        PROVE  held[r].at \in mem
    <3>1. held[r] \in Packet
      BY <2>0, <2>3 DEF TypeOK
    <3>2. Guarded(held[r], 0) /\ InReader(held[r].own)
      BY <2>3 DEF AliveInv, LoneReaderGuarded, InReader
    <3> QED BY <2>1, <3>1, <3>2
  <2>4. ASSUME NEW i \in DOMAIN tx_queue
        PROVE  wblk[tx_queue[i]] \in mem
    <3>1. tx_queue[i] \in Writers /\ wpc[tx_queue[i]] = "wait"
      BY <2>0 DEF TypeOK, QueueIsWaiting
    <3>2. wblk[tx_queue[i]] \in Blocks
      BY <2>0, <3>1 DEF TypeOK, Scoped
    <3>3. InWriter(wblk[tx_queue[i]])
      BY <3>1 DEF InWriter
    <3> QED BY <2>0, <3>2, <3>3 DEF MemIsHeld
  <2> QED BY <2>2, <2>3, <2>4 DEF DataIsAlive
<1> QED BY <1>1, <1>2, <1>3, OwnerInvHolds, PTL DEF Spec
=============================================================================
