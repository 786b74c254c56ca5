--------------------------- MODULE CoredumpProofs ---------------------------
(***************************************************************************)
(* Proofs about Coredump, for dumps of every length and content and every  *)
(* number of messages: an ACK stands for a whole dump with the announced   *)
(* checksum and is never followed by a NACK, and a read that no message    *)
(* overlaps returns the bytes of the accepted pieces.                      *)
(***************************************************************************)
EXTENDS Coredump, SequenceTheorems, TLAPS

\* What the thread may have in hand.
Messages ==
  {NoMsg, [cmd |-> "UNKNOWN"]}
    \cup [cmd : {"HEADER"}, size : Nat, crc : 0..(2^CrcWidth - 1)]
    \cup [cmd : {"BODY"}, body : Seq(Bytes)]

\* The message is the one that the place of the thread is about, and the
\* firmware is somewhere in one of its dumps.
MessageInv ==
  /\ msg \in Messages
  /\ tpc = "received" => msg.cmd \in {"HEADER", "BODY", "UNKNOWN"}
  /\ tpc \in {"HEADER", "BODY", "UNKNOWN"} => msg.cmd = tpc
  /\ fw_dump \in Dumps /\ fw_pos \in 0..Len(fw_dump)
  /\ coredump_size \in Nat

\* From del_timer_sync on, until the message is handled, the timer is off; and
\* a running handler carries the status of the dump, which does not change
\* under it.
TimerInv ==
  /\ tpc \in {"HEADER", "BODY", "UNKNOWN", "send"} => timer = "off"
  /\ timer_arg = IF timer = "running" THEN coredump_status ELSE "NACK"

\* The strengthening of AckMeansWhole: what was sent is what was decided.
AckInv ==
  /\ coredump_status = "ACK" =>
       /\ coredump_data_wr_idx = coredump_size
       /\ Checksum(coredump_data, coredump_data_wr_idx) = coredump_crc
  /\ last_sent = "ACK" => coredump_status = "ACK"

\* The strengthening of ReadIsStored: the memory begins with the accepted
\* pieces, up to the index, and a read that is not torn has the index.
StoreInv ==
  /\ stored \in Seq(Bytes)
  /\ Len(stored) = coredump_data_wr_idx
  /\ coredump_data = Nil => coredump_data_wr_idx = 0
  /\ coredump_data # Nil =>
       \A i \in 1..coredump_data_wr_idx : coredump_data[i] = stored[i]
  /\ rpc = "len" /\ ~torn => tpc = "idle" /\ rlen = coredump_data_wr_idx

Inv == TypeOK /\ MessageInv /\ TimerInv /\ AckInv /\ StoreInv

-----------------------------------------------------------------------------
(***************************************************************************)
(* Facts about the memory of the layer.                                    *)
(***************************************************************************)

\* The bytes of a dump and of the memory.
Memory == Bytes \cup {Junk}

LEMMA BytesFacts ==
  /\ Bytes \subseteq Nat
  /\ \A d \in Dumps : d \in Seq(Bytes)
  /\ -1 \notin Memory
<1>1. Bytes \subseteq Nat
  BY ConstantsAssumption DEF Bytes
<1>2. ASSUME NEW d \in Dumps PROVE d \in Seq(Bytes)
  <2>1. d \in Seq(Nat)
    BY ConstantsAssumption
  <2>2. \A i \in DOMAIN d : d[i] \in Bytes
    BY DEF Bytes
  <2> QED
    BY <2>1, <2>2
<1>3. -1 \notin Memory
  BY <1>1, ConstantsAssumption DEF Memory
<1> QED
  BY <1>1, <1>2, <1>3

\* NULL is told apart from every memory.
LEMMA NotNil == ASSUME NEW s \in Seq(Memory) PROVE s # Nil
<1> SUFFICES ASSUME s = Nil PROVE FALSE
  OBVIOUS
<1>1. Len(s) = 1 /\ s[1] = -1
  BY DEF Nil
<1>2. 1 \in 1..Len(s)
  BY <1>1
<1>3. s[1] \in Memory
  BY <1>2, ElementOfSeq
<1> QED
  BY <1>1, <1>3, BytesFacts

\* krealloc returns memory of the size it was asked for.
LEMMA ReallocFacts ==
  ASSUME NEW old, old = Nil \/ old \in Seq(Memory), NEW n \in Nat
  PROVE  Realloc(old, n) \in Seq(Memory) /\ Len(Realloc(old, n)) = n
<1>1. \A i \in 1..n : (IF old # Nil /\ i \in DOMAIN old THEN old[i] ELSE Junk)
                        \in Memory
  BY DEF Memory
<1>2. Realloc(old, n) \in [1..n -> Memory]
  BY <1>1 DEF Realloc
<1> QED
  BY <1>2

\* memcpy of a piece that fits: the size stays, the bytes before the index
\* stay, and the piece follows them.
LEMMA MemcpyFacts ==
  ASSUME NEW dst \in Seq(Memory), NEW src \in Seq(Bytes), NEW at \in Nat,
         at + Len(src) <= Len(dst)
  PROVE  /\ Memcpy(dst, at, src) \in Seq(Memory)
         /\ Len(Memcpy(dst, at, src)) = Len(dst)
         /\ \A i \in 1..at : Memcpy(dst, at, src)[i] = dst[i]
         /\ \A i \in 1..Len(src) : Memcpy(dst, at, src)[at + i] = src[i]
         /\ Len(src) = 0 => Memcpy(dst, at, src) = dst
<1> DEFINE m == Memcpy(dst, at, src)
<1>1. Len(dst) \in Nat /\ Len(src) \in Nat
  OBVIOUS
<1>2. m = [i \in 1..Len(dst) |->
             IF i > at /\ i <= at + Len(src) THEN src[i - at] ELSE dst[i]]
  BY <1>1 DEF Memcpy
<1>3. ASSUME NEW i \in 1..Len(dst)
      PROVE  (IF i > at /\ i <= at + Len(src) THEN src[i - at] ELSE dst[i])
               \in Memory
  <2>1. CASE i > at /\ i <= at + Len(src)
    <3>1. i - at \in 1..Len(src)
      BY <1>1, <2>1
    <3> QED
      BY <2>1, <3>1, ElementOfSeq DEF Memory
  <2>2. CASE ~(i > at /\ i <= at + Len(src))
    BY <2>2, ElementOfSeq
  <2> QED
    BY <2>1, <2>2
<1>4. m \in [1..Len(dst) -> Memory]
  BY <1>2, <1>3
<1> HIDE DEF m
<1>5. m \in Seq(Memory) /\ Len(m) = Len(dst)
  BY <1>1, <1>4
<1>6. \A i \in 1..at : m[i] = dst[i]
  BY <1>1, <1>2
<1>7. \A i \in 1..Len(src) : m[at + i] = src[i]
  BY <1>1, <1>2
<1>8. ASSUME Len(src) = 0 PROVE m = dst
  <2>1. \A i \in 1..Len(m) : m[i] = dst[i]
    BY <1>1, <1>2, <1>5, <1>8
  <2> QED
    BY <1>5, <2>1, SeqEqual
<1> QED
  BY <1>5, <1>6, <1>7, <1>8 DEF m

-----------------------------------------------------------------------------
(***************************************************************************)
(* The steps of the four contexts.                                         *)
(***************************************************************************)

LEMMA InitInv == Init => Inv
<1> SUFFICES ASSUME Init PROVE Inv
  OBVIOUS
<1>1. TypeOK
  <2>1. torn \in BOOLEAN
    BY Zenon DEF Init
  <2> QED
    BY <2>1, ConstantsAssumption DEF Init, TypeOK
<1>2. MessageInv
  <2>1. fw_dump \in Seq(Nat)
    BY ConstantsAssumption DEF Init
  <2>2. Len(fw_dump) \in Nat
    BY <2>1, LenProperties
  <2> QED
    BY <2>2 DEF Init, MessageInv, Messages
<1>3. TimerInv /\ AckInv
  BY DEF Init, TimerInv, AckInv
<1>4. StoreInv
  BY DEF Init, StoreInv
<1> QED
  BY <1>1, <1>2, <1>3, <1>4 DEF Inv

\* A message arrives at an idle thread, or is lost: nothing of the layer
\* changes, and a read that it overlaps is torn.
LEMMA DeliverStep ==
  ASSUME Inv, NEW m \in Messages, m.cmd \in {"HEADER", "BODY", "UNKNOWN"},
         NEW lost \in BOOLEAN, Deliver(m, lost),
         fw_dump' \in Dumps, fw_pos' \in 0..Len(fw_dump')
  PROVE  Inv'
<1> USE DEF Inv, Deliver, layerVars, timerVars, threadVars, readVars
<1>1. torn' \in BOOLEAN
  <2>1. (rpc # "idle") \in BOOLEAN
    OBVIOUS
  <2> QED
    BY <2>1, Zenon DEF TypeOK
<1>2. tpc' \in {"idle", "received"}
  BY DEF TypeOK
<1>3. TypeOK'
  BY <1>1, <1>2 DEF TypeOK
<1>4. MessageInv'
  BY <1>2 DEF MessageInv
<1>5. TimerInv' /\ AckInv'
  BY <1>2 DEF TimerInv, AckInv
<1>6. StoreInv'
  <2>1. CASE lost
    BY <2>1 DEF StoreInv
  <2>2. CASE ~lost
    BY <2>2 DEF StoreInv, TypeOK
  <2> QED
    BY <2>1, <2>2
<1> QED
  BY <1>3, <1>4, <1>5, <1>6

LEMMA FirmwareStep == ASSUME Inv, Firmware PROVE Inv'
<1>1. ASSUME NEW d \in Dumps, NEW crc \in Crcs, NEW lost \in BOOLEAN,
             FwHeader(d, crc, lost)
      PROVE  Inv'
  <2> DEFINE m == [cmd |-> "HEADER", size |-> Len(d), crc |-> crc]
  <2>1. d \in Seq(Nat) /\ Len(d) \in Nat
    BY ConstantsAssumption, LenProperties
  <2>2. m \in Messages /\ m.cmd = "HEADER"
    BY <2>1, ConstantsAssumption DEF Messages
  <2>3. Deliver(m, lost) /\ fw_dump' \in Dumps /\ fw_pos' \in 0..Len(fw_dump')
    BY <1>1, <2>1 DEF FwHeader
  <2> HIDE DEF m
  <2> QED
    BY <2>2, <2>3, DeliverStep
<1>2. ASSUME NEW n \in 0..Len(fw_dump), NEW lost \in BOOLEAN, FwBody(n, lost)
      PROVE  Inv'
  <2> DEFINE b == SubSeq(fw_dump, fw_pos + 1, fw_pos + n)
             m == [cmd |-> "BODY", body |-> b]
  <2>1. /\ fw_dump \in Seq(Bytes) /\ Len(fw_dump) \in Nat
        /\ fw_pos \in 0..Len(fw_dump) /\ fw_dump \in Dumps
    BY BytesFacts, LenProperties DEF Inv, MessageInv
  <2>2. fw_pos + n \in 0..Len(fw_dump)
    BY <1>2, <2>1 DEF FwBody
  <2>3. b \in Seq(Bytes)
    <3>1. \A i \in (fw_pos + 1)..(fw_pos + n) : i \in 1..Len(fw_dump)
      BY <2>1, <2>2
    <3>2. \A i \in (fw_pos + 1)..(fw_pos + n) : fw_dump[i] \in Bytes
      BY <2>1, <3>1, ElementOfSeq
    <3>3. fw_pos + 1 \in Int /\ fw_pos + n \in Int
      BY <2>1, <2>2
    <3> QED
      BY <3>2, <3>3, SubSeqProperties
  <2> HIDE DEF b
  <2>4. m \in Messages /\ m.cmd = "BODY"
    BY <2>3 DEF Messages
  <2>5. Deliver(m, lost) /\ fw_dump' \in Dumps /\ fw_pos' \in 0..Len(fw_dump')
    BY <1>2, <2>1, <2>2 DEF FwBody, b
  <2> HIDE DEF m
  <2> QED
    BY <2>4, <2>5, DeliverStep
<1>3. CASE FwUnknown
  <2> DEFINE m == [cmd |-> "UNKNOWN"]
  <2>1. m \in Messages /\ m.cmd = "UNKNOWN"
    BY DEF Messages
  <2>2. Deliver(m, FALSE) /\ fw_dump' \in Dumps /\ fw_pos' \in 0..Len(fw_dump')
    BY <1>3 DEF FwUnknown, Inv, MessageInv
  <2> HIDE DEF m
  <2> QED
    BY <2>1, <2>2, DeliverStep
<1> QED
  BY <1>1, <1>2, <1>3 DEF Firmware

-----------------------------------------------------------------------------
\* A header: new memory, nothing stored, nothing decided.
LEMMA HeaderStep ==
  ASSUME Inv, NEW ok \in BOOLEAN, coredump_header_ntf_received(ok)
  PROVE  Inv'
<1> USE DEF coredump_header_ntf_received, timerVars, fwVars, readVars
<1>1. msg.size \in Nat /\ msg.crc \in 0..(2^CrcWidth - 1)
  BY DEF Inv, MessageInv, Messages, NoMsg
<1>2. timer = "off"
  BY DEF Inv, TimerInv
<1>3. ~(rpc = "len" /\ ~torn)
  BY DEF Inv, StoreInv
<1>4. /\ coredump_data' = Nil \/ coredump_data' \in Seq(Memory)
      /\ coredump_data' # Nil => Len(coredump_data') = coredump_size'
      /\ coredump_size' \in Nat
      /\ coredump_crc' \in 0..(2^CrcWidth - 1)
  <2>1. CASE ok /\ msg.size > 0
    <3>1. coredump_data = Nil \/ coredump_data \in Seq(Memory)
      BY DEF Inv, TypeOK, Memory
    <3>2. /\ Realloc(coredump_data, msg.size) \in Seq(Memory)
          /\ Len(Realloc(coredump_data, msg.size)) = msg.size
      BY <1>1, <3>1, ReallocFacts
    <3> QED
      BY <1>1, <2>1, <3>2
  <2>2. CASE ~(ok /\ msg.size > 0)
    BY <2>2, ConstantsAssumption
  <2> QED
    BY <2>1, <2>2
<1>5. TypeOK'
  BY <1>4 DEF Inv, TypeOK, Memory
<1>6. MessageInv'
  BY <1>4 DEF Inv, MessageInv, Messages
<1>7. TimerInv' /\ AckInv'
  BY <1>2 DEF Inv, TimerInv, AckInv
<1>8. StoreInv'
  BY <1>3 DEF StoreInv
<1> QED
  BY <1>5, <1>6, <1>7, <1>8 DEF Inv

\* A piece that fits: it is stored after what was there, and the end of the
\* dump is decided by the checksum.
LEMMA BodyStep ==
  ASSUME Inv, coredump_body_ntf_received
  PROVE  Inv'
<1> DEFINE b == msg.body
           data == coredump_data
           at == coredump_data_wr_idx
<1>1. b \in Seq(Bytes) /\ Len(b) \in Nat /\ tpc = "BODY"
  BY DEF Inv, MessageInv, Messages, NoMsg, coredump_body_ntf_received
<1>2. /\ data # Nil /\ data \in Seq(Memory) /\ Len(data) = coredump_size
      /\ at \in Nat /\ coredump_size \in Nat /\ at + Len(b) <= Len(data)
  BY <1>1 DEF Inv, TypeOK, MessageInv, Memory, BodyFits,
     coredump_body_ntf_received
<1>3. timer = "off" /\ timer_arg = "NACK" /\ ~(rpc = "len" /\ ~torn)
  BY <1>1 DEF Inv, TimerInv, StoreInv
<1>4. /\ data' = Memcpy(data, at, b) /\ at' = at + Len(b)
      /\ stored' = stored \o b /\ msg' = NoMsg /\ owed' = "yes"
      /\ UNCHANGED <<coredump_size, coredump_crc, timer_arg, last_sent, fw_dump,
                     fw_pos, rpc, rlen, off, torn>>
  BY DEF coredump_body_ntf_received, fwVars, readVars
<1>5. /\ data' \in Seq(Memory) /\ Len(data') = Len(data)
      /\ \A i \in 1..at : data'[i] = data[i]
      /\ \A i \in 1..Len(b) : data'[at + i] = b[i]
      /\ Len(b) = 0 => data' = data
  <2> HIDE DEF b, data, at
  <2> DEFINE m == Memcpy(data, at, b)
  <2>1. b \in Seq(Bytes) /\ data \in Seq(Memory) /\ at \in Nat
        /\ at + Len(b) <= Len(data)
    BY <1>1, <1>2
  <2>2. /\ m \in Seq(Memory) /\ Len(m) = Len(data)
        /\ \A i \in 1..at : m[i] = data[i]
        /\ \A i \in 1..Len(b) : m[at + i] = b[i]
        /\ Len(b) = 0 => m = data
    BY <2>1, MemcpyFacts
  <2>3. data' = m
    BY <1>4
  <2> HIDE DEF m
  <2> QED
    BY <2>2, <2>3
<1>6. data' # Nil
  BY <1>5, NotNil
<1>7. \/ /\ at' = coredump_size
         /\ coredump_status' = IF Checksum(data', at') = coredump_crc
                                 THEN "ACK" ELSE coredump_status
         /\ tpc' = "send" /\ timer' = timer
      \/ /\ at' # coredump_size
         /\ timer' = "armed" /\ tpc' = "idle"
         /\ coredump_status' = coredump_status
  BY DEF coredump_body_ntf_received, coredump_get_checksum, mod_timer
<1>8. /\ stored \in Seq(Bytes) /\ Len(stored) = at
      /\ \A i \in 1..at : data[i] = stored[i]
  BY <1>2 DEF Inv, StoreInv
<1> HIDE DEF b, data, at
<1>9. TypeOK'
  <2>1. at' \in 0..coredump_size
    BY <1>1, <1>2, <1>4
  <2> QED
    BY <1>2, <1>3, <1>4, <1>5, <1>7, <2>1 DEF Inv, TypeOK, data, at, Memory
<1>10. MessageInv'
  BY <1>4, <1>7 DEF Inv, MessageInv, Messages
<1>11. TimerInv'
  BY <1>3, <1>4, <1>7 DEF TimerInv
<1>12. AckInv'
  <2>1. CASE coredump_status = "ACK"
    <3>1. at = coredump_size /\ Checksum(data, at) = coredump_crc
      BY <2>1 DEF Inv, AckInv, data, at
    <3>2. Len(b) = 0
      BY <1>1, <1>2, <3>1
    <3>3. at' = at /\ data' = data
      BY <1>2, <1>4, <1>5, <3>2
    <3>4. coredump_status' = "ACK"
      BY <1>7, <2>1
    <3> QED
      BY <1>4, <3>1, <3>3, <3>4 DEF AckInv, data, at
  <2>2. CASE coredump_status # "ACK"
    <3>1. last_sent' # "ACK"
      BY <1>4, <2>2 DEF Inv, AckInv
    <3>2. coredump_status' = "ACK" =>
            at' = coredump_size /\ Checksum(data', at') = coredump_crc
      BY <1>7, <2>2
    <3> QED
      BY <1>4, <3>1, <3>2 DEF AckInv, data, at
  <2> QED
    BY <2>1, <2>2
<1>13. StoreInv'
  <2>1. /\ stored' \in Seq(Bytes) /\ Len(stored') = at + Len(b)
        /\ \A i \in 1..(at + Len(b)) :
             stored'[i] = IF i <= at THEN stored[i] ELSE b[i - at]
    BY <1>1, <1>4, <1>8, ConcatProperties
  <2>2. ASSUME NEW i \in 1..(at + Len(b)) PROVE data'[i] = stored'[i]
    <3>1. CASE i <= at
      BY <1>1, <1>2, <1>5, <1>8, <2>1, <3>1
    <3>2. CASE i > at
      <4>1. i - at \in 1..Len(b) /\ at + (i - at) = i
        BY <1>1, <1>2, <3>2
      <4>2. data'[at + (i - at)] = b[i - at]
        BY <1>5, <4>1
      <4> QED
        BY <1>2, <2>1, <3>2, <4>1, <4>2
    <3> QED
      BY <1>1, <1>2, <3>1, <3>2
  <2>3. \A i \in 1..at' : data'[i] = stored'[i]
    BY <1>4, <2>2
  <2> QED
    BY <1>3, <1>4, <1>6, <2>1, <2>3 DEF StoreInv, data, at
<1> QED
  BY <1>9, <1>10, <1>11, <1>12, <1>13 DEF Inv

-----------------------------------------------------------------------------
LEMMA ThreadStep == ASSUME Inv, Thread PROVE Inv'
<1>1. CASE del_timer_sync
  <2> USE <1>1 DEF Inv, del_timer_sync, layerVars, fwVars, readVars
  <2>1. msg.cmd \in {"HEADER", "BODY", "UNKNOWN"}
    BY DEF MessageInv
  <2>2. TypeOK'
    BY <2>1 DEF TypeOK
  <2>3. MessageInv'
    BY <2>1 DEF MessageInv
  <2>4. TimerInv' /\ AckInv'
    BY <2>1 DEF TimerInv, AckInv
  <2>5. StoreInv'
    BY DEF StoreInv
  <2> QED
    BY <2>2, <2>3, <2>4, <2>5
<1>2. CASE \E ok \in BOOLEAN : coredump_header_ntf_received(ok)
  BY <1>2, HeaderStep
<1>3. CASE coredump_body_ntf_refused \/ coredump_received_default
  <2>1. /\ tpc \in {"BODY", "UNKNOWN"} /\ tpc' = "idle" /\ msg' = NoMsg
        /\ owed' = IF owed = "yes" THEN "dropped" ELSE owed
        /\ UNCHANGED <<layerVars, stored, timerVars, last_sent, fwVars, readVars,
                       torn>>
    BY <1>3 DEF coredump_body_ntf_refused, coredump_received_default, NotRearmed
  <2> USE <2>1 DEF Inv, layerVars, timerVars, fwVars, readVars
  <2>2. TypeOK'
    BY DEF TypeOK
  <2>3. MessageInv'
    BY DEF MessageInv, Messages
  <2>4. TimerInv' /\ AckInv'
    BY DEF TimerInv, AckInv
  <2>5. StoreInv'
    BY DEF StoreInv
  <2> QED
    BY <2>2, <2>3, <2>4, <2>5
<1>4. CASE coredump_body_ntf_received
  BY <1>4, BodyStep
<1>5. ASSUME NEW ok \in BOOLEAN, coredump_send_rcv_status(ok) PROVE Inv'
  <2> USE <1>5 DEF Inv, coredump_send_rcv_status, layerVars, timerVars, fwVars,
                   readVars
  <2>1. TypeOK'
    BY DEF TypeOK
  <2>2. MessageInv'
    BY DEF MessageInv
  <2>3. TimerInv' /\ AckInv'
    BY DEF TimerInv, AckInv
  <2>4. StoreInv'
    BY DEF StoreInv
  <2> QED
    BY <2>1, <2>2, <2>3, <2>4
<1> QED
  BY <1>1, <1>2, <1>3, <1>4, <1>5 DEF Thread

LEMMA TimerStep == ASSUME Inv, Timer PROVE Inv'
<1>1. CASE corredump_on_expired_timer
  <2> USE <1>1 DEF Inv, corredump_on_expired_timer, layerVars, threadVars,
                   fwVars, readVars
  <2>1. TypeOK'
    BY DEF TypeOK
  <2>2. MessageInv'
    BY DEF MessageInv
  <2>3. TimerInv' /\ AckInv'
    BY DEF TimerInv, AckInv
  <2>4. StoreInv'
    BY DEF StoreInv
  <2> QED
    BY <2>1, <2>2, <2>3, <2>4
<1>2. ASSUME NEW ok \in BOOLEAN, corredump_timer_send(ok) PROVE Inv'
  <2> USE <1>2 DEF Inv, corredump_timer_send, layerVars, threadVars, fwVars,
                   readVars
  <2>1. TypeOK'
    BY DEF TypeOK
  <2>2. MessageInv'
    BY DEF MessageInv
  <2>3. TimerInv' /\ AckInv'
    BY DEF TimerInv, AckInv
  <2>4. StoreInv'
    BY DEF StoreInv
  <2> QED
    BY <2>1, <2>2, <2>3, <2>4
<1> QED
  BY <1>1, <1>2 DEF Timer

LEMMA ReaderStep == ASSUME Inv, Reader PROVE Inv'
<1>1. ASSUME UNCHANGED <<layerVars, timerVars, threadVars, stored, last_sent,
                         fwVars>>
      PROVE  MessageInv' /\ TimerInv' /\ AckInv'
  BY <1>1 DEF Inv, MessageInv, TimerInv, AckInv, layerVars, timerVars,
     threadVars,
              fwVars
<1>2. CASE debug_coredump_open
  <2> USE <1>2 DEF Inv, debug_coredump_open, layerVars, timerVars, threadVars
  <2>1. TypeOK'
    BY DEF TypeOK
  <2>2. StoreInv'
    BY DEF StoreInv
  <2> QED
    BY <1>1, <2>1, <2>2
<1>3. CASE debug_coredump_get
  <2> USE <1>3 DEF Inv, debug_coredump_get, CoredumpLen, layerVars, timerVars,
                   threadVars
  <2>1. coredump_data_wr_idx \in Nat
    BY DEF TypeOK, MessageInv
  <2>2. TypeOK'
    BY <2>1 DEF TypeOK
  <2>3. StoreInv'
    BY DEF StoreInv
  <2> QED
    BY <1>1, <2>2, <2>3
<1>4. ASSUME NEW n \in 1..2, debug_coredump_read(n) PROVE Inv'
  <2> USE <1>4 DEF Inv, debug_coredump_read, layerVars, timerVars, threadVars
  <2>1. off' \in Nat /\ rlen' \in Nat
    BY DEF TypeOK, Upto
  <2>2. torn' \in BOOLEAN
    BY Zenon
  <2>3. TypeOK'
    BY <2>1, <2>2 DEF TypeOK
  <2>4. StoreInv'
    BY DEF StoreInv
  <2> QED
    BY <1>1, <2>3, <2>4
<1> QED
  BY <1>2, <1>3, <1>4 DEF Reader

\* The inductive invariant, of every behaviour of Spec.
LEMMA Invariant == Spec => []Inv
<1>1. Inv /\ [Next]_vars => Inv'
  <2>1. ASSUME Inv, UNCHANGED vars PROVE Inv'
    <3> USE <2>1 DEF Inv, vars, layerVars, timerVars, threadVars, fwVars, readVars
    <3>1. TypeOK'
      BY DEF TypeOK
    <3>2. MessageInv' /\ TimerInv'
      BY DEF MessageInv, TimerInv
    <3>3. AckInv' /\ StoreInv'
      BY DEF AckInv, StoreInv
    <3> QED
      BY <3>1, <3>2, <3>3
  <2> QED
    BY <2>1, FirmwareStep, ThreadStep, TimerStep, ReaderStep DEF Next
<1> QED
  BY InitInv, <1>1, PTL DEF Spec

-----------------------------------------------------------------------------
\* The memory, its index and its size fit together, and every variable of the
\* layer keeps its type, whatever the firmware sends.
THEOREM TypeCorrect == Spec => []TypeOK
<1>1. Inv => TypeOK
  BY DEF Inv
<1> QED
  BY Invariant, <1>1, PTL

\* An ACK that coredump_body_ntf_received decided or that was sent, also by
\* the timer, stands for a whole dump whose bytes have the announced checksum.
THEOREM AckIsSafe == Spec => []AckMeansWhole
<1>1. Inv => AckMeansWhole
  BY DEF Inv, AckInv, AckMeansWhole
<1> QED
  BY Invariant, <1>1, PTL

\* No NACK follows an ACK before the next header: del_timer_sync has waited for
\* a handler that would still carry the old status.
THEOREM AckIsLast == Spec => NoNackAfterAck
<1>1. Inv /\ [Next]_vars => [~(last_sent = "ACK" /\ last_sent' = "NACK")]_vars
  <2> SUFFICES ASSUME Inv, Next, last_sent = "ACK"
               PROVE  last_sent' # "NACK"
    OBVIOUS
  <2>1. coredump_status = "ACK" /\ (timer = "running" => timer_arg = "ACK")
    BY DEF Inv, AckInv, TimerInv
  <2>2. CASE Firmware
    BY <2>2 DEF Firmware, FwHeader, FwBody, FwUnknown, Deliver
  <2>3. CASE Thread
    BY <2>1, <2>3 DEF Thread, del_timer_sync, coredump_header_ntf_received,
       coredump_body_ntf_refused, coredump_body_ntf_received,
       coredump_send_rcv_status, coredump_received_default
  <2>4. CASE Timer
    BY <2>1, <2>4 DEF Timer, corredump_on_expired_timer, corredump_timer_send
  <2>5. CASE Reader
    BY <2>5 DEF Reader, debug_coredump_open, debug_coredump_get,
       debug_coredump_read
  <2> QED
    BY <2>2, <2>3, <2>4, <2>5 DEF Next
<1> QED
  BY Invariant, <1>1, PTL DEF Spec, NoNackAfterAck

\* A read of fw/coredump that no message overlaps returns exactly the bytes of
\* the accepted pieces from the position of the file on.
THEOREM ReadIsSafe == Spec => []ReadIsStored
<1>1. ASSUME Inv PROVE ReadIsStored
  <2> SUFFICES ASSUME rpc = "len", ~torn, NEW n \in 1..2,
                      off < Len(stored) \/ off < rlen
               PROVE  Copied(n) = SubSeq(stored, off + 1,
                        IF off + n < Len(stored) THEN off + n ELSE Len(stored))
    BY DEF ReadIsStored
  <2> DEFINE u == IF off + n < Len(stored) THEN off + n ELSE Len(stored)
  <2>1. /\ rlen = Len(stored) /\ Len(stored) = coredump_data_wr_idx
        /\ stored \in Seq(Bytes) /\ Len(stored) \in Nat /\ off \in Nat
    BY <1>1, LenProperties DEF Inv, StoreInv, TypeOK
  <2>2. off < Len(stored) /\ u \in 1..Len(stored) /\ off + 1 \in 1..Len(stored)
    BY <2>1
  <2>3. /\ coredump_data # Nil
        /\ \A i \in 1..Len(stored) : coredump_data[i] = stored[i]
    BY <1>1, <2>1, <2>2 DEF Inv, StoreInv
  <2>4. Copied(n) = SubSeq(coredump_data, off + 1, u)
    BY <2>1 DEF Copied, Upto
  <2> HIDE DEF u
  <2>5. \A i \in (off + 1)..u : i \in 1..Len(stored)
    BY <2>1, <2>2
  <2>6. \A i \in (off + 1)..u : stored[i] \in Bytes /\ coredump_data[i] \in Bytes
    BY <2>1, <2>3, <2>5, ElementOfSeq
  <2>7. off + 1 \in Int /\ u \in Int
    BY <2>1, <2>2
  <2> DEFINE x == SubSeq(coredump_data, off + 1, u)
             y == SubSeq(stored, off + 1, u)
  <2>8. /\ x \in Seq(Bytes) /\ y \in Seq(Bytes) /\ Len(x) = Len(y)
        /\ Len(x) = IF off + 1 <= u THEN u - (off + 1) + 1 ELSE 0
        /\ \A i \in 1..(u - (off + 1) + 1) : x[i] = coredump_data[off + 1 + i - 1]
        /\ \A i \in 1..(u - (off + 1) + 1) : y[i] = stored[off + 1 + i - 1]
    BY <2>6, <2>7, SubSeqProperties
  <2> HIDE DEF x, y
  <2>9. \A i \in 1..Len(x) : x[i] = y[i]
    <3> TAKE i \in 1..Len(x)
    <3>1. i \in 1..(u - (off + 1) + 1) /\ off + 1 + i - 1 \in 1..Len(stored)
      BY <2>1, <2>2, <2>8
    <3> QED
      BY <2>3, <2>8, <3>1
  <2>10. x = y
    BY <2>8, <2>9, SeqEqual
  <2> QED
    BY <2>4, <2>10 DEF x, y, u
<1> QED
  BY Invariant, <1>1, PTL

\* As long as pieces wait for a status, something is under way that will send
\* it or give it up: the timer is armed or its handler runs, or the thread is
\* in the middle of a message.
AnswerComes == owed = "yes" => timer # "off" \/ tpc # "idle"

\* No path of coredump_received leaves a dump that waits for its answer with
\* the timer off, except those that give the answer up ("dropped"): the part
\* of StalledDumpTimesOut that needs no fairness.
THEOREM StalledHasTimer == Spec => []AnswerComes
<1>1. Init => AnswerComes
  BY DEF Init, AnswerComes
<1>2. Inv /\ AnswerComes /\ [Next]_vars => AnswerComes'
  <2> SUFFICES ASSUME Inv, AnswerComes, [Next]_vars PROVE AnswerComes'
    OBVIOUS
  <2> USE DEF AnswerComes, timerVars, threadVars
  <2>1. CASE Firmware
    BY <2>1 DEF Firmware, FwHeader, FwBody, FwUnknown, Deliver
  <2>2. CASE Thread
    <3>1. CASE del_timer_sync
      <4>1. tpc' # "idle"
        BY <3>1 DEF del_timer_sync, Inv, MessageInv
      <4> QED BY <3>1, <4>1 DEF del_timer_sync
    <3>2. CASE \E ok \in BOOLEAN : coredump_header_ntf_received(ok)
      BY <3>2 DEF coredump_header_ntf_received
    <3>3. CASE coredump_body_ntf_refused \/ coredump_received_default
      BY <3>3 DEF coredump_body_ntf_refused, coredump_received_default, NotRearmed
    <3>4. CASE coredump_body_ntf_received
      BY <3>4 DEF coredump_body_ntf_received, mod_timer
    <3>5. CASE \E ok \in BOOLEAN : coredump_send_rcv_status(ok)
      BY <3>5 DEF coredump_send_rcv_status
    <3> QED BY <2>2, <3>1, <3>2, <3>3, <3>4, <3>5 DEF Thread
  <2>3. CASE Timer
    BY <2>3 DEF Timer, corredump_on_expired_timer, corredump_timer_send
  <2>4. CASE Reader
    BY <2>4 DEF Reader, debug_coredump_open, debug_coredump_get,
       debug_coredump_read
  <2>5. CASE UNCHANGED vars
    BY <2>5 DEF vars
  <2> QED BY <2>1, <2>2, <2>3, <2>4, <2>5 DEF Next
<1> QED
  BY <1>1, <1>2, Invariant, PTL DEF Spec
==============================================================================
