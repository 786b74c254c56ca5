------------------------------ MODULE Coredump ------------------------------
(***************************************************************************)
(* The coredump upper layer (hsspi_coredump.c): the firmware sends a       *)
(* header that gives the size and checksum of a dump, then the dump in     *)
(* pieces; the host stores it and answers ACK or NACK, at the end or when  *)
(* a timer expires.                                                        *)
(*                                                                         *)
(* Three contexts meet without a common lock: the HSSPI thread in          *)
(* coredump_received, the timer, and the reader of the debugfs file.       *)
(* Lengths are counted in bytes of very small dumps; a byte that krealloc  *)
(* left uninitialised is Junk.  debug_coredump_force only queues a command *)
(* for the firmware, which here sends a dump whenever it likes.            *)
(***************************************************************************)
EXTENDS Integers, Sequences, SequencesExt

CONSTANTS
  Dumps,    \* the dumps the firmware may send, sequences of bytes
  Junk,     \* an uninitialised byte
  CrcWidth, \* bits of coredump_crc: 16
  Crcs,     \* the checksums that a header may announce
  MaxMsgs   \* bound: messages the firmware sends in a behaviour

ASSUME ConstantsAssumption ==
  /\ \A d \in Dumps : d \in Seq(Nat)
  /\ Junk \notin Nat \cup {-1}
  /\ CrcWidth \in Nat /\ 2^CrcWidth \in Nat \ {0}
  /\ Crcs \subseteq 0..(2^CrcWidth - 1)
  /\ MaxMsgs \in Nat

VARIABLES
  coredump_data,        \* NULL is Nil, else the sequence of its bytes
  coredump_data_wr_idx,
  coredump_size,
  coredump_crc,
  coredump_status,
  timer,      \* "off", "armed", or "running" its handler
  timer_arg,  \* the status the running handler was called with
  tpc,        \* where the HSSPI thread is in coredump_received
  msg,        \* the message it is handling
  stored,     \* history: the bytes of the accepted pieces since the header
  last_sent,  \* the last status sent since the last header, or "none"
  owed,       \* history: whether the pieces stored wait for a status: "no",
              \* "yes", or "dropped" when nothing will send it any more
  fw_dump,    \* the dump the firmware is sending
  fw_pos,     \* how much of it is sent
  msgs,       \* messages sent by the firmware so far
  rpc,        \* the reader: "idle", or "len" once it has the length
  rlen,       \* cd_len of its read
  off,        \* the position of its file
  torn        \* a message was handled during its read

layerVars  == <<coredump_data, coredump_data_wr_idx, coredump_size,
                coredump_crc, coredump_status>>
timerVars  == <<timer, timer_arg>>
threadVars == <<tpc, msg>>
fwVars     == <<fw_dump, fw_pos, msgs>>
readVars   == <<rpc, rlen, off>>
vars == <<layerVars, timerVars, threadVars, stored, last_sent, owed, fwVars,
          readVars, torn>>

Nil   == <<-1>>
NoMsg == [cmd |-> "none"]

Init ==
  /\ coredump_data = Nil
  /\ coredump_data_wr_idx = 0
  /\ coredump_size = 0
  /\ coredump_crc = 0
  /\ coredump_status = "NACK"
  /\ timer = "off"
  /\ timer_arg = "NACK"
  /\ tpc = "idle"
  /\ msg = NoMsg
  /\ stored = <<>>
  /\ last_sent = "none"
  /\ owed = "no"
  /\ fw_dump \in Dumps
  /\ fw_pos = 0
  /\ msgs = 0
  /\ rpc = "idle"
  /\ rlen = 0
  /\ off = 0
  /\ torn = FALSE

\* The sum of the first n bytes, in the 16 bits of a uint16_t.
Checksum(bytes, n) ==
  FoldLeft(LAMBDA acc, v : acc + v, 0, SubSeq(bytes, 1, n)) % 2^CrcWidth

-----------------------------------------------------------------------------
(***************************************************************************)
(* The firmware sends a header, the next piece of the dump, or a message   *)
(* with an unknown command or a truncated header.  A message whose         *)
(* transfer failed, or without a command, is lost: the layer frees it and  *)
(* does nothing else.  The announced checksum may be wrong.                *)
(***************************************************************************)

Deliver(m, lost) ==
  /\ tpc = "idle"
  /\ msgs < MaxMsgs
  /\ msgs' = msgs + 1
  /\ IF lost THEN UNCHANGED <<threadVars, torn>>
             ELSE tpc' = "received" /\ msg' = m /\ torn' = (rpc # "idle")
  /\ UNCHANGED <<layerVars, timerVars, stored, last_sent, owed, readVars>>

FwHeader(d, crc, lost) ==
  /\ fw_dump' = d
  /\ fw_pos' = 0
  /\ Deliver([cmd |-> "HEADER", size |-> Len(d), crc |-> crc], lost)

FwBody(n, lost) ==
  /\ fw_pos + n <= Len(fw_dump)
  /\ fw_pos' = fw_pos + n
  /\ Deliver([cmd |-> "BODY", body |-> SubSeq(fw_dump, fw_pos + 1, fw_pos + n)],
             lost)
  /\ UNCHANGED fw_dump

FwUnknown ==
  /\ Deliver([cmd |-> "UNKNOWN"], FALSE)
  /\ UNCHANGED <<fw_dump, fw_pos>>

-----------------------------------------------------------------------------
(***************************************************************************)
(* coredump_received, run by the HSSPI thread.                             *)
(***************************************************************************)

\* del_timer_sync: the timer is off and its handler is not running any more.
del_timer_NotSync ==
  /\ tpc = "received"
  /\ timer' = IF timer = "running" THEN "running" ELSE "off"
  /\ tpc' = msg.cmd
  /\ UNCHANGED <<layerVars, stored, timer_arg, msg, last_sent, owed, fwVars,
                 readVars, torn>>

del_timer_sync ==
  /\ tpc = "received"
  /\ timer # "running"
  /\ timer' = "off"
  /\ tpc' = msg.cmd
  /\ UNCHANGED <<layerVars, stored, timer_arg, msg, last_sent, owed, fwVars,
                 readVars, torn>>

\* krealloc keeps the old bytes that fit and initialises none of the others.
Realloc(old, n) ==
  [i \in 1..n |-> IF old # Nil /\ i \in DOMAIN old THEN old[i] ELSE Junk]

\* coredump_header_ntf_received: a zero size, like a failed allocation,
\* leaves the layer without memory.
coredump_header_ntf_received(ok) ==
  /\ tpc = "HEADER"
  /\ coredump_data_wr_idx' = 0
  /\ coredump_status' = "NACK"
  /\ IF ok /\ msg.size > 0
       THEN /\ coredump_data' = Realloc(coredump_data, msg.size)
            /\ coredump_size' = msg.size
            /\ coredump_crc' = msg.crc
       ELSE /\ coredump_data' = Nil
            /\ coredump_size' = 0
            /\ coredump_crc' = 0
  /\ stored' = <<>>
  /\ last_sent' = "none"
  /\ owed' = "no"
  /\ tpc' = "idle"
  /\ msg' = NoMsg
  /\ UNCHANGED <<timerVars, fwVars, readVars, torn>>

\* The two tests that make coredump_body_ntf_received refuse a piece.
BodyFits_NoCheck(body) == coredump_data # Nil
BodyFits(body) ==
  /\ coredump_data # Nil
  /\ Len(body) + coredump_data_wr_idx <= coredump_size

\* The message leaves the layer with the timer deleted.
NotRearmed == owed' = IF owed = "yes" THEN "dropped" ELSE owed

coredump_body_ntf_refused ==
  /\ tpc = "BODY"
  /\ ~BodyFits(msg.body)
  /\ tpc' = "idle"
  /\ msg' = NoMsg
  /\ NotRearmed
  /\ UNCHANGED <<layerVars, stored, timerVars, last_sent, fwVars, readVars,
                 torn>>

\* The memcpy of coredump_body_ntf_received.
Memcpy(dst, at, src) ==
  [i \in 1..(IF at + Len(src) > Len(dst) THEN at + Len(src) ELSE Len(dst)) |->
     IF i > at /\ i <= at + Len(src) THEN src[i - at] ELSE dst[i]]

\* The sum of the stored bytes; a mutated one returns the announced value.
coredump_get_checksum_Header(data, idx) == coredump_crc
coredump_get_checksum(data, idx) == Checksum(data, idx)

mod_timer_Skip == UNCHANGED timer
mod_timer == timer' = "armed"

\* A piece is stored and the index moves; then the whole dump is checked, and
\* a partial one arms the timer.
coredump_body_ntf_received ==
  /\ tpc = "BODY"
  /\ BodyFits(msg.body)
  /\ coredump_data' = Memcpy(coredump_data, coredump_data_wr_idx, msg.body)
  /\ coredump_data_wr_idx' = coredump_data_wr_idx + Len(msg.body)
  /\ stored' = stored \o msg.body
  /\ owed' = "yes"
  /\ IF coredump_data_wr_idx' = coredump_size
       THEN /\ coredump_status' =
                 IF coredump_get_checksum(coredump_data', coredump_data_wr_idx')
                      = coredump_crc
                   THEN "ACK" ELSE coredump_status
            /\ tpc' = "send"
            /\ UNCHANGED timer
       ELSE /\ mod_timer
            /\ tpc' = "idle"
            /\ UNCHANGED coredump_status
  /\ msg' = NoMsg
  /\ UNCHANGED <<coredump_size, coredump_crc, timer_arg, last_sent, fwVars,
                 readVars, torn>>

\* coredump_send_rcv_status at the end of the dump.  The packet is lost when
\* there is no memory or hsspi_send refuses it.
coredump_send_rcv_status(ok) ==
  /\ tpc = "send"
  /\ last_sent' = IF ok THEN coredump_status ELSE last_sent
  /\ owed' = IF ok THEN "no" ELSE "dropped"
  /\ tpc' = "idle"
  /\ UNCHANGED <<layerVars, stored, timerVars, msg, fwVars, readVars, torn>>

coredump_received_default ==
  /\ tpc = "UNKNOWN"
  /\ tpc' = "idle"
  /\ msg' = NoMsg
  /\ NotRearmed
  /\ UNCHANGED <<layerVars, stored, timerVars, last_sent, fwVars, readVars,
                 torn>>

-----------------------------------------------------------------------------
(***************************************************************************)
(* The timer.                                                              *)
(***************************************************************************)

\* The handler starts and reads the status it will send.
corredump_on_expired_timer ==
  /\ timer = "armed"
  /\ timer' = "running"
  /\ timer_arg' = coredump_status
  /\ UNCHANGED <<layerVars, stored, threadVars, last_sent, owed, fwVars,
                 readVars, torn>>

corredump_timer_send(ok) ==
  /\ timer = "running"
  /\ last_sent' = IF ok THEN timer_arg ELSE last_sent
  /\ owed' = IF ok THEN "no" ELSE "dropped"
  /\ timer' = "off"
  /\ timer_arg' = "NACK"
  /\ UNCHANGED <<layerVars, stored, threadVars, fwVars, readVars, torn>>

-----------------------------------------------------------------------------
(***************************************************************************)
(* The debugfs file fw/coredump.  Nothing orders a read and the handling   *)
(* of a message: a torn read copies from wherever the data was or is.      *)
(***************************************************************************)

debug_coredump_open ==
  /\ rpc = "idle"
  /\ off # 0
  /\ off' = 0
  /\ UNCHANGED <<layerVars, timerVars, threadVars, stored, last_sent, owed,
                 fwVars, rpc, rlen, torn>>

\* debug_coredump_get reads the length first, the pointer after it.
CoredumpLen_Size == coredump_size
CoredumpLen == coredump_data_wr_idx

debug_coredump_get ==
  /\ rpc = "idle"
  /\ rpc' = "len"
  /\ rlen' = CoredumpLen
  /\ torn' = (tpc # "idle")
  /\ UNCHANGED <<layerVars, timerVars, threadVars, stored, last_sent, owed,
                 fwVars, off>>

\* simple_read_from_buffer: what it copies of a file of rlen bytes.
Upto(n) == IF off + n < rlen THEN off + n ELSE rlen
Copied(n) == SubSeq(coredump_data, off + 1, Upto(n))

debug_coredump_read(n) ==
  /\ rpc = "len"
  /\ off' = IF off < rlen THEN Upto(n) ELSE off
  /\ rpc' = "idle"
  /\ rlen' = 0
  /\ torn' = FALSE
  /\ UNCHANGED <<layerVars, timerVars, threadVars, stored, last_sent, owed,
                 fwVars>>

-----------------------------------------------------------------------------
Firmware ==
  \/ \E d \in Dumps, crc \in Crcs, lost \in BOOLEAN : FwHeader(d, crc, lost)
  \/ \E n \in 0..Len(fw_dump), lost \in BOOLEAN : FwBody(n, lost)
  \/ FwUnknown

Thread ==
  \/ del_timer_sync
  \/ \E ok \in BOOLEAN : coredump_header_ntf_received(ok)
  \/ coredump_body_ntf_refused
  \/ coredump_body_ntf_received
  \/ \E ok \in BOOLEAN : coredump_send_rcv_status(ok)
  \/ coredump_received_default

Timer ==
  \/ corredump_on_expired_timer
  \/ \E ok \in BOOLEAN : corredump_timer_send(ok)

Reader ==
  \/ debug_coredump_open
  \/ debug_coredump_get
  \/ \E n \in 1..2 : debug_coredump_read(n)

Next == Firmware \/ Thread \/ Timer \/ Reader

Spec == Init /\ [][Next]_vars

\* Fairness: the thread finishes a message and a timer that is armed expires.
Fairness == WF_vars(Thread) /\ WF_vars(Timer)

FairSpec == Spec /\ Fairness

-----------------------------------------------------------------------------
(***************************************************************************)
(* Properties.                                                             *)
(***************************************************************************)

Bytes == UNION {{d[i] : i \in DOMAIN d} : d \in Dumps}

TypeOK ==
  /\ coredump_data = Nil \/ coredump_data \in Seq(Bytes \cup {Junk})
  /\ coredump_data_wr_idx \in 0..coredump_size
  /\ coredump_data # Nil => Len(coredump_data) = coredump_size
  /\ coredump_crc \in 0..(2^CrcWidth - 1)
  /\ coredump_status \in {"ACK", "NACK"}
  /\ timer \in {"off", "armed", "running"}
  /\ timer_arg \in {"ACK", "NACK"}
  /\ tpc \in {"idle", "received", "HEADER", "BODY", "UNKNOWN", "send"}
  /\ last_sent \in {"none", "ACK", "NACK"}
  /\ owed \in {"no", "yes", "dropped"}
  /\ rpc \in {"idle", "len"} /\ torn \in BOOLEAN
  /\ rlen \in Nat /\ off \in Nat

\* An ACK, decided or sent, stands for a dump that is whole and whose bytes
\* have the announced checksum, also when pieces or headers were lost.
AckMeansWhole ==
  coredump_status = "ACK" \/ last_sent = "ACK" =>
    /\ coredump_data_wr_idx = coredump_size
    /\ Checksum(coredump_data, coredump_data_wr_idx) = coredump_crc

\* The firmware is never told NACK for a dump after it was told ACK: no timer
\* handler is in flight when the end of the dump is answered (the reason for
\* del_timer_sync, rather than del_timer, before the message is handled).
NoNackAfterAck == [][~(last_sent = "ACK" /\ last_sent' = "NACK")]_vars

\* A dump that stalls in the middle does not stay without an answer: after
\* every piece stored, ACK or NACK is sent, by the timer if nothing else, or
\* another header replaces the dump.  The exceptions ("dropped") are the paths
\* on which the code gives the answer up: a message that is truncated, unknown
\* or refused has deleted the timer and does not arm it again, and a status
\* that could not be sent is not sent later.
StalledDumpTimesOut == (owed = "yes") ~> (owed # "yes")

\* A read of fw/coredump that no message overlaps returns, from the position
\* of the file on, exactly the bytes of the pieces accepted since the last
\* header: none that krealloc left over or that a refused piece brought, and
\* it is at its end only where the pieces end.
ReadIsStored ==
  rpc = "len" /\ ~torn =>
    \A n \in 1..2 :
      LET upto == IF off + n < Len(stored) THEN off + n ELSE Len(stored)
      IN  off < Len(stored) \/ off < rlen => Copied(n) = SubSeq(stored, off + 1, upto)
==============================================================================
