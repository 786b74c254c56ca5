------------------------------- MODULE Qmrom -------------------------------
(***************************************************************************)
(* Firmware download (libqmrom, driven by qm_firmware_load of qm35-spi.c): *)
(* find out the revision of the QM35 by trying the three protocols of its  *)
(* ROM code one after the other, then send the production firmware, and if *)
(* that fails the other one.  The debugfs files of debug_qmrom.c only      *)
(* probe, flash one firmware, or write or erase a debug certificate.       *)
(*                                                                         *)
(* The host is alone on the bus (QmIsExclusive of module Qm35Driver).  The *)
(* ROM code is not in the repository: it is modelled from what the library *)
(* waits for, and it may be slow, refuse any piece of data, or not be of   *)
(* the revision the host is trying.  A transfer may fail; the library      *)
(* looks at the result of its writes, and of few of its reads.             *)
(***************************************************************************)
EXTENDS Integers, Sequences

CONSTANTS
  Retries,    \* comms_retries
  ChunkSize,  \* CHUNK_SIZE_A0, _B0 and _C0
  Sizes,      \* sizes of the parts of a firmware file
  MaxFaults,  \* bound: transfers that fail in a behaviour
  None        \* no answer pending

Revs == {"A0", "B0", "C0"}

ASSUME QmromAssumption ==
  /\ Retries \in Nat /\ MaxFaults \in Nat
  /\ ChunkSize \in [Revs -> Nat \ {0}]
  /\ Sizes \in [{"key1", "key2", "crt", "img", "cert"} -> Nat \ {0}]

VARIABLES
  chip,     \* the revision of the QM35
  pc, goal, \* where the host is, and what it waits for the ROM code for
  rev,      \* the revision whose protocol the host speaks
  flags,    \* sstc->soc_flags, what was last read of them
  payload,  \* sstc->payload[0]
  tries,    \* retries left in a polling loop
  attempt,  \* 1: production firmware, 2: the other one, or the only one
  stage,    \* the part being sent
  sent,     \* how much of it is sent
  rc,       \* result of the download
  parts,    \* the unstitched parts are allocated
  rom,      \* the stage the ROM code is in
  rom_cnt,  \* how much of its part it has
  rom_out,  \* the answer it holds for the host
  faults,   \* failed transfers so far
  stream,   \* history: data sent to the ROM code since its last reset
  lost,     \* history: an answer was not read in this attempt
  refused,  \* history: the C0 ROM code did not ask for the first key
  fresh     \* history: the last reboot got to its reset pulse

hostVars  == <<flags, payload>>
flashVars == <<attempt, stage, sent, parts>>
romVars   == <<rom, rom_cnt, rom_out>>
history   == <<stream, lost, refused, fresh>>
vars == <<chip, pc, goal, rev, hostVars, tries, flashVars, rc, romVars, faults,
          history>>

Flags == {"none", "ready", "waiting", "active"}

\* What a ROM code asks for, in this order.
Certificate == <<"certsize", "cert">>
Stages(r) == IF r = "A0" THEN <<"mode", "key1", "key2", "crt", "size", "img">>
                         ELSE <<"key1", "key2", "crt", "img">>
Last(s) == s \in {"img", "cert"}
Size(r, s) == IF Last(s) \/ (r # "A0" /\ s # "certsize") THEN Sizes[s] ELSE 1
NextStage(r, s) ==
  LET all == IF s \in {"certsize", "cert"} THEN Certificate ELSE Stages(r)
      i   == CHOOSE i \in DOMAIN all : all[i] = s
  IN  IF Last(s) THEN "full" ELSE all[i + 1]

RomIdle(r) == IF r = "A0" THEN "mode" ELSE "idle"

Init ==
  /\ chip \in Revs
  /\ pc = "init" /\ goal = "ver" /\ rev = "B0"
  /\ flags = "none" /\ payload = "junk" /\ tries = 0
  /\ attempt = 1 /\ stage = "key1" /\ sent = 0 /\ rc = "ok" /\ parts = FALSE
  /\ rom = RomIdle(chip) /\ rom_cnt = 0 /\ rom_out = None
  /\ faults = 0
  /\ stream = <<>> /\ lost = FALSE /\ refused = FALSE
  /\ fresh = FALSE

-----------------------------------------------------------------------------
(***************************************************************************)
(* Transfers.                                                              *)
(***************************************************************************)

\* A transfer succeeds or is one of the bounded number that do not.
Transfer(ok) ==
  /\ ok \/ faults < MaxFaults
  /\ faults' = IF ok THEN faults ELSE faults + 1

\* What a poll may find: nothing in time, the flags of the ROM code, any flags
\* from one of another revision, and, when all its transfers fail and the
\* flags were not cleared before, the old ones.
PollFlags ==
  {"none"} \cup (IF rev # "C0" THEN {flags} ELSE {})
    \cup (IF rev # chip THEN Flags
          ELSE IF rom_out # None THEN {"waiting"} ELSE {"ready"})

poll_soc == flags' \in PollFlags /\ UNCHANGED payload

\* qmrom_pre_read and qmrom_read.  Without an answer the payload stays as it
\* was; whether the ROM code then holds it for the next read is its choice.
qmrom_read(ok) ==
  /\ Transfer(ok)
  /\ IF ok /\ rev = chip /\ rom_out # None
       THEN /\ payload' = rom_out
            /\ rom_out' = None
            /\ UNCHANGED lost
       ELSE /\ payload' = IF rev = chip THEN payload ELSE "junk"
            /\ rom_out' \in {rom_out, None}
            /\ lost' = TRUE
  /\ flags' \in IF ok THEN {"active", "ready"} ELSE PollFlags \cup {flags}
  /\ UNCHANGED <<rom, rom_cnt>>

\* A write also receives: what the ROM code sends meanwhile, which is no
\* answer, goes where the flags and the payload of the last read are.
Overwritten(ok) ==
  /\ flags' \in IF ok THEN Flags ELSE {flags}
  /\ payload' \in IF ok THEN {payload, "junk"} ELSE {payload}

\* The ROM code's answer to a command; it knows those of its own protocol.
RomCommand(c) ==
  IF rev # chip THEN UNCHANGED romVars
  ELSE IF rom # "idle" THEN rom_out' = "err" /\ UNCHANGED <<rom, rom_cnt>>
  ELSE IF c = "load" THEN rom' = "key1" /\ rom_out' = "key1" /\ rom_cnt' = 0
  ELSE IF c = "cert"
    THEN rom' = "certsize" /\ rom_out' = "certsize" /\ rom_cnt' = 0
  ELSE rom_out' = c /\ UNCHANGED <<rom, rom_cnt>>

\* The ROM code takes n bytes of stage s, or refuses them.
RomData(s, n, accept) ==
  IF rom # s \/ ~accept
    THEN /\ rom' = "error" /\ rom_out' = "err"
         /\ UNCHANGED rom_cnt
    ELSE LET whole == rom_cnt + n = Size(chip, s)
             next  == IF whole THEN NextStage(chip, s) ELSE s
         IN  /\ rom' = next
             /\ rom_cnt' = IF whole THEN 0 ELSE rom_cnt + n
             /\ rom_out' = IF next = "full" THEN None ELSE next

-----------------------------------------------------------------------------
(***************************************************************************)
(* Where an error leads: to the next protocol while probing, to the end of *)
(* the attempt while flashing.  An error in the data of a certificate is   *)
(* not returned, and qmrom_b0_erase_debug_cert goes on after an error and  *)
(* returns when there is none.                                             *)
(***************************************************************************)

ProbeNext ==
  /\ goal' = "ver"
  /\ rev' = CASE rev = "B0" -> "C0" [] rev = "C0" -> "A0" [] OTHER -> rev
  /\ IF rev = "A0" THEN pc' = "done" /\ rc' = "err"
                   ELSE pc' = "reboot" /\ UNCHANGED rc

FlashFails ==
  /\ pc' = "free"
  /\ rc' = IF goal = "cert" /\ stage = "cert" THEN "ok" ELSE "err"
  /\ UNCHANGED <<goal, rev>>

Goto(p) == pc' = p /\ UNCHANGED <<goal, rev, rc>>

Fails == IF goal \in {"ver", "info"} THEN ProbeNext
         ELSE IF goal = "erase" /\ rev = "B0" THEN Goto("erase")
         ELSE FlashFails

\* qm_firmware_load is called and qmrom_init allocates the handle.
qmrom_init(ok) ==
  /\ pc = "init"
  /\ IF ok THEN pc' = "reboot" /\ goal' = "ver" /\ rev' = "B0" /\ UNCHANGED rc
           ELSE pc' = "done" /\ rc' = "err" /\ UNCHANGED <<goal, rev>>
  /\ UNCHANGED <<chip, hostVars, tries, flashVars, romVars, faults, history>>

\* qmrom_reboot_bootloader: chip select down, reset, chip select up.  The
\* reset has no pulse if the first of these fails, and none on a board without
\* the reset pin, whose -ENODEV is not looked at: then the reboot succeeds
\* without one.  The reboot before the second attempt is the one whose own
\* result is not looked at.
qmrom_reboot_bootloader(ok, pulse) ==
  /\ pc = "reboot"
  /\ Transfer(ok)
  /\ fresh' = pulse
  /\ IF pulse
       THEN /\ rom' = RomIdle(chip) /\ rom_cnt' = 0
            /\ rom_out' = IF chip = "A0" THEN "mode" ELSE None
            /\ stream' = <<>>
       ELSE UNCHANGED <<romVars, stream>>
  /\ IF goal = "fallback" THEN Goto("start")
     ELSE IF ok THEN Goto("poll") ELSE Fails
  /\ UNCHANGED <<chip, hostVars, tries, flashVars, lost, refused>>

-----------------------------------------------------------------------------
(***************************************************************************)
(* wait_ready of the three protocols.                                      *)
(***************************************************************************)

IsReady == flags = IF rev = "A0" THEN "waiting" ELSE "ready"

AfterReady == IF goal = "erase" /\ rev = "B0" THEN "end"
              ELSE IF goal \in {"ver", "info", "erase"} THEN goal
              ELSE CASE rev = "A0" -> "check"
                     [] rev = "C0" -> "rram"
                     [] rev = "B0" -> IF goal = "cert" THEN "cert" ELSE "load"

wait_ready_begin ==
  /\ pc = "poll"
  /\ poll_soc
  /\ tries' = Retries
  /\ Goto("wait")
  /\ UNCHANGED <<chip, flashVars, romVars, faults, history>>

wait_ready_end ==
  /\ pc = "wait"
  /\ IsReady \/ tries = 0
  /\ IF IsReady THEN Goto(AfterReady) ELSE Fails
  /\ UNCHANGED <<chip, hostVars, tries, flashVars, romVars, faults, history>>

\* Nothing to read: poll again.
wait_ready_poll_Forever ==
  /\ pc = "wait"
  /\ tries > 0 /\ ~IsReady
  /\ rev = "A0" \/ flags \notin {"waiting", "active"}
  /\ poll_soc
  /\ UNCHANGED <<chip, pc, goal, rev, rc, tries, flashVars, romVars, faults,
                 history>>

wait_ready_poll ==
  /\ pc = "wait"
  /\ tries > 0 /\ ~IsReady
  /\ rev = "A0" \/ flags \notin {"waiting", "active"}
  /\ poll_soc
  /\ tries' = tries - 1
  /\ UNCHANGED <<chip, pc, goal, rev, rc, flashVars, romVars, faults, history>>

\* B0 only announces the read, and reads in the next turn.
wait_ready_pre_read ==
  /\ pc = "wait" /\ rev = "B0"
  /\ tries > 0 /\ flags = "waiting"
  /\ tries' = tries - 1
  /\ flags' \in IF rev = chip THEN {"waiting", "active"} ELSE Flags
  /\ UNCHANGED <<chip, pc, goal, rev, rc, payload, flashVars, romVars, faults,
                 history>>

\* A read that fails ends the wait on B0; on C0 one that follows an active
\* output ends it either way, without another look at the flags.
wait_ready_read(ok) ==
  /\ pc = "wait" /\ rev # "A0"
  /\ tries > 0 /\ flags \in (IF rev = "B0" THEN {"active"}
                                           ELSE {"waiting", "active"})
  /\ tries' = tries - 1
  /\ qmrom_read(ok)
  /\ IF rev = "C0" /\ flags = "active"
       THEN IF ok THEN Goto(AfterReady) ELSE Fails
       ELSE IF ok \/ rev = "C0" THEN Goto("wait") ELSE Fails
  /\ UNCHANGED <<chip, flashVars, stream, refused, fresh>>

-----------------------------------------------------------------------------
(***************************************************************************)
(* Probing: commands and poll_cmd_resp.                                    *)
(***************************************************************************)

\* GET_CHIP_VER and GET_SOC_INFO.
qmrom_write_cmd(ok) ==
  /\ pc \in {"ver", "info"} /\ rev # "A0"
  /\ Transfer(ok)
  /\ IF ok THEN RomCommand(pc) /\ Goto("resp_poll")
           ELSE UNCHANGED romVars /\ ProbeNext
  /\ Overwritten(ok)
  /\ UNCHANGED <<chip, tries, flashVars, history>>

\* The A0 ROM code tells its version without being asked.
qmrom_a0_version(ok) ==
  /\ pc = "ver" /\ rev = "A0"
  /\ qmrom_read(ok)
  /\ Goto("ver_check")
  /\ UNCHANGED <<chip, tries, flashVars, stream, refused, fresh>>

\* B0 and A0 do not read what is announced as longer than any answer: the
\* length comes from a ROM code of the other endianness.
wrong_endianness ==
  /\ \/ pc = "resp" /\ rev = "B0" /\ flags = "waiting"
     \/ pc = "ver" /\ rev = "A0"
  /\ rev # chip
  /\ ProbeNext
  /\ UNCHANGED <<chip, hostVars, tries, flashVars, romVars, faults, history>>

poll_cmd_resp_begin ==
  /\ pc = "resp_poll"
  /\ poll_soc
  /\ tries' = Retries
  /\ Goto("resp")
  /\ UNCHANGED <<chip, flashVars, romVars, faults, history>>

AfterResp == CASE goal = "ver" -> "ver_check" [] goal = "info" -> "start"
               [] goal = "cert" -> "cert_check" [] OTHER -> "load_check"

\* The C0 flashing code does not look at the result of poll_cmd_resp.
RespFails == IF goal \in {"flash", "cert"} THEN Goto(AfterResp) ELSE ProbeNext

\* The answer waits: read it.  B0 calls the last turn of the loop a failure.
poll_cmd_resp_read(ok) ==
  /\ pc = "resp"
  /\ flags = "waiting"
  /\ qmrom_read(ok)
  /\ IF (rev = "C0" /\ ok) \/ (rev = "B0" /\ tries > 0)
       THEN Goto(AfterResp) ELSE RespFails
  /\ UNCHANGED <<chip, tries, flashVars, stream, refused, fresh>>

poll_cmd_resp_again ==
  /\ pc = "resp"
  /\ flags # "waiting"
  /\ poll_soc
  /\ IF tries > 0 THEN /\ tries' = tries - 1
                       /\ Goto("resp") /\ UNCHANGED lost
                  ELSE /\ UNCHANGED tries
                       /\ RespFails /\ lost' = TRUE
  /\ UNCHANGED <<chip, flashVars, romVars, faults, stream, refused, fresh>>

ver_check ==
  /\ pc = "ver_check"
  /\ IF payload # (IF rev = "A0" THEN "mode" ELSE "ver") THEN ProbeNext
     ELSE IF rev = "A0" THEN Goto("start")
     ELSE pc' = "poll" /\ goal' = "info" /\ UNCHANGED <<rev, rc>>
  /\ UNCHANGED <<chip, hostVars, tries, flashVars, romVars, faults, history>>

-----------------------------------------------------------------------------
(***************************************************************************)
(* Flashing.                                                               *)
(***************************************************************************)

\* qm_firmware_flashing: the file is there or not.  A0 reboots first, since
\* its ROM code does not like to be talked to before.
qm_firmware_flashing(found) ==
  /\ pc = "start"
  /\ stage' = Stages(rev)[1] /\ sent' = 0
  /\ lost' = FALSE
  /\ goal' = "flash"
  /\ pc' = IF ~found THEN "end" ELSE IF rev = "A0" THEN "reboot" ELSE "unstitch"
  /\ rc' = IF found THEN "ok" ELSE "err"
  /\ UNCHANGED <<chip, rev, hostVars, tries, attempt, parts, romVars, faults,
                 stream, refused, fresh>>

\* The debugfs files; each uses the handle once.  rom_probe is done with it.
\* The A0 ROM code has no certificates.
rom_file(g) ==
  /\ pc = "start" /\ goal # "fallback"
  /\ goal' = g
  /\ attempt' = 2
  /\ stage' = IF g = "flash" THEN Stages(rev)[1] ELSE "certsize"
  /\ sent' = 0
  /\ lost' = FALSE
  /\ pc' = CASE g = "probe" -> "end"
             [] g = "flash" -> IF rev = "A0" THEN "reboot" ELSE "unstitch"
             [] OTHER -> IF rev = "A0" THEN "free" ELSE "poll"
  /\ rc' = IF g \in {"cert", "erase"} /\ rev = "A0" THEN "err" ELSE "ok"
  /\ UNCHANGED <<chip, rev, hostVars, tries, parts, romVars, faults, stream,
                 refused, fresh>>

\* qmrom_unstitch_fw allocates and copies the four parts, or none of them.
qmrom_unstitch_fw(ok) ==
  /\ pc = "unstitch"
  /\ parts' = ok
  /\ IF ok THEN Goto("lcs") ELSE pc' = "end" /\ rc' = "err" /\ UNCHANGED <<goal, rev>>
  /\ UNCHANGED <<chip, hostVars, tries, attempt, stage, sent, romVars, faults,
                 history>>

\* Is the firmware for the life cycle state of this QM35?
lcs_check(match) ==
  /\ pc = "lcs"
  /\ IF match THEN Goto("poll") ELSE FlashFails
  /\ UNCHANGED <<chip, hostVars, tries, flashVars, romVars, faults, history>>

\* C0: set the RRAM write mode, and read an answer nobody looks at.
use_indirect_rram_wr(ok) ==
  /\ pc = "rram"
  /\ Transfer(ok)
  /\ IF ok THEN RomCommand("ack") /\ Goto("rram_read")
           ELSE UNCHANGED romVars /\ FlashFails
  /\ Overwritten(ok)
  /\ UNCHANGED <<chip, tries, flashVars, history>>

rram_answer(ok) ==
  /\ pc = "rram_read"
  /\ qmrom_read(ok)
  /\ Goto(IF goal = "cert" THEN "cert" ELSE "load")
  /\ UNCHANGED <<chip, tries, flashVars, stream, refused, fresh>>

\* B0 and C0: SEC_LOAD_ICV_IMG_TO_RRAM or SEC_LOAD_OEM_IMG_TO_RRAM.
sec_load_img(ok) ==
  /\ pc = "load"
  /\ Transfer(ok)
  /\ IF ok THEN RomCommand("load") /\ Goto(IF rev = "B0" THEN "check" ELSE "resp_poll")
           ELSE UNCHANGED romVars /\ FlashFails
  /\ Overwritten(ok)
  /\ UNCHANGED <<chip, tries, flashVars, history>>

\* C0: no request for the first key ends the attempt with rc still 0.
first_key_check ==
  /\ pc = "load_check"
  /\ Goto(IF payload = "key1" THEN "send" ELSE "free")
  /\ refused' = (payload # "key1")
  /\ UNCHANGED <<chip, hostVars, tries, flashVars, romVars, faults, stream,
                 lost, fresh>>

\* A0 and B0 read what the ROM code asks for before they send a chunk.
check_before(ok) ==
  /\ pc = "check"
  /\ qmrom_read(ok)
  /\ IF payload' = stage THEN Goto("send") ELSE FlashFails
  /\ UNCHANGED <<chip, tries, flashVars, stream, refused, fresh>>

\* The next chunk of the part.
TxBytes == IF Size(rev, stage) - sent > ChunkSize[rev] THEN ChunkSize[rev]
                                                       ELSE Size(rev, stage) - sent

Whole(n) == n = Size(rev, stage)

\* After a part the next one is sent, after the image the download is done.
\* C0 checks each answer but the one to the end of the image.
AfterChunk(n) ==
  /\ IF Last(stage) /\ Whole(n) THEN Goto("free")
     ELSE Goto(IF rev = "C0" THEN "answer" ELSE "check")
  /\ IF Whole(n) /\ ~Last(stage) /\ rev # "C0"
       THEN stage' = NextStage(rev, stage) /\ sent' = 0
       ELSE sent' = n /\ UNCHANGED stage

write_chunk_IgnoreRc(ok, accept) ==
  /\ pc = "send"
  /\ Transfer(ok)
  /\ IF ok
       THEN /\ stream' = stream \o [i \in 1..TxBytes |-> <<stage, sent + i>>]
            /\ RomData(stage, TxBytes, accept)
       ELSE UNCHANGED <<stream, romVars>>
  /\ AfterChunk(sent + TxBytes)
  /\ Overwritten(ok)
  /\ UNCHANGED <<chip, tries, attempt, parts, lost, refused, fresh>>

write_chunk(ok, accept) ==
  /\ pc = "send"
  /\ Transfer(ok)
  /\ IF ok
       THEN /\ stream' = stream \o [i \in 1..TxBytes |-> <<stage, sent + i>>]
            /\ RomData(stage, TxBytes, accept)
            /\ AfterChunk(sent + TxBytes)
       ELSE /\ FlashFails
            /\ UNCHANGED <<stream, romVars, stage, sent>>
  /\ Overwritten(ok)
  /\ UNCHANGED <<chip, tries, attempt, parts, lost, refused, fresh>>

\* C0: the answer the ROM code owes after a chunk of stage s.
Expected_Any(s) == IF payload' = "err" THEN "err" ELSE NextStage(rev, s)
Expected(s) == IF Last(s) THEN s ELSE NextStage(rev, s)

check_after(ok) ==
  /\ pc = "answer"
  /\ qmrom_read(ok)
  /\ IF payload' # Expected(stage)
       THEN FlashFails /\ UNCHANGED <<stage, sent>>
       ELSE /\ Goto("send")
            /\ IF Whole(sent) THEN stage' = NextStage(rev, stage) /\ sent' = 0
                              ELSE UNCHANGED <<stage, sent>>
  /\ UNCHANGED <<chip, tries, attempt, parts, stream, refused, fresh>>

-----------------------------------------------------------------------------
(***************************************************************************)
(* Debug certificates of B0 and C0.                                        *)
(***************************************************************************)

write_dbg_cert(ok) ==
  /\ pc = "cert"
  /\ Transfer(ok)
  /\ IF ok THEN RomCommand("cert") /\ Goto(IF rev = "B0" THEN "cert_read" ELSE "resp_poll")
           ELSE UNCHANGED romVars /\ FlashFails
  /\ Overwritten(ok)
  /\ UNCHANGED <<chip, tries, flashVars, history>>

\* B0 reads the request for the size and sends the size ...
cert_read(ok) ==
  /\ pc = "cert_read"
  /\ qmrom_read(ok)
  /\ Goto("cert_size")
  /\ UNCHANGED <<chip, tries, flashVars, stream, refused, fresh>>

\* ... and only then looks at the payload, which the write may have changed.
\* C0 keeps the result of the write for the check of the next answer.
debug_cert_size(ok, accept) ==
  /\ pc = "cert_size"
  /\ Transfer(ok)
  /\ IF ok
       THEN /\ stream' = stream \o <<<<stage, 1>>>>
            /\ RomData(stage, 1, accept)
       ELSE UNCHANGED <<stream, romVars>>
  /\ Overwritten(ok)
  /\ IF rev = "C0"
       THEN /\ pc' = "resp_poll" /\ rc' = IF ok THEN "ok" ELSE "err"
            /\ stage' = "cert" /\ UNCHANGED <<goal, rev>>
       ELSE IF ok /\ payload' = "certsize"
         THEN Goto("check") /\ stage' = "cert"
         ELSE FlashFails /\ UNCHANGED stage
  /\ UNCHANGED <<chip, tries, attempt, sent, parts, lost, refused, fresh>>

\* C0: another answer than the one waited for ends the call with the result
\* of the last write.
cert_check ==
  /\ pc = "cert_check"
  /\ pc' = IF payload # stage THEN "free"
           ELSE IF stage = "certsize" THEN "cert_size" ELSE "send"
  /\ rc' = IF payload # stage THEN rc ELSE "ok"
  /\ UNCHANGED <<goal, rev>>
  /\ UNCHANGED <<chip, hostVars, tries, flashVars, romVars, faults, history>>

erase_dbg_cert(ok) ==
  /\ pc = "erase"
  /\ Transfer(ok)
  /\ IF ok THEN RomCommand("erase") /\ Goto("free")
           ELSE UNCHANGED romVars /\ FlashFails
  /\ Overwritten(ok)
  /\ UNCHANGED <<chip, tries, flashVars, history>>

-----------------------------------------------------------------------------
qmrom_free ==
  /\ pc = "free"
  /\ parts' = FALSE
  /\ Goto("end")
  /\ UNCHANGED <<chip, hostVars, tries, attempt, stage, sent, romVars, faults,
                 history>>

\* The production firmware failed: reboot, and try the other one.
second_attempt_NoReboot ==
  /\ pc = "end"
  /\ IF rc = "err" /\ attempt = 1
       THEN attempt' = 2 /\ goal' = "fallback" /\ pc' = "start"
       ELSE pc' = "done" /\ UNCHANGED <<attempt, goal>>
  /\ UNCHANGED <<chip, rev, rc, hostVars, tries, stage, sent, parts, romVars,
                 faults, history>>

second_attempt ==
  /\ pc = "end"
  /\ IF rc = "err" /\ attempt = 1
       THEN attempt' = 2 /\ goal' = "fallback" /\ pc' = "reboot"
       ELSE pc' = "done" /\ UNCHANGED <<attempt, goal>>
  /\ UNCHANGED <<chip, rev, rc, hostVars, tries, stage, sent, parts, romVars,
                 faults, history>>

\* qm_firmware_load has returned; it may be called again, with a new handle.
qm_firmware_load ==
  /\ pc = "done"
  /\ pc' = "init" /\ rc' = "ok" /\ attempt' = 1
  /\ flags' = "none" /\ payload' = "junk"
  /\ refused' = FALSE
  /\ UNCHANGED <<chip, goal, rev, tries, stage, sent, parts, romVars, faults,
                 stream, lost, fresh>>

-----------------------------------------------------------------------------
\* The steps of a download that is under way.
Download ==
  \/ \E ok \in BOOLEAN :
       \/ qmrom_init(ok)
       \/ \E pulse \in BOOLEAN : qmrom_reboot_bootloader(ok, pulse)
       \/ wait_ready_read(ok) \/ qmrom_write_cmd(ok) \/ qmrom_a0_version(ok)
       \/ poll_cmd_resp_read(ok) \/ qm_firmware_flashing(ok)
       \/ qmrom_unstitch_fw(ok) \/ lcs_check(ok) \/ use_indirect_rram_wr(ok)
       \/ rram_answer(ok) \/ sec_load_img(ok) \/ check_before(ok)
       \/ \E accept \in BOOLEAN : write_chunk(ok, accept)
       \/ check_after(ok)
       \/ write_dbg_cert(ok) \/ cert_read(ok) \/ erase_dbg_cert(ok)
       \/ \E accept \in BOOLEAN : debug_cert_size(ok, accept)
  \/ \E g \in {"probe", "flash", "cert", "erase"} : rom_file(g)
  \/ cert_check
  \/ wait_ready_begin \/ wait_ready_end \/ wait_ready_poll
  \/ wait_ready_pre_read
  \/ wrong_endianness \/ poll_cmd_resp_begin \/ poll_cmd_resp_again
  \/ ver_check \/ first_key_check \/ qmrom_free \/ second_attempt

Next == Download \/ qm_firmware_load

\* Fairness: the caller's thread runs; nobody has to call again.
Spec == Init /\ [][Next]_vars /\ WF_vars(Download)

-----------------------------------------------------------------------------
(***************************************************************************)
(* Properties.                                                             *)
(***************************************************************************)

TypeOK ==
  /\ chip \in Revs /\ rev \in Revs
  /\ goal \in {"ver", "info", "flash", "fallback", "probe", "cert", "erase"}
  /\ flags \in Flags
  /\ tries \in 0..Retries
  /\ attempt \in 1..2
  /\ stage \in {"mode", "key1", "key2", "crt", "size", "img", "certsize", "cert"}
  /\ rc \in {"ok", "err"}
  /\ parts \in BOOLEAN
  /\ pc \in {"send", "check", "answer"} => sent \in 0..Size(rev, stage)
  /\ rom_cnt \in Nat
  /\ faults \in 0..MaxFaults

\* The whole firmware, byte by byte: its parts in the order in which the ROM
\* code of revision r wants them.
Bytes(r, s) == [j \in 1..Size(r, s) |-> <<s, j>>]
Firmware(r) ==
  (IF r = "A0" THEN Bytes(r, "mode") ELSE <<>>)
    \o Bytes(r, "key1") \o Bytes(r, "key2") \o Bytes(r, "crt")
    \o (IF r = "A0" THEN Bytes(r, "size") ELSE <<>>) \o Bytes(r, "img")

\* A download that reports success has sent every byte of the firmware once,
\* in order, to one session of the ROM code, whatever transfers failed on the
\* way and whatever was sent in an attempt before.  There are two exceptions:
\* the C0 ROM code that does not ask for the first key, which counts as
\* success although nothing was sent (refused), and an attempt whose reboot
\* gave no reset pulse (fresh), which goes on with whatever the ROM code was
\* doing (README).
SuccessMeansSent ==
  pc = "end" /\ goal = "flash" /\ rc = "ok" /\ ~refused /\ fresh =>
    stream = Firmware(chip)

\* The command that begins a download, or writes or erases a certificate,
\* finds the ROM code waiting for one, also after an attempt that failed
\* half-way: the reason for the reboot between the two attempts.  A reboot
\* that gave no reset pulse (fresh) goes unnoticed and is excepted.
DownloadStartsFresh == pc \in {"load", "cert", "erase"} /\ fresh => rom = "idle"

\* If no answer went unread and the reboot gave its reset pulse, a chunk is
\* sent only to a ROM code that waits for this very part, of a firmware or of a
\* certificate: an answer that refuses, or asks for something else, stops the
\* transfer there.
DataIsAskedFor == pc = "send" /\ fresh /\ ~lost => rom = stage

\* A call of qm_firmware_load ends whatever the ROM code answers or does not
\* answer: no polling loop runs on (what module Qm35Driver assumes of it).
DownloadEnds == (pc = "init") ~> (pc = "done")
=============================================================================
