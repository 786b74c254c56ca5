---------------------------- MODULE QmromProofs ----------------------------
(***************************************************************************)
(* Proofs about module Qmrom, for any number of retries, chunk sizes,      *)
(* sizes of the parts and failed transfers.                                *)
(***************************************************************************)
EXTENDS Qmrom, SequenceTheorems, TLAPS

-----------------------------------------------------------------------------
(***************************************************************************)
(* Where the host may be, for each thing it does and each revision.        *)
(***************************************************************************)

Pcs == {"init", "reboot", "poll", "wait", "ver", "info", "resp_poll", "resp",
        "ver_check", "start", "unstitch", "lcs", "rram", "rram_read", "load",
        "load_check", "check", "send", "answer", "cert", "cert_read",
        "cert_size", "cert_check", "erase", "free", "end", "done"}

FlashStages == {"mode", "key1", "key2", "crt", "size", "img"}
AllStages   == FlashStages \cup {"certsize", "cert"}

ControlTypes ==
  /\ chip \in Revs /\ rev \in Revs
  /\ goal \in {"ver", "info", "flash", "fallback", "probe", "cert", "erase"}
  /\ pc \in Pcs
  /\ attempt \in {1, 2}
  /\ stage \in AllStages
  /\ rc \in {"ok", "err"}
  /\ parts \in BOOLEAN

WireTypes ==
  /\ flags \in Flags
  /\ tries \in 0..Retries
  /\ rom_cnt \in Nat
  /\ faults \in 0..MaxFaults
  /\ lost \in BOOLEAN /\ refused \in BOOLEAN /\ fresh \in BOOLEAN

Script ==
  /\ pc = "reboot" => goal \in {"ver", "flash", "fallback"}
  /\ pc = "reboot" /\ goal = "flash" => rev = "A0"
  /\ pc \in {"poll", "wait"} => goal \in {"ver", "info", "flash", "cert", "erase"}
  /\ pc \in {"poll", "wait"} /\ goal \in {"info", "cert", "erase"} => rev # "A0"
  /\ pc \in {"ver", "ver_check"} => goal = "ver"
  /\ pc = "info" => goal = "info" /\ rev # "A0"
  /\ pc \in {"resp_poll", "resp"} =>
       /\ goal \in {"ver", "info", "flash", "cert"} /\ rev # "A0"
       /\ goal \in {"flash", "cert"} => rev = "C0"
  /\ pc = "start" => goal \in {"ver", "info", "fallback"}
  /\ pc \in {"unstitch", "lcs", "load"} => goal = "flash" /\ rev # "A0"
  /\ pc = "load_check" => goal = "flash" /\ rev = "C0"
  /\ pc \in {"rram", "rram_read"} => goal \in {"flash", "cert"} /\ rev = "C0"
  /\ pc = "check" => goal \in {"flash", "cert"} /\ rev # "C0"
  /\ pc = "send" => goal \in {"flash", "cert"}
  /\ pc = "answer" => goal \in {"flash", "cert"} /\ rev = "C0"
  /\ pc \in {"check", "send"} /\ goal = "cert" => rev # "A0"
  /\ pc \in {"cert", "cert_size"} => goal = "cert" /\ rev # "A0"
  /\ pc = "cert_read" => goal = "cert" /\ rev = "B0"
  /\ pc = "cert_check" => goal = "cert" /\ rev = "C0"
  /\ pc = "erase" => goal = "erase" /\ rev # "A0"
  /\ pc \in {"free", "end"} => goal \in {"flash", "probe", "cert", "erase"}

\* Once a protocol was answered in its own terms, the host speaks the one of
\* the QM35.
RevIsKnown ==
  /\ goal # "ver" \/ pc = "start" => rev = chip
  /\ pc = "ver_check" => rev = chip \/ payload = "junk"

\* The part that is being sent, and how much of it.
Sending ==
  /\ /\ goal = "flash"
     /\ pc \in {"reboot", "unstitch", "lcs", "poll", "wait", "rram", "rram_read",
                "load", "resp_poll", "resp", "load_check"}
     => stage = (IF rev = "A0" THEN "mode" ELSE "key1") /\ sent = 0
  /\ /\ goal = "cert"
     /\ pc \in {"poll", "wait", "rram", "rram_read", "cert", "cert_read",
                "cert_size"}
     => stage = "certsize" /\ sent = 0
  /\ goal = "cert" /\ pc \in {"resp_poll", "resp", "cert_check"} =>
       stage \in {"certsize", "cert"} /\ sent = 0
  /\ pc \in {"check", "send", "answer"} =>
       /\ goal = "flash" => /\ stage \in FlashStages
                            /\ rev # "A0" => stage \notin {"mode", "size"}
       /\ goal = "cert" => stage = "cert"
       /\ sent \in Nat
  /\ pc \in {"check", "send"} => sent < Size(rev, stage)
  /\ pc = "answer" => /\ sent <= Size(rev, stage)
                      /\ Last(stage) => sent < Size(rev, stage)

ControlInv == ControlTypes /\ WireTypes /\ Script /\ RevIsKnown /\ Sending

\* The sizes of the parts.
LEMMA SizeOfStage ==
  ASSUME NEW r \in Revs, NEW s \in AllStages,
         r # "A0" => s \notin {"mode", "size"}
  PROVE  /\ Size(r, s) \in Nat \ {0}
         /\ s = "certsize" => Size(r, s) = 1
  BY QmromAssumption DEF Size, Last, AllStages, FlashStages

\* The order of the parts.
LEMMA NextStageFacts ==
  ASSUME NEW r \in Revs
  PROVE  /\ r = "A0" => /\ NextStage(r, "mode") = "key1"
                        /\ NextStage(r, "crt") = "size"
                        /\ NextStage(r, "size") = "img"
         /\ r # "A0" => NextStage(r, "crt") = "img"
         /\ NextStage(r, "key1") = "key2"
         /\ NextStage(r, "key2") = "crt"
         /\ NextStage(r, "img") = "full"
         /\ NextStage(r, "certsize") = "cert"
         /\ NextStage(r, "cert") = "full"
<1>1. CASE r = "A0"
  BY <1>1 DEF NextStage, Stages, Certificate, Last
<1>2. CASE r # "A0"
  BY <1>2 DEF NextStage, Stages, Certificate, Last
<1> QED BY <1>1, <1>2

\* The next chunk is not empty and does not go past the end of the part.
LEMMA ChunkFacts ==
  ASSUME ControlInv, pc = "send"
  PROVE  /\ TxBytes \in Nat \ {0}
         /\ sent + TxBytes <= Size(rev, stage)
         /\ sent \in Nat /\ Size(rev, stage) \in Nat
<1>1. sent \in Nat /\ sent < Size(rev, stage) /\ Size(rev, stage) \in Nat \ {0}
  BY SizeOfStage DEF ControlInv, ControlTypes, Script, Sending, AllStages,
     FlashStages
<1>2. ChunkSize[rev] \in Nat \ {0}
  BY QmromAssumption DEF ControlInv, ControlTypes
<1> QED BY <1>1, <1>2 DEF TxBytes

\* Where the host goes when the ROM code is ready.
LEMMA AfterReadyFacts ==
  ASSUME ControlInv, pc = "wait"
  PROVE  \/ goal = "ver" /\ AfterReady = "ver"
         \/ goal = "info" /\ rev # "A0" /\ AfterReady = "info"
         \/ goal = "erase" /\ rev = "B0" /\ AfterReady = "end"
         \/ goal = "erase" /\ rev = "C0" /\ AfterReady = "erase"
         \/ goal = "flash" /\ rev = "A0" /\ AfterReady = "check"
         \/ goal = "flash" /\ rev = "B0" /\ AfterReady = "load"
         \/ goal = "cert" /\ rev = "B0" /\ AfterReady = "cert"
         \/ goal \in {"flash", "cert"} /\ rev = "C0" /\ AfterReady = "rram"
<1>1. /\ goal \in {"ver", "info", "flash", "cert", "erase"}
      /\ goal \in {"info", "cert", "erase"} => rev # "A0"
      /\ rev \in {"A0", "B0", "C0"}
  BY DEF ControlInv, ControlTypes, Script, Revs
<1>2. CASE goal \in {"ver", "info"}
  BY <1>1, <1>2 DEF AfterReady
<1>3. CASE goal = "erase"
  BY <1>1, <1>3 DEF AfterReady
<1>4. CASE goal = "flash"
  BY <1>1, <1>4 DEF AfterReady
<1>5. CASE goal = "cert"
  BY <1>1, <1>5 DEF AfterReady
<1> QED BY <1>1, <1>2, <1>3, <1>4, <1>5

LEMMA ControlInit == Init => ControlInv
<1> SUFFICES ASSUME Init PROVE ControlInv
  OBVIOUS
<1>1. ControlTypes
  BY DEF Init, ControlTypes, Revs, Pcs, AllStages, FlashStages
<1>3. WireTypes
  <2>1. 0 \in 0..Retries /\ 0 \in 0..MaxFaults
    BY QmromAssumption
  <2> QED BY <2>1 DEF Init, WireTypes, Flags
<1>2. Script /\ RevIsKnown /\ Sending
  BY DEF Init, Script, RevIsKnown, Sending
<1> QED BY <1>1, <1>2, <1>3 DEF ControlInv

\* The values that transfers leave.
LEMMA TransferTypes ==
  ASSUME WireTypes, NEW ok \in BOOLEAN, Transfer(ok)
  PROVE  faults' \in 0..MaxFaults
  BY QmromAssumption DEF WireTypes, Transfer

LEMMA PollTypes ==
  ASSUME WireTypes
  PROVE  PollFlags \subseteq Flags /\ (poll_soc => flags' \in Flags)
  BY DEF WireTypes, PollFlags, Flags, poll_soc

LEMMA ReadTypes ==
  ASSUME WireTypes, NEW ok \in BOOLEAN, qmrom_read(ok)
  PROVE  /\ flags' \in Flags /\ faults' \in 0..MaxFaults
         /\ rom_cnt' = rom_cnt /\ lost' \in BOOLEAN
<1>1. flags' \in Flags
  BY PollTypes DEF WireTypes, qmrom_read, Flags
<1>2. faults' \in 0..MaxFaults
  BY TransferTypes DEF qmrom_read
<1>3. rom_cnt' = rom_cnt /\ lost' \in BOOLEAN
  BY DEF qmrom_read, WireTypes
<1> QED BY <1>1, <1>2, <1>3

LEMMA WriteTypes ==
  ASSUME WireTypes, NEW ok \in BOOLEAN, Transfer(ok), Overwritten(ok)
  PROVE  flags' \in Flags /\ faults' \in 0..MaxFaults
  BY TransferTypes DEF Overwritten, WireTypes

LEMMA CommandTypes ==
  ASSUME WireTypes, NEW c, RomCommand(c) \/ UNCHANGED romVars
  PROVE  rom_cnt' \in Nat
  BY DEF RomCommand, romVars, WireTypes

LEMMA DataTypes ==
  ASSUME WireTypes, NEW s, NEW n \in Nat, NEW accept \in BOOLEAN,
         RomData(s, n, accept) \/ UNCHANGED romVars
  PROVE  rom_cnt' \in Nat
  BY DEF RomData, romVars, WireTypes

LEMMA ControlStep ==
  ASSUME ControlInv, [Next]_vars
  PROVE  ControlInv'
<1>a. /\ Retries \in Nat /\ MaxFaults \in Nat
      /\ ChunkSize \in [Revs -> Nat \ {0}]
  BY QmromAssumption
<1>t. rev \in {"A0", "B0", "C0"}
  BY DEF ControlInv, ControlTypes, Revs
<1>s. 0 < Size(rev, "key1") /\ 0 < Size(rev, "cert") /\ 0 < Size("A0", "mode")
  BY <1>t, SizeOfStage DEF AllStages, FlashStages, Revs
<1>1. ASSUME NEW ok \in BOOLEAN, qmrom_init(ok)
      PROVE  ControlInv'
  <2>1. Script' /\ RevIsKnown'
    BY <1>1 DEF qmrom_init, hostVars, flashVars, history, ControlInv, Script,
       RevIsKnown
  <2>2. Sending'
    BY <1>1, <2>1 DEF qmrom_init, hostVars, flashVars, history, ControlInv,
       Script, Sending, Stages
  <2>3. ControlTypes'
    BY <1>1 DEF qmrom_init, hostVars, flashVars, history, ControlInv,
       ControlTypes, Script, Sending, Stages, Revs, Pcs, AllStages,
       FlashStages
  <2>4. WireTypes'
    BY <1>1, <1>a DEF qmrom_init, hostVars, flashVars, romVars, history,
       ControlInv, WireTypes
  <2> QED BY <2>1, <2>2, <2>3, <2>4 DEF ControlInv
<1>2. ASSUME NEW ok \in BOOLEAN, NEW pulse \in BOOLEAN, qmrom_reboot_bootloader(ok, pulse)
      PROVE  ControlInv'
  <2>1. Script' /\ RevIsKnown'
    BY <1>2 DEF qmrom_reboot_bootloader, Goto, Fails, ProbeNext, FlashFails,
       RomIdle, hostVars, flashVars, ControlInv, Script, RevIsKnown
  <2>2. Sending'
    BY <1>2, <2>1 DEF qmrom_reboot_bootloader, Goto, Fails, ProbeNext,
       FlashFails, RomIdle, hostVars, flashVars, ControlInv, Script, Sending,
       Stages
  <2>3. ControlTypes'
    BY <1>2 DEF qmrom_reboot_bootloader, Goto, Fails, ProbeNext, FlashFails,
       RomIdle, hostVars, flashVars, ControlInv, ControlTypes, Script,
       Sending, Stages, Revs, Pcs, AllStages, FlashStages
  <2>4. WireTypes'
    BY <1>2, <1>a, TransferTypes DEF qmrom_reboot_bootloader, RomIdle,
       hostVars, flashVars, romVars, ControlInv, WireTypes
  <2> QED BY <2>1, <2>2, <2>3, <2>4 DEF ControlInv
<1>3. ASSUME NEW ok \in BOOLEAN, wait_ready_read(ok)
      PROVE  ControlInv'
  <2>1. Script' /\ RevIsKnown'
    <3>1. CASE Goto("wait")
      BY <1>3, <3>1 DEF wait_ready_read, Goto, flashVars, ControlInv, Script,
         RevIsKnown
    <3>2. CASE Goto(AfterReady)
      <4>1. /\ pc = "wait" /\ pc' = AfterReady
            /\ UNCHANGED <<goal, rev, rc, chip, stage, sent>>
        BY <1>3, <3>2 DEF wait_ready_read, Goto, flashVars
      <4> QED BY <4>1, AfterReadyFacts DEF ControlInv, Script, RevIsKnown
    <3>3. CASE Fails
      BY <1>3, <1>t, <3>3 DEF wait_ready_read, Fails, ProbeNext, FlashFails,
         Goto,
         flashVars, ControlInv, Script, RevIsKnown
    <3> QED BY <1>3, <3>1, <3>2, <3>3 DEF wait_ready_read
  <2>2. Sending'
    BY <1>3, <2>1 DEF wait_ready_read, Goto, Fails, ProbeNext, FlashFails,
       AfterReady, flashVars, ControlInv, Script, Sending, Stages
  <2>3. ControlTypes'
    BY <1>3 DEF wait_ready_read, Goto, Fails, ProbeNext, FlashFails,
       AfterReady, flashVars, ControlInv, ControlTypes, Script, Sending,
       Stages, Revs, Pcs, AllStages, FlashStages
  <2>4. WireTypes'
    BY <1>3, <1>a, ReadTypes DEF wait_ready_read, flashVars, ControlInv,
       WireTypes
  <2> QED BY <2>1, <2>2, <2>3, <2>4 DEF ControlInv
<1>4. ASSUME NEW ok \in BOOLEAN, qmrom_write_cmd(ok)
      PROVE  ControlInv'
  <2>1. Script' /\ RevIsKnown'
    BY <1>4 DEF qmrom_write_cmd, Goto, ProbeNext, flashVars, history,
       ControlInv, Script, RevIsKnown
  <2>2. Sending'
    BY <1>4, <2>1 DEF qmrom_write_cmd, Goto, ProbeNext, flashVars, history,
       ControlInv, Script, Sending, Stages
  <2>3. ControlTypes'
    BY <1>4 DEF qmrom_write_cmd, Goto, ProbeNext, flashVars, history,
       ControlInv, ControlTypes, Script, Sending, Stages, Revs, Pcs,
       AllStages, FlashStages
  <2>4. WireTypes'
    BY <1>4, <1>a, CommandTypes, WriteTypes DEF qmrom_write_cmd, flashVars,
       romVars, history, ControlInv, WireTypes
  <2> QED BY <2>1, <2>2, <2>3, <2>4 DEF ControlInv
<1>5. ASSUME NEW ok \in BOOLEAN, qmrom_a0_version(ok)
      PROVE  ControlInv'
  <2>1. Script' /\ RevIsKnown'
    BY <1>5 DEF qmrom_a0_version, qmrom_read, Goto, flashVars, ControlInv,
       Script, RevIsKnown
  <2>2. Sending'
    BY <1>5, <2>1 DEF qmrom_a0_version, qmrom_read, Goto, flashVars,
       ControlInv, Script, Sending, Stages
  <2>3. ControlTypes'
    BY <1>5 DEF qmrom_a0_version, Goto, flashVars, ControlInv, ControlTypes,
       Script, Sending, Stages, Revs, Pcs, AllStages, FlashStages
  <2>4. WireTypes'
    BY <1>5, <1>a, ReadTypes DEF qmrom_a0_version, flashVars, ControlInv,
       WireTypes
  <2> QED BY <2>1, <2>2, <2>3, <2>4 DEF ControlInv
<1>6. ASSUME NEW ok \in BOOLEAN, poll_cmd_resp_read(ok)
      PROVE  ControlInv'
  <2>1. Script' /\ RevIsKnown'
    BY <1>6 DEF poll_cmd_resp_read, qmrom_read, Goto, AfterResp, RespFails,
       ProbeNext, flashVars, ControlInv, Script, RevIsKnown
  <2>2. Sending'
    BY <1>6, <2>1 DEF poll_cmd_resp_read, qmrom_read, Goto, AfterResp,
       RespFails, ProbeNext, flashVars, ControlInv, Script, Sending, Stages
  <2>3. ControlTypes'
    BY <1>6 DEF poll_cmd_resp_read, Goto, AfterResp, RespFails, ProbeNext,
       flashVars, ControlInv, ControlTypes, Script, Sending, Stages, Revs,
       Pcs, AllStages, FlashStages
  <2>4. WireTypes'
    BY <1>6, <1>a, ReadTypes DEF poll_cmd_resp_read, flashVars, ControlInv,
       WireTypes
  <2> QED BY <2>1, <2>2, <2>3, <2>4 DEF ControlInv
<1>7. ASSUME NEW ok \in BOOLEAN, qm_firmware_flashing(ok)
      PROVE  ControlInv'
  <2>1. Script' /\ RevIsKnown'
    BY <1>7 DEF qm_firmware_flashing, hostVars, ControlInv, Script, RevIsKnown
  <2>2. Sending'
    BY <1>7, <2>1 DEF qm_firmware_flashing, hostVars, ControlInv, Script,
       Sending, Stages
  <2>3. ControlTypes'
    BY <1>7 DEF qm_firmware_flashing, hostVars, ControlInv, ControlTypes,
       Script, Sending, Stages, Revs, Pcs, AllStages, FlashStages
  <2>4. WireTypes'
    BY <1>7, <1>a DEF qm_firmware_flashing, hostVars, romVars, ControlInv,
       WireTypes
  <2> QED BY <2>1, <2>2, <2>3, <2>4 DEF ControlInv
<1>8. ASSUME NEW ok \in BOOLEAN, qmrom_unstitch_fw(ok)
      PROVE  ControlInv'
  <2>1. Script' /\ RevIsKnown'
    BY <1>8 DEF qmrom_unstitch_fw, Goto, hostVars, history, ControlInv,
       Script, RevIsKnown
  <2>2. Sending'
    BY <1>8, <2>1 DEF qmrom_unstitch_fw, Goto, hostVars, history, ControlInv,
       Script, Sending, Stages
  <2>3. ControlTypes'
    BY <1>8 DEF qmrom_unstitch_fw, Goto, hostVars, history, ControlInv,
       ControlTypes, Script, Sending, Stages, Revs, Pcs, AllStages,
       FlashStages
  <2>4. WireTypes'
    BY <1>8, <1>a DEF qmrom_unstitch_fw, hostVars, romVars, history,
       ControlInv, WireTypes
  <2> QED BY <2>1, <2>2, <2>3, <2>4 DEF ControlInv
<1>9. ASSUME NEW ok \in BOOLEAN, lcs_check(ok)
      PROVE  ControlInv'
  <2>1. Script' /\ RevIsKnown'
    BY <1>9 DEF lcs_check, Goto, FlashFails, hostVars, flashVars, history,
       ControlInv, Script, RevIsKnown
  <2>2. Sending'
    BY <1>9, <2>1 DEF lcs_check, Goto, FlashFails, hostVars, flashVars,
       history, ControlInv, Script, Sending, Stages
  <2>3. ControlTypes'
    BY <1>9 DEF lcs_check, Goto, FlashFails, hostVars, flashVars, history,
       ControlInv, ControlTypes, Script, Sending, Stages, Revs, Pcs,
       AllStages, FlashStages
  <2>4. WireTypes'
    BY <1>9, <1>a DEF lcs_check, hostVars, flashVars, romVars, history,
       ControlInv, WireTypes
  <2> QED BY <2>1, <2>2, <2>3, <2>4 DEF ControlInv
<1>10. ASSUME NEW ok \in BOOLEAN, use_indirect_rram_wr(ok)
      PROVE  ControlInv'
  <2>1. Script' /\ RevIsKnown'
    BY <1>10 DEF use_indirect_rram_wr, Goto, FlashFails, flashVars, history,
       ControlInv, Script, RevIsKnown
  <2>2. Sending'
    BY <1>10, <2>1 DEF use_indirect_rram_wr, Goto, FlashFails, flashVars,
       history, ControlInv, Script, Sending, Stages
  <2>3. ControlTypes'
    BY <1>10 DEF use_indirect_rram_wr, Goto, FlashFails, flashVars, history,
       ControlInv, ControlTypes, Script, Sending, Stages, Revs, Pcs,
       AllStages, FlashStages
  <2>4. WireTypes'
    BY <1>10, <1>a, CommandTypes, WriteTypes DEF use_indirect_rram_wr,
       flashVars, romVars, history, ControlInv, WireTypes
  <2> QED BY <2>1, <2>2, <2>3, <2>4 DEF ControlInv
<1>11. ASSUME NEW ok \in BOOLEAN, rram_answer(ok)
      PROVE  ControlInv'
  <2>1. Script' /\ RevIsKnown'
    BY <1>11 DEF rram_answer, Goto, flashVars, ControlInv, Script, RevIsKnown
  <2>2. Sending'
    BY <1>11, <2>1 DEF rram_answer, Goto, flashVars, ControlInv, Script,
       Sending, Stages
  <2>3. ControlTypes'
    BY <1>11 DEF rram_answer, Goto, flashVars, ControlInv, ControlTypes,
       Script, Sending, Stages, Revs, Pcs, AllStages, FlashStages
  <2>4. WireTypes'
    BY <1>11, <1>a, ReadTypes DEF rram_answer, flashVars, ControlInv,
       WireTypes
  <2> QED BY <2>1, <2>2, <2>3, <2>4 DEF ControlInv
<1>12. ASSUME NEW ok \in BOOLEAN, sec_load_img(ok)
      PROVE  ControlInv'
  <2>1. Script' /\ RevIsKnown'
    BY <1>12, <1>t DEF sec_load_img, Goto, FlashFails, flashVars, ControlInv,
       Script, RevIsKnown
  <2>2. Sending'
    BY <1>12, <1>t, <1>s DEF sec_load_img, Goto, FlashFails, flashVars,
       ControlInv,
       Script, Sending, FlashStages
  <2>3. ControlTypes'
    BY <1>12 DEF sec_load_img, Goto, FlashFails, flashVars, history,
       ControlInv, ControlTypes, Script, Sending, Stages, Revs, Pcs,
       AllStages, FlashStages
  <2>4. WireTypes'
    BY <1>12, <1>a, CommandTypes, WriteTypes DEF sec_load_img, flashVars,
       romVars, history, ControlInv, WireTypes
  <2> QED BY <2>1, <2>2, <2>3, <2>4 DEF ControlInv
<1>13. ASSUME NEW ok \in BOOLEAN, check_before(ok)
      PROVE  ControlInv'
  <2>1. Script' /\ RevIsKnown'
    BY <1>13 DEF check_before, qmrom_read, Goto, FlashFails, flashVars,
       ControlInv, Script, RevIsKnown
  <2>2. Sending'
    BY <1>13, <2>1 DEF check_before, qmrom_read, Goto, FlashFails, flashVars,
       ControlInv, Script, Sending, Stages
  <2>3. ControlTypes'
    BY <1>13 DEF check_before, Goto, FlashFails, flashVars, ControlInv,
       ControlTypes, Script, Sending, Stages, Revs, Pcs, AllStages,
       FlashStages
  <2>4. WireTypes'
    BY <1>13, <1>a, ReadTypes DEF check_before, flashVars, ControlInv,
       WireTypes
  <2> QED BY <2>1, <2>2, <2>3, <2>4 DEF ControlInv
<1>14. ASSUME NEW ok \in BOOLEAN, NEW accept \in BOOLEAN, write_chunk(ok, accept)
      PROVE  ControlInv'
  <2>1. Script' /\ RevIsKnown'
    BY <1>14 DEF write_chunk, AfterChunk, Whole, Goto, FlashFails, ControlInv,
       Script, RevIsKnown
  <2>0. ASSUME ~ok PROVE Sending'
    <3>1. /\ FlashFails
          /\ UNCHANGED <<stage, sent>>
      BY <1>14, <2>0 DEF write_chunk
    <3> QED BY <3>1 DEF FlashFails, Sending
  <2>c. ASSUME ok PROVE Sending'
    <3> DEFINE n == sent + TxBytes
    <3>1. /\ n \in Nat /\ n <= Size(rev, stage) /\ pc = "send"
          /\ Size(rev, stage) \in Nat
      BY <1>14, ChunkFacts DEF write_chunk
    <3>2. AfterChunk(n)
      BY <1>14, <2>c DEF write_chunk
    <3> HIDE DEF n
    <3>3. /\ stage \in FlashStages \cup {"cert"}
          /\ rev # "A0" => stage \notin {"mode", "size"}
          /\ goal = "flash" => stage \in FlashStages
          /\ goal = "cert" => stage = "cert"
          /\ goal \in {"flash", "cert"}
      BY <3>1 DEF ControlInv, Script, Sending, FlashStages
    <3>4. CASE Whole(n) /\ Last(stage)
      BY <3>2, <3>4 DEF AfterChunk, Goto, Sending
    <3>5. CASE ~Whole(n) /\ pc' = (IF rev = "C0" THEN "answer" ELSE "check")
      <4>1. sent' = n /\ UNCHANGED <<stage, goal, rev>> /\ n < Size(rev, stage)
        BY <3>1, <3>2, <3>5 DEF AfterChunk, Goto, Whole
      <4> QED BY <3>1, <3>3, <3>5, <4>1 DEF Sending
    <3>6. CASE Whole(n) /\ ~Last(stage) /\ rev = "C0"
      <4>1. sent' = n /\ pc' = "answer" /\ UNCHANGED <<stage, goal, rev>>
        BY <3>2, <3>6 DEF AfterChunk, Goto
      <4> QED BY <3>1, <3>3, <3>6, <4>1 DEF Sending
    <3>7. CASE Whole(n) /\ ~Last(stage) /\ rev # "C0"
      <4>1. /\ sent' = 0 /\ pc' = "check" /\ UNCHANGED <<goal, rev>>
            /\ stage' = NextStage(rev, stage)
        BY <3>2, <3>7 DEF AfterChunk, Goto
      <4>2. /\ stage' \in FlashStages /\ goal = "flash"
            /\ rev # "A0" => stage' \notin {"mode", "size"}
        BY <1>t, <3>3, <3>7, <4>1, NextStageFacts DEF FlashStages, Last, Revs
      <4>3. 0 < Size(rev, stage')
        BY <1>t, <4>2, SizeOfStage DEF AllStages, Revs
      <4> QED BY <4>1, <4>2, <4>3 DEF Sending
    <3> QED BY <3>2, <3>4, <3>5, <3>6, <3>7 DEF AfterChunk, Goto
  <2>2. Sending'
    BY <2>0, <2>c
  <2>3. ControlTypes'
    <3>1. stage' \in AllStages
      <4>1. stage' = stage \/ (pc = "send" /\ ~Last(stage) /\ rev # "C0"
                               /\ stage' = NextStage(rev, stage))
        BY <1>14 DEF write_chunk, AfterChunk
      <4> QED BY <1>t, <4>1, NextStageFacts DEF ControlInv, ControlTypes, Script,
                 Sending, AllStages, FlashStages, Last, Revs
    <3> QED BY <1>14, <3>1 DEF write_chunk, AfterChunk, Goto, FlashFails,
               ControlInv, ControlTypes, Pcs
  <2>4. WireTypes'
    <3>1. TxBytes \in Nat
      BY <1>14, ChunkFacts DEF write_chunk
    <3>2. rom_cnt' \in Nat
      BY <1>14, <3>1, DataTypes DEF write_chunk, romVars, ControlInv
    <3>3. flags' \in Flags /\ faults' \in 0..MaxFaults
      BY <1>14, WriteTypes DEF write_chunk, ControlInv
    <3> QED BY <1>14, <3>2, <3>3 DEF write_chunk, ControlInv, WireTypes
  <2> QED BY <2>1, <2>2, <2>3, <2>4 DEF ControlInv
<1>15. ASSUME NEW ok \in BOOLEAN, check_after(ok)
      PROVE  ControlInv'
  <2>1. Script' /\ RevIsKnown'
    BY <1>15 DEF check_after, qmrom_read, Goto, FlashFails, Whole, ControlInv,
       Script, RevIsKnown
  <2>2. Sending'
    <3>1. CASE FlashFails
      BY <3>1 DEF FlashFails, Sending
    <3>2. CASE Goto("send") /\ ~Whole(sent)
      <4>1. /\ pc = "answer" /\ pc' = "send"
            /\ UNCHANGED <<stage, sent, goal, rev>>
        BY <1>15, <3>2 DEF check_after, Goto, FlashFails
      <4>2. sent < Size(rev, stage)
        BY <1>t, <3>2, <4>1, SizeOfStage DEF ControlInv, ControlTypes, Script,
           Sending, Whole, AllStages, FlashStages
      <4> QED BY <4>1, <4>2 DEF ControlInv, Script, Sending
    <3>3. CASE Goto("send") /\ Whole(sent)
      <4>1. /\ pc = "answer" /\ pc' = "send" /\ UNCHANGED <<goal, rev>>
            /\ stage' = NextStage(rev, stage) /\ sent' = 0
        BY <1>15, <3>3 DEF check_after, Goto, FlashFails
      <4>2. /\ goal = "flash" /\ rev = "C0"
            /\ stage \in {"key1", "key2", "crt"}
        BY <1>t, <3>3, <4>1, SizeOfStage DEF ControlInv, ControlTypes, Script,
           Sending, Whole, Last, AllStages, FlashStages
      <4>3. stage' \in {"key2", "crt", "img"}
        BY <1>t, <4>1, <4>2, NextStageFacts DEF Revs
      <4>4. 0 < Size(rev, stage')
        BY <1>t, <4>3, SizeOfStage DEF AllStages, FlashStages, Revs
      <4> QED BY <4>1, <4>2, <4>3, <4>4 DEF Sending, FlashStages
    <3> QED BY <1>15, <3>1, <3>2, <3>3 DEF check_after
  <2>3. ControlTypes'
    <3>1. stage' \in AllStages
      <4>1. \/ pc' = "send" /\ rev' = rev /\ goal' = goal /\ pc = "answer"
            \/ stage' = stage
        BY <1>15 DEF check_after, Goto
      <4> QED BY <2>2, <4>1 DEF Sending, ControlInv, ControlTypes, Script,
                 AllStages
    <3> QED BY <1>15, <3>1 DEF check_after, Goto, FlashFails, ControlInv,
               ControlTypes, Pcs
  <2>4. WireTypes'
    BY <1>15, <1>a, ReadTypes DEF check_after, ControlInv, WireTypes
  <2> QED BY <2>1, <2>2, <2>3, <2>4 DEF ControlInv
<1>16. ASSUME NEW ok \in BOOLEAN, write_dbg_cert(ok)
      PROVE  ControlInv'
  <2>1. Script' /\ RevIsKnown'
    BY <1>16, <1>t DEF write_dbg_cert, Goto, FlashFails, flashVars, ControlInv,
       Script, RevIsKnown
  <2>2. Sending'
    BY <1>16, <2>1 DEF write_dbg_cert, Goto, FlashFails, flashVars, history,
       ControlInv, Script, Sending, Stages
  <2>3. ControlTypes'
    BY <1>16 DEF write_dbg_cert, Goto, FlashFails, flashVars, history,
       ControlInv, ControlTypes, Script, Sending, Stages, Revs, Pcs,
       AllStages, FlashStages
  <2>4. WireTypes'
    BY <1>16, <1>a, CommandTypes, WriteTypes DEF write_dbg_cert, flashVars,
       romVars, history, ControlInv, WireTypes
  <2> QED BY <2>1, <2>2, <2>3, <2>4 DEF ControlInv
<1>17. ASSUME NEW ok \in BOOLEAN, cert_read(ok)
      PROVE  ControlInv'
  <2>1. Script' /\ RevIsKnown'
    BY <1>17 DEF cert_read, Goto, flashVars, ControlInv, Script, RevIsKnown
  <2>2. Sending'
    BY <1>17, <2>1 DEF cert_read, Goto, flashVars, ControlInv, Script,
       Sending, Stages
  <2>3. ControlTypes'
    BY <1>17 DEF cert_read, Goto, flashVars, ControlInv, ControlTypes, Script,
       Sending, Stages, Revs, Pcs, AllStages, FlashStages
  <2>4. WireTypes'
    BY <1>17, <1>a, ReadTypes DEF cert_read, flashVars, ControlInv, WireTypes
  <2> QED BY <2>1, <2>2, <2>3, <2>4 DEF ControlInv
<1>18. ASSUME NEW ok \in BOOLEAN, erase_dbg_cert(ok)
      PROVE  ControlInv'
  <2>1. Script' /\ RevIsKnown'
    BY <1>18 DEF erase_dbg_cert, Goto, FlashFails, flashVars, history,
       ControlInv, Script, RevIsKnown
  <2>2. Sending'
    BY <1>18, <2>1 DEF erase_dbg_cert, Goto, FlashFails, flashVars, history,
       ControlInv, Script, Sending, Stages
  <2>3. ControlTypes'
    BY <1>18 DEF erase_dbg_cert, Goto, FlashFails, flashVars, history,
       ControlInv, ControlTypes, Script, Sending, Stages, Revs, Pcs,
       AllStages, FlashStages
  <2>4. WireTypes'
    BY <1>18, <1>a, CommandTypes, WriteTypes DEF erase_dbg_cert, flashVars,
       romVars, history, ControlInv, WireTypes
  <2> QED BY <2>1, <2>2, <2>3, <2>4 DEF ControlInv
<1>19. ASSUME NEW ok \in BOOLEAN, NEW accept \in BOOLEAN, debug_cert_size(ok, accept)
      PROVE  ControlInv'
  <2>1. Script' /\ RevIsKnown'
    BY <1>19 DEF debug_cert_size, Goto, FlashFails, ControlInv, Script,
       RevIsKnown
  <2>2. Sending'
    BY <1>19, <1>t, <1>s DEF debug_cert_size, Goto, FlashFails, ControlInv,
       Script, Sending
  <2>3. ControlTypes'
    BY <1>19 DEF debug_cert_size, Goto, FlashFails, ControlInv, ControlTypes,
       Script, Sending, Stages, Revs, Pcs, AllStages, FlashStages
  <2>4. WireTypes'
    BY <1>19, <1>a, DataTypes, WriteTypes DEF debug_cert_size, romVars,
       ControlInv, WireTypes
  <2> QED BY <2>1, <2>2, <2>3, <2>4 DEF ControlInv
<1>20. ASSUME NEW g \in {"probe", "flash", "cert", "erase"}, rom_file(g)
      PROVE  ControlInv'
  <2>1. Script' /\ RevIsKnown'
    BY <1>20 DEF rom_file, hostVars, ControlInv, Script, RevIsKnown
  <2>2. Sending'
    BY <1>20, <2>1 DEF rom_file, hostVars, ControlInv, Script, Sending, Stages
  <2>3. ControlTypes'
    BY <1>20 DEF rom_file, hostVars, ControlInv, ControlTypes, Script,
       Sending, Stages, Revs, Pcs, AllStages, FlashStages
  <2>4. WireTypes'
    BY <1>20, <1>a DEF rom_file, hostVars, romVars, ControlInv, WireTypes
  <2> QED BY <2>1, <2>2, <2>3, <2>4 DEF ControlInv
<1>21. CASE cert_check
  <2>1. Script' /\ RevIsKnown'
    BY <1>21 DEF cert_check, hostVars, flashVars, history, ControlInv, Script,
       RevIsKnown
  <2>2. Sending'
    BY <1>21, <1>t, <1>s DEF cert_check, flashVars, ControlInv, Script, Sending
  <2>3. ControlTypes'
    BY <1>21 DEF cert_check, hostVars, flashVars, history, ControlInv,
       ControlTypes, Script, Sending, Stages, Revs, Pcs, AllStages,
       FlashStages
  <2>4. WireTypes'
    BY <1>21, <1>a DEF cert_check, hostVars, flashVars, romVars, history,
       ControlInv, WireTypes
  <2> QED BY <2>1, <2>2, <2>3, <2>4 DEF ControlInv
<1>22. CASE wait_ready_begin
  <2>1. Script' /\ RevIsKnown'
    BY <1>22 DEF wait_ready_begin, Goto, flashVars, history, ControlInv,
       Script, RevIsKnown
  <2>2. Sending'
    BY <1>22, <2>1 DEF wait_ready_begin, Goto, flashVars, history, ControlInv,
       Script, Sending, Stages
  <2>3. ControlTypes'
    BY <1>22 DEF wait_ready_begin, Goto, flashVars, history, ControlInv,
       ControlTypes, Script, Sending, Stages, Revs, Pcs, AllStages,
       FlashStages
  <2>4. WireTypes'
    BY <1>22, <1>a, PollTypes DEF wait_ready_begin, flashVars, romVars,
       history, ControlInv, WireTypes
  <2> QED BY <2>1, <2>2, <2>3, <2>4 DEF ControlInv
<1>23. CASE wait_ready_end
  <2>1. Script' /\ RevIsKnown'
    <3>2. CASE Goto(AfterReady)
      <4>1. /\ pc = "wait" /\ pc' = AfterReady
            /\ UNCHANGED <<goal, rev, rc, chip, stage, sent>>
        BY <1>23, <3>2 DEF wait_ready_end, Goto, flashVars
      <4> QED BY <4>1, AfterReadyFacts DEF ControlInv, Script, RevIsKnown
    <3>3. CASE Fails
      BY <1>23, <1>t, <3>3 DEF wait_ready_end, Fails, ProbeNext, FlashFails,
         Goto,
         flashVars, ControlInv, Script, RevIsKnown
    <3> QED BY <1>23, <3>2, <3>3 DEF wait_ready_end
  <2>2. Sending'
    <3>2. CASE Goto(AfterReady)
      <4>1. /\ pc = "wait" /\ pc' = AfterReady
            /\ UNCHANGED <<goal, rev, rc, chip, stage, sent>>
        BY <1>23, <3>2 DEF wait_ready_end, Goto, flashVars
      <4> QED BY <1>s, <4>1, AfterReadyFacts DEF ControlInv, Sending, FlashStages
    <3>3. CASE Fails
      BY <1>23, <1>t, <3>3 DEF wait_ready_end, Fails, ProbeNext, FlashFails,
         Goto,
         flashVars, ControlInv, Script, Sending
    <3> QED BY <1>23, <3>2, <3>3 DEF wait_ready_end
  <2>3. ControlTypes'
    BY <1>23 DEF wait_ready_end, Goto, Fails, ProbeNext, FlashFails,
       AfterReady, hostVars, flashVars, history, ControlInv, ControlTypes,
       Script, Sending, Stages, Revs, Pcs, AllStages, FlashStages
  <2>4. WireTypes'
    BY <1>23, <1>a DEF wait_ready_end, hostVars, flashVars, romVars, history,
       ControlInv, WireTypes
  <2> QED BY <2>1, <2>2, <2>3, <2>4 DEF ControlInv
<1>24. CASE wait_ready_poll
  <2>1. Script' /\ RevIsKnown'
    BY <1>24 DEF wait_ready_poll, flashVars, history, ControlInv, Script,
       RevIsKnown
  <2>2. Sending'
    BY <1>24, <2>1 DEF wait_ready_poll, flashVars, history, ControlInv,
       Script, Sending, Stages
  <2>3. ControlTypes'
    BY <1>24 DEF wait_ready_poll, flashVars, history, ControlInv,
       ControlTypes, Script, Sending, Stages, Revs, Pcs, AllStages,
       FlashStages
  <2>4. WireTypes'
    BY <1>24, <1>a, PollTypes DEF wait_ready_poll, flashVars, romVars,
       history, ControlInv, WireTypes
  <2> QED BY <2>1, <2>2, <2>3, <2>4 DEF ControlInv
<1>25. CASE wait_ready_pre_read
  <2>1. Script' /\ RevIsKnown'
    BY <1>25 DEF wait_ready_pre_read, flashVars, history, ControlInv, Script,
       RevIsKnown
  <2>2. Sending'
    BY <1>25, <2>1 DEF wait_ready_pre_read, flashVars, history, ControlInv,
       Script, Sending, Stages
  <2>3. ControlTypes'
    BY <1>25 DEF wait_ready_pre_read, flashVars, history, ControlInv,
       ControlTypes, Script, Sending, Stages, Revs, Pcs, AllStages,
       FlashStages
  <2>4. WireTypes'
    BY <1>25, <1>a DEF wait_ready_pre_read, flashVars, romVars, history,
       ControlInv, WireTypes, Flags
  <2> QED BY <2>1, <2>2, <2>3, <2>4 DEF ControlInv
<1>26. CASE wrong_endianness
  <2>1. Script' /\ RevIsKnown'
    BY <1>26 DEF wrong_endianness, ProbeNext, hostVars, flashVars, history,
       ControlInv, Script, RevIsKnown
  <2>2. Sending'
    BY <1>26, <2>1 DEF wrong_endianness, ProbeNext, hostVars, flashVars,
       history, ControlInv, Script, Sending, Stages
  <2>3. ControlTypes'
    BY <1>26 DEF wrong_endianness, ProbeNext, hostVars, flashVars, history,
       ControlInv, ControlTypes, Script, Sending, Stages, Revs, Pcs,
       AllStages, FlashStages
  <2>4. WireTypes'
    BY <1>26, <1>a DEF wrong_endianness, hostVars, flashVars, romVars,
       history, ControlInv, WireTypes
  <2> QED BY <2>1, <2>2, <2>3, <2>4 DEF ControlInv
<1>27. CASE poll_cmd_resp_begin
  <2>1. Script' /\ RevIsKnown'
    BY <1>27 DEF poll_cmd_resp_begin, Goto, flashVars, history, ControlInv,
       Script, RevIsKnown
  <2>2. Sending'
    BY <1>27, <2>1 DEF poll_cmd_resp_begin, Goto, flashVars, history,
       ControlInv, Script, Sending, Stages
  <2>3. ControlTypes'
    BY <1>27 DEF poll_cmd_resp_begin, Goto, flashVars, history, ControlInv,
       ControlTypes, Script, Sending, Stages, Revs, Pcs, AllStages,
       FlashStages
  <2>4. WireTypes'
    BY <1>27, <1>a, PollTypes DEF poll_cmd_resp_begin, flashVars, romVars,
       history, ControlInv, WireTypes
  <2> QED BY <2>1, <2>2, <2>3, <2>4 DEF ControlInv
<1>28. CASE poll_cmd_resp_again
  <2>1. Script' /\ RevIsKnown'
    BY <1>28 DEF poll_cmd_resp_again, Goto, AfterResp, RespFails, ProbeNext,
       flashVars, ControlInv, Script, RevIsKnown
  <2>2. Sending'
    BY <1>28, <2>1 DEF poll_cmd_resp_again, Goto, AfterResp, RespFails,
       ProbeNext, flashVars, ControlInv, Script, Sending, Stages
  <2>3. ControlTypes'
    BY <1>28 DEF poll_cmd_resp_again, Goto, AfterResp, RespFails, ProbeNext,
       flashVars, ControlInv, ControlTypes, Script, Sending, Stages, Revs,
       Pcs, AllStages, FlashStages
  <2>4. WireTypes'
    <3>1. flags' \in Flags
      BY <1>28, PollTypes DEF poll_cmd_resp_again, ControlInv
    <3>2. tries' \in 0..Retries
      <4>1. tries \in 0..Retries /\ tries' = IF tries > 0 THEN tries - 1 ELSE tries
        BY <1>28 DEF poll_cmd_resp_again, ControlInv, WireTypes
      <4> QED BY <1>a, <4>1
    <3>3. lost' \in BOOLEAN
      BY <1>28 DEF poll_cmd_resp_again, ControlInv, WireTypes
    <3> QED BY <1>28, <3>1, <3>2, <3>3 DEF poll_cmd_resp_again, romVars, ControlInv,
                                    WireTypes
  <2> QED BY <2>1, <2>2, <2>3, <2>4 DEF ControlInv
<1>29. CASE ver_check
  <2>1. Script' /\ RevIsKnown'
    BY <1>29 DEF ver_check, Goto, ProbeNext, hostVars, flashVars, history,
       ControlInv, Script, RevIsKnown
  <2>2. Sending'
    BY <1>29, <2>1 DEF ver_check, Goto, ProbeNext, hostVars, flashVars,
       history, ControlInv, Script, Sending, Stages
  <2>3. ControlTypes'
    BY <1>29 DEF ver_check, Goto, ProbeNext, hostVars, flashVars, history,
       ControlInv, ControlTypes, Script, Sending, Stages, Revs, Pcs,
       AllStages, FlashStages
  <2>4. WireTypes'
    BY <1>29, <1>a DEF ver_check, hostVars, flashVars, romVars, history,
       ControlInv, WireTypes
  <2> QED BY <2>1, <2>2, <2>3, <2>4 DEF ControlInv
<1>30. CASE first_key_check
  <2>1. Script' /\ RevIsKnown'
    BY <1>30 DEF first_key_check, Goto, hostVars, flashVars, ControlInv,
       Script, RevIsKnown
  <2>2. Sending'
    BY <1>30, <1>t, <1>s DEF first_key_check, Goto, flashVars, ControlInv,
       Script,
       Sending, FlashStages
  <2>3. ControlTypes'
    BY <1>30 DEF first_key_check, Goto, hostVars, flashVars, ControlInv,
       ControlTypes, Script, Sending, Stages, Revs, Pcs, AllStages,
       FlashStages
  <2>4. WireTypes'
    BY <1>30, <1>a DEF first_key_check, hostVars, flashVars, romVars,
       ControlInv, WireTypes
  <2> QED BY <2>1, <2>2, <2>3, <2>4 DEF ControlInv
<1>31. CASE qmrom_free
  <2>1. Script' /\ RevIsKnown'
    BY <1>31 DEF qmrom_free, Goto, hostVars, history, ControlInv, Script,
       RevIsKnown
  <2>2. Sending'
    BY <1>31, <2>1 DEF qmrom_free, Goto, hostVars, history, ControlInv,
       Script, Sending, Stages
  <2>3. ControlTypes'
    BY <1>31, ZenonT(60) DEF qmrom_free, Goto, hostVars, history, ControlInv,
       ControlTypes, Script, Sending, Stages, Revs, Pcs, AllStages,
       FlashStages
  <2>4. WireTypes'
    BY <1>31, <1>a DEF qmrom_free, hostVars, romVars, history, ControlInv,
       WireTypes
  <2> QED BY <2>1, <2>2, <2>3, <2>4 DEF ControlInv
<1>32. CASE second_attempt
  <2>1. Script' /\ RevIsKnown'
    BY <1>32 DEF second_attempt, hostVars, history, ControlInv, Script,
       RevIsKnown
  <2>2. Sending'
    BY <1>32, <2>1 DEF second_attempt, hostVars, history, ControlInv, Script,
       Sending, Stages
  <2>3. ControlTypes'
    BY <1>32 DEF second_attempt, hostVars, history, ControlInv, ControlTypes,
       Script, Sending, Stages, Revs, Pcs, AllStages, FlashStages
  <2>4. WireTypes'
    BY <1>32, <1>a DEF second_attempt, hostVars, romVars, history, ControlInv,
       WireTypes
  <2> QED BY <2>1, <2>2, <2>3, <2>4 DEF ControlInv
<1>33. CASE qm_firmware_load
  <2>1. Script' /\ RevIsKnown'
    BY <1>33 DEF qm_firmware_load, ControlInv, Script, RevIsKnown
  <2>2. Sending'
    BY <1>33, <2>1 DEF qm_firmware_load, ControlInv, Script, Sending, Stages
  <2>3. ControlTypes'
    BY <1>33 DEF qm_firmware_load, ControlInv, ControlTypes, Script, Sending,
       Stages, Revs, Pcs, AllStages, FlashStages
  <2>4. WireTypes'
    BY <1>33, <1>a DEF qm_firmware_load, romVars, ControlInv, WireTypes, Flags
  <2> QED BY <2>1, <2>2, <2>3, <2>4 DEF ControlInv
<1>34. CASE UNCHANGED vars
  BY <1>34 DEF vars, hostVars, flashVars, romVars, history, ControlInv,
     ControlTypes, WireTypes, Script, RevIsKnown, Sending
<1> QED
  BY <1>1, <1>2, <1>3, <1>4, <1>5, <1>6, <1>7, <1>8, <1>9, <1>10, <1>11,
     <1>12, <1>13, <1>14, <1>15, <1>16, <1>17, <1>18, <1>19, <1>20, <1>21,
     <1>22, <1>23, <1>24, <1>25, <1>26, <1>27, <1>28, <1>29, <1>30, <1>31,
     <1>32, <1>33, <1>34
  DEF Next, Download

-----------------------------------------------------------------------------
(***************************************************************************)
(* The ROM code, after a reboot that got to its pulse.                     *)
(***************************************************************************)

\* Between that reboot and the command that begins a download.
BeforeLoad ==
  \/ pc \in {"poll", "wait", "ver", "info", "ver_check", "start", "unstitch",
             "lcs", "rram", "rram_read", "load", "cert", "erase"}
  \/ pc \in {"resp_poll", "resp"} /\ goal \in {"ver", "info"}

\* From that command to the last chunk.
AfterLoad ==
  \/ pc \in {"load_check", "check", "send", "answer", "cert_read", "cert_size",
             "cert_check"}
  \/ pc \in {"resp_poll", "resp"} /\ goal \in {"flash", "cert"}

RomIsIdle ==
  fresh /\ BeforeLoad => /\ rom = RomIdle(chip) /\ rom_cnt = 0
                         /\ chip = "A0" => rom_out \in {None, "mode"}

\* As long as every answer was read: the ROM code's answer is the stage that
\* it is in, or an error; and in the stage of the host it has what was sent.
RomIsInStep ==
  fresh /\ AfterLoad /\ ~lost =>
    /\ rom_out \in {None, "err", rom}
    /\ pc # "answer" /\ rom = stage => rom_cnt = sent
    /\ pc = "send" \/ stage = "certsize" => rom = stage
    /\ pc \in {"load_check", "cert_check"} => payload \in {"err", rom}
    /\ pc = "answer" => \/ rom = "error"
                        \/ rom = stage /\ rom_cnt = sent /\ ~Whole(sent)
                        \/ rom = NextStage(rev, stage) /\ rom_cnt = 0 /\ Whole(sent)

RomInv == RomIsIdle /\ RomIsInStep

\* The host no longer talks to the ROM code, or not yet.
LEMMA HostIsAway ==
  ASSUME ~BeforeLoad', ~AfterLoad'
  PROVE  RomInv'
  BY DEF RomInv, RomIsIdle, RomIsInStep

\* The ROM code stays idle while nothing but its answers change.
LEMMA IdleIsKept ==
  ASSUME RomInv, ~BeforeLoad' \/ BeforeLoad, ~AfterLoad', UNCHANGED <<chip, fresh>>,
         rom' = rom, rom_cnt' = rom_cnt,
         chip = "A0" => rom_out' \in {rom_out, None}
  PROVE  RomInv'
  BY DEF RomInv, RomIsIdle, RomIsInStep, RomIdle

\* Commands that begin no download leave the stage of the ROM code alone.
LEMMA CommandKeeps ==
  ASSUME NEW c \in {"ver", "info", "ack"}, RomCommand(c)
  PROVE  /\ rom' = rom /\ rom_cnt' = rom_cnt
         /\ rev # chip => rom_out' = rom_out
  BY DEF RomCommand, romVars

\* A read leaves it alone too, and takes the answer or loses it.
LEMMA ReadKeeps ==
  ASSUME NEW ok \in BOOLEAN, qmrom_read(ok)
  PROVE  rom' = rom /\ rom_cnt' = rom_cnt /\ rom_out' \in {rom_out, None}
  BY DEF qmrom_read

LEMMA ReadFacts ==
  ASSUME ControlInv, NEW ok \in BOOLEAN, qmrom_read(ok)
  PROVE  /\ rom' = rom /\ rom_cnt' = rom_cnt
         /\ ~lost' => /\ ~lost /\ rom_out # None /\ payload' = rom_out
                      /\ rom_out' = None
  BY DEF qmrom_read, ControlInv, WireTypes

LEMMA RomInit == Init => RomInv
  BY DEF Init, RomInv, RomIsIdle, RomIsInStep, BeforeLoad, AfterLoad

LEMMA RomStep ==
  ASSUME ControlInv, RomInv, [Next]_vars
  PROVE  RomInv'
<1>t. rev \in {"A0", "B0", "C0"}
  BY DEF ControlInv, ControlTypes, Revs
<1>1. ASSUME NEW ok \in BOOLEAN, qmrom_init(ok)
      PROVE  RomInv'
  BY <1>1, HostIsAway DEF qmrom_init, BeforeLoad, AfterLoad
<1>2. ASSUME NEW ok \in BOOLEAN, NEW pulse \in BOOLEAN, qmrom_reboot_bootloader(ok, pulse)
      PROVE  RomInv'
  <2>1. ~AfterLoad'
    BY <1>2 DEF qmrom_reboot_bootloader, Goto, Fails, ProbeNext, FlashFails,
       ControlInv, Script, AfterLoad
  <2>2. fresh' => rom' = RomIdle(chip') /\ rom_cnt' = 0
                  /\ (chip' = "A0" => rom_out' \in {None, "mode"})
    BY <1>2 DEF qmrom_reboot_bootloader, flashVars
  <2> QED BY <2>1, <2>2 DEF RomInv, RomIsIdle, RomIsInStep
<1>3. ASSUME NEW ok \in BOOLEAN, wait_ready_read(ok)
      PROVE  RomInv'
  <2>1. /\ pc = "wait" /\ rev # "A0" /\ UNCHANGED <<chip, fresh>>
        /\ Goto("wait") \/ Goto(AfterReady) \/ Fails
    BY <1>3 DEF wait_ready_read
  <2>2. BeforeLoad
    BY <2>1 DEF BeforeLoad
  <2>3. ~AfterLoad'
    <3>1. CASE Goto("wait") \/ Fails
      BY <2>1, <3>1 DEF Goto, Fails, ProbeNext, FlashFails, ControlInv, Script,
         AfterLoad
    <3>2. CASE Goto(AfterReady)
      BY <2>1, <3>2, AfterReadyFacts DEF Goto, AfterLoad
    <3> QED BY <2>1, <3>1, <3>2
  <2>4. /\ rom' = rom /\ rom_cnt' = rom_cnt
        /\ chip = "A0" => rom_out' \in {rom_out, None}
    BY <1>3, ReadKeeps DEF wait_ready_read
  <2> QED BY <2>1, <2>2, <2>3, <2>4, IdleIsKept
<1>4. ASSUME NEW ok \in BOOLEAN, qmrom_write_cmd(ok)
      PROVE  RomInv'
  <2>1. /\ ~BeforeLoad' \/ BeforeLoad
        /\ ~AfterLoad' /\ UNCHANGED <<chip, fresh>>
    BY <1>4 DEF qmrom_write_cmd, ProbeNext, Goto, flashVars, history,
       BeforeLoad, AfterLoad, ControlInv, Script
  <2>2. /\ rom' = rom /\ rom_cnt' = rom_cnt
        /\ chip = "A0" => rom_out' \in {rom_out, None}
    BY <1>4, CommandKeeps DEF qmrom_write_cmd, romVars, ControlInv, Script
  <2> QED BY <2>1, <2>2, IdleIsKept
<1>5. ASSUME NEW ok \in BOOLEAN, qmrom_a0_version(ok)
      PROVE  RomInv'
  <2>1. /\ ~BeforeLoad' \/ BeforeLoad
        /\ ~AfterLoad' /\ UNCHANGED <<chip, fresh>>
    BY <1>5 DEF qmrom_a0_version, Goto, flashVars, BeforeLoad, AfterLoad,
       ControlInv, Script
  <2>2. /\ rom' = rom /\ rom_cnt' = rom_cnt
        /\ chip = "A0" => rom_out' \in {rom_out, None}
    BY <1>5, ReadKeeps DEF qmrom_a0_version
  <2> QED BY <2>1, <2>2, IdleIsKept
<1>6. ASSUME NEW ok \in BOOLEAN, poll_cmd_resp_read(ok)
      PROVE  RomInv'
  <2>1. pc = "resp" /\ UNCHANGED <<chip, fresh, stage, sent>>
    BY <1>6 DEF poll_cmd_resp_read, flashVars
  <2>2. CASE goal \in {"ver", "info"}
    <3>1. BeforeLoad /\ ~AfterLoad'
      BY <1>6, <2>1, <2>2 DEF poll_cmd_resp_read, RespFails, AfterResp, Goto,
         ProbeNext, BeforeLoad, AfterLoad
    <3>2. /\ rom' = rom /\ rom_cnt' = rom_cnt
          /\ chip = "A0" => rom_out' \in {rom_out, None}
      BY <1>6, ReadKeeps DEF poll_cmd_resp_read
    <3> QED BY <2>1, <3>1, <3>2, IdleIsKept
  <2>3. CASE goal \in {"flash", "cert"}
    <3>1. /\ AfterLoad /\ UNCHANGED <<goal, rev>>
          /\ pc' = IF goal = "cert" THEN "cert_check" ELSE "load_check"
      BY <1>6, <2>1, <2>3 DEF poll_cmd_resp_read, RespFails, AfterResp, Goto,
         AfterLoad
    <3>2. /\ rom' = rom /\ rom_cnt' = rom_cnt
          /\ ~lost' => ~lost /\ rom_out # None /\ payload' = rom_out
                       /\ rom_out' = None
      BY <1>6, ReadFacts DEF poll_cmd_resp_read
    <3>3. ~BeforeLoad'
      BY <3>1, <2>3 DEF BeforeLoad
    <3>4. RomIsInStep'
      BY <2>1, <3>1, <3>2 DEF RomInv, RomIsInStep
    <3> QED BY <3>3, <3>4 DEF RomInv, RomIsIdle
  <2> QED BY <2>1, <2>2, <2>3 DEF ControlInv, Script
<1>7. ASSUME NEW ok \in BOOLEAN, qm_firmware_flashing(ok)
      PROVE  RomInv'
  <2>1. /\ ~BeforeLoad' \/ BeforeLoad
        /\ ~AfterLoad' /\ UNCHANGED <<chip, fresh>>
    BY <1>7 DEF qm_firmware_flashing, BeforeLoad, AfterLoad, ControlInv,
       Script
  <2>2. /\ rom' = rom /\ rom_cnt' = rom_cnt
        /\ chip = "A0" => rom_out' \in {rom_out, None}
    BY <1>7 DEF qm_firmware_flashing, romVars
  <2> QED BY <2>1, <2>2, IdleIsKept
<1>8. ASSUME NEW ok \in BOOLEAN, qmrom_unstitch_fw(ok)
      PROVE  RomInv'
  <2>1. /\ ~BeforeLoad' \/ BeforeLoad
        /\ ~AfterLoad' /\ UNCHANGED <<chip, fresh>>
    BY <1>8 DEF qmrom_unstitch_fw, Goto, history, BeforeLoad, AfterLoad,
       ControlInv, Script
  <2>2. /\ rom' = rom /\ rom_cnt' = rom_cnt
        /\ chip = "A0" => rom_out' \in {rom_out, None}
    BY <1>8 DEF qmrom_unstitch_fw, romVars
  <2> QED BY <2>1, <2>2, IdleIsKept
<1>9. ASSUME NEW ok \in BOOLEAN, lcs_check(ok)
      PROVE  RomInv'
  <2>1. /\ ~BeforeLoad' \/ BeforeLoad
        /\ ~AfterLoad' /\ UNCHANGED <<chip, fresh>>
    BY <1>9 DEF lcs_check, Goto, FlashFails, flashVars, history, BeforeLoad,
       AfterLoad, ControlInv, Script
  <2>2. /\ rom' = rom /\ rom_cnt' = rom_cnt
        /\ chip = "A0" => rom_out' \in {rom_out, None}
    BY <1>9 DEF lcs_check, romVars
  <2> QED BY <2>1, <2>2, IdleIsKept
<1>10. ASSUME NEW ok \in BOOLEAN, use_indirect_rram_wr(ok)
      PROVE  RomInv'
  <2>1. /\ ~BeforeLoad' \/ BeforeLoad
        /\ ~AfterLoad' /\ UNCHANGED <<chip, fresh>>
    BY <1>10 DEF use_indirect_rram_wr, Goto, FlashFails, flashVars, history,
       BeforeLoad, AfterLoad, ControlInv, Script
  <2>2. /\ rom' = rom /\ rom_cnt' = rom_cnt
        /\ chip = "A0" => rom_out' \in {rom_out, None}
    BY <1>10, CommandKeeps DEF use_indirect_rram_wr, romVars, ControlInv,
       Script
  <2> QED BY <2>1, <2>2, IdleIsKept
<1>11. ASSUME NEW ok \in BOOLEAN, rram_answer(ok)
      PROVE  RomInv'
  <2>1. /\ ~BeforeLoad' \/ BeforeLoad
        /\ ~AfterLoad' /\ UNCHANGED <<chip, fresh>>
    BY <1>11 DEF rram_answer, Goto, flashVars, BeforeLoad, AfterLoad,
       ControlInv, Script
  <2>2. /\ rom' = rom /\ rom_cnt' = rom_cnt
        /\ chip = "A0" => rom_out' \in {rom_out, None}
    BY <1>11, ReadKeeps DEF rram_answer
  <2> QED BY <2>1, <2>2, IdleIsKept
<1>12. ASSUME NEW ok \in BOOLEAN, sec_load_img(ok)
      PROVE  RomInv'
  <2>1. /\ pc = "load" /\ UNCHANGED <<chip, fresh, lost, stage, sent>>
        /\ RomCommand("load") \/ FlashFails
    BY <1>12 DEF sec_load_img, flashVars, history
  <2>2. CASE FlashFails
    BY <2>2, HostIsAway DEF FlashFails, BeforeLoad, AfterLoad
  <2>3. CASE ~FlashFails
    <3>1. /\ RomCommand("load") /\ UNCHANGED <<goal, rev>>
          /\ pc' \in {"check", "resp_poll"}
      BY <1>12, <2>3 DEF sec_load_img, Goto
    <3>2. rev = chip /\ rev # "A0" /\ stage = "key1" /\ sent = 0 /\ goal = "flash"
      BY <2>1 DEF ControlInv, Script, RevIsKnown, Sending
    <3>3. fresh => rom = "idle"
      BY <2>1, <3>2 DEF RomInv, RomIsIdle, BeforeLoad, RomIdle
    <3>4. fresh => rom' = "key1" /\ rom_out' = "key1" /\ rom_cnt' = 0
      BY <3>1, <3>2, <3>3 DEF RomCommand
    <3>5. ~BeforeLoad'
      BY <3>1, <3>2 DEF BeforeLoad
    <3>6. RomIsInStep'
      BY <2>1, <3>1, <3>2, <3>4 DEF RomIsInStep
    <3> QED BY <3>5, <3>6 DEF RomInv, RomIsIdle
  <2> QED BY <2>2, <2>3
<1>13. ASSUME NEW ok \in BOOLEAN, check_before(ok)
      PROVE  RomInv'
  <2>1. /\ pc = "check" /\ UNCHANGED <<chip, fresh, stage, sent>>
        /\ (payload' = stage /\ Goto("send")) \/ FlashFails
    BY <1>13 DEF check_before, flashVars
  <2>2. CASE FlashFails
    BY <2>2, HostIsAway DEF FlashFails, BeforeLoad, AfterLoad
  <2>3. CASE payload' = stage /\ Goto("send")
    <3>1. AfterLoad /\ ~BeforeLoad' /\ pc' = "send" /\ UNCHANGED <<goal, rev>>
      BY <2>1, <2>3 DEF AfterLoad, BeforeLoad, Goto
    <3>2. stage \in AllStages
      BY DEF ControlInv, ControlTypes
    <3>3. /\ rom' = rom /\ rom_cnt' = rom_cnt
          /\ ~lost' => ~lost /\ rom_out # None /\ payload' = rom_out
                       /\ rom_out' = None
      BY <1>13, ReadFacts DEF check_before
    <3>4. fresh /\ ~lost' => rom = stage /\ rom_cnt = sent
      BY <2>1, <2>3, <3>1, <3>2, <3>3 DEF RomInv, RomIsInStep, AllStages,
         FlashStages
    <3>5. RomIsInStep'
      BY <2>1, <3>1, <3>3, <3>4 DEF RomIsInStep
    <3> QED BY <3>1, <3>5 DEF RomInv, RomIsIdle
  <2> QED BY <2>1, <2>2, <2>3
<1>14. ASSUME NEW ok \in BOOLEAN, NEW accept \in BOOLEAN, write_chunk(ok, accept)
      PROVE  RomInv'
  <2> DEFINE n == sent + TxBytes
  <2>1. /\ pc = "send" /\ UNCHANGED <<chip, fresh, lost>>
        /\ FlashFails \/ (RomData(stage, TxBytes, accept) /\ AfterChunk(n))
    BY <1>14 DEF write_chunk
  <2>2. CASE FlashFails
    BY <2>2, HostIsAway DEF FlashFails, BeforeLoad, AfterLoad
  <2>3. CASE RomData(stage, TxBytes, accept) /\ AfterChunk(n)
    <3>1. CASE pc' = "free"
      BY <3>1, HostIsAway DEF BeforeLoad, AfterLoad
    <3>2. CASE pc' # "free"
      <4>1. /\ AfterLoad /\ ~BeforeLoad' /\ rev = chip /\ UNCHANGED <<goal, rev>>
            /\ pc' = (IF rev = "C0" THEN "answer" ELSE "check")
            /\ ~(Last(stage) /\ Whole(n))
        BY <2>1, <2>3, <3>2 DEF AfterChunk, Goto, AfterLoad, BeforeLoad,
           ControlInv, Script, RevIsKnown
      <4>2. /\ n \in Nat /\ n <= Size(rev, stage) /\ TxBytes \in Nat
            /\ sent \in Nat /\ Size(rev, stage) \in Nat
        BY <2>1, ChunkFacts
      <4>3. fresh /\ ~lost => rom = stage /\ rom_cnt = sent
        BY <2>1, <4>1 DEF RomInv, RomIsInStep
      <4>4. /\ stage \in AllStages \ {"certsize"}
            /\ ~Last(stage) =>
                 /\ NextStage(rev, stage) \in FlashStages
                 /\ NextStage(rev, stage) # stage
        <5>1. /\ stage \in FlashStages \cup {"cert"}
              /\ rev # "A0" => stage \notin {"mode", "size"}
          BY <2>1 DEF ControlInv, Script, Sending, FlashStages
        <5> QED BY <1>t, <5>1, NextStageFacts DEF FlashStages, AllStages, Last,
                   Revs
      <4>5. CASE ~Whole(n)
        <5>1. stage' = stage /\ sent' = n
          BY <2>3, <4>5 DEF AfterChunk
        <5>2. ASSUME fresh, ~lost
              PROVE  \/ rom' = stage /\ rom_cnt' = n /\ rom_out' = stage
                     \/ rom' = "error" /\ rom_out' = "err"
          <6>1. rom_cnt + TxBytes = n /\ n # Size(chip, stage) /\ stage # "full"
            BY <4>1, <4>3, <4>4, <4>5, <5>2 DEF Whole, AllStages, FlashStages
          <6> QED BY <2>3, <4>3, <5>2, <6>1 DEF RomData
        <5>3. RomIsInStep'
          BY <2>1, <4>1, <4>4, <4>5, <5>1, <5>2 DEF RomIsInStep, Whole,
             AllStages,
             FlashStages
        <5> QED BY <4>1, <5>3 DEF RomInv, RomIsIdle
      <4>6. CASE Whole(n)
        <5>0. ~Last(stage)
          BY <4>1, <4>6
        <5>1. IF rev = "C0" THEN stage' = stage /\ sent' = n
                            ELSE stage' = NextStage(rev, stage) /\ sent' = 0
          BY <2>3, <4>6, <5>0 DEF AfterChunk
        <5>2. ASSUME fresh, ~lost
              PROVE  \/ /\ rom' = NextStage(rev, stage) /\ rom_cnt' = 0
                        /\ rom_out' = rom'
                     \/ rom' = "error" /\ rom_out' = "err"
          <6>1. /\ rom_cnt + TxBytes = Size(chip, stage)
                /\ NextStage(chip, stage) # "full"
            BY <4>1, <4>3, <4>4, <4>6, <5>0, <5>2 DEF Whole, FlashStages
          <6> QED BY <2>3, <4>1, <4>3, <5>2, <6>1 DEF RomData
        <5>3. RomIsInStep'
          <6>1. CASE rev = "C0"
            BY <2>1, <4>1, <4>4, <4>6, <5>1, <5>2, <6>1 DEF RomIsInStep, Whole,
               AllStages, FlashStages
          <6>2. CASE rev # "C0"
            BY <2>1, <4>1, <4>4, <5>0, <5>1, <5>2, <6>2 DEF RomIsInStep,
               FlashStages
          <6> QED BY <6>1, <6>2
        <5> QED BY <4>1, <5>3 DEF RomInv, RomIsIdle
      <4> QED BY <4>5, <4>6
    <3> QED BY <3>1, <3>2
  <2> QED BY <2>1, <2>2, <2>3
<1>15. ASSUME NEW ok \in BOOLEAN, check_after(ok)
      PROVE  RomInv'
  <2>1. /\ pc = "answer" /\ UNCHANGED <<chip, fresh>>
        /\ FlashFails \/ (payload' = Expected(stage) /\ Goto("send"))
    BY <1>15 DEF check_after
  <2>2. CASE FlashFails
    BY <2>2, HostIsAway DEF FlashFails, BeforeLoad, AfterLoad
  <2>3. CASE ~FlashFails
    <3>1. /\ AfterLoad /\ ~BeforeLoad' /\ UNCHANGED <<goal, rev>> /\ pc' = "send"
          /\ payload' = Expected(stage)
          /\ IF Whole(sent) THEN stage' = NextStage(rev, stage) /\ sent' = 0
                            ELSE UNCHANGED <<stage, sent>>
      BY <1>15, <2>1, <2>3 DEF check_after, Goto, AfterLoad, BeforeLoad
    <3>2. /\ rom' = rom /\ rom_cnt' = rom_cnt
          /\ ~lost' => ~lost /\ rom_out # None /\ payload' = rom_out
                       /\ rom_out' = None
      BY <1>15, ReadFacts DEF check_after
    <3>3. /\ Last(stage) => ~Whole(sent) /\ stage \in {"img", "cert"}
          /\ ~Last(stage) => NextStage(rev, stage) \in FlashStages
                             /\ NextStage(rev, stage) # stage
          /\ stage \in FlashStages \cup {"cert"}
      <4>1. /\ stage \in FlashStages \cup {"cert"}
            /\ rev = "C0" /\ stage \notin {"mode", "size"}
            /\ Last(stage) => sent < Size(rev, stage)
            /\ sent \in Nat
        BY <2>1 DEF ControlInv, Script, Sending, FlashStages
      <4>2. Size(rev, stage) \in Nat
        BY <1>t, <4>1, SizeOfStage DEF AllStages, Revs
      <4>3. Last(stage) => ~Whole(sent)
        BY <4>1, <4>2 DEF Whole
      <4> QED BY <1>t, <4>1, <4>3, NextStageFacts DEF FlashStages, Last, Revs
    <3>4. ASSUME fresh, ~lost'
          PROVE  rom = stage' /\ rom_cnt = sent'
      <4>1. /\ \/ rom = "error"
               \/ rom = stage /\ rom_cnt = sent /\ ~Whole(sent)
               \/ rom = NextStage(rev, stage) /\ rom_cnt = 0 /\ Whole(sent)
            /\ payload' \in {"err", rom}
        BY <2>1, <3>1, <3>2, <3>4 DEF RomInv, RomIsInStep
      <4>2. rom = Expected(stage)
        BY <3>1, <3>3, <4>1 DEF Expected, FlashStages
      <4>3. CASE Last(stage)
        BY <3>1, <3>3, <4>1, <4>2, <4>3 DEF Expected
      <4>4. CASE ~Last(stage)
        BY <3>1, <3>3, <4>1, <4>2, <4>4 DEF Expected, FlashStages
      <4> QED BY <4>3, <4>4
    <3>5. RomIsInStep'
      BY <2>1, <3>1, <3>2, <3>4 DEF RomIsInStep
    <3> QED BY <3>1, <3>5 DEF RomInv, RomIsIdle
  <2> QED BY <2>2, <2>3
<1>16. ASSUME NEW ok \in BOOLEAN, write_dbg_cert(ok)
      PROVE  RomInv'
  <2>1. /\ pc = "cert" /\ UNCHANGED <<chip, fresh, lost, stage, sent>>
        /\ RomCommand("cert") \/ FlashFails
    BY <1>16 DEF write_dbg_cert, flashVars, history
  <2>2. CASE FlashFails
    BY <2>2, HostIsAway DEF FlashFails, BeforeLoad, AfterLoad
  <2>3. CASE ~FlashFails
    <3>1. /\ RomCommand("cert") /\ UNCHANGED <<goal, rev>>
          /\ pc' \in {"cert_read", "resp_poll"}
      BY <1>16, <2>3 DEF write_dbg_cert, Goto
    <3>2. rev = chip /\ rev # "A0" /\ stage = "certsize" /\ sent = 0 /\ goal = "cert"
      BY <2>1 DEF ControlInv, Script, RevIsKnown, Sending
    <3>3. fresh => rom = "idle"
      BY <2>1, <3>2 DEF RomInv, RomIsIdle, BeforeLoad, RomIdle
    <3>4. fresh => rom' = "certsize" /\ rom_out' = "certsize" /\ rom_cnt' = 0
      BY <3>1, <3>2, <3>3 DEF RomCommand
    <3>5. ~BeforeLoad'
      BY <3>1, <3>2 DEF BeforeLoad
    <3>6. RomIsInStep'
      BY <2>1, <3>1, <3>2, <3>4 DEF RomIsInStep
    <3> QED BY <3>5, <3>6 DEF RomInv, RomIsIdle
  <2> QED BY <2>2, <2>3
<1>17. ASSUME NEW ok \in BOOLEAN, cert_read(ok)
      PROVE  RomInv'
  <2>1. /\ pc = "cert_read" /\ pc' = "cert_size"
        /\ UNCHANGED <<chip, fresh, stage, sent, goal, rev>>
    BY <1>17 DEF cert_read, Goto, flashVars
  <2>2. /\ rom' = rom /\ rom_cnt' = rom_cnt
        /\ ~lost' => ~lost /\ rom_out' = None
    BY <1>17, ReadFacts DEF cert_read
  <2>3. AfterLoad /\ ~BeforeLoad'
    BY <2>1 DEF AfterLoad, BeforeLoad
  <2>4. RomIsInStep'
    BY <2>1, <2>2, <2>3 DEF RomInv, RomIsInStep
  <2> QED BY <2>3, <2>4 DEF RomInv, RomIsIdle
<1>18. ASSUME NEW ok \in BOOLEAN, erase_dbg_cert(ok)
      PROVE  RomInv'
  BY <1>18, HostIsAway DEF erase_dbg_cert, Goto, FlashFails, BeforeLoad,
     AfterLoad
<1>19. ASSUME NEW ok \in BOOLEAN, NEW accept \in BOOLEAN, debug_cert_size(ok, accept)
      PROVE  RomInv'
  <2>1. /\ pc = "cert_size" /\ UNCHANGED <<chip, fresh, lost, sent>>
        /\ RomData(stage, 1, accept) \/ (~ok /\ UNCHANGED romVars)
        /\ FlashFails \/ (stage' = "cert" /\ pc' \in {"resp_poll", "check"}
                          /\ UNCHANGED <<goal, rev>> /\ (rev = "C0" \/ ok))
    BY <1>19 DEF debug_cert_size, Goto
  <2>2. CASE FlashFails
    BY <2>2, HostIsAway DEF FlashFails, BeforeLoad, AfterLoad
  <2>3. CASE ~FlashFails
    <3>1. /\ AfterLoad /\ ~BeforeLoad' /\ goal = "cert" /\ rev = chip
          /\ stage = "certsize" /\ sent = 0
      BY <2>1, <2>3 DEF AfterLoad, BeforeLoad, ControlInv, Script, RevIsKnown,
         Sending
    <3>2. fresh /\ ~lost => rom = "certsize" /\ rom_cnt = 0
                            /\ rom_out \in {None, "err", rom}
      BY <2>1, <3>1 DEF RomInv, RomIsInStep
    <3>3. Size(chip, "certsize") = 1 /\ NextStage(chip, "certsize") = "cert"
      BY SizeOfStage, NextStageFacts DEF ControlInv, ControlTypes, AllStages
    <3>4. ASSUME fresh, ~lost
          PROVE  /\ rom_out' \in {None, "err", rom'}
                 /\ rom' = "cert" => rom_cnt' = 0
      <4>1. CASE RomData(stage, 1, accept)
        BY <3>1, <3>2, <3>3, <3>4, <4>1 DEF RomData
      <4>2. CASE UNCHANGED romVars
        BY <3>2, <3>4, <4>2 DEF romVars
      <4> QED BY <2>1, <4>1, <4>2
    <3>5. RomIsInStep'
      BY <2>1, <2>3, <3>1, <3>4 DEF RomIsInStep
    <3> QED BY <3>1, <3>5 DEF RomInv, RomIsIdle
  <2> QED BY <2>2, <2>3
<1>20. ASSUME NEW g \in {"probe", "flash", "cert", "erase"}, rom_file(g)
      PROVE  RomInv'
  <2>1. /\ ~BeforeLoad' \/ BeforeLoad
        /\ ~AfterLoad' /\ UNCHANGED <<chip, fresh>>
    BY <1>20 DEF rom_file, BeforeLoad, AfterLoad, ControlInv, Script
  <2>2. /\ rom' = rom /\ rom_cnt' = rom_cnt
        /\ chip = "A0" => rom_out' \in {rom_out, None}
    BY <1>20 DEF rom_file, romVars
  <2> QED BY <2>1, <2>2, IdleIsKept
<1>21. CASE cert_check
  <2>1. /\ pc = "cert_check" /\ pc' \in {"free", "cert_size", "send"}
        /\ UNCHANGED <<chip, fresh, lost, stage, sent, goal, rev, payload, romVars>>
        /\ pc' # "free" => payload = stage
    BY <1>21 DEF cert_check, flashVars, hostVars, history
  <2>2. CASE pc' = "free"
    BY <2>2, HostIsAway DEF BeforeLoad, AfterLoad
  <2>3. CASE pc' # "free"
    <3>1. AfterLoad /\ ~BeforeLoad'
      BY <2>1, <2>3 DEF AfterLoad, BeforeLoad
    <3>2. stage \in {"certsize", "cert"}
      BY <2>1 DEF ControlInv, Script, Sending
    <3>3. RomIsInStep'
      BY <2>1, <2>3, <3>1, <3>2 DEF RomInv, RomIsInStep, romVars
    <3> QED BY <3>1, <3>3 DEF RomInv, RomIsIdle
  <2> QED BY <2>1, <2>2, <2>3
<1>22. CASE wait_ready_begin
  <2>1. /\ ~BeforeLoad' \/ BeforeLoad
        /\ ~AfterLoad' /\ UNCHANGED <<chip, fresh>>
    BY <1>22 DEF wait_ready_begin, Goto, flashVars, history, BeforeLoad,
       AfterLoad, ControlInv, Script
  <2>2. /\ rom' = rom /\ rom_cnt' = rom_cnt
        /\ chip = "A0" => rom_out' \in {rom_out, None}
    BY <1>22 DEF wait_ready_begin, romVars
  <2> QED BY <2>1, <2>2, IdleIsKept
<1>23. CASE wait_ready_end
  <2>1. /\ pc = "wait" /\ UNCHANGED <<chip, fresh, lost, stage, sent, romVars>>
        /\ Goto(AfterReady) \/ Fails
    BY <1>23 DEF wait_ready_end, flashVars, history
  <2>2. BeforeLoad
    BY <2>1 DEF BeforeLoad
  <2>3. CASE Fails \/ (Goto(AfterReady) /\ AfterReady # "check")
    <3>1. ~AfterLoad'
      <4>1. CASE Fails
        BY <2>1, <4>1 DEF Fails, Goto, ProbeNext, FlashFails, ControlInv,
           Script,
           AfterLoad
      <4>2. CASE Goto(AfterReady) /\ AfterReady # "check"
        BY <2>1, <4>2, AfterReadyFacts DEF Goto, AfterLoad
      <4> QED BY <2>3, <4>1, <4>2
    <3> QED BY <2>1, <2>2, <3>1, IdleIsKept DEF romVars
  <2>4. CASE Goto(AfterReady) /\ AfterReady = "check"
    <3>1. pc' = "check" /\ UNCHANGED <<goal, rev>>
      BY <2>4 DEF Goto
    <3>2. goal = "flash" /\ rev = "A0"
      BY <2>1, <2>4, AfterReadyFacts
    <3>3. chip = "A0" /\ stage = "mode" /\ sent = 0
      BY <2>1, <3>2 DEF ControlInv, RevIsKnown, Sending
    <3>4. fresh => rom = "mode" /\ rom_cnt = 0 /\ rom_out \in {None, "mode"}
      BY <2>2, <3>3 DEF RomInv, RomIsIdle, RomIdle
    <3>5. RomIsInStep'
      BY <2>1, <3>1, <3>3, <3>4 DEF RomIsInStep, romVars
    <3>6. ~BeforeLoad'
      BY <3>1 DEF BeforeLoad
    <3> QED BY <3>5, <3>6 DEF RomInv, RomIsIdle
  <2> QED BY <2>1, <2>3, <2>4
<1>24. CASE wait_ready_poll
  <2>1. /\ ~BeforeLoad' \/ BeforeLoad
        /\ ~AfterLoad' /\ UNCHANGED <<chip, fresh>>
    BY <1>24 DEF wait_ready_poll, flashVars, history, BeforeLoad, AfterLoad,
       ControlInv, Script
  <2>2. /\ rom' = rom /\ rom_cnt' = rom_cnt
        /\ chip = "A0" => rom_out' \in {rom_out, None}
    BY <1>24 DEF wait_ready_poll, romVars
  <2> QED BY <2>1, <2>2, IdleIsKept
<1>25. CASE wait_ready_pre_read
  <2>1. /\ ~BeforeLoad' \/ BeforeLoad
        /\ ~AfterLoad' /\ UNCHANGED <<chip, fresh>>
    BY <1>25 DEF wait_ready_pre_read, flashVars, history, BeforeLoad,
       AfterLoad, ControlInv, Script
  <2>2. /\ rom' = rom /\ rom_cnt' = rom_cnt
        /\ chip = "A0" => rom_out' \in {rom_out, None}
    BY <1>25 DEF wait_ready_pre_read, romVars
  <2> QED BY <2>1, <2>2, IdleIsKept
<1>26. CASE wrong_endianness
  <2>1. /\ ~BeforeLoad' \/ BeforeLoad
        /\ ~AfterLoad' /\ UNCHANGED <<chip, fresh>>
    BY <1>26 DEF wrong_endianness, ProbeNext, flashVars, history, BeforeLoad,
       AfterLoad, ControlInv, Script
  <2>2. /\ rom' = rom /\ rom_cnt' = rom_cnt
        /\ chip = "A0" => rom_out' \in {rom_out, None}
    BY <1>26 DEF wrong_endianness, romVars
  <2> QED BY <2>1, <2>2, IdleIsKept
<1>27. CASE poll_cmd_resp_begin
  <2>1. /\ pc = "resp_poll" /\ pc' = "resp"
        /\ UNCHANGED <<chip, fresh, lost, goal, rev, stage, sent, romVars>>
    BY <1>27 DEF poll_cmd_resp_begin, Goto, flashVars, history
  <2> QED BY <2>1 DEF RomInv, RomIsIdle, RomIsInStep, BeforeLoad, AfterLoad,
             romVars
<1>28. CASE poll_cmd_resp_again
  <2>1. /\ pc = "resp" /\ UNCHANGED <<chip, fresh, stage, sent, romVars>>
    BY <1>28 DEF poll_cmd_resp_again, flashVars
  <2>2. CASE pc' = "resp" /\ UNCHANGED <<lost, goal>>
    BY <2>1, <2>2 DEF RomInv, RomIsIdle, RomIsInStep, BeforeLoad, AfterLoad,
       romVars
  <2>3. CASE RespFails /\ lost' = TRUE
    <3>1. goal \in {"flash", "cert"} => ~BeforeLoad'
      BY <2>3 DEF RespFails, Goto, AfterResp, BeforeLoad
    <3>2. goal \in {"ver", "info"} => BeforeLoad
      BY <2>1 DEF BeforeLoad
    <3>3. goal \in {"ver", "info", "flash", "cert"}
      BY <2>1 DEF ControlInv, Script
    <3>4. RomIsIdle'
      BY <2>1, <3>1, <3>2, <3>3 DEF RomInv, RomIsIdle, romVars
    <3> QED BY <2>3, <3>4 DEF RomInv, RomIsInStep
  <2> QED BY <1>28, <2>2, <2>3 DEF poll_cmd_resp_again, Goto
<1>29. CASE ver_check
  <2>1. /\ ~BeforeLoad' \/ BeforeLoad
        /\ ~AfterLoad' /\ UNCHANGED <<chip, fresh>>
    BY <1>29 DEF ver_check, ProbeNext, Goto, flashVars, history, BeforeLoad,
       AfterLoad, ControlInv, Script
  <2>2. /\ rom' = rom /\ rom_cnt' = rom_cnt
        /\ chip = "A0" => rom_out' \in {rom_out, None}
    BY <1>29 DEF ver_check, romVars
  <2> QED BY <2>1, <2>2, IdleIsKept
<1>30. CASE first_key_check
  <2>1. /\ pc = "load_check" /\ pc' \in {"send", "free"}
        /\ UNCHANGED <<chip, fresh, lost, stage, sent, goal, rev, payload, romVars>>
        /\ pc' = "send" => payload = "key1"
    BY <1>30 DEF first_key_check, Goto, flashVars, hostVars
  <2>2. CASE pc' = "free"
    BY <2>2, HostIsAway DEF BeforeLoad, AfterLoad
  <2>3. CASE pc' = "send"
    <3>1. AfterLoad /\ ~BeforeLoad'
      BY <2>1, <2>3 DEF AfterLoad, BeforeLoad
    <3>2. stage = "key1"
      BY <2>1 DEF ControlInv, Script, Sending
    <3>3. RomIsInStep'
      BY <2>1, <2>3, <3>1, <3>2 DEF RomInv, RomIsInStep, romVars
    <3> QED BY <3>1, <3>3 DEF RomInv, RomIsIdle
  <2> QED BY <2>1, <2>2, <2>3
<1>31. CASE qmrom_free
  BY <1>31, HostIsAway DEF qmrom_free, Goto, BeforeLoad, AfterLoad
<1>32. CASE second_attempt
  BY <1>32, HostIsAway DEF second_attempt, BeforeLoad, AfterLoad, ControlInv,
     Script
<1>33. CASE qm_firmware_load
  BY <1>33, HostIsAway DEF qm_firmware_load, BeforeLoad, AfterLoad
<1>34. CASE UNCHANGED vars
  BY <1>34 DEF vars, hostVars, flashVars, romVars, history, RomInv, RomIsIdle,
     RomIsInStep, BeforeLoad, AfterLoad, Whole
<1> QED
  BY <1>1, <1>2, <1>3, <1>4, <1>5, <1>6, <1>7, <1>8, <1>9, <1>10, <1>11,
     <1>12, <1>13, <1>14, <1>15, <1>16, <1>17, <1>18, <1>19, <1>20, <1>21,
     <1>22, <1>23, <1>24, <1>25, <1>26, <1>27, <1>28, <1>29, <1>30, <1>31,
     <1>32, <1>33, <1>34
  DEF Next, Download

-----------------------------------------------------------------------------
(***************************************************************************)
(* The data that was sent, also when answers were lost.                    *)
(***************************************************************************)

\* The firmware up to stage s, and the first n bytes of a stage.
Before(r, s) ==
  LET mode == IF r = "A0" THEN Bytes(r, "mode") ELSE <<>>
      crt  == mode \o Bytes(r, "key1") \o Bytes(r, "key2")
      size == crt \o Bytes(r, "crt")
  IN  CASE s = "mode" -> <<>>
        [] s = "key1" -> mode
        [] s = "key2" -> mode \o Bytes(r, "key1")
        [] s = "crt"  -> crt
        [] s = "size" -> size
        [] s = "img"  -> size \o (IF r = "A0" THEN Bytes(r, "size") ELSE <<>>)

FirstBytes(s, n) == [j \in 1..n |-> <<s, j>>]

StreamInv ==
  /\ fresh /\ BeforeLoad => stream = <<>>
  /\ fresh /\ AfterLoad /\ goal = "flash" =>
       stream = Before(rev, stage) \o FirstBytes(stage, sent)
  /\ pc \in {"free", "end"} /\ goal = "flash" /\ rc = "ok" /\ ~refused /\ fresh
       => stream = Firmware(chip)

\* Sequences of bytes.
Data == Seq(AllStages \X Nat)

LEMMA FirstBytesFacts ==
  ASSUME NEW s \in AllStages, NEW n \in Nat
  PROVE  /\ FirstBytes(s, n) \in Data /\ Len(FirstBytes(s, n)) = n
         /\ \A j \in 1..n : FirstBytes(s, n)[j] = <<s, j>>
         /\ FirstBytes(s, 0) = <<>>
<1>1. \A j \in 1..n : <<s, j>> \in AllStages \X Nat
  OBVIOUS
<1>2. FirstBytes(s, n) \in Data
  BY <1>1, IsASeq DEF FirstBytes, Data
<1>3. Len(FirstBytes(s, n)) = n
  BY <1>2, LenProperties DEF FirstBytes, Data
<1>4. FirstBytes(s, 0) = <<>>
  BY DEF FirstBytes
<1> QED BY <1>2, <1>3, <1>4 DEF FirstBytes

\* A chunk continues the bytes before it.
LEMMA FirstBytesGrow ==
  ASSUME NEW s \in AllStages, NEW n \in Nat, NEW m \in Nat
  PROVE  /\ [i \in 1..m |-> <<s, n + i>>] \in Data
         /\ FirstBytes(s, n) \o [i \in 1..m |-> <<s, n + i>>]
              = FirstBytes(s, n + m)
<1> DEFINE chunk == [i \in 1..m |-> <<s, n + i>>]
<1>1. chunk \in Data /\ Len(chunk) = m
  <2>1. \A i \in 1..m : <<s, n + i>> \in AllStages \X Nat
    OBVIOUS
  <2>2. chunk \in Data
    BY <2>1, IsASeq DEF Data
  <2> QED BY <2>2, LenProperties DEF Data
<1>2. \A i \in 1..m : chunk[i] = <<s, n + i>>
  OBVIOUS
<1> HIDE DEF chunk
<1>3. /\ FirstBytes(s, n) \o chunk \in Data
      /\ Len(FirstBytes(s, n) \o chunk) = n + m
      /\ \A i \in 1..(n + m) : (FirstBytes(s, n) \o chunk)[i] =
           IF i <= n THEN FirstBytes(s, n)[i] ELSE chunk[i - n]
  <2>1. FirstBytes(s, n) \in Data /\ Len(FirstBytes(s, n)) = n
    BY FirstBytesFacts
  <2> DEFINE first == FirstBytes(s, n)
  <2> HIDE DEF first
  <2>2. first \in Data /\ Len(first) = n
    BY <2>1 DEF first
  <2>3. /\ first \o chunk \in Data
        /\ Len(first \o chunk) = Len(first) + Len(chunk)
        /\ \A i \in 1 .. Len(first) + Len(chunk) : (first \o chunk)[i] =
             IF i <= Len(first) THEN first[i] ELSE chunk[i - Len(first)]
    BY <1>1, <2>2, ConcatProperties DEF Data
  <2> QED BY <1>1, <2>2, <2>3 DEF first
<1>4. \A i \in 1..(n + m) : (FirstBytes(s, n) \o chunk)[i] = <<s, i>>
  <2> TAKE i \in 1..(n + m)
  <2>1. CASE i <= n
    BY <1>3, <2>1, FirstBytesFacts
  <2>2. CASE ~(i <= n)
    <3>1. i - n \in 1..m /\ n + (i - n) = i
      BY <2>2
    <3>2. chunk[i - n] = <<s, n + (i - n)>>
      BY <1>2, <3>1
    <3>3. (FirstBytes(s, n) \o chunk)[i] = chunk[i - n]
      BY <1>3, <2>2
    <3> QED BY <3>1, <3>2, <3>3
  <2> QED BY <2>1, <2>2
<1>5. /\ FirstBytes(s, n + m) \in Data /\ Len(FirstBytes(s, n + m)) = n + m
      /\ \A i \in 1..(n + m) : FirstBytes(s, n + m)[i] = <<s, i>>
  BY FirstBytesFacts
<1>6. FirstBytes(s, n) \o chunk = FirstBytes(s, n + m)
  BY <1>3, <1>4, <1>5, SeqEqual DEF Data
<1> QED BY <1>1, <1>6 DEF chunk

\* What was sent before a stage is a sequence of bytes.
LEMMA BeforeIsData ==
  ASSUME NEW r \in Revs, NEW s \in FlashStages
  PROVE  Before(r, s) \in Data
<1>0. <<>> \in Data
  BY EmptySeq DEF Data
<1>1. \A t \in AllStages : (r # "A0" => t \notin {"mode", "size"})
         => Bytes(r, t) \in Data
  BY FirstBytesFacts, SizeOfStage DEF Bytes, FirstBytes
<1>2. \A a, b \in Data : a \o b \in Data
  BY ConcatProperties DEF Data
<1> DEFINE mode == IF r = "A0" THEN Bytes(r, "mode") ELSE <<>>
           last == IF r = "A0" THEN Bytes(r, "size") ELSE <<>>
<1>3. /\ mode \in Data /\ last \in Data /\ Bytes(r, "key1") \in Data
      /\ Bytes(r, "key2") \in Data /\ Bytes(r, "crt") \in Data
  BY <1>0, <1>1 DEF AllStages, FlashStages
<1> HIDE DEF mode, last
<1>4. mode \o Bytes(r, "key1") \in Data
  BY <1>2, <1>3
<1>5. mode \o Bytes(r, "key1") \o Bytes(r, "key2") \in Data
  BY <1>2, <1>3, <1>4
<1>6. mode \o Bytes(r, "key1") \o Bytes(r, "key2") \o Bytes(r, "crt") \in Data
  BY <1>2, <1>3, <1>5
<1>7. mode \o Bytes(r, "key1") \o Bytes(r, "key2") \o Bytes(r, "crt") \o last
        \in Data
  BY <1>2, <1>3, <1>6
<1> USE DEF mode, last
<1>8. CASE s \in {"mode", "key1", "key2"}
  BY <1>0, <1>3, <1>4, <1>8 DEF Before
<1>9. CASE s \in {"crt", "size", "img"}
  BY <1>5, <1>6, <1>7, <1>9 DEF Before
<1> QED BY <1>8, <1>9 DEF FlashStages

\* The host begins with an empty stream.
LEMMA NothingBefore ==
  ASSUME NEW r \in Revs
  PROVE  /\ r = "A0" => Before(r, "mode") \o FirstBytes("mode", 0) = <<>>
         /\ r # "A0" => Before(r, "key1") \o FirstBytes("key1", 0) = <<>>
<1>1. /\ r = "A0" => Before(r, "mode") = <<>>
      /\ r # "A0" => Before(r, "key1") = <<>>
  BY DEF Before
<1>2. FirstBytes("mode", 0) = <<>> /\ FirstBytes("key1", 0) = <<>>
  BY DEF FirstBytes
<1>3. <<>> \o <<>> = <<>>
  BY EmptySeq, ConcatEmptySeq
<1> QED BY <1>1, <1>2, <1>3

LEMMA ChunkIsAppended ==
  ASSUME NEW r \in Revs, NEW s \in FlashStages, NEW n \in Nat, NEW m \in Nat
  PROVE  (Before(r, s) \o FirstBytes(s, n)) \o [i \in 1..m |-> <<s, n + i>>]
           = Before(r, s) \o FirstBytes(s, n + m)
<1>1. s \in AllStages
  BY DEF AllStages
<1>2. Before(r, s) \in Data /\ FirstBytes(s, n) \in Data
      /\ [i \in 1..m |-> <<s, n + i>>] \in Data
  BY <1>1, BeforeIsData, FirstBytesFacts, FirstBytesGrow
<1>3. \A a, b, c \in Data : (a \o b) \o c = a \o (b \o c)
  <2> DEFINE S == AllStages \X Nat
  <2>1. Data = Seq(S)
    BY DEF Data
  <2> HIDE DEF S
  <2> SUFFICES ASSUME NEW a \in Seq(S), NEW b \in Seq(S), NEW c \in Seq(S)
               PROVE  (a \o b) \o c = a \o (b \o c)
    BY <2>1, SMTT(20)
  <2> QED BY ConcatAssociative
<1>4. (Before(r, s) \o FirstBytes(s, n)) \o [i \in 1..m |-> <<s, n + i>>]
        = Before(r, s) \o (FirstBytes(s, n) \o [i \in 1..m |-> <<s, n + i>>])
  BY ONLY <1>2, <1>3, SMTT(20)
<1> QED BY <1>1, <1>4, FirstBytesGrow

\* With a whole part sent, the host is at the beginning of the next one.
LEMMA PartIsAppended ==
  ASSUME NEW r \in Revs, NEW s \in FlashStages, s # "img",
         r # "A0" => s \notin {"mode", "size"}
  PROVE  Before(r, s) \o Bytes(r, s)
           = Before(r, NextStage(r, s)) \o FirstBytes(NextStage(r, s), 0)
<1>1. NextStage(r, s) \in FlashStages
  BY NextStageFacts DEF FlashStages
<1>2. /\ Before(r, NextStage(r, s)) \in Data
      /\ FirstBytes(NextStage(r, s), 0) = <<>>
  BY <1>1, BeforeIsData, FirstBytesFacts DEF AllStages
<1>3. Before(r, NextStage(r, s)) \o FirstBytes(NextStage(r, s), 0)
        = Before(r, NextStage(r, s))
  BY <1>2, ConcatEmptySeq DEF Data
<1>4. Before(r, NextStage(r, s)) = Before(r, s) \o Bytes(r, s)
  <2>1. CASE s \in {"key1", "key2"}
    <3>1. /\ Before(r, "key2") = Before(r, "key1") \o Bytes(r, "key1")
          /\ Before(r, "crt") = Before(r, "key2") \o Bytes(r, "key2")
      BY DEF Before
    <3>2. NextStage(r, "key1") = "key2" /\ NextStage(r, "key2") = "crt"
      BY NextStageFacts
    <3>3. CASE s = "key1"
      BY <3>1, <3>2, <3>3
    <3>4. CASE s = "key2"
      BY <3>1, <3>2, <3>4
    <3> QED BY <2>1, <3>3, <3>4
  <2>2. CASE s \in {"mode", "size"}
    <3>1. r = "A0"
      BY <2>2
    <3>2. CASE s = "size"
      BY <3>1, <3>2, NextStageFacts DEF Before
    <3>3. CASE s = "mode"
      <4>1. Bytes(r, "mode") \in Data
        BY <3>1, BeforeIsData DEF Before, FlashStages
      <4>2. <<>> \o Bytes(r, "mode") = Bytes(r, "mode")
        BY <4>1, ConcatEmptySeq DEF Data
      <4>3. NextStage(r, s) = "key1"
        BY <3>1, <3>3, NextStageFacts
      <4>4. Before(r, "key1") = Bytes(r, "mode") /\ Before(r, "mode") = <<>>
        BY <3>1 DEF Before
      <4> QED BY <3>3, <4>2, <4>3, <4>4
    <3> QED BY <2>2, <3>2, <3>3
  <2>3. CASE s = "crt"
    <3>1. CASE r = "A0"
      BY <2>3, <3>1, NextStageFacts DEF Before
    <3>2. CASE r # "A0"
      <4>1. Before(r, "crt") \o Bytes(r, "crt") = Before(r, "size")
        BY DEF Before
      <4>2. Before(r, "size") \in Data
        BY BeforeIsData DEF FlashStages
      <4>3. Before(r, "img") = Before(r, "size") \o <<>>
        BY <3>2 DEF Before
      <4>4. Before(r, "size") \o <<>> = Before(r, "size")
        BY <4>2, ConcatEmptySeq DEF Data
      <4> QED BY <2>3, <3>2, <4>1, <4>3, <4>4, NextStageFacts
    <3> QED BY <3>1, <3>2
  <2> QED BY <2>1, <2>2, <2>3 DEF FlashStages
<1> QED BY <1>3, <1>4

\* A step that sends nothing.
LEMMA StreamIsKept ==
  ASSUME StreamInv, BeforeLoad' => BeforeLoad,
         AfterLoad' /\ goal' = "flash" => /\ AfterLoad /\ goal = "flash"
                                          /\ UNCHANGED <<rev, stage, sent>>,
         UNCHANGED <<chip, fresh, stream>>,
         pc' \in {"free", "end"} /\ goal' = "flash" /\ rc' = "ok" /\ ~refused' =>
           pc = "free" /\ goal = "flash" /\ rc = "ok" /\ ~refused
  PROVE  StreamInv'
  BY DEF StreamInv

LEMMA StreamInit == Init => StreamInv
  BY DEF Init, StreamInv, BeforeLoad, AfterLoad

LEMMA StreamStep ==
  ASSUME ControlInv, StreamInv, [Next]_vars
  PROVE  StreamInv'
<1>t. rev \in Revs
  BY DEF ControlInv, ControlTypes
<1>1. ASSUME NEW ok \in BOOLEAN, qmrom_init(ok)
      PROVE  StreamInv'
  <2>1. /\ BeforeLoad' => BeforeLoad
        /\ AfterLoad' /\ goal' = "flash" => /\ AfterLoad /\ goal = "flash"
                                         /\ UNCHANGED <<rev, stage, sent>>
        /\ UNCHANGED <<chip, fresh, stream>>
    BY <1>1 DEF qmrom_init, history, BeforeLoad, AfterLoad, ControlInv, Script
  <2>2. pc' \in {"free", "end"} /\ goal' = "flash" /\ rc' = "ok" /\ ~refused' =>
          pc = "free" /\ goal = "flash" /\ rc = "ok" /\ ~refused
    BY <1>1 DEF qmrom_init, history, ControlInv, Script
  <2> QED BY <2>1, <2>2, StreamIsKept
<1>2. ASSUME NEW ok \in BOOLEAN, NEW pulse \in BOOLEAN, qmrom_reboot_bootloader(ok, pulse)
      PROVE  StreamInv'
  <2>1. ~AfterLoad' /\ (fresh' => stream' = <<>>)
    BY <1>2 DEF qmrom_reboot_bootloader, Goto, Fails, ProbeNext, FlashFails,
       ControlInv, Script, AfterLoad
  <2>2. pc' \in {"free", "end"} /\ goal' = "flash" => rc' = "err"
    BY <1>2 DEF qmrom_reboot_bootloader, Goto, Fails, ProbeNext, FlashFails,
       ControlInv, Script
  <2> QED BY <2>1, <2>2 DEF StreamInv
<1>3. ASSUME NEW ok \in BOOLEAN, wait_ready_read(ok)
      PROVE  StreamInv'
  <2>1. /\ pc = "wait" /\ rev # "A0" /\ UNCHANGED <<chip, fresh, stream>>
        /\ Goto("wait") \/ Goto(AfterReady) \/ Fails
    BY <1>3 DEF wait_ready_read
  <2>2. BeforeLoad
    BY <2>1 DEF BeforeLoad
  <2>3. ~AfterLoad' /\ (pc' \in {"free", "end"} /\ goal' = "flash" => rc' = "err")
    <3>1. CASE Goto("wait") \/ Fails
      BY <2>1, <3>1 DEF Goto, Fails, ProbeNext, FlashFails, ControlInv, Script,
         AfterLoad
    <3>2. CASE Goto(AfterReady)
      BY <2>1, <3>2, AfterReadyFacts DEF Goto, AfterLoad
    <3> QED BY <2>1, <3>1, <3>2
  <2> QED BY <2>1, <2>2, <2>3 DEF StreamInv
<1>4. ASSUME NEW ok \in BOOLEAN, qmrom_write_cmd(ok)
      PROVE  StreamInv'
  <2>1. /\ BeforeLoad' => BeforeLoad
        /\ AfterLoad' /\ goal' = "flash" => /\ AfterLoad /\ goal = "flash"
                                         /\ UNCHANGED <<rev, stage, sent>>
        /\ UNCHANGED <<chip, fresh, stream>>
    BY <1>4 DEF qmrom_write_cmd, ProbeNext, Goto, flashVars, history,
       BeforeLoad, AfterLoad, ControlInv, Script
  <2>2. pc' \in {"free", "end"} /\ goal' = "flash" /\ rc' = "ok" /\ ~refused' =>
          pc = "free" /\ goal = "flash" /\ rc = "ok" /\ ~refused
    BY <1>4 DEF qmrom_write_cmd, ProbeNext, Goto, flashVars, history,
       ControlInv, Script
  <2> QED BY <2>1, <2>2, StreamIsKept
<1>5. ASSUME NEW ok \in BOOLEAN, qmrom_a0_version(ok)
      PROVE  StreamInv'
  <2>1. /\ BeforeLoad' => BeforeLoad
        /\ AfterLoad' /\ goal' = "flash" => /\ AfterLoad /\ goal = "flash"
                                         /\ UNCHANGED <<rev, stage, sent>>
        /\ UNCHANGED <<chip, fresh, stream>>
    BY <1>5 DEF qmrom_a0_version, Goto, flashVars, BeforeLoad, AfterLoad,
       ControlInv, Script
  <2>2. pc' \in {"free", "end"} /\ goal' = "flash" /\ rc' = "ok" /\ ~refused' =>
          pc = "free" /\ goal = "flash" /\ rc = "ok" /\ ~refused
    BY <1>5 DEF qmrom_a0_version, Goto, flashVars, ControlInv, Script
  <2> QED BY <2>1, <2>2, StreamIsKept
<1>6. ASSUME NEW ok \in BOOLEAN, poll_cmd_resp_read(ok)
      PROVE  StreamInv'
  <2>1. /\ BeforeLoad' => BeforeLoad
        /\ AfterLoad' /\ goal' = "flash" => /\ AfterLoad /\ goal = "flash"
                                         /\ UNCHANGED <<rev, stage, sent>>
        /\ UNCHANGED <<chip, fresh, stream>>
    BY <1>6 DEF poll_cmd_resp_read, Goto, AfterResp, RespFails, ProbeNext,
       flashVars, BeforeLoad, AfterLoad, ControlInv, Script
  <2>2. pc' \in {"free", "end"} /\ goal' = "flash" /\ rc' = "ok" /\ ~refused' =>
          pc = "free" /\ goal = "flash" /\ rc = "ok" /\ ~refused
    BY <1>6 DEF poll_cmd_resp_read, Goto, AfterResp, RespFails, ProbeNext,
       flashVars, ControlInv, Script
  <2> QED BY <2>1, <2>2, StreamIsKept
<1>7. ASSUME NEW ok \in BOOLEAN, qm_firmware_flashing(ok)
      PROVE  StreamInv'
  <2>1. /\ BeforeLoad' => BeforeLoad
        /\ AfterLoad' /\ goal' = "flash" => /\ AfterLoad /\ goal = "flash"
                                         /\ UNCHANGED <<rev, stage, sent>>
        /\ UNCHANGED <<chip, fresh, stream>>
    BY <1>7 DEF qm_firmware_flashing, BeforeLoad, AfterLoad, ControlInv,
       Script
  <2>2. pc' \in {"free", "end"} /\ goal' = "flash" /\ rc' = "ok" /\ ~refused' =>
          pc = "free" /\ goal = "flash" /\ rc = "ok" /\ ~refused
    BY <1>7 DEF qm_firmware_flashing, ControlInv, Script
  <2> QED BY <2>1, <2>2, StreamIsKept
<1>8. ASSUME NEW ok \in BOOLEAN, qmrom_unstitch_fw(ok)
      PROVE  StreamInv'
  <2>1. /\ BeforeLoad' => BeforeLoad
        /\ AfterLoad' /\ goal' = "flash" => /\ AfterLoad /\ goal = "flash"
                                         /\ UNCHANGED <<rev, stage, sent>>
        /\ UNCHANGED <<chip, fresh, stream>>
    BY <1>8 DEF qmrom_unstitch_fw, Goto, history, BeforeLoad, AfterLoad,
       ControlInv, Script
  <2>2. pc' \in {"free", "end"} /\ goal' = "flash" /\ rc' = "ok" /\ ~refused' =>
          pc = "free" /\ goal = "flash" /\ rc = "ok" /\ ~refused
    BY <1>8 DEF qmrom_unstitch_fw, Goto, history, ControlInv, Script
  <2> QED BY <2>1, <2>2, StreamIsKept
<1>9. ASSUME NEW ok \in BOOLEAN, lcs_check(ok)
      PROVE  StreamInv'
  <2>1. /\ BeforeLoad' => BeforeLoad
        /\ AfterLoad' /\ goal' = "flash" => /\ AfterLoad /\ goal = "flash"
                                         /\ UNCHANGED <<rev, stage, sent>>
        /\ UNCHANGED <<chip, fresh, stream>>
    BY <1>9 DEF lcs_check, Goto, FlashFails, flashVars, history, BeforeLoad,
       AfterLoad, ControlInv, Script
  <2>2. pc' \in {"free", "end"} /\ goal' = "flash" /\ rc' = "ok" /\ ~refused' =>
          pc = "free" /\ goal = "flash" /\ rc = "ok" /\ ~refused
    BY <1>9 DEF lcs_check, Goto, FlashFails, flashVars, history, ControlInv,
       Script
  <2> QED BY <2>1, <2>2, StreamIsKept
<1>10. ASSUME NEW ok \in BOOLEAN, use_indirect_rram_wr(ok)
      PROVE  StreamInv'
  <2>1. /\ BeforeLoad' => BeforeLoad
        /\ AfterLoad' /\ goal' = "flash" => /\ AfterLoad /\ goal = "flash"
                                         /\ UNCHANGED <<rev, stage, sent>>
        /\ UNCHANGED <<chip, fresh, stream>>
    BY <1>10 DEF use_indirect_rram_wr, Goto, FlashFails, flashVars, history,
       BeforeLoad, AfterLoad, ControlInv, Script
  <2>2. pc' \in {"free", "end"} /\ goal' = "flash" /\ rc' = "ok" /\ ~refused' =>
          pc = "free" /\ goal = "flash" /\ rc = "ok" /\ ~refused
    BY <1>10 DEF use_indirect_rram_wr, Goto, FlashFails, flashVars, history,
       ControlInv, Script
  <2> QED BY <2>1, <2>2, StreamIsKept
<1>11. ASSUME NEW ok \in BOOLEAN, rram_answer(ok)
      PROVE  StreamInv'
  <2>1. /\ BeforeLoad' => BeforeLoad
        /\ AfterLoad' /\ goal' = "flash" => /\ AfterLoad /\ goal = "flash"
                                         /\ UNCHANGED <<rev, stage, sent>>
        /\ UNCHANGED <<chip, fresh, stream>>
    BY <1>11 DEF rram_answer, Goto, flashVars, BeforeLoad, AfterLoad,
       ControlInv, Script
  <2>2. pc' \in {"free", "end"} /\ goal' = "flash" /\ rc' = "ok" /\ ~refused' =>
          pc = "free" /\ goal = "flash" /\ rc = "ok" /\ ~refused
    BY <1>11 DEF rram_answer, Goto, flashVars, ControlInv, Script
  <2> QED BY <2>1, <2>2, StreamIsKept
<1>12. ASSUME NEW ok \in BOOLEAN, sec_load_img(ok)
      PROVE  StreamInv'
  <2>1. /\ pc = "load" /\ UNCHANGED <<chip, fresh, stream, stage, sent, goal, rev>>
        /\ pc' \in {"check", "resp_poll"} \/ (pc' = "free" /\ rc' = "err")
    BY <1>12 DEF sec_load_img, Goto, FlashFails, flashVars, history,
       ControlInv,
       Script
  <2>2. stage = "key1" /\ sent = 0 /\ goal = "flash" /\ rev # "A0"
    BY <2>1 DEF ControlInv, Script, Sending
  <2>3. BeforeLoad /\ ~BeforeLoad'
    BY <2>1, <2>2 DEF BeforeLoad
  <2> QED BY <1>t, <2>1, <2>2, <2>3, NothingBefore DEF StreamInv, AfterLoad
<1>13. ASSUME NEW ok \in BOOLEAN, check_before(ok)
      PROVE  StreamInv'
  <2>1. /\ BeforeLoad' => BeforeLoad
        /\ AfterLoad' /\ goal' = "flash" => /\ AfterLoad /\ goal = "flash"
                                         /\ UNCHANGED <<rev, stage, sent>>
        /\ UNCHANGED <<chip, fresh, stream>>
    BY <1>13 DEF check_before, Goto, FlashFails, flashVars, BeforeLoad,
       AfterLoad, ControlInv, Script
  <2>2. pc' \in {"free", "end"} /\ goal' = "flash" /\ rc' = "ok" /\ ~refused' =>
          pc = "free" /\ goal = "flash" /\ rc = "ok" /\ ~refused
    BY <1>13 DEF check_before, Goto, FlashFails, flashVars, ControlInv, Script
  <2> QED BY <2>1, <2>2, StreamIsKept
<1>14. ASSUME NEW ok \in BOOLEAN, NEW accept \in BOOLEAN, write_chunk(ok, accept)
      PROVE  StreamInv'
  <2> DEFINE n == sent + TxBytes
  <2>1. /\ pc = "send" /\ UNCHANGED <<chip, fresh, refused>>
        /\ \/ FlashFails
           \/ /\ AfterChunk(n)
              /\ stream' = stream \o [i \in 1..TxBytes |-> <<stage, sent + i>>]
    BY <1>14 DEF write_chunk
  <2>2. CASE FlashFails
    BY <2>1, <2>2 DEF FlashFails, StreamInv, BeforeLoad, AfterLoad, ControlInv,
       Script
  <2>3. CASE AfterChunk(n)
             /\ stream' = stream \o [i \in 1..TxBytes |-> <<stage, sent + i>>]
    <3>1. /\ UNCHANGED <<goal, rev, rc>> /\ AfterLoad
          /\ pc' \in {"free", "answer", "check"}
      BY <2>1, <2>3 DEF AfterChunk, Goto, AfterLoad
    <3>2. ~BeforeLoad'
      BY <3>1 DEF BeforeLoad
    <3>3. CASE ~(fresh /\ goal = "flash")
      BY <2>1, <3>1, <3>2, <3>3 DEF StreamInv
    <3>4. CASE fresh /\ goal = "flash"
      <4>1. /\ stage \in FlashStages
            /\ rev # "A0" => stage \notin {"mode", "size"}
            /\ rev \in Revs /\ rev = chip
        BY <2>1, <3>4 DEF ControlInv, ControlTypes, Sending, RevIsKnown
      <4>2. /\ n \in Nat /\ TxBytes \in Nat /\ sent \in Nat
        BY <2>1, ChunkFacts
      <4>3. stream = Before(rev, stage) \o FirstBytes(stage, sent)
        BY <3>1, <3>4 DEF StreamInv
      <4>4. stream' = Before(rev, stage) \o FirstBytes(stage, n)
        BY <2>3, <4>1, <4>2, <4>3, ChunkIsAppended, ZenonT(60)
      <4>5. CASE ~Whole(n)
        BY <2>1, <2>3, <3>1, <3>2, <4>4, <4>5 DEF StreamInv, AfterChunk, Goto
      <4>6. CASE Whole(n)
        <5>1. stream' = Before(rev, stage) \o Bytes(rev, stage)
          BY <4>4, <4>6 DEF Whole, FirstBytes, Bytes
        <5>2. CASE Last(stage)
          <6>1. stage = "img" /\ pc' = "free"
            BY <2>3, <4>1, <4>6, <5>2 DEF Last, FlashStages, AfterChunk, Goto
          <6>2. stream' = Firmware(chip')
            BY <2>1, <4>1, <5>1, <6>1 DEF Firmware, Before
          <6> QED BY <3>2, <6>1, <6>2 DEF StreamInv, AfterLoad
        <5>3. CASE ~Last(stage) /\ rev = "C0"
          <6>1. pc' = "answer" /\ stage' = stage /\ sent' = n
            BY <2>3, <4>6, <5>3 DEF AfterChunk, Goto
          <6> QED BY <3>1, <3>2, <4>4, <6>1 DEF StreamInv
        <5>4. CASE ~Last(stage) /\ rev # "C0"
          <6>1. pc' = "check" /\ stage' = NextStage(rev, stage) /\ sent' = 0
            BY <2>3, <4>6, <5>4 DEF AfterChunk, Goto
          <6>2. stream' = Before(rev', stage') \o FirstBytes(stage', sent')
            BY <3>1, <4>1, <5>1, <5>4, <6>1, PartIsAppended DEF Last
          <6> QED BY <3>1, <3>2, <6>1, <6>2 DEF StreamInv
        <5> QED BY <5>2, <5>3, <5>4
      <4> QED BY <4>5, <4>6
    <3> QED BY <3>3, <3>4
  <2> QED BY <2>1, <2>2, <2>3
<1>15. ASSUME NEW ok \in BOOLEAN, check_after(ok)
      PROVE  StreamInv'
  <2>1. /\ pc = "answer" /\ UNCHANGED <<chip, fresh, refused, stream>>
        /\ FlashFails \/ Goto("send")
    BY <1>15 DEF check_after
  <2>2. CASE FlashFails
    BY <2>1, <2>2 DEF FlashFails, StreamInv, BeforeLoad, AfterLoad, ControlInv,
       Script
  <2>3. CASE ~FlashFails
    <3>1. /\ UNCHANGED <<goal, rev, rc>> /\ AfterLoad /\ pc' = "send"
          /\ IF Whole(sent) THEN stage' = NextStage(rev, stage) /\ sent' = 0
                            ELSE UNCHANGED <<stage, sent>>
      BY <1>15, <2>1, <2>3 DEF check_after, Goto, AfterLoad
    <3>2. ~BeforeLoad'
      BY <3>1 DEF BeforeLoad
    <3>3. CASE ~(fresh /\ goal = "flash" /\ Whole(sent))
      BY <2>1, <3>1, <3>2, <3>3 DEF StreamInv
    <3>4. CASE fresh /\ goal = "flash" /\ Whole(sent)
      <4>1. /\ stage \in FlashStages /\ stage # "img"
            /\ rev # "A0" => stage \notin {"mode", "size"}
            /\ rev \in Revs
        <5>1. /\ stage \in FlashStages
              /\ rev # "A0" => stage \notin {"mode", "size"}
              /\ rev \in Revs /\ sent \in Nat
              /\ Last(stage) => sent < Size(rev, stage)
          BY <2>1, <3>4 DEF ControlInv, ControlTypes, Sending
        <5>2. stage # "img"
          BY <3>4, <5>1 DEF Whole, Last
        <5> QED BY <5>1, <5>2
      <4>2. stream = Before(rev, stage) \o Bytes(rev, stage)
        BY <3>1, <3>4 DEF StreamInv, Whole, FirstBytes, Bytes
      <4>3. stream' = Before(rev', stage') \o FirstBytes(stage', sent')
        BY <2>1, <3>1, <3>4, <4>1, <4>2, PartIsAppended
      <4> QED BY <3>1, <3>2, <4>3 DEF StreamInv
    <3> QED BY <3>3, <3>4
  <2> QED BY <2>2, <2>3
<1>16. ASSUME NEW ok \in BOOLEAN, write_dbg_cert(ok)
      PROVE  StreamInv'
  <2>1. /\ BeforeLoad' => BeforeLoad
        /\ AfterLoad' /\ goal' = "flash" => /\ AfterLoad /\ goal = "flash"
                                         /\ UNCHANGED <<rev, stage, sent>>
        /\ UNCHANGED <<chip, fresh, stream>>
    BY <1>16 DEF write_dbg_cert, Goto, FlashFails, flashVars, history,
       BeforeLoad, AfterLoad, ControlInv, Script
  <2>2. pc' \in {"free", "end"} /\ goal' = "flash" /\ rc' = "ok" /\ ~refused' =>
          pc = "free" /\ goal = "flash" /\ rc = "ok" /\ ~refused
    BY <1>16 DEF write_dbg_cert, Goto, FlashFails, flashVars, history,
       ControlInv, Script
  <2> QED BY <2>1, <2>2, StreamIsKept
<1>17. ASSUME NEW ok \in BOOLEAN, cert_read(ok)
      PROVE  StreamInv'
  <2>1. /\ BeforeLoad' => BeforeLoad
        /\ AfterLoad' /\ goal' = "flash" => /\ AfterLoad /\ goal = "flash"
                                         /\ UNCHANGED <<rev, stage, sent>>
        /\ UNCHANGED <<chip, fresh, stream>>
    BY <1>17 DEF cert_read, Goto, flashVars, BeforeLoad, AfterLoad,
       ControlInv, Script
  <2>2. pc' \in {"free", "end"} /\ goal' = "flash" /\ rc' = "ok" /\ ~refused' =>
          pc = "free" /\ goal = "flash" /\ rc = "ok" /\ ~refused
    BY <1>17 DEF cert_read, Goto, flashVars, ControlInv, Script
  <2> QED BY <2>1, <2>2, StreamIsKept
<1>18. ASSUME NEW ok \in BOOLEAN, erase_dbg_cert(ok)
      PROVE  StreamInv'
  <2>1. /\ BeforeLoad' => BeforeLoad
        /\ AfterLoad' /\ goal' = "flash" => /\ AfterLoad /\ goal = "flash"
                                         /\ UNCHANGED <<rev, stage, sent>>
        /\ UNCHANGED <<chip, fresh, stream>>
    BY <1>18 DEF erase_dbg_cert, Goto, FlashFails, flashVars, history,
       BeforeLoad, AfterLoad, ControlInv, Script
  <2>2. pc' \in {"free", "end"} /\ goal' = "flash" /\ rc' = "ok" /\ ~refused' =>
          pc = "free" /\ goal = "flash" /\ rc = "ok" /\ ~refused
    BY <1>18 DEF erase_dbg_cert, Goto, FlashFails, flashVars, history,
       ControlInv, Script
  <2> QED BY <2>1, <2>2, StreamIsKept
<1>19. ASSUME NEW ok \in BOOLEAN, NEW accept \in BOOLEAN, debug_cert_size(ok, accept)
      PROVE  StreamInv'
  <2>1. pc = "cert_size" /\ goal' = goal /\ pc' \in {"resp_poll", "check", "free"}
    BY <1>19 DEF debug_cert_size, Goto, FlashFails
  <2>2. goal = "cert"
    BY <2>1 DEF ControlInv, Script
  <2> QED BY <2>1, <2>2 DEF StreamInv, BeforeLoad
<1>20. ASSUME NEW g \in {"probe", "flash", "cert", "erase"}, rom_file(g)
      PROVE  StreamInv'
  <2>1. /\ BeforeLoad' => BeforeLoad
        /\ AfterLoad' /\ goal' = "flash" => /\ AfterLoad /\ goal = "flash"
                                         /\ UNCHANGED <<rev, stage, sent>>
        /\ UNCHANGED <<chip, fresh, stream>>
    BY <1>20 DEF rom_file, BeforeLoad, AfterLoad, ControlInv, Script
  <2>2. pc' \in {"free", "end"} /\ goal' = "flash" /\ rc' = "ok" /\ ~refused' =>
          pc = "free" /\ goal = "flash" /\ rc = "ok" /\ ~refused
    BY <1>20 DEF rom_file, ControlInv, Script
  <2> QED BY <2>1, <2>2, StreamIsKept
<1>21. CASE cert_check
  <2>1. /\ BeforeLoad' => BeforeLoad
        /\ AfterLoad' /\ goal' = "flash" => /\ AfterLoad /\ goal = "flash"
                                         /\ UNCHANGED <<rev, stage, sent>>
        /\ UNCHANGED <<chip, fresh, stream>>
    BY <1>21 DEF cert_check, flashVars, history, BeforeLoad, AfterLoad,
       ControlInv, Script
  <2>2. pc' \in {"free", "end"} /\ goal' = "flash" /\ rc' = "ok" /\ ~refused' =>
          pc = "free" /\ goal = "flash" /\ rc = "ok" /\ ~refused
    BY <1>21 DEF cert_check, flashVars, history, ControlInv, Script
  <2> QED BY <2>1, <2>2, StreamIsKept
<1>22. CASE wait_ready_begin
  <2>1. /\ BeforeLoad' => BeforeLoad
        /\ AfterLoad' /\ goal' = "flash" => /\ AfterLoad /\ goal = "flash"
                                         /\ UNCHANGED <<rev, stage, sent>>
        /\ UNCHANGED <<chip, fresh, stream>>
    BY <1>22 DEF wait_ready_begin, Goto, flashVars, history, BeforeLoad,
       AfterLoad, ControlInv, Script
  <2>2. pc' \in {"free", "end"} /\ goal' = "flash" /\ rc' = "ok" /\ ~refused' =>
          pc = "free" /\ goal = "flash" /\ rc = "ok" /\ ~refused
    BY <1>22 DEF wait_ready_begin, Goto, flashVars, history, ControlInv,
       Script
  <2> QED BY <2>1, <2>2, StreamIsKept
<1>23. CASE wait_ready_end
  <2>1. /\ pc = "wait" /\ UNCHANGED <<chip, fresh, stream, stage, sent>>
        /\ Goto(AfterReady) \/ Fails
    BY <1>23 DEF wait_ready_end, flashVars, history
  <2>2. BeforeLoad
    BY <2>1 DEF BeforeLoad
  <2>3. CASE Fails
    <3>1. ~AfterLoad' /\ (pc' \in {"free", "end"} /\ goal' = "flash" => rc' = "err")
      BY <2>1, <2>3 DEF Goto, Fails, ProbeNext, FlashFails, ControlInv, Script,
         AfterLoad
    <3> QED BY <2>1, <2>2, <3>1 DEF StreamInv
  <2>4. CASE Goto(AfterReady)
    <3>1. ~(pc' \in {"free", "end"} /\ goal' = "flash") /\ UNCHANGED <<goal, rev>>
      BY <2>1, <2>4, AfterReadyFacts DEF Goto
    <3>2. AfterLoad' => rev = "A0" /\ stage = "mode" /\ sent = 0
      BY <2>1, <2>4, AfterReadyFacts DEF Goto, AfterLoad, ControlInv, Sending
    <3> QED BY <1>t, <2>1, <2>2, <3>1, <3>2, NothingBefore DEF StreamInv
  <2> QED BY <2>1, <2>3, <2>4
<1>24. CASE wait_ready_poll
  <2>1. /\ BeforeLoad' => BeforeLoad
        /\ AfterLoad' /\ goal' = "flash" => /\ AfterLoad /\ goal = "flash"
                                         /\ UNCHANGED <<rev, stage, sent>>
        /\ UNCHANGED <<chip, fresh, stream>>
    BY <1>24 DEF wait_ready_poll, flashVars, history, BeforeLoad, AfterLoad,
       ControlInv, Script
  <2>2. pc' \in {"free", "end"} /\ goal' = "flash" /\ rc' = "ok" /\ ~refused' =>
          pc = "free" /\ goal = "flash" /\ rc = "ok" /\ ~refused
    BY <1>24 DEF wait_ready_poll, flashVars, history, ControlInv, Script
  <2> QED BY <2>1, <2>2, StreamIsKept
<1>25. CASE wait_ready_pre_read
  <2>1. /\ BeforeLoad' => BeforeLoad
        /\ AfterLoad' /\ goal' = "flash" => /\ AfterLoad /\ goal = "flash"
                                         /\ UNCHANGED <<rev, stage, sent>>
        /\ UNCHANGED <<chip, fresh, stream>>
    BY <1>25 DEF wait_ready_pre_read, flashVars, history, BeforeLoad,
       AfterLoad, ControlInv, Script
  <2>2. pc' \in {"free", "end"} /\ goal' = "flash" /\ rc' = "ok" /\ ~refused' =>
          pc = "free" /\ goal = "flash" /\ rc = "ok" /\ ~refused
    BY <1>25 DEF wait_ready_pre_read, flashVars, history, ControlInv, Script
  <2> QED BY <2>1, <2>2, StreamIsKept
<1>26. CASE wrong_endianness
  <2>1. /\ BeforeLoad' => BeforeLoad
        /\ AfterLoad' /\ goal' = "flash" => /\ AfterLoad /\ goal = "flash"
                                         /\ UNCHANGED <<rev, stage, sent>>
        /\ UNCHANGED <<chip, fresh, stream>>
    BY <1>26 DEF wrong_endianness, ProbeNext, flashVars, history, BeforeLoad,
       AfterLoad, ControlInv, Script
  <2>2. pc' \in {"free", "end"} /\ goal' = "flash" /\ rc' = "ok" /\ ~refused' =>
          pc = "free" /\ goal = "flash" /\ rc = "ok" /\ ~refused
    BY <1>26 DEF wrong_endianness, ProbeNext, flashVars, history, ControlInv,
       Script
  <2> QED BY <2>1, <2>2, StreamIsKept
<1>27. CASE poll_cmd_resp_begin
  <2>1. /\ BeforeLoad' => BeforeLoad
        /\ AfterLoad' /\ goal' = "flash" => /\ AfterLoad /\ goal = "flash"
                                         /\ UNCHANGED <<rev, stage, sent>>
        /\ UNCHANGED <<chip, fresh, stream>>
    BY <1>27 DEF poll_cmd_resp_begin, Goto, flashVars, history, BeforeLoad,
       AfterLoad, ControlInv, Script
  <2>2. pc' \in {"free", "end"} /\ goal' = "flash" /\ rc' = "ok" /\ ~refused' =>
          pc = "free" /\ goal = "flash" /\ rc = "ok" /\ ~refused
    BY <1>27 DEF poll_cmd_resp_begin, Goto, flashVars, history, ControlInv,
       Script
  <2> QED BY <2>1, <2>2, StreamIsKept
<1>28. CASE poll_cmd_resp_again
  <2>1. /\ BeforeLoad' => BeforeLoad
        /\ AfterLoad' /\ goal' = "flash" => /\ AfterLoad /\ goal = "flash"
                                         /\ UNCHANGED <<rev, stage, sent>>
        /\ UNCHANGED <<chip, fresh, stream>>
    BY <1>28 DEF poll_cmd_resp_again, Goto, AfterResp, RespFails, ProbeNext,
       flashVars, BeforeLoad, AfterLoad, ControlInv, Script
  <2>2. pc' \in {"free", "end"} /\ goal' = "flash" /\ rc' = "ok" /\ ~refused' =>
          pc = "free" /\ goal = "flash" /\ rc = "ok" /\ ~refused
    BY <1>28 DEF poll_cmd_resp_again, Goto, AfterResp, RespFails, ProbeNext,
       flashVars, ControlInv, Script
  <2> QED BY <2>1, <2>2, StreamIsKept
<1>29. CASE ver_check
  <2>1. /\ BeforeLoad' => BeforeLoad
        /\ AfterLoad' /\ goal' = "flash" => /\ AfterLoad /\ goal = "flash"
                                         /\ UNCHANGED <<rev, stage, sent>>
        /\ UNCHANGED <<chip, fresh, stream>>
    BY <1>29 DEF ver_check, ProbeNext, Goto, flashVars, history, BeforeLoad,
       AfterLoad, ControlInv, Script
  <2>2. pc' \in {"free", "end"} /\ goal' = "flash" /\ rc' = "ok" /\ ~refused' =>
          pc = "free" /\ goal = "flash" /\ rc = "ok" /\ ~refused
    BY <1>29 DEF ver_check, ProbeNext, Goto, flashVars, history, ControlInv,
       Script
  <2> QED BY <2>1, <2>2, StreamIsKept
<1>30. CASE first_key_check
  <2>1. /\ BeforeLoad' => BeforeLoad
        /\ AfterLoad' /\ goal' = "flash" => /\ AfterLoad /\ goal = "flash"
                                         /\ UNCHANGED <<rev, stage, sent>>
        /\ UNCHANGED <<chip, fresh, stream>>
    BY <1>30 DEF first_key_check, Goto, flashVars, BeforeLoad, AfterLoad,
       ControlInv, Script
  <2>2. pc' \in {"free", "end"} /\ goal' = "flash" /\ rc' = "ok" /\ ~refused' =>
          pc = "free" /\ goal = "flash" /\ rc = "ok" /\ ~refused
    BY <1>30 DEF first_key_check, Goto, flashVars, ControlInv, Script
  <2> QED BY <2>1, <2>2, StreamIsKept
<1>31. CASE qmrom_free
  <2>1. /\ BeforeLoad' => BeforeLoad
        /\ AfterLoad' /\ goal' = "flash" => /\ AfterLoad /\ goal = "flash"
                                         /\ UNCHANGED <<rev, stage, sent>>
        /\ UNCHANGED <<chip, fresh, stream>>
    BY <1>31 DEF qmrom_free, Goto, history, BeforeLoad, AfterLoad, ControlInv,
       Script
  <2>2. pc' \in {"free", "end"} /\ goal' = "flash" /\ rc' = "ok" /\ ~refused' =>
          pc = "free" /\ goal = "flash" /\ rc = "ok" /\ ~refused
    BY <1>31 DEF qmrom_free, Goto, history, ControlInv, Script
  <2> QED BY <2>1, <2>2, StreamIsKept
<1>32. CASE second_attempt
  <2>1. /\ BeforeLoad' => BeforeLoad
        /\ AfterLoad' /\ goal' = "flash" => /\ AfterLoad /\ goal = "flash"
                                         /\ UNCHANGED <<rev, stage, sent>>
        /\ UNCHANGED <<chip, fresh, stream>>
    BY <1>32 DEF second_attempt, history, BeforeLoad, AfterLoad, ControlInv,
       Script
  <2>2. pc' \in {"free", "end"} /\ goal' = "flash" /\ rc' = "ok" /\ ~refused' =>
          pc = "free" /\ goal = "flash" /\ rc = "ok" /\ ~refused
    BY <1>32 DEF second_attempt, history, ControlInv, Script
  <2> QED BY <2>1, <2>2, StreamIsKept
<1>33. CASE qm_firmware_load
  <2>1. /\ BeforeLoad' => BeforeLoad
        /\ AfterLoad' /\ goal' = "flash" => /\ AfterLoad /\ goal = "flash"
                                         /\ UNCHANGED <<rev, stage, sent>>
        /\ UNCHANGED <<chip, fresh, stream>>
    BY <1>33 DEF qm_firmware_load, BeforeLoad, AfterLoad, ControlInv, Script
  <2>2. pc' \in {"free", "end"} /\ goal' = "flash" /\ rc' = "ok" /\ ~refused' =>
          pc = "free" /\ goal = "flash" /\ rc = "ok" /\ ~refused
    BY <1>33 DEF qm_firmware_load, ControlInv, Script
  <2> QED BY <2>1, <2>2, StreamIsKept
<1>34. CASE UNCHANGED vars
  BY <1>34 DEF vars, hostVars, flashVars, romVars, history, StreamInv,
     BeforeLoad, AfterLoad
<1> QED
  BY <1>1, <1>2, <1>3, <1>4, <1>5, <1>6, <1>7, <1>8, <1>9, <1>10, <1>11,
     <1>12, <1>13, <1>14, <1>15, <1>16, <1>17, <1>18, <1>19, <1>20, <1>21,
     <1>22, <1>23, <1>24, <1>25, <1>26, <1>27, <1>28, <1>29, <1>30, <1>31,
     <1>32, <1>33, <1>34
  DEF Next, Download

-----------------------------------------------------------------------------
(***************************************************************************)
(* The theorems.                                                           *)
(***************************************************************************)

\* The inductive invariant: where the host may be, what the ROM code is in
\* step with, and what was sent to it.
IInv == ControlInv /\ RomInv /\ StreamInv

LEMMA IInvInit == Init => IInv
  BY ControlInit, RomInit, StreamInit DEF IInv

LEMMA IInvStep == IInv /\ [Next]_vars => IInv'
<1> SUFFICES ASSUME IInv, [Next]_vars PROVE IInv'
  OBVIOUS
<1>1. ControlInv'
  BY ControlStep DEF IInv
<1>2. RomInv'
  BY RomStep DEF IInv
<1>3. StreamInv'
  BY StreamStep DEF IInv
<1> QED BY <1>1, <1>2, <1>3 DEF IInv

LEMMA IInvIsInvariant == Spec => []IInv
  BY IInvInit, IInvStep, PTL DEF Spec

\* Every variable keeps its type; in particular no chunk of any of the three
\* protocols goes past the end of the part it is taken from, and the retries
\* of a polling loop do not run below zero.
THEOREM TypeCorrect == Spec => []TypeOK
<1>1. IInv => TypeOK
  <2> SUFFICES ASSUME IInv PROVE TypeOK
    OBVIOUS
  <2>1. pc \in {"send", "check", "answer"} => sent \in 0..Size(rev, stage)
    <3> SUFFICES ASSUME pc \in {"send", "check", "answer"}
                 PROVE  sent \in 0..Size(rev, stage)
      OBVIOUS
    <3>1. /\ sent \in Nat /\ sent <= Size(rev, stage)
      <4>1. /\ stage \in AllStages /\ rev \in Revs
            /\ rev # "A0" => stage \notin {"mode", "size"}
        BY DEF IInv, ControlInv, ControlTypes, Script, Sending
      <4>2. Size(rev, stage) \in Nat
        BY <4>1, SizeOfStage
      <4> QED BY <4>2 DEF IInv, ControlInv, Sending
    <3>2. Size(rev, stage) \in Int
      <4>1. /\ stage \in AllStages /\ rev \in Revs
            /\ rev # "A0" => stage \notin {"mode", "size"}
        BY DEF IInv, ControlInv, ControlTypes, Script, Sending
      <4> QED BY <4>1, SizeOfStage
    <3> QED BY <3>1, <3>2
  <2> QED BY <2>1 DEF TypeOK, IInv, ControlInv, ControlTypes, WireTypes,
             AllStages, FlashStages
<1> QED BY <1>1, IInvIsInvariant, PTL

\* The command that begins a download, or writes or erases a certificate,
\* finds the ROM code idle when the last reboot got to its reset pulse, also
\* after an attempt that failed half-way (second_attempt, qm35-spi.c).
THEOREM DownloadIsFresh == Spec => []DownloadStartsFresh
<1>1. IInv => DownloadStartsFresh
  <2> SUFFICES ASSUME IInv, pc \in {"load", "cert", "erase"}, fresh
               PROVE  rom = "idle"
    BY DEF DownloadStartsFresh
  <2>1. rev = chip /\ rev # "A0"
    BY DEF IInv, ControlInv, Script, RevIsKnown
  <2> QED BY <2>1 DEF IInv, RomInv, RomIsIdle, BeforeLoad, RomIdle
<1> QED BY <1>1, IInvIsInvariant, PTL

\* As long as no answer went unread, a chunk is sent only to a ROM code that
\* waits for this very part, for any sizes of the parts and of the chunks
\* (the checks of the payload in qmrom_a0.c, qmrom_b0.c and qmrom_c0.c).
THEOREM DataIsRequested == Spec => []DataIsAskedFor
<1>1. IInv => DataIsAskedFor
  BY DEF IInv, RomInv, RomIsInStep, AfterLoad, DataIsAskedFor
<1> QED BY <1>1, IInvIsInvariant, PTL

\* A download that reports success has sent every byte of the firmware once
\* and in order to one session of the ROM code, whatever transfers failed and
\* however the parts divide into chunks; the C0 exception is in the property.
THEOREM SuccessIsWhole == Spec => []SuccessMeansSent
<1>1. IInv => SuccessMeansSent
  BY DEF IInv, StreamInv, SuccessMeansSent
<1> QED BY <1>1, IInvIsInvariant, PTL

=============================================================================
