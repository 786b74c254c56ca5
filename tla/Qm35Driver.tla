----------------------------- MODULE Qm35Driver -----------------------------
(***************************************************************************)
(* Device control in qm35-spi.c: the ioctls of /dev/uci, the debugfs files *)
(* hw_reset and rom_*, suspend and resume.  Each of them stops HSSPI, does *)
(* its work with the QM35 (reset it, power it, talk to its ROM code on the *)
(* same SPI bus), and starts HSSPI again.  None of them takes a lock over  *)
(* this sequence.                                                          *)
(*                                                                         *)
(* Of HSSPI this module uses what module Hsspi establishes: after          *)
(* hsspi_stop has returned the thread is off the bus and stays off it      *)
(* until hsspi_start.  The thread itself resets the QM35 after errors.     *)
(***************************************************************************)
EXTENDS Integers

CONSTANTS
  Callers,     \* threads that make control calls
  MaxRegFails  \* bound: how often a regulator refuses to be disabled

ASSUME MaxRegFailsAssumption == MaxRegFails \in Nat

VARIABLES
  board,       \* what the device tree gives the QM35, chosen once
  state,       \* hsspi.state
  rdy_depth,   \* disable depth of the ss_rdy interrupt line
  dev_state,   \* qm35_hdl->state
  gpio_reset,  \* the reset pin is asserted
  regulators_enabled, \* qm35_hdl->regulators_enabled
  reg_count,   \* use count of a regulator: the four are switched alike
  enable_failed, \* history: the last regulator_enable failed
  disable_fails, \* history: how many regulator_disable failed
  suspended,   \* the system sleeps
  tpc,         \* the HSSPI thread: idle, on the bus, or in qm35_reset
  cpc,         \* where each caller is
  op,          \* the call it makes
  saved        \* dev_state that qm_firmware_load read

callerVars == <<cpc, op, saved>>
chipVars   == <<dev_state, gpio_reset>>
countVars  == <<reg_count, enable_failed, disable_fails>>
powerVars  == <<regulators_enabled, countVars>>
vars == <<board, state, rdy_depth, dev_state, gpio_reset, powerVars, suspended,
          tpc, callerVars>>

HasRegulators == board.regulators  \* REGULATORS_ENABLED(qm35_hdl)
HasReset      == board.reset       \* qm35_hdl->gpio_reset # NULL

DevStates == {"UNKNOWN", "RESET", "READY", "FW_DOWNLOADING"}

\* The calls: QM35_CTRL_RESET and hw_reset, QM35_CTRL_FW_UPLOAD, the rom_*
\* files, QM35_CTRL_POWER with on and off, suspend and resume.
Ops == {"reset", "upload", "rom", "on", "off", "suspend", "resume"}

CallerPcs == {"idle", "stop", "fence", "disable", "work", "regulate", "assert",
              "deassert", "bus", "restore", "boot", "enable", "start"}

\* The end of qm35_probe, without flash_on_probe: a QM35 without regulators
\* is powered and started; the ss_rdy interrupt was requested enabled.
Init ==
  /\ board \in [regulators : BOOLEAN, reset : BOOLEAN]
  /\ state = IF HasRegulators THEN "STOPPED" ELSE "RUNNING"
  /\ rdy_depth = 0
  /\ dev_state = "RESET"
  /\ gpio_reset = FALSE
  /\ regulators_enabled = FALSE
  /\ reg_count = 0 /\ enable_failed = FALSE /\ disable_fails = 0
  /\ suspended = FALSE
  /\ tpc = "idle"
  /\ cpc = [c \in Callers |-> "idle"]
  /\ op = [c \in Callers |-> "reset"]
  /\ saved = [c \in Callers |-> "UNKNOWN"]

Goto(c, pc) == cpc' = [cpc EXCEPT ![c] = pc]

-----------------------------------------------------------------------------
(***************************************************************************)
(* qm35_hsspi_stop, which every call but resume begins with.               *)
(***************************************************************************)

\* The call begins: the state is read without the lock.  Tasks are frozen
\* when suspend and resume run and while the system sleeps.
qm35_hsspi_stop_check(c, o) ==
  /\ cpc[c] = "idle"
  /\ IF o = "resume" THEN suspended ELSE ~suspended
  /\ o \in {"suspend", "resume"} => \A d \in Callers : cpc[d] = "idle"
  /\ \A d \in Callers : cpc[d] # "idle" => op[d] \notin {"suspend", "resume"}
  /\ op' = [op EXCEPT ![c] = o]
  /\ Goto(c, IF o = "resume" THEN "boot"
             ELSE IF state = "RUNNING" THEN "stop" ELSE "work")
  /\ UNCHANGED <<board, state, rdy_depth, chipVars, powerVars, suspended, tpc,
                 saved>>

\* hsspi_stop: the state changes, then the thread serves the completion.
hsspi_stop(c) ==
  /\ cpc[c] = "stop"
  /\ state' = "STOPPED"
  /\ Goto(c, "fence")
  /\ UNCHANGED <<board, rdy_depth, chipVars, powerVars, suspended, tpc, op,
                 saved>>

hsspi_stop_return_NoWait(c) ==
  /\ cpc[c] = "fence"
  /\ Goto(c, "disable")
  /\ UNCHANGED <<board, state, rdy_depth, chipVars, powerVars, suspended, tpc,
                 op, saved>>

hsspi_stop_return(c) ==
  /\ cpc[c] = "fence"
  /\ tpc = "idle"
  /\ Goto(c, "disable")
  /\ UNCHANGED <<board, state, rdy_depth, chipVars, powerVars, suspended, tpc,
                 op, saved>>

\* disable_irq_nosync.  The clear_bit of SS_READY after it has no effect that
\* lasts: hsspi_wait_ss_ready never trusts the flag alone (module SpiXfer).
qm35_hsspi_stop_disable(c) ==
  /\ cpc[c] = "disable"
  /\ rdy_depth' = rdy_depth + 1
  /\ Goto(c, "work")
  /\ UNCHANGED <<board, state, chipVars, powerVars, suspended, tpc, op, saved>>

-----------------------------------------------------------------------------
(***************************************************************************)
(* The work between stop and start.                                        *)
(***************************************************************************)

qm35_pm_suspend(c) ==
  /\ cpc[c] = "work" /\ op[c] = "suspend"
  /\ suspended' = TRUE
  /\ Goto(c, "idle")
  /\ UNCHANGED <<board, state, rdy_depth, chipVars, powerVars, tpc, op, saved>>

\* qm_firmware_load keeps the state it finds, to put it back at the end.
qm_firmware_load(c) ==
  /\ cpc[c] = "work" /\ op[c] = "upload"
  /\ saved' = [saved EXCEPT ![c] = dev_state]
  /\ dev_state' = "FW_DOWNLOADING"
  /\ Goto(c, "assert")
  /\ UNCHANGED <<board, state, rdy_depth, gpio_reset, powerVars, suspended,
                 tpc, op>>

\* hw_reset, QM35_CTRL_RESET, and the rom_* files, whose qmrom_init resets.
reset_begin(c) ==
  /\ cpc[c] = "work"
  /\ op[c] \in {"reset", "rom"} \/ (op[c] \in {"on", "off"} /\ ~HasRegulators)
  /\ Goto(c, "assert")
  /\ UNCHANGED <<board, state, rdy_depth, chipVars, powerVars, suspended, tpc,
                 op, saved>>

\* qm35_regulators_set: the flag is exchanged under the lock, the regulators
\* are switched after it.
qm35_regulators_set_Again(c) ==
  /\ cpc[c] = "work" /\ op[c] \in {"on", "off"}
  /\ HasRegulators
  /\ regulators_enabled' = (op[c] = "on")
  /\ Goto(c, "regulate")
  /\ UNCHANGED <<board, state, rdy_depth, chipVars, countVars, suspended, tpc,
                 op, saved>>

qm35_regulators_set(c) ==
  /\ cpc[c] = "work" /\ op[c] \in {"on", "off"}
  /\ HasRegulators
  /\ regulators_enabled' = (op[c] = "on")
  /\ Goto(c, IF regulators_enabled = (op[c] = "on") THEN "assert"
                                                    ELSE "regulate")
  /\ UNCHANGED <<board, state, rdy_depth, chipVars, countVars, suspended, tpc,
                 op, saved>>

\* regulator_enable and regulator_disable: one that fails leaves the count as
\* it is.  A disable at count zero fails too, with a warning.
regulator_switch(on, ok) ==
  /\ on \/ ok \/ disable_fails < MaxRegFails
  /\ reg_count' = IF ~ok THEN reg_count
                  ELSE IF on THEN reg_count + 1
                  ELSE IF reg_count > 0 THEN reg_count - 1 ELSE 0
  /\ enable_failed' = IF on THEN ~ok ELSE enable_failed
  /\ disable_fails' = IF on \/ ok THEN disable_fails ELSE disable_fails + 1

\* Its result is logged and forgotten: the flag stays as it was set.
qm35_regulator_set_one(c, ok) ==
  /\ cpc[c] = "regulate"
  /\ regulator_switch(op[c] = "on", ok)
  /\ Goto(c, "assert")
  /\ UNCHANGED <<board, state, rdy_depth, chipVars, regulators_enabled,
                 suspended, tpc, op, saved>>

\* Where a call goes on after qm35_reset.
AfterReset(c) == IF op[c] \in {"upload", "rom"} THEN "bus" ELSE "boot"

\* qm35_reset without a reset pin is -ENODEV.
qm35_reset_nodev(c) ==
  /\ cpc[c] = "assert"
  /\ ~HasReset
  /\ Goto(c, AfterReset(c))
  /\ UNCHANGED <<board, state, rdy_depth, chipVars, powerVars, suspended, tpc,
                 op, saved>>

\* qm35_reset: RESET and the pin asserted; it stays so on power off.
qm35_reset_assert(c) ==
  /\ cpc[c] = "assert"
  /\ HasReset
  /\ dev_state' = "RESET"
  /\ gpio_reset' = TRUE
  /\ Goto(c, IF op[c] = "off" THEN "boot" ELSE "deassert")
  /\ UNCHANGED <<board, state, rdy_depth, powerVars, suspended, tpc, op,
                 saved>>

qm35_reset_deassert(c) ==
  /\ cpc[c] = "deassert"
  /\ gpio_reset' = FALSE
  /\ dev_state' = "UNKNOWN"
  /\ Goto(c, AfterReset(c))
  /\ UNCHANGED <<board, state, rdy_depth, powerVars, suspended, tpc, op,
                 saved>>

\* The rom_* file finds no memory or no file, or qmrom_init no memory or no
\* bus: the call gives up before it resets the QM35.
qmrom_init_failed(c) ==
  /\ cpc[c] = "assert" /\ op[c] \in {"upload", "rom"}
  /\ Goto(c, IF op[c] = "upload" THEN "restore" ELSE "boot")
  /\ UNCHANGED <<board, state, rdy_depth, chipVars, powerVars, suspended, tpc,
                 op, saved>>

\* libqmrom has talked to the ROM code: it resets the QM35 once more, or is
\* done, with or without success.
qmrom_flash_fw(c, again) ==
  /\ cpc[c] = "bus"
  /\ Goto(c, IF again THEN "assert"
             ELSE IF op[c] = "upload" THEN "restore" ELSE "boot")
  /\ UNCHANGED <<board, state, rdy_depth, chipVars, powerVars, suspended, tpc,
                 op, saved>>

qm_firmware_load_return(c) ==
  /\ cpc[c] = "restore"
  /\ dev_state' = saved[c]
  /\ saved' = [saved EXCEPT ![c] = "UNKNOWN"]
  /\ Goto(c, "boot")
  /\ UNCHANGED <<board, state, rdy_depth, gpio_reset, powerVars, suspended,
                 tpc, op>>

-----------------------------------------------------------------------------
(***************************************************************************)
(* qm35_hsspi_start, which every call ends with, but for suspend and       *)
(* powering off a QM35 that has regulators.                                *)
(***************************************************************************)

Starts_IfStopped(c) == op[c] \in {"on", "resume", "reset"}
Starts(c) == ~(op[c] = "off" /\ HasRegulators)

qm35_hsspi_start_check(c) ==
  /\ cpc[c] = "boot"
  /\ Goto(c, IF Starts(c) /\ state # "RUNNING" THEN "enable" ELSE "idle")
  /\ suspended' = (suspended /\ op[c] # "resume")
  /\ UNCHANGED <<board, state, rdy_depth, chipVars, powerVars, tpc, op, saved>>

\* enable_irq; the kernel warns of an unbalanced one and keeps the depth.
qm35_hsspi_start_enable_Skip(c) ==
  /\ cpc[c] = "enable"
  /\ Goto(c, "start")
  /\ UNCHANGED <<board, state, rdy_depth, chipVars, powerVars, suspended, tpc,
                 op, saved>>

qm35_hsspi_start_enable(c) ==
  /\ cpc[c] = "enable"
  /\ rdy_depth' = IF rdy_depth > 0 THEN rdy_depth - 1 ELSE 0
  /\ Goto(c, "start")
  /\ UNCHANGED <<board, state, chipVars, powerVars, suspended, tpc, op, saved>>

hsspi_start(c) ==
  /\ cpc[c] = "start"
  /\ state' = "RUNNING"
  /\ Goto(c, "idle")
  /\ UNCHANGED <<board, rdy_depth, chipVars, powerVars, suspended, tpc, op,
                 saved>>

-----------------------------------------------------------------------------
(***************************************************************************)
(* The other contexts: the HSSPI thread, and the ss_irq interrupt.         *)
(***************************************************************************)

\* A job begins while HSSPI runs, or was queued before the completion of a
\* stop that is still waiting.
ThreadBegin ==
  /\ tpc = "idle"
  /\ state = "RUNNING" \/ \E c \in Callers : cpc[c] = "fence"
  /\ tpc' = "bus"
  /\ UNCHANGED <<board, state, rdy_depth, chipVars, powerVars, suspended,
                 callerVars>>

ThreadEnd ==
  /\ tpc = "bus"
  /\ tpc' = "idle"
  /\ UNCHANGED <<board, state, rdy_depth, chipVars, powerVars, suspended,
                 callerVars>>

\* qm35_reset_hook, after too many errors.
qm35_reset_hook_assert ==
  /\ tpc = "bus"
  /\ HasReset
  /\ dev_state' = "RESET"
  /\ gpio_reset' = TRUE
  /\ tpc' = "deassert"
  /\ UNCHANGED <<board, state, rdy_depth, powerVars, suspended, callerVars>>

qm35_reset_hook_deassert ==
  /\ tpc = "deassert"
  /\ gpio_reset' = FALSE
  /\ dev_state' = "UNKNOWN"
  /\ tpc' = "idle"
  /\ UNCHANGED <<board, state, rdy_depth, powerVars, suspended, callerVars>>

qm35_irq_handler ==
  /\ ~gpio_reset
  /\ ~suspended
  /\ dev_state' = "READY"
  /\ UNCHANGED <<board, state, rdy_depth, gpio_reset, powerVars, suspended,
                 tpc, callerVars>>

-----------------------------------------------------------------------------
\* The steps of a caller inside its call.
CallRuns(c) ==
  \/ hsspi_stop(c)
  \/ hsspi_stop_return(c)
  \/ qm35_hsspi_stop_disable(c)
  \/ qm35_pm_suspend(c)
  \/ qm_firmware_load(c)
  \/ reset_begin(c)
  \/ qm35_regulators_set(c)
  \/ \E ok \in BOOLEAN : qm35_regulator_set_one(c, ok)
  \/ qm35_reset_nodev(c)
  \/ qm35_reset_assert(c)
  \/ qm35_reset_deassert(c)
  \/ qmrom_init_failed(c)
  \/ qmrom_flash_fw(c, FALSE)
  \/ qm_firmware_load_return(c)
  \/ qm35_hsspi_start_check(c)
  \/ qm35_hsspi_start_enable(c)
  \/ hsspi_start(c)

Call(c) ==
  \/ \E o \in Ops : qm35_hsspi_stop_check(c, o)
  \/ CallRuns(c)
  \/ qmrom_flash_fw(c, TRUE)

ThreadEnds == ThreadEnd \/ qm35_reset_hook_assert \/ qm35_reset_hook_deassert

Next ==
  \/ \E c \in Callers : Call(c)
  \/ ThreadBegin \/ ThreadEnds
  \/ qm35_irq_handler

Spec == Init /\ [][Next]_vars

(***************************************************************************)
(* Fairness: a caller inside its call and the thread inside a job run on;  *)
(* hsspi_stop returns although the thread may begin other jobs first (what *)
(* BlockedCallsReturn of module Hsspi says); libqmrom gives up after a     *)
(* bounded number of attempts.                                             *)
(***************************************************************************)
Fairness ==
  /\ WF_vars(ThreadEnds)
  /\ \A c \in Callers : /\ WF_vars(CallRuns(c))
                        /\ SF_vars(hsspi_stop_return(c))
                        /\ SF_vars(qmrom_flash_fw(c, FALSE))

FairSpec == Spec /\ Fairness

-----------------------------------------------------------------------------
(***************************************************************************)
(* Properties.  They are about one caller at a time: the README says what  *)
(* concurrent callers do to them.                                          *)
(***************************************************************************)

TypeOK ==
  /\ board \in [regulators : BOOLEAN, reset : BOOLEAN]
  /\ state \in {"RUNNING", "STOPPED"}
  /\ rdy_depth \in 0..1
  /\ dev_state \in DevStates
  /\ gpio_reset \in BOOLEAN
  /\ regulators_enabled \in BOOLEAN
  /\ reg_count \in Nat
  /\ enable_failed \in BOOLEAN
  /\ disable_fails \in 0..MaxRegFails
  /\ suspended \in BOOLEAN
  /\ tpc \in {"idle", "bus", "deassert"}
  /\ cpc \in [Callers -> CallerPcs]
  /\ op \in [Callers -> Ops]
  /\ saved \in [Callers -> DevStates]

Quiet == \A c \in Callers : cpc[c] = "idle"

\* While a caller resets the QM35 or talks to its ROM code, the HSSPI thread
\* neither uses the SPI bus nor resets the QM35 itself.
QmIsExclusive ==
  (\E c \in Callers : cpc[c] \in {"assert", "deassert", "bus"}) => tpc = "idle"

\* When no call is under way the ss_rdy interrupt is enabled if HSSPI runs
\* ("nothing to do as HSSPI is already started", qm35_hsspi_start): else no
\* transfer could ever succeed again.
StartedIsListening == Quiet /\ state = "RUNNING" => rdy_depth = 0

\* The regulators follow the flag as far as they obey, after repeated requests
\* and every order of reset, upload and power calls: a set flag means that they
\* are on, unless the last regulator_enable failed; and the driver holds one
\* use of them for the flag and at most one for each regulator_disable that
\* failed.  qm35_regulators_set logs a failure and keeps the flag, so that one
\* failed disable leaves a regulator on for good, also after later requests.
PowerFollowsFlag ==
  Quiet /\ HasRegulators =>
    /\ regulators_enabled /\ ~enable_failed => reg_count >= 1
    /\ reg_count <= (IF regulators_enabled THEN 1 ELSE 0) + disable_fails

\* A call that stopped HSSPI to reset, flash, power on or resume gives it
\* back, whatever the outcome of its work.
TransportComesBack ==
  \A c \in Callers :
    (cpc[c] # "idle" /\ op[c] \in {"reset", "upload", "rom", "on", "resume"})
      ~> (cpc[c] = "idle" /\ state = "RUNNING")
==============================================================================
