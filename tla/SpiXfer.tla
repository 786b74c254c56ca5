------------------------------ MODULE SpiXfer ------------------------------
(***************************************************************************)
(* One SPI transfer (spi_xfer, hsspi_wait_ss_ready in hsspi.c) against the *)
(* firmware's ss_ready and exton lines and their interrupt handlers        *)
(* (qm35-spi.c).  The flags SS_BUSY and SS_READY, waiting_ss_rdy and the   *)
(* wakeup pin are shared by the thread and two handlers that may run on    *)
(* other CPUs, so every access to one of them is a step.                   *)
(*                                                                         *)
(* With the default parameters: wakeup pin, no csn, reset_on_error.        *)
(***************************************************************************)
EXTENDS Integers

CONSTANTS
  Retries,    \* attempts of spi_xfer: 5 in the code
  MaxErrors,  \* MAX_SUCCESSIVE_ERRORS
  MaxUpsets   \* bound: sleeps of the firmware and bus errors in a behaviour

ASSUME SpiXferAssumption ==
  Retries \in Nat \ {0} /\ MaxErrors \in Nat /\ MaxUpsets \in Nat

VARIABLES
  xpc,        \* where the thread is in spi_xfer
  retry,      \* attempts left
  errors,     \* successive_errors
  ss_busy,    \* HSSPI_FLAGS_SS_BUSY
  ss_ready,   \* HSSPI_FLAGS_SS_READY
  waiting,    \* waiting_ss_rdy
  wakeup,     \* level of the wakeup pin
  rdy_irq,    \* ss_rdy edge latched, not yet handled
  rdy_isr,    \* where qm35_ss_rdy_handler is
  ext_irq,    \* exton falling edge latched, not yet handled
  ext_isr,    \* where qm35_exton_handler is
  fw,         \* what the firmware does
  upsets,     \* sleeps and bus errors so far
  cut,        \* history: the last transfer failed before the firmware saw it
  timely      \* the behaviour has no timeout while something is on its way

hostVars == <<xpc, retry, errors>>
isrVars  == <<rdy_irq, rdy_isr, ext_irq, ext_isr>>
vars == <<hostVars, ss_busy, ss_ready, waiting, wakeup, isrVars, fw, upsets,
          cut, timely>>

XferPcs == {"idle", "enter", "test_busy", "clear", "gpio", "exton", "wake",
            "sleep", "recheck", "awake", "set_busy", "xfer", "not_ready",
            "again", "ok", "err", "reset"}

\* ready: ss_ready is high; busy: awake, ss_ready low; asleep: exton low;
\* rom: in the ROM code after wake-up or reset; cmd: the ROM code took a
\* transfer for a command and stays there.
FwStates == {"ready", "busy", "asleep", "rom", "cmd"}

SsReadyLevel == fw = "ready"
ExtonLevel   == fw # "asleep"

Init ==
  /\ xpc = "idle" /\ retry = 0 /\ errors = 0
  /\ ss_busy = FALSE /\ ss_ready = FALSE /\ waiting = FALSE /\ wakeup = FALSE
  /\ rdy_irq = FALSE /\ rdy_isr = "idle"
  /\ ext_irq = FALSE /\ ext_isr = "idle"
  /\ fw = "rom"
  /\ upsets = 0
  /\ cut = FALSE
  /\ timely \in BOOLEAN

-----------------------------------------------------------------------------
(***************************************************************************)
(* hsspi_wait_ss_ready.                                                    *)
(***************************************************************************)

Goto(p) == xpc' = p /\ UNCHANGED <<retry, errors>>

spi_xfer_begin ==
  /\ xpc = "idle"
  /\ xpc' = "enter"
  /\ retry' = Retries
  /\ UNCHANGED <<errors, ss_busy, ss_ready, waiting, wakeup, isrVars, fw,
                 upsets, cut, timely>>

wait_enter_NotWaiting ==
  /\ xpc = "enter"
  /\ Goto("test_busy")
  /\ UNCHANGED <<waiting, ss_busy, ss_ready, wakeup, isrVars, fw, upsets, cut,
                 timely>>

wait_enter ==
  /\ xpc = "enter"
  /\ waiting' = TRUE
  /\ Goto("test_busy")
  /\ UNCHANGED <<ss_busy, ss_ready, wakeup, isrVars, fw, upsets, cut, timely>>

wait_test_busy ==
  /\ xpc = "test_busy"
  /\ Goto(IF ss_busy THEN "exton" ELSE "clear")
  /\ UNCHANGED <<ss_busy, ss_ready, waiting, wakeup, isrVars, fw, upsets, cut,
                 timely>>

wait_clear_ready ==
  /\ xpc = "clear"
  /\ ss_ready' = FALSE
  /\ Goto("gpio")
  /\ UNCHANGED <<ss_busy, waiting, wakeup, isrVars, fw, upsets, cut, timely>>

\* ss_ready is high: return 0 at once, with waiting_ss_rdy still set.
wait_gpio ==
  /\ xpc = "gpio"
  /\ Goto(IF SsReadyLevel THEN "set_busy" ELSE "exton")
  /\ UNCHANGED <<ss_busy, ss_ready, waiting, wakeup, isrVars, fw, upsets, cut,
                 timely>>

wait_exton ==
  /\ xpc = "exton"
  /\ Goto(IF ExtonLevel THEN "sleep" ELSE "wake")
  /\ UNCHANGED <<ss_busy, ss_ready, waiting, wakeup, isrVars, fw, upsets, cut,
                 timely>>

wait_wakeup ==
  /\ xpc = "wake"
  /\ wakeup' = TRUE
  /\ Goto("sleep")
  /\ UNCHANGED <<ss_busy, ss_ready, waiting, isrVars, fw, upsets, cut, timely>>

\* test_and_clear_bit(SS_READY) succeeds.
wait_event_ready ==
  /\ xpc = "sleep"
  /\ ss_ready
  /\ ss_ready' = FALSE
  /\ Goto("recheck")
  /\ UNCHANGED <<ss_busy, waiting, wakeup, isrVars, fw, upsets, cut, timely>>

\* Something the 250 ms of the timeout are longer than is under way.
UnderWay ==
  \/ rdy_irq \/ rdy_isr # "idle" \/ ext_irq \/ ext_isr # "idle"
  \/ fw \in {"rom", "busy"}
  \/ fw = "asleep" /\ wakeup

wait_event_timeout ==
  /\ xpc = "sleep"
  /\ ~ss_ready
  /\ timely => ~UnderWay
  /\ Goto("again")
  /\ UNCHANGED <<ss_busy, ss_ready, waiting, wakeup, isrVars, fw, upsets, cut,
                 timely>>

\* The workaround for the short ss_ready toggle of the ROM code.
wait_recheck ==
  /\ xpc = "recheck"
  /\ Goto(IF SsReadyLevel THEN "awake" ELSE "again")
  /\ UNCHANGED <<ss_busy, ss_ready, waiting, wakeup, isrVars, fw, upsets, cut,
                 timely>>

\* ss_ready was high a moment ago: waiting_ss_rdy is cleared, return 0.
wait_return ==
  /\ xpc = "awake"
  /\ waiting' = FALSE
  /\ Goto("set_busy")
  /\ UNCHANGED <<ss_busy, ss_ready, wakeup, isrVars, fw, upsets, cut, timely>>

-----------------------------------------------------------------------------
(***************************************************************************)
(* spi_xfer.                                                               *)
(***************************************************************************)

hsspi_set_spi_slave_busy ==
  /\ xpc = "set_busy"
  /\ ss_busy' = TRUE
  /\ Goto("xfer")
  /\ UNCHANGED <<ss_ready, waiting, wakeup, isrVars, fw, upsets, cut, timely>>

\* spi_sync_transfer with the firmware ready: it answers with STC_SOC_RDY and
\* lowers ss_ready while it handles the transfer.
spi_sync_transfer_ready ==
  /\ xpc = "xfer"
  /\ fw = "ready"
  /\ fw' = "busy"
  /\ cut' = FALSE
  /\ Goto("ok")
  /\ UNCHANGED <<ss_busy, ss_ready, waiting, wakeup, isrVars, upsets, timely>>

\* With anything else on the other side there is no STC_SOC_RDY; the ROM code
\* takes the transfer for a command.
spi_sync_transfer_not_ready ==
  /\ xpc = "xfer"
  /\ fw # "ready"
  /\ fw' = IF fw = "rom" THEN "cmd" ELSE fw
  /\ cut' = FALSE
  /\ Goto("not_ready")
  /\ UNCHANGED <<ss_busy, ss_ready, waiting, wakeup, isrVars, upsets, timely>>

\* spi_sync_transfer fails on the bus, before or after the firmware took part:
\* an error other than -EAGAIN, not retried.
spi_sync_transfer_error(seen) ==
  /\ xpc = "xfer"
  /\ upsets < MaxUpsets
  /\ upsets' = upsets + 1
  /\ fw' = IF seen /\ fw = "ready" THEN "busy" ELSE fw
  /\ cut' = ~seen
  /\ Goto("err")
  /\ UNCHANGED <<ss_busy, ss_ready, waiting, wakeup, isrVars, timely>>

spi_xfer_wakeup ==
  /\ xpc = "not_ready"
  /\ wakeup' = TRUE
  /\ Goto("again")
  /\ UNCHANGED <<ss_busy, ss_ready, waiting, isrVars, fw, upsets, cut, timely>>

\* while ((ret == -EAGAIN) && (--retry > 0))
spi_xfer_again ==
  /\ xpc = "again"
  /\ retry' = retry - 1
  /\ xpc' = IF retry - 1 > 0 THEN "enter" ELSE "err"
  /\ UNCHANGED <<errors, ss_busy, ss_ready, waiting, wakeup, isrVars, fw,
                 upsets, cut, timely>>

\* spi_xfer returns, and hsspi_thread_fn counts successive errors.
spi_xfer_end ==
  /\ xpc \in {"ok", "err"}
  /\ waiting' = FALSE
  /\ retry' = 0
  /\ errors' = IF xpc = "ok" THEN 0 ELSE errors + 1
  /\ xpc' = IF xpc = "err" /\ errors + 1 > MaxErrors THEN "reset" ELSE "idle"
  /\ UNCHANGED <<ss_busy, ss_ready, wakeup, isrVars, fw, upsets, cut, timely>>

\* qm35_reset_hook: whatever the firmware was doing, it restarts.
qm35_reset_hook_NoReset ==
  /\ xpc = "reset"
  /\ errors' = 0
  /\ xpc' = "idle"
  /\ UNCHANGED <<retry, ss_busy, ss_ready, waiting, wakeup, isrVars, fw,
                 upsets, cut, timely>>

qm35_reset_hook ==
  /\ xpc = "reset"
  /\ fw' = "rom"
  /\ cut' = FALSE
  /\ errors' = 0
  /\ xpc' = "idle"
  /\ UNCHANGED <<retry, ss_busy, ss_ready, waiting, wakeup, isrVars, upsets,
                 timely>>

-----------------------------------------------------------------------------
(***************************************************************************)
(* The interrupt handlers.                                                 *)
(***************************************************************************)

qm35_ss_rdy_handler ==
  /\ rdy_irq
  /\ rdy_isr = "idle"
  /\ rdy_irq' = FALSE
  /\ wakeup' = FALSE
  /\ rdy_isr' = "clear_busy"
  /\ UNCHANGED <<hostVars, ss_busy, ss_ready, waiting, ext_irq, ext_isr, fw,
                 upsets, cut, timely>>

hsspi_clear_spi_slave_busy_Skip ==
  /\ rdy_isr = "clear_busy"
  /\ rdy_isr' = "set_ready"
  /\ UNCHANGED <<hostVars, ss_busy, ss_ready, waiting, wakeup, rdy_irq, ext_irq,
                 ext_isr, fw, upsets, cut, timely>>

hsspi_clear_spi_slave_busy ==
  /\ rdy_isr = "clear_busy"
  /\ ss_busy' = FALSE
  /\ rdy_isr' = "set_ready"
  /\ UNCHANGED <<hostVars, ss_ready, waiting, wakeup, rdy_irq, ext_irq, ext_isr,
                 fw, upsets, cut, timely>>

hsspi_set_spi_slave_ready ==
  /\ rdy_isr = "set_ready"
  /\ ss_ready' = TRUE
  /\ rdy_isr' = "idle"
  /\ UNCHANGED <<hostVars, ss_busy, waiting, wakeup, rdy_irq, ext_irq, ext_isr,
                 fw, upsets, cut, timely>>

\* qm35_exton_handler clears SS_READY first ...
qm35_exton_handler ==
  /\ ext_irq
  /\ ext_isr = "idle"
  /\ ext_irq' = FALSE
  /\ ss_ready' = FALSE
  /\ ext_isr' = "test"
  /\ UNCHANGED <<hostVars, ss_busy, waiting, wakeup, rdy_irq, rdy_isr, fw,
                 upsets, cut, timely>>

\* ... then wakes the QM35 up if the thread is waiting for it.
qm35_exton_wakeup ==
  /\ ext_isr = "test"
  /\ wakeup' = (wakeup \/ waiting)
  /\ ext_isr' = "idle"
  /\ UNCHANGED <<hostVars, ss_busy, ss_ready, waiting, rdy_irq, rdy_isr,
                 ext_irq, fw, upsets, cut, timely>>

-----------------------------------------------------------------------------
(***************************************************************************)
(* The firmware, as far as the driver relies on it.                        *)
(***************************************************************************)

FwReady ==
  /\ fw = "busy"
  /\ fw' = "ready"
  /\ rdy_irq' = TRUE
  /\ UNCHANGED <<hostVars, ss_busy, ss_ready, waiting, wakeup, rdy_isr, ext_irq,
                 ext_isr, upsets, cut, timely>>

FwSleep ==
  /\ fw \in {"ready", "busy"}
  /\ upsets < MaxUpsets
  /\ upsets' = upsets + 1
  /\ fw' = "asleep"
  /\ ext_irq' = TRUE
  /\ UNCHANGED <<hostVars, ss_busy, ss_ready, waiting, wakeup, rdy_irq, rdy_isr,
                 ext_isr, cut, timely>>

\* The ROM code may toggle ss_ready for less than the driver can see: only the
\* latched edge is left of it.
FwWake(toggle) ==
  /\ fw = "asleep"
  /\ wakeup
  /\ fw' = "rom"
  /\ rdy_irq' = (rdy_irq \/ toggle)
  /\ UNCHANGED <<hostVars, ss_busy, ss_ready, waiting, wakeup, rdy_isr, ext_irq,
                 ext_isr, upsets, cut, timely>>

FwBoot ==
  /\ fw = "rom"
  /\ fw' = "busy"
  /\ UNCHANGED <<hostVars, ss_busy, ss_ready, waiting, wakeup, isrVars, upsets,
                 cut, timely>>

-----------------------------------------------------------------------------
Thread ==
  \/ spi_xfer_begin \/ wait_enter \/ wait_test_busy \/ wait_clear_ready
  \/ wait_gpio \/ wait_exton \/ wait_wakeup
  \/ wait_event_ready \/ wait_event_timeout \/ wait_recheck \/ wait_return
  \/ hsspi_set_spi_slave_busy
  \/ spi_sync_transfer_ready \/ spi_sync_transfer_not_ready
  \/ \E seen \in BOOLEAN : spi_sync_transfer_error(seen)
  \/ spi_xfer_wakeup \/ spi_xfer_again \/ spi_xfer_end \/ qm35_reset_hook

RdyInterrupt ==
  \/ qm35_ss_rdy_handler \/ hsspi_clear_spi_slave_busy
  \/ hsspi_set_spi_slave_ready

ExtInterrupt == qm35_exton_handler \/ qm35_exton_wakeup

FwProgress == FwReady \/ FwBoot \/ \E toggle \in BOOLEAN : FwWake(toggle)

Next == Thread \/ RdyInterrupt \/ ExtInterrupt \/ FwProgress \/ FwSleep

\* The thread keeps trying (unread output keeps SS_IRQ set), interrupts are
\* served, and the firmware that is booting or busy becomes ready.
Fairness ==
  WF_vars(Thread) /\ WF_vars(RdyInterrupt) /\ WF_vars(ExtInterrupt)
    /\ WF_vars(FwProgress)

Spec == Init /\ [][Next]_vars /\ Fairness

-----------------------------------------------------------------------------
TypeOK ==
  /\ xpc \in XferPcs
  /\ retry \in 0..Retries
  /\ errors \in 0..(MaxErrors + 1)
  /\ ss_busy \in BOOLEAN /\ ss_ready \in BOOLEAN
  /\ waiting \in BOOLEAN /\ wakeup \in BOOLEAN
  /\ rdy_irq \in BOOLEAN /\ rdy_isr \in {"idle", "clear_busy", "set_ready"}
  /\ ext_irq \in BOOLEAN /\ ext_isr \in {"idle", "test"}
  /\ fw \in FwStates
  /\ upsets \in 0..MaxUpsets
  /\ cut \in BOOLEAN /\ timely \in BOOLEAN

Quiet == ~rdy_irq /\ rdy_isr = "idle" /\ ~ext_irq /\ ext_isr = "idle"

\* The thread never sleeps on a sleeping QM35: when it waits for SS_READY, no
\* handler has anything left to do and the firmware sleeps, the wakeup pin is
\* up, whichever order the exton test, the exton interrupt and a late ss_rdy
\* interrupt (which lowers the pin) came in.
SleepingQmIsWoken ==
  xpc = "sleep" /\ ~ss_ready /\ fw = "asleep" /\ Quiet => wakeup

\* A wait that no interrupt will end (a late exton handler erased SS_READY
\* after the firmware was back) is recovered by its timeout: SS_BUSY is clear,
\* so the next attempt looks at the ss_ready line itself.  The exception is a
\* transfer lost on the bus, which only the reset on errors recovers.
TimeoutRecovers ==
  xpc = "sleep" /\ ~ss_ready /\ fw = "ready" /\ Quiet => ~ss_busy \/ cut

\* Whatever was lost on the way, the transfers resume: every attempt is
\* followed by one that succeeds, after a reset of the QM35 at worst.
TransfersResume == (timely /\ xpc = "enter") ~> (xpc = "ok")
=============================================================================
