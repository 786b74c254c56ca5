--------------------------- MODULE SpiXferProofs ---------------------------
(***************************************************************************)
(* Proofs about SpiXfer: the thread never waits for a sleeping QM35 that   *)
(* nobody wakes, and a wait that lost its interrupt is recovered by its    *)
(* timeout, for every number of retries, errors and upsets.                *)
(***************************************************************************)
EXTENDS SpiXfer, TLAPS

\* Where spi_xfer is between its first attempt and its return.
Attempting == XferPcs \ {"idle", "ok", "err", "reset"}

\* An attempt under way has at least one retry left to count down, and only a
\* thread that is about to reset the QM35 has counted one error too many.
CountersInv ==
  /\ xpc \in Attempting => retry >= 1
  /\ xpc # "reset" => errors <= MaxErrors

\* While hsspi_wait_ss_ready runs, the exton handler sees waiting_ss_rdy.
WaitIsShown ==
  xpc \in {"test_busy", "clear", "gpio", "exton", "wake", "sleep", "recheck"}
    => waiting

\* A handler that has an edge to serve, or that is in the middle of serving it.
ExtPending == ext_irq \/ ext_isr = "test"
RdyPending == rdy_irq \/ rdy_isr \in {"clear_busy", "set_ready"}

\* The strengthening of SleepingQmIsWoken: a wait for a sleeping QM35 is ended
\* by SS_READY, by one of the two handlers, or by the wakeup pin.
WaitIsEnded ==
  xpc = "sleep" /\ fw = "asleep"
    => ss_ready \/ ExtPending \/ RdyPending \/ wakeup

\* The strengthening of TimeoutRecovers: SS_BUSY with ss_ready high lasts for
\* the transfer itself, or until the handler of the edge clears it.
BusyIsCleared ==
  fw = "ready" /\ ss_busy
    => cut \/ rdy_irq \/ rdy_isr = "clear_busy" \/ xpc = "xfer"

SleepInv == TypeOK /\ CountersInv /\ WaitIsShown /\ WaitIsEnded /\ BusyIsCleared

-----------------------------------------------------------------------------
\* The two halves of TypeOK: the flags and lines, and the rest.
FlagsOK ==
  /\ ss_busy \in BOOLEAN /\ ss_ready \in BOOLEAN
  /\ waiting \in BOOLEAN /\ wakeup \in BOOLEAN
  /\ rdy_irq \in BOOLEAN /\ ext_irq \in BOOLEAN
  /\ cut \in BOOLEAN /\ timely \in BOOLEAN

RestOK ==
  /\ xpc \in XferPcs
  /\ retry \in 0..Retries
  /\ errors \in 0..(MaxErrors + 1)
  /\ rdy_isr \in {"idle", "clear_busy", "set_ready"}
  /\ ext_isr \in {"idle", "test"}
  /\ fw \in FwStates
  /\ upsets \in 0..MaxUpsets

LEMMA InitInv == Init => SleepInv
<1> SUFFICES ASSUME Init PROVE SleepInv
  OBVIOUS
<1>1. FlagsOK
  BY Zenon DEF Init, FlagsOK
<1>2. RestOK
  BY SpiXferAssumption DEF Init, RestOK, XferPcs, FwStates
<1>3. CountersInv /\ WaitIsShown /\ WaitIsEnded /\ BusyIsCleared
  BY SpiXferAssumption
     DEF Init, CountersInv, WaitIsShown, WaitIsEnded, BusyIsCleared, Attempting
<1> QED
  BY <1>1, <1>2, <1>3 DEF SleepInv, TypeOK, FlagsOK, RestOK

\* The types and the counters, from one step to the next.
LEMMA TypeStep ==
  ASSUME SleepInv, [Next]_vars PROVE TypeOK' /\ CountersInv'
<1> USE SpiXferAssumption
        DEF SleepInv, TypeOK, CountersInv, Attempting, XferPcs, FwStates,
            hostVars, isrVars, Goto
<1>1. CASE spi_xfer_begin
  BY <1>1 DEF spi_xfer_begin
<1>2. CASE wait_enter
  BY <1>2 DEF wait_enter
<1>3. CASE wait_test_busy
  BY <1>3 DEF wait_test_busy
<1>4. CASE wait_clear_ready
  <2>1. FlagsOK'
    BY <1>4, Zenon DEF wait_clear_ready, FlagsOK
  <2>2. RestOK' /\ CountersInv'
    BY <1>4 DEF wait_clear_ready, RestOK
  <2> QED
    BY <2>1, <2>2 DEF FlagsOK, RestOK
<1>5. CASE wait_gpio
  BY <1>5 DEF wait_gpio, SsReadyLevel
<1>6. CASE wait_exton
  BY <1>6 DEF wait_exton, ExtonLevel
<1>7. CASE wait_wakeup
  BY <1>7 DEF wait_wakeup
<1>8. CASE wait_event_ready
  <2>1. FlagsOK'
    BY <1>8, Zenon DEF wait_event_ready, FlagsOK
  <2>2. RestOK' /\ CountersInv'
    BY <1>8 DEF wait_event_ready, RestOK
  <2> QED
    BY <2>1, <2>2 DEF FlagsOK, RestOK
<1>9. CASE wait_event_timeout
  BY <1>9 DEF wait_event_timeout
<1>10. CASE wait_recheck
  BY <1>10 DEF wait_recheck, SsReadyLevel
<1>29. CASE wait_return
  <2>1. FlagsOK'
    BY <1>29, Zenon DEF wait_return, FlagsOK
  <2>2. RestOK' /\ CountersInv'
    BY <1>29 DEF wait_return, RestOK
  <2> QED
    BY <2>1, <2>2 DEF FlagsOK, RestOK
<1>11. CASE hsspi_set_spi_slave_busy
  BY <1>11 DEF hsspi_set_spi_slave_busy
<1>12. CASE spi_sync_transfer_ready
  <2>1. FlagsOK'
    BY <1>12, Zenon DEF spi_sync_transfer_ready, FlagsOK
  <2>2. RestOK' /\ CountersInv'
    BY <1>12 DEF spi_sync_transfer_ready, RestOK
  <2> QED
    BY <2>1, <2>2 DEF FlagsOK, RestOK
<1>13. CASE spi_sync_transfer_not_ready
  <2>1. FlagsOK'
    BY <1>13, Zenon DEF spi_sync_transfer_not_ready, FlagsOK
  <2>2. RestOK' /\ CountersInv'
    BY <1>13 DEF spi_sync_transfer_not_ready, RestOK
  <2> QED
    BY <2>1, <2>2 DEF FlagsOK, RestOK
<1>14. CASE \E seen \in BOOLEAN : spi_sync_transfer_error(seen)
  BY <1>14 DEF spi_sync_transfer_error
<1>15. CASE spi_xfer_wakeup
  BY <1>15 DEF spi_xfer_wakeup
<1>16. CASE spi_xfer_again
  BY <1>16 DEF spi_xfer_again
<1>17. CASE spi_xfer_end
  <2>1. FlagsOK'
    BY <1>17, Zenon DEF spi_xfer_end, FlagsOK
  <2>2. RestOK' /\ CountersInv'
    BY <1>17 DEF spi_xfer_end, RestOK
  <2> QED
    BY <2>1, <2>2 DEF FlagsOK, RestOK
<1>18. CASE qm35_reset_hook
  <2>1. FlagsOK'
    BY <1>18, Zenon DEF qm35_reset_hook, FlagsOK
  <2>2. RestOK' /\ CountersInv'
    BY <1>18 DEF qm35_reset_hook, RestOK
  <2> QED
    BY <2>1, <2>2 DEF FlagsOK, RestOK
<1>19. CASE qm35_ss_rdy_handler
  <2>1. FlagsOK'
    BY <1>19, Zenon DEF qm35_ss_rdy_handler, FlagsOK
  <2>2. RestOK' /\ CountersInv'
    BY <1>19 DEF qm35_ss_rdy_handler, RestOK
  <2> QED
    BY <2>1, <2>2 DEF FlagsOK, RestOK
<1>20. CASE hsspi_clear_spi_slave_busy
  <2>1. FlagsOK'
    BY <1>20, Zenon DEF hsspi_clear_spi_slave_busy, FlagsOK
  <2>2. RestOK' /\ CountersInv'
    BY <1>20 DEF hsspi_clear_spi_slave_busy, RestOK
  <2> QED
    BY <2>1, <2>2 DEF FlagsOK, RestOK
<1>21. CASE hsspi_set_spi_slave_ready
  BY <1>21 DEF hsspi_set_spi_slave_ready
<1>22. CASE qm35_exton_handler
  <2>1. FlagsOK'
    BY <1>22, Zenon DEF qm35_exton_handler, FlagsOK
  <2>2. RestOK' /\ CountersInv'
    BY <1>22 DEF qm35_exton_handler, RestOK
  <2> QED
    BY <2>1, <2>2 DEF FlagsOK, RestOK
<1>23. CASE qm35_exton_wakeup
  BY <1>23 DEF qm35_exton_wakeup
<1>24. CASE FwReady
  BY <1>24 DEF FwReady
<1>25. CASE FwBoot
  BY <1>25 DEF FwBoot
<1>26. CASE \E toggle \in BOOLEAN : FwWake(toggle)
  BY <1>26 DEF FwWake
<1>27. CASE FwSleep
  BY <1>27 DEF FwSleep
<1>28. CASE UNCHANGED vars
  BY <1>28 DEF vars
<1> QED
  BY <1>1, <1>2, <1>3, <1>4, <1>5, <1>6, <1>7, <1>8, <1>9, <1>10, <1>11, <1>12,
     <1>13, <1>14, <1>15, <1>16, <1>17, <1>18, <1>19, <1>20, <1>21, <1>22,
     <1>23, <1>24, <1>25, <1>26, <1>27, <1>28, <1>29
     DEF Next, Thread, RdyInterrupt, ExtInterrupt, FwProgress

\* The thread shows that it waits before it looks at exton, and the handler
\* that lowers the wakeup pin sets SS_READY after it.
LEMMA WaitStep ==
  ASSUME SleepInv, [Next]_vars PROVE WaitIsShown' /\ WaitIsEnded'
<1> USE DEF SleepInv, TypeOK, WaitIsShown, WaitIsEnded, ExtPending, RdyPending,
            FwStates, hostVars, isrVars, Goto
<1>1. CASE spi_xfer_begin
  BY <1>1 DEF spi_xfer_begin
<1>2. CASE wait_enter
  BY <1>2 DEF wait_enter
<1>3. CASE wait_test_busy
  BY <1>3 DEF wait_test_busy
<1>4. CASE wait_clear_ready
  BY <1>4 DEF wait_clear_ready
<1>5. CASE wait_gpio
  BY <1>5 DEF wait_gpio, SsReadyLevel
<1>6. CASE wait_exton
  BY <1>6 DEF wait_exton, ExtonLevel
<1>7. CASE wait_wakeup
  BY <1>7 DEF wait_wakeup
<1>8. CASE wait_event_ready
  BY <1>8 DEF wait_event_ready
<1>9. CASE wait_event_timeout
  BY <1>9 DEF wait_event_timeout
<1>10. CASE wait_recheck
  BY <1>10 DEF wait_recheck, SsReadyLevel
<1>29. CASE wait_return
  BY <1>29 DEF wait_return
<1>11. CASE hsspi_set_spi_slave_busy
  BY <1>11 DEF hsspi_set_spi_slave_busy
<1>12. CASE spi_sync_transfer_ready
  BY <1>12 DEF spi_sync_transfer_ready
<1>13. CASE spi_sync_transfer_not_ready
  BY <1>13 DEF spi_sync_transfer_not_ready
<1>14. CASE \E seen \in BOOLEAN : spi_sync_transfer_error(seen)
  BY <1>14 DEF spi_sync_transfer_error
<1>15. CASE spi_xfer_wakeup
  BY <1>15 DEF spi_xfer_wakeup
<1>16. CASE spi_xfer_again
  BY <1>16 DEF spi_xfer_again
<1>17. CASE spi_xfer_end
  BY <1>17 DEF spi_xfer_end
<1>18. CASE qm35_reset_hook
  BY <1>18 DEF qm35_reset_hook
<1>19. CASE qm35_ss_rdy_handler
  BY <1>19 DEF qm35_ss_rdy_handler
<1>20. CASE hsspi_clear_spi_slave_busy
  BY <1>20 DEF hsspi_clear_spi_slave_busy
<1>21. CASE hsspi_set_spi_slave_ready
  BY <1>21 DEF hsspi_set_spi_slave_ready
<1>22. CASE qm35_exton_handler
  BY <1>22 DEF qm35_exton_handler
<1>23. CASE qm35_exton_wakeup
  BY <1>23 DEF qm35_exton_wakeup
<1>24. CASE FwReady
  BY <1>24 DEF FwReady
<1>25. CASE FwBoot
  BY <1>25 DEF FwBoot
<1>26. CASE \E toggle \in BOOLEAN : FwWake(toggle)
  BY <1>26 DEF FwWake
<1>27. CASE FwSleep
  BY <1>27 DEF FwSleep
<1>28. CASE UNCHANGED vars
  BY <1>28 DEF vars
<1> QED
  BY <1>1, <1>2, <1>3, <1>4, <1>5, <1>6, <1>7, <1>8, <1>9, <1>10, <1>11, <1>12,
     <1>13, <1>14, <1>15, <1>16, <1>17, <1>18, <1>19, <1>20, <1>21, <1>22,
     <1>23, <1>24, <1>25, <1>26, <1>27, <1>28, <1>29
     DEF Next, Thread, RdyInterrupt, ExtInterrupt, FwProgress

\* SS_BUSY is set for a transfer, which takes the firmware out of ready or is
\* cut; the next edge clears it.
LEMMA BusyStep ==
  ASSUME SleepInv, [Next]_vars PROVE BusyIsCleared'
<1> USE DEF SleepInv, TypeOK, BusyIsCleared, FwStates, hostVars, isrVars, Goto
<1>1. CASE spi_xfer_begin
  BY <1>1 DEF spi_xfer_begin
<1>2. CASE wait_enter
  BY <1>2 DEF wait_enter
<1>3. CASE wait_test_busy
  BY <1>3 DEF wait_test_busy
<1>4. CASE wait_clear_ready
  BY <1>4 DEF wait_clear_ready
<1>5. CASE wait_gpio
  BY <1>5 DEF wait_gpio, SsReadyLevel
<1>6. CASE wait_exton
  BY <1>6 DEF wait_exton, ExtonLevel
<1>7. CASE wait_wakeup
  BY <1>7 DEF wait_wakeup
<1>8. CASE wait_event_ready
  BY <1>8 DEF wait_event_ready
<1>9. CASE wait_event_timeout
  BY <1>9 DEF wait_event_timeout
<1>10. CASE wait_recheck
  BY <1>10 DEF wait_recheck, SsReadyLevel
<1>29. CASE wait_return
  BY <1>29 DEF wait_return
<1>11. CASE hsspi_set_spi_slave_busy
  BY <1>11 DEF hsspi_set_spi_slave_busy
<1>12. CASE spi_sync_transfer_ready
  BY <1>12 DEF spi_sync_transfer_ready
<1>13. CASE spi_sync_transfer_not_ready
  BY <1>13 DEF spi_sync_transfer_not_ready
<1>14. CASE \E seen \in BOOLEAN : spi_sync_transfer_error(seen)
  BY <1>14 DEF spi_sync_transfer_error
<1>15. CASE spi_xfer_wakeup
  BY <1>15 DEF spi_xfer_wakeup
<1>16. CASE spi_xfer_again
  BY <1>16 DEF spi_xfer_again
<1>17. CASE spi_xfer_end
  BY <1>17 DEF spi_xfer_end
<1>18. CASE qm35_reset_hook
  BY <1>18 DEF qm35_reset_hook
<1>19. CASE qm35_ss_rdy_handler
  BY <1>19 DEF qm35_ss_rdy_handler
<1>20. CASE hsspi_clear_spi_slave_busy
  BY <1>20 DEF hsspi_clear_spi_slave_busy
<1>21. CASE hsspi_set_spi_slave_ready
  BY <1>21 DEF hsspi_set_spi_slave_ready
<1>22. CASE qm35_exton_handler
  BY <1>22 DEF qm35_exton_handler
<1>23. CASE qm35_exton_wakeup
  BY <1>23 DEF qm35_exton_wakeup
<1>24. CASE FwReady
  BY <1>24 DEF FwReady
<1>25. CASE FwBoot
  BY <1>25 DEF FwBoot
<1>26. CASE \E toggle \in BOOLEAN : FwWake(toggle)
  BY <1>26 DEF FwWake
<1>27. CASE FwSleep
  BY <1>27 DEF FwSleep
<1>28. CASE UNCHANGED vars
  BY <1>28 DEF vars
<1> QED
  BY <1>1, <1>2, <1>3, <1>4, <1>5, <1>6, <1>7, <1>8, <1>9, <1>10, <1>11, <1>12,
     <1>13, <1>14, <1>15, <1>16, <1>17, <1>18, <1>19, <1>20, <1>21, <1>22,
     <1>23, <1>24, <1>25, <1>26, <1>27, <1>28, <1>29
     DEF Next, Thread, RdyInterrupt, ExtInterrupt, FwProgress

-----------------------------------------------------------------------------
\* The inductive invariant, of every behaviour of Spec.
LEMMA SleepInvariant == Spec => []SleepInv
<1>1. SleepInv /\ [Next]_vars => SleepInv'
  BY TypeStep, WaitStep, BusyStep DEF SleepInv
<1> QED
  BY InitInv, <1>1, PTL DEF Spec

\* Every variable of the transfer keeps its type; retry and
\* successive_errors stay within the limits of spi_xfer and of
\* MAX_SUCCESSIVE_ERRORS.
THEOREM TypeCorrect == Spec => []TypeOK
<1>1. SleepInv => TypeOK
  BY DEF SleepInv
<1> QED
  BY SleepInvariant, <1>1, PTL

\* hsspi_wait_ss_ready never sleeps on a sleeping QM35 whose wakeup pin is
\* down: the exton test of the thread, the exton handler and a late ss_rdy
\* handler that lowers the pin leave no order in which nobody raises it.
THEOREM WakeUpIsSafe == Spec => []SleepingQmIsWoken
<1>1. SleepInv => SleepingQmIsWoken
  BY DEF SleepInv, WaitIsEnded, ExtPending, RdyPending, SleepingQmIsWoken,
     Quiet
<1> QED
  BY SleepInvariant, <1>1, PTL

\* A wait that no interrupt will end finds SS_BUSY clear when its timeout
\* ends it, so that the next attempt looks at the line; the one exception is
\* a transfer that the bus cut before the firmware saw it.
THEOREM TimeoutIsSafe == Spec => []TimeoutRecovers
<1>1. SleepInv => TimeoutRecovers
  BY DEF SleepInv, BusyIsCleared, TimeoutRecovers, Quiet
<1> QED
  BY SleepInvariant, <1>1, PTL
=============================================================================
