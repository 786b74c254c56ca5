----------------------------- MODULE Qm35Probe -----------------------------
(***************************************************************************)
(* qm35_probe and qm35_remove (qm35-spi.c) around the control calls of     *)
(* module Qm35Driver: the parts of the driver are set up one by one, any   *)
(* of them may fail, and a failed probe and a remove take down what is up  *)
(* with the same sequence of labels.  /dev/uci may be open when the device *)
(* is removed.                                                             *)
(*                                                                         *)
(* The debugfs files reach the log and the coredump layer through          *)
(* trace_ops and coredump_ops, which the layers set and nothing clears.    *)
(*                                                                         *)
(* Control calls are made while the device is bound, and a remove begins   *)
(* when none is under way: the README says what a debugfs file that is     *)
(* used during a probe or a remove can do.                                 *)
(***************************************************************************)
EXTENDS Qm35Driver, Sequences

VARIABLES
  flash_on_probe, \* the module parameter
  phase,          \* unbound, in qm35_probe, unwinding, in qm35_remove, bound
  todo,           \* the steps that the function in progress has still to make
  up,             \* the parts of the driver that are set up
  ops,            \* the layers whose operations the debugfs part holds
  open,           \* a file of /dev/uci is open: the UCI layer is registered
  failed,         \* history: the step at which the last probe failed
  was_open        \* history: /dev/uci was open when the remove began

probeVars == <<phase, todo, up, ops, open, failed, was_open>>
driverVars == <<board, state, rdy_depth, chipVars, powerVars, suspended, tpc,
                callerVars>>
allVars == <<flash_on_probe, probeVars, driverVars>>

\* Before the first probe.
ProbeInit ==
  /\ board \in [regulators : BOOLEAN, reset : BOOLEAN]
  /\ flash_on_probe \in BOOLEAN
  /\ state = "STOPPED" /\ rdy_depth = 0
  /\ dev_state = "RESET" /\ gpio_reset = FALSE
  /\ regulators_enabled = FALSE
  /\ reg_count = 0 /\ enable_failed = FALSE /\ disable_fails = 0
  /\ suspended = FALSE /\ tpc = "idle"
  /\ cpc = [c \in Callers |-> "idle"]
  /\ op = [c \in Callers |-> "reset"]
  /\ saved = [c \in Callers |-> "UNKNOWN"]
  /\ phase = "unbound" /\ todo = <<>>
  /\ up = {} /\ ops = {} /\ open = FALSE
  /\ failed = "none" /\ was_open = FALSE

-----------------------------------------------------------------------------
\* The steps of qm35_probe that have something to undo, in order: directory
\* of debugfs, HSSPI thread, layers, debugfs files, registrations, interrupts,
\* the firmware download with the power on, the transport, and /dev/uci.
ProbeSteps ==
  <<"root", "hsspi", "uci", "debug", "test", "coredump", "log",
    "reg_coredump", "reg_log", "irqs">>
  \o (IF flash_on_probe THEN <<"power_on", "flash", "power_off">> ELSE <<>>)
  \o <<"start", "misc">>

\* The labels of qm35_probe, which are the second half of qm35_remove.
UndoSteps_FreeFirst ==
  <<"log", "reg_log", "reg_coredump", "coredump", "test", "debug", "uci",
    "hsspi", "power_off">>

UndoSteps ==
  <<"reg_log", "reg_coredump", "log", "coredump", "test", "debug", "uci",
    "hsspi", "power_off">>

\* The label a failing step jumps to.  debug_init removes the files itself.
UndoLabel_OneLess(s) ==
  CASE s \in {"irqs", "flash", "misc"} -> "reg_log"
    [] s = "reg_log"      -> "reg_coredump"
    [] s = "reg_coredump" -> "log"
    [] s = "log"          -> "test"
    [] s = "coredump"     -> "test"
    [] s = "test"         -> "debug"
    [] s = "debug"        -> "uci"
    [] s = "uci"          -> "hsspi"
    [] s \in {"root", "hsspi"} -> "power_off"

UndoLabel(s) ==
  CASE s \in {"irqs", "flash", "misc"} -> "reg_log"
    [] s = "reg_log"      -> "reg_coredump"
    [] s = "reg_coredump" -> "log"
    [] s = "log"          -> "coredump"
    [] s = "coredump"     -> "test"
    [] s = "test"         -> "debug"
    [] s = "debug"        -> "uci"
    [] s = "uci"          -> "hsspi"
    [] s \in {"root", "hsspi"} -> "power_off"

UndoFrom(label) ==
  CHOOSE i \in 1..Len(UndoSteps) : UndoSteps[i] = label

-----------------------------------------------------------------------------
\* qm35_regulators_set of a probe or a remove; the regulators may not obey.
SetPower(on) ==
  /\ regulators_enabled' = on
  /\ IF HasRegulators /\ regulators_enabled # on
       THEN \E ok \in BOOLEAN : regulator_switch(on, ok)
       ELSE UNCHANGED countVars

Step(s) == todo # <<>> /\ Head(todo) = s

\* qm35_probe up to debug_init_root; its early returns undo nothing.  A device
\* that was not wholly taken down is not bound again: a bound of the model.
qm35_probe ==
  /\ phase = "unbound" /\ up = {} /\ state = "STOPPED" /\ reg_count = 0
  /\ phase' = "probe"
  /\ todo' = ProbeSteps
  /\ ops' = {}
  /\ dev_state' = "RESET"
  /\ regulators_enabled' = FALSE
  /\ failed' = "none" /\ was_open' = FALSE
  /\ UNCHANGED <<flash_on_probe, up, open, board, state, rdy_depth, gpio_reset,
                 countVars, suspended, tpc, callerVars>>

\* A step that sets something up, or registers a layer.  log_layer_init and
\* coredump_layer_init hand their operations to the debugfs part.
probe_init ==
  /\ phase = "probe"
  /\ \E s \in {"root", "hsspi", "uci", "debug", "test", "coredump", "log",
               "reg_coredump", "reg_log", "irqs"} :
       /\ Step(s)
       /\ up' = up \cup {s}
       /\ ops' = ops \cup ({s} \cap {"log", "coredump"})
  /\ todo' = Tail(todo)
  /\ UNCHANGED <<flash_on_probe, phase, open, failed, was_open, driverVars>>

\* flash_on_probe: the power comes on for the download and goes off again,
\* before its result is looked at.
probe_power ==
  /\ phase = "probe"
  /\ Step("power_on") \/ Step("power_off")
  /\ SetPower(Head(todo) = "power_on")
  /\ IF Step("power_off") /\ failed = "flash"
       THEN /\ phase' = "unwind"
            /\ todo' = SubSeq(UndoSteps, UndoFrom(UndoLabel("flash")),
                              Len(UndoSteps))
       ELSE todo' = Tail(todo) /\ UNCHANGED phase
  /\ UNCHANGED <<flash_on_probe, up, ops, open, failed, was_open, board, state,
                 rdy_depth, chipVars, suspended, tpc, callerVars>>

\* qm_firmware_load: the state of the device is put back in the end.
probe_flash(ok) ==
  /\ phase = "probe" /\ Step("flash")
  /\ todo' = Tail(todo)
  /\ failed' = IF ok THEN failed ELSE "flash"
  /\ UNCHANGED <<flash_on_probe, phase, up, ops, open, was_open, driverVars>>

\* A QM35 without regulators is powered: the transport starts.
probe_start ==
  /\ phase = "probe" /\ Step("start")
  /\ state' = IF HasRegulators THEN state ELSE "RUNNING"
  /\ todo' = Tail(todo)
  /\ UNCHANGED <<flash_on_probe, phase, up, ops, open, failed, was_open, board,
                 rdy_depth, chipVars, powerVars, suspended, tpc, callerVars>>

misc_register ==
  /\ phase = "probe" /\ Step("misc")
  /\ up' = up \cup {"misc"}
  /\ todo' = <<>>
  /\ phase' = "bound"
  /\ UNCHANGED <<flash_on_probe, ops, open, failed, was_open, driverVars>>

\* The steps that can fail, apart from the download: uci_layer_init and
\* coredump_layer_init return 0, and hsspi_register finds the table empty.
CanFail == {"root", "hsspi", "debug", "log", "irqs", "misc"}

\* debug_init calls debug_deinit before it returns an error.
probe_fails ==
  /\ phase = "probe"
  /\ todo # <<>> /\ Head(todo) \in CanFail
  /\ phase' = "unwind"
  /\ failed' = Head(todo)
  /\ up' = IF Step("debug") THEN up \ {"root"} ELSE up
  /\ todo' = SubSeq(UndoSteps, UndoFrom(UndoLabel(Head(todo))), Len(UndoSteps))
  /\ UNCHANGED <<flash_on_probe, ops, open, was_open, driverVars>>

-----------------------------------------------------------------------------
\* qm35_remove: misc_deregister, then hsspi_stop.
qm35_remove ==
  /\ phase = "bound"
  /\ \A c \in Callers : cpc[c] = "idle"
  /\ ~suspended
  /\ phase' = "remove"
  /\ up' = up \ {"misc"}
  /\ was_open' = open
  /\ todo' = <<"stop", "stopped">> \o UndoSteps
  /\ UNCHANGED <<flash_on_probe, ops, open, failed, driverVars>>

remove_hsspi_stop ==
  /\ phase = "remove"
  /\ \/ Step("stop") /\ state' = "STOPPED"
     \/ Step("stopped") /\ tpc = "idle" /\ UNCHANGED state
  /\ todo' = Tail(todo)
  /\ UNCHANGED <<flash_on_probe, phase, up, ops, open, failed, was_open, board,
                 rdy_depth, chipVars, powerVars, suspended, tpc, callerVars>>

\* What is taken down without condition; hsspi_unregister, also of the test
\* layer, returns when the thread is between two jobs.
undo_deinit ==
  /\ phase \in {"unwind", "remove"}
  /\ \E s \in {"reg_log", "reg_coredump", "log", "coredump", "test", "debug",
               "uci"} :
       /\ Step(s)
       /\ s \in {"reg_log", "reg_coredump", "test"} => tpc = "idle"
       /\ up' = up \ (IF s = "debug" THEN {"debug", "root"} ELSE {s})
  /\ todo' = Tail(todo)
  /\ UNCHANGED <<flash_on_probe, phase, ops, open, failed, was_open, driverVars>>

\* hsspi_deinit refuses while HSSPI runs or a layer is registered, and its
\* callers do not look.  Else it waits for the thread to end.
Refused == state = "RUNNING" \/ open
           \/ up \cap {"reg_log", "reg_coredump", "test"} # {}

undo_hsspi_deinit ==
  /\ phase \in {"unwind", "remove"} /\ Step("hsspi")
  /\ Refused \/ tpc = "idle"
  /\ up' = IF Refused THEN up ELSE up \ {"hsspi"}
  /\ todo' = Tail(todo)
  /\ UNCHANGED <<flash_on_probe, phase, ops, open, failed, was_open, driverVars>>

\* The power goes off, the function returns, and the device's managed
\* resources, the interrupts among them, are released.
undo_poweroff ==
  /\ phase \in {"unwind", "remove"} /\ Step("power_off")
  /\ SetPower(FALSE)
  /\ up' = up \ {"irqs"}
  /\ todo' = <<>>
  /\ phase' = "unbound"
  /\ rdy_depth' = 0
  /\ UNCHANGED <<flash_on_probe, ops, open, failed, was_open, board, state,
                 chipVars, suspended, tpc, callerVars>>

-----------------------------------------------------------------------------
\* uci_open and uci_release of the one file that can be open.
uci_open ==
  /\ "misc" \in up
  /\ ~open
  /\ open' = TRUE
  /\ UNCHANGED <<flash_on_probe, phase, todo, up, ops, failed, was_open,
                 driverVars>>

uci_release ==
  /\ open
  /\ tpc = "idle"
  /\ open' = FALSE
  /\ UNCHANGED <<flash_on_probe, phase, todo, up, ops, failed, was_open,
                 driverVars>>

\* The control calls, the thread and the ss_irq handler of Qm35Driver.
ControlCall ==
  /\ phase = "bound"
  /\ \E c \in Callers : Call(c)
  /\ UNCHANGED <<flash_on_probe, probeVars>>

DriverThread ==
  /\ "hsspi" \in up
  /\ ThreadBegin \/ ThreadEnds
  /\ UNCHANGED <<flash_on_probe, probeVars>>

DriverIrq ==
  /\ "irqs" \in up
  /\ qm35_irq_handler
  /\ UNCHANGED <<flash_on_probe, probeVars>>

Probing ==
  \/ probe_init \/ probe_power \/ probe_start \/ misc_register
  \/ \E ok \in BOOLEAN : probe_flash(ok)

Undoing ==
  remove_hsspi_stop \/ undo_deinit \/ undo_hsspi_deinit \/ undo_poweroff

ProbeNext ==
  \/ qm35_probe \/ Probing \/ probe_fails
  \/ qm35_remove \/ Undoing
  \/ uci_open \/ uci_release
  \/ ControlCall \/ DriverThread \/ DriverIrq

(***************************************************************************)
(* Fairness: that of Qm35Driver, and an unwinding or a remove runs on,     *)
(* although the thread may begin other jobs before hsspi_unregister        *)
(* returns (BlockedCallsReturn of module Hsspi).                           *)
(***************************************************************************)
ProbeSpec ==
  /\ ProbeInit /\ [][ProbeNext]_allVars
  /\ Fairness
  /\ SF_allVars(Undoing)

-----------------------------------------------------------------------------
(***************************************************************************)
(* Properties.                                                             *)
(***************************************************************************)

\* A part is taken down after the parts that use it: the thread never calls
\* into a layer that was freed, nor a user into a transport that is gone.
Needs ==
  {<<"reg_log", "log">>, <<"reg_coredump", "coredump">>, <<"reg_log", "hsspi">>,
   <<"reg_coredump", "hsspi">>, <<"test", "hsspi">>, <<"debug", "hsspi">>,
   <<"misc", "uci">>, <<"misc", "hsspi">>, <<"misc", "irqs">>}

\* The steps before which the debugfs files, which go last, can still reach a
\* layer that log_layer_deinit or coredump_layer_deinit has freed.
FreedEarly ==
  [log |-> {"coredump", "test", "debug"}, coredump |-> {"test", "debug"}]

\* In every order of set-up, failure and removal, what is in use is up: each
\* part before and after its users, the transport only with its thread and
\* its interrupts, an open /dev/uci only with the thread, and a layer that the
\* debugfs files can call while there are files.  This last part has an
\* exception, which the labels of qm35_probe and qm35_remove share: the two
\* layers are freed first and the files removed after the test layer, and in
\* between a read of traces or coredump uses what was freed.  The files need
\* the interrupts too (hw_reset, rom_*) and are there before them: only once
\* the probe is over are they sure to have them.
UsersGoFirst ==
  phase # "unbound" =>
    /\ \A d \in Needs : d[1] \in up => d[2] \in up
    /\ state = "RUNNING" => {"hsspi", "irqs"} \subseteq up
    /\ open => "hsspi" \in up
    /\ "debug" \in up =>
         /\ \A p \in (ops \ up) : todo # <<>> /\ Head(todo) \in FreedEarly[p]
         /\ phase \in {"bound", "remove"} => "irqs" \in up

\* A device that was removed, or whose probe failed at any step, is as before
\* the probe: nothing is set up, nothing runs and the power is off.  There
\* are four exceptions.  hsspi_deinit refuses and the thread stays when
\* /dev/uci was open, or when misc_register failed after the transport was
\* started; the debugfs directory stays when hsspi_init failed; and a
\* regulator stays on when a regulator_disable failed.
UnboundIsUndone ==
  phase = "unbound" =>
    /\ reg_count <= disable_fails /\ ~regulators_enabled
    /\ up \subseteq {"root", "hsspi"}
    /\ "root" \in up => failed = "hsspi"
    /\ "hsspi" \in up \/ state = "RUNNING" =>
         was_open \/ (failed = "misc" /\ ~HasRegulators)
=============================================================================
