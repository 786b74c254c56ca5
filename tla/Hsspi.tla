-------------------------------- MODULE Hsspi --------------------------------
(***************************************************************************)
(* The HSSPI core of the QM35 driver (hsspi.c): one kernel thread owns the *)
(* SPI bus and serves a work list; any number of callers register and      *)
(* unregister upper layers, send blocks, start and stop the transport; the *)
(* ss_irq interrupt tells the thread that the firmware has output.         *)
(*                                                                         *)
(* A step is what runs without another CPU being able to see its middle: a *)
(* critical section of hsspi->lock, one atomic bit operation, one SPI      *)
(* transfer together with the callback that reports it.  What a call does  *)
(* after its critical section (wake_up, wait_for_completion) is a step of  *)
(* its own.  How one SPI transfer is synchronised with the firmware is the *)
(* subject of module SpiXfer; here it succeeds or fails.                   *)
(***************************************************************************)
EXTENDS Integers, Sequences, FiniteSets

CONSTANTS
  Clients,    \* contexts that call the API: files, ioctls, timers, PM
  Unbinders,  \* the clients that may call hsspi_deinit (driver unbind)
  Layers,     \* the upper layers, each with an id of its own
  EchoLayers, \* the layers whose received() sends the block back (hsspi_test)
  Blocks,     \* the blocks memory can hold at the same time
  None,       \* a NULL pointer
  MaxErrors,  \* MAX_SUCCESSIVE_ERRORS
  MaxOut      \* bound: messages the firmware holds for the host

ASSUME ConstantsAssumption ==
  /\ Unbinders \subseteq Clients
  /\ EchoLayers \subseteq Layers
  /\ None \notin Layers \cup Blocks \cup Clients
  /\ MaxErrors \in Nat
  /\ MaxOut \in Nat

VARIABLES
  state,      \* hsspi->state
  registered, \* the layers l with hsspi->layers[l->id] == l
  work_list,  \* hsspi->work_list
  ss_irq,     \* HSSPI_FLAGS_SS_IRQ in hsspi->flags
  irq_depth,  \* disable depth of the ss_irq interrupt line
  isr,        \* where the ss_irq handler is
  pc,         \* where hsspi_thread_fn is
  woken,      \* the thread is runnable at its wait queue hsspi->wq
  snap,       \* what is_txrx_waiting read under the lock
  tx,         \* the TX work hsspi_tx is serving, or None
  prd,        \* STC_HOST_PRD in host->flags
  rx,         \* layer and block of the running hsspi_rx
  ret,        \* result of the last hsspi_tx or hsspi_pre_read
  errors,     \* successive_errors
  should_stop,\* kthread_should_stop()
  headers,    \* host and soc headers are allocated
  cpc,        \* where each client is in its call
  unreg,      \* the layer a client is unregistering
  done,       \* completion of a client's on-stack work
  owner,      \* who owns each block
  out         \* upper layer ids of the messages the firmware holds

threadVars == <<pc, snap, tx, prd, rx, ret, errors>>
clientVars == <<cpc, unreg, done>>
irqVars    == <<ss_irq, irq_depth, isr>>
vars == <<state, registered, work_list, irqVars, threadVars, woken,
          should_stop, headers, clientVars, owner, out>>

TxWork         == [type : {"TX"}, layer : Layers, blk : Blocks]
CompletionWork == [type : {"COMPLETION"}, completion : Clients]
Work           == TxWork \cup CompletionWork

\* Upper layer ids in a SOC header; None is an id no layer was registered for.
UlIds == Layers \cup {None}

ThreadPcs == {"wait", "decide", "get", "tx", "tx_xfer", "pre_xfer", "rx",
              "rx_xfer", "reenable", "account", "reset", "exited"}
ClientPcs == {"idle", "wake", "wake_wait", "wait", "deinit", "join"}

\* Local variables outside their scope have these values.
NoSnap == [empty |-> TRUE, running |-> FALSE]
NoRx   == [ul |-> None, layer |-> None, blk |-> None]

\* Initial state: hsspi_init has run, nothing is registered or started, and
\* the ss_irq line was requested with its interrupt enabled.
Init ==
  /\ state = "STOPPED"
  /\ registered = {}
  /\ work_list = <<>>
  /\ ss_irq = FALSE
  /\ irq_depth = 0
  /\ isr = "idle"
  /\ pc = "wait"
  /\ woken = TRUE
  /\ snap = NoSnap
  /\ tx = None
  /\ prd = FALSE
  /\ rx = NoRx
  /\ ret = "ok"
  /\ errors = 0
  /\ should_stop = FALSE
  /\ headers = TRUE
  /\ cpc = [c \in Clients |-> "idle"]
  /\ unreg = [c \in Clients |-> None]
  /\ done = [c \in Clients |-> FALSE]
  /\ owner = [b \in Blocks |-> "free"]
  /\ out = <<>>

-----------------------------------------------------------------------------
(***************************************************************************)
(* The API.  A call that fails returns an errno and changes nothing, so it *)
(* has no step here; a caller whose hsspi_send fails frees its block.      *)
(***************************************************************************)

\* list_add_tail: both kinds of work join the end of the list.
list_add_tail(w) == Append(work_list, w)

hsspi_register(c, l) ==
  /\ cpc[c] = "idle"
  /\ l \notin registered
  /\ registered' = registered \cup {l}
  /\ UNCHANGED <<state, work_list, irqVars, threadVars, woken, should_stop,
                 headers, clientVars, owner, out>>

\* The critical section of hsspi_unregister: the layer leaves the table and
\* an on-stack completion work is queued behind whatever is in the list.
hsspi_unregister(c, l) ==
  /\ cpc[c] = "idle"
  /\ l \in registered
  /\ registered' = registered \ {l}
  /\ work_list' = list_add_tail([type |-> "COMPLETION", completion |-> c])
  /\ cpc' = [cpc EXCEPT ![c] = "wake_wait"]
  /\ unreg' = [unreg EXCEPT ![c] = l]
  /\ done' = [done EXCEPT ![c] = FALSE]
  /\ UNCHANGED <<state, irqVars, threadVars, woken, should_stop, headers,
                 owner, out>>

\* The condition hsspi_send checks under the lock before it queues the work.
MayEnqueue_AnyLayer(l) == state = "RUNNING"
MayEnqueue(l) == state = "RUNNING" /\ l \in registered

hsspi_send(c, l, b) ==
  /\ cpc[c] = "idle"
  /\ owner[b] = "free"
  /\ MayEnqueue(l)
  /\ work_list' = list_add_tail([type |-> "TX", layer |-> l, blk |-> b])
  /\ owner' = [owner EXCEPT ![b] = "hsspi"]
  /\ cpc' = [cpc EXCEPT ![c] = "wake"]
  /\ UNCHANGED <<state, registered, irqVars, threadVars, woken, should_stop,
                 headers, unreg, done, out>>

hsspi_start(c) ==
  /\ cpc[c] = "idle"
  /\ state' = "RUNNING"
  /\ cpc' = [cpc EXCEPT ![c] = "wake"]
  /\ UNCHANGED <<registered, work_list, irqVars, threadVars, woken,
                 should_stop, headers, unreg, done, owner, out>>

hsspi_stop_NoFence(c) ==
  /\ cpc[c] = "idle"
  /\ state' = "STOPPED"
  /\ cpc' = [cpc EXCEPT ![c] = "wake"]
  /\ UNCHANGED <<registered, work_list, irqVars, threadVars, woken,
                 should_stop, headers, unreg, done, owner, out>>

hsspi_stop(c) ==
  /\ cpc[c] = "idle"
  /\ state' = "STOPPED"
  /\ work_list' = list_add_tail([type |-> "COMPLETION", completion |-> c])
  /\ cpc' = [cpc EXCEPT ![c] = "wake_wait"]
  /\ unreg' = [unreg EXCEPT ![c] = None]
  /\ done' = [done EXCEPT ![c] = FALSE]
  /\ UNCHANGED <<registered, irqVars, threadVars, woken, should_stop,
                 headers, owner, out>>

\* wake_up_interruptible(&hsspi->wq), the step after each critical section.
wake_up_Lost(c) ==
  /\ cpc[c] \in {"wake", "wake_wait"}
  /\ cpc' = [cpc EXCEPT ![c] = IF @ = "wake" THEN "idle" ELSE "wait"]
  /\ UNCHANGED <<state, registered, work_list, irqVars, threadVars, woken,
                 should_stop, headers, unreg, done, owner, out>>

wake_up(c) ==
  /\ cpc[c] \in {"wake", "wake_wait"}
  /\ cpc' = [cpc EXCEPT ![c] = IF @ = "wake" THEN "idle" ELSE "wait"]
  /\ woken' = TRUE
  /\ UNCHANGED <<state, registered, work_list, irqVars, threadVars,
                 should_stop, headers, unreg, done, owner, out>>

\* wait_for_completion returns; it cannot be interrupted.
wait_for_completion_Interruptible(c) ==
  /\ cpc[c] = "wait"
  /\ cpc' = [cpc EXCEPT ![c] = "idle"]
  /\ unreg' = [unreg EXCEPT ![c] = None]
  /\ done' = [done EXCEPT ![c] = FALSE]
  /\ UNCHANGED <<state, registered, work_list, irqVars, threadVars, woken,
                 should_stop, headers, owner, out>>

wait_for_completion(c) ==
  /\ cpc[c] = "wait"
  /\ done[c]
  /\ cpc' = [cpc EXCEPT ![c] = "idle"]
  /\ unreg' = [unreg EXCEPT ![c] = None]
  /\ done' = [done EXCEPT ![c] = FALSE]
  /\ UNCHANGED <<state, registered, work_list, irqVars, threadVars, woken,
                 should_stop, headers, owner, out>>

\* hsspi_deinit: the checks under the lock, then kthread_stop, which wakes
\* the thread and waits for it to exit, then the headers are freed.  The
\* driver core removes a device once.
hsspi_deinit_check(c) ==
  /\ c \in Unbinders
  /\ cpc[c] = "idle"
  /\ ~should_stop
  /\ state # "RUNNING"
  /\ registered = {}
  /\ cpc' = [cpc EXCEPT ![c] = "deinit"]
  /\ UNCHANGED <<state, registered, work_list, irqVars, threadVars, woken,
                 should_stop, headers, unreg, done, owner, out>>

kthread_stop(c) ==
  /\ cpc[c] = "deinit"
  /\ should_stop' = TRUE
  /\ woken' = TRUE
  /\ cpc' = [cpc EXCEPT ![c] = "join"]
  /\ UNCHANGED <<state, registered, work_list, irqVars, threadVars,
                 headers, unreg, done, owner, out>>

hsspi_deinit_free(c) ==
  /\ cpc[c] = "join"
  /\ pc = "exited"
  /\ headers' = FALSE
  /\ cpc' = [cpc EXCEPT ![c] = "idle"]
  /\ UNCHANGED <<state, registered, work_list, irqVars, threadVars, woken,
                 should_stop, unreg, done, owner, out>>

-----------------------------------------------------------------------------
(***************************************************************************)
(* The ss_irq interrupt: level triggered, so it fires whenever the         *)
(* firmware holds output and the line is not disabled.  The handler        *)
(* disables the line, then sets the flag and wakes the thread.             *)
(***************************************************************************)

qm35_irq_handler_NoDisable ==
  /\ isr = "idle"
  /\ out # <<>>
  /\ irq_depth = 0
  /\ isr' = "set"
  /\ UNCHANGED <<state, registered, work_list, ss_irq, irq_depth, threadVars,
                 woken, should_stop, headers, clientVars, owner, out>>

qm35_irq_handler ==
  /\ isr = "idle"
  /\ out # <<>>
  /\ irq_depth = 0
  /\ irq_depth' = irq_depth + 1
  /\ isr' = "set"
  /\ UNCHANGED <<state, registered, work_list, ss_irq, threadVars, woken,
                 should_stop, headers, clientVars, owner, out>>

hsspi_set_output_data_waiting ==
  /\ isr = "set"
  /\ isr' = "idle"
  /\ ss_irq' = TRUE
  /\ woken' = TRUE
  /\ UNCHANGED <<state, registered, work_list, irq_depth, threadVars,
                 should_stop, headers, clientVars, owner, out>>

-----------------------------------------------------------------------------
(***************************************************************************)
(* hsspi_thread_fn.                                                        *)
(***************************************************************************)

\* wait_event_interruptible queues the thread, then is_txrx_waiting reads the
\* list and the state under the lock.
is_txrx_waiting ==
  /\ pc = "wait"
  /\ woken
  /\ woken' = FALSE
  /\ snap' = [empty |-> work_list = <<>>, running |-> state = "RUNNING"]
  /\ pc' = "decide"
  /\ UNCHANGED <<state, registered, work_list, irqVars, tx, prd, rx, ret,
                 errors, should_stop, headers, clientVars, owner, out>>

\* The rest of the wait condition, the stop test, and get_work or sleep.
IsWaiting == ~snap.empty \/ (snap.running /\ ss_irq)

wait_event ==
  /\ pc = "decide"
  /\ pc' = IF should_stop THEN "exited"
           ELSE IF IsWaiting THEN "get" ELSE "wait"
  /\ snap' = NoSnap
  /\ UNCHANGED <<state, registered, work_list, irqVars, tx, prd, rx, ret,
                 errors, woken, should_stop, headers, clientVars,
                 owner, out>>

\* get_work finds the list empty: hsspi_pre_read.
get_work_none ==
  /\ pc = "get"
  /\ work_list = <<>>
  /\ prd' = TRUE
  /\ pc' = "pre_xfer"
  /\ UNCHANGED <<state, registered, work_list, irqVars, snap, tx, rx, ret,
                 errors, woken, should_stop, headers, clientVars, owner, out>>

\* get_work returns a completion: complete() it and go round the loop.
get_work_completion ==
  /\ pc = "get"
  /\ work_list # <<>>
  /\ Head(work_list).type = "COMPLETION"
  /\ work_list' = Tail(work_list)
  /\ done' = [done EXCEPT ![Head(work_list).completion] = TRUE]
  /\ woken' = TRUE
  /\ pc' = "wait"
  /\ UNCHANGED <<state, registered, irqVars, snap, tx, prd, rx, ret,
                 errors, should_stop, headers, cpc, unreg, owner, out>>

\* get_work returns a TX work: hsspi_tx.
get_work_tx_NoDel ==
  /\ pc = "get"
  /\ work_list # <<>>
  /\ Head(work_list).type = "TX"
  /\ tx' = Head(work_list)
  /\ pc' = "tx"
  /\ UNCHANGED <<state, registered, work_list, irqVars, snap, prd, rx, ret,
                 errors, woken, should_stop, headers, clientVars, owner,
                 out>>

get_work_tx_Newest ==
  /\ pc = "get"
  /\ work_list # <<>>
  /\ Head(work_list).type = "TX"
  /\ \E i \in DOMAIN work_list :
       /\ work_list[i].type = "TX"
       /\ \A j \in (i + 1)..Len(work_list) : work_list[j].type # "TX"
       /\ tx' = work_list[i]
       /\ work_list' = SubSeq(work_list, 1, i - 1)
                       \o SubSeq(work_list, i + 1, Len(work_list))
  /\ pc' = "tx"
  /\ UNCHANGED <<state, registered, irqVars, snap, prd, rx, ret, errors, woken,
                 should_stop, headers, clientVars, owner, out>>

get_work_tx ==
  /\ pc = "get"
  /\ work_list # <<>>
  /\ Head(work_list).type = "TX"
  /\ work_list' = Tail(work_list)
  /\ tx' = Head(work_list)
  /\ pc' = "tx"
  /\ UNCHANGED <<state, registered, irqVars, snap, prd, rx, ret,
                 errors, woken, should_stop, headers, clientVars, owner, out>>

\* hsspi_tx fills the host header; PRD is added when SS_IRQ is set now.
hsspi_tx ==
  /\ pc = "tx"
  /\ prd' = ss_irq
  /\ pc' = "tx_xfer"
  /\ UNCHANGED <<state, registered, work_list, irqVars, snap, tx, rx, ret,
                 errors, woken, should_stop, headers, clientVars,
                 owner, out>>

\* The id the SOC header announces for the next read.
SocUl == IF out = <<>> THEN None ELSE Head(out)

\* The transfer of hsspi_tx ends: sent() takes the block back, then the read
\* that PRD announced, if the transfer succeeded.
hsspi_tx_done(ok) ==
  /\ pc = "tx_xfer"
  /\ owner' = [owner EXCEPT ![tx.blk] = "free"]
  /\ tx' = None
  /\ ret' = IF ok THEN "ok" ELSE "err"
  /\ IF ok /\ prd
       THEN pc' = "rx" /\ rx' = [rx EXCEPT !.ul = SocUl]
       ELSE pc' = "account" /\ UNCHANGED rx
  /\ prd' = FALSE
  /\ UNCHANGED <<state, registered, work_list, irqVars, snap, errors,
                 woken, should_stop, headers, clientVars, out>>

hsspi_pre_read_done(ok) ==
  /\ pc = "pre_xfer"
  /\ ret' = IF ok THEN "ok" ELSE "err"
  /\ IF ok
       THEN pc' = "rx" /\ rx' = [rx EXCEPT !.ul = SocUl]
       ELSE pc' = "account" /\ UNCHANGED rx
  /\ prd' = FALSE
  /\ UNCHANGED <<state, registered, work_list, irqVars, snap, tx,
                 errors, woken, should_stop, headers, clientVars, owner, out>>

\* hsspi_rx: read the layer pointer under the lock and ask the layer for a
\* block; without a layer, or without memory, the transfer has no payload.
hsspi_rx_get(b) ==
  /\ pc = "rx"
  /\ IF rx.ul \in registered
       THEN /\ rx' = [rx EXCEPT !.layer = rx.ul, !.blk = b]
            /\ owner' = IF b = None THEN owner ELSE [owner EXCEPT ![b] = "rx"]
       ELSE /\ b = None
            /\ UNCHANGED <<rx, owner>>
  /\ b # None => owner[b] = "free"
  /\ pc' = "rx_xfer"
  /\ UNCHANGED <<state, registered, work_list, irqVars, snap, tx, prd, ret,
                 errors, woken, should_stop, headers, clientVars, out>>

\* received(): the layer takes the block; the test layer sends it back with
\* hsspi_send, and loses it when hsspi_send refuses.
Received ==
  LET l == rx.layer
      b == rx.blk
  IN  IF b = None THEN UNCHANGED <<owner, work_list, woken>>
      ELSE IF l \notin EchoLayers
        THEN /\ owner' = [owner EXCEPT ![b] = "free"]
             /\ UNCHANGED <<work_list, woken>>
      ELSE IF MayEnqueue(l)
        THEN /\ owner' = [owner EXCEPT ![b] = "hsspi"]
             /\ work_list' = list_add_tail([type |-> "TX", layer |-> l,
                                            blk |-> b])
             /\ woken' = TRUE
        ELSE /\ owner' = [owner EXCEPT ![b] = "lost"]
             /\ UNCHANGED <<work_list, woken>>

\* The read transfer failed: received() is told and hsspi_rx returns early.
hsspi_rx_failed ==
  /\ pc = "rx_xfer"
  /\ Received
  /\ ret' = "err"
  /\ rx' = NoRx
  /\ pc' = "account"
  /\ UNCHANGED <<state, registered, irqVars, snap, tx, prd, errors,
                 should_stop, headers, clientVars, out>>

\* The end of hsspi_rx: SS_IRQ is cleared when the SOC header says that no
\* output data is waiting, and then the interrupt is enabled again.
OdwCleared_NoEnable(odw) ==
  /\ ss_irq' = (odw /\ ss_irq)
  /\ pc' = "account"

OdwCleared(odw) ==
  IF ~odw /\ ss_irq
    THEN ss_irq' = FALSE /\ pc' = "reenable"
    ELSE UNCHANGED ss_irq /\ pc' = "account"

\* The read transfer took place and the SOC header is as expected.
hsspi_rx_done ==
  /\ pc = "rx_xfer"
  /\ Received
  /\ ret' = "ok"
  /\ out' = IF out = <<>> THEN out ELSE Tail(out)
  /\ OdwCleared(out' # <<>>)
  /\ rx' = NoRx
  /\ UNCHANGED <<state, registered, irq_depth, isr, snap, tx, prd, errors,
                 should_stop, headers, clientVars>>

\* The read transfer took place, but the SOC header has bad flags, another
\* upper layer or another length: an error found after received() has run.
hsspi_rx_mismatch(odw) ==
  /\ pc = "rx_xfer"
  /\ Received
  /\ ret' = "err"
  /\ OdwCleared(odw)
  /\ rx' = NoRx
  /\ UNCHANGED <<state, registered, irq_depth, isr, snap, tx, prd, errors,
                 should_stop, headers, clientVars, out>>

reenable_ss_irq ==
  /\ pc = "reenable"
  /\ irq_depth' = irq_depth - 1
  /\ pc' = "account"
  /\ UNCHANGED <<state, registered, work_list, ss_irq, isr, snap, tx, prd,
                 rx, ret, errors, woken, should_stop, headers,
                 clientVars, owner, out>>

\* Count successive errors; past the limit the QM35 is reset.
account ==
  /\ pc = "account"
  /\ IF ret = "ok"
       THEN errors' = 0 /\ pc' = "wait"
       ELSE /\ errors' = errors + 1
            /\ pc' = IF errors + 1 > MaxErrors THEN "reset" ELSE "wait"
  /\ woken' = TRUE
  /\ ret' = "ok"
  /\ UNCHANGED <<state, registered, work_list, irqVars, snap, tx, prd, rx,
                 should_stop, headers, clientVars, owner, out>>

\* reset_qm35: the firmware restarts and forgets its output.
reset_qm35_KeepCount ==
  /\ pc = "reset"
  /\ out' = <<>>
  /\ pc' = "wait"
  /\ UNCHANGED <<state, registered, work_list, irqVars, snap, tx, prd, rx,
                 ret, errors, woken, should_stop, headers, clientVars,
                 owner>>

reset_qm35 ==
  /\ pc = "reset"
  /\ errors' = 0
  /\ out' = <<>>
  /\ pc' = "wait"
  /\ UNCHANGED <<state, registered, work_list, irqVars, snap, tx, prd, rx,
                 ret, woken, should_stop, headers, clientVars, owner>>

-----------------------------------------------------------------------------
(***************************************************************************)
(* The firmware, as the host sees it: it queues output for upper layers,   *)
(* and it may restart on its own and lose it.                              *)
(***************************************************************************)

FwOutput(u) ==
  /\ Len(out) < MaxOut
  /\ out' = Append(out, u)
  /\ UNCHANGED <<state, registered, work_list, irqVars, threadVars, woken,
                 should_stop, headers, clientVars, owner>>

FwRestart ==
  /\ out # <<>>
  /\ out' = <<>>
  /\ UNCHANGED <<state, registered, work_list, irqVars, threadVars, woken,
                 should_stop, headers, clientVars, owner>>

-----------------------------------------------------------------------------
Client(c) ==
  \/ \E l \in Layers : hsspi_register(c, l)
  \/ \E l \in Layers : hsspi_unregister(c, l)
  \/ \E l \in Layers, b \in Blocks : hsspi_send(c, l, b)
  \/ hsspi_start(c)
  \/ hsspi_stop(c)
  \/ wake_up(c)
  \/ wait_for_completion(c)
  \/ hsspi_deinit_check(c)
  \/ kthread_stop(c)
  \/ hsspi_deinit_free(c)

Interrupt == qm35_irq_handler \/ hsspi_set_output_data_waiting

Thread ==
  \/ is_txrx_waiting
  \/ wait_event
  \/ get_work_none
  \/ get_work_completion
  \/ get_work_tx
  \/ hsspi_tx
  \/ \E ok \in BOOLEAN : hsspi_tx_done(ok)
  \/ \E ok \in BOOLEAN : hsspi_pre_read_done(ok)
  \/ \E b \in Blocks \cup {None} : hsspi_rx_get(b)
  \/ hsspi_rx_failed
  \/ hsspi_rx_done
  \/ \E odw \in BOOLEAN : hsspi_rx_mismatch(odw)
  \/ reenable_ss_irq
  \/ account
  \/ reset_qm35

Firmware == (\E u \in UlIds : FwOutput(u)) \/ FwRestart

Next == (\E c \in Clients : Client(c)) \/ Interrupt \/ Thread \/ Firmware

Spec == Init /\ [][Next]_vars

(***************************************************************************)
(* Fairness: a runnable thread, a pending interrupt and a caller inside a  *)
(* call all get to run.  Nothing obliges a caller to call or the firmware  *)
(* to produce output.                                                      *)
(***************************************************************************)
Fairness ==
  /\ WF_vars(Thread)
  /\ WF_vars(Interrupt)
  /\ \A c \in Clients : WF_vars(wake_up(c) \/ wait_for_completion(c)
                                \/ kthread_stop(c) \/ hsspi_deinit_free(c))

FairSpec == Spec /\ Fairness

-----------------------------------------------------------------------------
(***************************************************************************)
(* Properties.                                                             *)
(***************************************************************************)

TypeOK ==
  /\ state \in {"RUNNING", "STOPPED"}
  /\ registered \subseteq Layers
  /\ work_list \in Seq(Work)
  /\ ss_irq \in BOOLEAN
  /\ irq_depth \in Int
  /\ isr \in {"idle", "set"}
  /\ pc \in ThreadPcs
  /\ woken \in BOOLEAN
  /\ snap \in [empty : BOOLEAN, running : BOOLEAN]
  /\ tx \in TxWork \cup {None}
  /\ prd \in BOOLEAN
  /\ rx \in [ul : UlIds, layer : Layers \cup {None}, blk : Blocks \cup {None}]
  /\ ret \in {"ok", "err"}
  /\ errors \in 0..(MaxErrors + 1)
  /\ should_stop \in BOOLEAN
  /\ headers \in BOOLEAN
  /\ cpc \in [Clients -> ClientPcs]
  /\ unreg \in [Clients -> Layers \cup {None}]
  /\ done \in [Clients -> BOOLEAN]
  /\ owner \in [Blocks -> {"free", "hsspi", "rx", "lost"}]
  /\ out \in Seq(UlIds)

IsTx(i)         == work_list[i].type = "TX"
IsCompletion(i) == work_list[i].type = "COMPLETION"

\* A client is blocked, or about to block, on its on-stack completion.
Blocked(c) == cpc[c] \in {"wake_wait", "wait"} /\ ~done[c]

\* The thread is between taking a job and being done with it on the bus.
OnBus == pc \in {"tx", "tx_xfer", "pre_xfer", "rx", "rx_xfer"}

\* The thread holds a pointer to layer l.
ThreadHolds(l) ==
  \/ pc \in {"tx", "tx_xfer"} /\ tx.layer = l
  \/ pc = "rx_xfer" /\ rx.layer = l

\* When a layer is out of the table and no unregistration of it is still
\* waiting, neither the work list nor the thread refers to it: what the
\* comment before wait_for_completion in hsspi_unregister promises, so that
\* the caller may free the layer.
UnregisteredIsUnreferenced ==
  \A l \in Layers \ registered :
    (\A c \in Clients : Blocked(c) => unreg[c] # l) =>
      /\ ~ThreadHolds(l)
      /\ \A i \in DOMAIN work_list : IsTx(i) => work_list[i].layer # l

\* Once hsspi_stop has returned, and until somebody starts the transport
\* again, the thread is off the SPI bus and has no transmission left to do:
\* the callers of qm35_hsspi_stop then drive the bus themselves (qmrom).
StoppedIsOffBus ==
  state = "STOPPED" /\ (\A c \in Clients : Blocked(c) => unreg[c] # None) =>
    /\ ~OnBus
    /\ \A i \in DOMAIN work_list : ~IsTx(i)

\* Every completion work in the list lies in the stack frame of a call that
\* has not returned, and no frame is queued twice ("always allocated on
\* stack", get_work).
StackWorkIsAlive ==
  \A i \in DOMAIN work_list :
    IsCompletion(i) =>
      /\ Blocked(work_list[i].completion)
      /\ \A j \in DOMAIN work_list :
           IsCompletion(j) /\ work_list[j].completion = work_list[i].completion
             => i = j

\* A block that hsspi_send accepted is in exactly one place, the list or the
\* thread, until sent() gives it back: none is lost, sent twice or reused
\* for reception while it waits.
Holders(b) == {i \in DOMAIN work_list : IsTx(i) /\ work_list[i].blk = b}
                \cup (IF pc \in {"tx", "tx_xfer"} /\ tx.blk = b THEN {0} ELSE {})

AcceptedBlockIsHeldOnce ==
  \A b \in Blocks :
    IF owner[b] = "hsspi" THEN \E i \in Holders(b) : Holders(b) = {i}
                          ELSE Holders(b) = {}

\* The ss_irq line is disabled exactly while its flag is set, about to be
\* set by the handler, or just cleared by hsspi_rx: enable and disable stay
\* balanced, and an enabled line never leaves a stale flag behind.
IrqIsBalanced ==
  irq_depth = (IF isr = "set" THEN 1 ELSE 0)
              + (IF ss_irq THEN 1 ELSE 0)
              + (IF pc = "reenable" THEN 1 ELSE 0)

\* hsspi_stop and hsspi_unregister return: the thread gets to every completion
\* whatever happens on the bus, unless it was itself stopped by hsspi_deinit.
BlockedCallsReturn ==
  \A c \in Clients :
    (cpc[c] \in {"wake_wait", "wait"}) ~> (cpc[c] = "idle" \/ pc = "exited")

\* Every accepted block comes back through sent(), with the same exception.
AcceptedBlocksAreSent ==
  \A b \in Blocks :
    (owner[b] = "hsspi") ~> (owner[b] # "hsspi" \/ pc = "exited")

\* Output the firmware announces is asked for while the transport runs: a
\* transfer with PRD is made, the thread does not sleep over it (no wake-up is
\* lost between the interrupt, hsspi_start and the thread's wait).  Completion
\* works go first: callers that unregister and stop without end starve reads.
OutputIsFetched ==
  (out # <<>> /\ state = "RUNNING")
     ~> (prd \/ out = <<>> \/ state # "RUNNING" \/ pc = "exited"
         \/ \E c \in Clients : cpc[c] \in {"wake_wait", "wait"})
==============================================================================
