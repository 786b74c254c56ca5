---------------------------- MODULE HsspiProofs ----------------------------
(***************************************************************************)
(* Proofs about module Hsspi, for any number of clients, layers, blocks    *)
(* and messages: the invariants that the runs check on small instances,    *)
(* and that the module implements HsspiService.                            *)
(***************************************************************************)
EXTENDS HsspiRefinement, WellFoundedInduction, TLAPS

-----------------------------------------------------------------------------
(***************************************************************************)
(* Sequences: what appending and removing do, element by element.          *)
(***************************************************************************)

\* list_add_tail keeps every element in its place and adds one behind them.
LEMMA AppendFacts ==
  ASSUME NEW S, NEW s \in Seq(S), NEW w \in S
  PROVE  /\ Append(s, w) \in Seq(S)
         /\ DOMAIN s = 1..Len(s)
         /\ Len(s) \in Nat
         /\ DOMAIN Append(s, w) = 1..(Len(s) + 1)
         /\ \A i \in 1..Len(s) : Append(s, w)[i] = s[i]
         /\ Append(s, w)[Len(s) + 1] = w
         /\ Append(s, w) # <<>>
  OBVIOUS

\* get_work removes the first element and moves the others up by one.
LEMMA TailFacts ==
  ASSUME NEW S, NEW s \in Seq(S), s # <<>>
  PROVE  /\ Tail(s) \in Seq(S)
         /\ Head(s) \in S
         /\ Head(s) = s[1]
         /\ Len(s) \in Nat \ {0}
         /\ DOMAIN s = 1..Len(s)
         /\ DOMAIN Tail(s) = 1..(Len(s) - 1)
         /\ \A i \in 1..(Len(s) - 1) : Tail(s)[i] = s[i + 1]
  OBVIOUS

\* A work is of one of the two kinds, and its type field tells which.
LEMMA WorkFacts ==
  /\ \A w \in Work : w.type = "TX" => w \in TxWork
  /\ \A w \in Work : w.type = "COMPLETION" => w \in CompletionWork
  /\ \A w \in Work : w.type \in {"TX", "COMPLETION"}
  /\ \A w \in TxWork : w.type = "TX" /\ w.layer \in Layers /\ w.blk \in Blocks
  /\ \A w \in CompletionWork :
       w.type = "COMPLETION" /\ w.completion \in Clients
  /\ \A l \in Layers, b \in Blocks :
       [type |-> "TX", layer |-> l, blk |-> b] \in TxWork
  /\ \A c \in Clients :
       [type |-> "COMPLETION", completion |-> c] \in CompletionWork
  BY DEF Work, TxWork, CompletionWork

-----------------------------------------------------------------------------
(***************************************************************************)
(* Type correctness.                                                       *)
(***************************************************************************)

\* The local variables of the thread are set only where they are in scope,
\* and the error count passes its limit only on the way to the reset.
Scoped ==
  /\ pc \in {"tx", "tx_xfer"} => tx \in TxWork
  /\ pc # "rx_xfer" => rx.layer = None /\ rx.blk = None
  /\ pc # "reset" => errors <= MaxErrors

TypeInv == TypeOK /\ Scoped

\* What received() does with the block of hsspi_rx keeps the types.
LEMMA ReceivedType ==
  ASSUME TypeOK, Received
  PROVE  /\ owner' \in [Blocks -> {"free", "hsspi", "rx", "lost"}]
         /\ work_list' \in Seq(Work)
         /\ woken' \in BOOLEAN
<1>1. CASE work_list' = work_list
  BY <1>1 DEF TypeOK, Received
<1>2. CASE /\ rx.blk # None
           /\ rx.layer \in EchoLayers
           /\ work_list' = list_add_tail([type |-> "TX", layer |-> rx.layer,
                                          blk |-> rx.blk])
  <2>1. rx.layer \in Layers /\ rx.blk \in Blocks
    BY <1>2, ConstantsAssumption DEF TypeOK
  <2>2. [type |-> "TX", layer |-> rx.layer, blk |-> rx.blk] \in Work
    BY <2>1, WorkFacts DEF Work
  <2>3. work_list' \in Seq(Work)
    BY <1>2, <2>2, AppendFacts DEF TypeOK, list_add_tail
  <2> QED BY <1>2, <2>3 DEF TypeOK, Received
<1> QED BY <1>1, <1>2 DEF Received

\* Every step keeps the types and the scopes.
LEMMA TypeStep ==
  ASSUME TypeInv, [Next]_vars
  PROVE  TypeInv'
<1> USE ConstantsAssumption DEF TypeInv, TypeOK, Scoped, threadVars,
        clientVars, irqVars, ThreadPcs, ClientPcs, UlIds, NoSnap, NoRx
<1>1. ASSUME NEW c \in Clients, NEW l \in Layers, hsspi_register(c, l)
      PROVE  TypeInv'
  BY <1>1 DEF hsspi_register
<1>2. ASSUME NEW c \in Clients, NEW l \in Layers, hsspi_unregister(c, l)
      PROVE  TypeInv'
  <2>1. work_list' \in Seq(Work)
    BY <1>2, WorkFacts, AppendFacts DEF hsspi_unregister, list_add_tail, Work
  <2> QED BY <1>2, <2>1 DEF hsspi_unregister
<1>3. ASSUME NEW c \in Clients, NEW l \in Layers, NEW b \in Blocks,
             hsspi_send(c, l, b)
      PROVE  TypeInv'
  <2>1. work_list' \in Seq(Work)
    BY <1>3, WorkFacts, AppendFacts DEF hsspi_send, list_add_tail, Work
  <2> QED BY <1>3, <2>1 DEF hsspi_send
<1>4. ASSUME NEW c \in Clients, hsspi_start(c)
      PROVE  TypeInv'
  BY <1>4 DEF hsspi_start
<1>5. ASSUME NEW c \in Clients, hsspi_stop(c)
      PROVE  TypeInv'
  <2>1. work_list' \in Seq(Work)
    BY <1>5, WorkFacts, AppendFacts DEF hsspi_stop, list_add_tail, Work
  <2> QED BY <1>5, <2>1 DEF hsspi_stop
<1>6. ASSUME NEW c \in Clients, wake_up(c)
      PROVE  TypeInv'
  BY <1>6 DEF wake_up
<1>7. ASSUME NEW c \in Clients, wait_for_completion(c)
      PROVE  TypeInv'
  BY <1>7 DEF wait_for_completion
<1>8. ASSUME NEW c \in Clients, hsspi_deinit_check(c)
      PROVE  TypeInv'
  BY <1>8 DEF hsspi_deinit_check
<1>9. ASSUME NEW c \in Clients, kthread_stop(c)
      PROVE  TypeInv'
  BY <1>9 DEF kthread_stop
<1>10. ASSUME NEW c \in Clients, hsspi_deinit_free(c)
       PROVE  TypeInv'
  <2>1. headers' \in BOOLEAN
    BY <1>10 DEF hsspi_deinit_free
  <2> QED BY <1>10, <2>1 DEF hsspi_deinit_free
<1>11. CASE Interrupt
  <2>1. ss_irq' \in BOOLEAN /\ woken' \in BOOLEAN
    BY <1>11 DEF Interrupt, qm35_irq_handler, hsspi_set_output_data_waiting
  <2>2. CASE qm35_irq_handler
    BY <2>1, <2>2 DEF qm35_irq_handler
  <2>3. CASE hsspi_set_output_data_waiting
    BY <2>1, <2>3 DEF hsspi_set_output_data_waiting
  <2> QED BY <1>11, <2>2, <2>3 DEF Interrupt
<1>12. CASE is_txrx_waiting
  <2>1. snap' \in [empty : BOOLEAN, running : BOOLEAN]
    BY <1>12 DEF is_txrx_waiting
  <2> QED BY <1>12, <2>1, ZenonT(60) DEF is_txrx_waiting
<1>13. CASE wait_event
  <2>1. pc' \in {"exited", "get", "wait"}
    BY <1>13 DEF wait_event
  <2> QED BY <1>13, <2>1 DEF wait_event
<1>14. CASE get_work_none
  BY <1>14 DEF get_work_none
<1>15. CASE get_work_completion
  <2>1. work_list' \in Seq(Work)
    BY <1>15, TailFacts DEF get_work_completion
  <2>2. done' \in [Clients -> BOOLEAN] /\ woken' \in BOOLEAN
    BY <1>15 DEF get_work_completion
  <2> QED BY <1>15, <2>1, <2>2 DEF get_work_completion
<1>16. CASE get_work_tx
  <2>1. work_list' \in Seq(Work) /\ tx' \in TxWork
    BY <1>16, TailFacts, WorkFacts DEF get_work_tx
  <2> QED BY <1>16, <2>1 DEF get_work_tx
<1>17. CASE hsspi_tx
  BY <1>17 DEF hsspi_tx
<1>18. ASSUME NEW ok \in BOOLEAN, hsspi_tx_done(ok)
       PROVE  TypeInv'
  <2>1. rx' \in [ul : UlIds, layer : Layers \cup {None},
                 blk : Blocks \cup {None}]
    BY <1>18 DEF hsspi_tx_done, SocUl
  <2>2. prd' \in BOOLEAN /\ pc' \in {"rx", "account"}
    BY <1>18 DEF hsspi_tx_done
  <2>3. rx'.layer = rx.layer /\ rx'.blk = rx.blk
    BY <1>18 DEF hsspi_tx_done
  <2>4. ret' \in {"ok", "err"} /\ owner' \in [Blocks -> {"free", "hsspi", "rx",
                                                       "lost"}]
    BY <1>18 DEF hsspi_tx_done
  <2> QED BY <1>18, <2>1, <2>2, <2>3, <2>4 DEF hsspi_tx_done
<1>19. ASSUME NEW ok \in BOOLEAN, hsspi_pre_read_done(ok)
       PROVE  TypeInv'
  <2>1. rx' \in [ul : UlIds, layer : Layers \cup {None},
                 blk : Blocks \cup {None}]
    BY <1>19 DEF hsspi_pre_read_done, SocUl
  <2>2. prd' \in BOOLEAN /\ pc' \in {"rx", "account"}
    BY <1>19 DEF hsspi_pre_read_done
  <2>3. rx'.layer = rx.layer /\ rx'.blk = rx.blk
    BY <1>19 DEF hsspi_pre_read_done
  <2> QED BY <1>19, <2>1, <2>2, <2>3 DEF hsspi_pre_read_done
<1>20. ASSUME NEW b \in Blocks \cup {None}, hsspi_rx_get(b)
       PROVE  TypeInv'
  <2>1. rx' \in [ul : UlIds, layer : Layers \cup {None},
                 blk : Blocks \cup {None}]
    BY <1>20, ZenonT(60) DEF hsspi_rx_get
  <2>2. owner' \in [Blocks -> {"free", "hsspi", "rx", "lost"}]
    BY <1>20 DEF hsspi_rx_get
  <2> QED BY <1>20, <2>1, <2>2 DEF hsspi_rx_get
<1>21. CASE hsspi_rx_failed
  BY <1>21, ReceivedType DEF hsspi_rx_failed
<1>22. CASE hsspi_rx_done
  <2>1. ss_irq' \in BOOLEAN /\ pc' \in {"reenable", "account"}
    BY <1>22 DEF hsspi_rx_done, OdwCleared
  <2>2. out' \in Seq(UlIds)
    BY <1>22, TailFacts DEF hsspi_rx_done
  <2> QED BY <1>22, <2>1, <2>2, ReceivedType DEF hsspi_rx_done
<1>23. ASSUME NEW odw \in BOOLEAN, hsspi_rx_mismatch(odw)
       PROVE  TypeInv'
  <2>1. ss_irq' \in BOOLEAN
    BY <1>23 DEF hsspi_rx_mismatch, OdwCleared
  <2>2. pc' \in {"reenable", "account"}
    BY <1>23 DEF hsspi_rx_mismatch, OdwCleared
  <2> QED BY <1>23, <2>1, <2>2, ReceivedType DEF hsspi_rx_mismatch
<1>24. CASE reenable_ss_irq
  BY <1>24 DEF reenable_ss_irq
<1>25. CASE account
  BY <1>25 DEF account
<1>26. CASE reset_qm35
  BY <1>26 DEF reset_qm35
<1>27. CASE Firmware
  <2>1. out' \in Seq(UlIds)
    <3>1. ASSUME NEW u \in UlIds, FwOutput(u)
          PROVE  out' \in Seq(UlIds)
      BY <3>1, AppendFacts DEF FwOutput
    <3>2. CASE FwRestart
      BY <3>2 DEF FwRestart
    <3> QED BY <1>27, <3>1, <3>2 DEF Firmware
  <2> QED BY <1>27, <2>1, SMTT(20) DEF Firmware, FwOutput, FwRestart
<1>28. CASE UNCHANGED vars
  BY <1>28 DEF vars
<1> QED
  BY <1>1, <1>2, <1>3, <1>4, <1>5, <1>6, <1>7, <1>8, <1>9, <1>10, <1>11,
     <1>12, <1>13, <1>14, <1>15, <1>16, <1>17, <1>18, <1>19, <1>20, <1>21,
     <1>22, <1>23, <1>24, <1>25, <1>26, <1>27, <1>28
     DEF Next, Client, Thread

LEMMA InitType ==
  ASSUME Init
  PROVE  TypeInv
<1> USE ConstantsAssumption DEF Init
<1>1. /\ snap \in [empty : BOOLEAN, running : BOOLEAN]
      /\ rx \in [ul : UlIds, layer : Layers \cup {None}, blk : Blocks \cup {None}]
      /\ rx.layer = None /\ rx.blk = None
  BY DEF NoSnap, NoRx, UlIds
<1>2. work_list \in Seq(Work) /\ out \in Seq(UlIds)
  OBVIOUS
<1>3. /\ cpc \in [Clients -> ClientPcs]
      /\ unreg \in [Clients -> Layers \cup {None}]
      /\ done \in [Clients -> BOOLEAN]
      /\ owner \in [Blocks -> {"free", "hsspi", "rx", "lost"}]
  BY DEF ClientPcs
<1>4. pc \in ThreadPcs /\ pc \notin {"tx", "tx_xfer", "rx_xfer"}
  BY DEF ThreadPcs
<1>5. /\ ss_irq \in BOOLEAN /\ woken \in BOOLEAN /\ prd \in BOOLEAN
      /\ should_stop \in BOOLEAN /\ headers \in BOOLEAN
  OBVIOUS
<1> QED BY <1>1, <1>2, <1>3, <1>4, <1>5 DEF TypeInv, TypeOK, Scoped

\* Every variable keeps its type: TypeOK is an invariant of the driver.
THEOREM TypeCorrect == Spec => []TypeOK
<1>1. Init => TypeInv
  BY InitType
<1>2. TypeInv /\ [Next]_vars => TypeInv'
  BY TypeStep
<1> QED BY <1>1, <1>2, PTL DEF Spec, TypeInv

-----------------------------------------------------------------------------
(***************************************************************************)
(* The inductive invariant behind the two fences.  A TX work that refers   *)
(* to a layer no longer registered, or that is still there after the       *)
(* transport was stopped, has behind it the completion work of the call    *)
(* that waits for it; the same holds of what the thread is working on.     *)
(***************************************************************************)

\* A completion work queued after position i belongs to the unregistration
\* of x (None: to hsspi_stop).
FencedAfter(i, x) ==
  \E j \in DOMAIN work_list :
    /\ j > i
    /\ IsCompletion(j)
    /\ unreg[work_list[j].completion] = x

ListFenced ==
  \A i \in DOMAIN work_list :
    IsTx(i) =>
      /\ work_list[i].layer \in registered
           \/ FencedAfter(i, work_list[i].layer)
      /\ state = "RUNNING" \/ FencedAfter(i, None)

ThreadFenced ==
  /\ \A l \in Layers : ThreadHolds(l) => l \in registered \/ FencedAfter(0, l)
  /\ OnBus => state = "RUNNING" \/ FencedAfter(0, None)

\* The thread comes to get_work only with work in the list or, for a read,
\* while the transport runs.
GetsForAReason ==
  /\ pc = "get" => work_list # <<>> \/ state = "RUNNING"
  /\ pc = "decide" =>
       /\ ~snap.empty => work_list # <<>>
       /\ snap.running => work_list # <<>> \/ state = "RUNNING"

FenceInv == ListFenced /\ ThreadFenced /\ GetsForAReason

IInv == TypeInv /\ StackWorkIsAlive /\ FenceInv

\* Steps that leave the list and the calls alone leave the stack frames alone.
LEMMA StackFrame ==
  ASSUME StackWorkIsAlive, UNCHANGED <<work_list, cpc, done>>
  PROVE  StackWorkIsAlive'
  BY DEF StackWorkIsAlive, IsCompletion, Blocked

\* A call that starts on client c queues the work of its own fresh frame.
LEMMA StackAppend ==
  ASSUME TypeInv, StackWorkIsAlive, NEW c \in Clients,
         cpc[c] = "idle",
         work_list' = list_add_tail([type |-> "COMPLETION", completion |-> c]),
         cpc' = [cpc EXCEPT ![c] = "wake_wait"],
         done' = [done EXCEPT ![c] = FALSE]
  PROVE  StackWorkIsAlive'
<1> DEFINE w == [type |-> "COMPLETION", completion |-> c]
<1>1. w \in Work /\ w.completion = c
  BY WorkFacts DEF Work
<1>2. work_list' = Append(work_list, w)
  BY DEF list_add_tail
<1> HIDE DEF w
<1>3. /\ DOMAIN work_list = 1..Len(work_list)
      /\ Len(work_list) \in Nat
      /\ DOMAIN work_list' = 1..(Len(work_list) + 1)
      /\ \A i \in 1..Len(work_list) : work_list'[i] = work_list[i]
      /\ work_list'[Len(work_list) + 1] = w
  <2>1. work_list \in Seq(Work)
    BY DEF TypeInv, TypeOK
  <2>2. Len(work_list) \in Nat /\ DOMAIN work_list = 1..Len(work_list)
    BY <2>1
  <2> QED BY <1>1, <1>2, <2>1, <2>2, AppendFacts, SMTT(30)
<1>4. \A i \in DOMAIN work_list :
        IsCompletion(i) => /\ work_list[i].completion \in Clients
                           /\ work_list[i].completion # c
  BY WorkFacts, SMTT(20) DEF StackWorkIsAlive, Blocked, IsCompletion, TypeInv, TypeOK
<1>5. /\ Blocked(c)'
      /\ \A d \in Clients : Blocked(d) => Blocked(d)'
  BY DEF Blocked, TypeInv, TypeOK
<1> SUFFICES ASSUME NEW i \in DOMAIN work_list', IsCompletion(i)'
             PROVE  /\ Blocked(work_list[i].completion)'
                    /\ \A j \in DOMAIN work_list' :
                         IsCompletion(j)' /\ work_list'[j].completion
                                              = work_list'[i].completion
                           => i = j
  BY DEF StackWorkIsAlive
<1>6. CASE i \in DOMAIN work_list
  <2>1. IsCompletion(i) /\ work_list'[i] = work_list[i]
    BY <1>3, <1>6 DEF IsCompletion
  <2>2. Blocked(work_list[i].completion) /\ work_list[i].completion # c
    BY <1>4, <1>6, <2>1 DEF StackWorkIsAlive
  <2>3. Blocked(work_list[i].completion)'
    BY <1>4, <1>5, <1>6, <2>1, <2>2 DEF Blocked
  <2>4. ASSUME NEW j \in DOMAIN work_list', IsCompletion(j)',
               work_list'[j].completion = work_list'[i].completion
        PROVE  i = j
    <3>1. CASE j \in DOMAIN work_list
      BY <1>3, <1>6, <2>1, <2>4, <3>1 DEF StackWorkIsAlive, IsCompletion
    <3>2. CASE j = Len(work_list) + 1
      BY <1>1, <1>3, <2>1, <2>2, <2>4, <3>2
    <3> QED BY <1>3, <3>1, <3>2
  <2> QED BY <2>3, <2>4
<1>7. CASE i = Len(work_list) + 1
  <2>1. Blocked(work_list[i].completion)'
    BY <1>1, <1>3, <1>5, <1>7 DEF Blocked
  <2>2. ASSUME NEW j \in DOMAIN work_list', IsCompletion(j)',
               work_list'[j].completion = work_list'[i].completion
        PROVE  i = j
    <3>1. CASE j \in DOMAIN work_list
      BY <1>1, <1>3, <1>4, <1>7, <2>2, <3>1 DEF IsCompletion
    <3>2. CASE j = Len(work_list) + 1
      BY <1>7, <3>2
    <3> QED BY <1>3, <3>1, <3>2
  <2> QED BY <2>1, <2>2
<1> QED
  BY <1>3, <1>6, <1>7

\* A TX work added to the list is no stack frame.
LEMMA StackSend ==
  ASSUME TypeInv, StackWorkIsAlive, NEW w \in TxWork,
         work_list' = list_add_tail(w),
         \A c \in Clients : Blocked(c) => Blocked(c)'
  PROVE  StackWorkIsAlive'
<1>1. /\ DOMAIN work_list = 1..Len(work_list)
      /\ Len(work_list) \in Nat
      /\ DOMAIN work_list' = 1..(Len(work_list) + 1)
      /\ \A i \in 1..Len(work_list) : work_list'[i] = work_list[i]
      /\ work_list'[Len(work_list) + 1] = w
  BY AppendFacts DEF TypeInv, TypeOK, Work, list_add_tail
<1>2. w.type # "COMPLETION"
  BY WorkFacts
<1>3. \A i \in DOMAIN work_list :
        IsCompletion(i) => work_list[i].completion \in Clients
  BY WorkFacts DEF IsCompletion, TypeInv, TypeOK
<1> QED
  BY <1>1, <1>2, <1>3 DEF StackWorkIsAlive, IsCompletion

\* get_work keeps the frames of the works it leaves in the list alive, even
\* as the thread completes the one it took: no frame is queued twice.
LEMMA StackTake ==
  ASSUME TypeInv, StackWorkIsAlive, work_list # <<>>,
         work_list' = Tail(work_list), cpc' = cpc,
         \/ done' = done
         \/ /\ IsCompletion(1)
            /\ done' = [done EXCEPT ![work_list[1].completion] = TRUE]
  PROVE  StackWorkIsAlive'
<1>1. /\ Len(work_list) \in Nat \ {0}
      /\ DOMAIN work_list = 1..Len(work_list)
      /\ DOMAIN work_list' = 1..(Len(work_list) - 1)
      /\ \A i \in 1..(Len(work_list) - 1) : work_list'[i] = work_list[i + 1]
  <2>1. work_list \in Seq(Work)
    BY DEF TypeInv, TypeOK
  <2> QED BY <2>1, TailFacts
<1> SUFFICES ASSUME NEW i \in DOMAIN work_list', IsCompletion(i)'
             PROVE  /\ Blocked(work_list[i].completion)'
                    /\ \A j \in DOMAIN work_list' :
                         IsCompletion(j)' /\ work_list'[j].completion
                                              = work_list'[i].completion
                           => i = j
  BY DEF StackWorkIsAlive
<1>2. /\ i + 1 \in DOMAIN work_list
      /\ i + 1 # 1
      /\ work_list'[i] = work_list[i + 1]
      /\ IsCompletion(i + 1)
  BY <1>1 DEF IsCompletion
<1>3. Blocked(work_list[i + 1].completion)
  BY <1>2 DEF StackWorkIsAlive
<1>4. IsCompletion(1) => work_list[1].completion # work_list[i + 1].completion
  BY <1>1, <1>2 DEF StackWorkIsAlive
<1>5. Blocked(work_list[i].completion)'
  <2> DEFINE d == work_list[i + 1].completion
  <2>1. cpc[d] \in {"wake_wait", "wait"} /\ ~done[d]
    BY <1>3 DEF Blocked
  <2>2. done'[d] = done[d]
    <3>1. d \in Clients
      BY <1>2, WorkFacts DEF IsCompletion, TypeInv, TypeOK
    <3>2. CASE done' = done
      BY <3>2
    <3>3. CASE /\ IsCompletion(1)
               /\ done' = [done EXCEPT ![work_list[1].completion] = TRUE]
      BY <1>4, <3>1, <3>3 DEF TypeInv, TypeOK
    <3> QED BY <3>2, <3>3
  <2>3. work_list'[i].completion = d
    BY <1>2
  <2> QED BY <2>1, <2>2, <2>3 DEF Blocked
<1>6. ASSUME NEW j \in DOMAIN work_list', IsCompletion(j)',
             work_list'[j].completion = work_list'[i].completion
      PROVE  i = j
  <2>1. /\ j + 1 \in DOMAIN work_list
        /\ work_list'[j] = work_list[j + 1]
        /\ IsCompletion(j + 1)
    BY <1>1, <1>6 DEF IsCompletion
  <2>2. i + 1 = j + 1
    BY <1>2, <1>6, <2>1 DEF StackWorkIsAlive
  <2> QED BY <1>1, <2>2
<1> QED BY <1>5, <1>6

\* A received() callback queues nothing, or one TX work.
LEMMA ReceivedQueues ==
  ASSUME TypeInv, pc = "rx_xfer", Received
  PROVE  \/ work_list' = work_list
         \/ /\ rx.layer \in Layers
            /\ rx.blk \in Blocks
            /\ state = "RUNNING"
            /\ rx.layer \in registered
            /\ owner' = [owner EXCEPT ![rx.blk] = "hsspi"]
            /\ work_list' = list_add_tail([type |-> "TX", layer |-> rx.layer,
                                           blk |-> rx.blk])
  BY ConstantsAssumption DEF TypeInv, TypeOK, Received, MayEnqueue

\* Every step keeps the stack frames of the queued works alive.
LEMMA StackStep ==
  ASSUME TypeInv, StackWorkIsAlive, [Next]_vars
  PROVE  StackWorkIsAlive'
<1> USE DEF threadVars, clientVars, irqVars
<1>1. ASSUME NEW c \in Clients, Client(c)
      PROVE  StackWorkIsAlive'
  <2>1. CASE \E l \in Layers : hsspi_unregister(c, l)
    BY <2>1, StackAppend DEF hsspi_unregister
  <2>2. CASE hsspi_stop(c)
    BY <2>2, StackAppend DEF hsspi_stop
  <2>3. ASSUME NEW l \in Layers, NEW b \in Blocks, hsspi_send(c, l, b)
        PROVE  StackWorkIsAlive'
    <3>1. [type |-> "TX", layer |-> l, blk |-> b] \in TxWork
      BY WorkFacts
    <3>2. \A d \in Clients : Blocked(d) => Blocked(d)'
      BY <2>3 DEF hsspi_send, Blocked, TypeInv, TypeOK
    <3> QED BY <2>3, <3>1, <3>2, StackSend DEF hsspi_send
  <2>4. ASSUME work_list' = work_list,
               \A d \in Clients : Blocked(d) => Blocked(d)'
        PROVE  StackWorkIsAlive'
    BY <2>4, WorkFacts DEF StackWorkIsAlive, IsCompletion, TypeInv, TypeOK
  <2>5. CASE \/ \E l \in Layers : hsspi_register(c, l)
             \/ hsspi_start(c) \/ wake_up(c) \/ wait_for_completion(c)
             \/ hsspi_deinit_check(c) \/ kthread_stop(c)
             \/ hsspi_deinit_free(c)
    <3>1. work_list' = work_list
      BY <2>5 DEF hsspi_register, hsspi_start, wake_up, wait_for_completion,
           hsspi_deinit_check, kthread_stop, hsspi_deinit_free
    <3>2. ASSUME NEW d \in Clients, Blocked(d)
          PROVE  Blocked(d)'
      BY <2>5, <3>2 DEF Blocked, TypeInv, TypeOK, hsspi_register, hsspi_start,
           wake_up, wait_for_completion, hsspi_deinit_check, kthread_stop,
           hsspi_deinit_free
    <3> QED BY <2>4, <3>1, <3>2
  <2> QED BY <1>1, <2>1, <2>2, <2>3, <2>5 DEF Client
<1>2. CASE get_work_completion \/ get_work_tx
  <2>1. work_list \in Seq(Work) /\ work_list # <<>>
    BY <1>2 DEF get_work_completion, get_work_tx, TypeInv, TypeOK
  <2>2. Head(work_list) = work_list[1]
    BY <2>1, TailFacts
  <2> QED
    BY <1>2, <2>1, <2>2, StackTake
       DEF get_work_completion, get_work_tx, IsCompletion
<1>3. CASE \/ hsspi_rx_failed \/ hsspi_rx_done
           \/ \E odw \in BOOLEAN : hsspi_rx_mismatch(odw)
  <2>1. pc = "rx_xfer" /\ Received /\ cpc' = cpc /\ done' = done
    BY <1>3 DEF hsspi_rx_failed, hsspi_rx_done, hsspi_rx_mismatch
  <2>2. CASE work_list' = work_list
    BY <2>1, <2>2, StackFrame
  <2>3. CASE /\ rx.layer \in Layers /\ rx.blk \in Blocks
             /\ work_list' = list_add_tail([type |-> "TX", layer |-> rx.layer,
                                            blk |-> rx.blk])
    <3>1. [type |-> "TX", layer |-> rx.layer, blk |-> rx.blk] \in TxWork
      BY <2>3, WorkFacts
    <3>2. \A d \in Clients : Blocked(d) => Blocked(d)'
      BY <2>1 DEF Blocked
    <3> QED BY <2>3, <3>1, <3>2, StackSend
  <2> QED BY <2>1, <2>2, <2>3, ReceivedQueues
<1>4. CASE UNCHANGED <<work_list, cpc, done>>
  BY <1>4, StackFrame
<1>5. CASE \/ Interrupt \/ Firmware \/ UNCHANGED vars
           \/ is_txrx_waiting \/ wait_event \/ get_work_none \/ hsspi_tx
           \/ (\E ok \in BOOLEAN : hsspi_tx_done(ok))
           \/ (\E ok \in BOOLEAN : hsspi_pre_read_done(ok))
           \/ (\E b \in Blocks \cup {None} : hsspi_rx_get(b))
           \/ reenable_ss_irq \/ account \/ reset_qm35
  <2>1. UNCHANGED <<work_list, cpc, done>>
    BY <1>5 DEF Interrupt, qm35_irq_handler, hsspi_set_output_data_waiting,
         Firmware, FwOutput, FwRestart, vars, is_txrx_waiting, wait_event,
         get_work_none, hsspi_tx, hsspi_tx_done, hsspi_pre_read_done,
         hsspi_rx_get, reenable_ss_irq, account, reset_qm35
  <2> QED BY <2>1, <1>4
<1> QED
  BY <1>1, <1>2, <1>3, <1>5 DEF Next, Thread

\* The callers of the completions in the list are inside the same calls.
SameCalls ==
  \A j \in DOMAIN work_list :
    IsCompletion(j) => unreg'[work_list[j].completion]
                         = unreg[work_list[j].completion]

\* A fence stays while the list does.
LEMMA FenceSame ==
  ASSUME work_list' = work_list, SameCalls, NEW i, NEW x, FencedAfter(i, x)
  PROVE  FencedAfter(i, x)'
  BY DEF FencedAfter, SameCalls, IsCompletion

\* A fence stays when a work is added behind it.
LEMMA FenceAppend ==
  ASSUME TypeInv, NEW w \in Work, work_list' = list_add_tail(w), SameCalls,
         NEW i, NEW x, FencedAfter(i, x)
  PROVE  FencedAfter(i, x)'
<1>1. work_list \in Seq(Work)
  BY DEF TypeInv, TypeOK
<1>2. /\ DOMAIN work_list \subseteq DOMAIN work_list'
      /\ \A j \in DOMAIN work_list : work_list'[j] = work_list[j]
  BY <1>1, AppendFacts DEF list_add_tail
<1> QED BY <1>2 DEF FencedAfter, SameCalls, IsCompletion

\* A completion added at the end fences everything before it.
LEMMA FenceNew ==
  ASSUME TypeInv, NEW c \in Clients, NEW x, unreg'[c] = x,
         work_list' = list_add_tail([type |-> "COMPLETION", completion |-> c])
  PROVE  \A i \in 0..Len(work_list) : FencedAfter(i, x)'
<1>1. work_list \in Seq(Work)
  BY DEF TypeInv, TypeOK
<1>2. [type |-> "COMPLETION", completion |-> c] \in Work
  BY WorkFacts DEF Work
<1>3. /\ Len(work_list) \in Nat
      /\ Len(work_list) + 1 \in DOMAIN work_list'
      /\ work_list'[Len(work_list) + 1]
           = [type |-> "COMPLETION", completion |-> c]
  BY <1>1, <1>2, AppendFacts DEF list_add_tail
<1> QED BY <1>3 DEF FencedAfter, IsCompletion

\* get_work moves a fence up with the works it fences.
LEMMA FenceTake ==
  ASSUME TypeInv, work_list # <<>>, work_list' = Tail(work_list),
         unreg' = unreg, NEW i \in Nat, NEW x, FencedAfter(i + 1, x)
  PROVE  FencedAfter(i, x)'
<1>1. work_list \in Seq(Work)
  BY DEF TypeInv, TypeOK
<1>2. /\ Len(work_list) \in Nat \ {0}
      /\ DOMAIN work_list = 1..Len(work_list)
      /\ DOMAIN work_list' = 1..(Len(work_list) - 1)
      /\ \A j \in 1..(Len(work_list) - 1) : work_list'[j] = work_list[j + 1]
  BY <1>1, TailFacts
<1>3. PICK k \in DOMAIN work_list :
        k > i + 1 /\ IsCompletion(k) /\ unreg[work_list[k].completion] = x
  BY DEF FencedAfter
<1>4. /\ k - 1 \in DOMAIN work_list'
      /\ k - 1 > i
      /\ work_list'[k - 1] = work_list[k]
  BY <1>2, <1>3
<1> QED BY <1>3, <1>4 DEF FencedAfter, IsCompletion

\* Steps that keep the list, let no layer go and do not stop the transport
\* keep its works fenced.
LEMMA ListSame ==
  ASSUME TypeInv, ListFenced, work_list' = work_list, SameCalls,
         registered \subseteq registered', state = "RUNNING" => state' = "RUNNING"
  PROVE  ListFenced'
<1> SUFFICES ASSUME NEW i \in DOMAIN work_list, IsTx(i)
             PROVE  /\ \/ work_list[i].layer \in registered'
                       \/ FencedAfter(i, work_list[i].layer)'
                    /\ state' = "RUNNING" \/ FencedAfter(i, None)'
  BY DEF ListFenced, IsTx
<1>1. /\ \/ work_list[i].layer \in registered
         \/ FencedAfter(i, work_list[i].layer)
      /\ state = "RUNNING" \/ FencedAfter(i, None)
  BY DEF ListFenced
<1> QED BY <1>1, FenceSame

\* hsspi_send and an echoing received() queue for a registered layer only,
\* and only while the transport runs.
LEMMA ListSend ==
  ASSUME TypeInv, ListFenced, SameCalls, NEW w \in TxWork,
         work_list' = list_add_tail(w), UNCHANGED <<state, registered>>,
         state = "RUNNING", w.layer \in registered
  PROVE  ListFenced'
<1>1. work_list \in Seq(Work) /\ w \in Work
  BY DEF TypeInv, TypeOK, Work
<1>2. /\ DOMAIN work_list' = DOMAIN work_list \cup {Len(work_list) + 1}
      /\ \A i \in DOMAIN work_list : work_list'[i] = work_list[i]
      /\ work_list'[Len(work_list) + 1] = w
  BY <1>1, AppendFacts DEF list_add_tail
<1> SUFFICES ASSUME NEW i \in DOMAIN work_list', IsTx(i)'
             PROVE  \/ work_list'[i].layer \in registered
                    \/ FencedAfter(i, work_list[i].layer)'
  BY DEF ListFenced
<1>3. CASE i \in DOMAIN work_list
  <2>1. IsTx(i) /\ work_list'[i] = work_list[i]
    BY <1>2, <1>3 DEF IsTx
  <2>2. work_list[i].layer \in registered \/ FencedAfter(i, work_list[i].layer)
    BY <1>3, <2>1 DEF ListFenced
  <2>3. \A x : FencedAfter(i, x) => FencedAfter(i, x)'
    BY <1>1, FenceAppend
  <2> QED BY <2>1, <2>2, <2>3
<1>4. CASE i = Len(work_list) + 1
  BY <1>2, <1>4
<1> QED BY <1>2, <1>3, <1>4

\* hsspi_unregister and hsspi_stop fence what they leave behind.
LEMMA ListFence ==
  ASSUME TypeInv, ListFenced, SameCalls, NEW c \in Clients,
         work_list' = list_add_tail([type |-> "COMPLETION", completion |-> c]),
         \/ state' = state /\ registered' = registered \ {unreg'[c]}
         \/ unreg'[c] = None /\ registered' = registered
  PROVE  ListFenced'
<1> DEFINE w == [type |-> "COMPLETION", completion |-> c]
<1>1. work_list \in Seq(Work) /\ w \in Work
  BY WorkFacts DEF TypeInv, TypeOK, Work
<1>2. /\ DOMAIN work_list = 1..Len(work_list)
      /\ Len(work_list) \in Nat
      /\ DOMAIN work_list' = DOMAIN work_list \cup {Len(work_list) + 1}
      /\ \A i \in DOMAIN work_list : work_list'[i] = work_list[i]
      /\ work_list'[Len(work_list) + 1] = w
  BY <1>1, AppendFacts DEF list_add_tail
<1> SUFFICES ASSUME NEW i \in DOMAIN work_list', IsTx(i)'
             PROVE  /\ \/ work_list'[i].layer \in registered'
                       \/ FencedAfter(i, work_list[i].layer)'
                    /\ state' = "RUNNING" \/ FencedAfter(i, None)'
  BY DEF ListFenced
<1>3. i \in DOMAIN work_list /\ IsTx(i) /\ work_list'[i] = work_list[i]
  BY <1>2 DEF IsTx
<1>4. /\ \/ work_list[i].layer \in registered
         \/ FencedAfter(i, work_list[i].layer)
      /\ state = "RUNNING" \/ FencedAfter(i, None)
  BY <1>3 DEF ListFenced
<1>5. \A x : FencedAfter(i, x) => FencedAfter(i, x)'
  BY <1>1, FenceAppend
<1>6. \A x : unreg'[c] = x => FencedAfter(i, x)'
  BY <1>2, <1>3, FenceNew
<1> QED BY <1>3, <1>4, <1>5, <1>6

\* get_work keeps the rest of the list fenced.
LEMMA ListTake ==
  ASSUME TypeInv, ListFenced, work_list # <<>>, work_list' = Tail(work_list),
         UNCHANGED <<unreg, registered, state>>
  PROVE  ListFenced'
<1>1. work_list \in Seq(Work)
  BY DEF TypeInv, TypeOK
<1>2. /\ Len(work_list) \in Nat \ {0}
      /\ DOMAIN work_list = 1..Len(work_list)
      /\ DOMAIN work_list' = 1..(Len(work_list) - 1)
      /\ \A j \in 1..(Len(work_list) - 1) : work_list'[j] = work_list[j + 1]
  BY <1>1, TailFacts
<1> SUFFICES ASSUME NEW i \in DOMAIN work_list', IsTx(i)'
             PROVE  /\ \/ work_list'[i].layer \in registered
                       \/ FencedAfter(i, work_list[i].layer)'
                    /\ state = "RUNNING" \/ FencedAfter(i, None)'
  BY DEF ListFenced
<1>3. /\ i \in Nat
      /\ i + 1 \in DOMAIN work_list
      /\ work_list'[i] = work_list[i + 1]
      /\ IsTx(i + 1)
  BY <1>2 DEF IsTx
<1>4. /\ \/ work_list[i + 1].layer \in registered
         \/ FencedAfter(i + 1, work_list[i + 1].layer)
      /\ state = "RUNNING" \/ FencedAfter(i + 1, None)
  BY <1>3 DEF ListFenced
<1> QED BY <1>3, <1>4, FenceTake

\* The thread's own references stay fenced through the steps of the others.
LEMMA ThreadKept ==
  ASSUME ThreadFenced, UNCHANGED <<pc, tx, rx>>,
         \A x : FencedAfter(0, x) => FencedAfter(0, x)',
         \A l \in registered : l \in registered' \/ FencedAfter(0, l)',
         state = "RUNNING" => state' = "RUNNING" \/ FencedAfter(0, None)'
  PROVE  ThreadFenced'
<1>1. ASSUME NEW l \in Layers, ThreadHolds(l)'
      PROVE  l \in registered' \/ FencedAfter(0, l)'
  <2>1. ThreadHolds(l)
    BY <1>1 DEF ThreadHolds
  <2> QED BY <2>1 DEF ThreadFenced
<1>2. ASSUME OnBus'
      PROVE  state' = "RUNNING" \/ FencedAfter(0, None)'
  BY <1>2 DEF ThreadFenced, OnBus
<1> QED BY <1>1, <1>2 DEF ThreadFenced

\* Off the bus the thread holds nothing.
LEMMA ThreadOffBus ==
  ASSUME pc' \notin {"tx", "tx_xfer", "pre_xfer", "rx", "rx_xfer"}
  PROVE  ThreadFenced'
  BY DEF ThreadFenced, ThreadHolds, OnBus

\* The calls of the clients keep the fences.
LEMMA FenceClient ==
  ASSUME IInv, NEW c \in Clients, Client(c)
  PROVE  FenceInv'
<1> USE DEF threadVars, clientVars, irqVars
<1>1. UNCHANGED <<pc, tx, rx, snap>>
  BY DEF Client, hsspi_register, hsspi_unregister, hsspi_send, hsspi_start,
     hsspi_stop, wake_up, wait_for_completion, hsspi_deinit_check,
     kthread_stop, hsspi_deinit_free
<1>2. TypeInv /\ ListFenced /\ ThreadFenced /\ GetsForAReason
  BY DEF IInv, FenceInv
<1>3. work_list \in Seq(Work) /\ Len(work_list) \in Nat
  BY <1>2 DEF TypeInv, TypeOK
<1>4. ASSUME cpc[c] = "idle", NEW x, unreg' = [unreg EXCEPT ![c] = x]
      PROVE  SameCalls
  <2>1. \A j \in DOMAIN work_list :
          IsCompletion(j) => /\ work_list[j].completion \in Clients
                             /\ work_list[j].completion # c
    BY <1>3, <1>4, WorkFacts DEF IInv, StackWorkIsAlive, Blocked, IsCompletion
  <2> QED BY <1>2, <1>4, <2>1 DEF SameCalls, TypeInv, TypeOK
<1>5. CASE (\E l \in Layers : hsspi_unregister(c, l)) \/ hsspi_stop(c)
  <2> DEFINE w == [type |-> "COMPLETION", completion |-> c]
  <2>1. SameCalls
    BY <1>4, <1>5 DEF hsspi_unregister, hsspi_stop
  <2>2. work_list' = list_add_tail(w) /\ w \in Work
    BY <1>5, WorkFacts DEF hsspi_unregister, hsspi_stop, Work
  <2>3. \/ state' = state /\ registered' = registered \ {unreg'[c]}
        \/ unreg'[c] = None /\ registered' = registered
    BY <1>2, <1>5 DEF hsspi_unregister, hsspi_stop, TypeInv, TypeOK
  <2>4. ListFenced'
    BY <1>2, <2>1, <2>2, <2>3, ListFence
  <2>5. \A x : FencedAfter(0, x) => FencedAfter(0, x)'
    BY <1>2, <2>1, <2>2, FenceAppend
  <2>6. \A x : unreg'[c] = x => FencedAfter(0, x)'
    BY <1>2, <1>3, <2>2, FenceNew
  <2>7. ThreadFenced'
    BY <1>1, <1>2, <2>3, <2>5, <2>6, ThreadKept
  <2>8. work_list' # <<>>
    BY <1>3, <2>2, AppendFacts DEF list_add_tail
  <2> QED BY <2>4, <2>7, <2>8 DEF FenceInv, GetsForAReason
<1>6. ASSUME NEW l \in Layers, NEW b \in Blocks, hsspi_send(c, l, b)
      PROVE  FenceInv'
  <2> DEFINE w == [type |-> "TX", layer |-> l, blk |-> b]
  <2>1. SameCalls
    BY <1>6 DEF hsspi_send, SameCalls
  <2>2. work_list' = list_add_tail(w) /\ w \in TxWork /\ w \in Work
    BY <1>6, WorkFacts DEF hsspi_send, Work
  <2>3. /\ state = "RUNNING" /\ l \in registered
        /\ UNCHANGED <<state, registered>>
    BY <1>6 DEF hsspi_send, MayEnqueue
  <2>4. ListFenced'
    BY <1>2, <2>1, <2>2, <2>3, ListSend
  <2>5. \A x : FencedAfter(0, x) => FencedAfter(0, x)'
    BY <1>2, <2>1, <2>2, FenceAppend
  <2>6. ThreadFenced'
    BY <1>1, <1>2, <2>3, <2>5, ThreadKept
  <2>7. work_list' # <<>>
    BY <1>3, <2>2, AppendFacts DEF list_add_tail
  <2> QED BY <2>4, <2>6, <2>7 DEF FenceInv, GetsForAReason
<1>7. CASE \/ \E l \in Layers : hsspi_register(c, l)
           \/ hsspi_start(c) \/ wake_up(c) \/ wait_for_completion(c)
           \/ hsspi_deinit_check(c) \/ kthread_stop(c) \/ hsspi_deinit_free(c)
  <2>1. /\ work_list' = work_list
        /\ registered \subseteq registered'
        /\ state = "RUNNING" => state' = "RUNNING"
    BY <1>7 DEF hsspi_register, hsspi_start, wake_up, wait_for_completion,
         hsspi_deinit_check, kthread_stop, hsspi_deinit_free
  <2>2. SameCalls
    <3>1. CASE unreg' = unreg
      BY <3>1 DEF SameCalls
    <3>2. CASE wait_for_completion(c)
      <4>1. \A j \in DOMAIN work_list :
              IsCompletion(j) => /\ work_list[j].completion \in Clients
                                 /\ work_list[j].completion # c
        BY <1>3, <3>2, WorkFacts
           DEF wait_for_completion, IInv, StackWorkIsAlive, Blocked,
               IsCompletion
      <4> QED
        BY <1>2, <3>2, <4>1 DEF wait_for_completion, SameCalls, TypeInv, TypeOK
    <3> QED
      BY <1>7, <3>1, <3>2 DEF hsspi_register, hsspi_start, wake_up,
           hsspi_deinit_check, kthread_stop, hsspi_deinit_free
  <2>3. ListFenced'
    BY <1>2, <2>1, <2>2, ListSame
  <2>4. \A x : FencedAfter(0, x) => FencedAfter(0, x)'
    BY <2>1, <2>2, FenceSame
  <2>5. ThreadFenced'
    BY <1>1, <1>2, <2>1, <2>4, ThreadKept
  <2>6. GetsForAReason'
    BY <1>1, <1>2, <2>1 DEF GetsForAReason
  <2> QED BY <2>3, <2>5, <2>6 DEF FenceInv
<1> QED BY <1>5, <1>6, <1>7 DEF Client

\* Steps that keep list, table, state and calls keep every fence.
LEMMA FenceFrame ==
  ASSUME TypeInv, ListFenced,
         UNCHANGED <<state, registered, work_list, unreg>>
  PROVE  /\ ListFenced'
         /\ \A i, x : FencedAfter(i, x) <=> FencedAfter(i, x)'
  BY DEF ListFenced, FencedAfter, IsTx, IsCompletion

\* The steps of the thread keep the fences.
LEMMA FenceThread ==
  ASSUME IInv, Thread
  PROVE  FenceInv'
<1> USE DEF threadVars, clientVars, irqVars
<1>1. TypeInv /\ ListFenced /\ ThreadFenced /\ GetsForAReason
  BY DEF IInv, FenceInv
<1>2. work_list \in Seq(Work)
  BY <1>1 DEF TypeInv, TypeOK
<1>3. CASE is_txrx_waiting \/ wait_event
  <2>1. ListFenced' /\ ThreadFenced'
    BY <1>1, <1>3, FenceFrame, ThreadOffBus DEF is_txrx_waiting, wait_event
  <2>2. CASE is_txrx_waiting
    <3>1. /\ pc' = "decide"
          /\ ~snap'.empty => work_list' # <<>>
          /\ snap'.running => state' = "RUNNING"
      BY <2>2 DEF is_txrx_waiting
    <3> QED BY <2>1, <3>1 DEF FenceInv, GetsForAReason
  <2>3. CASE wait_event
    <3>1. pc' = "get" => ~snap.empty \/ snap.running
      BY <2>3 DEF wait_event, IsWaiting
    <3>2. pc' # "decide" /\ UNCHANGED <<work_list, state>> /\ pc = "decide"
      BY <2>3 DEF wait_event
    <3> QED BY <1>1, <2>1, <3>1, <3>2 DEF FenceInv, GetsForAReason
  <2> QED BY <1>3, <2>2, <2>3
<1>4. CASE get_work_none
  <2>1. state = "RUNNING" /\ UNCHANGED <<state, registered, work_list, unreg>>
    BY <1>1, <1>4 DEF get_work_none, GetsForAReason
  <2>2. ListFenced'
    BY <1>1, <2>1, FenceFrame
  <2>3. pc' = "pre_xfer"
    BY <1>4 DEF get_work_none
  <2>4. ThreadFenced' /\ GetsForAReason'
    BY <2>1, <2>3 DEF ThreadFenced, ThreadHolds, OnBus, GetsForAReason
  <2> QED BY <2>2, <2>4 DEF FenceInv
<1>5. CASE get_work_completion
  <2>1. ListFenced'
    BY <1>1, <1>5, ListTake DEF get_work_completion
  <2>2. pc' = "wait"
    BY <1>5 DEF get_work_completion
  <2> QED BY <2>1, <2>2, ThreadOffBus DEF FenceInv, GetsForAReason
<1>6. CASE get_work_tx
  <2>1. ListFenced'
    BY <1>1, <1>6, ListTake DEF get_work_tx
  <2>2. /\ work_list # <<>> /\ work_list' = Tail(work_list)
        /\ UNCHANGED <<unreg, state, registered>> /\ pc' = "tx"
        /\ Head(work_list).type = "TX" /\ tx' = Head(work_list)
    BY <1>6 DEF get_work_tx
  <2>3. 1 \in DOMAIN work_list /\ tx' = work_list[1] /\ IsTx(1)
    BY <1>2, <2>2, TailFacts DEF IsTx
  <2>4. /\ tx'.layer \in registered \/ FencedAfter(1, work_list[1].layer)
        /\ state = "RUNNING" \/ FencedAfter(1, None)
    BY <1>1, <2>3 DEF ListFenced
  <2>5. \A x : FencedAfter(0 + 1, x) => FencedAfter(0, x)'
    BY <1>1, <2>2, FenceTake
  <2>6. \A x : FencedAfter(1, x) => FencedAfter(0, x)'
    BY <2>5
  <2>7. \A l \in Layers : ThreadHolds(l)' => l = tx'.layer
    BY <2>2 DEF ThreadHolds
  <2>8. ThreadFenced'
    BY <2>2, <2>3, <2>4, <2>6, <2>7 DEF ThreadFenced
  <2> QED BY <2>1, <2>2, <2>8 DEF FenceInv, GetsForAReason
<1>7. CASE hsspi_tx
  <2>1. /\ UNCHANGED <<state, registered, work_list, unreg, tx>>
        /\ pc = "tx" /\ pc' = "tx_xfer"
    BY <1>7 DEF hsspi_tx
  <2>2. ListFenced' /\ \A i, x : FencedAfter(i, x) <=> FencedAfter(i, x)'
    BY <1>1, <2>1, FenceFrame
  <2>3. ThreadFenced'
    BY <1>1, <2>1, <2>2 DEF ThreadFenced, ThreadHolds, OnBus
  <2> QED BY <2>1, <2>2, <2>3 DEF FenceInv, GetsForAReason
<1>8. CASE \/ \E ok \in BOOLEAN : hsspi_tx_done(ok)
           \/ \E ok \in BOOLEAN : hsspi_pre_read_done(ok)
  <2>1. /\ UNCHANGED <<state, registered, work_list, unreg>>
        /\ pc \in {"tx_xfer", "pre_xfer"} /\ pc' \in {"rx", "account"}
    BY <1>8 DEF hsspi_tx_done, hsspi_pre_read_done
  <2>2. ListFenced' /\ \A i, x : FencedAfter(i, x) <=> FencedAfter(i, x)'
    BY <1>1, <2>1, FenceFrame
  <2>3. ThreadFenced'
    BY <1>1, <2>1, <2>2 DEF ThreadFenced, ThreadHolds, OnBus
  <2> QED BY <2>1, <2>2, <2>3 DEF FenceInv, GetsForAReason
<1>9. ASSUME NEW b \in Blocks \cup {None}, hsspi_rx_get(b)
      PROVE  FenceInv'
  <2>1. /\ UNCHANGED <<state, registered, work_list, unreg>>
        /\ pc = "rx" /\ pc' = "rx_xfer"
    BY <1>9 DEF hsspi_rx_get
  <2>2. ListFenced' /\ \A i, x : FencedAfter(i, x) <=> FencedAfter(i, x)'
    BY <1>1, <2>1, FenceFrame
  <2>3. rx'.layer \in registered \/ rx'.layer = None
    BY <1>1, <1>9, <2>1 DEF hsspi_rx_get, TypeInv, TypeOK, Scoped
  <2>4. ThreadFenced'
    BY <1>1, <2>1, <2>2, <2>3, ConstantsAssumption
       DEF ThreadFenced, ThreadHolds, OnBus
  <2> QED BY <2>1, <2>2, <2>4 DEF FenceInv, GetsForAReason
<1>10. CASE \/ hsspi_rx_failed \/ hsspi_rx_done
            \/ \E odw \in BOOLEAN : hsspi_rx_mismatch(odw)
  <2>1. /\ pc = "rx_xfer" /\ pc' \in {"account", "reenable"} /\ Received
        /\ UNCHANGED <<state, registered, unreg>>
    BY <1>10 DEF hsspi_rx_failed, hsspi_rx_done, hsspi_rx_mismatch, OdwCleared
  <2>2. ListFenced'
    <3>1. SameCalls
      BY <2>1 DEF SameCalls
    <3>2. CASE work_list' = work_list
      BY <1>1, <2>1, <3>1, <3>2, ListSame
    <3>3. CASE /\ rx.layer \in Layers /\ rx.blk \in Blocks
               /\ state = "RUNNING" /\ rx.layer \in registered
               /\ work_list' = list_add_tail([type |-> "TX",
                                              layer |-> rx.layer,
                                              blk |-> rx.blk])
      <4>1. [type |-> "TX", layer |-> rx.layer, blk |-> rx.blk] \in TxWork
        BY <3>3, WorkFacts
      <4> QED BY <1>1, <2>1, <3>1, <3>3, <4>1, ListSend
    <3> QED BY <1>1, <2>1, <3>2, <3>3, ReceivedQueues
  <2> QED BY <2>1, <2>2, ThreadOffBus DEF FenceInv, GetsForAReason
<1>11. CASE reenable_ss_irq \/ account \/ reset_qm35
  <2>1. /\ UNCHANGED <<state, registered, work_list, unreg>>
        /\ pc' \in {"account", "wait", "reset"}
    BY <1>11 DEF reenable_ss_irq, account, reset_qm35
  <2>2. ListFenced'
    BY <1>1, <2>1, FenceFrame
  <2> QED BY <2>1, <2>2, ThreadOffBus DEF FenceInv, GetsForAReason
<1> QED
  BY <1>3, <1>4, <1>5, <1>6, <1>7, <1>8, <1>9, <1>10, <1>11 DEF Thread

\* The inductive invariant holds initially and every step keeps it.
LEMMA IInvHolds == Spec => []IInv
<1>1. Init => IInv
  <2> SUFFICES ASSUME Init PROVE IInv
    OBVIOUS
  <2>1. TypeInv
    BY InitType
  <2>2. work_list = <<>> /\ pc = "wait"
    BY DEF Init
  <2> QED
    BY <2>1, <2>2 DEF IInv, StackWorkIsAlive, FenceInv, ListFenced,
       ThreadFenced, ThreadHolds, OnBus, GetsForAReason
<1>2. IInv /\ [Next]_vars => IInv'
  <2> SUFFICES ASSUME IInv, [Next]_vars PROVE IInv'
    OBVIOUS
  <2>1. TypeInv' /\ StackWorkIsAlive'
    BY TypeStep, StackStep DEF IInv
  <2>2. CASE \E c \in Clients : Client(c)
    BY <2>1, <2>2, FenceClient DEF IInv
  <2>3. CASE Thread
    BY <2>1, <2>3, FenceThread DEF IInv
  <2>4. CASE Interrupt \/ Firmware \/ UNCHANGED vars
    <3>1. UNCHANGED <<state, registered, work_list, unreg, pc, tx, rx, snap>>
      BY <2>4 DEF Interrupt, qm35_irq_handler, hsspi_set_output_data_waiting,
           Firmware, FwOutput, FwRestart, vars, threadVars, clientVars, irqVars
    <3>2. TypeInv /\ ListFenced /\ ThreadFenced /\ GetsForAReason
      BY DEF IInv, FenceInv
    <3>3. ListFenced' /\ \A i, x : FencedAfter(i, x) <=> FencedAfter(i, x)'
      BY <3>1, <3>2, FenceFrame
    <3>4. ThreadFenced' /\ GetsForAReason'
      BY <3>1, <3>2, <3>3, ThreadKept DEF GetsForAReason
    <3> QED BY <2>1, <3>3, <3>4 DEF IInv, FenceInv
  <2> QED BY <2>2, <2>3, <2>4 DEF Next
<1> QED BY <1>1, <1>2, PTL DEF Spec

\* A completion work that fences belongs to a call that has not returned.
LEMMA FenceIsBlockedCall ==
  ASSUME IInv, NEW i, NEW x, FencedAfter(i, x)
  PROVE  \E c \in Clients : Blocked(c) /\ unreg[c] = x
  BY WorkFacts
     DEF IInv, TypeInv, TypeOK, FencedAfter, StackWorkIsAlive, IsCompletion

\* What the inductive invariant says when no unregistration of l waits, and
\* when no stop does.
LEMMA UnreferencedOnReturn ==
  ASSUME IInv, NEW l \in Layers, l \notin registered,
         \A c \in Clients : Blocked(c) => unreg[c] # l
  PROVE  /\ ~ThreadHolds(l)
         /\ \A i \in DOMAIN work_list : IsTx(i) => work_list[i].layer # l
<1>1. \A i : ~FencedAfter(i, l)
  BY FenceIsBlockedCall
<1> QED BY <1>1 DEF IInv, FenceInv, ListFenced, ThreadFenced

LEMMA OffBusOnReturn ==
  ASSUME IInv, state # "RUNNING",
         \A c \in Clients : Blocked(c) => unreg[c] # None
  PROVE  ~OnBus /\ \A i \in DOMAIN work_list : ~IsTx(i)
<1>1. \A i : ~FencedAfter(i, None)
  BY FenceIsBlockedCall
<1> QED BY <1>1 DEF IInv, FenceInv, ListFenced, ThreadFenced

\* hsspi_unregister returns only when nothing refers to the layer any more.
THEOREM UnregisterIsSafe == Spec => []UnregisteredIsUnreferenced
<1>1. IInv => UnregisteredIsUnreferenced
  BY UnreferencedOnReturn DEF UnregisteredIsUnreferenced
<1> QED BY <1>1, IInvHolds, PTL

\* hsspi_stop returns only when the thread is off the bus for good.
THEOREM StopIsSafe == Spec => []StoppedIsOffBus
<1>1. IInv => StoppedIsOffBus
  BY OffBusOnReturn DEF StoppedIsOffBus
<1> QED BY <1>1, IInvHolds, PTL

\* The thread never completes a work whose stack frame is gone.
THEOREM StackIsSafe == Spec => []StackWorkIsAlive
  BY IInvHolds, PTL DEF IInv

-----------------------------------------------------------------------------
(***************************************************************************)
(* The interrupt line: balance alone is not inductive, the depth is also   *)
(* never above one (a disabled line does not fire).                        *)
(***************************************************************************)

IrqInv == IrqIsBalanced /\ irq_depth \in {0, 1}

\* Every step keeps the ss_irq line balanced.
LEMMA IrqStep ==
  ASSUME TypeInv, IrqInv, [Next]_vars
  PROVE  IrqInv'
<1> USE DEF threadVars, clientVars, irqVars
<1>1. ASSUME UNCHANGED <<ss_irq, irq_depth, isr>>,
             pc = "reenable" <=> pc' = "reenable"
      PROVE  IrqInv'
  BY <1>1 DEF IrqInv, IrqIsBalanced
<1>2. ASSUME NEW c \in Clients, Client(c)
      PROVE  IrqInv'
  <2>1. UNCHANGED <<ss_irq, irq_depth, isr, pc>>
    BY <1>2 DEF Client, hsspi_register, hsspi_unregister, hsspi_send,
         hsspi_start, hsspi_stop, wake_up, wait_for_completion,
         hsspi_deinit_check, kthread_stop, hsspi_deinit_free
  <2> QED BY <1>1, <2>1
<1>3. CASE qm35_irq_handler
  BY <1>3 DEF qm35_irq_handler, IrqInv, IrqIsBalanced, TypeInv, TypeOK
<1>4. CASE hsspi_set_output_data_waiting
  BY <1>4 DEF hsspi_set_output_data_waiting, IrqInv, IrqIsBalanced, TypeInv,
       TypeOK
<1>5. ASSUME NEW odw, pc = "rx_xfer", OdwCleared(odw), irq_depth' = irq_depth,
             isr' = isr
      PROVE  IrqInv'
  BY <1>5 DEF OdwCleared, IrqInv, IrqIsBalanced, TypeInv, TypeOK
<1>6. CASE hsspi_rx_done
  BY <1>5, <1>6 DEF hsspi_rx_done
<1>7. CASE \E odw \in BOOLEAN : hsspi_rx_mismatch(odw)
  BY <1>5, <1>7 DEF hsspi_rx_mismatch
<1>8. CASE reenable_ss_irq
  BY <1>8 DEF reenable_ss_irq, IrqInv, IrqIsBalanced, TypeInv, TypeOK
<1>9. CASE \/ is_txrx_waiting \/ wait_event \/ get_work_none
           \/ get_work_completion \/ get_work_tx \/ hsspi_tx
           \/ (\E ok \in BOOLEAN : hsspi_tx_done(ok))
           \/ (\E ok \in BOOLEAN : hsspi_pre_read_done(ok))
           \/ (\E b \in Blocks \cup {None} : hsspi_rx_get(b))
           \/ hsspi_rx_failed \/ account \/ reset_qm35
  <2>1. UNCHANGED <<ss_irq, irq_depth, isr>>
    BY <1>9 DEF is_txrx_waiting, wait_event, get_work_none,
         get_work_completion, get_work_tx, hsspi_tx, hsspi_tx_done,
         hsspi_pre_read_done, hsspi_rx_get, hsspi_rx_failed, account,
         reset_qm35
  <2>2. pc # "reenable" /\ pc' # "reenable"
    BY <1>9 DEF is_txrx_waiting, wait_event, get_work_none,
         get_work_completion, get_work_tx, hsspi_tx, hsspi_tx_done,
         hsspi_pre_read_done, hsspi_rx_get, hsspi_rx_failed, account,
         reset_qm35
  <2> QED BY <1>1, <2>1, <2>2
<1>10. CASE Firmware \/ UNCHANGED vars
  BY <1>1, <1>10 DEF Firmware, FwOutput, FwRestart, vars
<1> QED
  BY <1>2, <1>3, <1>4, <1>6, <1>7, <1>8, <1>9, <1>10
     DEF Next, Thread, Interrupt

\* disable_irq_nosync and enable_irq of the ss_irq line stay balanced.
THEOREM IrqIsSafe == Spec => []IrqIsBalanced
<1>1. Init => IrqInv
  BY DEF Init, IrqInv, IrqIsBalanced
<1>2. TypeInv /\ IrqInv /\ [Next]_vars => IrqInv'
  BY IrqStep
<1>3. Init => TypeInv
  BY InitType
<1>4. TypeInv /\ [Next]_vars => TypeInv'
  BY TypeStep
<1> QED BY <1>1, <1>2, <1>3, <1>4, PTL DEF Spec, IrqInv

-----------------------------------------------------------------------------
(***************************************************************************)
(* Blocks.  A block belongs to the transport exactly while it is in the    *)
(* list or in the thread's hands, never in both and never twice; the block *)
(* of a running hsspi_rx belongs to the reception.                         *)
(***************************************************************************)

InList(b) == \E i \in DOMAIN work_list : IsTx(i) /\ work_list[i].blk = b
InHand(b) == pc \in {"tx", "tx_xfer"} /\ tx.blk = b

NoBlockTwice ==
  \A i, j \in DOMAIN work_list :
    IsTx(i) /\ IsTx(j) /\ work_list[i].blk = work_list[j].blk => i = j

OwnedIsHeld ==
  /\ \A b \in Blocks : owner[b] = "hsspi" <=> InList(b) \/ InHand(b)
  /\ \A b \in Blocks : ~(InList(b) /\ InHand(b))

RxBlockIsOwned == pc = "rx_xfer" /\ rx.blk # None => owner[rx.blk] = "rx"

HeldInv == NoBlockTwice /\ OwnedIsHeld /\ RxBlockIsOwned

\* A queued TX work adds its block, which was not in the list.
LEMMA HeldSend ==
  ASSUME TypeInv, NoBlockTwice, NEW w \in TxWork, ~InList(w.blk),
         work_list' = list_add_tail(w)
  PROVE  /\ NoBlockTwice'
         /\ \A b : InList(b)' <=> InList(b) \/ b = w.blk
<1>1. work_list \in Seq(Work) /\ w \in Work /\ w.type = "TX"
  BY WorkFacts DEF TypeInv, TypeOK, Work
<1>2. /\ DOMAIN work_list = 1..Len(work_list)
      /\ Len(work_list) \in Nat
      /\ DOMAIN work_list' = 1..(Len(work_list) + 1)
      /\ \A i \in 1..Len(work_list) : work_list'[i] = work_list[i]
      /\ work_list'[Len(work_list) + 1] = w
  BY <1>1, AppendFacts DEF list_add_tail
<1>3. \A b : InList(b)' <=> InList(b) \/ b = w.blk
  BY <1>1, <1>2 DEF InList, IsTx
<1>4. NoBlockTwice'
  BY <1>1, <1>2 DEF NoBlockTwice, InList, IsTx
<1> QED BY <1>3, <1>4

\* A queued completion work adds no block.
LEMMA HeldFence ==
  ASSUME TypeInv, NoBlockTwice, NEW c \in Clients,
         work_list' = list_add_tail([type |-> "COMPLETION", completion |-> c])
  PROVE  /\ NoBlockTwice'
         /\ \A b : InList(b)' <=> InList(b)
<1> DEFINE w == [type |-> "COMPLETION", completion |-> c]
<1>1. work_list \in Seq(Work) /\ w \in Work /\ w.type # "TX"
  BY WorkFacts DEF TypeInv, TypeOK, Work
<1>2. work_list' = Append(work_list, w)
  BY DEF list_add_tail
<1> HIDE DEF w
<1>3. /\ DOMAIN work_list = 1..Len(work_list)
      /\ Len(work_list) \in Nat
      /\ DOMAIN work_list' = 1..(Len(work_list) + 1)
      /\ \A i \in 1..Len(work_list) : work_list'[i] = work_list[i]
      /\ work_list'[Len(work_list) + 1] = w
  BY <1>1, <1>2, AppendFacts
<1>4. \A b : InList(b)' <=> InList(b)
  BY <1>1, <1>3 DEF InList, IsTx
<1>5. NoBlockTwice'
  BY <1>1, <1>3 DEF NoBlockTwice, IsTx
<1> QED BY <1>4, <1>5

\* get_work takes the block of the first work out of the list.
LEMMA HeldTake ==
  ASSUME TypeInv, NoBlockTwice, work_list # <<>>,
         work_list' = Tail(work_list)
  PROVE  /\ NoBlockTwice'
         /\ \A b : InList(b)' <=> InList(b) /\ ~(IsTx(1) /\ work_list[1].blk = b)
         /\ IsTx(1) => InList(work_list[1].blk)
<1>1. work_list \in Seq(Work)
  BY DEF TypeInv, TypeOK
<1>2. /\ Len(work_list) \in Nat \ {0}
      /\ DOMAIN work_list = 1..Len(work_list)
      /\ DOMAIN work_list' = 1..(Len(work_list) - 1)
      /\ \A j \in 1..(Len(work_list) - 1) : work_list'[j] = work_list[j + 1]
  BY <1>1, TailFacts
<1>3. NoBlockTwice'
  BY <1>2 DEF NoBlockTwice, IsTx
<1>4. IsTx(1) => InList(work_list[1].blk)
  BY <1>2 DEF InList
<1>5. ASSUME NEW b, InList(b)'
      PROVE  InList(b) /\ ~(IsTx(1) /\ work_list[1].blk = b)
  <2>1. PICK j \in 1..(Len(work_list) - 1) :
          work_list'[j].type = "TX" /\ work_list'[j].blk = b
    BY <1>2, <1>5 DEF InList, IsTx
  <2>2. j + 1 \in DOMAIN work_list /\ IsTx(j + 1) /\ work_list[j + 1].blk = b
    BY <1>2, <2>1 DEF IsTx
  <2>3. 1 \in DOMAIN work_list /\ j + 1 # 1
    BY <1>2, <2>1
  <2> QED BY <2>2, <2>3 DEF InList, NoBlockTwice
<1>6. ASSUME NEW b, InList(b), ~(IsTx(1) /\ work_list[1].blk = b)
      PROVE  InList(b)'
  <2>1. PICK i \in DOMAIN work_list : IsTx(i) /\ work_list[i].blk = b
    BY <1>6 DEF InList
  <2>2. i # 1
    BY <1>6, <2>1
  <2>3. i - 1 \in DOMAIN work_list' /\ work_list'[i - 1] = work_list[i]
    BY <1>2, <2>1, <2>2
  <2> QED BY <2>1, <2>3 DEF InList, IsTx
<1> QED BY <1>3, <1>4, <1>5, <1>6

\* Steps that touch neither the list nor the blocks, and do not take or give
\* up a work or a reception.
LEMMA HeldFrame ==
  ASSUME HeldInv, UNCHANGED <<work_list, owner>>,
         \/ UNCHANGED <<pc, tx, rx>>
         \/ /\ {pc, pc'} \cap {"tx", "tx_xfer", "rx_xfer"} = {}
         \/ /\ pc = "tx" /\ pc' = "tx_xfer" /\ tx' = tx
  PROVE  HeldInv'
<1>1. NoBlockTwice' /\ \A b : InList(b)' <=> InList(b)
  BY DEF HeldInv, NoBlockTwice, InList, IsTx
<1>2. \A b : InHand(b)' <=> InHand(b)
  BY DEF InHand
<1>3. OwnedIsHeld'
  BY <1>1, <1>2 DEF HeldInv, OwnedIsHeld
<1>4. RxBlockIsOwned'
  BY DEF HeldInv, RxBlockIsOwned
<1> QED BY <1>1, <1>3, <1>4 DEF HeldInv

\* received() gives the block of the reception away.
LEMMA HeldReceived ==
  ASSUME TypeInv, HeldInv, pc = "rx_xfer", Received,
         pc' \in {"account", "reenable"}
  PROVE  HeldInv'
<1>1. RxBlockIsOwned' /\ \A b : ~InHand(b) /\ ~InHand(b)'
  BY DEF RxBlockIsOwned, InHand
<1>2. NoBlockTwice /\ \A b \in Blocks : owner[b] = "hsspi" <=> InList(b)
  BY <1>1 DEF HeldInv, OwnedIsHeld
<1>3. owner \in [Blocks -> {"free", "hsspi", "rx", "lost"}]
  BY DEF TypeInv, TypeOK
<1>4. NoBlockTwice' /\ \A b \in Blocks : owner'[b] = "hsspi" <=> InList(b)'
  <2>1. CASE work_list' = work_list /\ rx.blk = None
    <3>1. owner' = owner
      BY <2>1 DEF Received
    <3> QED BY <1>2, <2>1, <3>1 DEF NoBlockTwice, InList, IsTx
  <2>2. CASE rx.blk # None
    <3>1. rx.blk \in Blocks /\ owner[rx.blk] = "rx"
      BY <2>2 DEF TypeInv, TypeOK, HeldInv, RxBlockIsOwned
    <3>2. ~InList(rx.blk)
      BY <1>2, <3>1
    <3>3. CASE work_list' = work_list /\ owner'[rx.blk] # "hsspi"
      <4>1. NoBlockTwice' /\ \A b : InList(b)' <=> InList(b)
        BY <1>2, <3>3 DEF NoBlockTwice, InList, IsTx
      <4>2. \A b \in Blocks : b # rx.blk => owner'[b] = owner[b]
        BY <1>3, <2>2 DEF Received
      <4> QED BY <1>2, <3>2, <3>3, <4>1, <4>2
    <3>4. CASE /\ rx.layer \in EchoLayers
               /\ owner' = [owner EXCEPT ![rx.blk] = "hsspi"]
               /\ work_list' = list_add_tail([type |-> "TX",
                                              layer |-> rx.layer,
                                              blk |-> rx.blk])
      <4> DEFINE w == [type |-> "TX", layer |-> rx.layer, blk |-> rx.blk]
      <4>1. w \in TxWork /\ w.blk = rx.blk
        BY <3>1, <3>4, WorkFacts, ConstantsAssumption
      <4> HIDE DEF w
      <4>2. NoBlockTwice' /\ \A b : InList(b)' <=> InList(b) \/ b = rx.blk
        BY <1>2, <3>2, <3>4, <4>1, HeldSend DEF w
      <4> QED BY <1>2, <1>3, <3>1, <3>4, <4>2
    <3> QED BY <1>3, <2>2, <3>1, <3>3, <3>4 DEF Received
  <2> QED BY <2>1, <2>2 DEF Received
<1> QED BY <1>1, <1>4 DEF HeldInv, OwnedIsHeld

\* Every step keeps each accepted block in one place.
LEMMA HeldStep ==
  ASSUME TypeInv, HeldInv, [Next]_vars
  PROVE  HeldInv'
<1> USE DEF threadVars, clientVars, irqVars
<1>1. /\ NoBlockTwice /\ OwnedIsHeld /\ RxBlockIsOwned
      /\ owner \in [Blocks -> {"free", "hsspi", "rx", "lost"}]
      /\ work_list \in Seq(Work)
  BY DEF HeldInv, TypeInv, TypeOK
<1>2. ASSUME NEW c \in Clients,
             hsspi_stop(c) \/ \E l \in Layers : hsspi_unregister(c, l)
      PROVE  HeldInv'
  <2>1. /\ work_list' = list_add_tail([type |-> "COMPLETION", completion |-> c])
        /\ UNCHANGED <<owner, pc, tx, rx>>
    BY <1>2 DEF hsspi_stop, hsspi_unregister
  <2>2. NoBlockTwice' /\ \A b : InList(b)' <=> InList(b)
    BY <1>1, <2>1, HeldFence
  <2>3. OwnedIsHeld' /\ RxBlockIsOwned'
    BY <1>1, <2>1, <2>2 DEF OwnedIsHeld, RxBlockIsOwned, InHand
  <2> QED BY <2>2, <2>3 DEF HeldInv
<1>3. ASSUME NEW c \in Clients, NEW l \in Layers, NEW b \in Blocks,
             hsspi_send(c, l, b)
      PROVE  HeldInv'
  <2> DEFINE w == [type |-> "TX", layer |-> l, blk |-> b]
  <2>1. /\ work_list' = list_add_tail(w)
        /\ owner[b] = "free" /\ owner' = [owner EXCEPT ![b] = "hsspi"]
        /\ UNCHANGED <<pc, tx, rx>>
    BY <1>3 DEF hsspi_send
  <2>2. w \in TxWork /\ w.blk = b
    BY WorkFacts
  <2> HIDE DEF w
  <2>3. ~InList(b) /\ ~InHand(b)
    BY <1>1, <2>1 DEF OwnedIsHeld
  <2>4. NoBlockTwice' /\ \A x : InList(x)' <=> InList(x) \/ x = b
    BY <1>1, <2>1, <2>2, <2>3, HeldSend
  <2>5. \A x : InHand(x)' <=> InHand(x)
    BY <2>1 DEF InHand
  <2>6. OwnedIsHeld'
    BY <1>1, <2>1, <2>3, <2>4, <2>5 DEF OwnedIsHeld
  <2>7. RxBlockIsOwned'
    BY <1>1, <2>1 DEF RxBlockIsOwned
  <2> QED BY <2>4, <2>6, <2>7 DEF HeldInv
<1>4. CASE get_work_completion \/ get_work_tx
  <2>1. /\ work_list # <<>> /\ work_list' = Tail(work_list)
        /\ pc = "get" /\ pc' \in {"wait", "tx"} /\ owner' = owner
        /\ pc' = "tx" <=> work_list[1].type = "TX"
        /\ pc' = "tx" => tx' = work_list[1]
    BY <1>1, <1>4, TailFacts DEF get_work_completion, get_work_tx
  <2>2. /\ NoBlockTwice'
        /\ \A b : InList(b)' <=> InList(b) /\ ~(IsTx(1) /\ work_list[1].blk = b)
        /\ IsTx(1) => InList(work_list[1].blk)
    BY <1>1, <2>1, HeldTake
  <2>3. \A b : ~InHand(b) /\ (InHand(b)' <=> IsTx(1) /\ work_list[1].blk = b)
    BY <2>1 DEF InHand, IsTx
  <2>4. OwnedIsHeld'
    BY <1>1, <2>1, <2>2, <2>3 DEF OwnedIsHeld
  <2>5. RxBlockIsOwned'
    BY <2>1 DEF RxBlockIsOwned
  <2> QED BY <2>2, <2>4, <2>5 DEF HeldInv
<1>5. ASSUME NEW ok \in BOOLEAN, hsspi_tx_done(ok)
      PROVE  HeldInv'
  <2>1. /\ pc = "tx_xfer" /\ pc' \in {"rx", "account"} /\ work_list' = work_list
        /\ owner' = [owner EXCEPT ![tx.blk] = "free"]
    BY <1>5 DEF hsspi_tx_done
  <2>2. NoBlockTwice' /\ \A b : InList(b)' <=> InList(b)
    BY <1>1, <2>1 DEF NoBlockTwice, InList, IsTx
  <2>3. \A b : (InHand(b) <=> tx.blk = b) /\ ~InHand(b)'
    BY <2>1 DEF InHand
  <2>4. OwnedIsHeld'
    BY <1>1, <2>1, <2>2, <2>3 DEF OwnedIsHeld
  <2>5. RxBlockIsOwned'
    BY <2>1 DEF RxBlockIsOwned
  <2> QED BY <2>2, <2>4, <2>5 DEF HeldInv
<1>6. ASSUME NEW b \in Blocks \cup {None}, hsspi_rx_get(b)
      PROVE  HeldInv'
  <2>1. pc = "rx" /\ pc' = "rx_xfer" /\ work_list' = work_list
    BY <1>6 DEF hsspi_rx_get
  <2>2. NoBlockTwice' /\ \A x : InList(x)' <=> InList(x)
    BY <1>1, <2>1 DEF NoBlockTwice, InList, IsTx
  <2>3. \A x : ~InHand(x) /\ ~InHand(x)'
    BY <2>1 DEF InHand
  <2>4. \A x \in Blocks : owner'[x] = "hsspi" <=> owner[x] = "hsspi"
    BY <1>1, <1>6 DEF hsspi_rx_get
  <2>5. OwnedIsHeld'
    BY <1>1, <2>2, <2>3, <2>4 DEF OwnedIsHeld
  <2>6. RxBlockIsOwned'
    <3>1. rx.blk = None /\ rx \in [ul : UlIds, layer : Layers \cup {None},
                                   blk : Blocks \cup {None}]
      BY <2>1 DEF TypeInv, TypeOK, Scoped
    <3>2. CASE rx.ul \in registered
      <4>1. rx'.blk = b
        BY <1>6, <3>1, <3>2 DEF hsspi_rx_get
      <4>2. b # None => owner'[b] = "rx"
        BY <1>1, <1>6, <3>2 DEF hsspi_rx_get
      <4> QED BY <4>1, <4>2 DEF RxBlockIsOwned
    <3>3. CASE rx.ul \notin registered
      BY <1>6, <3>1, <3>3 DEF RxBlockIsOwned, hsspi_rx_get
    <3> QED BY <3>2, <3>3
  <2> QED BY <2>2, <2>5, <2>6 DEF HeldInv
<1>7. CASE \/ hsspi_rx_failed \/ hsspi_rx_done
           \/ \E odw \in BOOLEAN : hsspi_rx_mismatch(odw)
  <2>1. pc = "rx_xfer" /\ Received /\ pc' \in {"account", "reenable"}
    BY <1>7 DEF hsspi_rx_failed, hsspi_rx_done, hsspi_rx_mismatch, OdwCleared
  <2> QED BY <2>1, HeldReceived
<1>8. CASE \/ is_txrx_waiting \/ wait_event \/ get_work_none \/ hsspi_tx
           \/ (\E ok \in BOOLEAN : hsspi_pre_read_done(ok))
           \/ reenable_ss_irq \/ account \/ reset_qm35
  <2>1. UNCHANGED <<work_list, owner>>
    BY <1>8 DEF is_txrx_waiting, wait_event, get_work_none, hsspi_tx,
         hsspi_pre_read_done, reenable_ss_irq, account, reset_qm35
  <2>2. \/ {pc, pc'} \cap {"tx", "tx_xfer", "rx_xfer"} = {}
        \/ pc = "tx" /\ pc' = "tx_xfer" /\ tx' = tx
    BY <1>8 DEF is_txrx_waiting, wait_event, get_work_none, hsspi_tx,
         hsspi_pre_read_done, reenable_ss_irq, account, reset_qm35
  <2> QED BY <2>1, <2>2, HeldFrame
<1>9. CASE \/ Interrupt \/ Firmware \/ UNCHANGED vars
           \/ \E c \in Clients :
                \/ \E l \in Layers : hsspi_register(c, l)
                \/ hsspi_start(c) \/ wake_up(c) \/ wait_for_completion(c)
                \/ hsspi_deinit_check(c) \/ kthread_stop(c)
                \/ hsspi_deinit_free(c)
  <2>1. UNCHANGED <<work_list, owner, pc, tx, rx>>
    BY <1>9 DEF Interrupt, qm35_irq_handler, hsspi_set_output_data_waiting,
         Firmware, FwOutput, FwRestart, vars, hsspi_register, hsspi_start,
         wake_up, wait_for_completion, hsspi_deinit_check, kthread_stop,
         hsspi_deinit_free
  <2> QED BY <2>1, HeldFrame
<1> QED
  BY <1>2, <1>3, <1>4, <1>5, <1>6, <1>7, <1>8, <1>9
     DEF Next, Client, Thread

\* hsspi_send never loses a block, sends it twice, or lets it be received
\* into while it waits.
THEOREM BlocksAreSafe == Spec => []AcceptedBlockIsHeldOnce
<1>1. Init => HeldInv
  BY DEF Init, HeldInv, NoBlockTwice, OwnedIsHeld, RxBlockIsOwned, InList,
     InHand
<1>2. TypeInv /\ HeldInv /\ [Next]_vars => HeldInv'
  BY HeldStep
<1>3. TypeInv /\ HeldInv => AcceptedBlockIsHeldOnce
  <2> SUFFICES ASSUME TypeInv, HeldInv, NEW b \in Blocks
               PROVE  IF owner[b] = "hsspi"
                        THEN \E i \in Holders(b) : Holders(b) = {i}
                        ELSE Holders(b) = {}
    BY DEF AcceptedBlockIsHeldOnce
  <2>1. /\ NoBlockTwice /\ ~(InList(b) /\ InHand(b))
        /\ owner[b] = "hsspi" <=> InList(b) \/ InHand(b)
    BY DEF HeldInv, OwnedIsHeld
  <2>2. Holders(b) = {i \in DOMAIN work_list : IsTx(i) /\ work_list[i].blk = b}
                       \cup (IF InHand(b) THEN {0} ELSE {})
    BY DEF Holders, InHand
  <2>3. CASE ~InList(b) /\ ~InHand(b)
    BY <2>1, <2>2, <2>3 DEF InList
  <2>4. CASE InHand(b)
    <3>1. Holders(b) = {0}
      BY <2>1, <2>2, <2>4 DEF InList
    <3> QED BY <2>1, <2>4, <3>1
  <2>5. CASE InList(b)
    <3>1. PICK i \in DOMAIN work_list : IsTx(i) /\ work_list[i].blk = b
      BY <2>5 DEF InList
    <3>2. Holders(b) = {i}
      BY <2>1, <2>2, <2>5, <3>1 DEF NoBlockTwice
    <3> QED BY <2>1, <2>5, <3>2
  <2> QED BY <2>3, <2>4, <2>5
<1>4. Init => TypeInv
  BY InitType
<1>5. TypeInv /\ [Next]_vars => TypeInv'
  BY TypeStep
<1> QED BY <1>1, <1>2, <1>3, <1>4, <1>5, PTL DEF Spec

-----------------------------------------------------------------------------
(***************************************************************************)
(* Induction, as a statement about sets of numbers: what a recursive       *)
(* function computes is shown through the least number where it would not. *)
(***************************************************************************)

\* Every non-empty set of naturals has a least element.
LEMMA LeastNatural ==
  ASSUME NEW T \in SUBSET Nat, T # {}
  PROVE  \E x \in T : \A y \in T : x <= y
<1>1. PICK x \in T : \A y \in T : ~(<<y, x>> \in OpToRel(<, Nat))
  BY NatLessThanWellFounded, WFMin
<1>2. \A y \in T : ~(y < x)
  BY <1>1 DEF OpToRel
<1>3. \A y \in T : x \in Nat /\ y \in Nat
  OBVIOUS
<1>4. \A y \in T : x <= y
  BY <1>2, <1>3
<1> QED BY <1>4

\* A set that holds 0 and, with every n below m, also n + 1, holds all of
\* 0..m.
LEMMA UpTo ==
  ASSUME NEW m \in Nat, NEW P, 0 \in P,
         \A n \in 0..m : n < m /\ n \in P => n + 1 \in P
  PROVE  \A n \in 0..m : n \in P
<1> DEFINE T == {n \in 0..m : n \notin P}
<1> SUFFICES ASSUME T # {} PROVE FALSE
  OBVIOUS
<1>1. PICK x \in T : \A y \in T : x <= y
  <2>1. T \in SUBSET Nat
    OBVIOUS
  <2> HIDE DEF T
  <2> QED BY <2>1, LeastNatural
<1>2. x - 1 \in 0..m /\ x - 1 \notin T /\ x - 1 < m
  BY <1>1
<1> QED BY <1>1, <1>2

-----------------------------------------------------------------------------
(***************************************************************************)
(* TxBlocks: its recursive definition has a solution, and that solution    *)
(* follows list_add_tail and get_work.                                     *)
(***************************************************************************)

Entry(w) == [layer |-> w.layer, blk |-> w.blk]
Entries  == [layer : Layers, blk : Blocks]

\* What one more work does to the blocks collected so far.
Collect(q, w) == IF w.type = "TX" THEN Append(q, Entry(w)) ELSE q

\* g collects the blocks of the first m works of s.
Collects(g, s, m) ==
  g = [n \in 0..m |-> IF n = 0 THEN <<>> ELSE Collect(g[n - 1], s[n])]

\* The recursive definition of TxBlocks defines a function.
LEMMA TxBlocksDef ==
  ASSUME NEW s, Len(s) \in Nat
  PROVE  Collects(TxBlocks(s), s, Len(s))
<1> DEFINE P == {m \in 0..Len(s) : \E g : Collects(g, s, m)}
<1>1. 0 \in P
  <2>1. Collects([n \in 0..0 |-> <<>>], s, 0)
    BY DEF Collects
  <2> QED BY <2>1
<1>2. ASSUME NEW m \in 0..Len(s), m < Len(s), m \in P
      PROVE  m + 1 \in P
  <2>1. PICK g : Collects(g, s, m)
    BY <1>2
  <2> DEFINE h == [n \in 0..(m + 1) |->
                     IF n = m + 1 THEN Collect(g[m], s[n]) ELSE g[n]]
  <2>2. \A n \in 0..m :
          g[n] = IF n = 0 THEN <<>> ELSE Collect(g[n - 1], s[n])
    BY <2>1 DEF Collects
  <2>3. ASSUME NEW n \in 0..(m + 1)
        PROVE  h[n] = IF n = 0 THEN <<>> ELSE Collect(h[n - 1], s[n])
    <3>1. CASE n = m + 1
      <4>1. h[n] = Collect(g[m], s[n]) /\ h[n - 1] = g[m] /\ n # 0
        BY <3>1
      <4> QED BY <4>1
    <3>2. CASE n \in 0..m /\ n # 0
      <4>1. h[n] = g[n] /\ n - 1 \in 0..m /\ h[n - 1] = g[n - 1]
        BY <3>2
      <4> QED BY <2>2, <3>2, <4>1
    <3>3. CASE n = 0
      BY <2>2, <3>3
    <3> QED BY <3>1, <3>2, <3>3
  <2>4. h = [n \in 0..(m + 1) |-> h[n]]
    OBVIOUS
  <2> HIDE DEF h
  <2>5. Collects(h, s, m + 1)
    BY <2>3, <2>4 DEF Collects
  <2> QED BY <1>2, <2>5
<1> HIDE DEF P
<1>3. Len(s) \in P
  <2>1. \A n \in 0..Len(s) : n \in P
    BY <1>1, <1>2, UpTo
  <2> QED BY <2>1
<1>4. \E g : Collects(g, s, Len(s))
  BY <1>3 DEF P
<1>5. TxBlocks(s) = CHOOSE g : Collects(g, s, Len(s))
  BY DEF TxBlocks, Collects, Collect, Entry
<1> QED BY <1>4, <1>5

\* The blocks collected from nothing, and from one work more.
LEMMA TxBlocksAt ==
  ASSUME NEW s, Len(s) \in Nat
  PROVE  /\ TxBlocks(s)[0] = <<>>
         /\ \A n \in 1..Len(s) :
              TxBlocks(s)[n] = Collect(TxBlocks(s)[n - 1], s[n])
<1> DEFINE g == TxBlocks(s)
<1>1. g = [n \in 0..Len(s) |-> IF n = 0 THEN <<>> ELSE Collect(g[n - 1], s[n])]
  BY TxBlocksDef DEF Collects
<1> HIDE DEF g
<1>2. \A n \in 0..Len(s) :
        g[n] = IF n = 0 THEN <<>> ELSE Collect(g[n - 1], s[n])
  BY <1>1
<1> QED BY <1>2 DEF g

\* Collected blocks are blocks of layers, and each comes from a TX work.
LEMMA TxBlocksType ==
  ASSUME NEW s \in Seq(Work)
  PROVE  \A n \in 0..Len(s) :
           /\ TxBlocks(s)[n] \in Seq(Entries)
           /\ \A k \in DOMAIN TxBlocks(s)[n] :
                \E i \in DOMAIN s : s[i].type = "TX"
                                    /\ TxBlocks(s)[n][k] = Entry(s[i])
<1> DEFINE g == TxBlocks(s)
           P == {n \in 0..Len(s) :
                   /\ g[n] \in Seq(Entries)
                   /\ \A k \in DOMAIN g[n] :
                        \E i \in DOMAIN s : s[i].type = "TX"
                                            /\ g[n][k] = Entry(s[i])}
<1>1. /\ Len(s) \in Nat /\ DOMAIN s = 1..Len(s)
      /\ g[0] = <<>>
      /\ \A n \in 1..Len(s) : g[n] = Collect(g[n - 1], s[n])
  BY TxBlocksAt
<1> HIDE DEF g
<1>2. 0 \in P
  <2>1. g[0] \in Seq(Entries) /\ DOMAIN g[0] = {}
    BY <1>1
  <2>2. \A k \in DOMAIN g[0] :
          \E i \in DOMAIN s : s[i].type = "TX" /\ g[0][k] = Entry(s[i])
    BY <2>1
  <2>3. 0 \in 0..Len(s)
    BY <1>1
  <2> QED BY <2>1, <2>2, <2>3, Zenon
<1>3. ASSUME NEW n \in 0..Len(s), n < Len(s), n \in P
      PROVE  n + 1 \in P
  <2>1. n + 1 \in 1..Len(s) /\ s[n + 1] \in Work /\ (n + 1) - 1 = n
    BY <1>1, <1>3
  <2>2. g[n + 1] = Collect(g[n], s[n + 1])
    BY <1>1, <2>1
  <2>3. CASE s[n + 1].type # "TX"
    <3>1. g[n + 1] = g[n]
      BY <2>2, <2>3 DEF Collect
    <3> QED BY <1>3, <2>1, <3>1
  <2>4. CASE s[n + 1].type = "TX"
    <3>1. g[n + 1] = Append(g[n], Entry(s[n + 1]))
      BY <2>2, <2>4 DEF Collect
    <3>2. Entry(s[n + 1]) \in Entries
      BY <2>1, <2>4, WorkFacts DEF Entry, Entries
    <3>3. /\ g[n] \in Seq(Entries)
          /\ \A k \in DOMAIN g[n] :
               \E i \in DOMAIN s : s[i].type = "TX" /\ g[n][k] = Entry(s[i])
      BY <1>3
    <3>4. /\ g[n + 1] \in Seq(Entries)
          /\ DOMAIN g[n + 1] = DOMAIN g[n] \cup {Len(g[n]) + 1}
          /\ \A k \in DOMAIN g[n] : g[n + 1][k] = g[n][k]
          /\ g[n + 1][Len(g[n]) + 1] = Entry(s[n + 1])
      BY <3>1, <3>2, <3>3, AppendFacts, SMTT(20)
    <3>5. \A k \in DOMAIN g[n + 1] :
            \E i \in DOMAIN s : s[i].type = "TX" /\ g[n + 1][k] = Entry(s[i])
      BY <1>1, <2>1, <2>4, <3>3, <3>4
    <3> QED BY <2>1, <3>4, <3>5
  <2> QED BY <2>3, <2>4
<1> HIDE DEF P
<1>4. \A n \in 0..Len(s) : n \in P
  BY <1>1, <1>2, <1>3, UpTo
<1> QED BY <1>4 DEF P, g

\* list_add_tail: the block of the new work, if it has one, comes last.
LEMMA TxBlocksAppend ==
  ASSUME NEW s \in Seq(Work), NEW w \in Work
  PROVE  TxBlocks(Append(s, w))[Len(s) + 1] = Collect(TxBlocks(s)[Len(s)], w)
<1> DEFINE t == Append(s, w)
           P == {n \in 0..Len(s) : TxBlocks(t)[n] = TxBlocks(s)[n]}
<1>1. /\ Len(s) \in Nat /\ Len(t) = Len(s) + 1 /\ t[Len(s) + 1] = w
      /\ \A n \in 1..Len(s) : t[n] = s[n]
  BY AppendFacts
<1> HIDE DEF t
<1>2. /\ TxBlocks(s)[0] = <<>> /\ TxBlocks(t)[0] = <<>>
      /\ \A n \in 1..Len(s) : TxBlocks(s)[n] = Collect(TxBlocks(s)[n - 1], s[n])
      /\ \A n \in 1..Len(t) : TxBlocks(t)[n] = Collect(TxBlocks(t)[n - 1], t[n])
  BY <1>1, TxBlocksAt
<1>3. 0 \in P
  BY <1>1, <1>2
<1>4. ASSUME NEW n \in 0..Len(s), n < Len(s), n \in P
      PROVE  n + 1 \in P
  <2>1. n + 1 \in 1..Len(s) /\ n + 1 \in 1..Len(t) /\ (n + 1) - 1 = n
    BY <1>1, <1>4
  <2>2. /\ TxBlocks(t)[n + 1] = Collect(TxBlocks(t)[n], t[n + 1])
        /\ TxBlocks(s)[n + 1] = Collect(TxBlocks(s)[n], s[n + 1])
        /\ t[n + 1] = s[n + 1]
    BY <1>1, <1>2, <2>1
  <2>3. TxBlocks(t)[n] = TxBlocks(s)[n]
    BY <1>4
  <2> QED BY <2>1, <2>2, <2>3
<1>5. TxBlocks(t)[Len(s)] = TxBlocks(s)[Len(s)]
  <2> HIDE DEF P
  <2>1. \A n \in 0..Len(s) : n \in P
    BY <1>1, <1>3, <1>4, UpTo
  <2> QED BY <1>1, <2>1 DEF P
<1>6. TxBlocks(t)[Len(s) + 1] = Collect(TxBlocks(t)[Len(s)], w)
  <2>1. Len(s) + 1 \in 1..Len(t) /\ (Len(s) + 1) - 1 = Len(s)
    BY <1>1
  <2> QED BY <1>1, <1>2, <2>1
<1> QED BY <1>5, <1>6 DEF t

\* Appending to a sequence that follows another.
AppendsLast(s, q, e) == Append(s \o q, e) = s \o Append(q, e)

LEMMA AppendConcat ==
  ASSUME NEW S, NEW s \in Seq(S), NEW q \in Seq(S), NEW e \in S
  PROVE  AppendsLast(s, q, e)
  BY DEF AppendsLast

\* get_work: the block of the first work, if it has one, comes first.
LEMMA TxBlocksTail ==
  ASSUME NEW s \in Seq(Work), s # <<>>
  PROVE  TxBlocks(s)[Len(s)]
           = (IF s[1].type = "TX" THEN <<Entry(s[1])>> ELSE <<>>)
             \o TxBlocks(Tail(s))[Len(s) - 1]
<1> DEFINE t == Tail(s)
           first == IF s[1].type = "TX" THEN <<Entry(s[1])>> ELSE <<>>
           P == {n \in 0..(Len(s) - 1) :
                   TxBlocks(s)[n + 1] = first \o TxBlocks(t)[n]}
<1>1. /\ Len(s) \in Nat \ {0} /\ Len(t) = Len(s) - 1 /\ t \in Seq(Work)
      /\ \A n \in 1..(Len(s) - 1) : t[n] = s[n + 1]
      /\ \A n \in 1..Len(s) : s[n] \in Work
      /\ Len(t) \in Nat /\ Len(s) \in Nat
  BY TailFacts
<1>2. first \in Seq(Entries)
  <2>1. s[1] \in Work
    BY <1>1
  <2>2. CASE s[1].type = "TX"
    BY <2>1, <2>2, WorkFacts DEF Entry, Entries
  <2>3. CASE s[1].type # "TX"
    BY <2>3
  <2> QED BY <2>2, <2>3
<1> HIDE DEF t
<1>3. /\ TxBlocks(s)[0] = <<>> /\ TxBlocks(t)[0] = <<>>
      /\ \A n \in 1..Len(s) : TxBlocks(s)[n] = Collect(TxBlocks(s)[n - 1], s[n])
      /\ \A n \in 1..Len(t) : TxBlocks(t)[n] = Collect(TxBlocks(t)[n - 1], t[n])
  BY <1>1, TxBlocksAt
<1>4. \A n \in 0..(Len(s) - 1) : TxBlocks(t)[n] \in Seq(Entries)
  BY <1>1, TxBlocksType
<1>5. 0 \in P
  <2>1. TxBlocks(s)[1] = Collect(<<>>, s[1])
    <3>1. 1 \in 1..Len(s) /\ 1 - 1 = 0
      BY <1>1
    <3> QED BY <1>3, <3>1
  <2>2. Collect(<<>>, s[1]) = first
    BY DEF Collect
  <2>3. first = first \o <<>>
    BY <1>2
  <2> HIDE DEF first
  <2>4. 0 \in 0..(Len(s) - 1) /\ 0 + 1 = 1
    BY <1>1
  <2> QED BY <1>3, <2>1, <2>2, <2>3, <2>4
<1> HIDE DEF first
<1>6. ASSUME NEW n \in 0..(Len(s) - 1), n < Len(s) - 1, n \in P
      PROVE  n + 1 \in P
  <2>1. /\ n + 2 \in 1..Len(s) /\ (n + 2) - 1 = n + 1
        /\ n + 1 \in 1..Len(t) /\ (n + 1) - 1 = n /\ (n + 1) + 1 = n + 2
        /\ n + 1 \in 0..(Len(s) - 1)
    BY <1>1, <1>6
  <2>2. /\ TxBlocks(s)[n + 2] = Collect(TxBlocks(s)[n + 1], s[n + 2])
        /\ TxBlocks(t)[n + 1] = Collect(TxBlocks(t)[n], s[n + 2])
    BY <1>1, <1>3, <2>1
  <2>3. TxBlocks(s)[n + 1] = first \o TxBlocks(t)[n]
    BY <1>6
  <2>4. TxBlocks(s)[n + 2] = first \o TxBlocks(t)[n + 1]
    <3>1. CASE s[n + 2].type = "TX"
      <4>1. Entry(s[n + 2]) \in Entries
        BY <1>1, <2>1, <3>1, WorkFacts DEF Entry, Entries
      <4>2. TxBlocks(t)[n] \in Seq(Entries)
        BY <1>4
      <4>3. /\ TxBlocks(s)[n + 2]
                 = Append(first \o TxBlocks(t)[n], Entry(s[n + 2]))
            /\ TxBlocks(t)[n + 1] = Append(TxBlocks(t)[n], Entry(s[n + 2]))
        BY <2>2, <2>3, <3>1 DEF Collect
      <4>4. Append(first \o TxBlocks(t)[n], Entry(s[n + 2]))
              = first \o Append(TxBlocks(t)[n], Entry(s[n + 2]))
        <5> DEFINE e == Entry(s[n + 2])
                   q == TxBlocks(t)[n]
        <5>1. e \in Entries /\ q \in Seq(Entries)
          BY <4>1, <4>2
        <5> HIDE DEF e, q, P
        <5>2. AppendsLast(first, q, e)
          BY <1>2, <5>1, AppendConcat
        <5> QED BY <5>2 DEF e, q, AppendsLast
      <4> QED BY <4>3, <4>4
    <3>2. CASE s[n + 2].type # "TX"
      BY <2>2, <2>3, <3>2 DEF Collect
    <3> QED BY <3>1, <3>2
  <2> QED BY <2>1, <2>4
<1> HIDE DEF P
<1>7. \A n \in 0..(Len(s) - 1) : n \in P
  <2>1. Len(s) - 1 \in Nat
    BY <1>1
  <2> QED BY <1>5, <1>6, <2>1, UpTo
<1>8. Len(s) - 1 \in P /\ (Len(s) - 1) + 1 = Len(s)
  BY <1>1, <1>7
<1> QED BY <1>8 DEF P, first, t

-----------------------------------------------------------------------------
(***************************************************************************)
(* The queue of the service, step by step.                                 *)
(***************************************************************************)

\* The thread has the same work in hand before and after the step.
SameHand == /\ pc \in {"tx", "tx_xfer"} <=> pc' \in {"tx", "tx_xfer"}
            /\ pc \in {"tx", "tx_xfer"} => tx' = tx

LEMMA SendingType ==
  ASSUME TypeInv
  PROVE  /\ Sending \in Seq(Entries)
         /\ TxBlocks(work_list)[Len(work_list)] \in Seq(Entries)
<1>1. Sending \in Seq(Entries)
  <2>1. CASE pc \in {"tx", "tx_xfer"}
    <3>1. [layer |-> tx.layer, blk |-> tx.blk] \in Entries
      BY <2>1, WorkFacts DEF TypeInv, Scoped, Entries
    <3> QED BY <2>1, <3>1 DEF Sending
  <2>2. CASE pc \notin {"tx", "tx_xfer"}
    BY <2>2 DEF Sending
  <2> QED BY <2>1, <2>2
<1>2. work_list \in Seq(Work) /\ Len(work_list) \in 0..Len(work_list)
  BY DEF TypeInv, TypeOK
<1> QED BY <1>1, <1>2, TxBlocksType

\* Steps that leave the list and the thread's hands alone keep the queue.
LEMMA QueueSame ==
  ASSUME work_list' = work_list, SameHand
  PROVE  AcceptedBlocks' = AcceptedBlocks
<1>1. Sending' = Sending
  BY DEF SameHand, Sending
<1> QED BY <1>1 DEF AcceptedBlocks

\* A block joins the queue when its work joins the list; a completion work
\* changes nothing.
LEMMA QueueAppend ==
  ASSUME TypeInv, NEW w \in Work, work_list' = list_add_tail(w), SameHand
  PROVE  AcceptedBlocks' = Collect(AcceptedBlocks, w)
<1> DEFINE q == TxBlocks(work_list)[Len(work_list)]
<1>1. Sending' = Sending
  BY DEF SameHand, Sending
<1>2. work_list \in Seq(Work)
  BY DEF TypeInv, TypeOK
<1>3. Len(work_list') = Len(work_list) + 1 /\ work_list' = Append(work_list, w)
  BY <1>2 DEF list_add_tail
<1>4. TxBlocks(work_list')[Len(work_list')] = Collect(q, w)
  BY <1>2, <1>3, TxBlocksAppend
<1>5. Sending \in Seq(Entries) /\ q \in Seq(Entries)
  BY SendingType
<1>6. AcceptedBlocks' = Sending \o Collect(q, w) /\ AcceptedBlocks = Sending \o q
  BY <1>1, <1>4 DEF AcceptedBlocks
<1> HIDE DEF q
<1>7. CASE w.type # "TX"
  BY <1>6, <1>7 DEF Collect
<1>8. CASE w.type = "TX"
  <2> DEFINE e == Entry(w)
  <2>1. e \in Entries
    BY <1>8, WorkFacts DEF Entry, Entries
  <2>2. /\ Collect(q, w) = Append(q, e)
        /\ Collect(AcceptedBlocks, w) = Append(AcceptedBlocks, e)
    BY <1>8 DEF Collect
  <2> HIDE DEF e
  <2>3. Append(Sending \o q, e) = Sending \o Append(q, e)
    BY <1>5, <2>1, SMTT(30)
  <2> QED BY <1>6, <2>2, <2>3
<1> QED BY <1>7, <1>8

\* get_work moves a block from the list into the thread's hands.
LEMMA QueueTake ==
  ASSUME TypeInv, get_work_tx \/ get_work_completion
  PROVE  AcceptedBlocks' = AcceptedBlocks
<1> DEFINE q == TxBlocks(work_list')[Len(work_list')]
<1>1. work_list \in Seq(Work) /\ work_list # <<>> /\ work_list' = Tail(work_list)
  BY DEF TypeInv, TypeOK, get_work_tx, get_work_completion
<1>2. /\ Len(work_list') = Len(work_list) - 1 /\ Head(work_list) = work_list[1]
      /\ work_list' \in Seq(Work)
      /\ Len(work_list') \in 0..Len(work_list')
  BY <1>1, TailFacts
<1>3. TxBlocks(work_list)[Len(work_list)]
        = (IF work_list[1].type = "TX" THEN <<Entry(work_list[1])>> ELSE <<>>)
          \o q
  BY <1>1, <1>2, TxBlocksTail
<1>4. Sending = <<>>
  BY DEF Sending, get_work_tx, get_work_completion
<1>5. Sending' = IF work_list[1].type = "TX" THEN <<Entry(work_list[1])>>
                                            ELSE <<>>
  BY <1>2 DEF Sending, Entry, get_work_tx, get_work_completion
<1>6. TxBlocks(work_list)[Len(work_list)] \in Seq(Entries)
  BY SendingType
<1>7. AcceptedBlocks = TxBlocks(work_list)[Len(work_list)]
  BY <1>4, <1>6 DEF AcceptedBlocks
<1> QED BY <1>3, <1>5, <1>7 DEF AcceptedBlocks

\* sent() takes the oldest block off the queue.
LEMMA QueueSent ==
  ASSUME TypeInv, pc = "tx_xfer", pc' \notin {"tx", "tx_xfer"},
         work_list' = work_list
  PROVE  /\ AcceptedBlocks # <<>>
         /\ Head(AcceptedBlocks).blk = tx.blk
         /\ AcceptedBlocks' = Tail(AcceptedBlocks)
<1> DEFINE q == TxBlocks(work_list)[Len(work_list)]
           e == [layer |-> tx.layer, blk |-> tx.blk]
<1>1. q \in Seq(Entries)
  BY SendingType
<1>2. e \in Entries /\ e.blk = tx.blk
  BY WorkFacts DEF TypeInv, Scoped, Entries
<1>3. AcceptedBlocks = <<e>> \o q /\ AcceptedBlocks' = <<>> \o q
  BY DEF AcceptedBlocks, Sending
<1> HIDE DEF q, e
<1>4. /\ <<e>> \o q # <<>>
      /\ Head(<<e>> \o q) = e
      /\ Tail(<<e>> \o q) = <<>> \o q
  BY <1>1, <1>2
<1> QED BY <1>2, <1>3, <1>4

\* What is in the queue is in the list or in the thread's hands.
LEMMA QueueEntries ==
  ASSUME TypeInv, NEW k \in DOMAIN AcceptedBlocks
  PROVE  \/ /\ pc \in {"tx", "tx_xfer"}
            /\ AcceptedBlocks[k].layer = tx.layer
         \/ \E i \in DOMAIN work_list :
              IsTx(i) /\ AcceptedBlocks[k].layer = work_list[i].layer
<1> DEFINE q == TxBlocks(work_list)[Len(work_list)]
<1>1. Sending \in Seq(Entries) /\ q \in Seq(Entries)
  BY SendingType
<1>2. work_list \in Seq(Work) /\ Len(work_list) \in 0..Len(work_list)
  BY DEF TypeInv, TypeOK
<1>3. \A j \in DOMAIN q : \E i \in DOMAIN work_list :
        IsTx(i) /\ q[j].layer = work_list[i].layer
  <2>1. \A j \in DOMAIN q : \E i \in DOMAIN work_list :
          work_list[i].type = "TX" /\ q[j] = Entry(work_list[i])
    BY <1>2, TxBlocksType
  <2>2. \A w : Entry(w).layer = w.layer
    BY DEF Entry
  <2> QED BY <2>1, <2>2 DEF IsTx
<1>4. AcceptedBlocks = Sending \o q
  BY DEF AcceptedBlocks
<1> HIDE DEF q
<1>5. \/ k \in DOMAIN Sending /\ AcceptedBlocks[k] = Sending[k]
      \/ \E j \in DOMAIN q : AcceptedBlocks[k] = q[j]
  BY <1>1, <1>4
<1>6. CASE k \in DOMAIN Sending /\ AcceptedBlocks[k] = Sending[k]
  BY <1>6 DEF Sending
<1> QED BY <1>3, <1>5, <1>6

-----------------------------------------------------------------------------
(***************************************************************************)
(* The fences of the service, and the refinement.                          *)
(***************************************************************************)

\* Every step of the driver is a step of the service or leaves it alone.
LEMMA ServiceStep ==
  ASSUME IInv, [Next]_vars
  PROVE  [Service!Next]_(Service!vars)
<1> USE DEF threadVars, clientVars, irqVars
<1> DEFINE Call == [c \in Clients |-> Fence(c)]
           Rx   == [layer |-> rx.layer, blk |-> rx.blk]
<1>0. /\ TypeInv
      /\ registered \subseteq Layers
      /\ work_list \in Seq(Work)
      /\ cpc \in [Clients -> ClientPcs]
      /\ unreg \in [Clients -> Layers \cup {None}]
      /\ owner \in [Blocks -> {"free", "hsspi", "rx", "lost"}]
      /\ rx \in [ul : UlIds, layer : Layers \cup {None},
                 blk : Blocks \cup {None}]
  BY DEF IInv, TypeInv, TypeOK
<1>1. ASSUME UNCHANGED <<state, registered, owner>>,
             AcceptedBlocks' = AcceptedBlocks,
             rx'.layer = rx.layer, rx'.blk = rx.blk,
             \A c \in Clients : Fence(c)' = Fence(c)
      PROVE  UNCHANGED Service!vars
  BY <1>1 DEF Service!vars
<1>2. ASSUME NEW c \in Clients, NEW x, Fence(c)' = x,
             \A d \in Clients : d # c => cpc'[d] = cpc[d] /\ unreg'[d] = unreg[d]
      PROVE  Call' = [Call EXCEPT ![c] = x]
  <2>1. \A d \in Clients : d # c => Fence(d)' = Fence(d)
    BY <1>2 DEF Fence
  <2> HIDE DEF Fence
  <2> QED BY <1>2, <2>1
\* The calls.
<1>3. ASSUME NEW c \in Clients, NEW l \in Layers, hsspi_register(c, l)
      PROVE  Service!Next
  <2>1. AcceptedBlocks' = AcceptedBlocks
    BY <1>3, QueueSame DEF hsspi_register, SameHand
  <2>2. Service!Register(l)
    BY <1>3, <2>1 DEF hsspi_register, Service!Register, Fence
  <2> QED BY <2>2 DEF Service!Next
<1>4. ASSUME NEW c \in Clients, NEW l \in Layers, hsspi_unregister(c, l)
      PROVE  Service!Next
  <2> DEFINE w == [type |-> "COMPLETION", completion |-> c]
  <2>1. w \in Work /\ w.type # "TX"
    BY WorkFacts DEF Work
  <2>2. AcceptedBlocks' = AcceptedBlocks
    BY <1>0, <1>4, <2>1, QueueAppend DEF hsspi_unregister, SameHand, Collect
  <2>3. Fence(c) = None /\ Fence(c)' = l
    BY <1>0, <1>4, ConstantsAssumption DEF hsspi_unregister, Fence
  <2>4. \A d \in Clients : d # c => cpc'[d] = cpc[d] /\ unreg'[d] = unreg[d]
    BY <1>0, <1>4 DEF hsspi_unregister
  <2>5. Call[c] = None /\ Call' = [Call EXCEPT ![c] = l]
    BY <1>2, <2>3, <2>4
  <2> HIDE DEF Call
  <2>6. Service!Unregister(c, l)
    BY <1>4, <2>2, <2>5 DEF hsspi_unregister, Service!Unregister, Call
  <2> QED BY <2>6 DEF Service!Next
<1>5. ASSUME NEW c \in Clients, NEW l \in Layers, NEW b \in Blocks,
             hsspi_send(c, l, b)
      PROVE  Service!Next
  <2> DEFINE w == [type |-> "TX", layer |-> l, blk |-> b]
  <2>1. w \in Work /\ w.type = "TX" /\ Entry(w) = [layer |-> l, blk |-> b]
    BY WorkFacts DEF Work, Entry
  <2>2. AcceptedBlocks' = Append(AcceptedBlocks, [layer |-> l, blk |-> b])
    BY <1>0, <1>5, <2>1, QueueAppend DEF hsspi_send, SameHand, Collect
  <2>3. \A d \in Clients : Fence(d)' = Fence(d)
    BY <1>0, <1>5 DEF hsspi_send, Fence
  <2>4. Service!Send(l, b)
    BY <1>5, <2>2, <2>3
       DEF hsspi_send, MayEnqueue, Service!Send, Service!Accept
  <2> QED BY <2>4 DEF Service!Next
<1>6. ASSUME NEW c \in Clients, hsspi_start(c)
      PROVE  Service!Next
  <2>1. AcceptedBlocks' = AcceptedBlocks
    BY <1>6, QueueSame DEF hsspi_start, SameHand
  <2>2. Fence(c) = None /\ \A d \in Clients : Fence(d)' = Fence(d)
    BY <1>0, <1>6 DEF hsspi_start, Fence
  <2>3. Service!Start(c)
    BY <1>6, <2>1, <2>2 DEF hsspi_start, Service!Start
  <2> QED BY <2>3 DEF Service!Next
<1>7. ASSUME NEW c \in Clients, hsspi_stop(c)
      PROVE  Service!Next
  <2> DEFINE w == [type |-> "COMPLETION", completion |-> c]
  <2>1. w \in Work /\ w.type # "TX"
    BY WorkFacts DEF Work
  <2>2. AcceptedBlocks' = AcceptedBlocks
    BY <1>0, <1>7, <2>1, QueueAppend DEF hsspi_stop, SameHand, Collect
  <2>3. Fence(c) = None /\ Fence(c)' = "stop"
    BY <1>0, <1>7 DEF hsspi_stop, Fence
  <2>4. \A d \in Clients : d # c => cpc'[d] = cpc[d] /\ unreg'[d] = unreg[d]
    BY <1>0, <1>7 DEF hsspi_stop
  <2>5. Call[c] = None /\ Call' = [Call EXCEPT ![c] = "stop"]
    BY <1>2, <2>3, <2>4
  <2> HIDE DEF Call
  <2>6. Service!Stop(c)
    BY <1>7, <2>2, <2>5 DEF hsspi_stop, Service!Stop, Call
  <2> QED BY <2>6 DEF Service!Next
<1>8. ASSUME NEW c \in Clients, wait_for_completion(c)
      PROVE  Service!Next
  <2>1. AcceptedBlocks' = AcceptedBlocks
    BY <1>8, QueueSame DEF wait_for_completion, SameHand
  <2>2. /\ Fence(c) = IF unreg[c] = None THEN "stop" ELSE unreg[c]
        /\ Fence(c)' = None
    BY <1>0, <1>8 DEF wait_for_completion, Fence
  <2>3. \A d \in Clients : d # c => cpc'[d] = cpc[d] /\ unreg'[d] = unreg[d]
    BY <1>0, <1>8 DEF wait_for_completion
  <2>4. Call' = [Call EXCEPT ![c] = None]
    BY <1>2, <2>2, <2>3
  <2>5. \A d \in Clients :
          Blocked(d) => d # c /\ Fence(d) = IF unreg[d] = None THEN "stop"
                                                             ELSE unreg[d]
    BY <1>0, <1>8 DEF wait_for_completion, Blocked, Fence
  <2>6. CASE unreg[c] \in Layers
    <3> DEFINE l == unreg[c]
    <3>1. l \in Layers /\ l # None /\ Call[c] = l
      BY <2>2, <2>6, ConstantsAssumption
    <3>2. \/ Service!Unreferenced(l)
          \/ l \in registered \cup Service!Others(c)
      <4> SUFFICES ASSUME l \notin registered, l \notin Service!Others(c)
                   PROVE  Service!Unreferenced(l)
        OBVIOUS
      <4>1. \A d \in Clients : d # c => Fence(d) # l
        BY DEF Service!Others
      <4>2. \A d \in Clients : Blocked(d) => unreg[d] # l
        BY <2>5, <3>1, <4>1
      <4>3. ~ThreadHolds(l) /\ \A i \in DOMAIN work_list :
                                 IsTx(i) => work_list[i].layer # l
        BY <3>1, <4>2, UnreferencedOnReturn DEF UnregisteredIsUnreferenced
      <4>4. rx.layer # l
        BY <1>0, <3>1, <4>3 DEF TypeInv, Scoped, ThreadHolds
      <4>5. \A k \in DOMAIN AcceptedBlocks : AcceptedBlocks[k].layer # l
        BY <1>0, <4>3, QueueEntries DEF ThreadHolds
      <4> QED BY <4>4, <4>5 DEF Service!Unreferenced
    <3> HIDE DEF Call
    <3>3. Service!UnregisterReturns(c)
      BY <1>8, <2>1, <2>4, <3>1, <3>2
         DEF wait_for_completion, Service!UnregisterReturns, Call
    <3> QED BY <3>3 DEF Service!Next
  <2>7. CASE unreg[c] = None
    <3>1. Call[c] = "stop"
      BY <2>2, <2>7
    <3>2. \/ AcceptedBlocks = <<>> /\ rx.layer = None /\ rx.blk = None
          \/ state = "RUNNING" \/ "stop" \in Service!Others(c)
      <4> SUFFICES ASSUME state # "RUNNING", "stop" \notin Service!Others(c)
                   PROVE  AcceptedBlocks = <<>> /\ rx.layer = None /\ rx.blk = None
        OBVIOUS
      <4>1. \A d \in Clients : d # c => Fence(d) # "stop"
        BY DEF Service!Others
      <4>2. \A d \in Clients : Blocked(d) => unreg[d] # None
        BY <2>5, <4>1
      <4>3. ~OnBus /\ \A i \in DOMAIN work_list : ~IsTx(i)
        BY <4>2, OffBusOnReturn DEF StoppedIsOffBus, IInv, TypeInv, TypeOK
      <4>4. rx.layer = None /\ rx.blk = None
        BY <1>0, <4>3 DEF OnBus, TypeInv, Scoped
      <4>5. DOMAIN AcceptedBlocks = {}
        BY <1>0, <4>3, QueueEntries DEF OnBus
      <4>6. AcceptedBlocks \in Seq(Entries)
        BY <1>0, SendingType DEF AcceptedBlocks
      <4> QED BY <4>4, <4>5, <4>6
    <3> HIDE DEF Call
    <3>3. Service!StopReturns(c)
      BY <1>8, <2>1, <2>4, <3>1, <3>2
         DEF wait_for_completion, Service!StopReturns, Service!NoReception, Call
    <3> QED BY <3>3 DEF Service!Next
  <2> QED BY <1>0, <2>6, <2>7
<1>9. ASSUME NEW c \in Clients,
             \/ wake_up(c) \/ hsspi_deinit_check(c) \/ kthread_stop(c)
             \/ hsspi_deinit_free(c)
      PROVE  UNCHANGED Service!vars
  <2>1. AcceptedBlocks' = AcceptedBlocks
    BY <1>9, QueueSame DEF wake_up, hsspi_deinit_check, kthread_stop,
         hsspi_deinit_free, SameHand
  <2>2. \A d \in Clients : Fence(d)' = Fence(d)
    BY <1>0, <1>9 DEF wake_up, hsspi_deinit_check, kthread_stop,
         hsspi_deinit_free, Fence
  <2>3. UNCHANGED <<state, registered, owner, rx>>
    BY <1>9 DEF wake_up, hsspi_deinit_check, kthread_stop, hsspi_deinit_free
  <2> QED BY <1>1, <2>1, <2>2, <2>3
\* The thread.
<1>10. ASSUME UNCHANGED <<cpc, unreg>>
       PROVE  Call' = Call /\ \A c \in Clients : Fence(c)' = Fence(c)
  BY <1>10 DEF Fence
<1>11. CASE \/ is_txrx_waiting \/ wait_event \/ get_work_none
            \/ get_work_completion \/ get_work_tx \/ hsspi_tx
            \/ (\E ok \in BOOLEAN : hsspi_pre_read_done(ok))
            \/ reenable_ss_irq \/ account \/ reset_qm35
            \/ Interrupt \/ Firmware \/ UNCHANGED vars
  <2>1. UNCHANGED <<state, registered, owner, cpc, unreg>>
    BY <1>11 DEF is_txrx_waiting, wait_event, get_work_none,
         get_work_completion, get_work_tx, hsspi_tx, hsspi_pre_read_done,
         reenable_ss_irq, account, reset_qm35, Interrupt, qm35_irq_handler,
         hsspi_set_output_data_waiting, Firmware, FwOutput, FwRestart, vars
  <2>2. rx'.layer = rx.layer /\ rx'.blk = rx.blk
    BY <1>0, <1>11 DEF is_txrx_waiting, wait_event, get_work_none,
         get_work_completion, get_work_tx, hsspi_tx, hsspi_pre_read_done,
         reenable_ss_irq, account, reset_qm35, Interrupt, qm35_irq_handler,
         hsspi_set_output_data_waiting, Firmware, FwOutput, FwRestart, vars
  <2>3. CASE get_work_completion \/ get_work_tx
    BY <1>0, <1>1, <1>10, <2>1, <2>2, <2>3, QueueTake
  <2>4. CASE ~(get_work_completion \/ get_work_tx)
    <3>1. work_list' = work_list /\ SameHand
      BY <1>11, <2>4 DEF is_txrx_waiting, wait_event, get_work_none, hsspi_tx,
           hsspi_pre_read_done, reenable_ss_irq, account, reset_qm35,
           Interrupt, qm35_irq_handler, hsspi_set_output_data_waiting,
           Firmware, FwOutput, FwRestart, vars, SameHand
    <3> QED BY <1>1, <1>10, <2>1, <2>2, <3>1, QueueSame
  <2> QED BY <2>3, <2>4
<1>12. ASSUME NEW ok \in BOOLEAN, hsspi_tx_done(ok)
       PROVE  Service!Next
  <2>1. /\ pc = "tx_xfer" /\ pc' \in {"rx", "account"} /\ work_list' = work_list
        /\ owner' = [owner EXCEPT ![tx.blk] = "free"]
        /\ UNCHANGED <<state, registered, cpc, unreg>>
    BY <1>12 DEF hsspi_tx_done
  <2>2. rx'.layer = rx.layer /\ rx'.blk = rx.blk
    BY <1>0, <1>12 DEF hsspi_tx_done
  <2>3. /\ AcceptedBlocks # <<>> /\ Head(AcceptedBlocks).blk = tx.blk
        /\ AcceptedBlocks' = Tail(AcceptedBlocks)
    BY <1>0, <2>1, QueueSent
  <2>4. Service!Sent
    BY <1>10, <2>1, <2>2, <2>3 DEF Service!Sent
  <2> QED BY <2>4 DEF Service!Next
<1>13. ASSUME NEW b \in Blocks \cup {None}, hsspi_rx_get(b)
       PROVE  [Service!Next]_(Service!vars)
  <2>1. /\ pc = "rx" /\ pc' = "rx_xfer" /\ work_list' = work_list
        /\ UNCHANGED <<state, registered, cpc, unreg>>
        /\ rx.layer = None /\ rx.blk = None
    BY <1>0, <1>13 DEF hsspi_rx_get, TypeInv, Scoped
  <2>2. AcceptedBlocks' = AcceptedBlocks
    BY <2>1, QueueSame DEF SameHand
  <2>3. CASE rx.ul \in registered
    <3>1. rx'.layer = rx.ul /\ rx'.blk = b
      BY <1>0, <1>13, <2>3 DEF hsspi_rx_get
    <3>2. /\ owner' = IF b = None THEN owner ELSE [owner EXCEPT ![b] = "rx"]
          /\ b # None => owner[b] = "free"
      BY <1>13, <2>3 DEF hsspi_rx_get
    <3>3. Service!Get(rx.ul, b)
      BY <1>10, <2>1, <2>2, <2>3, <3>1, <3>2 DEF Service!Get, Service!NoReception
    <3> QED BY <1>0, <2>3, <3>3 DEF Service!Next
  <2>4. CASE rx.ul \notin registered
    <3>1. UNCHANGED <<rx, owner>>
      BY <1>13, <2>4 DEF hsspi_rx_get
    <3> QED BY <1>1, <1>10, <2>1, <2>2, <3>1
  <2> QED BY <2>3, <2>4
<1>14. CASE \/ hsspi_rx_failed \/ hsspi_rx_done
            \/ \E odw \in BOOLEAN : hsspi_rx_mismatch(odw)
  <2>1. /\ pc = "rx_xfer" /\ pc' \in {"account", "reenable"}
        /\ UNCHANGED <<state, registered, cpc, unreg>>
        /\ rx' = NoRx /\ Received
    BY <1>14 DEF hsspi_rx_failed, hsspi_rx_done, hsspi_rx_mismatch, OdwCleared
  <2>2. rx'.layer = None /\ rx'.blk = None
    BY <2>1 DEF NoRx
  <2>3. SameHand
    BY <2>1 DEF SameHand
  <2>4. CASE rx.layer = None /\ rx.blk = None
    <3>1. UNCHANGED <<owner, work_list>>
      BY <2>1, <2>4 DEF Received
    <3> QED BY <1>1, <1>10, <2>1, <2>2, <2>3, <2>4, <3>1, QueueSame
  <2>5. CASE ~(rx.layer = None /\ rx.blk = None)
    <3>1. Service!Received
      <4>1. Rx # Service!NoReception /\ Rx' = Service!NoReception
        BY <2>2, <2>5 DEF Service!NoReception
      <4>2. CASE rx.blk = None
        <5>1. owner' = owner /\ AcceptedBlocks' = AcceptedBlocks
          BY <2>1, <2>3, <4>2, QueueSame DEF Received
        <5> QED BY <1>10, <2>1, <4>1, <4>2, <5>1 DEF Service!Received
      <4>3. CASE /\ rx.blk # None
                 /\ owner' = [owner EXCEPT ![rx.blk] = "free"]
                 /\ work_list' = work_list
        <5>1. AcceptedBlocks' = AcceptedBlocks
          BY <2>3, <4>3, QueueSame
        <5> QED BY <1>10, <2>1, <4>1, <4>3, <5>1 DEF Service!Received
      <4>4. CASE /\ rx.blk # None
                 /\ rx.layer \in EchoLayers /\ MayEnqueue(rx.layer)
                 /\ owner' = [owner EXCEPT ![rx.blk] = "hsspi"]
                 /\ work_list' = list_add_tail([type |-> "TX",
                                                layer |-> rx.layer,
                                                blk |-> rx.blk])
        <5> DEFINE w == [type |-> "TX", layer |-> rx.layer, blk |-> rx.blk]
        <5>1. /\ w \in Work /\ w.type = "TX"
              /\ Entry(w) = [layer |-> rx.layer, blk |-> rx.blk]
          BY <1>0, <4>4, WorkFacts, ConstantsAssumption DEF Work, Entry
        <5>2. AcceptedBlocks'
                = Append(AcceptedBlocks, [layer |-> rx.layer, blk |-> rx.blk])
          BY <1>0, <2>3, <4>4, <5>1, QueueAppend DEF Collect
        <5> QED BY <1>10, <2>1, <4>1, <4>4, <5>2
               DEF Service!Received, Service!Accept, MayEnqueue
      <4>5. CASE /\ rx.blk # None
                 /\ rx.layer \in EchoLayers /\ ~MayEnqueue(rx.layer)
                 /\ owner' = [owner EXCEPT ![rx.blk] = "lost"]
                 /\ work_list' = work_list
        <5>1. AcceptedBlocks' = AcceptedBlocks
          BY <2>3, <4>5, QueueSame
        <5> QED BY <1>10, <2>1, <4>1, <4>5, <5>1
               DEF Service!Received, MayEnqueue
      <4> QED BY <2>1, <4>2, <4>3, <4>4, <4>5 DEF Received
    <3> QED BY <3>1 DEF Service!Next
  <2> QED BY <2>4, <2>5
<1> QED
  BY <1>3, <1>4, <1>5, <1>6, <1>7, <1>8, <1>9, <1>11, <1>12, <1>13, <1>14
     DEF Next, Client, Thread

\* The thread, its work list and the API functions implement the service
\* that hsspi.h promises, whatever the number of callers and layers.
THEOREM HsspiImplementsService == Spec => ImplementsService
<1>1. Init => Service!Init
  <2> SUFFICES ASSUME Init PROVE Service!Init
    OBVIOUS
  <2>1. TypeInv
    BY InitType
  <2>2. AcceptedBlocks = <<>>
    <3>1. work_list = <<>> /\ Sending = <<>>
      BY DEF Init, Sending
    <3>2. Len(work_list) = 0 /\ TxBlocks(work_list)[0] = <<>>
      BY <3>1, TxBlocksAt
    <3> QED BY <3>1, <3>2 DEF AcceptedBlocks
  <2>3. \A c \in Clients : Fence(c) = None
    BY DEF Init, Fence
  <2>4. rx.layer = None /\ rx.blk = None
    BY DEF Init, NoRx
  <2> QED BY <2>2, <2>3, <2>4 DEF Init, Service!Init, Service!NoReception
<1>2. IInv /\ [Next]_vars => [Service!Next]_(Service!vars)
  BY ServiceStep
<1> QED BY <1>1, <1>2, IInvHolds, PTL DEF Spec, ImplementsService, Service!Spec
=============================================================================
