-------------------------- MODULE HsspiRefinement --------------------------
(***************************************************************************)
(* Module Hsspi implements module HsspiService.                            *)
(***************************************************************************)
EXTENDS Hsspi

\* The fence of hsspi_stop is told apart from the layers.
ASSUME StopIsNoLayer == "stop" \notin Layers \cup {None}

\* The blocks of the TX works among the first n works of list s, in order.
TxBlocks(s) ==
  LET upto[n \in 0..Len(s)] ==
        IF n = 0 THEN <<>>
        ELSE IF s[n].type = "TX"
          THEN Append(upto[n - 1], [layer |-> s[n].layer, blk |-> s[n].blk])
          ELSE upto[n - 1]
  IN  upto

\* The block the thread is sending.
Sending == IF pc \in {"tx", "tx_xfer"}
             THEN <<[layer |-> tx.layer, blk |-> tx.blk]>> ELSE <<>>

\* The accepted blocks: the one the thread is sending, then those in the list.
AcceptedBlocks == Sending \o TxBlocks(work_list)[Len(work_list)]

\* The fence a client waits for.
Fence(c) ==
  IF cpc[c] \notin {"wake_wait", "wait"} THEN None
  ELSE IF unreg[c] = None THEN "stop" ELSE unreg[c]

Service ==
  INSTANCE HsspiService WITH
    queue     <- AcceptedBlocks,
    receiving <- [layer |-> rx.layer, blk |-> rx.blk],
    call      <- [c \in Clients |-> Fence(c)]

\* The thread, its work list and the API functions of hsspi.c implement the
\* service: every accepted block goes back to its layer once and in order, a
\* layer's operations run only between its registration and the return of
\* hsspi_unregister, and when hsspi_stop has returned nothing is left to do,
\* whoever else starts, stops, registers or sends meanwhile.
ImplementsService == Service!Spec
=============================================================================
