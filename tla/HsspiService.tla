---------------------------- MODULE HsspiService ----------------------------
(***************************************************************************)
(* What hsspi.h promises to the upper layers and to the callers of its     *)
(* functions, without thread, work list and interrupt: a queue of accepted *)
(* blocks, the block that is being received, and fences.                   *)
(***************************************************************************)
EXTENDS Sequences

CONSTANTS
  Clients,    \* callers
  Layers,     \* upper layers
  EchoLayers, \* the layers whose received() sends the block back
  Blocks,     \* blocks
  None        \* no layer, no block, no call

VARIABLES
  state,      \* RUNNING or STOPPED
  registered, \* the layers that are registered
  queue,      \* accepted blocks with their layers, oldest first
  receiving,  \* layer and block of the reception in progress
  owner,      \* who owns each block
  call        \* the fence each client waits for: a layer to leave, "stop"

vars == <<state, registered, queue, receiving, owner, call>>

NoReception == [layer |-> None, blk |-> None]

Init ==
  /\ state = "STOPPED" /\ registered = {}
  /\ queue = <<>> /\ receiving = NoReception
  /\ owner = [b \in Blocks |-> "free"]
  /\ call = [c \in Clients |-> None]

Register(l) ==
  /\ l \notin registered
  /\ registered' = registered \cup {l}
  /\ UNCHANGED <<state, queue, receiving, owner, call>>

Unregister(c, l) ==
  /\ l \in registered /\ call[c] = None
  /\ registered' = registered \ {l}
  /\ call' = [call EXCEPT ![c] = l]
  /\ UNCHANGED <<state, queue, receiving, owner>>

Start(c) ==
  /\ call[c] = None
  /\ state' = "RUNNING"
  /\ UNCHANGED <<registered, queue, receiving, owner, call>>

Stop(c) ==
  /\ call[c] = None
  /\ state' = "STOPPED"
  /\ call' = [call EXCEPT ![c] = "stop"]
  /\ UNCHANGED <<registered, queue, receiving, owner>>

\* A block is accepted for a registered layer while the transport runs.
Accept(l, b) ==
  /\ state = "RUNNING" /\ l \in registered
  /\ owner' = [owner EXCEPT ![b] = "hsspi"]
  /\ queue' = Append(queue, [layer |-> l, blk |-> b])

Send(l, b) ==
  /\ owner[b] = "free"
  /\ Accept(l, b)
  /\ UNCHANGED <<state, registered, receiving, call>>

\* sent(): accepted blocks go back to their layers once each, in the order
\* they were accepted.
Sent ==
  /\ queue # <<>>
  /\ owner' = [owner EXCEPT ![Head(queue).blk] = "free"]
  /\ queue' = Tail(queue)
  /\ UNCHANGED <<state, registered, receiving, call>>

\* get(), of a registered layer only, and one at a time.
Get(l, b) ==
  /\ receiving = NoReception /\ l \in registered
  /\ receiving' = [layer |-> l, blk |-> b]
  /\ owner' = IF b = None THEN owner ELSE [owner EXCEPT ![b] = "rx"]
  /\ b # None => owner[b] = "free"
  /\ UNCHANGED <<state, registered, queue, call>>

\* received(): the layer has its block, or sends it back at once.
Received ==
  /\ receiving # NoReception
  /\ receiving' = NoReception
  /\ LET l == receiving.layer
         b == receiving.blk
     IN  IF b = None THEN UNCHANGED <<owner, queue>>
         ELSE \/ /\ owner' = [owner EXCEPT ![b] = "free"]
                 /\ UNCHANGED queue
              \/ l \in EchoLayers /\ Accept(l, b)
              \/ /\ l \in EchoLayers /\ ~(state = "RUNNING" /\ l \in registered)
                 /\ owner' = [owner EXCEPT ![b] = "lost"]
                 /\ UNCHANGED queue
  /\ UNCHANGED <<state, registered, call>>

\* No operation of layer l is running or will be run.
Unreferenced(l) ==
  /\ receiving.layer # l
  /\ \A i \in DOMAIN queue : queue[i].layer # l

\* A client returns from its fence.  The layer may then be freed, unless
\* somebody has registered it again; the bus is then the caller's, unless
\* somebody has started the transport again.  When several wait for the same
\* fence, the last one to return has the guarantee.
Others(c) == {call[d] : d \in Clients \ {c}}

UnregisterReturns(c) ==
  /\ call[c] \in Layers
  /\ \/ Unreferenced(call[c])
     \/ call[c] \in registered \cup Others(c)
  /\ call' = [call EXCEPT ![c] = None]
  /\ UNCHANGED <<state, registered, queue, receiving, owner>>

StopReturns(c) ==
  /\ call[c] = "stop"
  /\ \/ queue = <<>> /\ receiving = NoReception
     \/ state = "RUNNING" \/ "stop" \in Others(c)
  /\ call' = [call EXCEPT ![c] = None]
  /\ UNCHANGED <<state, registered, queue, receiving, owner>>

Next ==
  \/ \E l \in Layers : Register(l)
  \/ \E c \in Clients : Start(c) \/ Stop(c) \/ UnregisterReturns(c)
                        \/ StopReturns(c)
  \/ \E c \in Clients, l \in Layers : Unregister(c, l)
  \/ \E l \in Layers, b \in Blocks : Send(l, b)
  \/ Sent
  \/ \E l \in Layers, b \in Blocks \cup {None} : Get(l, b)
  \/ Received

Spec == Init /\ [][Next]_vars
=============================================================================
