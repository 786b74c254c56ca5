------------------------------ MODULE LogLayer ------------------------------
(***************************************************************************)
(* The log upper layer (hsspi_log.c) and its debugfs files (debug.c):      *)
(*   - enable asks the firmware for its log modules and creates one        *)
(*     log_level file for each of them;                                    *)
(*   - a log_level file sets the level of its module, or asks the firmware *)
(*     for it and waits, on a completion on its stack, for the answer.     *)
(* A trace goes to the ring buffer (module Qm35Rb) and touches nothing     *)
(* here.                                                                   *)
(*                                                                         *)
(* Debugfs calls and the HSSPI thread share the table of log modules       *)
(* without a lock.  Each allocation of the table has a number; a debugfs   *)
(* file keeps the number of the table it was created for.  hsspi_send may  *)
(* refuse; an accepted request is transferred in order or lost, and so is  *)
(* an answer.                                                              *)
(***************************************************************************)
EXTENDS Integers, Sequences

CONSTANTS
  Callers,   \* threads that use enable and the log_level files
  Modules,   \* ids of the firmware's log modules
  Levels,    \* log levels
  None,      \* a NULL pointer
  MaxTables, \* bound: tables of log modules allocated
  MaxQueue,  \* bound: requests, and answers, on their way
  MaxLost    \* bound: transfers lost

ASSUME ConstantsAssumption ==
  /\ None \notin Callers \cup Modules
  /\ MaxTables \in Nat \ {0}
  /\ MaxQueue \in Nat
  /\ MaxLost \in Nat

VARIABLES
  enabled,     \* log_layer.enabled
  log_modules, \* number of the current table, 0 for NULL
  tables,      \* tables allocated so far
  freed,       \* the tables that were freed
  entries,     \* the modules whose entries the thread has still to create
  stored,      \* the thread has stored the level of the answer it handles
  dentry,      \* table each log_level file points into, 0: there is no file
  read_done,   \* of each module of each table: the caller whose stack it is on
  lvl,         \* cached level of each module of each table
  cpc,         \* where each caller is
  arg,         \* what it was called with: enable value, module, table
  wait_on,     \* the caller whose completion it waits for
  done,        \* its own completion
  tx, rx,      \* requests and answers on their way, oldest first
  fw_lvl,      \* the firmware's levels
  lost,        \* transfers lost so far
  again,       \* history: the log sources may have been asked for twice
  overlap,     \* history: a log_level file was read by two callers at once
  may_read     \* history: levels a caller may be told, of the module it reads

tableVars  == <<log_modules, tables, freed, entries, stored, dentry, read_done,
                lvl>>
callerVars == <<cpc, arg, wait_on, done>>
wireVars   == <<tx, rx, fw_lvl, lost>>
histVars   == <<again, overlap, may_read>>
vars == <<enabled, tableVars, callerVars, wireVars, histVars>>

NoArg == [on |-> 0, module |-> None, table |-> 0]

\* log_layer_init: nothing is enabled and there is no table.
Init ==
  /\ enabled = FALSE
  /\ log_modules = 0 /\ tables = 0 /\ freed = {}
  /\ entries = {} /\ stored = FALSE
  /\ dentry = [m \in Modules |-> 0]
  /\ read_done = [t \in 1..MaxTables |-> [m \in Modules |-> None]]
  /\ \E l \in Levels : /\ lvl = [t \in 1..MaxTables |-> [m \in Modules |-> l]]
                       /\ fw_lvl = [m \in Modules |-> l]
  /\ cpc = [c \in Callers |-> "idle"]
  /\ arg = [c \in Callers |-> NoArg]
  /\ wait_on = [c \in Callers |-> None]
  /\ done = [c \in Callers |-> FALSE]
  /\ tx = <<>> /\ rx = <<>> /\ lost = 0
  /\ again = FALSE /\ overlap = FALSE
  /\ may_read = [c \in Callers |-> {}]

\* Bound: once calls have overlapped, or the sources were asked for twice, the
\* calls in progress end and no other starts.
MayStart(c) == cpc[c] = "idle" /\ ~again /\ ~overlap

Goto(c, pc) == cpc' = [cpc EXCEPT ![c] = pc]

\* A request or an answer about module m is on its way.
Asked(q, m) == \E i \in DOMAIN q : q[i].cmd = "GET" /\ q[i].module = m

-----------------------------------------------------------------------------
(***************************************************************************)
(* The enable file.  Two callers that write to it at once may both find    *)
(* logging disabled, and so does a caller after a 0 was written.           *)
(***************************************************************************)

EnablePcs == {"enable_send", "enable_store"}

\* The test at the head of log_enable_set; without memory for the packet the
\* call ends here too.
log_enable_set(c, on) ==
  /\ MayStart(c)
  /\ ~enabled
  /\ arg' = [arg EXCEPT ![c] = [NoArg EXCEPT !.on = on]]
  /\ again' = (again \/ on = 0 \/ \E d \in Callers : cpc[d] \in EnablePcs)
  /\ Goto(c, "enable_send")
  /\ UNCHANGED <<enabled, tableVars, wait_on, done, wireVars, overlap, may_read>>

\* hsspi_send of the request for the log sources.
log_enable_send(c, ok) ==
  /\ cpc[c] = "enable_send"
  /\ IF ok
       THEN /\ Len(tx) < MaxQueue
            /\ tx' = Append(tx, [cmd |-> "SRC"])
            /\ Goto(c, "enable_store")
            /\ UNCHANGED arg
       ELSE /\ Goto(c, "idle")
            /\ arg' = [arg EXCEPT ![c] = NoArg]
            /\ UNCHANGED tx
  /\ UNCHANGED <<enabled, tableVars, wait_on, done, rx, fw_lvl, lost, histVars>>

log_enable_store_Skip(c) ==
  /\ cpc[c] = "enable_store"
  /\ Goto(c, "idle")
  /\ arg' = [arg EXCEPT ![c] = NoArg]
  /\ UNCHANGED <<enabled, tableVars, wait_on, done, wireVars, histVars>>

log_enable_store(c) ==
  /\ cpc[c] = "enable_store"
  /\ enabled' = (arg[c].on = 1)
  /\ Goto(c, "idle")
  /\ arg' = [arg EXCEPT ![c] = NoArg]
  /\ UNCHANGED <<tableVars, wait_on, done, wireVars, histVars>>

-----------------------------------------------------------------------------
(***************************************************************************)
(* The log_level files.  All calls on a module share its one read_done     *)
(* pointer: calls overlap when a second one starts while the first is on   *)
(* its way to its wait, or waits for an answer that may still come.        *)
(***************************************************************************)

\* debug_log_level_write and log_level_set: a refused packet is freed and the
\* call returns as if it were sent, so only the accepted one is a step.  It
\* reads the module's id through the file's pointer.
log_level_set(c, m, l) ==
  /\ MayStart(c)
  /\ dentry[m] # 0
  /\ Len(tx) < MaxQueue
  /\ tx' = Append(tx, [cmd |-> "SET", module |-> m, lvl |-> l])
  /\ may_read' = [d \in Callers |-> IF arg[d].module = m
                                      THEN may_read[d] \cup {l} ELSE may_read[d]]
  /\ UNCHANGED <<enabled, tableVars, callerVars, rx, fw_lvl, lost, again, overlap>>

\* The last request that sets the level of module m is at place i.
LastSet(m, i) ==
  LET sets == {j \in DOMAIN tx : tx[j].cmd = "SET" /\ tx[j].module = m}
  IN  i \in sets /\ \A j \in sets : j <= i

\* The level the firmware will have when it has served the requests so far.
LevelAfter(m) ==
  IF \E i \in DOMAIN tx : LastSet(m, i)
    THEN tx[CHOOSE i \in DOMAIN tx : LastSet(m, i)].lvl
    ELSE fw_lvl[m]

\* debug_log_level_read takes the module from the file; log_level_get puts
\* its completion on its stack.
debug_log_level_read(c, m) ==
  /\ MayStart(c)
  /\ dentry[m] # 0
  /\ overlap' = \/ overlap \/ Asked(tx, m) \/ Asked(rx, m)
                 \/ \E d \in Callers : /\ arg[d].module = m
                                        /\ (cpc[d] # "wait" \/ done[d])
  /\ arg' = [arg EXCEPT ![c] = [NoArg EXCEPT !.module = m, !.table = dentry[m]]]
  /\ done' = [done EXCEPT ![c] = FALSE]
  /\ may_read' = [may_read EXCEPT ![c] = {LevelAfter(m)}]
  /\ Goto(c, "arm")
  /\ UNCHANGED <<enabled, tableVars, wait_on, wireVars, again>>

\* log_module->read_done = &comp
log_level_get_arm_Skip(c) ==
  /\ cpc[c] = "arm"
  /\ Goto(c, "send")
  /\ UNCHANGED <<enabled, tableVars, arg, wait_on, done, wireVars, histVars>>

log_level_get_arm(c) ==
  /\ cpc[c] = "arm"
  /\ read_done' = [read_done EXCEPT ![arg[c].table][arg[c].module] = c]
  /\ Goto(c, "send")
  /\ UNCHANGED <<enabled, log_modules, tables, freed, entries, stored, dentry,
                 lvl, arg, wait_on, done, wireVars, histVars>>

\* The call returns; its frame is gone, whatever points to it.
Return(c) ==
  /\ Goto(c, "idle")
  /\ arg' = [arg EXCEPT ![c] = NoArg]
  /\ wait_on' = [wait_on EXCEPT ![c] = None]
  /\ done' = [done EXCEPT ![c] = FALSE]
  /\ may_read' = [may_read EXCEPT ![c] = {}]

\* A refused request ends the call; read_done keeps pointing to its stack.
log_level_get_refused(c) ==
  /\ cpc[c] = "send"
  /\ Return(c)
  /\ UNCHANGED <<enabled, tableVars, wireVars, again, overlap>>

log_level_get_send(c) ==
  /\ cpc[c] = "send"
  /\ Len(tx) < MaxQueue
  /\ tx' = Append(tx, [cmd |-> "GET", module |-> arg[c].module])
  /\ Goto(c, "eval")
  /\ UNCHANGED <<enabled, tableVars, arg, wait_on, done, rx, fw_lvl, lost,
                 histVars>>

\* The argument of wait_for_completion is read from the module again.
log_level_get_wait(c) ==
  /\ cpc[c] = "eval"
  /\ wait_on' = [wait_on EXCEPT ![c] = read_done[arg[c].table][arg[c].module]]
  /\ Goto(c, "wait")
  /\ UNCHANGED <<enabled, tableVars, arg, done, wireVars, histVars>>

\* wait_for_completion returns; it cannot be interrupted.
wait_for_completion_Interruptible(c) ==
  /\ cpc[c] = "wait"
  /\ wait_on[c] # None
  /\ done' = [done EXCEPT ![wait_on[c]] = FALSE]
  /\ Goto(c, "return")
  /\ UNCHANGED <<enabled, tableVars, arg, wait_on, wireVars, histVars>>

wait_for_completion(c) ==
  /\ cpc[c] = "wait"
  /\ wait_on[c] # None /\ done[wait_on[c]]
  /\ done' = [done EXCEPT ![wait_on[c]] = FALSE]
  /\ Goto(c, "return")
  /\ UNCHANGED <<enabled, tableVars, arg, wait_on, wireVars, histVars>>

\* return log_module->lvl
log_level_get_return(c) ==
  /\ cpc[c] = "return"
  /\ Return(c)
  /\ UNCHANGED <<enabled, tableVars, wireVars, again, overlap>>

-----------------------------------------------------------------------------
(***************************************************************************)
(* log_received, run by the HSSPI thread.  A packet that is too short, or  *)
(* has another command, is only freed.                                     *)
(***************************************************************************)

Receive(cmd) ==
  entries = {} /\ ~stored /\ rx # <<>> /\ Head(rx).cmd = cmd

\* The completion of the module that the answer is about.
ReadDone == read_done[log_modules][Head(rx).module]

\* parse_get_log_lvl_response: the module of that id, if there is one, gets the
\* level ...
parse_get_log_lvl_response_Early ==
  /\ Receive("GET")
  /\ log_modules # 0
  /\ IF ReadDone # None /\ ~done[ReadDone]
       THEN done' = [done EXCEPT ![ReadDone] = TRUE] /\ UNCHANGED <<lvl, stored>>
       ELSE /\ lvl' = [lvl EXCEPT ![log_modules][Head(rx).module] = Head(rx).lvl]
            /\ stored' = TRUE
            /\ UNCHANGED done
  /\ UNCHANGED <<enabled, log_modules, tables, freed, entries, dentry,
                 read_done, cpc, arg, wait_on, wireVars, histVars>>

parse_get_log_lvl_response ==
  /\ Receive("GET")
  /\ IF log_modules = 0
       THEN rx' = Tail(rx) /\ UNCHANGED <<lvl, stored>>
       ELSE /\ lvl' = [lvl EXCEPT ![log_modules][Head(rx).module] = Head(rx).lvl]
            /\ stored' = TRUE
            /\ UNCHANGED rx
  /\ UNCHANGED <<enabled, log_modules, tables, freed, entries, dentry,
                 read_done, callerVars, tx, fw_lvl, lost, histVars>>

\* ... and then its completion, if it has one, is completed.
complete_read_done ==
  /\ stored
  /\ done' = IF ReadDone = None THEN done ELSE [done EXCEPT ![ReadDone] = TRUE]
  /\ stored' = FALSE
  /\ rx' = Tail(rx)
  /\ UNCHANGED <<enabled, log_modules, tables, freed, entries, dentry,
                 read_done, lvl, cpc, arg, wait_on, tx, fw_lvl, lost, histVars>>

\* parse_log_sources_response: the old table is freed and a new one allocated,
\* if there is memory.
parse_log_sources_response(ok) ==
  /\ Receive("SRC")
  /\ freed' = freed \cup ({log_modules} \ {0})
  /\ IF ok
       THEN /\ tables < MaxTables
            /\ tables' = tables + 1
            /\ log_modules' = tables + 1
            /\ entries' = Modules
            /\ rx' = IF Modules = {} THEN Tail(rx) ELSE rx
       ELSE /\ log_modules' = 0
            /\ rx' = Tail(rx)
            /\ UNCHANGED <<tables, entries>>
  /\ UNCHANGED <<enabled, stored, dentry, read_done, lvl, callerVars, tx,
                 fw_lvl, lost, histVars>>

\* One turn of its loop: a module of the new table, and its log_level file.
\* debugfs keeps a file that exists.
debug_create_module_entry(m) ==
  /\ m \in entries
  /\ lvl' = [lvl EXCEPT ![log_modules][m] = Head(rx).lvls[m]]
  /\ dentry' = IF dentry[m] = 0 THEN [dentry EXCEPT ![m] = log_modules]
                                ELSE dentry
  /\ entries' = entries \ {m}
  /\ rx' = IF entries' = {} THEN Tail(rx) ELSE rx
  /\ UNCHANGED <<enabled, log_modules, tables, freed, stored, read_done,
                 callerVars, tx, fw_lvl, lost, histVars>>

-----------------------------------------------------------------------------
(***************************************************************************)
(* The firmware and the transfers.                                         *)
(***************************************************************************)

\* The oldest request is transferred, log_sent frees it, and the firmware
\* serves it.
FwServe ==
  /\ tx # <<>>
  /\ Len(rx) < MaxQueue
  /\ LET r == Head(tx)
     IN  /\ rx' = CASE r.cmd = "SRC" -> Append(rx, [cmd |-> "SRC",
                                                    lvls |-> fw_lvl])
                    [] r.cmd = "GET" -> Append(rx, [cmd |-> "GET",
                                                    module |-> r.module,
                                                    lvl |-> fw_lvl[r.module]])
                    [] r.cmd = "SET" -> rx
         /\ fw_lvl' = IF r.cmd = "SET" THEN [fw_lvl EXCEPT ![r.module] = r.lvl]
                                       ELSE fw_lvl
  /\ tx' = Tail(tx)
  /\ UNCHANGED <<enabled, tableVars, callerVars, lost, histVars>>

\* The transfer of a request fails: log_sent frees the packet, and that is
\* all.  Without a level that was to be set, readers see an older one.
LoseRequest ==
  /\ tx # <<>>
  /\ lost < MaxLost
  /\ lost' = lost + 1
  /\ tx' = Tail(tx)
  /\ may_read' = [c \in Callers |->
                    IF Head(tx).cmd = "SET" /\ arg[c].module = Head(tx).module
                      THEN may_read[c] \cup {fw_lvl[arg[c].module]}
                      ELSE may_read[c]]
  /\ UNCHANGED <<enabled, tableVars, callerVars, rx, fw_lvl, again, overlap>>

\* The transfer of an answer fails: log_received has an error status.
LoseAnswer ==
  /\ rx # <<>> /\ entries = {} /\ ~stored
  /\ lost < MaxLost
  /\ lost' = lost + 1
  /\ rx' = Tail(rx)
  /\ UNCHANGED <<enabled, tableVars, callerVars, tx, fw_lvl, histVars>>

-----------------------------------------------------------------------------
\* The steps of a caller inside its call.
CallRuns(c) ==
  \/ \E ok \in BOOLEAN : log_enable_send(c, ok)
  \/ log_enable_store(c)
  \/ log_level_get_arm(c)
  \/ log_level_get_refused(c)
  \/ log_level_get_send(c)
  \/ log_level_get_wait(c)
  \/ wait_for_completion(c)
  \/ log_level_get_return(c)

Caller(c) ==
  \/ \E on \in {0, 1} : log_enable_set(c, on)
  \/ \E m \in Modules, l \in Levels : log_level_set(c, m, l)
  \/ \E m \in Modules : debug_log_level_read(c, m)
  \/ CallRuns(c)

Thread ==
  \/ parse_get_log_lvl_response \/ complete_read_done
  \/ \E ok \in BOOLEAN : parse_log_sources_response(ok)
  \/ \E m \in Modules : debug_create_module_entry(m)

Firmware == FwServe \/ LoseRequest \/ LoseAnswer

Next == (\E c \in Callers : Caller(c)) \/ Thread \/ Firmware

Spec == Init /\ [][Next]_vars

(***************************************************************************)
(* Fairness: calls go on, the thread handles what it receives, requests    *)
(* are transferred and answered.                                           *)
(***************************************************************************)
Fairness ==
  /\ WF_vars(Thread)
  /\ WF_vars(FwServe)
  /\ \A c \in Callers : WF_vars(CallRuns(c))

FairSpec == Spec /\ Fairness

-----------------------------------------------------------------------------
(***************************************************************************)
(* Properties.                                                             *)
(***************************************************************************)

Live(t) == t \in (1..tables) \ freed

\* A caller that reads module m has put its completion there and not left.
InCall(c, m) == arg[c].module = m /\ cpc[c] \in {"send", "eval", "wait"}

\* complete() in parse_get_log_lvl_response never runs on a stack frame that
\* is gone: as long as an answer for a module is on its way, the completion
\* its module points to belongs to a call on that module that has not
\* returned, although refused sends and finished calls leave the pointer.
\* Not so for two calls that overlap.
CompletionIsAlive ==
  ~overlap =>
    \A i \in DOMAIN rx :
      rx[i].cmd = "GET" /\ log_modules # 0 =>
        LET c == read_done[log_modules][rx[i].module]
        IN  c # None => InCall(c, rx[i].module)

\* The log modules that debugfs files, calls and answers refer to are never
\* freed under them, and no answer finds a table that could not be
\* allocated: enable asks for the sources once.  Not so when 0 is written to
\* it (the TODO in log_enable_set), or by two callers at once.
ModulesAreLive ==
  ~again =>
    /\ \A m \in Modules : dentry[m] # 0 => Live(dentry[m])
    /\ \A c \in Callers : arg[c].table # 0 => Live(arg[c].table)
    /\ \A i \in DOMAIN rx : rx[i].cmd = "GET" => Live(log_modules)

\* What a call is about to return is the level that the firmware has after
\* the requests accepted before the call, or one set during the call, as long
\* as there is one table and calls do not overlap.
LevelIsCurrent ==
  \A c \in Callers :
    cpc[c] = "return" /\ ~overlap /\ ~again =>
      lvl[arg[c].table][arg[c].module] \in may_read[c]

\* While nothing is lost, the table stays and calls do not overlap, a call
\* that reads a level returns.  A lost transfer blocks its caller for good.
LevelReadReturns ==
  \A c \in Callers :
    (arg[c].module # None) ~>
      (arg[c].module = None \/ lost > 0 \/ again \/ overlap)
=============================================================================
