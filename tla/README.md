# TLA+ verification of the QM35 UWB driver

This directory specifies the Linux driver of the Qorvo QM35 ultra-wide-band
chip in TLA+, model-checks it with TLC and proves its safety with TLAPS. All
source paths are relative to `src/`. `PROJECT.json` lists the runs, the
correspondence between definitions and source lines, the mutants that show each
property can fail, the hazards and the findings.

    tlc -config MCHsspi.cfg MCHsspi        # a run
    tlapm HsspiProofs.tla                  # the proofs about one module

## 1. Inventory

The QM35 hangs on an SPI bus with a few extra lines: `ss_irq` (the firmware has
output), `ss_rdy` (it can take a transfer), `exton` (it is awake), `wakeup` and
`reset`. User space talks to it through `/dev/uci` and debugfs.

| part | state | operations | contexts that meet |
|---|---|---|---|
| HSSPI transport, `hsspi.c` | work list, layers, running or stopped, SS_IRQ, error count | register, unregister, send, start, stop, init, deinit, thread function | any number of callers, the HSSPI thread, the `ss_irq` handler |
| transfer handshake, `hsspi.c`, `qm35-spi.c` | SS_BUSY, SS_READY, `waiting_ss_rdy`, the wakeup pin | `spi_xfer`, `hsspi_wait_ss_ready`, wake-up, reset on errors | thread, `ss_rdy` handler, `exton` handler, firmware |
| UCI layer and `/dev/uci`, `hsspi_uci.c`, `qm35-spi.c` | list of received packets, writers waiting | open, release, read, write, poll; get, received, sent | readers, writers, thread |
| coredump layer, `hsspi_coredump.c` | the dump, how much of it is there, status, timer | received, timer expiry, send status; read of `fw/coredump` | thread, timer, debugfs reader |
| trace ring buffer, `qm35_rb.c`, `debug.c` | buffer, head, tail, reader's tail | push, pop, next size, reset; wait of the `traces` file | thread (writer), debugfs reader |
| device control, `qm35-spi.c`, `qm35.h`, `debug_qmrom.c` | device state, reset pin, regulators, `ss_rdy` interrupt depth | ioctls, `hw_reset`, `rom_*`, suspend, resume | callers, thread, `ss_irq` handler |
| firmware download, `libqmrom/`, `qmrom_spi.c` | headers and payload of the last exchange, the parts of the file | probe A0/B0/C0, flash, fall back, write and erase a debug certificate | caller, ROM code |
| test layer, `hsspi_test.c` | expected payload | received sends the block back | thread |
| log layer, `hsspi_log.c`, `debug.c` | log modules, their levels and files, a pointer to the completion of a reader | enable, set and get level, received | debugfs callers, thread |
| probe and remove, `qm35-spi.c`, `debug.c` | which parts are set up | set up, unwind, remove | probe, open files, thread |

How they interact: every layer calls `hsspi_send`, and the thread calls the
layer's `get`, `received` and `sent`. Control calls stop HSSPI, use the bus
themselves (through libqmrom) or reset the chip, and start it again. The log
layer fills the ring buffer that debugfs empties.

What is hard: four kinds of context (callers, thread, interrupt handlers, timer)
share flags, some of them without a lock; works on the stack of callers; two
fences (unregister, stop) that must leave nothing behind; a chip that falls
asleep, crashes into its ROM code or loses transfers; a buffer that is
overwritten while it is read; a table that is freed under the files that show
it; a probe of up to fifteen steps, seven of which can fail; a download where
most results of reads are not looked at. Section 6 and the hazards of
`PROJECT.json` give the places.

## 2. Modules

A step of a module is what no other context can see the middle of: a critical
section, one atomic bit operation, one register or pin access, one SPI
transfer. All modules assume sequentially consistent memory; the code's plain
reads outside locks (for instance `hsspi.state` in `qm35_hsspi_stop`) are
atomic word reads.

**Hsspi** (`hsspi.c`, `ss_irq` handler of `qm35-spi.c`, `hsspi_test.c`).
`work_list` holds TX works and completion works; `registered`, `state`,
`ss_irq`, `irq_depth` are the shared state. A client's call is a critical
section (`hsspi_register`, `hsspi_unregister`, `hsspi_send`, `hsspi_start`,
`hsspi_stop`, `hsspi_deinit_check`) followed by `wake_up` and
`wait_for_completion` as steps of their own. The thread goes through
`wait_event`, `is_txrx_waiting` (which reads the list under the lock and SS_IRQ
after it), `get_work_*`, `hsspi_tx`, `hsspi_pre_read_done`, `hsspi_rx_*` and
`account`, which counts errors and calls `reset_qm35`. `woken` is the wait-queue
state, so that a lost wake-up is possible in the model. A layer in `EchoLayers`
sends the block back from `received()`, as `hsspi_test.c` does. A block is
`free`, with `hsspi`, in reception (`rx`), or `lost` when a refused send of the
test layer leaks it.

**SpiXfer** (`spi_xfer`, `hsspi_wait_ss_ready`, `qm35_ss_rdy_handler`,
`qm35_exton_handler`, `qm35_wakeup`, `qm35_reset_hook`). Every access to
SS_BUSY, SS_READY, `waiting_ss_rdy` and the pins is a step, in the thread and in
the two handlers; edges are latched until their handler runs. `fw` is the chip:
ready, busy, asleep, in its ROM code, or in the ROM code's command mode, which
only a reset leaves. It refines the step "a transfer succeeds or fails" of
Hsspi by hand, not by a checked mapping.

**UciLayer** (`hsspi_uci.c`, file operations of `/dev/uci`). UCI packets are
numbered in the order of reception; a `struct uci_packet` covers an interval of
numbers, points into a data area and owns one or none. A block with several
packets is split as in `uci_received`: the packets point into the block, the
last one owns it. It uses of Hsspi what Hsspi establishes: the fence of
unregister.

**HsspiService** and **HsspiRefinement**. HsspiService is the transport as its
users see it, without thread, list, interrupts or transfers: a queue of accepted
blocks, a reception in progress, the calls that wait for a fence. Blocks are
given back (`sent`) from the head of the queue; `hsspi_unregister` returns when
nothing of the layer is left, `hsspi_stop` when the queue is empty and no
reception is in progress, unless somebody has started the transport again.
HsspiRefinement maps Hsspi to it: the queue is the block the thread is sending
followed by the TX works of the list, and a waiting call is one between its
critical section and the return of `wait_for_completion`.

**Coredump** (`hsspi_coredump.c`, the `coredump` file of `debug.c`). The
messages of the firmware, their handling by the thread with the timer deleted
before and armed after, the checksum modulo 2^CrcWidth, and the status sent by
either context. A send may be refused. The debugfs reader takes pointer and
length in one step and copies in a later one, without a lock, at the offset its
file has reached; `stored` is a history of the bytes of the accepted pieces and
`torn` tells that a message came between the two steps. `owed` is the history of
the answer that the firmware waits for: due (`yes`) from the first piece stored,
sent (`no`), or given up (`dropped`) by one of the paths of `NotRearmed`, on
which the timer is deleted and not armed again, or by a refused send.

**Qm35Rb** and **TraceLog** (`qm35_rb.c`, the `traces` file of `debug.c`).
Qm35Rb has the buffer byte by byte, with two-byte sizes and the end marker; each
operation is one step, since it holds `rb->lock`. The reader waits for an entry,
is woken by the thread or a signal, compares the size of the entry with its
`count`, and returns -EMSGSIZE or, in a second step, takes the entry that is
next then. TraceLog is the log without bytes: entries in order, the oldest of
which are dropped, and one reader. The mapping counts the entries that can be
reached from the buffer's tail and from the reader's.

`rb_init` does not clear what `kmalloc` returns, and the first `rb_push` finds
the tail at the head and reads a size there. `InitBufs` is what may be in the
buffer. The tails then go where these bytes lead: behind the head, out of the
buffer (a size that is read there is one of `Behind`, a byte is `Foreign`), or
to a size zero from which the loop of `rb_push` never gets away
(`rb_push_hang`). `settled` says that this is over: the first size was zero, or
the buffer has wrapped once, or the tail is back before the head. `trusted` says
that the file was opened since, which sets the reader's tail to the buffer's.

**LogLayer** (`hsspi_log.c`, the `enable` and `log_level` files of `debug.c`).
Each allocation of the table of log modules has a number, and a `log_level`
file keeps the number of the table it was created for. A call that reads a level
puts its completion into the module (`log_level_get_arm`), sends, reads the
pointer again and waits. Requests and answers are in order and may be refused or
lost. The thread replaces the table and creates the files one by one; it stores
the level of an answer and completes the waiting call in two steps (`stored`).

**Qm35Driver** (`qm35-spi.c`, `qm35.h`, `debug_qmrom.c`). A call is stop, work,
start, in the steps between which another context can run. `board` is chosen at
the beginning: with or without regulators and reset pin. A regulator may refuse
to be enabled or disabled, which the code logs and forgets (`enable_failed`,
`disable_fails`). `dev_state` is what the code keeps and puts back around a
download; no property is about it. Of HSSPI it keeps the
state and whether the thread is on the bus (Hsspi proves that stop is a fence),
of libqmrom only that it resets the chip a number of times and ends (Qmrom
checks that it does).

**Qm35Probe** (`qm35_probe`, `qm35_remove`, `debug_init`, `debug_deinit`,
`hsspi_deinit`) composes Qm35Driver with what comes before and after it. `up` is
the set of parts that are set up, `todo` what the function in progress has still
to do: the steps of the probe, or the labels from the one that the failing step
jumps to. `ops` is the set of layers whose operations the debugfs files hold;
nothing clears them. `hsspi_deinit` refuses as in the code, and its callers go
on. `/dev/uci` is opened and closed at any time the file system allows, also
after the remove.

**Qmrom** (`libqmrom/`, `qmrom_spi.c`, `qm_firmware_load`, `debug_qmrom.c`). The
host probes B0, C0 and A0 in this order, then downloads: unstitch, life-cycle
check, load command, parts in chunks; after a failure a reboot and a second
attempt. The debugfs files probe, flash one firmware without a second attempt,
or write or erase a debug certificate, with the tests of results as each
revision's code has them. The ROM code is external: it accepts or refuses, and
one of another revision answers anything. Transfers fail up to `MaxFaults`
times. `payload` keeps its old value when a read brings nothing, as the buffer
of the code does.

`MC*` modules and the `.cfg` files give the constants.

## 3. What the runs check

| run | bounds | shows |
|---|---|---|
| hsspi | 2 clients, 2 layers (one echoing), 2 blocks, 1 message waiting | both fences, life of on-stack works, each accepted block held exactly once, interrupt balance; Hsspi implements HsspiService |
| hsspi_live | 2 clients (one may unbind), 1 layer, 1 block | blocked calls return, blocks are sent, output is fetched |
| spi_xfer | 2 tries, 1 error before a reset, 3 sleeps or bus errors | the sleeping chip is always woken; a wait without an edge recovers; transfers resume |
| rb | 18 bytes with 4 contents from `kmalloc`, entries of 1 or 3 bytes read with a `count` of 1 or 3, 8 pushes | the buffer always holds the newest entries, whole and in order; Qm35Rb implements TraceLog; a waiting reader wakes |
| rb_skip | 18 cleared bytes, entries of 1-3 bytes, 9 pushes | *violation*, finding 1 |
| uci | 1 reader, 2 writers, 3 blocks, 3 packets per block, 5 packets | ownership and life of blocks, order of the stream, the reader is woken |
| uci_reopen | 1 reader, 1 writer, 2 blocks | *violation*, finding 2 |
| coredump | dumps of 0, 2 and 3 bytes, 2-bit checksum, of which 0 or 2 is announced, 7 messages | an ACK means a whole dump; no NACK after an ACK; a stalled dump is answered, unless a message that was not accepted took its timer; the file shows what was stored |
| log | 2 callers, 1 module, 2 levels, 2 tables, 3 requests and answers, 1 lost transfer | life of the on-stack completion and of the table, the level is current, a read returns |
| driver | 1 caller, 4 kinds of board, with and without `flash_on_probe`, 2 failed `regulator_disable` | order of set-up and removal, what a failed probe leaves; exclusive use of the chip; transport, interrupt and power after every sequence of calls |
| driver_race | 2 callers | *violation*, finding 3 |
| qmrom | 3 revisions, parts of 1-4 bytes, chunks of 2-3, 2 polls, 2 failed transfers | success means all bytes in order; the second attempt starts fresh; data goes where it was asked for; the call ends |

Why the bounds are enough for the interesting cases: two clients give a caller
between another one's critical section and its wait; two layers give a work of
one behind the fence of the other; the error limit of 1 makes the reset happen;
the ring buffer wraps twice, is lapped by entries of other sizes, and is
left with a first size that leads into its middle, among zeros or further sizes,
or out of it at once; a
block of three packets has a first, a middle and a last; the firmware can send
two headers and the pieces of both within seven messages; two callers and two
tables give an answer that meets another call's completion and a file that
outlives its table; two failed transfers
reach a failure in each attempt, and the parts are smaller than, equal to and
larger than a chunk. The state spaces are finite and explored completely.

`CHECK_DEADLOCK FALSE` is set where the system may stop: a coredump or a stream
of traces whose bounded firmware has nothing more to send, a log reader whose
answer was lost, a device whose probe failed and left the thread behind.

ModulesAreLive, CompletionIsAlive, LevelIsCurrent and LevelReadReturns hold for
the uses that the log layer can serve. The histories `again` (the sources were
asked for twice) and `overlap` (a file read by two callers at once) mark the
others; after one of them the calls in progress end and no new one starts.
UnboundIsUndone names the four cases in which something stays behind,
UsersGoFirst the steps between which the debugfs files outlive a layer they can
call, and StalledDumpTimesOut the messages that give the answer up; each shows
that there are no others. BufferIsNewest and ImplementsTraceLog say what holds
before and after the tail is settled.

**Fairness.** Weak fairness for the HSSPI thread, the interrupt handlers and a
caller inside a call: the scheduler and the interrupt controller run what is
runnable. Nobody is obliged to make a call, the firmware is not obliged to have
output. SpiXfer also assumes that a booting or busy firmware becomes ready, and
for `TransfersResume` behaviours without a timeout of the wait while an edge is
on its way (`timely`; the timeout is 250 ms, the edge takes microseconds).
Qm35Driver assumes strong fairness of the return of `hsspi_stop`, which
BlockedCallsReturn justifies, and of libqmrom's end, which DownloadEnds of
Qmrom justifies. Qm35Probe adds strong fairness of an unwinding or a remove:
its `hsspi_unregister` waits for the thread, which may begin other jobs before.
Coredump assumes that an armed timer expires. LogLayer has weak fairness of the
thread, of a caller inside its call, and of a firmware that serves the requests
it receives; transfers may be lost. Qm35Rb has weak fairness of the writer's
wake-up and of the reader that was woken; nobody is obliged to push or to
read.

**Findings**, with the quoted lines, are in `PROJECT.json`:

1. A trace reader can lose entries that are still in the buffer, or be given
   entries again.
2. Packets that were not read survive the close of `/dev/uci`: `unregistered()`
   is documented as called and never is.
3. Two concurrent control calls leave HSSPI running with `ss_rdy` disabled.

## 4. What is proved

The theorems hold for every value of the constants that satisfies the module's
assumptions, where the runs explore one small instance: any number of clients,
layers, blocks, readers, writers, packets, callers, log modules, dumps, retries
and failed transfers, and any sizes of parts, chunks and checksums, of the trace
buffer and of its entries.

| module | theorem | property |
|---|---|---|
| HsspiProofs | TypeCorrect | TypeOK |
| | UnregisterIsSafe | UnregisteredIsUnreferenced: after `hsspi_unregister` neither list nor thread refers to the layer |
| | StopIsSafe | StoppedIsOffBus: after `hsspi_stop` the thread is off the bus until `hsspi_start` |
| | StackIsSafe | StackWorkIsAlive: a completion in the list belongs to a call that has not returned |
| | IrqIsSafe | IrqIsBalanced: the disable depth of `ss_irq` is what flag, handler and thread say |
| | BlocksAreSafe | AcceptedBlockIsHeldOnce: an accepted block is in one place until it is given back |
| | HsspiImplementsService | ImplementsService: Hsspi implements HsspiService |
| UciLayerProofs | TypeCorrect | TypeOK of UciLayer (in no run) |
| | StreamIsSafe | ListIsTheStream |
| | BlocksAreSafe | BlockHasOneOwner |
| | DataIsSafe | DataIsAlive |
| SpiXferProofs | TypeCorrect | TypeOK of SpiXfer (in no run) |
| | WakeUpIsSafe | SleepingQmIsWoken |
| | TimeoutIsSafe | TimeoutRecovers |
| Qm35ProbeProofs | PartsAreOrdered | UsersGoFirst with its exception for the debugfs files, for any number of control callers |
| | UndoIsWhole | UnboundIsUndone, for one control caller |
| | BusIsExclusive | QmIsExclusive, for one control caller |
| | StartListens | StartedIsListening, for one control caller |
| | PowerIsFollowed | PowerFollowsFlag, as far as the regulators obey, for one control caller |
| CoredumpProofs | TypeCorrect | TypeOK |
| | AckIsSafe | AckMeansWhole |
| | AckIsLast | NoNackAfterAck, an action property |
| | ReadIsSafe | ReadIsStored |
| | StalledHasTimer | the part of StalledDumpTimesOut without fairness, AnswerComes (in no run) |
| LogLayerProofs | ModulesAreSafe | ModulesAreLive |
| | CompletionIsSafe | CompletionIsAlive |
| | LevelIsSafe | LevelIsCurrent |
| QmromProofs | TypeCorrect | TypeOK of Qmrom (in no run) |
| | DownloadIsFresh | DownloadStartsFresh |
| | DataIsRequested | DataIsAskedFor |
| | SuccessIsWhole | SuccessMeansSent |
| Qm35RbProofs | RbInvariant | the layout of the buffer, RbInv (in no run) |
| | TypeInvariant | TypeOK: the head, a settled tail and a trusted reader stay where a size can be read |
| | NewestInvariant | BufferIsNewest |
| | RbImplementsTraceLog | ImplementsTraceLog: Qm35Rb implements TraceLog |

**Assumptions.** Besides the types of the constants: no layer, block, caller or
module is the value that stands for none (NULL); no layer is the name of a stop
(`StopIsNoLayer`); a packet is not NULL (`NullIsNoPacket`); the readers of
UciLayer are a finite set, so that owners can be counted; Coredump's dumps are
sequences of naturals, `Junk` is no byte, and the checksums it announces have
`CrcWidth` bits, that is 2^CrcWidth values; parts and chunks of Qmrom are not
empty. The four theorems of Qm35ProbeProofs that name one caller have
`OneCaller` as a hypothesis, since nothing in `qm35-spi.c` excludes two control
calls from each other and run driver_race shows what then goes wrong (finding
3); it is what the run driver instantiates. The trace buffer has room for three
of its entries and an end marker: it has 0xFFFFF bytes (`hsspi_log.c:39`), and
an entry with its size, which is kept in 16 bits, at most 65535. `InitBufs` is
any set of byte strings of the buffer's size, `Behind` any set of 16-bit sizes
and `Counts` any set of naturals: the theorems of Qm35RbProofs need nothing of
what `kmalloc` left in the buffer or what lies behind it.

Each invariant was given to TLC as an invariant of its run before it was proved.

**Hsspi.** The safety of the two fences is not inductive: a state where a work
of an unregistered layer is in the list is legal as long as the unregister call
is still waiting. The inductive invariant `IInv` says why that call is still
waiting: behind every TX work whose layer is gone there is, later in the list,
the completion of the call that removed it (`ListFenced`); the same for what
the thread holds (`ThreadFenced`) and, with the completion of a stop call, for
a transport that is stopped. The thread reaches `get_work` only for a reason
that is still valid (`GetsForAReason`), since no work and a stopped transport
would be read as a request to fetch output. `StackWorkIsAlive` turns a
completion in the list into a blocked call; together they give the theorems. The
lemmas follow the list operations: what appending and taking the head does to a
fence (`FenceSame`, `FenceAppend`, ...) and to a stack frame (`StackAppend`,
`StackSend`, `StackTake`). `IrqInv` is inductive by itself. `HeldInv` replaces
the count of holders by what a single step can see: no block twice in the list,
none both in the list and with the thread, and each block that HSSPI owns in one
of the two.

**Hsspi implements HsspiService.** The mapping collects the blocks of the TX
works with the recursive function `TxBlocks`, behind the one the thread holds
(`Sending`). Its proof needs what `TxBlocks` does when a work is added at the
end or taken from the head, for lists of every length. The induction is done by
hand as a statement about sets of numbers: the least length at which the claim
fails (`LeastNatural`, `UpTo`), first to show that the recursive definition
defines a function at all (`TxBlocksDef`), then for each fact. After that every
action is shown to be a step of HsspiService or a stutter. The return of a fence
needs `IInv`: only it says that nothing of the layer is left.

**UciLayer.** The packets read are bounded only because those in the list are
consecutive, so types and stream are one invariant (`TypeInv`). `OwnerInv` is
BlockHasOneOwner without counting: nobody owns a block twice, the four kinds of
owner exclude each other, and what is allocated is owned; the theorem counts at
the end. For DataIsAlive, a packet that owns nothing is guarded by the owner of
its block further back in the list, or in the hands of the thread that is still
splitting it (`ListGuarded`).

**SpiXfer.** `WaitIsEnded` adds to SleepingQmIsWoken the moments when a handler
still has something to do, `BusyIsCleared` does the same for TimeoutRecovers,
and `WaitIsShown` says that the exton handler sees a waiting thread.

**Qm35Probe and Qm35Driver.** `PhaseInv` says for every place k in the sequence
of steps what is set up: before step k of the probe exactly the steps before,
before step k of an undoing nothing that the earlier labels undo, except a
transport that `hsspi_deinit` refused to end. `CallInv` says of a control call
at every place whether HSSPI is stopped, who holds the bus, how often `ss_rdy`
is disabled, and between which two steps flag and regulators differ: elsewhere
they differ by the failures that were counted.

**Coredump.** `TimerInv` is the reason that no NACK follows an ACK: from
`del_timer_sync` until the message is handled the timer is off, and a timer
function that runs carries the status of the dump, which does not change under
it. `AnswerComes` is inductive with it: the timer is off and the thread idle
only when no answer is due. `StoreInv` relates the memory, which `krealloc`
leaves partly undefined, to the pieces that were accepted. The checksum stays a
recursive function that is never expanded: the theorem says that the ACK
compared it over all the bytes.

**LogLayer.** `SourceInv` follows the single request for the log sources from
the caller through the wire to the table, until a history variable says that it
was asked for again. `ReadInv` says that, until calls overlap, a module has at
most one call that reads it, and at most one request or answer for it on its way
(`OneAnswer`), so that the answer finds the completion of that call although
refused calls leave their pointer. `LevelInv` says what level each message on
the wire will bring, from the request to the answer.

**Qmrom.** `ControlInv` is the script of the three protocols: at which places
the host can be for each goal and revision, with which part and how much of it.
It contains the fact that makes the ROM code predictable: once a protocol was
answered in its own terms, it is the protocol of this chip (`RevIsKnown`).
`RomInv` says that the ROM code is idle from the reset pulse to the command that
begins a download, and that afterwards, as long as every answer was read, it is
in the stage that the host sends and has as many bytes of it. `StreamInv` says
what was sent: the parts before the current one, then its first bytes
(`ChunkIsAppended`, `PartIsAppended`). The ROM code's part of the argument, like
its model, is what the library relies on.

**Qm35Rb.** The layout is stated for the tails that count: `LogTail` is the tail
once it is settled and offset 0 before, `RdTail` the reader's tail once it can
be trusted. `Leftover` says what the bytes of `kmalloc` can do meanwhile: the
tail is behind the head, in the first lap, where nothing was dropped yet, and a
push either leaves it there or, when it wraps or meets the first entry, at an
entry of the layout (`PushUnsettled`). `LoopAlwaysEnds` shows that with a
settled tail the loop ends.

BufferIsNewest says what following the sizes from the tail finds, and is not
inductive: it does not say where the entries are. `RbInv` does, with offsets
that no variable of the driver holds and that are therefore quantified: a lap is
a run of entries each of which begins where the one before ends (`Lap`), the
current one begins at offset 0 and ends at the head (`Current`). Either the tail
is in the current lap (`Unwrapped`), at one of its first two entries, because
the loop of `rb_push` has gone past no more; or it is in what is left of the lap
before (`Wrapped`), which lies behind the head and ends at an end marker. That
marker is at most an entry and a size from the end of the buffer, so that when a
push reaches it and the tail goes past the first entry of the current lap there
is a second one; this is where the room for three entries is needed. The reader
is in either lap. The loop of `rb_push` is a recursive function of its rounds;
`MakeRoomFacts` says where it stops, and `ReaderFinds` what a walk through the
sizes finds, both by the induction used for `TxBlocks`. A push is then one of
four cases: `PushUnused`, `PushUnwrapped`, `PushWrapped`, and `PushWraps`, which
writes the end marker. Every step keeps the layout and moves the numbers of the
oldest entry and of the next one to read as a step of TraceLog does
(`StepKeeps`); that these numbers are those the refinement mapping computes from
the bytes (`LayoutNumbers`) makes it a refinement.

**Only model-checked.** Liveness (the prover has neither ENABLED nor fairness):
BlockedCallsReturn, AcceptedBlocksAreSent, OutputIsFetched, TransfersResume,
TraceReaderWakes, WaitingReaderWakes, StalledDumpTimesOut, LevelReadReturns,
TransportComesBack, DownloadEnds. Qm35Driver has a TypeOK of its own that no run
lists; it is a part of the invariant of Qm35ProbeProofs.

## 5. Abstractions

- Payloads are identities (blocks, packet numbers) except in Qm35Rb, Coredump
  and Qmrom, where bytes are counted.
- Allocation fails where the code handles it (`get`, `send`, the log table,
  `qmrom_init`, `qmrom_unstitch_fw`), not elsewhere.
- A size read behind the end of the traces buffer is any of `Behind`, a byte is
  not told apart from another, and a reader that was led out goes no further
  than `MaxOffset`; a write never goes there. The copy to the user of an entry
  that is larger than its buffer is a step that succeeds (`copy_to_user` may
  also fault).
- UciLayer is checked with one reader, Qm35Driver's passing run with one caller:
  the code does not support more, see below and finding 3.
- In Qm35Probe control calls are made while the device is bound, and a remove
  begins when none is under way. A device that was not wholly taken down is not
  bound again.
- SpiXfer has the default module parameters (wakeup pin, no csn, reset on
  errors); debounce and `CONFIG_QM35_RISING_IRQ_NOT_TRIGGERED` are off.
- Qm35Driver ignores `NO_UWB_HAL`; the four regulators are one, which obeys or
  does not, and a disable of one that is off leaves it off.
- The properties of Qmrom exclude what the code itself cannot see: a reboot that
  never pulsed reset (`fresh`), whether it failed or the board has no reset pin,
  an answer that was not received (`lost`, in DataIsAskedFor), and the early
  exit of C0 below (`refused`).
- A debug certificate is one part; the A0 ROM code has none. Of
  `qmrom_unstitch_fw` only its success or failure is kept.

## 6. Remarks on the code outside the runs

These were met while modelling. No run shows them as violations: they are
outside a property's conditions or outside the model.

Transport and `/dev/uci`:

- `hsspi_rx` calls `received()` with the result of the transfer before it checks
  flags, layer and length of the answer (`hsspi.c:321`): a layer is told success
  for an answer that is then refused.
- Two readers of `/dev/uci`: a blocking read may return -EAGAIN, and one reader
  may free the block whose packet the other is copying. `uci_read` returns the
  number of bytes not copied as if they were read when `copy_to_user` faults.
- A refused `hsspi_send` leaks the block in `coredump_send_rcv_status`,
  `debug_coredump_force` and `hsspi_test.c`.

Traces, coredump and log:

- `rb_push` reads the size at offset 0 before anything was written
  (`qm35_rb.c:126`), in a buffer from `kmalloc`. Unless it is zero, a file that
  is opened in the first lap is given junk, also from behind the buffer, and the
  loop of `rb_push` (`qm35_rb.c:178`) may not end, with `rb->lock` held. Both
  are reachable in the run rb, before the tail is settled.
- `debug_traces_read` compares the size of an entry with `count` and takes the
  next entry in another critical section (`debug.c:171-178`): when the writer
  has overwritten the first one meanwhile, the entry that is copied may be
  larger than the caller's buffer. The log promises only that the size fitted
  when it was compared (`Peek` and `Push` of TraceLog).
- `debug_traces_read` keeps the result of `wait_event_interruptible` in a
  `uint16_t` (`debug.c:149`): a read that a signal ends returns 65024 rather
  than -ERESTARTSYS.
- The debugfs reader of the coredump takes no lock: a read that a message
  overlaps may mix two dumps or copy from a buffer that `krealloc` has moved
  (`torn` in Coredump). The coredump timer allocates with GFP_KERNEL and takes
  `hsspi->lock` in softirq, and is not deleted when the layer goes away.
- Every message deletes the coredump timer first (`hsspi_coredump.c:218`), and
  only a piece that was stored arms it: a dump that stalls after a message that
  is truncated, unknown or refused, or after its header, is never answered.
- Two reads of one `log_level` file that overlap share `read_done`: one of them
  may wait for the other's completion, and an answer may complete a frame that
  is gone. A lost request or answer blocks its reader, uninterruptibly.
- Writing 0 to `enable` asks for the log sources and leaves logging disabled, so
  that the next write asks again (the TODO at `hsspi_log.c:284`), as two
  writers at once do: the second answer frees the modules that the first one's
  files point to. When `kcalloc` fails the count of modules stays
  (`hsspi_log.c:139`), and a level that is then received is looked up in a NULL
  table.
- `debug_log_level_read` shows the level as one character, level + '0'.

Control, probe and remove:

- Powering off a board without regulators starts HSSPI with the reset pin
  asserted; resume starts HSSPI for a chip that is powered off; the first power
  on of a board with regulators enables an interrupt that was not disabled.
- A remove with `/dev/uci` open makes `hsspi_deinit` fail, and remove ignores
  it; so does a probe in which `misc_register` fails after HSSPI was started.
  The thread lives on in a context that is freed.
- The debugfs directory stays when `hsspi_init` fails. When `debug_init_root`
  fails, the probe calls `debug_deinit`, which wakes a wait queue that
  `debug_init` has not initialised yet (`qm35-spi.c:788`).
- `enable_irq_wake` of the interrupts is not undone.
- `qm35_regulators_set` changes its flag first and only logs a regulator that
  fails (`qm35-spi.c:687`): after a failed enable the chip is taken for powered,
  and a regulator that could not be disabled is enabled once more by the next
  power on and stays on after the remove.
- The debugfs files exist before the probe is finished, and `log_layer_deinit`
  and `coredump_layer_deinit` free what they read before `debug_deinit` removes
  them (`qm35-spi.c:895-898`): a file used then reaches parts that are not set
  up, or are gone. UsersGoFirst has these steps as its exception.

Download and certificates:

- `qmrom_c0_flash_fw` returns 0 when the ROM code does not ask for the first key
  certificate (`qmrom_c0.c:403`): nothing was sent, the driver reports "Device
  flashing completed!" and does not try the second firmware.
- `qm_firmware_load` never calls `qmrom_deinit`; each upload leaks the handle.
  The result of the reboot before the second attempt is not looked at, nor the
  -ENODEV of a board without the reset pin: the second attempt then goes on with
  whatever the ROM code was doing.
- The B0 `poll_cmd_resp` reports failure for an answer that arrives in its last
  turn.
- `qmrom_b0_erase_debug_cert` has its test the wrong way round
  (`qmrom_b0.c:396`): it returns success without a command when the ROM code is
  ready, and sends the command when it is not.
- Both `flash_debug_cert` report success whatever became of the data, C0's also
  when the ROM code answered something else; B0's looks at the payload after the
  write of the size has overwritten it.
- `qmrom_unstitch_fw` adds sizes from the file in 32 bits before it compares
  them with the size of the file (`qmrom_common.c:308`).

## 7. Not modelled, and the plan

Not modelled: the arithmetic of `qmrom_unstitch_fw` over the file, the
comparison of payloads in the test layer, the contexts (process, softirq) in
which the coredump timer allocates and locks, the `devid` and `socid` files,
which show what was read at the probe, tracepoints and log output.

The order was transport, handshake, ring buffer, UCI, coredump, control,
download, then the log layer, probe and remove, debug certificates and the two
refinements, then the proofs of section 4, the ring buffer last. Every part of
the driver that keeps state is modelled, and every safety property and both
refinements of the passing runs are proved. What is left is what the prover
cannot state, the liveness properties, and the parts named above.
