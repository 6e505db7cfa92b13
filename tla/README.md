# A TLA+ model of aie-codegen

aie-codegen is the C driver that configures AI Engine arrays. A client program
opens a *device instance* (`XAie_CfgInitialize`), calls functions that each come
down to a few register accesses, and closes it (`XAie_Finish`). The accesses go
to a *backend* (debug print, simulator, socket, CDO file, control code), or are
kept in a *transaction* buffer, which can be executed, exported or serialized to
a binary that firmware interprets. On top of the C driver `fal/` is a C++
layer that hands out hardware resources.

This directory holds TLA+ modules for the parts of the driver that keep state or
compute what several functions have to agree on, TLC configurations that check
them, and TLAPS proofs.

## The system

| component | state it keeps | operations | what is hard | module |
|---|---|---|---|---|
| transaction mode (`common/xaie_txn.c`) | list of instances by thread id; per instance a growing command array and malloc'ed payloads | start, buffered accesses, automatic flush, submit, export, clear, free | threads between the commands of a flush, ownership of payloads, a failing command in the middle, growth | `Txn`, `TxnOrder` |
| serialized transactions (same file) | output buffer, offsets, a pending block write, 16 KB page | serialize, optimised serialize, re-serialize | page padding, coalescing, moving address patches | `Serialize` |
| public register I/O (`common/xaie_helper.c`) | none of its own | Read32, Write32, MaskPoll, BlockWrite32, CmdWrite, RunOp, ... | whether an access goes to a transaction, the recording or the backend | `RegIo` |
| instruction buffer (`common/xaie_instbuf.c`) | session, array, capacity | start, clear, record, export, finish | growth, ownership of the array after export | `RegIo` |
| control code backend (`io_backend/ext/xaie_controlcode.c`) | page, job, label, chain and data-section counters; the buffered job | every register access and control instruction emits assembly | sizes predicted before they are emitted, jobs that must not be split, data shared and grown | `ControlCode` |
| privileged operations (`io_backend/privilege`, `npi`, `device`, `pm`) | registers of the partition, bitmap of tiles in use | initialise, tear down, request tiles, clocks, reset | a failing step in the middle, order of clocks, resets and accesses | `Partition` |
| broadcast network (`interrupt`, `events`, `timer`, `pm/xaie_ecc.c`, `fal` broadcasts) | event registers of every tile | error set-up, timer synchronisation, routes, ECC | four users write blocks of one network; wiring differs by generation and row | `Network` |
| DMA (`dma/`) | buffer descriptors; channels with task queues | set up, write, update, read a descriptor; push, enable, wait, reset | layouts of seven generations; numbers split over two applications; status that changes while it is read | `DmaBd`, `DmaQueue` |
| stream switch (`stream_switch/`) | port, slot and arbiter registers | connect, packet ports and slots, merge, clear | numbering with place holders and two applications, tables written by hand beside it | `StreamSwitch` |
| FAL resource manager and resources (`fal/src/rsc`) | bitmaps of static and run-time resources; life cycle of resource objects | request, contiguous and broadcast request, release, free, save, load | bounds of runs, roll-back of a partial request | `FalRsc`, `FalPool` |
| device set-up, core, elf loader, locks, memory, NoC, PL, trace, performance counters, routing | registers of the device only | check arguments, write a field | little of it is state of the driver | |

How they interact: every component above the I/O layer changes the device only
through `XAie_Write32` and its siblings; these look at the transaction list and
at the recording session of the device instance and call the transaction code,
the recorder or the backend through a table of function pointers. The driver has
no locks of its own and no background threads. Concurrency comes from client
threads that share one device instance, and transactions are the one place
where the driver expects them: an instance belongs to the thread that started
it; and from the device, which runs its channels on its own. The modules meet at
these interfaces: in `RegIo` a transaction is a queue, and what happens inside it is
`Txn`'s; `Serialize` starts from the commands that `Txn` collects; `Network`
has the routes that `FalRsc`'s broadcast objects configure; `Partition` leaves behind the
clocked tiles in which the other components work.

`PROJECT.json` lists all components with their files, the hazards at their
lines, and the map from definitions to source lines. A helper whose lines lie inside those of
a handler that is mapped has no entry of its own.

## Modules

| module | extends | proofs | run |
|---|---|---|---|
| `Txn`; `TxnOrder`, its abstract specification | | `TxnProofs` | `threads`, `order` |
| `Serialize` | | `SerializeProofs`, `SerializeContent` | `binary` |
| `RegIo` | | `RegIoProofs` | `registers` |
| `FalRsc`; `FalPool`, its abstract specification | | `FalRscProofs` | `pool` |
| `Partition` | | `PartitionProofs`, `PartitionPromises` | `partition`, `isolation` |
| `ControlCode` | | none | `controlcode` |
| `DmaTables`, `DmaKinds`; `DmaBd`, `DmaQueue` | the tables | `DmaQueueProofs` | `dma`, `dmaqueue` |
| `StreamTables`, `StreamPorts`, `StreamSwitch` | each the one before | none | `streams` |
| `Network` | | none | `network` |

Each `MC...` module gives the constants of one of them their small values.

| run | question | bounds | states |
|---|---|---|---|
| `threads` | Do two threads whose flushes interleave, nested instances and a shared export keep payloads apart? Is freed memory used, or freed twice, or a buffer overrun, with failing allocations and accesses? | two threads with a program each (`ThreadsCalls`), 3 instances (one each and an export), 2 payloads, one access each, one control opcode and the PM load, arrays of 1 that grow to 4 | 1,345,858 |
| `order` | Is program order kept by buffering, flushing and nesting? Do flushes return? | one thread, 2 instances, 3 accesses, arrays of 2 that grow to 4, nothing fails | |
| `binary` | Is the binary tiled by exactly the operations the header counts, in the recorded order, with no UPDATE_REG on two pages, also when buffers grow or fail to? | all transactions of up to 5 of 9 commands, both formats, all binaries of up to 4 of 5 operations of another tool | 1,640,185 |
| `registers` | Is every access in one place, whoever has a transaction open and whoever records? Is an array exactly its session, and owned once? | two threads, three arrays of 1 slot that grow to 2 and 3, four accesses, two exports held | 804,155 |
| `pool` | Do two owners ever share a unit, does a call that fails half way leave units behind, does a saved file mark what was in use, does the whole behave as the pool? | two AIE and two shim tiles, words of 8 bits, up to four resources of a type, nine mixes of clients, `MaxVRscs` = 4 | |
| `partition` | Does every path, with a failing access anywhere, close what it opened, stay in the partition and off gated tiles? Is what a call promises so? | four generations, a 4x4 array, two partitions, three calls, one failing access | 984,131 |
| `isolation` | Violated: is a failed initialisation reported | one call | |
| `controlcode` | Does every page load by itself, are jobs framed, is what the client asked for issued in that order and waited for? | every program of three calls in each of three modes, pages of 128 bytes that are empty, half full or almost full | |
| `dma` | Is every field in its word, read back as written, and updated as it would be written? | 13 layouts, any two setters and a write, or a write and an update or a read | |
| `dmaqueue` | Does a running channel fetch the descriptor written for the task, do calls reach their channel, is what waits and readers answer so? | eight layouts of channels, two jobs, three calls, channels that run, stall and finish in between | |
| `streams` | Do port numbers and the port map agree, do registers say what was asked for, what does clearing leave? | five platforms in each application mode, two calls, the second on a port or arbiter of the first | |
| `network` | Does every event arrive where it should, and only there? | twelve partitions of six generations, up to seven columns, two or three calls of the four users in any order | 214,333 |

What each property says is in the comment above it.

## Transaction mode

`Txn.tla` models every call on transaction instances. One action is one call;
a flush is one action per command (`FlushStep`), so other threads run between
its commands, as they do when the backend blocks.

| TLA+ | C |
|---|---|
| `TxnList` | the list `DevInst->TxnList`, oldest first; it keeps dangling nodes after `Finish`, as in C |
| `inst[i]` | the `XAie_TxnInst` at address `i`: `st` says if it is unallocated, in the list, or exported; `cmds` are the first `NumCmds` slots of `CmdBuf`, `max` and `init` are `MaxCmds` and `InitCmds` |
| `lost` | a failed `realloc` has freed `CmdBuf` (`NumCmds` and `MaxCmds` keep their values) |
| `heap[p]` | what the payload at address `p` was allocated for, or "free" |
| `fl[t]` | the flush thread `t` is inside: instance, loop counter, and the call to go on with |
| `arraySize`, `pmActive`, `ready` | `InitialTxnCmdArraySize`, `PmLoadingActive`, `IsReady` |
| `fault` | the first access C leaves undefined; the model stops there |
| `issued`, `out` | history: accesses accepted so far, the last access the device saw |
| `Buffer`, `BufferPayload` | the code every buffering call repeats: grow if `NumCmds + 1 == MaxCmds`, allocate the payload, store |
| `Dispose` | the clean-up submit, clear and free repeat |
| `ExecutedAs` | `_XAie_ExecuteCmd` |

Calls that return an error before they have changed anything are stuttering
steps. A register is not modelled: two accesses differ by their operation and
their number. All control commands (no-op, preempt, load PDI, ...) are buffered
by the same code and refused by the executor in the same way; `ControlOps`
chooses which a run uses. `XAie_Txn_NoOp` with a count is that many calls.

`TxnOrder.tla` is what transaction mode promises a thread: accesses are
performed in the order they were accepted, each once and as asked for; some may
wait, and waiting ones may be given up together. `Txn` implements it under the
mapping `Waiting`: the accesses a thread waits for are the slots of its oldest
instance that its current flush has not executed (`WaitsIn`, `Position`). They are
a set of numbered accesses, and `Perform` takes the lowest number.

A buffer grows at `NumCmds + 1 = MaxCmds`. In `threads` an array has one slot and
`CmdCountMax`, which stands for `UINT32_MAX`, is 4: a buffer grows with each of its
first three commands, the fourth growth is refused, and each of them may fail
(`AllocMayFail`). In `order` an array of 2 grows with its second command, and
the growth with its fourth is refused. More instances than two nested ones and an
export add nothing: lookups only tell the oldest from the others. `Calls` gives each
thread a program of its own: in `threads`, `t1` buffers block writes and custom
operations, submits, exports, clears and finishes, while `t2` submits and frees what
`t1` exports and has a transaction with commands the executor refuses. Instances and
payloads are only compared there, hence the `Permutations` symmetry; the view
`WithoutOut` leaves out the history `out`, which neither a guard nor a property of that
run reads. `order` checks liveness and has neither.

`NoBadMemoryAccess` leaves out two faults that the code has (`fault` records them, and
the model stops there). "lost-cmdbuf", which `threads` reaches: a `realloc` that fails
frees the command buffer and sets it to `NULL`, but `NumCmds` and `MaxCmds` stay
(`xaie_txn.c:434`), so the next flush, export or clean-up reads commands through
`NULL`. "null-payload", which takes an access behind the block write and so is not
reached with one access each: see the repeated submit below.

Fairness (`FairSpec`): a thread inside a flush keeps executing it
(`FlushStep`, `FinishSubmit`, `FinishAutoFlush`). The loop has no wait of its own
and each backend access returns. Nothing is assumed about which calls a client
makes.

Where the code departs from its comments or surprises, without a run:

- with the backends whose `GetTid` is `XAie_IODummyGetTid` all threads share one id;
  then one thread clears what another flushes, and freed memory is used;
- custom operations with a requested number keep their arguments when the
  instance goes (`xaie_txn.c:684`); `XAie_AddCustomTxnOp` accepts the number that
  will be handed out next (2998);
- `XAie_Txn_PmLoadEnd` is accepted without a start after a clear (3912, against
  the doc at 3889);
- a flush that fails half way is executed from its first command again by the next
  flush; a submit that failed after a block write cannot be repeated, the payload
  pointer is 0 (507);
- a buffered `MaskWrite32` with mask 0 is executed as a full write (480); a poll
  is buffered, not refused, without automatic flush (3242, against the comment at
  4304); a failed growth frees the only pointers to the buffered payloads (434).

### Proofs

`TxnProofs.tla` proves, for every number of threads, instances, payloads, opcodes
and every bound, from the assumptions on constants in `Txn` and `TidUnique`, that
different threads get different ids ("unique thread id", `xaie_io.h:147`):
`TypeCorrect`, `MemorySafe` (`NoBadMemoryAccess`), `PayloadsOwned`
(`PayloadOwnership`), `ExportImmutableHolds`, and `OrderImplemented`
(`ImplementsOrder`).

The inductive invariant `IInv` has four parts. `TypeOK`. `MemInv`: every live
buffer has room for the next command (`RoomInv`, which is what makes the test
for growth with `==` safe), and `PayloadOwnership`. `ListInv`: the list has no
duplicates and holds exactly the instances with `st = "listed"`, while the device
is open. `FlushInv`: a thread inside a flush is at a position of a live instance
that is exported or the one its own lookup finds. The last is what excludes a use
after free: a listed instance is removed only by a call of the thread that
finds it, and that thread is inside the flush. `ExportImmutable` needs `AutoInv` besides:
an automatic flush is of a listed instance, so emptying it after the
flush empties no export. Most actions either append a
command to one instance (`BufferStep`), or remove one from the list
(`RemovalFacts`, `KeepPlace`), or move a flush; there is a lemma for each of these
shapes and one lemma `Step...` per action.

`OrderImplemented` is the refinement of `TxnOrder`, for any number of threads, with
exports and failing allocations; the run checks it with one thread. It needs
`NothingRefused` besides `TidUnique`: the backend does not fail, and clients ask for no
control command, no PM load and no mask 0. These are the hypotheses without which the
code does not keep the promise: a flush that is refused half way is repeated from
its first command, and mask 0 is executed as another access than the one asked for. On top of
`IInv` it needs `OrderInv`: a buffered command is executed as the access it was asked for as,
and its number is one some thread was granted (`AskedInv`); the numbers in an instance
of a thread ascend and are at most what the thread was granted (`NumberedInv`); of
all transactions of a thread only the oldest holds commands (`OldestInv`). The last is why an
access performed at once overtakes none, and why a new oldest instance starts with nothing
to wait for. There is one lemma `Order...` per action, each of which shows that
the invariant is kept and that the step is one of `TxnOrder` or a stutter; `Accepts`,
`Performs`, `GivesUp`, `Replays` and `Stutters` are the possible outcomes.

Only model-checked: `FlushReturns` (liveness).

## Serialized transactions

`Serialize.tla` models how a transaction becomes a binary, in the format 0.1 and
the shorter 1.0 (`"v01"`, `"v10"`), and how the re-serializer pads a binary so that
firmware, which reads pages of 16 KB, never finds an UPDATE_REG on two of them. The
client buffers commands, exports as often as it likes, frees, and may hand an
exported binary or one of another tool (`Sources`) to the re-serializer. One step
is one iteration of a walk, one doubling of a buffer, or one flush of the pending
BLOCKWRITE.

| TLA+ | C |
|---|---|
| `out` | the operations written to the buffer: opcode, the commands they stand for, offset, size, and the sequence count of a PM header. Payload bytes are left out |
| `size`, `numOps`, `i` | `BuffSize`, `NumOps`, the loop counter |
| `alloc.txn`, `alloc.bw` | `AllocatedBuffSize`, `BWBuffAllocatedSize` |
| `bw` | `BlockwriteBuffer` with the register the next write must start at; `NoBlock` is `FirstBlockwriteProcessed == 0` |
| `patches` | `PatchCmdCount` |
| `loadSeq`, `hdr` | `LoadSeqCount`, `LoadSeqCountPtr` |
| `chunk` | `CmdsInChunk` of the re-serializer; `ChunkBytes` the bytes it stands for |
| `mem` | which of the two buffers the library has allocated |
| `phase` | where the code is. "torn": patches that are not whole operations were moved; "stale": padding moved the buffer under its caller; "kept" and "unserved": the re-serializer leaves the binary as it was, because nothing crosses a page, or because it cannot read it |

`FlushBlock` inserts the coalesced block before the patches written since it was
started; it finds them by computing their size from their number
(`_XAie_AppendBWToTxnBuff`), which is right only if each was written with the size
of the format. The scratch buffer of that function is assumed to be allocated (1110).

The large BLOCKWRITE of the run ends 12 bytes before the page does in format 0.1,
so an UPDATE_REG behind it fits exactly and one behind anything else crosses; in
format 1.0 it ends 16 bytes before, so two UPDATE_REGs are needed. Five commands
are the large block, the one that continues it, a patch between or behind them, and
two more around an UPDATE_REG or inside a PM load. An odd-sized custom operation
makes padding impossible and sizes that must be rounded up. The first buffer of
4 KB is outgrown twice by the large block.

`ContentKept` allows what the code does on purpose: a patch issued while blocks are
coalesced ends up behind the coalesced block. `OneVersion` leaves out exports of one
transaction in both formats: an export in format 1.0 shortens the recorded patches
(`xaie_txn.c:999`), and an export in format 0.1 after it writes the shortened ones.
`PmCountRight` is about loads whose export began with `PmLoadingActive` clear and
into which no padding fell: a load that was opened in a transaction never exported
leaves the flag set, and counts the next transaction's commands; padding is not
counted, which a TODO at `xaie_txn.c:1427` admits. It also leaves out a START inside an
open load (`Nested`): `XAie_Txn_PmLoadStart` refuses it (3848), but by a flag that an
export clears at each END (2028, 2735), so after an export that failed behind an END it
has forgotten that a later load is open.

Seen while modelling and without a run: the re-serializer leaks its buffer when it
cannot grow (1551) and does not know the numbers of requested custom operations (1404).

### Proofs

`SerializeProofs.tla` proves for all commands, numbers of commands, binaries of other
tools, and any allocation failures: `TypeCorrect`, `WellFormedHolds`,
`NoUpdateRegOnTwoPagesHolds` and `BuffersSafeHolds`. They follow from one inductive
invariant `IInv`, whose parts are

- `RoomInv`: the buffer holds what was written, and its size is 4 KB, 8 KB or a
  multiple of 16 KB. That is why padding cannot outgrow it: a buffer that ends
  between two pages does not exist, and below 16 KB nothing crosses a page (lemma
  `Pages`);
- `LayoutInv`: the operations lie end to end and `size` is where they end; the
  UPDATE_REGs are 12 bytes and on one page;
- `PatchInv`: what a flush moves is no UPDATE_REG, because everything but a patch
  flushes first; so moving cannot push one over a page;
- `ChunkInv`: no UPDATE_REG of the chunk being collected will cross a page at the
  place it is going to be copied to;
- `CountInv`, `CmdInv`: the operations counted are those written plus the pending
  block; recorded patches keep at least 16 bytes.

`AppendLayout`, `ConcatLayout` and `InsertLayout` say that appending, joining and
inserting keep a sequence of operations end to end; each action has one lemma
`Step...`. The proofs assume of a binary of another tool what `SourcesAssumption`
states: its operations lie end to end and its UPDATE_REGs have their 12 bytes.

`SerializeContent.tla` proves `PmCountRightHolds`, if a transaction has fewer commands
than the 24 bits of a count can hold. Its invariant `LoadInv`, on top of `IInv`, says
that operations hold commands already walked (`BoundInv`) in the order of their first
(`FirstsInv`), what the pending block stands for (`BlockInv`), that `loadSeq` is the
number of operations behind the open header (`OpenInv`), and that a header whose END was
walked has its count (`ClosedInv`). A flush inserts one operation before the patches
and so moves positions behind every header at once: `Load` is therefore stated
by commands, not by positions.

It also proves `ContentKeptHolds`, if the exports of a transaction use one
format (`OneVersion`; the paragraph above says what happens otherwise). Its invariant
`ContentInv`, on top of `IInv`, has these parts:

- `LenInv`: a patch keeps the length it was buffered with or the format's, so that each is
  written with as many bytes as a flush assumes (`PatchBytes`);
- `TailInv`: the last `patches` operations are patches, taken behind the beginning of the
  block, the k-th from the end k times `PatchBytes` before the end of the buffer. Hence the
  address a flush computes from their number is the address of the first of them
  (`FlushIsWhole`);
- `PendingInv`: what waits in the block covers consecutive registers and began behind all
  operations but those patches;
- `WalkInv`: each command walked is held by one operation or by the block (`AllHeld`), by one
  only (`Once`), no operation holds an END or a command not walked (`Taken`), and one that is
  passed by an older one is a block passed by a patch (`Passing`). `FaithfulAppended`,
  `FaithfulInserted`, `FaithfulPadded` and `FaithfulWalked` keep these four whatever an action does
  to the buffer;
- `CopyInv`: what the re-serializer has written is what it has read and not in the chunk,
  NOOPs aside. Operations are compared by their place among those that are no NOOP
  (`Rank`), which splits at a chunk (`RankSplit`) and so needs no recursion.

## Register accesses and the instruction buffer

`RegIo.tla` models `xaie_helper.c` and `xaie_instbuf.c`. An access goes to transaction
mode as soon as *any* thread has an open transaction, else to the instruction buffer
while that records, else to the backend. What a transaction does inside is `Txn`'s; here
it is a queue of accesses, flushed as a whole.

| TLA+ | C |
|---|---|
| `txn[t]` | thread `t`'s transaction: open, with automatic flush, its commands |
| `buf` | `DevInst->InstBufPriv`: container, `Ops`, `Count`, recording |
| `heap[a]` | the slots of the array at address `a` |
| `held` | the exports a client holds |
| `log`, `session`, `gone` | history: what the backend performed, what was recorded since the last start or clear, what was given up with its container |
| `ToDevice`, `ToInstBuf`, `IntoTransaction`, `PastTransaction` | the branches of every public access |
| `StartInstBuf`, `StartInstBufFails`, `ClearInstBuf`, `ExportInstBuf`, `FreeExportedInstBuf`, `Finish` | the calls of `xaie_instbuf.h` and `XAie_Finish` |

The three arrays of the run are the one that records and two exports, or one array that
moves twice. `StartCol = 0` in the run because the end of a block is compared with
`StartCol + NumCols` columns while a single access is compared with `NumCols`
(`xaie_helper.c:625` and the comment at 594). The backends' `Finish` does not fail.

Seen while modelling and without a run: a read returns 0 while recording; a
transaction of any thread takes all accesses past the recording (661);
`XAie_Txn_RunOp` ignores the result of the shim descriptor write
(`xaie_txn.c:4235`); `driver/examples/README.md:59` names `XAie_CompleteInstBuf`,
which does not exist.

### Proofs

`RegIoProofs.tla` proves `InvariantHolds`, `EachAccessInOnePlaceHolds`, `CaptureHolds`
(`CaptureIsTheSession`) and `ArraysOwnedOnceHolds` for any threads, arrays, sizes and
bounds. The inductive invariant has `TypeInv`; `CaptureInv`, the first `count` slots of
the recording array are the session; `OwnerInv`, an allocated array is the driver's or
exactly one export's; and `PlaceInv`. That an access is in one place is a
statement about a cardinality; `PlaceInv` states it without: the numbers in one place
are different (`DistinctInv`), those in two places too (`ApartInv`), all are below
`issued` (`BoundInv`), every number issued is somewhere (`PlacedInv`), and a closed
transaction holds none (`ClosedInv`).

## FAL resource manager

`FalRsc.tla` models the resource manager of `fal/` and the objects with which
clients reserve counters, events, broadcast channels, ports and trace controls.
The code has no lock, and each call runs to its end, so one action is one call;
what is interleaved are the calls of clients that want the same units.

| TLA+ | C++ |
|---|---|
| `bits` | all bitmaps of `XAieRscMgrGeneric`: pairs of a bitmap (tile type, resource type) and the number of a set bit |
| `RuntimeBit`, `StaticBit` | `getStartBit`, `getStaticOff`: the run-time bit and the static bit of a resource |
| `Request`, `RequestAllocated`, `RequestContiguous`, `RequestBc` | `request`, `requestAllocated`, `requestContiguous`, `requestBc` of the generic backend, with the loop over the requests in the backend's base |
| `ManagerRequest` | `XAieRscMgr::request`, which selects one of the four |
| `Requested`, `Reservation`, `ReservePerf`, `ReserveTrace` | the `_reserve()` of each class, with its retry in the other module and its channels |
| `obj[o]` | one `XAieRsc` object: `preferred`, `reserved`, `prereserved`, `running` are its fields, `rscs` is `vRscs`, `bcs` the resources of `StartBC`, `StopBC`, `RstBC`, of which the first `live` are started |
| `SetPreferredId`, `Reserve`, `Release`, `Free`, `Start`, `StartFails`, `Stop`, `Destroy` | the public calls of `XAieRsc`; `StartFails` is a `start()` in which a register access fails |
| `ReserveErrorHandling`, `ReserveEcc`, `kept` | what the manager reserves for itself, for ever |
| `saveAllocatedRscs`, `loadStaticRscs`, `file` | writing the run-time bits to a file and marking them as static |
| `program` | what the clients are: fixed in a behaviour, chosen among `Programs` |

A request is a function of the bitmaps (what it grants, whether it fails or
throws, and the bits it leaves set), because nothing can happen inside it. A
class that asks several times passes on the bits set so far (`Another`).

`FalPool.tla` is the promise: units are on offer, owned, or off offer; a client
takes only units on offer, which then are on offer to nobody, and a unit comes
back only from its owner. `FalRsc` implements it with `owned` what objects and the
manager hold, and `closed` the units with a bit set.

Two tiles of a type are the smallest number for which the bits of a module are
not those of a tile, and with which an id one too high names the next tile. A word of 8
bits holds the bits of the type that is asked for in runs exactly once, as 32
does for the real numbers, and makes bitmaps of several words. `MaxVRscs` bounds the
`vRscs` that retries after a failure make longer. The mixes are chosen so that
clients compete: for runs of two and three combo events; for two program
counters in a range and one with an id too high; for channels along paths that
overlap, with and without a preferred id; for the three channels a counter needs
for events of the other module, when one, two or none are left; for a counter that
must be taken from the other module; against ECC and error handling, which ask
for a channel of the whole partition; against files saved and loaded.

Clients may stop at any point, so no fairness is assumed and no liveness is
stated. `Destroy` makes a new object possible at any time and no state is a deadlock.

`NoNewLeak` allows what the code does: a trace control stays reserved if its channels
cannot be had (`xaiefal-trace.hpp:337`); an id equal to the number of resources is
granted and is never returned; a run that goes on behind the last resource of a
module; a channel still started when its counter is released.

Others, seen while modelling and without a run:

- busy channels are masked with the number of channels of the tile at hand, so at a
  shim tile with fewer channels than the others a channel in use is forgotten and handed
  out again (`xaiefal-rscmgr-generic.hpp:816`); the run has as many everywhere;
- the destructor of `XAieRsc` calls virtual functions of a part already gone, so
  destroying an object never releases anything (`xaiefal-rsc-base.hpp:92`);
- `free()` clears `Reserved` but neither the bit nor `vRscs`, because no class
  overrides `_free()`; the next `reserve()` asks for the old entries, too;
- the generic backend never grants a resource whose static bit is set, where the
  comment at `xaiefal-rsc-base.hpp:150` says statically allocated ones are reserved
  with the preferred id;
- `XAiePCEvent` keeps `vRscs` when its request fails, so every retry asks for one more;
- `XAiePCRange` with a preferred id asks for that id twice and always fails; a
  range may start at an odd id;
- `_stop()` of a counter overwrites the start or stop event with the event of the
  broadcast channel (`xaiefal-perf.hpp:579`).

### Proofs

`FalRscProofs.tla` proves, for all partitions, numbers of resources, words, clients
and files,

- `TypeCorrect`;
- `OneOwner`: `NoTwoOwners`, and a held unit is marked (`HeldMarked`);
- `ImplementsPool`: `Spec => Implements`, initial state and every step;
- `NoNewLeakHolds`;
- `RoundTripHolds`.

The first and the last follow from the assumptions on constants alone, the fourth if
`UniformBroadcast` (all modules have as many broadcast channels; the first item above is
what happens without), the second and third if besides `InOneWord` (bits of a module
asked for in runs do not cross a word; `TestedBit` looks at wrong bits when they do).

The argument: `BitsDistinct` says that no two bits of units coincide, run-time or
static, of whichever module and tile. It is the arithmetic of `getStartBit` and
`getStaticOff`. A request is `Good` if the units it grants had no bit set before it and
have one after it; this is proved for each of the four requests (for runs it takes
`InOneWord`, for channels `UniformBroadcast`) and carried through the retries and the
channels of counters and traces. The inductive invariant `IInv` has `TypeOK`,
`OwnType` (the `vRscs` of an object are of the resource type of its class) and,
under the two conditions, `Exclusive`: a held unit has one holder and is marked. A
reserve takes units that were not marked, so of nobody; a release resets bits of
units its object holds, which by `BitsDistinct` are bits of no others. `RoundTrip` needs
no invariant but the geometry of a file: a region is saved in whole words
(`WholeRegion`), its static half is apart from every other (`StaticHalvesApart`).

## Partitions

`Partition.tla` models the privileged operations over the registers they write, of
five generations, and the bitmap of tiles in use. A handler is a straight line of steps
with early returns; the model unfolds it into a plan, a sequence of steps each with what
the handler does when the step fails, and executes it step by step. A loop over columns or
tiles is one step, which may fail at any of them.

| TLA+ | C |
|---|---|
| `inst`, `used` | the device instance (first column, columns, application mode), `TilesInUse`, which instances share |
| `hw` | per column clocks, resets, isolation, memory contents, interrupt and error settings; protected registers open, NPI locked |
| `call` | the call in progress: arguments, rest of its plan, result, `lost` the accesses that failed |
| `InitPart`, `TeardownPart`, `RequestSteps`, ... | the handlers of `xaie_io_privilege.c` as plans, per generation |
| `ProtStep`, `ColumnsStep`, `AieTileStep`, ... | the device operations those call |
| `Run` | external: a program runs in the clocked tiles |

Of each generation the run has one that differs in its plans: AIE, AIEML, AIE2PS, AIE4
(AIE2P has those of AIEML). Two partitions, one that begins at column 0 and one that does
not, in an array with a column outside of both; three calls are an initialisation or
request, one that changes what it left, and a third that relies on it. One failing access
reaches every early return; a second one inside the error path of the first changes only
what `LeftOpen` names.

Interleaving modes above 1 are refused when a tile of the kind is reached, for the memory
tiles of AIE4 above 2, so mode 2 of an AIE4 initialisation is in the first memory tile when the
call fails (`InterRefused`).

The finding of `isolation`: a failed `SetPartIsolationAfterRst` closes the registers and
goes on (`xaie_io_privilege.c:737`), so the error is lost.

What the properties leave out, because the code does it so: AIE trusts the bitmap about
its clocks, so a request after an initialisation without column reset may leave
tiles gated (`call.fit`); `XAie_PmSetColumnClk` takes absolute columns for relative ones;
`XAie_ClearPartitionMems` of a partition not at column 0 goes by the bits of the wrong
tiles (`xaie_clock.c:136`). What the call itself left in step is promised: an AIE
initialisation with column reset clears the bitmap and gates the columns, a request that finds
bitmap and clocks in agreement clocks its tiles. AIE keeps on what lies below a
tile in use, so that no other column is on is said of the other generations only.

### Proofs

`PartitionProofs.tla` proves `TypesHold`, `ClosedAtReturnHolds`, `NoGatedAccessHolds` and
`OthersUntouchedHolds` for every device, partition, option, request and number of
calls and failing accesses.

A plan is a sequence built by joining pieces, so an invariant about it must be
about every rest of every plan. `Leads(p, x, y, good, bad, must)` judges a piece `p`
like a program: entered with a fact "sure" or "unsure" it leaves with "sure" or
"unsure", and the steps that count on the fact come when it is sure. Pieces compose
(`LeadsConcat`), and a plan that leads somewhere still does after its first step. For
`ClosedAtReturn` the fact is that the registers are open and the invariant `ProtInv` says
that the rest of the plan, and the clean-up of the step at hand, close what is open
(`Balanced`). For `NoGatedAccess` it is that every column is clocked, and `ClockInv` says
that as long as nothing was lost the rest of the plan finds the clocks on. `TypeOK` types
the steps of the plan (`Planned`: only `XAie_PmSetColumnClk` plans a step that names a
column outside of the partition), from which `OthersUntouched` follows. Each step of the machine
is one of four moves of a call (`Done`, `Turned`, `LostNoticed`, `LostUnnoticed`; lemma
`CallMoves`).

`PartitionPromises.tla` proves `CallsKeepTheirPromiseHolds`. A promise is a fact about the
registers or the bitmap (`On` names the steps that bring a value about). The plan
`Promises` it if the fact holds or a step that makes it true is still to come, and none
behind that step ends it: `Leads` again, with another fact. A step of the machine keeps
every promise (`LeadKept`), and one that succeeds does to the facts what its kind says
(`FactsMove`, `BordersMove`, `BitsMove`, `FitsMove`, ...); when the plan is empty the
promise is the fact. The invariant `PromisesInv` is `IInv` with

- `SetUpInv`: the plan of an initialisation or teardown promises each register its options
  ask for; isolation stays promised only if the nested request and the split do not reset it;
- `QuietHw`: registers that a generation does not have (shim resets but on AIE and AIE4,
  NPI and column resets on AIE4) keep their first value, so a promise about them needs no step;
- `GrantInv`: what a request of tiles promises, by itself or inside an initialisation. Where
  a column is clocked as a whole: bits and clocks agree (`BitsMeanOn`) until the requested columns
  are on (`ColOn`) and the others off (`OnlyAsked`). On AIE: every tile passes the clock on
  (`UpAll`), or the bitmap tells how far it comes (`Fits`: all tiles below the uppermost
  one in use pass it on), and each tile asked for is in use at the end (`RowUsed`). `Shaped`
  says that both plans are a piece in front, the gating of columns, the tile steps, and
  a piece behind that touches no clock; the loops over tiles are single steps here, whose
  folds are closed forms (`LargestIs`, `TileFits`).

## Control code

`ControlCode.tla` models the backend that compiles accesses into an assembly text of jobs
on pages. Its structure `XAie_ControlCodeIO` is the record `inst`, its handlers are
operators on that record that call one another as in C, and an action is a public
call. What the assembler and the controller make of the text (`Effects`, `Pages`,
`PageBytes`) is stated on its own and external.

| TLA+ | C |
|---|---|
| `text`, `bds`, `data` | the output sections: instructions, buffer descriptors with their labels, data words |
| `UcPageSize`, `UcPageTextSize`, `IsPageOpen`, `IsJobOpen`, `CombineCommands`, `CalculatedNextRegOff`, ... | the fields of the same names |
| `ctx`, `outer` | a job being buffered (conditional job, LoadCores) and the suspended output |
| `blocks` | the label blocks of `LOAD_CORES` |
| `log`, `due`, `made` | history: what was asked for, an address patch whose write is due, which kinds of call were made |

A page of 128 bytes holds three or four writes, so three calls behind an empty, a half
full and an almost full page reach every page break; three shim registers would close
nothing two do not. Every sequence of kinds of calls is tried, in the three modes, with
two values and the word 0xffffffff, which the code also uses as a marker.

What the properties leave out is named in `Straight`: a buffered job that is moved to
a new page leaves its data behind (`xaie_controlcode.c:5068`) and ends without its wait; a
block set prints one label several times; the pad directives and the SRAM patch leave an
open chain open (3937). Ten plain instructions compute the padding before the page they are
put on is opened (4263); the padding itself is not counted here, so `PagesLoadable` is
true of pages that with their padding exceed the page size by up to 12 bytes.

`IssuedAsRequested` leaves out one write the code gets wrong (`TakenForGrown`). A label
whose data grew has no hash any more and is marked with `HASH_INVALID`, -1 (93, 2711);
`XAie_ControlCodeIO_Write32` compares these marks with the value itself (2738). So
`Write32(0, a)`, `Write32(4, b)`, `Write32(x, 0xffffffff)` makes the third share the data
of the first two and write `a`. Without that exception the run ends with this program
as its counterexample. Block writes are compared here as sequences of words, while the
code compares their length and a 32-bit hash (937, 3128): two blocks of one length whose
hashes collide share data in the code, and the second writes the words of the first.

Only model-checked: all four properties. The text is a sequence that some forty handlers,
passed to one another as parameters, extend; a block write and a conditional job extend it in
folds, and what holds after a fold takes induction over data.

## DMA descriptors

`DmaBd.tla` models the life of one buffer descriptor: the setters fill a software
descriptor, a write turns it into register words, updates patch the words, reads take them
apart. A word is a record of fields, of the widths the tables state; the tables of
all generations (`DmaTables`) and what a kind of tile selects among them (`DmaKinds`)
are modules of their own. Positions of fields within a word come from headers that are not
in the repository, so a field keeps its name, and a field with no limit in the tables is
taken to be wide enough.

The run takes every layout with a table or function of its own (`SameTables` states that
the others have the same tables), and numbers at the limits. Three calls are two setters
that touch the same field and a write, or a write, an update and a read.

`ReadBack` and `UpdateAgreesWithWrite` name what the code is known to lose: AIE reads the
wrap of the second dimension into the first and no acquire value of the second lock
(`xaie_dma_aie.c:1122`); AIE4's readers add one to steps and take padding
from the words of the steps, and that of its memory tile cuts lock ids to 8 bits, so lock
448, the first one an application of its own may name, comes back as 192
(`xaie_dma_aie4.c:2422`, 2445; `IdFits`); AIE2PS's reader omits the high padding bits;
`XAie_DmaSetDoubleBuffer` holds a length in words against a limit in bytes
(`xaie_dma.c:523`); a wrap one above the field is accepted and written as zero
(`xaie_dma_aieml.c:199`); AIE4's address update zeroes `AxUser` and `KeyIdx`
(`xaie_dma_aie4.c:1173`), AIE's shim update loses the upper half
(`xaie_dma_aie.c:1709`), and `XAie_DmaUpdateBdAddr` accepts the limit (`xaie_dma.c:3317`).
Without a run: `XAie_DmaSetMultiDimAddr` writes address and length before it refuses (733);
`XAie_DmaReadBd` leaves `IsReady` clear; `XAie_DmaSetDoubleBuffer` accepts a lock number
one beyond the last (530).

Only model-checked: all three properties, which evaluate tables of twenty layouts.

## DMA channels

In `DmaQueue.tla` the program writes descriptors, pushes them to task queues, sets control
registers and waits, while the channels, the second process, fetch, run, stall and
finish tasks on their own. The registers of a channel are stated twice: as the code
computes them (`BdAddr`, `ChannelCtrlAddr`, `StartQueueAddr`, `ChannelStatusAddr`) and as the
hardware lays them out (`Hw...`, external). A single-application AIE4 device numbers
channels and descriptors through two halves, and each call splits a number on its own.

| TLA+ | code |
|---|---|
| `bds`, `ctl` | descriptor and control registers that have been written, by address |
| `queue`, `run`, `over` | per hardware channel its task queue, the task it runs and whether that is stalled, whether the queue overflowed |
| `stray` | a write has reached no register of a channel |
| `written`, `sent`, `set`, `room` | what the program knows from its calls alone |
| `poll`, `done` | the wait in progress, the answer of the last call |

Bounds: two jobs (direction, channel, descriptor) at the edges of halves, pools and
tables that differ in at most one place, so that every pair of neighbours that could be
confused occurs; one queue at a time overflows (pushed `StartQSizeMax + 1` times); at
most `MaxBehind` = 1 task waits behind a stalled one; refused calls do not count. No
fairness: a channel may never finish.

`XAie_DmaWriteChannel` writes the whole register and so releases a reset and loses the packet
type, which `set` follows. `XAie_DmaChannelSetPadValue` is not modelled.

### Proofs

`DmaQueueProofs.tla` proves `Fetched` (`FetchesWhatWasWritten`), `Reached`
(`CallsReachTheirChannel`) and `Answered` (`AnswersAreTrue`), for every device, any number of
jobs with any directions, channels and descriptors, and any number of calls and stalls.
`Spec` takes any jobs; that the run takes neighbours only is in `MCDmaQueue` (`MCInit`).

The first part is about addresses. All tables fall under five layouts (`Small`, `MlMem`,
`Aie4Tile`, `Aie4Mem`, `Aie4Shim`; lemma `Tables`), and for each the registers the
code computes are shown to be those of the hardware and apart from those of every other
channel: `CtrlReached`, `QueueReached`, `StatusReached`, for descriptors `BdFetched` and
`BdApart` (two calls that reach one register mean one descriptor). `PushExact` says that the
checks of a push accept exactly what the hardware has.

The second part is the inductive invariant `IInv`. A descriptor register holds what was
last written to its descriptor (`BdsOf`), a control register what was set (`CtlsOf`). The
tasks of a channel match its queue one by one, behind the task that runs, the queue is no
longer than the hardware's, and every task is of a descriptor that the channel has and that
was written (`TasksOf`); without the last, a channel could fetch what it was never
given. `RoomOf`, `PollOf`, `FetchOf` and `AnswerOf` say what waits and answers rely on. There
is one lemma `...Keeps` per call and per step of the hardware; most use that a write reaches
one register (`OneRegister`) and that appending to, or taking from, a queue and its tasks
together keeps them matching (`Appended`, `StillMatching`, `Shrunk`).

## Stream switch

`StreamTables` has the tables of all generations, `StreamPorts` the numbering of ports and the
matrices of connections, `StreamSwitch` the calls. `regs` holds the registers that are not
zero, `asked` what was asked for last, by port and not by register; the properties compare
the two. Register addresses are assumed as the code computes them from the tables: ports
of a type one after the other, slots four to a port, one bank per application on
AIE4's memory and shim tiles.

The run has one platform for each way to number ports. A first call names any port at
an edge of its type, a second one a port or an arbiter of the first: that is how two
calls can meet in a register. `PortNumbersAgree` and `HalvesMatchTheWhole` are about tables
and hold or fail in the initial states, for all ports.

`Misnumbered`, `Uncleared`, `Unlisted` name what the tables get wrong, and the comments
what the calls do: on a shared device every circuit is refused, because a port number that
fits in a byte is taken for one that does not (`xaie_ss.c:235`); the number of arbiters is
accepted as an arbiter (1481); clearing leaves CTRL and TRACE ports of the second
application, slots behind the table's number, and the last words of arbiters that have four
(1714); a shared core tile's matrix has one row for two control ports. Without a run:
disabling the circuit to one master clears the slave that feeds another; AIE has no
arbiters and dereferences NULL when asked for one.

Only model-checked: all four properties; two of them are evaluations of tables.

## Broadcast network

`Network.tla` models the four users of the event network: error interrupts
(`XAie_ErrorHandlingInit`), timer synchronisation, broadcast routes of the resource layer, and
the ECC trigger. Each is a plan of register writes, made one at a time (`Advance`), so
that an error may be raised between any two. `hw` has blocks, broadcasts, error masks,
interrupt controllers; `Heard` follows an event through the wiring.

The wiring is not in the source and stated under "Wiring" from what the source says of it:
an event enters all four neighbours that do not block it; an interrupt that a first-level
controller raises stays in the shim row (`xaie_interrupt_init.c:1559`); array channel 0 is
kept out of the shim row. The whole array is one partition, as the doc of
`XAie_ErrorHandlingInit` asks. Partitions of the run: up to seven columns, with NoC tiles at
the columns where the generation has them, gated rows, one to three core rows; an AIE
array of six columns stands for one of fifty (the distance of NoC tiles repeats with 4). Channels a client
asks for are 6 and up because 1 to 5 carry the interrupts of the shim row.

Fairness: `Advance` goes on until its plan is done; no property needs it.

What is left out by name: AIE2PS builds the block map of its memory tiles from ids instead
of bits (`xaie_interrupt_init.c:918`), so array errors reach no controller (`Stranded`) and those of shim
column 1 two (`HeardTwice`). Every `XAie_SyncTimer` that returns OK leaves the broadcast of
channel id + 1 of the shim tile (0,0) on (`xaie_timer.c:930` and 1025 set it, 964 and 1059 clear
only that of `id`): `TriggerLeft`, the one thing `SyncRestores` allows to stay. On the rows of
AIE's checkerboard with the core in the west the ECC event leaves to the neighbour in the east
(`xaie_ecc.c:157`; the comments at 108 and 144 say of every tile that it reaches the tile's own
memory): `EccHeard` says it is heard there and not at home (`Misdirected`). Without a run:
`XAie_SyncTimer` on channel 15 is refused at channel 16 and leaves its blocks and, on AIE, the
broadcast on channel 15 (`SyncOverrun`, `xaie_timer.c:921`); a halt on error begins at `StartCol`; the resource layer's
`_stop` unblocks one of the two switches of a memory tile.

Only model-checked: all five properties. `Heard` is a recursive closure.

## What the proofs assume and leave out

The theorems are about the specifications as they stand, for every value of
the constants that satisfies the modules' ASSUMEs and the hypotheses named above
(`TidUnique`, `NothingRefused`, `OneVersion`, `UniformBroadcast`, `InOneWord`, fewer than 2^24
commands).
Not proved, because it is out of the provers' reach: liveness (`FlushReturns`);
properties over recursive definitions and folds (the network's, and all of `controlcode`, where a block write is a fold
of rounds and a conditional job a fold of slices). Not proved: the properties that evaluate
tables (`streams`, `dma`); of them those about registers are within reach.

## Not modelled

Register offsets, field masks and values; the generated register tables except those of the DMA
and the stream switch; file and socket I/O of backends; text formatting of control code; locks,
core control, elf loading, NoC, PL, performance counters and trace, whose calls check their
arguments and write a field; the Python tools. `PROJECT.json` says so of each.

## Plan

1. Proofs about `StreamSwitch`, that registers hold what was asked for, along the lines of
   `DmaQueueProofs`: first where ports are, then which writes meet. `JobsFramed` of
   `ControlCode`, for which the rounds of a block write have to become steps of a call in
   progress.
2. Locks and events: identifiers computed by each generation, checked against each other as the
   stream switch's.
