-------------------------------- MODULE Txn --------------------------------
(***************************************************************************)
(* Transaction mode of the driver (src/src/common/xaie_txn.c).             *)
(*                                                                         *)
(* A transaction instance buffers the I/O requests of the thread that      *)
(* started it; the buffer is executed by a submit or by an automatic       *)
(* flush, copied by an export, discarded by a clear.  Instances live in    *)
(* the list DevInst->TxnList, shared by all threads, and are found by      *)
(* thread id.  A command buffer holds pointers to malloc'ed payloads.      *)
(*                                                                         *)
(* One step is one call, except a flush, which is one step per command:    *)
(* threads interleave between the commands of a flush.  Calls that return  *)
(* an error before they changed anything are stuttering steps and are not  *)
(* written.  `fault' records the first access that C leaves undefined; the *)
(* model stops there.                                                      *)
(***************************************************************************)
EXTENDS Naturals, Sequences

CONSTANTS
    Threads,            \* callers of the API
    TidOf,              \* Backend->Ops.GetTid(), per thread
    Insts,              \* addresses a transaction instance can be allocated at
    Payloads,           \* addresses a payload can be allocated at
    NULL,
    ArraySizes,         \* arguments of XAie_CfgInitialTxnCmdArraySize
    DefaultArraySize,   \* DevInst->InitialTxnCmdArraySize after setup
    CmdCountMax,        \* UINT32_MAX, the limit of NumCmds and MaxCmds
    CustomOpBegin, CustomOpNext, LoadPmEndInternal, CustomOpMax,
    UserOps,            \* op numbers passed to XAie_AddCustomTxnOp
    Masks,              \* masks passed to XAie_MaskWrite32
    ControlOps,         \* bound: the control opcodes it uses, of ControlOpcodes
    Calls,              \* bound: the calls the program of each thread makes
    MaxReqs,            \* bound: register accesses each thread makes
    AllocMayFail,       \* may malloc, calloc and realloc return NULL?
    IoMayFail           \* may a backend operation return an error?

ASSUME TxnAssumption ==
    /\ NULL \notin Insts /\ NULL \notin Payloads
    /\ ArraySizes \subseteq Nat /\ DefaultArraySize \in Nat \ {0}
    /\ CmdCountMax \in Nat /\ MaxReqs \in Nat
    /\ CustomOpBegin \in Nat /\ CustomOpBegin > 13
    /\ CustomOpNext = CustomOpBegin + 5
    /\ LoadPmEndInternal \in Nat /\ CustomOpNext <= LoadPmEndInternal
    /\ CustomOpMax \in Nat /\ LoadPmEndInternal < CustomOpMax
    /\ UserOps \subseteq 0..CustomOpMax /\ Masks \subseteq Nat
    /\ AllocMayFail \in BOOLEAN /\ IoMayFail \in BOOLEAN

VARIABLES
    TxnList,    \* the list of started instances, oldest first
    inst,       \* address -> instance
    heap,       \* payload address -> what malloc returned it for, or "free"
    fl,         \* thread -> the flush it is executing
    arraySize,  \* DevInst->InitialTxnCmdArraySize
    pmActive,   \* DevInst->PmLoadingActive
    ready,      \* DevInst->IsReady
    fault,      \* first undefined access, or "none"
    issued,     \* thread -> number of register accesses accepted so far
    out         \* thread -> last access the backend performed for it

vars == <<TxnList, inst, heap, fl, arraySize, pmActive, ready, fault, issued, out>>

(* XAie_TxnOpcode.  The opcodes below CustomOpBegin have the enum's values. *)
IO_WRITE == 0
IO_BLOCKWRITE == 1
IO_BLOCKSET == 2
IO_MASKPOLL == 4
IO_NOOP == 5
IO_PREEMPT == 6
IO_MASKPOLL_BUSY == 7
IO_LOADPDI == 8
IO_LOAD_PM_START == 9
IO_CREATE_SCRATCHPAD == 10
IO_UPDATE_STATE_TABLE == 11
IO_UPDATE_REG == 12
IO_UPDATE_SCRATCH == 13
CUSTOM_OP_DDR_PATCH == CustomOpBegin + 1
CUSTOM_OP_MERGE_SYNC == CustomOpBegin + 4

Opcodes == 0..13 \cup CustomOpBegin..CustomOpMax

(* What NoOp, Preempt, LoadPdi, CreateScratchpad, UpdateStateTable,         *)
(* UpdateReg and UpdateScratch buffer.                                      *)
ControlOpcodes ==
    {IO_NOOP, IO_PREEMPT, IO_LOADPDI, IO_CREATE_SCRATCHPAD, IO_UPDATE_STATE_TABLE,
     IO_UPDATE_REG, IO_UPDATE_SCRATCH}

ASSUME ControlAssumption == ControlOps \subseteq ControlOpcodes

Kinds == {"Write32", "MaskWrite32", "MaskPoll", "BlockWrite32", "BlockSet32",
          "Read32", "RunOp"}

(* XAie_TxnCmd: mask and payload pointer, and as history variables the      *)
(* access the caller asked for and its number among the caller's accesses.  *)
Cmd == [op : Opcodes, mask : Nat, data : Payloads \cup {NULL},
        id : Nat, ask : Kinds \cup {"none"}]

(* XAie_TxnInst.  The first NumCmds slots of CmdBuf are `cmds'; `lost' says *)
(* that a failed realloc has freed the buffer they were in; `st' is where   *)
(* the instance is: not allocated, in TxnList, or owned by the user.        *)
Inst == [st : {"unused", "listed", "exported"}, tid : {TidOf[t] : t \in Threads} \cup {NULL},
         cmds : Seq(Cmd), max : Nat, init : Nat, nextOp : Nat,
         auto : BOOLEAN, lost : BOOLEAN]

PayloadTags == {"block", "custom", "user"}

(* An address no instance is allocated at. *)
Unused == [st |-> "unused", tid |-> NULL,
           cmds |-> <<>>, max |-> 0, init |-> 0, nextOp |-> 0,
           auto |-> FALSE, lost |-> FALSE]

NoFlush == [inst |-> NULL, pos |-> 0, then |-> "none"]

Init ==
    /\ TxnList = <<>>
    /\ inst = [i \in Insts |-> Unused]
    /\ heap = [p \in Payloads |-> "free"]
    /\ fl = [t \in Threads |-> NoFlush]
    /\ arraySize = DefaultArraySize
    /\ pmActive = FALSE
    /\ ready = TRUE
    /\ fault = "none"
    /\ issued = [t \in Threads |-> 0]
    /\ out = [t \in Threads |-> [id |-> 0, ask |-> "none", did |-> "none", own |-> TRUE]]

----------------------------------------------------------------------------
(* The list of instances.                                                   *)

(* i is the instance _XAie_GetTxnInst returns to thread t, at position k.   *)
FoundAt(t, i, k) ==
    /\ TxnList[k] = i
    /\ inst[i].tid = TidOf[t]
    /\ \A j \in 1..(k - 1) : inst[TxnList[j]].tid # TidOf[t]

Found(t, i) == \E k \in DOMAIN TxnList : FoundAt(t, i, k)

(* _XAie_GetTxnInst returns NULL to thread t.                               *)
NoTxn(t) == \A k \in DOMAIN TxnList : inst[TxnList[k]].tid # TidOf[t]

(* The list without its k-th node.                                          *)
Without(k) == [j \in 1..(Len(TxnList) - 1) |->
                 IF j < k THEN TxnList[j] ELSE TxnList[j + 1]]

(* A call can be made: the device is open and the thread not inside one.    *)
MayCall(t, name) ==
    /\ name \in Calls[t]
    /\ ready /\ fault = "none"
    /\ fl[t] = NoFlush

(* A call about a register access: it is counted when it is accepted.       *)
MayAccess(t, name) == MayCall(t, name) /\ issued[t] < MaxReqs

----------------------------------------------------------------------------
(* Payload memory.                                                          *)

(* _XAie_TxnCmdOwnsPayload.                                                 *)
OwnsPayload(c) ==
    \/ c.op = IO_BLOCKWRITE
    \/ c.op >= CustomOpBegin /\ c.op < CustomOpNext

(* The slots of an instance whose payload its cleanup frees.                *)
Owned(r) == {k \in DOMAIN r.cmds : OwnsPayload(r.cmds[k]) /\ r.cmds[k].data # NULL}

OwnedData(r) == {r.cmds[k].data : k \in Owned(r)}

(* Freeing them frees an address that is not allocated, or one twice.       *)
BadFree(r) ==
    \/ \E k \in Owned(r) : heap[r.cmds[k].data] = "free"
    \/ \E k, l \in Owned(r) : k # l /\ r.cmds[k].data = r.cmds[l].data

FreePayloads(S) == [p \in Payloads |-> IF p \in S THEN "free" ELSE heap[p]]

(* Free the payloads, the command buffer and the instance i.                *)
Dispose(i) ==
    LET r == inst[i] IN
    IF r.lost /\ r.cmds # <<>>
    THEN fault' = "lost-cmdbuf" /\ UNCHANGED <<inst, heap>>
    ELSE IF BadFree(r)
    THEN fault' = "double-free" /\ UNCHANGED <<inst, heap>>
    ELSE /\ heap' = FreePayloads(OwnedData(r))
         /\ inst' = [inst EXCEPT ![i] = Unused]
         /\ UNCHANGED fault

----------------------------------------------------------------------------
(* The command buffer.                                                      *)

NeedsGrowth(r) == Len(r.cmds) + 1 = r.max

(* _XAie_ReallocCmdBuf succeeds, or is not needed.                          *)
MayGrow(r) == NeedsGrowth(r) => r.max + r.init <= CmdCountMax

(* The commands of a lost buffer stay lost, an empty one is replaced.       *)
Grown(r) ==
    IF NeedsGrowth(r)
    THEN [r EXCEPT !.max = r.max + r.init, !.lost = r.lost /\ r.cmds # <<>>]
    ELSE r

(* Store command c in slot NumCmds of the grown buffer of instance i.       *)
Store(i, c) ==
    LET r == Grown(inst[i]) IN
    IF Len(r.cmds) < r.max
    THEN inst' = [inst EXCEPT ![i] = [r EXCEPT !.cmds = Append(@, c)]] /\ UNCHANGED fault
    ELSE fault' = "overrun" /\ UNCHANGED inst

(* realloc returned NULL: the buffer is freed, NumCmds and MaxCmds stay.    *)
LoseBuffer(i) ==
    /\ AllocMayFail /\ NeedsGrowth(inst[i]) /\ MayGrow(inst[i])
    /\ inst' = [inst EXCEPT ![i].lost = TRUE]
    /\ UNCHANGED <<fault, heap>>

(* Buffer c in the transaction i of thread t.                               *)
Buffer(i, c) ==
    \/ MayGrow(inst[i]) /\ Store(i, c) /\ UNCHANGED heap
    \/ LoseBuffer(i)

(* Grow the buffer, then allocate the payload of c and store c; or fail to  *)
(* allocate it and keep the grown buffer.                                   *)
BufferPayload(i, c, tag) ==
    \/ \E p \in Payloads :
         /\ MayGrow(inst[i]) /\ heap[p] = "free"
         /\ heap' = [heap EXCEPT ![p] = tag]
         /\ Store(i, [c EXCEPT !.data = p])
    \/ /\ AllocMayFail /\ NeedsGrowth(inst[i]) /\ MayGrow(inst[i])
       /\ inst' = [inst EXCEPT ![i] = Grown(inst[i])]
       /\ UNCHANGED <<fault, heap>>
    \/ LoseBuffer(i)

(* A command that is no register access, and one that is t's next access.   *)
Control(op) == [op |-> op, mask |-> 0, data |-> NULL, id |-> 0, ask |-> "none"]
Access(t, op, kind, mask) ==
    [op |-> op, mask |-> mask, data |-> NULL, id |-> issued[t] + 1, ask |-> kind]

(* The access of thread t was buffered iff its call left a longer buffer.   *)
CountIfBuffered(t, i) ==
    issued' = IF Len(inst'[i].cmds) > Len(inst[i].cmds)
              THEN [issued EXCEPT ![t] = @ + 1] ELSE issued

(* The backend performs t's next access, not through a buffer.              *)
PerformNow(t, kind) ==
    /\ issued' = [issued EXCEPT ![t] = @ + 1]
    /\ out' = [out EXCEPT ![t] =
                 [id |-> issued[t] + 1, ask |-> kind, did |-> kind, own |-> TRUE]]

----------------------------------------------------------------------------
(* Starting a transaction.                                                  *)

(* _XAie_Txn_CfgInitialCmdArraySize; a size of 0 is refused.                *)
CfgInitialCmdArraySize(t) ==
    /\ MayCall(t, "Cfg")
    /\ \E n \in ArraySizes : n # 0 /\ arraySize' = n
    /\ UNCHANGED <<TxnList, inst, heap, fl, pmActive, ready, fault, issued, out>>

(* _XAie_Txn_Start.                                                         *)
Start(t) ==
    /\ MayCall(t, "Start")
    /\ \E i \in Insts, auto \in BOOLEAN :
         /\ inst[i].st = "unused"
         /\ inst' = [inst EXCEPT ![i] =
                       [st |-> "listed", tid |-> TidOf[t], cmds |-> <<>>,
                        max |-> arraySize, init |-> arraySize,
                        nextOp |-> CustomOpNext, auto |-> auto, lost |-> FALSE]]
         /\ TxnList' = Append(TxnList, i)
    /\ UNCHANGED <<heap, fl, arraySize, pmActive, ready, fault, issued, out>>

----------------------------------------------------------------------------
(* Buffering and performing register accesses.                              *)

(* XAie_Txn_Write32, with a transaction.                                    *)
Write32(t) ==
    /\ MayAccess(t, "Write32")
    /\ \E i \in Insts :
         /\ Found(t, i)
         /\ Buffer(i, Access(t, IO_WRITE, "Write32", 0))
         /\ CountIfBuffered(t, i)
    /\ UNCHANGED <<TxnList, fl, arraySize, pmActive, ready, out>>

(* XAie_Txn_MaskWrite32, with a transaction: same opcode, mask kept.        *)
MaskWrite32(t) ==
    /\ MayAccess(t, "MaskWrite32")
    /\ \E i \in Insts, mask \in Masks :
         /\ Found(t, i)
         /\ Buffer(i, Access(t, IO_WRITE, "MaskWrite32", mask))
         /\ CountIfBuffered(t, i)
    /\ UNCHANGED <<TxnList, fl, arraySize, pmActive, ready, out>>

(* Begin to execute the buffer of i; afterwards continue as `then' says.    *)
BeginFlush(t, i, then) == fl' = [fl EXCEPT ![t] = [inst |-> i, pos |-> 0, then |-> then]]

MustFlush(i) == inst[i].auto /\ inst[i].cmds # <<>>

(* XAie_Txn_MaskPoll and XAie_Txn_MaskPollBusy, with a transaction.         *)
MaskPoll(t) ==
    /\ MayAccess(t, "MaskPoll")
    /\ \E i \in Insts :
         /\ Found(t, i)
         /\ \/ /\ MustFlush(i)
               /\ BeginFlush(t, i, "MaskPoll")
               /\ UNCHANGED <<inst, heap, fault, issued>>
            \/ /\ ~MustFlush(i)
               /\ \E op \in {IO_MASKPOLL, IO_MASKPOLL_BUSY} :
                    Buffer(i, Access(t, op, "MaskPoll", 1))
               /\ CountIfBuffered(t, i)
               /\ UNCHANGED fl
    /\ UNCHANGED <<TxnList, arraySize, pmActive, ready, out>>

(* XAie_Txn_BlockWrite32, with a transaction.                               *)
BlockWrite32(t) ==
    /\ MayAccess(t, "BlockWrite32")
    /\ \E i \in Insts :
         /\ Found(t, i)
         /\ \/ /\ MustFlush(i)
               /\ BeginFlush(t, i, "BlockWrite32")
               /\ UNCHANGED <<inst, heap, fault, issued, out>>
            \/ /\ inst[i].auto /\ ~MustFlush(i)
               /\ PerformNow(t, "BlockWrite32")
               /\ UNCHANGED <<inst, heap, fault, fl>>
            \/ /\ ~inst[i].auto
               /\ BufferPayload(i, Access(t, IO_BLOCKWRITE, "BlockWrite32", 0), "block")
               /\ CountIfBuffered(t, i)
               /\ UNCHANGED <<fl, out>>
    /\ UNCHANGED <<TxnList, arraySize, pmActive, ready>>

(* XAie_Txn_BlockSet32, with a transaction.                                 *)
BlockSet32(t) ==
    /\ MayAccess(t, "BlockSet32")
    /\ \E i \in Insts :
         /\ Found(t, i)
         /\ \/ /\ MustFlush(i)
               /\ BeginFlush(t, i, "BlockSet32")
               /\ UNCHANGED <<inst, heap, fault, issued, out>>
            \/ /\ inst[i].auto /\ ~MustFlush(i)
               /\ PerformNow(t, "BlockSet32")
               /\ UNCHANGED <<inst, heap, fault, fl>>
            \/ /\ ~inst[i].auto
               /\ Buffer(i, Access(t, IO_BLOCKSET, "BlockSet32", 0))
               /\ CountIfBuffered(t, i)
               /\ UNCHANGED <<fl, out>>
    /\ UNCHANGED <<TxnList, arraySize, pmActive, ready>>

(* XAie_Txn_Read32 and XAie_Txn_RunOp (an operation other than writing a    *)
(* shim DMA descriptor, which is a BlockWrite32), with a transaction: a     *)
(* non-empty buffer without automatic flush refuses the call.               *)
ReadOrRunOp(t) ==
    \E kind \in {"Read32", "RunOp"}, i \in Insts :
        /\ MayAccess(t, kind)
        /\ Found(t, i)
        /\ \/ /\ MustFlush(i)
              /\ BeginFlush(t, i, kind)
              /\ UNCHANGED <<issued, out>>
           \/ /\ inst[i].cmds = <<>>
              /\ PerformNow(t, kind)
              /\ UNCHANGED fl
        /\ UNCHANGED <<TxnList, inst, heap, arraySize, pmActive, ready, fault>>

(* The same calls by a thread that has no transaction.                      *)
Direct(t) ==
    \E kind \in Kinds :
        /\ MayAccess(t, kind)
        /\ NoTxn(t)
        /\ PerformNow(t, kind)
        /\ UNCHANGED <<TxnList, inst, heap, fl, arraySize, pmActive, ready, fault>>

----------------------------------------------------------------------------
(* Commands that are no register access: all need a transaction.            *)

(* XAie_Txn_NoOp with Count = 1 (a larger Count is that many calls), and    *)
(* Preempt, LoadPdi, CreateScratchpad, UpdateStateTable, UpdateReg,         *)
(* UpdateScratch with valid arguments.                                      *)
ControlOp(t) ==
    /\ MayCall(t, "ControlOp")
    /\ \E i \in Insts, op \in ControlOps :
         /\ Found(t, i)
         /\ Buffer(i, Control(op))
    /\ UNCHANGED <<TxnList, fl, arraySize, pmActive, ready, issued, out>>

(* XAie_Txn_PmLoadStart: the flag is the device's, not the transaction's.   *)
PmLoadStart(t) ==
    /\ MayCall(t, "PmLoad")
    /\ ~pmActive
    /\ \E i \in Insts :
         /\ Found(t, i)
         /\ Buffer(i, Control(IO_LOAD_PM_START))
         /\ pmActive' = (inst'[i].cmds # inst[i].cmds)
    /\ UNCHANGED <<TxnList, fl, arraySize, ready, issued, out>>

(* XAie_Txn_PmLoadEnd.                                                      *)
PmLoadEnd(t) ==
    /\ MayCall(t, "PmLoad")
    /\ pmActive
    /\ \E i \in Insts :
         /\ Found(t, i)
         /\ Buffer(i, Control(LoadPmEndInternal))
         /\ pmActive' = (inst'[i].cmds = inst[i].cmds)
    /\ UNCHANGED <<TxnList, fl, arraySize, ready, issued, out>>

(* XAie_Txn_DdrAddressPatch and XAie_Txn_MergeSync.                         *)
PayloadOp(t) ==
    /\ MayCall(t, "PayloadOp")
    /\ \E i \in Insts, op \in {CUSTOM_OP_DDR_PATCH, CUSTOM_OP_MERGE_SYNC} :
         /\ Found(t, i)
         /\ BufferPayload(i, Control(op), "custom")
    /\ UNCHANGED <<TxnList, fl, arraySize, pmActive, ready, issued, out>>

(* XAie_RequestCustomTxnOp.                                                 *)
RequestCustomTxnOp(t) ==
    /\ MayCall(t, "RequestOp")
    /\ \E i \in Insts :
         /\ Found(t, i)
         /\ inst[i].nextOp < CustomOpMax
         /\ inst' = [inst EXCEPT ![i].nextOp = @ + 1]
    /\ UNCHANGED <<TxnList, heap, fl, arraySize, pmActive, ready, fault, issued, out>>

(* XAie_AddCustomTxnOp: the payload is allocated before the buffer grows    *)
(* and freed again when it can't.                                           *)
AddCustomTxnOp(t) ==
    /\ MayCall(t, "AddOp")
    /\ \E i \in Insts, op \in UserOps :
         /\ Found(t, i)
         /\ inst[i].nextOp >= op /\ CustomOpBegin <= op
         /\ \/ \E p \in Payloads :
                 /\ MayGrow(inst[i]) /\ heap[p] = "free"
                 /\ heap' = [heap EXCEPT ![p] = "user"]
                 /\ Store(i, [Control(op) EXCEPT !.data = p])
            \/ LoseBuffer(i)
    /\ UNCHANGED <<TxnList, fl, arraySize, pmActive, ready, issued, out>>

----------------------------------------------------------------------------
(* Executing a buffer.                                                      *)

(* The backend operation _XAie_ExecuteCmd calls for c: "none" for a custom  *)
(* operation, "invalid" for an opcode it does not know.                     *)
ExecutedAs(c) ==
    CASE c.op >= CustomOpBegin -> "none"
      [] c.op = IO_WRITE /\ c.mask = 0 -> "Write32"
      [] c.op = IO_WRITE /\ c.mask # 0 -> "MaskWrite32"
      [] c.op = IO_BLOCKWRITE -> "BlockWrite32"
      [] c.op = IO_BLOCKSET -> "BlockSet32"
      [] c.op \in {IO_MASKPOLL, IO_MASKPOLL_BUSY} -> "MaskPoll"
      [] OTHER -> "invalid"

(* The state of a flush: its instance, its next command.                    *)
FlushInst(t) == inst[fl[t].inst]
NextCmd(t) == FlushInst(t).cmds[fl[t].pos + 1]

(* A step of a flush that reads command pos of a live buffer.               *)
CanRead(t) ==
    /\ FlushInst(t).st # "unused"
    /\ ~FlushInst(t).lost
    /\ fl[t].pos < Len(FlushInst(t).cmds)

(* Mutant: the loop does not move on.                                       *)
Advance_Stuck(t) == UNCHANGED fl

Advance(t) == fl' = [fl EXCEPT ![t].pos = @ + 1]
Return(t) == fl' = [fl EXCEPT ![t] = NoFlush]

(* Mutant: the payload is freed and its address kept.                       *)
ExecuteAccess_NoReset(t) ==
    LET c == NextCmd(t) IN
    /\ ExecutedAs(c) \in Kinds
    /\ c.op = IO_BLOCKWRITE => c.data # NULL /\ heap[c.data] # "free"
    /\ out' = [out EXCEPT ![t] = [id |-> c.id, ask |-> c.ask, did |-> ExecutedAs(c),
                                  own |-> FlushInst(t).st # "exported"]]
    /\ heap' = IF c.op = IO_BLOCKWRITE /\ FlushInst(t).st # "exported"
               THEN FreePayloads({c.data}) ELSE heap
    /\ Advance(t)
    /\ UNCHANGED <<inst, fault>>

(* Mutant: the payload is freed even when the instance is exported.         *)
ExecuteAccess_FreeExported(t) ==
    LET c == NextCmd(t) IN
    /\ ExecutedAs(c) \in Kinds
    /\ c.op = IO_BLOCKWRITE => c.data # NULL /\ heap[c.data] # "free"
    /\ out' = [out EXCEPT ![t] = [id |-> c.id, ask |-> c.ask, did |-> ExecutedAs(c),
                                  own |-> FlushInst(t).st # "exported"]]
    /\ heap' = IF c.op = IO_BLOCKWRITE THEN FreePayloads({c.data}) ELSE heap
    /\ inst' = IF c.op = IO_BLOCKWRITE
               THEN [inst EXCEPT ![fl[t].inst].cmds[fl[t].pos + 1].data = NULL]
               ELSE inst
    /\ Advance(t)
    /\ UNCHANGED fault

(* A command the backend performs.  A block write that is not exported has  *)
(* its payload freed at once.                                               *)
ExecuteAccess(t) ==
    LET c == NextCmd(t)
        freed == c.op = IO_BLOCKWRITE /\ FlushInst(t).st # "exported" IN
    /\ ExecutedAs(c) \in Kinds
    /\ c.op = IO_BLOCKWRITE => c.data # NULL /\ heap[c.data] # "free"
    /\ out' = [out EXCEPT ![t] = [id |-> c.id, ask |-> c.ask, did |-> ExecutedAs(c),
                                  own |-> FlushInst(t).st # "exported"]]
    /\ heap' = IF freed THEN FreePayloads({c.data}) ELSE heap
    /\ inst' = IF freed
               THEN [inst EXCEPT ![fl[t].inst].cmds[fl[t].pos + 1].data = NULL]
               ELSE inst
    /\ Advance(t)
    /\ UNCHANGED fault

(* A custom operation is skipped.                                           *)
SkipCustomOp(t) ==
    /\ ExecutedAs(NextCmd(t)) = "none"
    /\ Advance(t)
    /\ UNCHANGED <<inst, heap, fault, out>>

(* An unknown opcode, or an error of the backend, ends the flush and the    *)
(* call; the buffer keeps all its commands.                                 *)
FailFlush(t) ==
    /\ \/ ExecutedAs(NextCmd(t)) = "invalid"
       \/ IoMayFail /\ ExecutedAs(NextCmd(t)) \in Kinds
    /\ Return(t)
    /\ UNCHANGED <<inst, heap, fault, out>>

(* Reads that C leaves undefined: of a freed instance, of the contents of a *)
(* buffer lost by realloc, of a payload that is NULL or freed.              *)
FaultyRead(t) ==
    /\ fault' = CASE FlushInst(t).st = "unused" -> "use-after-free"
                  [] FlushInst(t).lost /\ FlushInst(t).cmds # <<>> -> "lost-cmdbuf"
                  [] CanRead(t) /\ NextCmd(t).op = IO_BLOCKWRITE /\ NextCmd(t).data = NULL
                       -> "null-payload"
                  [] CanRead(t) /\ NextCmd(t).op = IO_BLOCKWRITE
                       /\ NextCmd(t).data \in Payloads /\ heap[NextCmd(t).data] = "free"
                       -> "use-after-free"
                  [] OTHER -> "none"
    /\ fault' # "none"
    /\ UNCHANGED <<inst, heap, fl, out>>

(* One iteration of _XAie_Txn_FlushCmdBuf.                                  *)
FlushStep(t) ==
    /\ fault = "none" /\ fl[t] # NoFlush
    /\ \/ CanRead(t) /\ (ExecuteAccess(t) \/ SkipCustomOp(t) \/ FailFlush(t))
       \/ FaultyRead(t)
    /\ UNCHANGED <<TxnList, arraySize, pmActive, ready, issued>>

(* The loop has ended, in the caller named `then'.                          *)
Flushed(t, then) ==
    /\ fault = "none" /\ fl[t] # NoFlush /\ fl[t].then = then
    /\ FlushInst(t).st # "unused"
    /\ fl[t].pos >= Len(FlushInst(t).cmds)

(* _XAie_Txn_Submit after its flush: an exported instance stays; another    *)
(* one is cleaned up, taken out of the list and freed.                      *)
FinishSubmit(t) ==
    /\ Flushed(t, "Submit")
    /\ Return(t)
    /\ \/ /\ FlushInst(t).st = "exported"
          /\ UNCHANGED <<TxnList, inst, heap, fault>>
       \/ /\ FlushInst(t).st = "listed"
          /\ Dispose(fl[t].inst)
          /\ \E k \in DOMAIN TxnList :
               FoundAt(t, TxnList[k], k) /\ TxnList' = Without(k)
    /\ UNCHANGED <<arraySize, pmActive, ready, issued, out>>

(* Mutant: the number of commands is not reset after an automatic flush.    *)
FinishAutoFlush_KeepCmds(t) ==
    /\ \E kind \in Kinds : Flushed(t, kind) /\ PerformNow(t, kind)
    /\ Return(t)
    /\ UNCHANGED <<TxnList, inst, heap, arraySize, pmActive, ready, fault>>

(* An automatic flush: the buffer is emptied, the access performed (or      *)
(* refused by the backend).                                                 *)
FinishAutoFlush(t) ==
    /\ \E kind \in Kinds :
         /\ Flushed(t, kind)
         /\ \/ PerformNow(t, kind)
            \/ IoMayFail /\ UNCHANGED <<issued, out>>
    /\ inst' = [inst EXCEPT ![fl[t].inst].cmds = <<>>]
    /\ Return(t)
    /\ UNCHANGED <<TxnList, heap, arraySize, pmActive, ready, fault>>

----------------------------------------------------------------------------
(* Submitting, exporting, discarding.                                       *)

(* _XAie_Txn_Submit up to its flush, for the thread's transaction or for an *)
(* exported one.                                                            *)
Submit(t) ==
    /\ MayCall(t, "Submit")
    /\ \E i \in Insts :
         /\ Found(t, i) \/ inst[i].st = "exported"
         /\ BeginFlush(t, i, "Submit")
    /\ UNCHANGED <<TxnList, inst, heap, arraySize, pmActive, ready, fault, issued, out>>

(* Mutant: the copy shares the payloads of its original.                    *)
Copy_Shallow(r, new) == [r EXCEPT !.st = "exported", !.lost = FALSE]

(* The copy of instance r whose owned payloads are at addresses new[k].     *)
Copy(r, new) ==
    [r EXCEPT !.st = "exported", !.lost = FALSE,
              !.cmds = [k \in DOMAIN r.cmds |->
                          IF k \in Owned(r) THEN [r.cmds[k] EXCEPT !.data = new[k]]
                                            ELSE r.cmds[k]]]

(* _XAie_TxnExport.                                                         *)
Export(t) ==
    /\ MayCall(t, "Export")
    /\ \E i, j \in Insts :
         /\ Found(t, i) /\ inst[j].st = "unused"
         /\ LET r == inst[i] IN
            IF r.lost /\ r.cmds # <<>>
            THEN fault' = "lost-cmdbuf" /\ UNCHANGED <<inst, heap>>
            ELSE IF \E k \in Owned(r) : heap[r.cmds[k].data] = "free"
            THEN fault' = "use-after-free" /\ UNCHANGED <<inst, heap>>
            ELSE \E new \in [Owned(r) -> {p \in Payloads : heap[p] = "free"}] :
                   /\ \A k, l \in Owned(r) : k # l => new[k] # new[l]
                   /\ inst' = [inst EXCEPT ![j] = Copy(r, new)]
                   /\ heap' = [p \in Payloads |->
                                 IF \E k \in Owned(r) : new[k] = p
                                 THEN heap[r.cmds[CHOOSE k \in Owned(r) : new[k] = p].data]
                                 ELSE heap[p]]
                   /\ UNCHANGED fault
    /\ UNCHANGED <<TxnList, fl, arraySize, pmActive, ready, issued, out>>

(* _XAie_ClearTransaction.                                                  *)
Clear(t) ==
    /\ MayCall(t, "Clear")
    /\ \E k \in DOMAIN TxnList :
         /\ FoundAt(t, TxnList[k], k)
         /\ Dispose(TxnList[k])
         /\ TxnList' = Without(k)
    /\ UNCHANGED <<fl, arraySize, pmActive, ready, issued, out>>

(* _XAie_TxnFree of an exported instance, which by contract no thread is    *)
(* executing; it takes no device and works after XAie_Finish too.           *)
FreeExported(t) ==
    /\ "Free" \in Calls[t] /\ fault = "none" /\ fl[t] = NoFlush
    /\ \E i \in Insts :
         /\ inst[i].st = "exported"
         /\ \A u \in Threads : fl[u].inst # i
         /\ Dispose(i)
    /\ UNCHANGED <<TxnList, fl, arraySize, pmActive, ready, issued, out>>

(* XAie_Finish, which by contract no other call overlaps: clean-up frees    *)
(* all listed instances and leaves TxnList.Next as it was; then the backend *)
(* is closed, which no backend of the repository refuses.                   *)
Finish(t) ==
    LET listed == {i \in Insts : inst[i].st = "listed"} IN
    /\ MayCall(t, "Finish")
    /\ \A u \in Threads : fl[u] = NoFlush
    /\ IF \E i \in listed : inst[i].lost /\ inst[i].cmds # <<>>
       THEN fault' = "lost-cmdbuf" /\ UNCHANGED <<inst, heap>>
       ELSE IF \/ \E i \in listed : BadFree(inst[i])
               \/ \E i, j \in listed :
                    i # j /\ OwnedData(inst[i]) \cap OwnedData(inst[j]) # {}
       THEN fault' = "double-free" /\ UNCHANGED <<inst, heap>>
       ELSE /\ heap' = FreePayloads(UNION {OwnedData(inst[i]) : i \in listed})
            /\ inst' = [i \in Insts |-> IF i \in listed THEN Unused ELSE inst[i]]
            /\ UNCHANGED fault
    /\ ready' = FALSE
    /\ UNCHANGED <<TxnList, fl, arraySize, pmActive, issued, out>>

Next ==
    \E t \in Threads :
        \/ CfgInitialCmdArraySize(t) \/ Start(t)
        \/ Write32(t) \/ MaskWrite32(t) \/ MaskPoll(t)
        \/ BlockWrite32(t) \/ BlockSet32(t) \/ ReadOrRunOp(t) \/ Direct(t)
        \/ ControlOp(t) \/ PmLoadStart(t) \/ PmLoadEnd(t)
        \/ PayloadOp(t) \/ RequestCustomTxnOp(t) \/ AddCustomTxnOp(t)
        \/ FlushStep(t) \/ FinishSubmit(t) \/ FinishAutoFlush(t)
        \/ Submit(t) \/ Export(t) \/ Clear(t) \/ FreeExported(t) \/ Finish(t)

Spec == Init /\ [][Next]_vars

(* A call that has begun to flush runs to its end.                          *)
FairSpec == Spec /\ \A t \in Threads :
    /\ WF_vars(FlushStep(t)) /\ WF_vars(FinishSubmit(t)) /\ WF_vars(FinishAutoFlush(t))

----------------------------------------------------------------------------
(* Properties.                                                              *)

Faults == {"none", "use-after-free", "double-free", "overrun", "lost-cmdbuf", "null-payload"}

(* Every variable has its type.                                             *)
TypeOK ==
    /\ TxnList \in Seq(Insts)
    /\ inst \in [Insts -> Inst]
    /\ heap \in [Payloads -> PayloadTags \cup {"free"}]
    /\ fl \in [Threads -> [inst : Insts \cup {NULL}, pos : Nat,
                           then : Kinds \cup {"none", "Submit"}]]
    /\ arraySize \in Nat \ {0}
    /\ pmActive \in BOOLEAN /\ ready \in BOOLEAN
    /\ fault \in Faults
    /\ issued \in [Threads -> Nat]
    /\ out \in [Threads -> [id : Nat, ask : Kinds \cup {"none"},
                            did : Kinds \cup {"none"}, own : BOOLEAN]]

Live(i) == inst[i].st # "unused"

(* No thread ever uses a freed instance or payload, frees a payload twice,  *)
(* or writes past the end of a command buffer (growth is tested with ==,    *)
(* so a buffer that once overshot would never grow again).  Two faults the  *)
(* code does have are left out: "lost-cmdbuf", after a failed realloc,      *)
(* which frees the command buffer and keeps the counters (xaie_txn.c:434),  *)
(* so the next flush, export or clean-up reads commands through NULL; and   *)
(* "null-payload", when a submit that failed behind a block write is        *)
(* repeated (507).                                                          *)
NoBadMemoryAccess == fault \notin {"use-after-free", "double-free", "overrun"}

(* A payload that some clean-up will free is allocated, and no other slot   *)
(* of any instance, listed or exported, has it: an export is a deep copy    *)
(* that survives the submit or the clear of its original.                   *)
PayloadOwnership ==
    \A i \in Insts : Live(i) => \A k \in Owned(inst[i]) :
        /\ heap[inst[i].cmds[k].data] # "free"
        /\ \A j \in Insts : Live(j) => \A l \in Owned(inst[j]) :
             inst[i].cmds[k].data = inst[j].cmds[l].data => i = j /\ k = l

(* An exported transaction is immutable until its owner frees it, whoever   *)
(* submits it and however often.                                            *)
ExportImmutable ==
    [][\A i \in Insts : inst[i].st = "exported" =>
         inst'[i] = inst[i] \/ (inst'[i].st = "unused" /\ \A t \in Threads : fl[t].inst # i)]_vars

(* Where thread t stands in the buffer of instance i.                       *)
Position(t, i) == IF fl[t].inst = i THEN fl[t].pos ELSE 0

(* Slot k of instance i holds an access that thread t waits for: one of its *)
(* oldest transaction that its current flush has not executed.              *)
WaitsIn(t, i, k) ==
    /\ ready /\ Found(t, i)
    /\ k \in DOMAIN inst[i].cmds /\ k > Position(t, i)
    /\ inst[i].cmds[k].ask # "none"

(* The accesses thread t waits for.                                         *)
Waiting(t) ==
    UNION {{[id |-> inst[i].cmds[k].id, ask |-> inst[i].cmds[k].ask] :
              k \in {k \in DOMAIN inst[i].cmds : WaitsIn(t, i, k)}} : i \in Insts}

Order == INSTANCE TxnOrder WITH pend <- [t \in Threads |-> Waiting(t)]

(* Each thread's accesses reach the device in program order, once, and as   *)
(* asked for: TxnOrder is implemented as long as no execution is refused.   *)
ImplementsOrder == Order!Spec

(* A call that flushes returns.                                             *)
FlushReturns == \A t \in Threads : fl[t] # NoFlush ~> (fl[t] = NoFlush \/ fault # "none")
============================================================================
