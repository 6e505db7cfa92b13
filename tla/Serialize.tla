------------------------------ MODULE Serialize ------------------------------
(***************************************************************************)
(* The serializers of a transaction (src/src/common/xaie_txn.c): they turn *)
(* the buffered commands of an instance into one binary transaction, and   *)
(* the re-serializer pads a transaction so that no UPDATE_REG crosses a    *)
(* 16 KB page.  Both walk the commands with a growing buffer.              *)
(*                                                                         *)
(* One step is one iteration of the walk, of a growth loop or of a flush   *)
(* of the coalesced BLOCKWRITE.  An operation of the binary is a record    *)
(* that keeps the commands it stands for, its offset and its size in       *)
(* bytes; payloads are not modelled.  Sizes are those of the structs of    *)
(* xaie_txn.h.                                                             *)
(***************************************************************************)
EXTENDS Integers, Sequences, FiniteSets

CONSTANTS
    Commands,       \* commands a client buffers: records [op, reg, len]
    Limit,          \* bound: how often each of them is buffered
    MaxCmds,        \* bound: commands in the transaction
    MaxExports,     \* bound: exports of the transaction
    Versions,       \* the formats exported, of {"v01", "v10"}
    OneVersion,     \* bound: all exports use one format?
    Sources,        \* transactions of other tools given to the re-serializer
    AllocMayFail    \* may realloc return NULL?

BOUNDARY_16KB == 16384
DEFAULT_TXN_BUFFER_SIZE == 4096
TXN_HEADER_SIZE == 16
SEQ_COUNTS == 16777216      \* values of the 24 bits of LoadSequenceCount

BlockOps == {"blockwrite", "blockset"}
PayloadOps == {"custom", "user_op", "ddr_patch"}
Ops == BlockOps \cup PayloadOps \cup
       {"write", "maskwrite", "maskpoll", "noop", "preempt", "loadpdi", "pm_start",
        "pm_end", "create_scratchpad", "update_state", "update_reg", "update_scratch"}

Command == [op : Ops, reg : Nat, len : Nat]

ASSUME SerializeAssumption ==
    /\ Commands \subseteq Command /\ Limit \in [Commands -> Nat]
    /\ MaxCmds \in Nat /\ MaxExports \in Nat
    /\ Versions \subseteq {"v01", "v10"}
    /\ OneVersion \in BOOLEAN /\ AllocMayFail \in BOOLEAN
    /\ \A c \in Commands : c.op = "ddr_patch" => c.len = 40

Item == [op : Ops, src : Seq(Nat), at : Nat, size : Nat, count : Nat]

(* The operations follow each other from the end of the header on.         *)
Tiling(s) ==
    \A k \in DOMAIN s :
        s[k].at = IF k = 1 THEN TXN_HEADER_SIZE ELSE s[k - 1].at + s[k - 1].size
EndOf(s) == IF s = <<>> THEN TXN_HEADER_SIZE ELSE s[Len(s)].at + s[Len(s)].size

ASSUME SourcesAssumption ==
    \A s \in Sources : /\ s \in Seq(Item) /\ Tiling(s)
                       /\ \A k \in DOMAIN s : s[k].op = "update_reg" => s[k].size = 12

VARIABLES
    cmds,       \* TmpInst->CmdBuf, the buffered commands
    pmActive,   \* DevInst->PmLoadingActive
    phase,      \* what the client or the library is doing
    ver,        \* the format being exported
    entry,      \* PmLoadingActive when the export began
    exports,    \* number of exports so far
    i,          \* CmdIdx, the next command or operation of the walk
    out,        \* the operations in the buffer
    size,       \* BuffSize, DestBuffSize
    numOps,     \* NumOps
    bw,         \* BlockwriteBuffer: the BLOCKWRITE being coalesced
    patches,    \* PatchCmdCount
    loadSeq,    \* LoadSeqCount
    hdr,        \* LoadSeqCountPtr: index in out of the last PM header, or 0
    alloc,      \* AllocatedBuffSize and BWBuffAllocatedSize
    mem,        \* buffers allocated by the library and not freed
    src,        \* SrcTxn of the re-serializer
    spilled,    \* NeedReserialization
    chunk       \* CmdsInChunk: operations of src not copied yet

record == <<cmds, pmActive, entry, exports>>
reser == <<src, spilled, chunk>>
walk == <<ver, i, out, size, numOps, bw, patches, loadSeq, hdr>>
vars == <<record, phase, walk, alloc, mem, reser>>

NoBlock == [src |-> <<>>, next |-> 0, size |-> 0]

(* A transaction that was cleared in the middle of a PM load leaves the    *)
(* device's flag set for the next one.                                     *)
Init ==
    /\ cmds = <<>> /\ pmActive \in BOOLEAN /\ entry = FALSE /\ exports = 0
    /\ phase = "record" /\ ver = "none"
    /\ i = 1 /\ out = <<>> /\ size = 0 /\ numOps = 0
    /\ bw = NoBlock /\ patches = 0 /\ loadSeq = 0 /\ hdr = 0
    /\ alloc = [txn |-> 0, bw |-> 0] /\ mem = {}
    /\ src = <<>> /\ spilled = FALSE /\ chunk = 0

------------------------------------------------------------------------------
(* Sizes of the serialized operations.                                     *)

HdrSize(v, op) ==
    CASE op = "write"                          -> IF v = "v01" THEN 24 ELSE 12
      [] op \in {"maskwrite", "maskpoll"}      -> IF v = "v01" THEN 32 ELSE 16
      [] op \in BlockOps                       -> IF v = "v01" THEN 16 ELSE 12
      [] op \in {"loadpdi", "create_scratchpad"} -> 16
      [] op = "update_reg"                     -> 12
      [] op \in PayloadOps \cup {"pm_start", "update_state"} -> 8
      [] OTHER                                 -> 4

(* sizeof(patch_op_t) and sizeof(patch_op_opt_t) *)
PatchSize(v) == IF v = "v01" THEN 40 ELSE 16

SizeOf(v, c) ==
    HdrSize(v, c.op) + (CASE c.op \in BlockOps   -> 4 * c.len
                          [] c.op \in PayloadOps -> c.len
                          [] OTHER               -> 0)

(* What a DDR_PATCH takes is decided by the format, whatever the command.  *)
Emitted(v, c) ==
    IF v = "v10" /\ c.op = "ddr_patch" THEN [c EXCEPT !.len = PatchSize(v)] ELSE c

NextBoundary(at) == (at \div BOUNDARY_16KB + 1) * BOUNDARY_16KB

(* _XAie_CheckTxnCmdSpillsOver16KBBoundary *)
Spills(n, at) ==
    /\ (at + n) \div BOUNDARY_16KB > at \div BOUNDARY_16KB
    /\ at + n # NextBoundary(at)

NoOps(at, n) ==
    [k \in 1..n |-> [op |-> "noop", src |-> <<>>, at |-> at + 4 * (k - 1), size |-> 4, count |-> 0]]

------------------------------------------------------------------------------
(* The client: buffer commands, export, free.                              *)

TimesBuffered(c) == Cardinality({k \in DOMAIN cmds : cmds[k] = c})

(* The calls of the transaction API; a PM load starts and ends once.       *)
Buffer(c) ==
    /\ phase = "record"
    /\ Len(cmds) < MaxCmds /\ TimesBuffered(c) < Limit[c]
    /\ c.op = "pm_start" => ~pmActive
    /\ c.op = "pm_end" => pmActive
    /\ cmds' = Append(cmds, c)
    /\ pmActive' = IF c.op \in {"pm_start", "pm_end"} THEN ~pmActive ELSE pmActive
    /\ UNCHANGED <<entry, exports, phase, walk, alloc, mem, reser>>

ExportSerialized(v) ==
    /\ phase = "record" /\ exports < MaxExports
    /\ OneVersion => ver \in {"none", v}
    /\ phase' = "serialize" /\ ver' = v /\ entry' = pmActive /\ exports' = exports + 1
    /\ i' = 1 /\ out' = <<>> /\ size' = TXN_HEADER_SIZE /\ numOps' = 0
    /\ bw' = NoBlock /\ patches' = 0 /\ loadSeq' = 0 /\ hdr' = 0
    /\ alloc' = [txn |-> DEFAULT_TXN_BUFFER_SIZE, bw |-> DEFAULT_TXN_BUFFER_SIZE]
    /\ mem' = {"txn", "bw"}
    /\ UNCHANGED <<cmds, pmActive, reser>>

FreeSerialized ==
    /\ phase \in {"done", "failed"}
    /\ phase' = "record" /\ mem' = {} /\ out' = <<>>
    /\ UNCHANGED <<record, ver, i, size, numOps, bw, patches, loadSeq, hdr, alloc, reser>>

------------------------------------------------------------------------------
(* The serializer: one command per iteration.                              *)

Op == cmds[i].op
More == i <= Len(cmds)
Cmd(v) == Emitted(v, cmds[i])

(* Mutant: a BLOCKWRITE continues whichever is pending.                    *)
FlushDue_AnyRegister ==
    /\ phase = "serialize" /\ bw # NoBlock
    /\ More => Op \notin {"blockwrite", "ddr_patch"}

(* A pending BLOCKWRITE is flushed by the end of the commands, by a        *)
(* BLOCKWRITE that does not continue it, and by all else but a DDR_PATCH.  *)
FlushDue ==
    /\ phase = "serialize" /\ bw # NoBlock
    /\ More => \/ Op \notin {"blockwrite", "ddr_patch"}
               \/ Op = "blockwrite" /\ cmds[i].reg # bw.next

(* Mutant: one of the two serializers does not pad.                        *)
PadDue_OneFormat ==
    /\ phase = "serialize" /\ ~FlushDue /\ More
    /\ ver = "v01" /\ Op = "update_reg" /\ Spills(HdrSize(ver, Op), size)

(* An UPDATE_REG that would cross a page is preceded by padding.           *)
PadDue ==
    /\ phase = "serialize" /\ ~FlushDue /\ More
    /\ Op = "update_reg" /\ Spills(HdrSize(ver, Op), size)

Appending == phase = "serialize" /\ More /\ ~FlushDue /\ ~PadDue

(* Bytes of the chunk the re-serializer has read and not copied.           *)
ChunkBytes == IF chunk = 0 THEN 0
              ELSE src[i - 1].at + src[i - 1].size - src[i - chunk].at

ChunkSpills ==
    /\ phase = "copy" /\ i <= Len(src) /\ src[i].op = "update_reg"
    /\ Spills(HdrSize(ver, "update_reg"), size + ChunkBytes)

CopyDue == phase = "copy" /\ (ChunkSpills \/ i > Len(src))

(* Bytes the next append needs in each buffer.                             *)
Need == [txn |-> IF FlushDue THEN size + bw.size
                 ELSE IF CopyDue THEN size + ChunkBytes
                 ELSE IF Appending /\ Op \notin {"blockwrite", "pm_end"}
                      THEN size + SizeOf(ver, cmds[i])
                 ELSE size,
         bw  |-> IF Appending /\ Op = "blockwrite"
                 THEN 4 * cmds[i].len + (IF bw = NoBlock THEN HdrSize(ver, Op) ELSE bw.size)
                 ELSE 0]

Fits == Need.txn <= alloc.txn /\ Need.bw <= alloc.bw

(* realloc loops: the buffer doubles until the next append fits.           *)
Grow(b) ==
    /\ phase \in {"serialize", "copy"}
    /\ Need[b] > alloc[b]
    /\ alloc' = [alloc EXCEPT ![b] = 2 * @]
    /\ UNCHANGED <<record, phase, walk, mem, reser>>

(* Mutant: the error path forgets BlockwriteBuffer.                        *)
GrowFails_KeepsBlock(b) ==
    /\ AllocMayFail
    /\ phase \in {"serialize", "copy"}
    /\ Need[b] > alloc[b]
    /\ phase' = IF phase = "copy" THEN "unserved" ELSE "failed"
    /\ mem' = IF phase = "copy" THEN mem ELSE mem \ {"txn"}
    /\ UNCHANGED <<record, walk, alloc, reser>>

(* The serializer frees its buffers when realloc fails; the re-serializer  *)
(* forgets its buffer.                                                     *)
GrowFails(b) ==
    /\ AllocMayFail
    /\ phase \in {"serialize", "copy"}
    /\ Need[b] > alloc[b]
    /\ phase' = IF phase = "copy" THEN "unserved" ELSE "failed"
    /\ mem' = IF phase = "copy" THEN mem ELSE mem \ {"txn", "bw"}
    /\ UNCHANGED <<record, walk, alloc, reser>>

(* _XAie_AppendBWToTxnBuff: the block goes before the patches counted      *)
(* since it was started, whose total size is computed from their number.   *)
FlushBlock ==
    LET n == Len(out)
        bytes == patches * (8 + PatchSize(ver))
        block == [op |-> "blockwrite", src |-> bw.src, at |-> size - bytes,
                  size |-> bw.size, count |-> 0]
    IN /\ FlushDue /\ Fits
       /\ IF patches > 0 => n >= patches /\ out[n - patches + 1].at = size - bytes
          THEN /\ out' = [k \in 1..(n + 1) |->
                             IF k <= n - patches THEN out[k]
                             ELSE IF k = n - patches + 1 THEN block
                             ELSE [out[k - 1] EXCEPT !.at = @ + bw.size]]
               /\ phase' = phase
          ELSE phase' = "torn" /\ out' = out
       /\ size' = size + bw.size
       /\ bw' = NoBlock /\ patches' = 0
       /\ UNCHANGED <<record, ver, i, numOps, loadSeq, hdr, alloc, mem, reser>>

(* _XAie_AddNoOpPadding16KB.  If it moved the buffer, TxnBasePtr of its    *)
(* caller would be left dangling ("stale").                                *)
PadUpdateReg ==
    LET r == NextBoundary(size) - size
    IN /\ PadDue
       /\ \/ /\ r % 4 # 0
             /\ phase' = "failed" /\ mem' = mem \ {"txn", "bw"}
             /\ UNCHANGED <<out, size, numOps>>
          \/ /\ r % 4 = 0
             /\ phase' = IF size + r > alloc.txn THEN "stale" ELSE phase
             /\ out' = out \o NoOps(size, r \div 4)
             /\ size' = size + r
             /\ numOps' = numOps + r \div 4
             /\ mem' = mem
       /\ UNCHANGED <<record, ver, i, bw, patches, loadSeq, hdr, alloc, reser>>

CountInLoad == loadSeq' = IF pmActive THEN loadSeq + 1 ELSE loadSeq

AppendItem(v) ==
    LET c == Cmd(v)
    IN /\ out' = Append(out, [op |-> IF c.op = "blockset" THEN "blockwrite" ELSE c.op,
                              src |-> <<i>>, at |-> size, size |-> SizeOf(v, c), count |-> 0])
       /\ size' = size + SizeOf(v, c)
       /\ numOps' = numOps + 1
       /\ i' = i + 1

(* All operations that are written as they come.  Format v10 shortens the  *)
(* recorded DDR_PATCH command itself.                                      *)
AppendCmd ==
    /\ Appending /\ Fits
    /\ Op \notin {"blockwrite", "pm_start", "pm_end"}
    /\ AppendItem(ver)
    /\ CountInLoad
    /\ patches' = IF Op = "ddr_patch" /\ bw # NoBlock THEN patches + 1 ELSE patches
    /\ cmds' = [cmds EXCEPT ![i] = Cmd(ver)]
    /\ UNCHANGED <<pmActive, entry, exports, phase, ver, bw, hdr, alloc, mem, reser>>

AppendPmStart ==
    /\ Appending /\ Fits /\ Op = "pm_start"
    /\ AppendItem(ver)
    /\ hdr' = Len(out) + 1
    /\ pmActive' = TRUE
    /\ UNCHANGED <<cmds, entry, exports, phase, ver, bw, patches, loadSeq, alloc, mem, reser>>

(* LOAD_PM_END_INTERNAL is not written: it completes the last PM header.   *)
AppendPmEnd ==
    /\ Appending /\ Op = "pm_end"
    /\ \/ /\ hdr = 0
          /\ phase' = "failed" /\ mem' = mem \ {"txn", "bw"}
          /\ UNCHANGED <<i, out, loadSeq, pmActive>>
       \/ /\ hdr # 0
          /\ out' = IF loadSeq = 0 THEN out ELSE [out EXCEPT ![hdr].count = loadSeq % SEQ_COUNTS]
          /\ loadSeq' = 0 /\ pmActive' = FALSE /\ i' = i + 1
          /\ UNCHANGED <<phase, mem>>
    /\ UNCHANGED <<cmds, entry, exports, ver, size, numOps, bw, patches, hdr, alloc, reser>>

StartBlock ==
    /\ Appending /\ Fits /\ Op = "blockwrite" /\ bw = NoBlock
    /\ bw' = [src |-> <<i>>, next |-> cmds[i].reg + 4 * cmds[i].len,
              size |-> SizeOf(ver, cmds[i])]
    /\ numOps' = numOps + 1
    /\ CountInLoad
    /\ i' = i + 1
    /\ UNCHANGED <<record, phase, ver, out, size, patches, hdr, alloc, mem, reser>>

(* Mutant: a coalesced BLOCKWRITE stays in the sequence count.             *)
Coalesce_Counted ==
    /\ Appending /\ Fits /\ Op = "blockwrite" /\ bw # NoBlock
    /\ bw' = [src |-> Append(bw.src, i), next |-> cmds[i].reg + 4 * cmds[i].len,
              size |-> bw.size + 4 * cmds[i].len]
    /\ CountInLoad /\ i' = i + 1
    /\ UNCHANGED <<record, phase, ver, out, size, numOps, patches, hdr, alloc, mem, reser>>

(* A BLOCKWRITE that continues the pending one is not an operation.        *)
Coalesce ==
    /\ Appending /\ Fits /\ Op = "blockwrite" /\ bw # NoBlock
    /\ bw' = [src |-> Append(bw.src, i), next |-> cmds[i].reg + 4 * cmds[i].len,
              size |-> bw.size + 4 * cmds[i].len]
    /\ i' = i + 1
    /\ UNCHANGED <<record, phase, ver, out, size, numOps, patches, loadSeq, hdr, alloc, mem, reser>>

(* The buffer is trimmed to a multiple of 4 bytes.                         *)
Aligned(n) == ((n + 3) \div 4) * 4

Complete ==
    /\ phase = "serialize" /\ ~More /\ ~FlushDue
    /\ phase' = "done" /\ size' = Aligned(size) /\ mem' = mem \ {"bw"}
    /\ UNCHANGED <<record, ver, i, out, numOps, bw, patches, loadSeq, hdr, alloc, reser>>

------------------------------------------------------------------------------
(* The re-serializer, given a transaction of this library or of a tool.    *)

Reserialize(s) ==
    /\ phase' = "scan" /\ src' = s /\ mem' = {}
    /\ i' = 1 /\ size' = TXN_HEADER_SIZE /\ numOps' = 0 /\ out' = <<>>
    /\ spilled' = FALSE /\ chunk' = 0
    /\ UNCHANGED <<record, ver, bw, patches, loadSeq, hdr, alloc>>

(* First pass.  _XAie_GetTxnCmdSize does not know the op numbers of        *)
(* XAie_RequestCustomTxnOp: the transaction is then left as it is.         *)
Scan ==
    /\ phase = "scan" /\ i <= Len(src)
    /\ IF src[i].op = "user_op"
       THEN phase' = "unserved" /\ UNCHANGED <<spilled, size, i>>
       ELSE /\ spilled' = (spilled \/ (/\ src[i].op = "update_reg"
                                         /\ Spills(HdrSize(ver, "update_reg"), size)))
            /\ size' = size + src[i].size /\ i' = i + 1
            /\ phase' = phase
    /\ UNCHANGED <<record, ver, out, numOps, bw, patches, loadSeq, hdr, alloc, mem, src, chunk>>

EndScan ==
    /\ phase = "scan" /\ i > Len(src)
    /\ IF spilled
       THEN /\ phase' = "copy" /\ i' = 1 /\ size' = TXN_HEADER_SIZE
            /\ alloc' = [alloc EXCEPT !.txn = DEFAULT_TXN_BUFFER_SIZE] /\ mem' = {"txn"}
       ELSE phase' = "kept" /\ UNCHANGED <<i, size, alloc, mem>>
    /\ UNCHANGED <<record, ver, out, numOps, bw, patches, loadSeq, hdr, reser>>

(* Second pass: an operation joins the chunk.                              *)
JoinChunk ==
    /\ phase = "copy" /\ ~CopyDue
    /\ chunk' = chunk + 1 /\ i' = i + 1
    /\ UNCHANGED <<record, phase, ver, out, size, numOps, bw, patches, loadSeq, hdr, alloc, mem,
                   src, spilled>>

(* The chunk as it stands in the new buffer.                               *)
Copied == [k \in 1..chunk |->
             LET o == src[i - chunk + k - 1]
             IN [o EXCEPT !.at = size + o.at - src[i - chunk].at]]

CopyAndPad ==
    LET at == size + ChunkBytes
        r == NextBoundary(at) - at
    IN /\ ChunkSpills /\ Fits
       /\ size' = IF r % 4 = 0 THEN at + r ELSE at
       /\ IF r % 4 = 0
          THEN /\ out' = out \o Copied \o NoOps(at, r \div 4)
               /\ numOps' = numOps + chunk + r \div 4
               /\ phase' = IF at + r > alloc.txn THEN "stale" ELSE phase
               /\ mem' = mem
          ELSE /\ out' = out \o Copied /\ numOps' = numOps + chunk
               /\ phase' = "unserved" /\ mem' = {}
       /\ chunk' = 0
       /\ UNCHANGED <<record, ver, i, bw, patches, loadSeq, hdr, alloc, src, spilled>>

(* Mutant: the size is not rounded up.                                     *)
CopyRest_Unaligned ==
    /\ phase = "copy" /\ i > Len(src) /\ Fits
    /\ out' = out \o Copied
    /\ numOps' = numOps + chunk
    /\ size' = size + ChunkBytes
    /\ phase' = "reserialized"
    /\ chunk' = 0
    /\ UNCHANGED <<record, ver, i, bw, patches, loadSeq, hdr, alloc, mem, src, spilled>>

CopyRest ==
    /\ phase = "copy" /\ i > Len(src) /\ Fits
    /\ out' = out \o Copied
    /\ numOps' = numOps + chunk
    /\ size' = Aligned(size + ChunkBytes)
    /\ phase' = "reserialized"
    /\ chunk' = 0
    /\ UNCHANGED <<record, ver, i, bw, patches, loadSeq, hdr, alloc, mem, src, spilled>>

------------------------------------------------------------------------------
Client ==
    \/ \E c \in Commands : Buffer(c)
    \/ \E v \in Versions : ExportSerialized(v)
    \/ FreeSerialized
    \/ phase = "done" /\ Reserialize(out)
    \/ phase = "record" /\ cmds = <<>> /\ \E s \in Sources : Reserialize(s)

Growth == \E b \in {"txn", "bw"} : Grow(b) \/ GrowFails(b)

Serializer ==
    \/ FlushBlock \/ PadUpdateReg \/ AppendCmd \/ AppendPmStart \/ AppendPmEnd
    \/ StartBlock \/ Coalesce \/ Complete

Reserializer == Scan \/ EndScan \/ JoinChunk \/ CopyAndPad \/ CopyRest

Next == Client \/ Growth \/ Serializer \/ Reserializer

Spec == Init /\ [][Next]_vars

------------------------------------------------------------------------------
(* Properties.                                                             *)

Phases == {"record", "serialize", "done", "failed", "torn", "stale",
           "scan", "kept", "copy", "reserialized", "unserved"}

(* Every variable has its type; the walk's counters are natural numbers.   *)
TypeOK ==
    /\ cmds \in Seq(Command) /\ pmActive \in BOOLEAN /\ entry \in BOOLEAN
    /\ phase \in Phases /\ ver \in {"none", "v01", "v10"}
    /\ exports \in Nat /\ i \in Nat \ {0} /\ size \in Nat /\ numOps \in Nat
    /\ out \in Seq(Item) /\ src \in Seq(Item)
    /\ bw \in [src : Seq(Nat), next : Nat, size : Nat]
    /\ patches \in Nat /\ loadSeq \in Nat /\ hdr \in Nat
    /\ alloc \in [{"txn", "bw"} -> Nat] /\ mem \subseteq {"txn", "bw"}
    /\ spilled \in BOOLEAN /\ chunk \in Nat

Written == phase \in {"done", "reserialized"}

(* The header counts exactly the operations of the binary: coalesced       *)
(* BLOCKWRITEs and PM ends are not counted, padding is.  A reader walks    *)
(* the binary by that count.                                               *)
NumOpsRight == Written => numOps = Len(out)

(* The operations tile the binary: moving the patches behind a flushed     *)
(* BLOCKWRITE and copying chunks leave no gap and no overlap, and the      *)
(* header's size is the end of the last one, rounded up.                   *)
Tiled ==
    Written =>
        /\ Tiling(out)
        /\ size = Aligned(EndOf(out))

(* A reader that walks the binary by its header meets exactly its          *)
(* operations.                                                             *)
WellFormed == NumOpsRight /\ Tiled

(* No UPDATE_REG of a written binary lies on two pages.                    *)
NoUpdateRegOnTwoPages ==
    Written => \A k \in DOMAIN out :
        out[k].op = "update_reg" =>
            out[k].at \div BOUNDARY_16KB = (out[k].at + out[k].size - 1) \div BOUNDARY_16KB

(* Every command but PM_END is in the binary once, in the order it was     *)
(* buffered, except that a DDR_PATCH issued while a BLOCKWRITE was being   *)
(* coalesced comes after what was coalesced into it.                       *)
Holds(k, a) == \E m \in DOMAIN out[k].src : out[k].src[m] = a
Places(a) == {k \in DOMAIN out : Holds(k, a)}
OrderKept ==
    phase = "done" =>
        /\ \A a \in DOMAIN cmds :
              Cardinality(Places(a)) = IF cmds[a].op = "pm_end" THEN 0 ELSE 1
        /\ \A k, l \in DOMAIN out : \A m \in DOMAIN out[k].src, n \in DOMAIN out[l].src :
              LET a == out[k].src[m]
                  b == out[l].src[n]
              IN k < l /\ b < a => /\ cmds[b].op = "ddr_patch"
                                   /\ cmds[a].op = "blockwrite"
                                   /\ out[k].src[1] < b

(* A BLOCKWRITE of the binary covers consecutive registers: each command   *)
(* coalesced into it begins where the one before it ended.                 *)
BlocksContiguous ==
    phase = "done" => \A k \in DOMAIN out : \A m \in 1..(Len(out[k].src) - 1) :
        LET a == cmds[out[k].src[m]]
        IN cmds[out[k].src[m+1]].reg = a.reg + 4 * a.len

(* The sequence count of a PM header is the number of operations between   *)
(* its START and the next END, if no load was open when the export began,  *)
(* no START was buffered between the two, and no padding fell there.  The  *)
(* API refuses a second START, but after an export that failed behind an   *)
(* END it has forgotten that a later load is open.                         *)
Nested(c) == \E a, b \in DOMAIN c :
                 /\ a < b /\ c[a].op = "pm_start" /\ c[b].op = "pm_start"
                 /\ \A e \in a..b : c[e].op # "pm_end"
FirstEnd(c, a, b) == /\ b \in DOMAIN c /\ b > a /\ c[b].op = "pm_end"
                     /\ \A e \in a..(b - 1) : c[e].op # "pm_end"
Before(o, b) == o.src # <<>> /\ o.src[1] < b
Load(s, k, b) == {l \in DOMAIN s : l > k /\ \E m \in l..Len(s) : Before(s[m], b)}
CountRight(s, k, b) ==
    (\A l \in Load(s, k, b) : s[l].src # <<>>) => s[k].count = Cardinality(Load(s, k, b))
PmCountRight ==
    phase = "done" /\ ~entry /\ ~Nested(cmds) =>
        \A k \in DOMAIN out, b \in DOMAIN cmds :
            out[k].op = "pm_start" /\ FirstEnd(cmds, out[k].src[1], b) => CountRight(out, k, b)

(* A failed export leaves no buffer behind.                                *)
NothingLeaked == phase = "failed" => mem = {}

(* Padding up to a page never moves the buffer: it was grown at least to   *)
(* that page before.  The base pointers of both callers depend on it.      *)
PaddingInPlace == phase # "stale"

(* No failure leaks a buffer of an export, and no padding leaves a caller  *)
(* with the address of a buffer that has moved.                            *)
BuffersSafe == NothingLeaked /\ PaddingInPlace

(* The patches moved behind a BLOCKWRITE are whole operations.             *)
PatchesWhole == phase # "torn"

(* Re-serializing changes nothing but NOOPs: the n-th operation that is    *)
(* none is what it was, for every n.                                       *)
Kept(o) == o.op # "noop"
Rank(s, k) == Cardinality({m \in 1..k : Kept(s[m])})
Shape(s) == {[nth |-> Rank(s, k), op |-> s[k].op, src |-> s[k].src, size |-> s[k].size] :
                k \in {m \in DOMAIN s : Kept(s[m])}}
OnlyNoOpsAdded == phase = "reserialized" => Shape(out) = Shape(src)

(* The binary holds the commands of the transaction, or of the binary it   *)
(* was made from: all of them, whole, in their order and at their          *)
(* registers.                                                              *)
ContentKept == OrderKept /\ BlocksContiguous /\ PatchesWhole /\ OnlyNoOpsAdded
==============================================================================
