---------------------------- MODULE ControlCode ----------------------------
(***************************************************************************)
(* The control-code back end (src/src/io_backend/ext/xaie_controlcode.c).  *)
(* Register accesses are not carried out: they are compiled into an        *)
(* assembly text of jobs on pages.  A write becomes a uC-DMA buffer        *)
(* descriptor (BD) and data words in two data sections, issued by a        *)
(* trigger instruction (UC_DMA_WRITE_DES or _SYNC) that names the BD's     *)
(* label.  The assembler puts the BDs and the data a page's triggers need  *)
(* on that page, so the code counts bytes as it goes, opens pages and jobs *)
(* by itself, combines the BDs of consecutive writes behind one trigger,   *)
(* grows a BD when the next register follows, shares equal data of a page, *)
(* and can hold a chain of shim BDs back until something closes it.        *)
(*                                                                         *)
(* The XAie_ControlCodeIO structure is the record inst; its handlers, that *)
(* call one another, are operators on that record.  Its output buffers are *)
(* the fields text, bds and data; while a job is buffered (PCJ,            *)
(* LoadCoresCP) or a label block is written (LoadCores) the fields are     *)
(* those of the context buffer and outer holds the suspended ones.  The    *)
(* block between a LOAD_CORES label and its .endl is an element of blocks. *)
(***************************************************************************)
EXTENDS Integers, SequencesExt

CONSTANTS
    PageSize,     \* the page size the file is opened with (at most 8192)
    ChainMargin,  \* SHIM_BD_CHAIN_PAGE_MARGIN, 64 in the code
    NumShimRegs,  \* SHIM_BD_NUM_REGS, 9 in the code
    Addrs,        \* register offsets of writes, in words
    ShimAddrs,    \* offsets of shim BDs
    ExtAddrs,     \* offsets of external (PL IP) block writes
    Values,       \* register values
    Blocks,       \* payloads of block writes: sequences over Values
    Sets,         \* block sets: the number of words
    Hints,        \* numbers of words of a PREEMPT's hint map
    InstrOps,     \* the plain instructions the client uses
    Calls,        \* the kinds of call the client uses
    Modes,        \* the modes the client may start in
    Fills,        \* numbers of NOPs the first page may already hold
    MaxCalls      \* bound on the number of calls

ASSUME SizesOK ==
    /\ {PageSize, ChainMargin, NumShimRegs, MaxCalls} \subseteq Nat
    /\ ChainMargin < PageSize /\ PageSize <= 8192

VARIABLES
    inst,   \* the XAie_ControlCodeIO instance, output buffers included
    log,    \* history: what the client asked for, in order
    due,    \* history: an address patch whose block write is due, or "none"
    made,   \* history: the kinds of call made so far
    calls   \* number of calls so far
vars == <<inst, log, due, made, calls>>

NoReg   == -1     \* UINT64_MAX in CalculatedNextRegOff
NoPage  == -1     \* XAIE_INVALID_COMBINE_PAGE_ID
NoHash  == -1     \* HASH_INVALID, which is also the word 0xffffffff
NoData  == <<>>   \* HASH_INVALID for blocks: taken for the hash of no block
                  \* (the code compares 32-bit hashes, see ShareBlock)
NoLabel == -1     \* a BD that continues the descriptor list of a label

\* The instructions and their ISA_OPSIZE_*.  START stands for START_JOB, whose
\* END_JOB is charged with it; .eop is a directive, EOF is charged per page.
Plain == [NOP |-> 4, WAIT_TCTS |-> 8, SAVE_TIMESTAMPS |-> 8, REMOTE_BARRIER |-> 8,
          SAVE_REGISTER |-> 12, REL_ACQ_SYNC |-> 12, MASK_WRITE |-> 16,
          MASK_POLL |-> 16, MASK_POLL_EXT |-> 20]
OpBytes == Plain @@ [START |-> 12, START_COND |-> 12, END |-> 0, EOP |-> 0, GROUP |-> 0, PAD |-> 0,
          SYNC |-> 4, DES |-> 8, WAIT_UC_DMA |-> 4, PREEMPT |-> 8, LOAD_CORES |-> 12,
          LOAD_CORES_CP |-> 8, OFFSET_57 |-> 8, OFFSET_SRAM |-> 12, OFFSET_PL |-> 8]
BdBytes == 16
WordBytes == 4
EofBytes == 4
HeadBytes == 16
Framing == OpBytes.START

\* The padding in front of the data section of a page with n bytes of text.
Pad(n) == (16 - (n % 16)) % 16

----------------------------------------------------------------------------
(* Output.                                                                 *)

Emit(s, op, arg) == [s EXCEPT !.text = Append(@, [op |-> op, arg |-> arg])]

\* Charge n bytes of instructions to the page.
Charge(s, n) == [s EXCEPT !.UcPageSize = @ + n, !.UcPageTextSize = @ + n]

EmitOp(s, op, arg) == Charge(Emit(s, op, arg), OpBytes[op])

\* Mutant: the BD is not charged to the page.
AddBdFree(s, bd) ==
    [s EXCEPT !.bds = Append(@, bd @@ [more |-> FALSE]), !.CombineBdPageId = s.PageId]

\* A BD line, charged to the page, and _XAie_MarkBdCombinePage.  The label is
\* the one printed in front of it, or NoLabel.
AddBd(s, bd) ==
    [s EXCEPT !.bds = Append(@, bd @@ [more |-> FALSE]),
              !.UcPageSize = @ + BdBytes, !.CombineBdPageId = s.PageId]

AddLabel(s, kind, num) ==
    [s EXCEPT !.data = Append(@, [kind |-> kind, num |-> num, words |-> <<>>])]

\* Words go to the end of the data section, behind whatever label is last.
AddWords(s, ws) ==
    [s EXCEPT !.data[Len(s.data)].words = @ \o ws,
              !.UcPageSize = @ + WordBytes * Len(ws)]

\* _XAie_ControlCodeSeekAndOverwrite with " 1\n": the last BD continues.
LinkLastBd(s) ==
    IF s.bds = <<>> THEN s ELSE [s EXCEPT !.bds[Len(s.bds)].more = TRUE]

\* Write32 looks for a final "0\n" before it links, and the line BlockSet32
\* prints ends with an empty line.
LinkLastBdW(s) ==
    IF s.bds = <<>> \/ s.bds[Len(s.bds)].kind = "S" THEN s ELSE LinkLastBd(s)

\* _XAie_UpdateDataLengthDmaBd: rewrite the length and the flag of the last BD,
\* found by its commas, unless an empty line ends the search.
SetLastLen(s, n, ext) ==
    IF s.bds = <<>> \/ s.bds[Len(s.bds)].kind = "S" THEN s
    ELSE [s EXCEPT !.bds[Len(s.bds)].len = n, !.bds[Len(s.bds)].ext = ext]

----------------------------------------------------------------------------
(* Chains, jobs and pages.                                                 *)

Async(s) == s.Mode = "async"
WriteOp(s) == IF Async(s) THEN OpBytes.DES ELSE OpBytes.SYNC

Align(s, n) == [s EXCEPT !.DataAligner = Pad(s.UcPageTextSize + n)]

\* Whether n more bytes and the alignment do not fit on the page.
Full(s, n) == s.UcPageSize + n + s.DataAligner > s.PageSizeMax

FlushShimBdChain(s) ==
    IF s.NumShimBDsChained = 0 THEN s
    ELSE [EmitOp(s, "SYNC", s.UcbdLabelNum) EXCEPT
             !.NumShimBDsChained = 0, !.CombineCommands = FALSE,
             !.UcbdLabelNum = @ + 1]

CloseShimBdChain(s, next) ==
    IF s.NumShimBDsChained = 0 THEN s
    ELSE IF ~s.ShimBdChainMarginApplied
            /\ s.UcPageSize + OpBytes.SYNC > s.PageSizeMax
         THEN [s EXCEPT !.ErrorState = TRUE]
         ELSE IF next = 0 THEN FlushShimBdChain(s)
              ELSE Align(FlushShimBdChain(s), next)

\* Mutant: the job is ended and still taken for open.
EndJobKeptOpen(s) ==
    IF s.IsPageOpen /\ s.IsJobOpen
    THEN [Emit(s, "END", 0) EXCEPT !.CombineCommands = FALSE]
    ELSE s

EndJobTail(s) ==
    IF s.IsPageOpen /\ s.IsJobOpen
    THEN [Emit(s, "END", 0) EXCEPT !.IsJobOpen = FALSE, !.CombineCommands = FALSE]
    ELSE s

\* _XAie_EndPage and _XAie_StartNewPage, over the EndJob they call.
EndPageWith(EndJob(_), s) ==
    LET ended(t) == [t EXCEPT !.IsPageOpen = FALSE, !.PageId = @ + 1]
        closed(t) == ended([Emit(t, "EOP", 0) EXCEPT
            !.UcPageSize = 0, !.UcPageTextSize = 0,
            !.UcDmaDataNum = t.CurrentDataBWLabel, !.UcbdDataNum = t.CurrentDataLabel,
            !.CompareLabelUpto = t.CurrentDataBWLabel,
            !.CompareLabelUptoWrite = t.CurrentDataLabel])
        left(t) == IF t.ctx = "CP" THEN ended(t) ELSE closed(t)
    IN CASE ~s.IsPageOpen -> s
         [] s.IsPageOpen /\ s.ctx = "PCJ" ->
              ended([s EXCEPT !.splits = Append(@, [at |-> Len(s.text),
                        text |-> s.UcPageTextSize, total |-> s.UcPageSize])])
         [] OTHER -> left(EndJob(s))

StartNewPageWith(EndJob(_), s) ==
    LET framing == IF s.ctx = "PCJ" THEN Framing ELSE 0
        fresh(t) == [t EXCEPT
          !.UcPageTextSize = EofBytes + framing,
          !.UcPageSize = HeadBytes + EofBytes + framing,
          !.CombineCommands = FALSE, !.CalculatedNextRegOff = NoReg,
          !.PrevMemWriteType = "none", !.CombinedMemWriteSize = 0,
          !.IsAdjacentMemWrite = FALSE, !.CombineBdPageId = NoPage,
          !.CompareLabelUpto = t.CurrentDataBWLabel,
          !.CompareLabelUptoWrite = t.CurrentDataLabel,
          !.IsPageOpen = TRUE, !.LabelMatchFound = FALSE]
    IN fresh(EndPageWith(EndJob, s))

\* _XAie_StartNewJob for START_JOB, over the EndJob it calls.
StartNewJobWith(EndJob(_), s) ==
    LET paged(t) == IF t.IsPageOpen THEN t ELSE StartNewPageWith(EndJob, t)
        buffered(t) == [Align(t, 0) EXCEPT !.IsJobOpen = TRUE, !.CombineCommands = FALSE]
        room(t) == IF t.UcPageSize + Framing + t.DataAligner >= t.PageSizeMax
                   THEN StartNewPageWith(EndJob, t) ELSE t
        alone(t) == IF t.IsJobOpen THEN EndJob(t) ELSE t
        start(t) == [EmitOp(t, "START", t.UcJobNum) EXCEPT
                        !.UcJobNum = @ + 1, !.IsJobOpen = TRUE, !.CombineCommands = FALSE]
        opened(t) == IF t.ctx \in {"CP", "PCJ"} THEN buffered(t)
                     ELSE start(alone(room(Align(t, Framing))))
    IN opened(paged(s))

\* _XAie_EndJob of a state without a pending asynchronous wait.
EndSettledJob(s) ==
    IF s.ctx = "CP"
    THEN IF s.IsPageOpen /\ s.IsJobOpen
         THEN [s EXCEPT !.IsJobOpen = FALSE, !.CombineCommands = FALSE] ELSE s
    ELSE EndJobTail(CloseShimBdChain(s, 0))

\* The first half of _XAie_EndJob: the pending WAIT_UC_DMA, on a fresh page if
\* there is no room for it, or else the trigger of an open chain.
SettleJob(s) ==
    LET settled == [s EXCEPT !.PendingAsyncDmaWait = FALSE]
        moved == StartNewJobWith(EndSettledJob, StartNewPageWith(EndSettledJob, settled))
        wait(t) == EmitOp(t, "WAIT_UC_DMA", 0)
    IN IF Async(s) /\ s.PendingAsyncDmaWait
       THEN wait(IF s.UcPageSize + OpBytes.WAIT_UC_DMA > s.PageSizeMax
                 THEN moved ELSE settled)
       ELSE CloseShimBdChain(s, 0)

\* _XAie_EndJob, _XAie_EndPage, _XAie_StartNewPage and _XAie_StartNewJob while
\* no conditional job is being ended.
EndOpenJob(s) == IF s.ctx = "CP" THEN EndSettledJob(s) ELSE EndJobTail(SettleJob(s))
EndPage(s) == EndPageWith(EndOpenJob, s)
StartNewPage(s) == StartNewPageWith(EndOpenJob, s)
StartNewJob(s) == StartNewJobWith(EndOpenJob, s)
FreshPageAndJob(s) == StartNewJob(StartNewPage(s))
InJob(s) == IF s.IsJobOpen THEN s ELSE StartNewJob(s)
WithRoom(s, n) == IF Full(s, n) THEN FreshPageAndJob(s) ELSE s

----------------------------------------------------------------------------
(* Writes.                                                                 *)

Isolate(s, ext) ==
    IF s.IsExtGroup = ext THEN s
    ELSE [CloseShimBdChain(s, 0) EXCEPT
             !.CombineCommands = FALSE, !.IsAdjacentMemWrite = FALSE, !.IsExtGroup = ext]

DropStale(s) ==
    [s EXCEPT !.IsAdjacentMemWrite = @ /\ s.CombineBdPageId = s.PageId]

AlignWrite(s) == Align(s, IF s.IsAdjacentMemWrite THEN 0 ELSE WriteOp(s))

\* The labels of this page whose hash is h, the last one first in the code.
Newest(labels) == CHOOSE n \in labels : \A m \in labels : m <= n

\* Mutant: a DES owes no wait.
TriggerOnly(s) ==
    EmitOp([s EXCEPT !.CombineCommands = TRUE, !.UcbdLabelNum = @ + 1],
           IF Async(s) THEN "DES" ELSE "SYNC", s.UcbdLabelNum)

\* The trigger of a new descriptor list.
Trigger(s) ==
    EmitOp([s EXCEPT !.PendingAsyncDmaWait = @ \/ Async(s), !.CombineCommands = TRUE,
                     !.UcbdLabelNum = @ + 1],
           IF Async(s) THEN "DES" ELSE "SYNC", s.UcbdLabelNum)

\* The hash of a label whose data grew.
SpoilHash(s, sizeBW) ==
    IF s.PrevMemWriteType = "block"
    THEN [s EXCEPT !.BWDataSizes = (s.CurrentDataBWLabel - 1 :> sizeBW) @@ @,
                   !.HashBW = (s.CurrentDataBWLabel - 1 :> NoData) @@ @]
    ELSE [s EXCEPT !.HashW = (s.CurrentDataLabel - 1 :> NoHash) @@ @]

HashWAt(s, n) == IF n \in DOMAIN s.HashW THEN s.HashW[n] ELSE 0
BWSizeAt(s, n) == IF n \in DOMAIN s.BWDataSizes THEN s.BWDataSizes[n] ELSE 0

GrowByWord(s) ==
    IF ~s.IsAdjacentMemWrite THEN s
    ELSE IF Full(s, WordBytes)
         THEN [FreshPageAndJob(s) EXCEPT !.IsAdjacentMemWrite = FALSE]
         ELSE SpoilHash(SetLastLen(s, s.CombinedMemWriteSize + 1, FALSE),
                        BWSizeAt(s, s.CurrentDataBWLabel - 1) + 1)

ShareWord(s, v) ==
    LET same == {n \in s.CompareLabelUptoWrite .. (s.CurrentDataLabel - 1) : HashWAt(s, n) = v}
    IN IF same = {} THEN [s EXCEPT !.HashW = (s.CurrentDataLabel :> v) @@ @]
       ELSE [s EXCEPT !.UcbdDataNum = Newest(same), !.LabelMatchFound = TRUE]

\* The BD of a word, behind the last one or behind a trigger of its own.
WordBd(s, a) ==
    LET room == OpBytes.DES + OpBytes.WAIT_UC_DMA + BdBytes + WordBytes
        bd(t, label) == AddBd(t, [label |-> label, addr |-> a, ext |-> FALSE,
                                  kind |-> "W", num |-> t.UcbdDataNum, len |-> 1])
        own(t) == bd(Trigger(t), t.UcbdLabelNum)
    IN IF s.CombineCommands THEN bd(LinkLastBdW(s), NoLabel)
       ELSE own(IF Async(s) THEN WithRoom(s, room) ELSE s)

NewWordLabel(s) ==
    LET t == [s EXCEPT !.UcbdDataNum = s.CurrentDataLabel, !.PrevMemWriteType = "word"]
    IN IF s.LabelMatchFound THEN t
       ELSE [AddLabel(t, "W", s.CurrentDataLabel) EXCEPT
                !.UcbdDataNum = @ + 1, !.CurrentDataLabel = @ + 1]

WordData(s, v) == IF s.LabelMatchFound THEN s ELSE AddWords(s, <<v>>)

WordDone(s, a) ==
    [s EXCEPT !.CombinedMemWriteSize = IF s.LabelMatchFound THEN 0
                  ELSE IF s.IsAdjacentMemWrite THEN @ + 1 ELSE 1,
              !.CalculatedNextRegOff = IF s.LabelMatchFound THEN NoReg ELSE a + 1,
              !.LabelMatchFound = FALSE]

PutWord(s, a, v) ==
    LET own(t) == IF t.IsAdjacentMemWrite THEN t
                  ELSE NewWordLabel(WordBd(ShareWord(WithRoom(t,
                           WriteOp(t) + BdBytes + WordBytes), v), a))
    IN WordDone(WordData(own(GrowByWord(s)), v), a)

FollowsLast(s, a) == a = s.CalculatedNextRegOff /\ s.PrevMemWriteType # "none"

DoWrite32(s, a, v) ==
    LET put(t) == IF t.ErrorState THEN t
                  ELSE PutWord(InJob(AlignWrite(DropStale(t))), a, v)
    IN put(Isolate([s EXCEPT !.IsAdjacentMemWrite = FollowsLast(s, a)], FALSE))

(* A block write is emitted in rounds, one per page it reaches.  A round is
   [s, at, pay, reg, broke, end]: the instance, the words done, the remaining
   payload and the register of the last round, whether a page break occurred,
   and whether the loop was left. *)

\* The words of d from at on that fit behind the text of the page.
Fitting(s, at, d) ==
    LET room == s.PageSizeMax - s.UcPageSize - s.DataAligner
    IN Min({Len(d) - at, IF room < 0 THEN 0 ELSE room \div WordBytes})

\* A label of this page with the data of d shares it.  The code compares the
\* number of words and a 32-bit hash; blocks of one length whose hashes collide,
\* and one whose hash is HASH_INVALID, are left out: the hash is the block here.
ShareBlock(s, ext, d) ==
    LET same == {n \in s.CompareLabelUpto .. (s.CurrentDataBWLabel - 1) :
                    BWSizeAt(s, n) = Len(d) /\ s.HashBW[n] = d}
        own == [s EXCEPT !.UcDmaDataNum = s.CurrentDataBWLabel]
    IN IF s.IsShimBd \/ ext THEN own
       ELSE IF same = {} THEN s
       ELSE [s EXCEPT !.UcDmaDataNum = Newest(same), !.LabelMatchFound = TRUE]

\* The place of the next BD in the descriptor lists: behind the last BD, or
\* labelled, and triggered at once unless it joins a chain of shim BDs.
BlockPlace(s) ==
    LET t == IF s.IsShimBd /\ s.NumShimBDsChained = 0
             THEN [s EXCEPT !.CombineCommands = FALSE] ELSE s
        chains == t.Mode = "chain" /\ t.IsShimBd
        label == IF t.CombineCommands \/ t.NumShimBDsChained > 0
                 THEN NoLabel ELSE t.UcbdLabelNum
        placed == IF t.CombineCommands THEN LinkLastBd(t)
                  ELSE IF chains THEN t ELSE Trigger(t)
        shim == IF ~t.IsShimBd THEN placed
                ELSE IF chains
                THEN [placed EXCEPT !.CombineCommands = TRUE, !.NumShimBDsChained = @ + 1]
                ELSE [placed EXCEPT !.CombineCommands = FALSE]
    IN [s |-> [shim EXCEPT !.PageBreak = FALSE], label |-> label]

BlockBd(s, label, ext, a, len) ==
    AddBd(s, [label |-> label, addr |-> a, ext |-> ext, kind |-> "B",
              num |-> s.UcDmaDataNum, len |-> len])

SharedBlock(r, p, ext, a, d) ==
    [r EXCEPT !.s = [BlockBd(p.s, p.label, ext, a, Len(d)) EXCEPT
                        !.UcDmaDataNum = p.s.CurrentDataBWLabel],
              !.end = TRUE]

\* The words of a round, n of them, and what it records about them.
RoundOver(r, s, n, a, d) ==
    [r EXCEPT !.s = [s EXCEPT !.PageBreak = @ \/ r.at + n < Len(d)],
              !.at = @ + n, !.pay = Len(d) - r.at, !.reg = a + r.at,
              !.broke = @ \/ r.at + n < Len(d),
              !.end = r.at + n = Len(d)]

GrowByBlock(r, s0, ext, a, d) ==
    LET s == Align(s0, 0)
        n == Fitting(s, r.at, d)
        len == s.CombinedMemWriteSize + n
        grown == SpoilHash(SetLastLen(AddWords(s, SubSeq(d, 1, n)), len, ext), len)
    IN RoundOver(r, grown, n, a, d)

OwnBlock(r, p, ext, a, d) ==
    LET s == Align(AddLabel(p.s, "B", p.s.UcDmaDataNum), 0)
        n == Fitting([s EXCEPT !.UcPageSize = @ + BdBytes], r.at, d)
        part == SubSeq(d, r.at + 1, r.at + n)
        filled == BlockBd(AddWords(s, part), p.label, ext, a + r.at, n)
        noted == [filled EXCEPT
                     !.HashBW = (s.CurrentDataBWLabel :> part) @@ @,
                     !.BWDataSizes = (s.CurrentDataBWLabel :> n) @@ @,
                     !.UcDmaDataNum = @ + 1, !.CurrentDataBWLabel = s.UcDmaDataNum + 1,
                     !.PrevMemWriteType = "block"]
    IN RoundOver(r, noted, n, a, d)

\* What comes before the words: job, isolation, alignment and room.
BlockAdjacency(s, ext, a) ==
    Isolate([s EXCEPT !.IsAdjacentMemWrite = FollowsLast(s, a) /\ ~s.PageBreak], ext)

BlockRoom(s) ==
    LET aligned == IF s.PageBreak THEN s ELSE AlignWrite(s)
        word(t) == IF ~t.IsAdjacentMemWrite THEN t
                   ELSE [WithRoom(t, WordBytes) EXCEPT
                            !.IsAdjacentMemWrite = @ /\ ~t.IsShimBd]
        wait == IF Async(s) THEN OpBytes.WAIT_UC_DMA ELSE 0
        own(t) == IF t.IsAdjacentMemWrite THEN t
                  ELSE WithRoom(t, WriteOp(t) + wait + BdBytes + WordBytes)
    IN own(word(aligned))

RoundWith(r, s, ext, a, d) ==
    LET placed(p) == IF p.s.LabelMatchFound THEN SharedBlock(r, p, ext, a, d)
                     ELSE OwnBlock(r, p, ext, a, d)
    IN IF s.ErrorState THEN [r EXCEPT !.s = s, !.end = TRUE]
       ELSE IF s.IsAdjacentMemWrite THEN GrowByBlock(r, s, ext, a, d)
       ELSE placed(BlockPlace(ShareBlock(s, ext, d)))

BlockRound(r, ext, a, d) ==
    LET ready(s) == IF s.ErrorState THEN s ELSE BlockRoom(DropStale(s))
    IN IF r.end THEN r
       ELSE RoundWith(r, ready(BlockAdjacency(InJob(r.s), ext, a)), ext, a, d)

BlockDone(r, a, d) ==
    LET s == r.s
    IN IF s.ErrorState THEN s
       ELSE [s EXCEPT
               !.CombinedMemWriteSize = IF s.LabelMatchFound THEN 0
                   ELSE IF r.broke THEN r.pay
                   ELSE IF s.IsAdjacentMemWrite THEN @ + Len(d) ELSE Len(d),
               !.CalculatedNextRegOff = IF s.LabelMatchFound THEN NoReg
                   ELSE IF r.broke THEN r.reg + r.pay ELSE a + Len(d),
               !.LabelMatchFound = FALSE]

DoBlockWrite32(s, ext, a, d) ==
    LET round(r, i) == BlockRound(r, ext, a, d)
        start == [s |-> s, at |-> 0, pay |-> 0, reg |-> 0, broke |-> FALSE, end |-> FALSE]
    IN BlockDone(FoldLeft(round, start, [i \in 1..(Len(d) + 1) |-> i]), a, d)

\* _XAie_ControlCodeIO_RunOp of XAIE_BACKEND_OP_CONFIG_SHIMDMABD.
DoConfigShimBd(s, a, d) ==
    [DoBlockWrite32([s EXCEPT !.IsShimBd = TRUE], FALSE, a, d) EXCEPT !.IsShimBd = FALSE]

SetRound(r, a, v, n) ==
    LET job(t) == WithRoom(Align(t, OpBytes.SYNC), OpBytes.SYNC + BdBytes + WordBytes)
        trigger(t) == EmitOp([t EXCEPT !.CombineCommands = TRUE, !.UcbdLabelNum = @ + 1],
                             "SYNC", t.UcbdLabelNum)
        linked(t) == IF t.CombineCommands THEN LinkLastBd(t) ELSE trigger(t)
        label(t) == IF t.CombineCommands THEN NoLabel ELSE t.UcbdLabelNum
        data(t, m) == AddWords(AddLabel(t, "B", t.UcDmaDataNum), [i \in 1..m |-> v])
        bd(t, l, m) == AddBd(data(t, m), [label |-> l, addr |-> a + r.at, ext |-> FALSE,
                                 kind |-> "S", num |-> t.UcDmaDataNum, len |-> m])
        words(t) == Fitting([t EXCEPT !.UcPageSize = @ + BdBytes], r.at, [i \in 1..n |-> v])
        filled(t, l, m) == [s |-> [bd(t, l, m) EXCEPT !.UcDmaDataNum = @ + 1],
                            at |-> r.at + m]
        round(t) == filled(Align(linked(t), 0), label(t), words(Align(linked(t), 0)))
    IN IF r.at = n THEN r ELSE round(job(InJob(r.s)))

DoBlockSet32(s, a, v, n) ==
    LET round(r, i) == SetRound(r, a, v, n)
    IN FoldLeft(round, [s |-> s, at |-> 0], [i \in 1..n |-> i]).s

----------------------------------------------------------------------------
(* Instructions, address patches and directives.                           *)

\* Mutant: an instruction leaves an open chain open.
PlainlyInChain(s, op) ==
    [EmitOp(WithRoom(InJob(Align(s, OpBytes[op])), OpBytes[op]), op, 0)
        EXCEPT !.CombineCommands = FALSE]

\* The handlers of the plain instructions: align, open a job, close the chain,
\* make room, emit.  The register they work on is left out.
Plainly(s, op) ==
    LET n == OpBytes[op]
        closed(t) == CloseShimBdChain(t, n)
        put(t) == IF t.ErrorState THEN t
                  ELSE [EmitOp(WithRoom(t, n), op, 0) EXCEPT !.CombineCommands = FALSE]
    IN put(closed(InJob(Align(s, n))))

MaskWrite32(s) == Plainly(s, "MASK_WRITE")
MaskPoll(s) == Plainly(s, "MASK_POLL")
MaskPoll_Ext(s) == Plainly(s, "MASK_POLL_EXT")
WaitTaskCompleteToken(s) == Plainly(s, "WAIT_TCTS")
SaveTimestamp(s) == Plainly(s, "SAVE_TIMESTAMPS")
Nop(s) == Plainly(s, "NOP")
RemoteBarrier(s) == Plainly(s, "REMOTE_BARRIER")
SaveRegister(s) == Plainly(s, "SAVE_REGISTER")
RelAcqSync(s) == Plainly(s, "REL_ACQ_SYNC")

DoInstr(s, op) ==
    CASE op = "MASK_WRITE" -> MaskWrite32(s)
      [] op = "MASK_POLL" -> MaskPoll(s)
      [] op = "MASK_POLL_EXT" -> MaskPoll_Ext(s)
      [] op = "WAIT_TCTS" -> WaitTaskCompleteToken(s)
      [] op = "SAVE_TIMESTAMPS" -> SaveTimestamp(s)
      [] op = "NOP" -> Nop(s)
      [] op = "REMOTE_BARRIER" -> RemoteBarrier(s)
      [] op = "SAVE_REGISTER" -> SaveRegister(s)
      [] op = "REL_ACQ_SYNC" -> RelAcqSync(s)

DoWaitUcDMA(s) ==
    LET n == OpBytes.WAIT_UC_DMA
        put(t) == IF t.ErrorState \/ Full(t, n) THEN t
                  ELSE [EmitOp(t, "WAIT_UC_DMA", 0) EXCEPT !.PendingAsyncDmaWait = FALSE]
    IN put(CloseShimBdChain(Align(s, n), n))

\* The bytes of the write that follows an address patch.
PatchedWrite(s) == WriteOp(s) + IF Async(s) THEN OpBytes.WAIT_UC_DMA ELSE 0

DoAddressPatching(s) ==
    LET n == OpBytes.OFFSET_57 + PatchedWrite(s)
        table == OpBytes.OFFSET_SRAM + BdBytes + WordBytes * NumShimRegs
        put(t) == EmitOp(t, "OFFSET_57", t.UcDmaDataNum)
    IN put(WithRoom(InJob(Align(s, n)), n + table))

DoAddressPatchingPL(s, words) ==
    LET n == OpBytes.OFFSET_PL + PatchedWrite(s)
        rest == PatchedWrite(s) + OpBytes.MASK_POLL_EXT
        data == BdBytes + WordBytes * words + BdBytes + WordBytes
        put(t) == EmitOp(t, "OFFSET_PL", t.UcDmaDataNum)
    IN put(WithRoom(InJob(Align(s, n)), n + rest + data))

DoAddressPatchingSRAM(s) ==
    LET put(t) == [EmitOp(t, "OFFSET_SRAM", s.UcDmaDataNum) EXCEPT !.CombineCommands = FALSE]
    IN put(InJob(Align(s, OpBytes.OFFSET_SRAM)))

DoAttachToGroup(s) ==
    LET put(t) == IF t.ErrorState THEN t
                  ELSE [Emit(t, "GROUP", 0) EXCEPT !.CombineCommands = FALSE]
    IN put(CloseShimBdChain(s, 0))

DoSetPad(s) == [Emit(s, "PAD", 0) EXCEPT !.CombineCommands = FALSE]

DoSplitWriteGroup(s) ==
    LET split(t) == IF t.ErrorState THEN t ELSE
            [t EXCEPT !.CombinedMemWriteSize = 0, !.CalculatedNextRegOff = NoReg,
                      !.PrevMemWriteType = "none", !.CombineCommands = FALSE,
                      !.IsShimBd = FALSE, !.IsExtGroup = FALSE,
                      !.IsAdjacentMemWrite = FALSE, !.CombineBdPageId = NoPage,
                      !.LabelMatchFound = FALSE]
    IN split(CloseShimBdChain(s, 0))

DoConfigMode(s, mode) ==
    LET hold(t) ==
            IF mode = "chain" /\ ~t.ShimBdChainMarginApplied
            THEN [t EXCEPT !.PageSizeMax = @ - ChainMargin, !.ShimBdChainMarginApplied = TRUE]
            ELSE IF mode # "chain" /\ t.ShimBdChainMarginApplied
            THEN [t EXCEPT !.PageSizeMax = @ + ChainMargin, !.ShimBdChainMarginApplied = FALSE]
            ELSE t
        set(t) == IF mode # "chain" THEN [t EXCEPT !.Mode = mode]
                  ELSE [t EXCEPT !.Mode = mode, !.CombineCommands = FALSE,
                                 !.NumShimBDsChained = 0]
        refused(t) == t.ErrorState \/ (mode = "chain" /\ ~t.ShimBdChainMarginApplied
                                         /\ t.PageSizeMax <= ChainMargin)
        config(t) == IF refused(t) THEN t ELSE set(hold(t))
    IN config(CloseShimBdChain(s, 0))

----------------------------------------------------------------------------
(* Conditional jobs and LOAD_CORES.                                        *)

GlobalLabels == {"UcbdLabelNum", "UcbdDataNum", "UcDmaDataNum", "HintMapId",
                 "CurrentDataLabel", "CurrentDataBWLabel",
                 "CompareLabelUpto", "CompareLabelUptoWrite"}

\* What _XAie_SavePageState saves: all but the margin and its page size, the
\* wait a DES still owes, the label map and the buffers.
SavedFields == GlobalLabels \cup
    {"UcPageSize", "UcPageTextSize", "DataAligner", "UcJobNum", "NumShimBDsChained",
     "CombinedMemWriteSize", "PageId", "CombineBdPageId", "CalculatedNextRegOff",
     "PrevMemWriteType", "CombineCommands", "IsJobOpen", "IsPageOpen", "IsShimBd",
     "IsExtGroup", "Mode", "IsAdjacentMemWrite", "PageBreak", "LabelMatchFound"}

SavePageState(s) == [f \in SavedFields |-> s[f]]
RestorePageState(s) == s.saved @@ s
RestorePreservingGlobalLabels(s) ==
    [f \in SavedFields \ GlobalLabels |-> s.saved[f]] @@ s

\* The reset that starts a buffered job or a label block.
Cleared(s) ==
    [s EXCEPT !.DataAligner = 0, !.NumShimBDsChained = 0, !.CombinedMemWriteSize = 0,
              !.CalculatedNextRegOff = 0, !.PrevMemWriteType = "none",
              !.CombineCommands = FALSE, !.IsShimBd = FALSE, !.IsExtGroup = FALSE,
              !.Mode = "plain", !.IsAdjacentMemWrite = FALSE, !.CombineBdPageId = NoPage,
              !.PageBreak = FALSE, !.LabelMatchFound = FALSE]

Suspend(s, ctx) == [s EXCEPT !.ctx = ctx, !.saved = SavePageState(s),
                             !.outer = [text |-> s.text], !.text = <<>>]

\* _XAie_StartNewJob for START_COND_JOB_PREEMPT.
StartCondJob(s) ==
    LET ended(t) == IF t.IsJobOpen THEN EndOpenJob(t) ELSE t
        buffer(t) == [Cleared(Suspend(t, "PCJ")) EXCEPT
                         !.UcPageTextSize = EofBytes + Framing,
                         !.UcPageSize = HeadBytes + EofBytes + Framing,
                         !.splits = <<>>, !.IsJobOpen = TRUE, !.IsPageOpen = TRUE]
    IN IF s.ctx # "none" THEN [s EXCEPT !.ErrorState = TRUE] ELSE buffer(ended(s))

\* One slice of the buffered job: its instructions and their sizes.
EmitSlice(s, slice) ==
    LET aligned(t) == Align(t, Framing + slice.textSize)
        crowded(t) == Full(t, Framing + slice.size)
        placed(t) == IF slice.first /\ t.IsPageOpen /\ ~crowded(t) THEN t
                     ELSE aligned(StartNewPage(t))
        alone(t) == IF t.IsJobOpen THEN EndOpenJob(t) ELSE t
        start(t) == [EmitOp(t, "START_COND", t.UcJobNum) EXCEPT !.UcJobNum = @ + 1]
        body(t) == [t EXCEPT !.text = @ \o slice.text,
                       !.UcPageTextSize = @ + slice.textSize, !.UcPageSize = @ + slice.size]
        end(t) == [Emit(t, "END", 0) EXCEPT !.IsJobOpen = FALSE, !.CombineCommands = FALSE]
    IN IF ~slice.first /\ slice.text = <<>> THEN s
       ELSE end(body(start(alone(placed(aligned(s))))))

\* _XAie_EmitBufferedCondJobPreempt.
Slices(s) ==
    LET cuts == s.splits \o <<[at |-> Len(s.text), text |-> s.UcPageTextSize,
                               total |-> s.UcPageSize]>>
        less(n, overhead) == IF n > overhead THEN n - overhead ELSE 0
    IN [i \in 1..Len(cuts) |->
          [first |-> i = 1,
           text |-> SubSeq(s.text, IF i = 1 THEN 1 ELSE cuts[i-1].at + 1, cuts[i].at),
           textSize |-> less(cuts[i].text, EofBytes + Framing),
           size |-> less(cuts[i].total, HeadBytes + EofBytes + Framing)]]

EmitBufferedCondJob(s) ==
    LET back(t) == [RestorePreservingGlobalLabels(t) EXCEPT
                       !.ctx = "none", !.text = t.outer.text, !.splits = <<>>]
    IN FoldLeft(EmitSlice, back(s), Slices(s))

EndJob(s) == IF s.ctx = "PCJ" THEN EmitBufferedCondJob(SettleJob(s)) ELSE EndOpenJob(s)

DoPreempt(s, hint) ==
    LET n == OpBytes.PREEMPT + WordBytes * hint
        room(t) == IF Full(t, n) THEN StartNewPage(t) ELSE t
        hinted(t) == IF hint = 0 THEN t
                     ELSE [AddWords(AddLabel(t, "H", t.HintMapId), [i \in 1..hint |-> 0])
                              EXCEPT !.HintMapId = @ + 1]
        put(t) == [hinted(Emit(t, "PREEMPT", t.HintMapId)) EXCEPT
                      !.UcPageSize = @ + OpBytes.PREEMPT]
        done(t) == [t EXCEPT !.CombineCommands = FALSE,
                             !.UcPageTextSize = @ + OpBytes.PREEMPT]
    IN done(EndJob(put(StartNewJob(room(Align(s, OpBytes.PREEMPT))))))

CPStart(s) ==
    LET buffer(t) == [Cleared(Suspend(t, "CP")) EXCEPT
                         !.UcPageSize = 0, !.UcPageTextSize = 0, !.UcJobNum = 0,
                         !.IsJobOpen = TRUE, !.IsPageOpen = TRUE]
        start(t) == IF t.ErrorState THEN t ELSE buffer(t)
    IN start(CloseShimBdChain(s, 0))

CPRefused(s) == s.ErrorState \/ s.PageId # s.saved.PageId

CPEnd(s) ==
    LET back == [RestorePreservingGlobalLabels(s) EXCEPT !.ctx = "none", !.text = s.outer.text]
        textSize == Framing + OpBytes.LOAD_CORES_CP + s.UcPageTextSize
        size == Framing + OpBytes.LOAD_CORES_CP + s.UcPageSize
        room(t) == IF Full(t, size) THEN StartNewPage(t) ELSE t
        alone(t) == IF t.IsJobOpen THEN EndOpenJob(t) ELSE t
        paged(t) == IF t.IsPageOpen THEN t ELSE StartNewPage(t)
        start(t) == [EmitOp(t, "START", t.UcJobNum) EXCEPT
                        !.UcJobNum = @ + 1, !.IsJobOpen = TRUE]
        body(t) == [EmitOp(t, "LOAD_CORES_CP", 0) EXCEPT
                       !.text = @ \o s.text, !.UcPageSize = @ + s.UcPageSize,
                       !.UcPageTextSize = @ + s.UcPageTextSize]
    IN IF CPRefused(s) THEN back
       ELSE EndOpenJob(body(start(paged(alone(room(Align(back, textSize)))))))

\* The label block of a core image that is loaded for the first time.
LabelBlock(s) ==
    LET into(t) == [t EXCEPT !.ctx = "LC", !.saved = SavePageState(t), !.text = <<>>,
                             !.outer = [text |-> t.text, bds |-> t.bds, data |-> t.data],
                             !.bds = <<>>, !.data = <<>>]
    IN [Cleared(EndPage(into(s))) EXCEPT !.UcJobNum = 0, !.PageId = 0, !.HintMapId = 0]

LoadCoresStart(s, id) ==
    LET n == Framing + OpBytes.LOAD_CORES
        room(t) == IF Full(t, n) THEN StartNewPage(t) ELSE t
        loaded(t) == EndOpenJob(EmitOp(t, "LOAD_CORES", id))
        active(t) == IF id \in t.loaded THEN [t EXCEPT !.ctx = "reused"]
                     ELSE [LabelBlock(t) EXCEPT !.loaded = @ \cup {id}]
    IN active(loaded(StartNewJob(room(Align(s, n)))))

LoadCoresEnd(s) ==
    LET back(t) == IF t.ctx = "reused" THEN t ELSE t.outer @@ RestorePageState(t)
        block(t) == [text |-> t.text, bds |-> t.bds, data |-> t.data]
        left(t) == [back(t) EXCEPT !.ctx = "none",
                       !.blocks = IF t.ctx = "reused" THEN @ ELSE Append(@, block(t))]
    IN left(EndPage(EndOpenJob(s)))

----------------------------------------------------------------------------
(* The client.                                                             *)

\* XAie_OpenControlCodeFile, and the client that has set a mode and issued n NOPs.
Opened ==
    [UcPageSize |-> HeadBytes + EofBytes, UcPageTextSize |-> EofBytes, DataAligner |-> 0,
     UcbdLabelNum |-> 0, UcbdDataNum |-> 0, UcDmaDataNum |-> 0, UcJobNum |-> 0,
     NumShimBDsChained |-> 0, CombinedMemWriteSize |-> 0, PageId |-> 0,
     CombineBdPageId |-> NoPage, CurrentDataLabel |-> 0, CurrentDataBWLabel |-> 0,
     HintMapId |-> 0, CalculatedNextRegOff |-> 0, CompareLabelUpto |-> 0,
     CompareLabelUptoWrite |-> 0, PrevMemWriteType |-> "none",
     CombineCommands |-> FALSE, IsJobOpen |-> FALSE, IsPageOpen |-> TRUE,
     IsShimBd |-> FALSE, IsExtGroup |-> FALSE, Mode |-> "plain",
     IsAdjacentMemWrite |-> FALSE, PageBreak |-> FALSE, LabelMatchFound |-> FALSE,
     PendingAsyncDmaWait |-> FALSE, ShimBdChainMarginApplied |-> FALSE,
     PageSizeMax |-> PageSize, ErrorState |-> FALSE,
     HashW |-> <<>>, HashBW |-> <<>>, BWDataSizes |-> <<>>,
     text |-> <<>>, bds |-> <<>>, data |-> <<>>, blocks |-> <<>>, loaded |-> {},
     ctx |-> "none", saved |-> <<>>, outer |-> <<>>, splits |-> <<>>]

Filled(n, mode) ==
    LET nop(s, i) == Nop(s)
    IN FoldLeft(nop, DoConfigMode(Opened, mode), [i \in 1..n |-> i])

Words(a, ext, d) == [i \in 1..Len(d) |-> [addr |-> a + i - 1, ext |-> ext, val |-> d[i]]]
Entry(op) == [op |-> op]

Init ==
    /\ \E n \in Fills, mode \in Modes : /\ inst = Filled(n, mode)
                                         /\ log = [i \in 1..n |-> Entry("NOP")]
    /\ due = "none"
    /\ made = {}
    /\ calls = 0

\* A call the client makes, until an error.
Can(call) ==
    /\ call \in Calls
    /\ calls < MaxCalls
    /\ ~inst.ErrorState
    /\ made' = made \cup {call}
    /\ calls' = calls + 1

\* While a patch waits for its block write only that write is made, and none but
\* LoadCoresEnd while a loaded image is used again.
May(call) ==
    /\ due = "none"
    /\ inst.ctx # "reused"
    /\ Can(call)

Called(s, entries) ==
    /\ inst' = s
    /\ log' = IF s.ErrorState THEN log ELSE log \o entries

Write32(a, v) ==
    /\ May("Write32")
    /\ Called(DoWrite32(inst, a, v), Words(a, FALSE, <<v>>))
    /\ UNCHANGED due

BlockWrite32(a, d) ==
    /\ May("BlockWrite32")
    /\ Called(DoBlockWrite32(inst, FALSE, a, d), Words(a, FALSE, d))
    /\ UNCHANGED due

BlockSet32(a, v, n) ==
    /\ May("BlockSet32")
    /\ Called(DoBlockSet32(inst, a, v, n), Words(a, FALSE, [i \in 1..n |-> v]))
    /\ UNCHANGED due

Instr(op) ==
    /\ May("Instr")
    /\ Called(DoInstr(inst, op), <<Entry(op)>>)
    /\ UNCHANGED due

\* A wait follows a write of the same job.
WaitUcDMA ==
    /\ May("WaitUcDMA")
    /\ inst.IsJobOpen
    /\ Called(DoWaitUcDMA(inst), <<>>)
    /\ UNCHANGED due

AddressPatching ==
    /\ May("AddressPatching")
    /\ Called(DoAddressPatching(inst), <<Entry("OFFSET_57")>>)
    /\ due' = "shim"

AddressPatching_SRAM ==
    /\ due = "shim"
    /\ Can("SRAM")
    /\ Called(DoAddressPatchingSRAM(inst), <<Entry("OFFSET_SRAM")>>)
    /\ due' = "shim2"

AddressPatching_PL(d) ==
    /\ May("AddressPatching_PL")
    /\ Called(DoAddressPatchingPL(inst, Len(d)), <<Entry("OFFSET_PL")>>)
    /\ due' = "ext"

\* The block writes that a patch names the data of; a shim BD needs none.
ConfigShimBd(a, v) ==
    /\ due # "ext" /\ inst.ctx # "reused"
    /\ Can("ConfigShimBd")
    /\ Called(DoConfigShimBd(inst, a, [i \in 1..NumShimRegs |-> v]),
              Words(a, FALSE, [i \in 1..NumShimRegs |-> v]))
    /\ due' = "none"

BlockWrite32_Ext(a, d) ==
    /\ due = "ext"
    /\ Can("AddressPatching_PL")
    /\ Called(DoBlockWrite32(inst, TRUE, a, d), Words(a, TRUE, d))
    /\ due' = "none"

\* The client waits for its asynchronous writes before it leaves their mode: the
\* wait XAie_EndJob adds is only for a job that ends in that mode.
ConfigMode(mode) ==
    /\ May("ConfigMode")
    /\ mode # inst.Mode
    /\ ~inst.PendingAsyncDmaWait
    /\ Called(DoConfigMode(inst, mode), <<>>)
    /\ UNCHANGED due

Directive ==
    /\ May("Directive")
    /\ \E s \in {DoAttachToGroup(inst), DoSplitWriteGroup(inst)} : Called(s, <<>>)
    /\ UNCHANGED due

SetPad ==
    /\ May("SetPad")
    /\ Called(DoSetPad(inst), <<>>)
    /\ UNCHANGED due

Preempt(hint) ==
    /\ May("Preempt")
    /\ Called(DoPreempt(inst, hint), <<Entry("PREEMPT")>>)
    /\ UNCHANGED due

XAie_StartNewJob ==
    /\ May("StartNewJob")
    /\ Called(StartNewJob(inst), <<>>)
    /\ UNCHANGED due

XAie_StartCondJob ==
    /\ May("CondJob")
    /\ inst.ctx = "none"
    /\ Called(StartCondJob(inst), <<>>)
    /\ UNCHANGED due

XAie_EndJob ==
    /\ May("EndJob")
    /\ inst.IsJobOpen
    /\ Called(EndJob(inst), <<>>)
    /\ UNCHANGED due

XAie_EndPage ==
    /\ May("EndPage")
    /\ Called([EndPage(inst) EXCEPT !.PageBreak = TRUE], <<>>)
    /\ UNCHANGED due

\* A refused job is lost with the writes it holds, and the client is told.
LoadCoresCP ==
    /\ May("LoadCoresCP")
    /\ \/ inst.ctx = "none" /\ Called(CPStart(inst), <<Entry("LOAD_CORES_CP")>>)
       \/ inst.ctx = "CP" /\ ~CPRefused(inst) /\ Called(CPEnd(inst), <<>>)
       \/ /\ inst.ctx = "CP" /\ CPRefused(inst)
          /\ inst' = CPEnd(inst)
          /\ log' = SubSeq(log, 1, SelectLastInSeq(log, LAMBDA e : e = Entry("LOAD_CORES_CP")) - 1)
    /\ UNCHANGED due

LoadCores(id) ==
    /\ due = "none"
    /\ Can("LoadCores")
    /\ \/ inst.ctx = "none" /\ Called(LoadCoresStart(inst, id), <<Entry("LOAD_CORES")>>)
       \/ inst.ctx \in {"LC", "reused"} /\ Called(LoadCoresEnd(inst), <<>>)
    /\ UNCHANGED due

Next ==
    \/ \E a \in Addrs, v \in Values : Write32(a, v)
    \/ \E a \in Addrs, d \in Blocks : BlockWrite32(a, d)
    \/ \E a \in ShimAddrs, v \in Values : ConfigShimBd(a, v)
    \/ \E a \in ExtAddrs, d \in Blocks : BlockWrite32_Ext(a, d)
    \/ \E v \in Values, n \in Sets : BlockSet32(Min(Addrs), v, n)
    \/ \E op \in InstrOps : Instr(op)
    \/ \E d \in Blocks : AddressPatching_PL(d)
    \/ \E mode \in {"plain", "async", "chain"} : ConfigMode(mode)
    \/ \E hint \in Hints : Preempt(hint)
    \/ \E id \in {0, 1} : LoadCores(id)
    \/ WaitUcDMA \/ AddressPatching \/ AddressPatching_SRAM \/ Directive \/ SetPad
    \/ XAie_StartNewJob \/ XAie_StartCondJob \/ XAie_EndJob \/ XAie_EndPage \/ LoadCoresCP

Spec == Init /\ [][Next]_vars

----------------------------------------------------------------------------
(* What the assembler and the controller make of the output.               *)

Triggers == {"SYNC", "DES"}
Patches == {"OFFSET_57", "OFFSET_SRAM", "OFFSET_PL"}

\* The BDs of a label: the one behind it and those each links to.
ListOf(s, n) ==
    LET heads == {i \in DOMAIN s.bds : s.bds[i].label = n}
        stops(i) == {j \in i..Len(s.bds) : ~s.bds[j].more}
    IN UNION {i..Min(stops(i) \cup {Len(s.bds)}) : i \in heads}

DataKind(kind) == IF kind = "S" THEN "B" ELSE kind
DataOf(s, bd) == {k \in DOMAIN s.data : /\ s.data[k].kind = DataKind(bd.kind)
                                         /\ s.data[k].num = bd.num}

\* The words a BD moves, if its label is defined once and holds enough.
Moved(s, bd) ==
    LET at == DataOf(s, bd)
        words == s.data[Min(at)].words
    IN IF Cardinality(at) = 1 /\ bd.len <= Len(words)
       THEN Words(bd.addr, bd.ext, SubSeq(words, 1, bd.len)) ELSE <<Entry("garbage")>>

\* part(first) \o ... \o part(last)
Concat(part(_), first, last) ==
    LET upTo[i \in (first - 1)..last] == IF i < first THEN <<>> ELSE upTo[i - 1] \o part(i)
    IN upTo[last]

\* What running the text does, in order.
Effects(s) ==
    LET bd(i) == Moved(s, s.bds[i])
        listed(at) == IF at = {} THEN <<Entry("garbage")>> ELSE Concat(bd, Min(at), Max(at))
        framing == {"START", "START_COND", "END", "EOP", "GROUP", "PAD", "WAIT_UC_DMA"}
        effect(e) == IF e.op \in Triggers THEN listed(ListOf(s, e.arg))
                     ELSE IF e.op \in framing THEN <<>> ELSE <<Entry(e.op)>>
    IN Concat(LAMBDA i : effect(s.text[i]), 1, Len(s.text))

IsWrite(e) == "addr" \in DOMAIN e
OpsIn(eff) == {i \in DOMAIN eff : ~IsWrite(eff[i])}
Rank(ops, i) == Cardinality({j \in ops : j <= i})

\* The op at i of eff is the op at j of asked; i - rank is the number of writes
\* before it.
OpInPlace(eff, asked, i, j, rank) ==
    /\ eff[i] = asked[j]
    /\ IF eff[i].op \in Patches THEN i - rank <= j - rank ELSE i - rank >= j - rank

\* The hash of a word is the word, and HASH_INVALID is one: a write of it (w) is
\* taken to be equal to a label that grew, and writes (e) that label's first word.
TakenForGrown(s, e, w) ==
    /\ w.val = NoHash
    /\ \E k \in DOMAIN s.data : /\ s.data[k].kind = "W" /\ Len(s.data[k].words) > 1
                                /\ e = [w EXCEPT !.val = s.data[k].words[1]]

SameWrites(s, done, asked) ==
    /\ Len(done) = Len(asked)
    /\ \A i \in DOMAIN done : done[i] = asked[i] \/ TakenForGrown(s, done[i], asked[i])

InOrder(s, eff, asked) ==
    /\ SameWrites(s, SelectSeq(eff, IsWrite), SelectSeq(asked, IsWrite))
    /\ Cardinality(OpsIn(eff)) = Cardinality(OpsIn(asked))
    /\ \A i \in OpsIn(eff), j \in OpsIn(asked) :
          Rank(OpsIn(eff), i) = Rank(OpsIn(asked), j)
            => OpInPlace(eff, asked, i, j, Rank(OpsIn(eff), i))

\* The pages of a text: the sets of the indices between one .eop and the next.
Pages(text) ==
    LET ends == {i \in DOMAIN text : text[i].op = "EOP"} \cup {Len(text) + 1}
        start(e) == Max({0} \cup {i \in ends : i < e}) + 1
    IN {start(e)..Min({e, Len(text)}) : e \in ends}

Lists(s, page) == {s.text[i].arg : i \in {j \in page : s.text[j].op \in Triggers}}
Patched(s, page) == {s.text[i].arg : i \in {j \in page : s.text[j].op \in Patches}}
Hinted(s, page) == {s.text[i].arg : i \in {j \in page : s.text[j].op = "PREEMPT"}}

\* What the assembler puts on a page: the BDs its triggers name, their data and
\* the hint maps of its preemption points.
BdsOn(s, page) == UNION {ListOf(s, n) : n \in Lists(s, page)}
DataOfBds(s, on) == UNION {DataOf(s, s.bds[i]) : i \in on}
HintsOn(s, page) ==
    {k \in DOMAIN s.data : s.data[k].kind = "H" /\ s.data[k].num \in Hinted(s, page)}
DataOn(s, page) == DataOfBds(s, BdsOn(s, page))

TextBytes(s, page) ==
    EofBytes + MapThenSumSet(LAMBDA i : OpBytes[s.text[i].op], page)

PageBytes(s, page) ==
    LET words(k) == Len(s.data[k].words)
    IN HeadBytes + TextBytes(s, page) + BdBytes * Cardinality(BdsOn(s, page))
         + WordBytes * MapThenSumSet(words, DataOn(s, page) \cup HintsOn(s, page))

LastPage(text) == CHOOSE page \in Pages(text) : Len(text) \in page \/ page = {}

\* The output, if nothing is buffered, with an open chain closed.
Settled == inst.ctx = "none" /\ ~inst.ErrorState
Out == CloseShimBdChain(inst, 0)

\* Programs without the calls that are not kept apart from what surrounds them:
\* a buffered job may be moved away from data it shares and ends without its
\* wait, a block set prints one label several times, and the pad directive and
\* the SRAM patch leave an open chain open.
Unsettling == {"CondJob", "LoadCoresCP", "LoadCores", "BlockSet32", "SetPad", "SRAM"}
Straight(kinds) == Settled /\ made \cap (kinds \cup Unsettling) = {}

----------------------------------------------------------------------------
(* Properties.                                                             *)

\* Running the text writes exactly the words the client asked for, in the order
\* it asked for them, and no instruction runs before a write asked for earlier,
\* nor an address patch after the write it patches: combining, growing and
\* sharing of BDs, page breaks and chains of shim BDs change none of this.  The
\* words of a hint map may come between a label and the words that grow it.  One
\* write is left out that the code does get wrong, TakenForGrown: after two writes
\* to adjacent registers, Write32 of 0xffffffff shares the data of the first two
\* and writes the value of the first (xaie_controlcode.c:93, 2711, 2738).
IssuedAsRequested ==
    Straight({"Preempt"}) => InOrder(Out, Effects(Out), log)

\* What a page needs is on the page: a list it triggers starts at one label and
\* is triggered once, no data is shared with another page, and an address patch
\* names data of its own page.
SelfContained(s, pages) ==
    /\ \A n \in UNION {Lists(s, page) : page \in pages} :
          /\ Cardinality({i \in DOMAIN s.text : s.text[i].op \in Triggers /\ s.text[i].arg = n}) = 1
          /\ Cardinality({k \in DOMAIN s.bds : s.bds[k].label = n}) = 1
    /\ Cardinality(UNION {DataOn(s, page) : page \in pages})
          = MapThenSumSet(LAMBDA page : Cardinality(DataOn(s, page)), pages)
    /\ \A page \in pages :
          Patched(s, page) \subseteq {s.data[k].num : k \in {j \in DataOn(s, page) : s.data[j].kind = "B"}}
PageSelfContained ==
    Straight({}) /\ due = "none" => SelfContained(Out, Pages(Out.text))

\* No page is larger than the page size of the controller, the trigger that
\* closes an open chain included, and the bytes the code counts for the open
\* page are those the assembler puts on it.  The padding in front of a page's
\* data, up to 12 bytes, is not counted on either side: with it a page can be
\* larger than the page size by as much (xaie_controlcode.c:4263).
Counted(s, page) ==
    s.UcPageTextSize = TextBytes(s, page) /\ s.UcPageSize = PageBytes(s, page)
Fits(s) == \A page \in Pages(s.text) : PageBytes(s, page) <= PageSize
PageFits ==
    Straight({"Preempt"}) =>
        /\ Fits(Out)
        /\ inst.IsPageOpen => Counted(Out, LastPage(Out.text))

\* The controller can load and run every page by itself.
PagesLoadable == PageSelfContained /\ PageFits

\* Jobs are framed (but for the wait a LOAD_CORES_CP job in asynchronous mode
\* leaves behind it): each START has its END, instructions lie inside a job and
\* .eop outside, in the output and in every label block.
Framed(text) ==
    LET starts == {j \in DOMAIN text : text[j].op \in {"START", "START_COND"}}
        ends == {j \in DOMAIN text : text[j].op = "END"}
        inside(i) == Cardinality({j \in starts : j < i}) - Cardinality({j \in ends : j < i})
    IN \A i \in DOMAIN text :
          inside(i) = IF i \in starts \/ text[i].op = "EOP" THEN 0
                      ELSE IF text[i].op \in {"GROUP", "PAD"} THEN inside(i) ELSE 1
JobsFramed ==
    /\ Settled /\ "LoadCoresCP" \notin made => Framed(Out.text)
    /\ \A k \in DOMAIN inst.blocks : Framed(inst.blocks[k].text)

\* Asynchronous writes are done before anything else runs: between a DES and the
\* END of its job there is a WAIT_UC_DMA, or else one is the first instruction
\* after it, on whatever page.
NextOp(text, j) ==
    LET ops == {k \in (j + 1)..Len(text) :
                    text[k].op \notin {"START", "START_COND", "END", "EOP", "GROUP", "PAD"}}
    IN IF ops = {} THEN "" ELSE text[Min(ops)].op
WaitBetween(text, i, j) == \E k \in i..j : text[k].op = "WAIT_UC_DMA"
DoneBefore(text, Late(_)) ==
    \A i, j \in DOMAIN text :
        text[i].op = "DES" /\ text[j].op = "END" /\ i < j => WaitBetween(text, i, j) \/ Late(j)
AsyncWritesWaited ==
    Straight({}) => DoneBefore(Out.text, LAMBDA j : NextOp(Out.text, j) = "WAIT_UC_DMA")

=============================================================================
