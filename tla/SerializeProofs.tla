--------------------------- MODULE SerializeProofs ---------------------------
(***************************************************************************)
(* The layout of serialized transactions, for any commands, any number of  *)
(* them, any formats and sources, and whatever allocation fails.           *)
(***************************************************************************)
EXTENDS Serialize, SequenceTheorems, FiniteSetTheorems, TLAPS

(* The last byte of an UPDATE_REG at this offset is on the page of its first. *)
OnePage(at) == at \div BOUNDARY_16KB = (at + 11) \div BOUNDARY_16KB

RegsWhole(s) == \A k \in DOMAIN s : s[k].op = "update_reg" => s[k].size = 12
RegsOnOnePage(s) == \A k \in DOMAIN s : s[k].op = "update_reg" => OnePage(s[k].at)

(* The sequence t lies end to end from offset a on.                         *)
Follows(t, a) ==
    \A k \in DOMAIN t : t[k].at = IF k = 1 THEN a ELSE t[k - 1].at + t[k - 1].size
EndFrom(t, a) == IF t = <<>> THEN a ELSE t[Len(t)].at + t[Len(t)].size

Building == phase \in {"serialize", "copy"}

(* The buffer holds what was written and has a doubled default size.        *)
Room(n) == n = 4096 \/ n = 8192 \/ n % BOUNDARY_16KB = 0
RoomInv == Building => size <= alloc.txn /\ Room(alloc.txn)

LayoutInv ==
    /\ Building \/ Written => Tiling(out) /\ RegsWhole(out) /\ RegsOnOnePage(out)
    /\ Building => size = EndOf(out)
    /\ Written => size = Aligned(EndOf(out))
    /\ phase \in {"scan", "copy"} => Tiling(src) /\ RegsWhole(src)

CountInv ==
    /\ phase = "serialize" => numOps = Len(out) + (IF bw = NoBlock THEN 0 ELSE 1)
    /\ phase = "copy" \/ Written => numOps = Len(out)
    /\ phase = "scan" => numOps = 0 /\ out = <<>> /\ chunk = 0

(* What a flush moves is no UPDATE_REG.                                     *)
PatchInv ==
    phase = "serialize" =>
        /\ bw = NoBlock => patches = 0
        /\ patches <= Len(out)
        /\ \A k \in DOMAIN out : k > Len(out) - patches => out[k].op # "update_reg"

(* No UPDATE_REG of the chunk will cross a page when it is copied.          *)
ChunkInv ==
    phase = "copy" =>
        /\ chunk < i /\ i <= Len(src) + 1
        /\ \A k \in (i - chunk)..(i - 1) :
              /\ src[k].at >= src[i - chunk].at
              /\ src[k].op = "update_reg" => OnePage(size + src[k].at - src[i - chunk].at)

(* Commands keep room for what a DDR_PATCH is written as.                   *)
CmdInv == \A k \in DOMAIN cmds : cmds[k].op = "ddr_patch" => cmds[k].len >= 16

IInv == /\ TypeOK /\ NothingLeaked /\ PaddingInPlace
        /\ RoomInv /\ LayoutInv /\ CountInv /\ PatchInv /\ ChunkInv /\ CmdInv

----------------------------------------------------------------------------
(* Sequences of operations.                                                 *)

LEMMA FunIsSeq ==
    ASSUME NEW S, NEW n \in Nat, NEW f \in [1..n -> S]
    PROVE  f \in Seq(S) /\ Len(f) = n /\ DOMAIN f = 1..n
BY SeqDef

LEMMA SeqFacts ==
    ASSUME NEW S, NEW s \in Seq(S)
    PROVE  /\ Len(s) \in Nat /\ DOMAIN s = 1..Len(s)
           /\ \A k \in 1..Len(s) : s[k] \in S
           /\ s = <<>> <=> Len(s) = 0
BY EmptySeq, LenProperties, ElementOfSeq

LEMMA TilingFollows ==
    ASSUME NEW s \in Seq(Item)
    PROVE  /\ Tiling(s) <=> Follows(s, TXN_HEADER_SIZE)
           /\ EndOf(s) = EndFrom(s, TXN_HEADER_SIZE)
           /\ EndOf(s) \in Nat
<1>1. Tiling(s) <=> Follows(s, TXN_HEADER_SIZE)
  BY DEF Tiling, Follows
<1>2. EndOf(s) = EndFrom(s, TXN_HEADER_SIZE)
  BY DEF EndOf, EndFrom
<1>3. s # <<>> => s[Len(s)] \in Item
  BY SeqFacts
<1>4. EndOf(s) \in Nat
  BY <1>3 DEF EndOf, Item, TXN_HEADER_SIZE
<1> QED BY <1>1, <1>2, <1>4

(* Appending at the end keeps the tiling.                                   *)
LEMMA AppendLayout ==
    ASSUME NEW s \in Seq(Item), NEW o \in Item, Tiling(s), o.at = EndOf(s)
    PROVE  /\ Append(s, o) \in Seq(Item) /\ Len(Append(s, o)) = Len(s) + 1
           /\ DOMAIN Append(s, o) = 1..(Len(s) + 1)
           /\ \A k \in 1..(Len(s) + 1) : Append(s, o)[k] = IF k <= Len(s) THEN s[k] ELSE o
           /\ Tiling(Append(s, o)) /\ EndOf(Append(s, o)) = o.at + o.size
<1> DEFINE t == Append(s, o)
<1>1. /\ Len(s) \in Nat /\ DOMAIN s = 1..Len(s) /\ (s = <<>> <=> Len(s) = 0)
      /\ t \in Seq(Item) /\ Len(t) = Len(s) + 1 /\ DOMAIN t = 1..(Len(s) + 1)
      /\ \A k \in 1..(Len(s) + 1) : t[k] = IF k <= Len(s) THEN s[k] ELSE o
  BY SeqFacts
<1> HIDE DEF t
<1>2. EndOf(t) = o.at + o.size
  BY <1>1, SeqFacts DEF EndOf
<1>3. ASSUME NEW k \in DOMAIN t
      PROVE  t[k].at = IF k = 1 THEN TXN_HEADER_SIZE ELSE t[k - 1].at + t[k - 1].size
  <2>1. CASE k <= Len(s)
    <3>1. k \in DOMAIN s /\ t[k] = s[k] /\ (k # 1 => t[k - 1] = s[k - 1])
      BY <1>1, <2>1
    <3> QED BY <3>1 DEF Tiling
  <2>2. CASE k = Len(s) + 1
    BY <1>1, <2>2 DEF EndOf
  <2> QED BY <1>1, <2>1, <2>2
<1> QED BY <1>1, <1>2, <1>3 DEF t, Tiling

(* So does appending a sequence that begins there.                          *)
LEMMA ConcatLayout ==
    ASSUME NEW s \in Seq(Item), NEW t \in Seq(Item), Tiling(s), Follows(t, EndOf(s))
    PROVE  /\ s \o t \in Seq(Item) /\ Len(s \o t) = Len(s) + Len(t)
           /\ DOMAIN (s \o t) = 1..(Len(s) + Len(t))
           /\ \A k \in 1..(Len(s) + Len(t)) :
                 (s \o t)[k] = IF k <= Len(s) THEN s[k] ELSE t[k - Len(s)]
           /\ Tiling(s \o t) /\ EndOf(s \o t) = EndFrom(t, EndOf(s))
<1> DEFINE u == s \o t
<1>1. /\ u \in Seq(Item) /\ Len(u) = Len(s) + Len(t)
      /\ \A k \in 1..(Len(s) + Len(t)) : u[k] = IF k <= Len(s) THEN s[k] ELSE t[k - Len(s)]
  BY ConcatProperties
<1>2. /\ Len(s) \in Nat /\ DOMAIN s = 1..Len(s) /\ (s = <<>> <=> Len(s) = 0)
      /\ Len(t) \in Nat /\ DOMAIN t = 1..Len(t) /\ (t = <<>> <=> Len(t) = 0)
  BY SeqFacts
<1> HIDE DEF u
<1>3. DOMAIN u = 1..(Len(s) + Len(t)) /\ (u = <<>> <=> Len(u) = 0)
  BY <1>1, SeqFacts
<1>4. ASSUME NEW k \in DOMAIN u
      PROVE  u[k].at = IF k = 1 THEN TXN_HEADER_SIZE ELSE u[k - 1].at + u[k - 1].size
  <2>1. CASE k <= Len(s)
    <3>1. k \in DOMAIN s /\ u[k] = s[k] /\ (k # 1 => u[k - 1] = s[k - 1])
      BY <1>1, <1>2, <1>3, <2>1
    <3> QED BY <3>1 DEF Tiling
  <2>2. CASE k = Len(s) + 1
    <3>1. 1 \in DOMAIN t /\ u[k] = t[1] /\ (k # 1 => u[k - 1] = s[Len(s)])
      BY <1>1, <1>2, <1>3, <2>2
    <3>2. t[1].at = EndOf(s)
      BY <3>1 DEF Follows
    <3> QED BY <1>2, <2>2, <3>1, <3>2 DEF EndOf
  <2>3. CASE k > Len(s) + 1
    <3>1. /\ k - Len(s) \in DOMAIN t /\ k - Len(s) # 1 /\ k # 1
          /\ u[k] = t[k - Len(s)] /\ u[k - 1] = t[k - Len(s) - 1]
      BY <1>1, <1>2, <1>3, <2>3
    <3> QED BY <3>1 DEF Follows
  <2> QED BY <1>2, <1>3, <2>1, <2>2, <2>3
<1>5. EndOf(u) = EndFrom(t, EndOf(s))
  BY <1>1, <1>2, <1>3 DEF EndOf, EndFrom
<1> QED BY <1>1, <1>3, <1>4, <1>5 DEF u, Tiling

LEMMA NoOpsFacts ==
    ASSUME NEW at \in Nat, NEW n \in Nat
    PROVE  /\ NoOps(at, n) \in Seq(Item) /\ Len(NoOps(at, n)) = n
           /\ Follows(NoOps(at, n), at) /\ EndFrom(NoOps(at, n), at) = at + 4 * n
           /\ \A k \in DOMAIN NoOps(at, n) : NoOps(at, n)[k].op = "noop"
<1> DEFINE t == NoOps(at, n)
<1>1. t \in [1..n -> Item]
  <2>1. \A k \in 1..n : [op |-> "noop", src |-> <<>>, at |-> at + 4 * (k - 1), size |-> 4,
                         count |-> 0] \in Item
    BY EmptySeq DEF Item, Ops
  <2> QED BY <2>1 DEF NoOps
<1>2. t \in Seq(Item) /\ Len(t) = n /\ DOMAIN t = 1..n
  BY <1>1, FunIsSeq
<1>3. \A k \in 1..n : t[k].op = "noop" /\ t[k].at = at + 4 * (k - 1) /\ t[k].size = 4
  BY DEF NoOps
<1> HIDE DEF t
<1>4. t = <<>> <=> n = 0
  BY <1>2, SeqFacts
<1> QED BY <1>2, <1>3, <1>4 DEF Follows, EndFrom, t

LEMMA Sizes ==
    ASSUME NEW v, NEW c \in Command
    PROVE  /\ SizeOf(v, c) \in Nat /\ HdrSize(v, c.op) \in Nat
           /\ Emitted(v, c) \in Command /\ Emitted(v, c).op = c.op
           /\ Emitted(v, c).reg = c.reg
           /\ c.op = "update_reg" => SizeOf(v, c) = 12 /\ Emitted(v, c) = c
           /\ HdrSize(v, "update_reg") = 12
BY DEF SizeOf, HdrSize, Emitted, PatchSize, Command, Ops, BlockOps, PayloadOps

(* What does not spill is on one page; what spills is padded to a multiple  *)
(* of the page that fits in the buffer.                                     *)
LEMMA Pages ==
    ASSUME NEW at \in Nat
    PROVE  /\ ~Spills(12, at) => OnePage(at)
           /\ NextBoundary(at) \in Nat /\ NextBoundary(at) > at
           /\ Spills(12, at) =>
                \A a \in Nat : Room(a) /\ at <= a => NextBoundary(at) <= a
BY DEF Spills, OnePage, NextBoundary, BOUNDARY_16KB, Room

----------------------------------------------------------------------------
(* Each action preserves the invariant.                                     *)

LEMMA EmptySeqs == <<>> \in Seq(Command) /\ <<>> \in Seq(Item) /\ <<>> \in Seq(Nat)
BY EmptySeq

LEMMA QuietPhase ==
    ASSUME TypeOK', CmdInv', phase' \in {"record", "failed", "torn", "kept", "unserved"},
           phase' = "failed" => mem' = {}
    PROVE  IInv'
BY DEF IInv, NothingLeaked, PaddingInPlace, RoomInv, LayoutInv, CountInv, PatchInv, ChunkInv,
       Building, Written

LEMMA InitIInv == Init => IInv
<1> SUFFICES ASSUME Init PROVE IInv
  OBVIOUS
<1>1. TypeOK
  <2>0. pmActive \in BOOLEAN /\ entry \in BOOLEAN /\ spilled \in BOOLEAN
    BY Zenon DEF Init
  <2>1. /\ cmds \in Seq(Command)
        /\ phase \in Phases /\ ver \in {"none", "v01", "v10"}
        /\ exports \in Nat /\ i \in Nat \ {0} /\ size \in Nat /\ numOps \in Nat
    BY EmptySeqs DEF Init, Phases
  <2>2. /\ out \in Seq(Item) /\ src \in Seq(Item)
        /\ bw \in [src : Seq(Nat), next : Nat, size : Nat]
        /\ patches \in Nat /\ loadSeq \in Nat /\ hdr \in Nat
    BY EmptySeqs DEF Init, NoBlock
  <2>3. /\ alloc \in [{"txn", "bw"} -> Nat] /\ mem \subseteq {"txn", "bw"}
        /\ chunk \in Nat
    BY DEF Init
  <2> QED BY <2>0, <2>1, <2>2, <2>3 DEF TypeOK
<1> QED
  BY <1>1 DEF Init, IInv, NothingLeaked, PaddingInPlace, RoomInv, LayoutInv, CountInv,
              PatchInv, ChunkInv, CmdInv, Building, Written

LEMMA StepClient ==
    ASSUME IInv, \/ \E c \in Commands : Buffer(c)
                 \/ FreeSerialized
    PROVE  IInv'
<1>1. TypeOK'
  <2>1. ASSUME NEW c \in Commands, Buffer(c) PROVE TypeOK'
    <3>1. Append(cmds, c) \in Seq(Command)
      BY SerializeAssumption DEF IInv, TypeOK
    <3> QED BY <2>1, <3>1 DEF IInv, TypeOK, Buffer, walk, reser
  <2>2. ASSUME FreeSerialized PROVE TypeOK'
    BY <2>2, EmptySeq DEF IInv, TypeOK, FreeSerialized, record, reser, Phases
  <2> QED BY <2>1, <2>2
<1>2. CmdInv'
  <2>1. ASSUME NEW c \in Commands, Buffer(c) PROVE CmdInv'
    <3>1. /\ c.op = "ddr_patch" => c.len = 40
          /\ cmds' = Append(cmds, c) /\ cmds \in Seq(Command) /\ c \in Command
      BY <2>1, SerializeAssumption DEF Buffer, IInv, TypeOK
    <3> QED BY <3>1 DEF IInv, CmdInv
  <2>2. ASSUME FreeSerialized PROVE CmdInv'
    BY <2>2 DEF FreeSerialized, record, IInv, CmdInv
  <2> QED BY <2>1, <2>2
<1> QED BY <1>1, <1>2, QuietPhase DEF Buffer, FreeSerialized

LEMMA StepExport ==
    ASSUME IInv, NEW v \in Versions, ExportSerialized(v)
    PROVE  IInv'
<1>1. TypeOK'
  BY SerializeAssumption, EmptySeq
  DEF IInv, TypeOK, ExportSerialized, reser, Phases, NoBlock, TXN_HEADER_SIZE,
      DEFAULT_TXN_BUFFER_SIZE
<1>2. /\ cmds' = cmds /\ phase' = "serialize" /\ out' = <<>> /\ size' = 16 /\ numOps' = 0 /\ patches' = 0
      /\ bw' = NoBlock /\ alloc'.txn = 4096
  BY DEF ExportSerialized, TXN_HEADER_SIZE, DEFAULT_TXN_BUFFER_SIZE
<1>3. Len(out') = 0 /\ DOMAIN out' = {}
  BY <1>2
<1>4. LayoutInv' /\ CountInv' /\ PatchInv' /\ ChunkInv'
  BY <1>2, <1>3 DEF LayoutInv, CountInv, PatchInv, ChunkInv, Building, Written, Tiling,
     RegsWhole, RegsOnOnePage, EndOf, TXN_HEADER_SIZE
<1> QED BY <1>1, <1>2, <1>4 DEF IInv, NothingLeaked, PaddingInPlace, RoomInv, Room, CmdInv

LEMMA StepReserialize ==
    ASSUME IInv, NEW s, Reserialize(s), s \in Sources \/ (phase = "done" /\ s = out)
    PROVE  IInv'
<1>1. s \in Seq(Item) /\ Tiling(s) /\ RegsWhole(s)
  BY SourcesAssumption DEF IInv, TypeOK, LayoutInv, Written, RegsWhole
<1>2. TypeOK'
  <2>1. /\ out' \in Seq(Item) /\ src' \in Seq(Item) /\ phase' \in Phases /\ mem' \subseteq {"txn", "bw"}
        /\ i' \in Nat \ {0} /\ size' \in Nat /\ numOps' \in Nat
        /\ chunk' \in Nat
    BY <1>1, EmptySeqs DEF Reserialize, Phases, TXN_HEADER_SIZE
  <2>2. spilled' \in BOOLEAN
    BY Zenon DEF Reserialize
  <2> QED BY <2>1, <2>2 DEF IInv, TypeOK, Reserialize, record
<1>3. /\ phase' = "scan" /\ src' = s /\ cmds' = cmds
      /\ numOps' = 0 /\ out' = <<>> /\ chunk' = 0
  BY DEF Reserialize, record
<1> QED BY <1>1, <1>2, <1>3
  DEF IInv, NothingLeaked, PaddingInPlace, RoomInv, LayoutInv, CountInv, PatchInv, ChunkInv,
      CmdInv, Building, Written

LEMMA StepGrow ==
    ASSUME IInv, NEW b \in {"txn", "bw"}, Grow(b)
    PROVE  IInv'
<1>1. UNCHANGED <<record, phase, walk, mem, reser>>
  BY DEF Grow
<1>2. /\ alloc' \in [{"txn", "bw"} -> Nat]
      /\ alloc'.txn = alloc.txn \/ alloc'.txn = 2 * alloc.txn
  BY DEF Grow, IInv, TypeOK
<1>3. TypeOK'
  BY <1>1, <1>2 DEF IInv, TypeOK, record, walk, reser
<1>4. RoomInv'
  <2>1. ASSUME NEW n \in Nat, Room(n) PROVE Room(2 * n)
    BY <2>1 DEF Room, BOUNDARY_16KB
  <2>2. alloc.txn \in Nat /\ size \in Nat /\ size' = size /\ phase' = phase
    BY <1>1 DEF IInv, TypeOK, walk
  <2>3. Building => Room(alloc'.txn) /\ size <= alloc'.txn
    BY <1>2, <2>1, <2>2 DEF IInv, RoomInv
  <2> QED BY <2>2, <2>3 DEF RoomInv, Building
<1> QED BY <1>1, <1>3, <1>4
  DEF IInv, NothingLeaked, PaddingInPlace, LayoutInv, CountInv, PatchInv, ChunkInv,
      CmdInv, Building, Written, walk, reser, record

LEMMA StepGrowFails ==
    ASSUME IInv, NEW b \in {"txn", "bw"}, GrowFails(b)
    PROVE  IInv'
<1>1. TypeOK'
  BY DEF IInv, TypeOK, GrowFails, record, walk, reser, Phases
<1>2. CmdInv'
  BY DEF IInv, CmdInv, GrowFails, record
<1> QED BY <1>1, <1>2, QuietPhase DEF GrowFails, IInv, TypeOK

(* While commands are walked.                                               *)
LEMMA Walking ==
    ASSUME IInv, phase = "serialize"
    PROVE  /\ out \in Seq(Item) /\ Len(out) \in Nat /\ DOMAIN out = 1..Len(out)
           /\ (out = <<>> <=> Len(out) = 0)
           /\ Tiling(out) /\ RegsWhole(out) /\ RegsOnOnePage(out)
           /\ size \in Nat /\ size = EndOf(out) /\ alloc.txn \in Nat /\ size <= alloc.txn
           /\ Room(alloc.txn)
           /\ numOps = Len(out) + (IF bw = NoBlock THEN 0 ELSE 1)
           /\ patches \in Nat /\ patches <= Len(out) /\ (bw = NoBlock => patches = 0)
           /\ bw.src \in Seq(Nat) /\ bw.size \in Nat /\ i \in Nat
           /\ More => cmds[i] \in Command /\ i \in DOMAIN cmds
           /\ More /\ Op = "ddr_patch" => cmds[i].len >= 16
<1>1. /\ out \in Seq(Item) /\ Len(out) \in Nat /\ DOMAIN out = 1..Len(out)
      /\ (out = <<>> <=> Len(out) = 0)
  BY SeqFacts DEF IInv, TypeOK
<1>2. More => cmds[i] \in Command /\ i \in DOMAIN cmds
  BY SeqFacts DEF IInv, TypeOK, More
<1> QED BY <1>1, <1>2
  DEF IInv, TypeOK, LayoutInv, RoomInv, CountInv, PatchInv, CmdInv, Building, Op, More

AfterAppend ==
    /\ out' \in Seq(Item) /\ Len(out) \in Nat /\ Len(out') = Len(out) + 1
    /\ DOMAIN out' = 1..(Len(out) + 1)
    /\ \A k \in 1..Len(out) : out'[k] = out[k]
    /\ (out'[Len(out) + 1].op = "update_reg" <=> Op = "update_reg")
    /\ Tiling(out') /\ RegsWhole(out') /\ RegsOnOnePage(out')
    /\ size' = EndOf(out') /\ size' \in Nat /\ size' <= alloc.txn
    /\ numOps' = numOps + 1 /\ numOps' \in Nat
    /\ i' = i + 1 /\ i' \in Nat \ {0}

LEMMA LayoutOfAppend ==
    ASSUME IInv, Appending, Fits, Op \notin {"blockwrite", "pm_end"}, AppendItem(ver)
    PROVE  AfterAppend
<1> DEFINE c == Emitted(ver, cmds[i])
           o == [op |-> IF c.op = "blockset" THEN "blockwrite" ELSE c.op,
                 src |-> <<i>>, at |-> size, size |-> SizeOf(ver, c), count |-> 0]
<1>1. phase = "serialize" /\ More /\ ~FlushDue /\ ~PadDue
  BY DEF Appending
<1>2. /\ cmds[i] \in Command /\ c \in Command /\ c.op = cmds[i].op
      /\ SizeOf(ver, c) \in Nat /\ (c.op = "update_reg" => SizeOf(ver, c) = 12)
      /\ HdrSize(ver, "update_reg") = 12
  BY <1>1, Walking, Sizes
<1>3. SizeOf(ver, c) <= SizeOf(ver, cmds[i])
  <2>1. cmds[i].len \in Nat /\ (cmds[i].op = "ddr_patch" => cmds[i].len >= 16)
    BY <1>1, <1>2, Walking DEF Command, Op
  <2> DEFINE d == cmds[i]
  <2>2. CASE ver = "v10" /\ d.op = "ddr_patch"
    <3>1. c.len = 16 /\ c.op = d.op
      BY <1>2, <2>2 DEF Emitted, PatchSize, Command
    <3>2. SizeOf(ver, d) = 8 + d.len /\ SizeOf(ver, c) = 8 + c.len
      BY <2>2, <3>1 DEF SizeOf, HdrSize, BlockOps, PayloadOps
    <3> QED BY <2>1, <2>2, <3>1, <3>2
  <2>3. CASE ~(ver = "v10" /\ d.op = "ddr_patch")
    <3>1. c = d
      BY <2>3 DEF Emitted
    <3> QED BY <1>2, <3>1
  <2> QED BY <2>2, <2>3
<1>4. out' = Append(out, o) /\ size' = size + SizeOf(ver, c) /\ numOps' = numOps + 1
      /\ i' = i + 1
  BY DEF AppendItem, Cmd
<1>5. o \in Item /\ o.at = EndOf(out) /\ o.at + o.size = size'
      /\ (o.op = "update_reg" <=> Op = "update_reg") /\ (o.op = "update_reg" => o.size = 12)
  <2>1. <<i>> \in Seq(Nat) /\ size \in Nat /\ size = EndOf(out)
    BY <1>1, Walking
  <2> QED BY <1>2, <1>4, <2>1 DEF Item, Command, Ops, BlockOps, PayloadOps, Op
<1> HIDE DEF o, c
<1>6. /\ out' \in Seq(Item) /\ Len(out') = Len(out) + 1 /\ DOMAIN out' = 1..(Len(out) + 1)
      /\ \A k \in 1..(Len(out) + 1) : out'[k] = IF k <= Len(out) THEN out[k] ELSE o
      /\ Tiling(out') /\ EndOf(out') = size'
  <2>1. out \in Seq(Item) /\ Tiling(out)
    BY <1>1, Walking
  <2> QED BY <1>4, <1>5, <2>1, AppendLayout
<1>7. o.op = "update_reg" => OnePage(o.at)
  BY <1>1, <1>2, <1>5, Walking, Pages DEF PadDue
<1>8. RegsWhole(out') /\ RegsOnOnePage(out')
  <2>1. RegsWhole(out) /\ RegsOnOnePage(out) /\ DOMAIN out = 1..Len(out) /\ Len(out) \in Nat
    BY <1>1, Walking
  <2>2. ASSUME NEW k \in DOMAIN out', out'[k].op = "update_reg"
        PROVE  out'[k].size = 12 /\ OnePage(out'[k].at)
    <3>1. CASE k <= Len(out)
      BY <1>6, <2>1, <2>2, <3>1 DEF RegsWhole, RegsOnOnePage
    <3>2. CASE ~(k <= Len(out))
      BY <1>5, <1>6, <1>7, <2>2, <3>2
    <3> QED BY <3>1, <3>2
  <2> QED BY <2>2 DEF RegsWhole, RegsOnOnePage
<1>9. size' <= alloc.txn
  <2>1. Need.txn = size + SizeOf(ver, cmds[i])
    BY <1>1 DEF Need, CopyDue, ChunkSpills
  <2>2. Need.txn <= alloc.txn
    BY DEF Fits
  <2>3. size \in Nat /\ alloc.txn \in Nat /\ SizeOf(ver, cmds[i]) \in Nat
    BY <1>1, <1>2, Walking, Sizes
  <2> QED BY <1>2, <1>3, <1>4, <2>1, <2>2, <2>3
<1>10. /\ Len(out) \in Nat /\ size \in Nat /\ size' \in Nat
       /\ numOps' \in Nat /\ i' \in Nat \ {0}
  <2>1. Len(out) \in Nat /\ size \in Nat
    BY <1>1, Walking
  <2>2. numOps \in Nat /\ i \in Nat \ {0}
    BY DEF IInv, TypeOK
  <2> QED BY <1>2, <1>4, <2>1, <2>2
<1>11. /\ \A k \in 1..Len(out) : out'[k] = out[k]
       /\ (out'[Len(out) + 1].op = "update_reg" <=> Op = "update_reg")
  BY <1>5, <1>6, <1>10
<1> QED BY <1>4, <1>6, <1>8, <1>9, <1>10, <1>11 DEF AfterAppend

LEMMA AfterAppendLayout ==
    ASSUME IInv, AfterAppend, phase = "serialize", phase' = "serialize", bw' = bw,
           alloc' = alloc
    PROVE  RoomInv' /\ LayoutInv' /\ CountInv' /\ ChunkInv'
<1>1. numOps = Len(out) + (IF bw = NoBlock THEN 0 ELSE 1) /\ Room(alloc.txn)
  BY Walking
<1> QED BY <1>1 DEF AfterAppend, RoomInv, LayoutInv, CountInv, ChunkInv, Building, Written

LEMMA StepAppendCmd ==
    ASSUME IInv, AppendCmd
    PROVE  IInv'
<1>1. /\ Appending /\ Fits /\ Op \notin {"blockwrite", "pm_start", "pm_end"} /\ AppendItem(ver)
      /\ phase = "serialize" /\ phase' = phase /\ bw' = bw /\ alloc' = alloc /\ mem' = mem
      /\ patches' = IF Op = "ddr_patch" /\ bw # NoBlock THEN patches + 1 ELSE patches
      /\ More /\ ~FlushDue
  BY DEF AppendCmd, Appending
<1>2. cmds' = [cmds EXCEPT ![i] = Emitted(ver, cmds[i])]
  BY DEF AppendCmd, Cmd
<1>3. /\ cmds' \in Seq(Command) /\ DOMAIN cmds' = DOMAIN cmds /\ CmdInv'
  <2>1. /\ cmds \in Seq(Command) /\ cmds[i] \in Command /\ Emitted(ver, cmds[i]) \in Command
        /\ cmds[i].op = "ddr_patch" => cmds[i].len >= 16
        /\ i \in DOMAIN cmds
    BY <1>1, Walking, Sizes DEF IInv, TypeOK, Op
  <2>2. /\ Emitted(ver, cmds[i]).op = cmds[i].op
        /\ cmds[i].op = "ddr_patch" => Emitted(ver, cmds[i]).len >= 16
    BY <2>1, Sizes DEF Emitted, PatchSize, Command
  <2>3. cmds' \in Seq(Command) /\ DOMAIN cmds' = DOMAIN cmds
    BY <1>2, <2>1
  <2> QED BY <1>2, <2>1, <2>2, <2>3 DEF IInv, CmdInv
<1>4. AfterAppend
  BY <1>1, LayoutOfAppend
<1>5. TypeOK'
  <2>1. loadSeq' \in Nat
    BY DEF AppendCmd, CountInLoad, IInv, TypeOK
  <2>2. patches' \in Nat
    BY <1>1 DEF IInv, TypeOK
  <2> QED BY <1>1, <1>3, <1>4, <2>1, <2>2 DEF AfterAppend, AppendCmd, IInv, TypeOK, reser
<1>6. PatchInv'
  <2>1. CASE bw = NoBlock
    <3>1. patches = 0 /\ patches \in Nat
      BY <2>1, <1>1, Walking
    <3>2. patches' = 0
      BY <1>1, <2>1, <3>1
    <3> QED BY <1>1, <1>4, <3>2 DEF PatchInv, AfterAppend
  <2>2. CASE bw # NoBlock
    <3>1. Op = "ddr_patch" /\ patches' = patches + 1
      BY <1>1, <2>2 DEF FlushDue
    <3>2. /\ patches \in Nat /\ patches <= Len(out)
          /\ \A k \in 1..Len(out) : k > Len(out) - patches => out[k].op # "update_reg"
      BY <1>1, Walking DEF IInv, PatchInv
    <3> QED BY <1>1, <1>4, <2>2, <3>1, <3>2 DEF PatchInv, AfterAppend
  <2> QED BY <2>1, <2>2
<1>7. RoomInv' /\ LayoutInv' /\ CountInv' /\ ChunkInv'
  BY <1>1, <1>4, AfterAppendLayout
<1> QED BY <1>1, <1>3, <1>5, <1>6, <1>7 DEF IInv, NothingLeaked, PaddingInPlace

LEMMA StepPmStart ==
    ASSUME IInv, AppendPmStart
    PROVE  IInv'
<1>1. /\ Appending /\ Fits /\ Op = "pm_start" /\ AppendItem(ver)
      /\ phase = "serialize" /\ phase' = phase /\ bw' = bw /\ alloc' = alloc /\ mem' = mem
      /\ patches' = patches /\ cmds' = cmds /\ bw = NoBlock
  BY DEF AppendPmStart, Appending, FlushDue
<1>2. AfterAppend
  BY <1>1, LayoutOfAppend
<1>3. TypeOK'
  <2>1. hdr' \in Nat
    BY <1>1, Walking DEF AppendPmStart
  <2>2. pmActive' \in BOOLEAN
    BY Zenon DEF AppendPmStart
  <2> QED BY <1>1, <1>2, <2>1, <2>2 DEF AfterAppend, AppendPmStart, IInv, TypeOK, reser
<1>4. PatchInv' /\ CmdInv'
  <2>1. patches = 0
    BY <1>1, Walking
  <2> QED BY <1>1, <1>2, <2>1 DEF PatchInv, CmdInv, IInv, AfterAppend
<1>5. RoomInv' /\ LayoutInv' /\ CountInv' /\ ChunkInv'
  BY <1>1, <1>2, AfterAppendLayout
<1> QED BY <1>1, <1>3, <1>4, <1>5 DEF IInv, NothingLeaked, PaddingInPlace

LEMMA StepPmEnd ==
    ASSUME IInv, AppendPmEnd
    PROVE  IInv'
<1>1. /\ Op = "pm_end" /\ phase = "serialize" /\ More /\ bw' = bw /\ alloc' = alloc
      /\ size' = size /\ numOps' = numOps /\ patches' = patches /\ cmds' = cmds /\ bw = NoBlock
  BY DEF AppendPmEnd, Appending, FlushDue
<1>2. CmdInv'
  BY <1>1 DEF IInv, CmdInv
<1>3. CASE hdr = 0
  <2>1. phase' = "failed" /\ mem' = mem \ {"txn", "bw"} /\ UNCHANGED <<i, out, loadSeq, pmActive>>
    BY <1>3 DEF AppendPmEnd
  <2>2. TypeOK'
    BY <1>1, <2>1 DEF AppendPmEnd, IInv, TypeOK, Phases, reser
  <2>3. mem' = {}
    BY <2>1 DEF IInv, TypeOK
  <2> QED BY <1>2, <2>1, <2>2, <2>3, QuietPhase
<1>4. CASE hdr # 0
  <2>1. /\ phase' = phase /\ mem' = mem /\ loadSeq' = 0 /\ pmActive' = FALSE /\ i' = i + 1
        /\ out' = IF loadSeq = 0 THEN out ELSE [out EXCEPT ![hdr].count = loadSeq % SEQ_COUNTS]
    BY <1>4 DEF AppendPmEnd
  <2>2. /\ out \in Seq(Item) /\ Len(out) \in Nat /\ DOMAIN out = 1..Len(out)
        /\ (out = <<>> <=> Len(out) = 0)
    BY <1>1, Walking
  <2>3. /\ out' \in Seq(Item) /\ Len(out') = Len(out) /\ DOMAIN out' = DOMAIN out
        /\ \A k \in DOMAIN out : /\ out'[k].op = out[k].op /\ out'[k].at = out[k].at
                                 /\ out'[k].size = out[k].size
    <3>1. loadSeq % SEQ_COUNTS \in Nat
      <4>1. loadSeq \in Nat
        BY DEF IInv, TypeOK
      <4> QED BY <4>1, SMT DEF SEQ_COUNTS
    <3>2. ASSUME NEW k \in DOMAIN out
          PROVE  /\ [out[k] EXCEPT !.count = loadSeq % SEQ_COUNTS] \in Item
                 /\ [out[k] EXCEPT !.count = loadSeq % SEQ_COUNTS].op = out[k].op
                 /\ [out[k] EXCEPT !.count = loadSeq % SEQ_COUNTS].at = out[k].at
                 /\ [out[k] EXCEPT !.count = loadSeq % SEQ_COUNTS].size = out[k].size
      <4>1. out[k] \in Item
        BY <2>2, SeqFacts
      <4> QED BY <3>1, <4>1 DEF Item
    <3>3. CASE loadSeq = 0
      BY <2>1, <2>2, <3>3
    <3>4. CASE loadSeq # 0
      <4>1. out' = [k \in 1..Len(out) |->
                      IF k = hdr THEN [out[k] EXCEPT !.count = loadSeq % SEQ_COUNTS] ELSE out[k]]
        BY <2>1, <2>2, <3>4
      <4>2. out' \in [1..Len(out) -> Item]
        BY <2>2, <3>2, <4>1, SeqFacts
      <4>3. out' \in Seq(Item) /\ Len(out') = Len(out) /\ DOMAIN out' = 1..Len(out)
        BY <2>2, <4>2, FunIsSeq
      <4> QED BY <2>2, <3>2, <4>1, <4>3
    <3> QED BY <3>3, <3>4
  <2>4. TypeOK'
    <3>1. pmActive' \in BOOLEAN
      BY <2>1, Zenon
    <3>2. i' \in Nat \ {0}
      <4>1. i \in Nat \ {0}
        BY DEF IInv, TypeOK
      <4> QED BY <2>1, <4>1
    <3> QED BY <1>1, <2>1, <2>3, <3>1, <3>2 DEF AppendPmEnd, IInv, TypeOK, reser
  <2>5. /\ Tiling(out') /\ RegsWhole(out') /\ RegsOnOnePage(out') /\ EndOf(out') = EndOf(out)
    <3>1. Tiling(out) /\ RegsWhole(out) /\ RegsOnOnePage(out)
      BY <1>1, Walking
    <3>2. out' = <<>> <=> out = <<>>
      BY <2>2, <2>3, SeqFacts
    <3>3. EndOf(out') = EndOf(out)
      BY <2>2, <2>3, <3>2 DEF EndOf
    <3>4. Tiling(out')
      <4>1. \A k \in DOMAIN out' : k # 1 => k - 1 \in DOMAIN out
        BY <2>2, <2>3
      <4>2. ASSUME NEW k \in DOMAIN out'
            PROVE  out'[k].at = IF k = 1 THEN TXN_HEADER_SIZE
                                ELSE out'[k - 1].at + out'[k - 1].size
        BY <2>3, <3>1, <4>1, <4>2 DEF Tiling
      <4> QED BY <4>2 DEF Tiling
    <3>5. RegsWhole(out') /\ RegsOnOnePage(out')
      BY <2>3, <3>1 DEF RegsWhole, RegsOnOnePage
    <3> QED BY <3>3, <3>4, <3>5
  <2>6. LayoutInv' /\ RoomInv' /\ CountInv' /\ PatchInv' /\ ChunkInv'
    BY <1>1, <2>1, <2>2, <2>3, <2>5
    DEF IInv, LayoutInv, RoomInv, CountInv, PatchInv, ChunkInv, Building, Written
  <2> QED BY <1>1, <1>2, <2>1, <2>4, <2>6 DEF IInv, NothingLeaked, PaddingInPlace
<1> QED BY <1>3, <1>4

LEMMA StepStartBlock ==
    ASSUME IInv, StartBlock
    PROVE  IInv'
<1>1. /\ phase = "serialize" /\ phase' = phase /\ More /\ alloc' = alloc /\ mem' = mem
      /\ out' = out /\ size' = size /\ numOps' = numOps + 1 /\ patches' = patches
      /\ cmds' = cmds /\ bw = NoBlock /\ i' = i + 1
      /\ bw' = [src |-> <<i>>, next |-> cmds[i].reg + 4 * cmds[i].len,
                size |-> SizeOf(ver, cmds[i])]
  BY DEF StartBlock, Appending, record
<1>2. bw' # NoBlock /\ bw' \in [src : Seq(Nat), next : Nat, size : Nat] /\ i' \in Nat \ {0}
  <2>1. <<i>> \in Seq(Nat) /\ <<i>> # <<>> /\ i' \in Nat \ {0}
    BY <1>1 DEF IInv, TypeOK
  <2>2. cmds[i].reg + 4 * cmds[i].len \in Nat /\ SizeOf(ver, cmds[i]) \in Nat
    <3>1. cmds[i] \in Command
      BY <1>1, Walking
    <3>2. cmds[i].reg \in Nat /\ cmds[i].len \in Nat
      BY <3>1 DEF Command
    <3> QED BY <3>1, <3>2, Sizes
  <2> QED BY <1>1, <2>1, <2>2 DEF NoBlock
<1>3. TypeOK'
  <2>1. loadSeq' \in Nat /\ numOps' \in Nat
    BY <1>1 DEF StartBlock, CountInLoad, IInv, TypeOK
  <2> QED BY <1>1, <1>2, <2>1 DEF StartBlock, IInv, TypeOK, record, reser
<1>4. numOps = Len(out) /\ Len(out) \in Nat
  BY <1>1, Walking
<1>5. CountInv' /\ PatchInv' /\ CmdInv'
  BY <1>1, <1>2, <1>4 DEF CountInv, PatchInv, CmdInv, IInv, Written
<1> QED BY <1>1, <1>3, <1>5
  DEF IInv, NothingLeaked, PaddingInPlace, RoomInv, LayoutInv, ChunkInv, Building, Written

LEMMA StepCoalesce ==
    ASSUME IInv, Coalesce
    PROVE  IInv'
<1>1. /\ phase = "serialize" /\ phase' = phase /\ More /\ alloc' = alloc /\ mem' = mem
      /\ out' = out /\ size' = size /\ numOps' = numOps /\ patches' = patches
      /\ cmds' = cmds /\ bw # NoBlock /\ i' = i + 1
      /\ bw' = [src |-> Append(bw.src, i), next |-> cmds[i].reg + 4 * cmds[i].len,
                size |-> bw.size + 4 * cmds[i].len]
  BY DEF Coalesce, Appending, record
<1>2. bw' # NoBlock /\ bw' \in [src : Seq(Nat), next : Nat, size : Nat] /\ i' \in Nat \ {0}
  <2>1. i \in Nat /\ bw.src \in Seq(Nat) /\ bw.size \in Nat /\ i' \in Nat \ {0}
    BY <1>1 DEF IInv, TypeOK
  <2>2. cmds[i].reg + 4 * cmds[i].len \in Nat /\ 4 * cmds[i].len \in Nat
    <3>1. cmds[i] \in Command
      BY <1>1, Walking
    <3>2. cmds[i].reg \in Nat /\ cmds[i].len \in Nat
      BY <3>1 DEF Command
    <3> QED BY <3>2
  <2>3. Append(bw.src, i) \in Seq(Nat) /\ Len(Append(bw.src, i)) = Len(bw.src) + 1
        /\ Len(bw.src) \in Nat
    BY <2>1
  <2>4. Append(bw.src, i) # <<>>
    BY <2>3, SeqFacts
  <2> QED BY <1>1, <2>1, <2>2, <2>3, <2>4 DEF NoBlock
<1>3. TypeOK'
  BY <1>1, <1>2 DEF Coalesce, IInv, TypeOK, record, reser
<1>4. CountInv' /\ PatchInv' /\ CmdInv'
  BY <1>1, <1>2 DEF CountInv, PatchInv, CmdInv, IInv, Written
<1> QED BY <1>1, <1>3, <1>4
  DEF IInv, NothingLeaked, PaddingInPlace, RoomInv, LayoutInv, ChunkInv, Building, Written

LEMMA StepComplete ==
    ASSUME IInv, Complete
    PROVE  IInv'
<1>1. /\ phase = "serialize" /\ phase' = "done" /\ bw = NoBlock /\ size' = Aligned(size)
      /\ out' = out /\ numOps' = numOps /\ cmds' = cmds
  BY DEF Complete, FlushDue, record
<1>2. /\ Tiling(out) /\ RegsWhole(out) /\ RegsOnOnePage(out) /\ size = EndOf(out) /\ size \in Nat
      /\ numOps = Len(out) /\ Len(out) \in Nat
  BY <1>1, Walking
<1>3. TypeOK'
  <2>1. Aligned(size) \in Nat
    BY <1>2 DEF Aligned
  <2> QED BY <1>1, <2>1 DEF Complete, IInv, TypeOK, record, reser, Phases
<1> QED BY <1>1, <1>2, <1>3
  DEF IInv, NothingLeaked, PaddingInPlace, RoomInv, LayoutInv, CountInv, PatchInv, ChunkInv,
      CmdInv, Building, Written

(* A block is inserted before the last p operations, which move by its size. *)
Inserted(s, m, p, b) ==
    [k \in 1..(m + p + 1) |-> IF k <= m THEN s[k] ELSE IF k = m + 1 THEN b
                             ELSE [s[k - 1] EXCEPT !.at = @ + b.size]]

InsertedAt(t, s, m, p, b) ==
    /\ t \in Seq(Item) /\ Len(t) = m + p + 1 /\ DOMAIN t = 1..(m + p + 1)
    /\ \A k \in 1..m : t[k] = s[k]
    /\ t[m + 1] = b
    /\ \A k \in (m + 1)..(m + p) : /\ t[k + 1].at = s[k].at + b.size
                                  /\ t[k + 1].size = s[k].size
                                  /\ t[k + 1].op = s[k].op
                                  /\ t[k + 1].src = s[k].src
                                  /\ t[k + 1].count = s[k].count

LEMMA InsertElements ==
    ASSUME NEW s \in Seq(Item), NEW m \in Nat, NEW p \in Nat, Len(s) = m + p, NEW b \in Item,
           NEW t, t = Inserted(s, m, p, b)
    PROVE  InsertedAt(t, s, m, p, b)
<1> DEFINE moved(o) == [o EXCEPT !.at = @ + b.size]
<1>1. \A k \in 1..(m + p) : s[k] \in Item
  BY SeqFacts
<1>2. b.size \in Nat
  BY DEF Item
<1>3. ASSUME NEW o \in Item
      PROVE  /\ moved(o) \in Item /\ moved(o).op = o.op /\ moved(o).size = o.size
             /\ moved(o).at = o.at + b.size
             /\ moved(o).src = o.src /\ moved(o).count = o.count
  <2>1. o.at + b.size \in Nat
    BY <1>2 DEF Item
  <2>2. moved(o) = [o EXCEPT !.at = o.at + b.size]
    OBVIOUS
  <2> QED BY <2>1, <2>2 DEF Item
<1>4. t = [k \in 1..(m + p + 1) |-> IF k <= m THEN s[k] ELSE IF k = m + 1 THEN b
                                   ELSE moved(s[k - 1])]
  BY DEF Inserted
<1> HIDE DEF moved
<1>5. ASSUME NEW k \in 1..(m + p + 1)
      PROVE  (IF k <= m THEN s[k] ELSE IF k = m + 1 THEN b ELSE moved(s[k - 1])) \in Item
  <2>1. CASE k <= m
    BY <1>1, <2>1
  <2>2. CASE k = m + 1
    BY <2>2
  <2>3. CASE k > m + 1
    <3>1. s[k - 1] \in Item
      BY <1>1, <2>3
    <3> QED BY <1>3, <2>3, <3>1
  <2> QED BY <2>1, <2>2, <2>3
<1>6. t \in [1..(m + p + 1) -> Item]
  BY <1>4, <1>5
<1>7. t \in Seq(Item) /\ Len(t) = m + p + 1 /\ DOMAIN t = 1..(m + p + 1)
  BY <1>6, FunIsSeq
<1>8. \A k \in 1..m : t[k] = s[k]
  BY <1>4
<1>9. t[m + 1] = b
  BY <1>4
<1>10. ASSUME NEW k \in (m + 1)..(m + p)
       PROVE  /\ t[k + 1].at = s[k].at + b.size /\ t[k + 1].size = s[k].size
              /\ t[k + 1].op = s[k].op /\ t[k + 1].src = s[k].src
              /\ t[k + 1].count = s[k].count
  <2>1. s[k] \in Item
    BY <1>1
  <2>2. t[k + 1] = moved(s[k])
    BY <1>4
  <2> QED BY <1>3, <2>1, <2>2
<1> QED BY <1>7, <1>8, <1>9, <1>10 DEF InsertedAt

LEMMA InsertLayout ==
    ASSUME NEW s \in Seq(Item), NEW m \in Nat, NEW p \in Nat, Len(s) = m + p, NEW b \in Item,
           NEW t, t = Inserted(s, m, p, b), Tiling(s),
           p = 0 => b.at = EndOf(s), p # 0 => b.at = s[m + 1].at
    PROVE  Tiling(t) /\ EndOf(t) = EndOf(s) + b.size
<1>1. InsertedAt(t, s, m, p, b)
  BY InsertElements
<1>2. /\ \A k \in 1..(m + p) : s[k].at \in Nat /\ s[k].size \in Nat
      /\ (s = <<>> <=> m + p = 0) /\ b.size \in Nat /\ b.at \in Nat
  <2>1. \A k \in 1..(m + p) : s[k] \in Item
    BY SeqFacts
  <2> QED BY <2>1, SeqFacts DEF Item
<1>3. \A k \in 1..(m + p) : s[k].at = IF k = 1 THEN TXN_HEADER_SIZE
                                      ELSE s[k - 1].at + s[k - 1].size
  <2>1. DOMAIN s = 1..(m + p)
    BY SeqFacts
  <2> QED BY <2>1 DEF Tiling
<1>4. b.at = IF m = 0 THEN TXN_HEADER_SIZE ELSE s[m].at + s[m].size
  <2>1. CASE p = 0
    BY <1>2, <2>1 DEF EndOf
  <2>2. CASE p # 0
    <3>1. m + 1 \in 1..(m + p) /\ (m + 1) - 1 = m
      BY <2>2
    <3>2. b.at = s[m + 1].at
      BY <2>2
    <3> QED BY <1>3, <3>1, <3>2
  <2> QED BY <2>1, <2>2
<1>5. ASSUME NEW k \in 1..(m + p + 1)
      PROVE  t[k].at = IF k = 1 THEN TXN_HEADER_SIZE ELSE t[k - 1].at + t[k - 1].size
  <2>1. CASE k <= m
    <3>1. k \in 1..(m + p) /\ t[k] = s[k] /\ (k # 1 => t[k - 1] = s[k - 1])
      BY <1>1, <2>1 DEF InsertedAt
    <3> QED BY <1>3, <3>1
  <2>2. CASE k = m + 1
    <3>0. (k = 1 <=> m = 0) /\ (k # 1 => m \in 1..m /\ k - 1 = m)
      BY <2>2
    <3>1. t[k] = b /\ (k # 1 => t[k - 1] = s[m]) /\ (k = 1 <=> m = 0)
      BY <1>1, <2>2, <3>0 DEF InsertedAt
    <3> QED BY <1>4, <3>1
  <2>3. CASE k = m + 2
    <3>1. m + 1 \in 1..(m + p) /\ k - 1 = m + 1 /\ p # 0 /\ k = (m + 1) + 1
      BY <2>3
    <3>2. t[k].at = s[m + 1].at + b.size /\ t[k - 1] = b /\ b.at = s[m + 1].at
      BY <1>1, <3>1 DEF InsertedAt
    <3> QED BY <1>2, <3>1, <3>2
  <2>4. CASE k > m + 2
    <3>1. /\ k - 1 \in (m + 1)..(m + p) /\ k - 2 \in (m + 1)..(m + p) /\ (k - 1) + 1 = k
          /\ (k - 2) + 1 = k - 1 /\ (k - 1) - 1 = k - 2 /\ k - 1 # 1 /\ k # 1
          /\ k - 1 \in 1..(m + p) /\ k - 2 \in 1..(m + p)
      BY <2>4
    <3>2. /\ t[k].at = s[k - 1].at + b.size
          /\ t[k - 1].at = s[k - 2].at + b.size /\ t[k - 1].size = s[k - 2].size
      BY <1>1, <3>1 DEF InsertedAt
    <3>3. s[k - 1].at = s[k - 2].at + s[k - 2].size
      BY <1>3, <3>1
    <3>4. s[k - 2].at \in Nat /\ s[k - 2].size \in Nat /\ b.size \in Nat
      BY <1>2, <3>1
    <3>5. t[k].at = t[k - 1].at + t[k - 1].size
      <4> DEFINE a == s[k - 2].at   l == s[k - 2].size   d == b.size   e == s[k - 1].at
                 x == t[k].at       y == t[k - 1].at     z == t[k - 1].size
      <4>1. /\ a \in Nat /\ l \in Nat /\ d \in Nat
            /\ x = e + d /\ e = a + l /\ y = a + d /\ z = l
        BY <3>2, <3>3, <3>4
      <4> HIDE DEF a, l, d, e, x, y, z
      <4>2. x = y + z
        BY <4>1
      <4> QED BY <4>2 DEF x, y, z
    <3> QED BY <3>1, <3>5
  <2> QED BY <2>1, <2>2, <2>3, <2>4
<1>6. EndOf(t) = EndOf(s) + b.size
  <2>1. EndOf(t) = t[m + p + 1].at + t[m + p + 1].size
    <3>1. t # <<>>
      BY <1>1, SeqFacts DEF InsertedAt
    <3> QED BY <1>1, <3>1 DEF EndOf, InsertedAt
  <2>2. CASE p = 0
    BY <1>1, <2>1, <2>2 DEF InsertedAt
  <2>3. CASE p # 0
    <3>1. m + p \in (m + 1)..(m + p) /\ m + p \in 1..(m + p)
      BY <2>3
    <3>2. EndOf(s) = s[m + p].at + s[m + p].size
      BY <1>2, <2>3 DEF EndOf
    <3>3. t[(m + p) + 1].at = s[m + p].at + b.size /\ t[(m + p) + 1].size = s[m + p].size
      BY <1>1, <3>1 DEF InsertedAt
    <3> QED BY <1>2, <2>1, <3>1, <3>2, <3>3
  <2> QED BY <2>2, <2>3
<1> QED BY <1>1, <1>5, <1>6 DEF Tiling, InsertedAt

(* A flush that is not torn inserts the block before the patches.           *)
LEMMA FlushInserts ==
    ASSUME IInv, FlushBlock, phase' # "torn"
    PROVE  /\ phase' = "serialize"
           /\ \E m \in Nat, b \in Item :
                 /\ Len(out) = m + patches /\ out' = Inserted(out, m, patches, b)
                 /\ b.op = "blockwrite" /\ b.src = bw.src /\ b.size = bw.size /\ b.count = 0
                 /\ b.at = IF patches = 0 THEN EndOf(out) ELSE out[m + 1].at
<1> DEFINE a0 == size - patches * (8 + PatchSize(ver))
           blk == [op |-> "blockwrite", src |-> bw.src, at |-> a0, size |-> bw.size, count |-> 0]
           n == Len(out)
           inserted == [k \in 1..(n + 1) |->
                           IF k <= n - patches THEN out[k] ELSE IF k = n - patches + 1 THEN blk
                           ELSE [out[k - 1] EXCEPT !.at = @ + bw.size]]
           whole == patches > 0 => n >= patches /\ out[n - patches + 1].at = a0
<1>1. /\ phase = "serialize" /\ bw # NoBlock
      /\ phase' = (IF whole THEN phase ELSE "torn")
      /\ out' = (IF whole THEN inserted ELSE out)
  BY DEF FlushBlock, FlushDue
<1>2. /\ out \in Seq(Item) /\ Len(out) \in Nat /\ size \in Nat /\ size = EndOf(out)
      /\ bw.src \in Seq(Nat) /\ bw.size \in Nat /\ patches \in Nat /\ patches <= Len(out)
  BY <1>1, Walking
<1>3. whole /\ phase' = "serialize" /\ out' = inserted
  BY <1>1
<1>4. PICK m \in Nat : Len(out) = m + patches
  <2>1. Len(out) - patches \in Nat /\ Len(out) = (Len(out) - patches) + patches
    BY <1>2
  <2> QED BY <2>1
<1>5. a0 \in Nat /\ a0 = IF patches = 0 THEN EndOf(out) ELSE out[m + 1].at
  <2>1. CASE patches = 0
    <3>1. patches * (8 + PatchSize(ver)) = 0
      BY <2>1 DEF PatchSize
    <3> QED BY <1>2, <2>1, <3>1
  <2>2. CASE patches # 0
    <3>1. n - patches + 1 = m + 1 /\ m + 1 \in 1..Len(out) /\ patches > 0
      BY <1>2, <1>4, <2>2
    <3>2. out[m + 1].at = a0
      BY <1>3, <3>1
    <3>3. out[m + 1] \in Item
      BY <1>2, <3>1, SeqFacts
    <3> QED BY <2>2, <3>2, <3>3 DEF Item
  <2> QED BY <2>1, <2>2
<1> HIDE DEF a0
<1>6. blk \in Item /\ blk.op = "blockwrite" /\ blk.at = a0 /\ blk.size = bw.size
      /\ blk.src = bw.src /\ blk.count = 0
  BY <1>2, <1>5 DEF Item, Ops, BlockOps, PayloadOps
<1> HIDE DEF blk
<1>7. inserted = Inserted(out, m, patches, blk)
  <2>1. n + 1 = m + patches + 1 /\ n - patches = m
    BY <1>2, <1>4
  <2> QED BY <1>6, <2>1 DEF Inserted
<1> HIDE DEF inserted, whole, n
<1>8. out' = Inserted(out, m, patches, blk)
  BY <1>3, <1>7
<1> QED BY <1>3, <1>4, <1>5, <1>6, <1>8

LEMMA StepFlushBlock ==
    ASSUME IInv, FlushBlock
    PROVE  IInv'
<1>1. /\ phase = "serialize" /\ FlushDue /\ Fits /\ bw # NoBlock
      /\ size' = size + bw.size /\ bw' = NoBlock /\ patches' = 0
      /\ cmds' = cmds /\ mem' = mem /\ alloc' = alloc /\ numOps' = numOps
      /\ phase' \in {"serialize", "torn"} /\ (phase' = "torn" => out' = out)
  BY DEF FlushBlock, FlushDue, record
<1>2. /\ out \in Seq(Item) /\ Len(out) \in Nat /\ DOMAIN out = 1..Len(out)
      /\ Tiling(out) /\ RegsWhole(out) /\ RegsOnOnePage(out)
      /\ size \in Nat /\ size = EndOf(out) /\ bw.src \in Seq(Nat) /\ bw.size \in Nat
      /\ patches \in Nat /\ patches <= Len(out) /\ numOps = Len(out) + 1 /\ Room(alloc.txn)
  BY <1>1, Walking
<1>3. CmdInv'
  BY <1>1 DEF IInv, CmdInv
<1>4. out' \in Seq(Item) => TypeOK'
  <2>1. TypeOK /\ bw' \in [src : Seq(Nat), next : Nat, size : Nat]
    BY <1>1, EmptySeqs DEF IInv, NoBlock
  <2>2. size' \in Nat /\ patches' \in Nat /\ phase' \in Phases
    BY <1>1, <1>2 DEF Phases
  <2> QED BY <2>1, <2>2 DEF FlushBlock, TypeOK, record, reser
<1>5. CASE phase' = "torn"
  <2>1. TypeOK'
    BY <1>1, <1>2, <1>4, <1>5
  <2> QED BY <1>3, <1>5, <2>1, QuietPhase
<1>6. CASE phase' # "torn"
  <2>1. phase' = "serialize"
    BY <1>1, <1>6
  <2>2. PICK m \in Nat, blk \in Item :
           /\ Len(out) = m + patches /\ out' = Inserted(out, m, patches, blk)
           /\ blk.op = "blockwrite" /\ blk.src = bw.src /\ blk.size = bw.size
           /\ blk.at = IF patches = 0 THEN EndOf(out) ELSE out[m + 1].at
    BY <1>6, FlushInserts
  <2>3. InsertedAt(out', out, m, patches, blk)
    BY <1>2, <2>2, InsertElements
  <2>7. /\ out' \in Seq(Item) /\ Len(out') = m + patches + 1
        /\ DOMAIN out' = 1..(m + patches + 1)
        /\ \A k \in 1..m : out'[k] = out[k]
        /\ out'[m + 1] = blk
        /\ \A k \in (m + 1)..(m + patches) : /\ out'[k + 1].at = out[k].at + blk.size
                                            /\ out'[k + 1].size = out[k].size
                                            /\ out'[k + 1].op = out[k].op
    BY <2>3 DEF InsertedAt
  <2>8. Tiling(out') /\ EndOf(out') = size + bw.size
    <3>1. /\ out \in Seq(Item) /\ m \in Nat /\ patches \in Nat /\ Len(out) = m + patches
          /\ blk \in Item /\ Tiling(out)
      BY <1>2, <2>2
    <3>2. /\ patches = 0 => blk.at = EndOf(out)
          /\ patches # 0 => blk.at = out[m + 1].at
      BY <2>2
    <3>3. Tiling(out') /\ EndOf(out') = EndOf(out) + blk.size
      BY <2>2, <3>1, <3>2, InsertLayout
    <3> QED BY <1>2, <2>2, <3>3
  <2>9. RegsWhole(out') /\ RegsOnOnePage(out')
    <3>1. ASSUME NEW k \in DOMAIN out', out'[k].op = "update_reg"
          PROVE  out'[k].size = 12 /\ OnePage(out'[k].at)
      <4>0. k \in 1..(m + patches + 1) /\ DOMAIN out = 1..(m + patches) /\ patches \in Nat
        BY <1>2, <2>2, <2>7
      <4>1. CASE k <= m
        <5>1. k \in DOMAIN out /\ out'[k] = out[k]
          BY <2>7, <4>0, <4>1
        <5> QED BY <1>2, <3>1, <5>1 DEF RegsWhole, RegsOnOnePage
      <4>2. CASE k = m + 1
        BY <2>2, <2>7, <3>1, <4>2
      <4>3. CASE k > m + 1
        <5>1. /\ k - 1 \in (m + 1)..(m + patches) /\ (k - 1) + 1 = k /\ k - 1 \in DOMAIN out
              /\ k - 1 > Len(out) - patches
          BY <2>2, <4>0, <4>3
        <5>2. out[k - 1].op = "update_reg"
          BY <2>7, <3>1, <5>1
        <5> QED BY <1>1, <5>1, <5>2 DEF IInv, PatchInv
      <4> QED BY <4>0, <4>1, <4>2, <4>3
    <3> QED BY <3>1 DEF RegsWhole, RegsOnOnePage
  <2>10. size' <= alloc.txn
    BY <1>1 DEF Fits, Need
  <2>11. LayoutInv'
    BY <1>1, <2>1, <2>8, <2>9 DEF LayoutInv, Building, Written
  <2>12. RoomInv' /\ CountInv' /\ PatchInv' /\ ChunkInv'
    <3>1. /\ numOps' = Len(out') /\ Len(out') \in Nat
          /\ \A k \in DOMAIN out' : ~(k > Len(out') - 0)
      BY <1>1, <1>2, <2>2, <2>7
    <3>2. RoomInv' /\ ChunkInv'
      BY <1>1, <1>2, <2>1, <2>10 DEF RoomInv, ChunkInv, Building
    <3>3. CountInv'
      BY <1>1, <2>1, <3>1 DEF CountInv, Written
    <3>4. PatchInv'
      BY <1>1, <3>1 DEF PatchInv
    <3> QED BY <3>2, <3>3, <3>4
  <2> QED BY <1>1, <1>3, <1>4, <2>1, <2>7, <2>11, <2>12 DEF IInv, NothingLeaked, PaddingInPlace
<1> QED BY <1>5, <1>6

(* Padding appends NOOPs, whatever else it meets.                           *)
LEMMA PadAppends ==
    ASSUME IInv, PadUpdateReg, phase' = "serialize"
    PROVE  \E q \in Nat : out' = out \o NoOps(size, q)
<1> DEFINE r == NextBoundary(size) - size
<1>1. /\ phase = "serialize" /\ r % 4 = 0 /\ out' = out \o NoOps(size, r \div 4)
  BY DEF PadUpdateReg, PadDue
<1>2. size \in Nat
  BY <1>1, Walking
<1>3. r \in Nat
  <2>1. NextBoundary(size) \in Nat /\ NextBoundary(size) > size
    BY <1>2, Pages
  <2> QED BY <1>2, <2>1
<1>4. r \div 4 \in Nat
  <2> HIDE DEF r
  <2> QED BY <1>3
<1> QED BY <1>1, <1>4

LEMMA StepPad ==
    ASSUME IInv, PadUpdateReg
    PROVE  IInv'
<1> DEFINE r == NextBoundary(size) - size
<1>1. /\ phase = "serialize" /\ More /\ Op = "update_reg" /\ bw = NoBlock /\ bw' = bw
      /\ Spills(HdrSize(ver, Op), size) /\ patches' = patches /\ alloc' = alloc
      /\ cmds' = cmds
  BY DEF PadUpdateReg, PadDue, FlushDue, record
<1>2. /\ out \in Seq(Item) /\ Len(out) \in Nat /\ DOMAIN out = 1..Len(out)
      /\ Tiling(out) /\ RegsWhole(out) /\ RegsOnOnePage(out)
      /\ size \in Nat /\ size = EndOf(out) /\ size <= alloc.txn /\ alloc.txn \in Nat
      /\ Room(alloc.txn) /\ numOps = Len(out) /\ patches = 0
  BY <1>1, Walking
<1>3. /\ NextBoundary(size) \in Nat /\ NextBoundary(size) > size
      /\ NextBoundary(size) <= alloc.txn
  BY <1>1, <1>2, Pages DEF HdrSize, BlockOps, PayloadOps
<1>4. CmdInv'
  BY <1>1 DEF IInv, CmdInv
<1>5. CASE r % 4 # 0
  <2>1. phase' = "failed" /\ mem' = mem \ {"txn", "bw"} /\ UNCHANGED <<out, size, numOps>>
    BY <1>5 DEF PadUpdateReg
  <2>2. TypeOK'
    BY <1>1, <2>1 DEF PadUpdateReg, IInv, TypeOK, Phases, record, reser
  <2>3. mem' = {}
    BY <2>1 DEF IInv, TypeOK
  <2> QED BY <1>4, <2>1, <2>2, <2>3, QuietPhase
<1>6. CASE r % 4 = 0
  <2> DEFINE q == r \div 4
  <2>1. q \in Nat /\ 4 * q = r /\ r \in Nat /\ size + r = NextBoundary(size)
    <3>1. r \in Nat /\ size + r = NextBoundary(size)
      BY <1>2, <1>3
    <3>2. q \in Nat /\ 4 * q = r
      <4> HIDE DEF r
      <4> QED BY <1>6, <3>1
    <3> QED BY <3>1, <3>2
  <2>2. /\ phase' = (IF size + r > alloc.txn THEN "stale" ELSE phase)
        /\ out' = out \o NoOps(size, q) /\ size' = size + r /\ numOps' = numOps + q /\ mem' = mem
    BY <1>6, Zenon DEF PadUpdateReg
  <2> HIDE DEF q, r
  <2>3. /\ NoOps(size, q) \in Seq(Item) /\ Len(NoOps(size, q)) = q
        /\ Follows(NoOps(size, q), size) /\ EndFrom(NoOps(size, q), size) = size + 4 * q
        /\ \A k \in DOMAIN NoOps(size, q) : NoOps(size, q)[k].op = "noop"
        /\ DOMAIN NoOps(size, q) = 1..q
    <3>1. size \in Nat /\ q \in Nat
      BY <1>2, <2>1
    <3>2. NoOps(size, q) \in Seq(Item)
      BY <3>1, NoOpsFacts
    <3>3. DOMAIN NoOps(size, q) = 1..Len(NoOps(size, q))
      BY <3>2, SeqFacts
    <3> QED BY <3>1, <3>3, NoOpsFacts, Zenon
  <2>4. phase' = "serialize" /\ size' <= alloc.txn
    BY <1>1, <1>2, <1>3, <2>1, <2>2
  <2>5. /\ out' \in Seq(Item) /\ Len(out') = Len(out) + q
        /\ DOMAIN out' = 1..(Len(out) + q)
        /\ \A k \in 1..(Len(out) + q) :
              out'[k] = IF k <= Len(out) THEN out[k] ELSE NoOps(size, q)[k - Len(out)]
        /\ Tiling(out') /\ EndOf(out') = size'
    <3> DEFINE t == NoOps(size, q)
    <3>1. /\ out \in Seq(Item) /\ t \in Seq(Item) /\ Tiling(out) /\ Follows(t, EndOf(out))
          /\ Len(t) = q /\ EndFrom(t, EndOf(out)) = size' /\ out' = out \o t
      BY <1>2, <2>1, <2>2, <2>3
    <3> HIDE DEF t
    <3>2. /\ out \o t \in Seq(Item) /\ Len(out \o t) = Len(out) + Len(t)
          /\ DOMAIN (out \o t) = 1..(Len(out) + Len(t))
          /\ \A k \in 1..(Len(out) + Len(t)) :
                (out \o t)[k] = IF k <= Len(out) THEN out[k] ELSE t[k - Len(out)]
          /\ Tiling(out \o t) /\ EndOf(out \o t) = EndFrom(t, EndOf(out))
      BY <3>1, ConcatLayout
    <3> QED BY <3>1, <3>2 DEF t
  <2>6. RegsWhole(out') /\ RegsOnOnePage(out')
    <3>1. ASSUME NEW k \in DOMAIN out', out'[k].op = "update_reg"
          PROVE  out'[k].size = 12 /\ OnePage(out'[k].at)
      <4>1. CASE k <= Len(out)
        BY <1>2, <2>1, <2>5, <3>1, <4>1 DEF RegsWhole, RegsOnOnePage
      <4>2. CASE k > Len(out)
        <5>0. k \in 1..(Len(out) + q) /\ Len(out) \in Nat /\ q \in Nat
          BY <1>2, <2>1, <2>5
        <5>1. k - Len(out) \in 1..q /\ ~(k <= Len(out))
          BY <4>2, <5>0
        <5>2. out'[k] = NoOps(size, q)[k - Len(out)]
          BY <2>5, <5>0, <5>1
        <5> QED BY <2>3, <3>1, <5>1, <5>2
      <4> QED BY <1>2, <2>5, <4>1, <4>2
    <3> QED BY <3>1 DEF RegsWhole, RegsOnOnePage
  <2>7. TypeOK'
    <3>1. size' \in Nat /\ numOps' \in Nat
      BY <1>2, <2>1, <2>2
    <3> QED BY <1>1, <2>2, <2>4, <2>5, <3>1 DEF PadUpdateReg, IInv, TypeOK, record, reser
  <2>8. LayoutInv' /\ RoomInv' /\ CountInv' /\ ChunkInv'
    BY <1>1, <1>2, <2>1, <2>2, <2>4, <2>5, <2>6
    DEF LayoutInv, RoomInv, CountInv, ChunkInv, Building, Written
  <2>9. PatchInv'
    BY <1>1, <1>2, <2>1, <2>4, <2>5 DEF PatchInv
  <2> QED BY <1>4, <2>2, <2>4, <2>7, <2>8, <2>9 DEF IInv, NothingLeaked, PaddingInPlace
<1> QED BY <1>5, <1>6

LEMMA StepScan ==
    ASSUME IInv, Scan
    PROVE  IInv'
<1>1. src[i] \in Item
  BY SeqFacts DEF Scan, IInv, TypeOK
<1>2. /\ phase = "scan" /\ phase' \in {"scan", "unserved"} /\ cmds' = cmds /\ src' = src
      /\ numOps' = numOps /\ out' = out /\ chunk' = chunk
  BY DEF Scan, record
<1>3. TypeOK'
  <2>1. i' \in Nat \ {0} /\ size' \in Nat
    <3>1. src[i].size \in Nat /\ size \in Nat /\ i \in Nat \ {0}
      BY <1>1 DEF IInv, TypeOK, Item
    <3>2. /\ size' = size \/ size' = size + src[i].size
          /\ i' = i \/ i' = i + 1
      BY DEF Scan
    <3> QED BY <3>1, <3>2
  <2>2. spilled' \in BOOLEAN
    BY Zenon DEF Scan, IInv, TypeOK
  <2> QED BY <1>2, <2>1, <2>2 DEF Scan, IInv, TypeOK, record, Phases
<1> QED BY <1>2, <1>3
  DEF IInv, NothingLeaked, PaddingInPlace, RoomInv, LayoutInv, CountInv, PatchInv, ChunkInv,
      CmdInv, Building, Written

LEMMA StepEndScan ==
    ASSUME IInv, EndScan
    PROVE  IInv'
<1>1. /\ phase = "scan" /\ cmds' = cmds /\ src' = src /\ numOps' = numOps /\ out' = out
      /\ chunk' = chunk /\ numOps = 0 /\ out = <<>> /\ chunk = 0
  BY DEF EndScan, record, reser, IInv, CountInv
<1>2. CmdInv'
  BY <1>1 DEF IInv, CmdInv
<1>3. CASE spilled
  <2>1. /\ phase' = "copy" /\ i' = 1 /\ size' = 16 /\ mem' = {"txn"}
        /\ alloc' = [alloc EXCEPT !.txn = 4096]
    BY <1>3 DEF EndScan, TXN_HEADER_SIZE, DEFAULT_TXN_BUFFER_SIZE
  <2>2. alloc' \in [{"txn", "bw"} -> Nat] /\ alloc'.txn = 4096
    <3>1. alloc \in [{"txn", "bw"} -> Nat]
      BY DEF IInv, TypeOK
    <3> QED BY <2>1, <3>1
  <2>3. TypeOK'
    BY <1>1, <2>1, <2>2 DEF EndScan, IInv, TypeOK, record, reser, Phases
  <2>4. Len(out') = 0 /\ DOMAIN out' = {} /\ out' = <<>>
    BY <1>1
  <2>5. LayoutInv'
    <3>1. Tiling(src) /\ RegsWhole(src)
      BY <1>1 DEF IInv, LayoutInv
    <3> QED BY <1>1, <2>1, <2>4, <3>1
        DEF LayoutInv, Building, Written, Tiling, RegsWhole, RegsOnOnePage, EndOf, TXN_HEADER_SIZE
  <2>6. ChunkInv'
    <3>1. Len(src) \in Nat
      BY SeqFacts DEF IInv, TypeOK
    <3> QED BY <1>1, <2>1, <3>1 DEF ChunkInv
  <2>7. RoomInv' /\ CountInv' /\ PatchInv'
    BY <1>1, <2>1, <2>2, <2>4 DEF RoomInv, Room, CountInv, PatchInv, Building, Written
  <2> QED BY <1>2, <2>1, <2>3, <2>5, <2>6, <2>7 DEF IInv, NothingLeaked, PaddingInPlace
<1>4. CASE ~spilled
  <2>1. phase' = "kept"
    BY <1>4 DEF EndScan
  <2>2. TypeOK'
    BY <1>4, <2>1 DEF EndScan, IInv, TypeOK, record, reser, Phases
  <2> QED BY <1>2, <2>1, <2>2, QuietPhase
<1> QED BY <1>3, <1>4

(* While a transaction is copied.                                           *)
Copying ==
    /\ out \in Seq(Item) /\ Len(out) \in Nat /\ DOMAIN out = 1..Len(out)
    /\ Tiling(out) /\ RegsWhole(out) /\ RegsOnOnePage(out)
    /\ size \in Nat /\ size = EndOf(out) /\ alloc.txn \in Nat /\ size <= alloc.txn
    /\ Room(alloc.txn) /\ numOps = Len(out)
    /\ chunk \in Nat /\ i \in Nat /\ chunk < i /\ Len(src) \in Nat /\ i <= Len(src) + 1
    /\ \A k \in 1..Len(src) : src[k] \in Item /\ src[k].at \in Nat /\ src[k].size \in Nat
    /\ \A k \in 1..Len(src) : k # 1 => src[k].at = src[k - 1].at + src[k - 1].size
    /\ \A k \in 1..Len(src) : src[k].op = "update_reg" => src[k].size = 12
    /\ \A k \in (i - chunk)..(i - 1) :
          /\ src[k].at >= src[i - chunk].at
          /\ src[k].op = "update_reg" => OnePage(size + src[k].at - src[i - chunk].at)

LEMMA CopyingFacts ==
    ASSUME IInv, phase = "copy"
    PROVE  Copying
<1>1. /\ out \in Seq(Item) /\ Len(out) \in Nat /\ DOMAIN out = 1..Len(out)
      /\ src \in Seq(Item) /\ Len(src) \in Nat /\ DOMAIN src = 1..Len(src)
      /\ \A k \in 1..Len(src) : src[k] \in Item
  BY SeqFacts DEF IInv, TypeOK
<1>2. /\ Tiling(out) /\ RegsWhole(out) /\ RegsOnOnePage(out) /\ size = EndOf(out)
      /\ Tiling(src) /\ RegsWhole(src) /\ size <= alloc.txn /\ Room(alloc.txn)
      /\ numOps = Len(out)
  BY DEF IInv, LayoutInv, RoomInv, CountInv, Building
<1>3. size \in Nat /\ alloc.txn \in Nat /\ chunk \in Nat /\ i \in Nat
  BY DEF IInv, TypeOK
<1>4. \A k \in 1..Len(src) : src[k].at \in Nat /\ src[k].size \in Nat
  BY <1>1 DEF Item
<1>5. /\ \A k \in 1..Len(src) : k # 1 => src[k].at = src[k - 1].at + src[k - 1].size
      /\ \A k \in 1..Len(src) : src[k].op = "update_reg" => src[k].size = 12
  BY <1>1, <1>2 DEF Tiling, RegsWhole
<1>6. ChunkInv
  BY DEF IInv
<1> QED BY <1>1, <1>2, <1>3, <1>4, <1>5, <1>6 DEF Copying, ChunkInv

LEMMA ChunkBytesFacts ==
    ASSUME Copying
    PROVE  /\ ChunkBytes \in Nat
           /\ i <= Len(src) => ChunkBytes = src[i].at - src[i - chunk].at
<1>1. CASE chunk = 0
  <2>1. i - chunk = i
    BY <1>1 DEF Copying
  <2>2. i <= Len(src) => src[i].at \in Nat
    BY DEF Copying
  <2> QED BY <1>1, <2>1, <2>2 DEF ChunkBytes
<1>2. CASE chunk # 0
  <2>1. /\ i - 1 \in 1..Len(src) /\ i - chunk \in 1..Len(src) /\ i - 1 \in (i - chunk)..(i - 1)
        /\ i # 1
    BY <1>2 DEF Copying
  <2>2. /\ src[i - 1].at >= src[i - chunk].at /\ src[i - 1].at \in Nat /\ src[i - 1].size \in Nat
        /\ src[i - chunk].at \in Nat
    BY <2>1 DEF Copying
  <2>3. ChunkBytes = src[i - 1].at + src[i - 1].size - src[i - chunk].at
    BY <1>2 DEF ChunkBytes
  <2>4. i <= Len(src) => src[i].at = src[i - 1].at + src[i - 1].size
    <3>1. i <= Len(src) => i \in 1..Len(src)
      BY DEF Copying
    <3> QED BY <2>1, <3>1 DEF Copying
  <2>5. ChunkBytes \in Nat /\ (i <= Len(src) => ChunkBytes = src[i].at - src[i - chunk].at)
    <3> DEFINE u == src[i - 1].at   v == src[i - chunk].at   w == src[i - 1].size   x == src[i].at
    <3>1. /\ u \in Nat /\ v \in Nat /\ w \in Nat /\ u >= v /\ ChunkBytes = u + w - v
          /\ i <= Len(src) => x = u + w
      BY <2>2, <2>3, <2>4
    <3> HIDE DEF u, v, w, x
    <3>2. ChunkBytes \in Nat /\ (i <= Len(src) => ChunkBytes = x - v)
      BY <3>1
    <3> QED BY <3>2 DEF x, v
  <2> QED BY <2>5
<1> QED BY <1>1, <1>2

LEMMA StepJoinChunk ==
    ASSUME IInv, JoinChunk
    PROVE  IInv'
<1>1. /\ phase = "copy" /\ ~ChunkSpills /\ ~(i > Len(src)) /\ chunk' = chunk + 1 /\ i' = i + 1
      /\ cmds' = cmds /\ src' = src /\ size' = size /\ out' = out /\ numOps' = numOps
      /\ phase' = phase /\ alloc' = alloc /\ mem' = mem
  BY DEF JoinChunk, CopyDue, record
<1>2. Copying
  BY <1>1, CopyingFacts
<1>3. /\ chunk \in Nat /\ i \in Nat /\ chunk < i /\ i \in 1..Len(src) /\ size \in Nat
      /\ Len(src) \in Nat
  BY <1>1, <1>2 DEF Copying
<1>4. ChunkBytes \in Nat /\ ChunkBytes = src[i].at - src[i - chunk].at
  BY <1>2, <1>3, ChunkBytesFacts
<1>5. i - chunk \in 1..Len(src) /\ src[i].at \in Nat /\ src[i - chunk].at \in Nat
  <2>1. i - chunk \in 1..Len(src)
    BY <1>3
  <2> QED BY <1>2, <1>3, <2>1 DEF Copying
<1>6. src[i].at >= src[i - chunk].at
  BY <1>4, <1>5
<1>7. src[i].op = "update_reg" => OnePage(size + src[i].at - src[i - chunk].at)
  <2>1. HdrSize(ver, "update_reg") = 12
    BY DEF HdrSize, BlockOps, PayloadOps
  <2>2. size + ChunkBytes = size + src[i].at - src[i - chunk].at /\ size + ChunkBytes \in Nat
    BY <1>3, <1>4, <1>5
  <2>3. src[i].op = "update_reg" => ~Spills(12, size + ChunkBytes)
    BY <1>1, <1>3, <2>1 DEF ChunkSpills
  <2> QED BY <2>2, <2>3, Pages
<1>8. ChunkInv'
  <2>1. /\ i' - chunk' = i - chunk /\ i' - 1 = i /\ chunk' < i' /\ i' <= Len(src) + 1
        /\ \A k \in (i - chunk)..i : k = i \/ k \in (i - chunk)..(i - 1)
    BY <1>1, <1>3
  <2>2. \A k \in (i - chunk)..(i - 1) :
          /\ src[k].at >= src[i - chunk].at
          /\ src[k].op = "update_reg" => OnePage(size + src[k].at - src[i - chunk].at)
    BY <1>2 DEF Copying
  <2>3. \A k \in (i - chunk)..i :
          /\ src[k].at >= src[i - chunk].at
          /\ src[k].op = "update_reg" => OnePage(size + src[k].at - src[i - chunk].at)
    BY <1>6, <1>7, <2>1, <2>2
  <2> QED BY <1>1, <2>1, <2>3 DEF ChunkInv
<1>9. TypeOK'
  <2>1. i' \in Nat \ {0} /\ chunk' \in Nat
    BY <1>1, <1>3
  <2> QED BY <2>1 DEF JoinChunk, IInv, TypeOK, record
<1> QED BY <1>1, <1>8, <1>9
  DEF IInv, NothingLeaked, PaddingInPlace, RoomInv, LayoutInv, CountInv, PatchInv, CmdInv,
      Building, Written

(* The copy of a chunk lies end to end from the end of the buffer on.       *)
CopiedInv ==
    /\ Copied \in Seq(Item) /\ Len(Copied) = chunk /\ DOMAIN Copied = 1..chunk
    /\ Follows(Copied, size) /\ EndFrom(Copied, size) = size + ChunkBytes
    /\ RegsWhole(Copied) /\ RegsOnOnePage(Copied)

LEMMA CopiedFacts ==
    ASSUME Copying
    PROVE  CopiedInv
<1> DEFINE f == i - chunk
           c == Copied
<1>1. /\ chunk \in Nat /\ i \in Nat /\ f \in Nat /\ f # 0 /\ i = f + chunk /\ size \in Nat
      /\ i <= Len(src) + 1 /\ Len(src) \in Nat
  BY DEF Copying
<1>2. \A k \in 1..chunk :
         /\ f + k - 1 \in 1..Len(src) /\ f + k - 1 \in f..(i - 1)
         /\ i - chunk + k - 1 = f + k - 1
  BY <1>1
<1>3. ASSUME NEW k \in 1..chunk
      PROVE  LET o == src[f + k - 1]
             IN /\ [o EXCEPT !.at = size + o.at - src[f].at] \in Item
                /\ [o EXCEPT !.at = size + o.at - src[f].at].at = size + o.at - src[f].at
                /\ [o EXCEPT !.at = size + o.at - src[f].at].size = o.size
                /\ [o EXCEPT !.at = size + o.at - src[f].at].op = o.op
  <2> DEFINE o == src[f + k - 1]
             x == size + o.at - src[f].at
  <2>1. o \in Item /\ o.at \in Nat /\ o.at >= src[f].at
    BY <1>2 DEF Copying
  <2>2. src[f].at \in Nat
    <3>1. f \in 1..Len(src)
      BY <1>1
    <3> QED BY <3>1 DEF Copying
  <2>3. x \in Nat
    <3> DEFINE u == o.at   v == src[f].at
    <3>1. u \in Nat /\ v \in Nat /\ u >= v /\ x = size + u - v /\ size \in Nat
      BY <1>1, <2>1, <2>2
    <3> HIDE DEF u, v, x, o
    <3> QED BY <3>1
  <2> HIDE DEF x, o
  <2>4. /\ [o EXCEPT !.at = x] \in Item /\ [o EXCEPT !.at = x].at = x
        /\ [o EXCEPT !.at = x].size = o.size /\ [o EXCEPT !.at = x].op = o.op
    BY <2>1, <2>3 DEF Item
  <2> QED BY <2>4 DEF x, o
<1>4. c = [k \in 1..chunk |-> [src[f + k - 1] EXCEPT !.at = size + src[f + k - 1].at - src[f].at]]
  BY <1>2 DEF Copied
<1> HIDE DEF c
<1>5. c \in [1..chunk -> Item]
  BY <1>3, <1>4
<1>6. c \in Seq(Item) /\ Len(c) = chunk /\ DOMAIN c = 1..chunk /\ (c = <<>> <=> chunk = 0)
  <2>1. c \in Seq(Item) /\ Len(c) = chunk /\ DOMAIN c = 1..chunk
    BY <1>1, <1>5, FunIsSeq
  <2> QED BY <2>1, SeqFacts
<1>7. \A k \in 1..chunk : /\ c[k].at = size + src[f + k - 1].at - src[f].at
                          /\ c[k].size = src[f + k - 1].size /\ c[k].op = src[f + k - 1].op
  BY <1>3, <1>4
<1>8. \A k \in 1..Len(src) : src[k].at \in Nat /\ src[k].size \in Nat
  BY DEF Copying
<1>9. Follows(c, size)
  <2>1. ASSUME NEW k \in 1..chunk
        PROVE  c[k].at = IF k = 1 THEN size ELSE c[k - 1].at + c[k - 1].size
    <3>1. CASE k = 1
      <4>1. f + k - 1 = f /\ f \in 1..Len(src)
        BY <1>1, <3>1
      <4> QED BY <1>1, <1>7, <1>8, <3>1, <4>1
    <3>2. CASE k # 1
      <4>1. /\ k - 1 \in 1..chunk /\ f + (k - 1) - 1 = (f + k - 1) - 1 /\ f + k - 1 # 1
            /\ f + k - 1 \in 1..Len(src) /\ (f + k - 1) - 1 \in 1..Len(src) /\ f \in 1..Len(src)
        BY <1>1, <3>2
      <4>2. src[f + k - 1].at = src[(f + k - 1) - 1].at + src[(f + k - 1) - 1].size
        BY <4>1 DEF Copying
      <4>3. /\ c[k].at = size + src[f + k - 1].at - src[f].at
            /\ c[k - 1].at = size + src[(f + k - 1) - 1].at - src[f].at
            /\ c[k - 1].size = src[(f + k - 1) - 1].size
        BY <1>7, <4>1
      <4>4. /\ src[(f + k - 1) - 1].at \in Nat /\ src[(f + k - 1) - 1].size \in Nat
            /\ src[f].at \in Nat /\ size \in Nat
        BY <1>1, <1>8, <4>1
      <4> HIDE DEF f
      <4> QED BY <3>2, <4>2, <4>3, <4>4
    <3> QED BY <3>1, <3>2
  <2> QED BY <1>6, <2>1 DEF Follows
<1>10. EndFrom(c, size) = size + ChunkBytes
  <2>1. CASE chunk = 0
    BY <1>1, <1>6, <2>1 DEF EndFrom, ChunkBytes
  <2>2. CASE chunk # 0
    <3>1. /\ chunk \in 1..chunk /\ f + chunk - 1 = i - 1 /\ i - 1 \in 1..Len(src)
          /\ f \in 1..Len(src)
      BY <1>1, <2>2
    <3>2. c[chunk].at = size + src[i - 1].at - src[f].at /\ c[chunk].size = src[i - 1].size
      BY <1>7, <3>1
    <3>3. EndFrom(c, size) = c[chunk].at + c[chunk].size
      BY <1>6, <2>2 DEF EndFrom
    <3>4. ChunkBytes = src[i - 1].at + src[i - 1].size - src[f].at
      BY <2>2 DEF ChunkBytes
    <3>5. /\ src[i - 1].at \in Nat /\ src[i - 1].size \in Nat /\ src[f].at \in Nat
          /\ size \in Nat
      BY <1>1, <1>8, <3>1
    <3> HIDE DEF f
    <3> QED BY <3>2, <3>3, <3>4, <3>5
  <2> QED BY <2>1, <2>2
<1>11. RegsWhole(c) /\ RegsOnOnePage(c)
  <2>1. ASSUME NEW k \in 1..chunk, c[k].op = "update_reg"
        PROVE  c[k].size = 12 /\ OnePage(c[k].at)
    <3>1. /\ src[f + k - 1].op = "update_reg" /\ c[k].size = src[f + k - 1].size
          /\ c[k].at = size + src[f + k - 1].at - src[f].at
      BY <1>7, <2>1
    <3>2. /\ src[f + k - 1].size = 12
          /\ OnePage(size + src[f + k - 1].at - src[f].at)
      BY <1>2, <3>1 DEF Copying
    <3> QED BY <3>1, <3>2
  <2> QED BY <1>6, <2>1 DEF RegsWhole, RegsOnOnePage
<1> QED BY <1>6, <1>9, <1>10, <1>11 DEF c, CopiedInv

(* Joining sequences whose UPDATE_REGs are in place.                        *)
LEMMA ConcatRegs ==
    ASSUME NEW s \in Seq(Item), NEW t \in Seq(Item), RegsWhole(s), RegsOnOnePage(s),
           RegsWhole(t), RegsOnOnePage(t)
    PROVE  RegsWhole(s \o t) /\ RegsOnOnePage(s \o t)
<1> DEFINE u == s \o t
<1>1. /\ u \in Seq(Item) /\ Len(u) = Len(s) + Len(t)
      /\ \A k \in 1..(Len(s) + Len(t)) : u[k] = IF k <= Len(s) THEN s[k] ELSE t[k - Len(s)]
  BY ConcatProperties
<1>2. /\ Len(s) \in Nat /\ DOMAIN s = 1..Len(s) /\ Len(t) \in Nat /\ DOMAIN t = 1..Len(t)
  BY SeqFacts
<1> HIDE DEF u
<1>3. DOMAIN u = 1..(Len(s) + Len(t))
  BY <1>1, SeqFacts
<1>4. ASSUME NEW k \in DOMAIN u, u[k].op = "update_reg"
      PROVE  u[k].size = 12 /\ OnePage(u[k].at)
  <2>1. CASE k <= Len(s)
    <3>1. k \in DOMAIN s /\ u[k] = s[k]
      BY <1>1, <1>2, <1>3, <2>1
    <3> QED BY <1>4, <3>1 DEF RegsWhole, RegsOnOnePage
  <2>2. CASE k > Len(s)
    <3>1. k - Len(s) \in DOMAIN t /\ u[k] = t[k - Len(s)]
      BY <1>1, <1>2, <1>3, <2>2
    <3> QED BY <1>4, <3>1 DEF RegsWhole, RegsOnOnePage
  <2> QED BY <1>2, <1>3, <2>1, <2>2
<1> QED BY <1>4 DEF u, RegsWhole, RegsOnOnePage

(* The buffer with the chunk behind it.                                     *)
WithChunk ==
    LET s == out \o Copied
    IN /\ s \in Seq(Item) /\ Len(s) = Len(out) + chunk /\ Len(s) \in Nat
       /\ Tiling(s) /\ RegsWhole(s) /\ RegsOnOnePage(s)
       /\ EndOf(s) = size + ChunkBytes /\ size + ChunkBytes \in Nat
       /\ Len(s) = numOps + chunk

LEMMA WithChunkFacts ==
    ASSUME Copying
    PROVE  WithChunk
<1>1. CopiedInv
  BY CopiedFacts
<1>2. /\ Copied \in Seq(Item) /\ Len(Copied) = chunk /\ Follows(Copied, size)
      /\ EndFrom(Copied, size) = size + ChunkBytes /\ RegsWhole(Copied) /\ RegsOnOnePage(Copied)
  BY <1>1 DEF CopiedInv
<1>3. /\ out \in Seq(Item) /\ Tiling(out) /\ RegsWhole(out) /\ RegsOnOnePage(out)
      /\ size = EndOf(out) /\ size \in Nat /\ Len(out) \in Nat /\ numOps = Len(out)
      /\ chunk \in Nat
  BY DEF Copying
<1>4. /\ out \o Copied \in Seq(Item) /\ Len(out \o Copied) = Len(out) + Len(Copied)
      /\ Tiling(out \o Copied) /\ EndOf(out \o Copied) = EndFrom(Copied, EndOf(out))
  BY <1>2, <1>3, ConcatLayout
<1>5. RegsWhole(out \o Copied) /\ RegsOnOnePage(out \o Copied)
  BY <1>2, <1>3, ConcatRegs
<1>6. ChunkBytes \in Nat
  BY ChunkBytesFacts
<1> QED BY <1>2, <1>3, <1>4, <1>5, <1>6 DEF WithChunk

LEMMA StepCopyRest ==
    ASSUME IInv, CopyRest
    PROVE  IInv'
<1>1. /\ phase = "copy" /\ phase' = "reserialized" /\ cmds' = cmds
      /\ out' = out \o Copied /\ numOps' = numOps + chunk /\ size' = Aligned(size + ChunkBytes)
      /\ chunk' = 0
  BY DEF CopyRest, record
<1>2. WithChunk
  BY <1>1, CopyingFacts, WithChunkFacts
<1>3. TypeOK'
  <2>1. out' \in Seq(Item) /\ numOps' \in Nat /\ size' \in Nat
    BY <1>1, <1>2 DEF WithChunk, Aligned
  <2> QED BY <1>1, <2>1 DEF CopyRest, IInv, TypeOK, record, Phases
<1>4. LayoutInv' /\ CountInv'
  BY <1>1, <1>2 DEF WithChunk, LayoutInv, CountInv, Building, Written
<1> QED BY <1>1, <1>3, <1>4
  DEF IInv, NothingLeaked, PaddingInPlace, RoomInv, PatchInv, ChunkInv, CmdInv, Building

LEMMA StepCopyAndPad ==
    ASSUME IInv, CopyAndPad
    PROVE  IInv'
<1> DEFINE at == size + ChunkBytes
           r == NextBoundary(at) - at
           q == r \div 4
           s == out \o Copied
<1>1. /\ phase = "copy" /\ ChunkSpills /\ Fits /\ cmds' = cmds /\ chunk' = 0 /\ i' = i
      /\ src' = src /\ alloc' = alloc
  BY DEF CopyAndPad, ChunkSpills, record
<1>2. Copying
  BY <1>1, CopyingFacts
<1>3. /\ s \in Seq(Item) /\ Len(s) = numOps + chunk /\ Len(s) \in Nat /\ Tiling(s)
      /\ RegsWhole(s) /\ RegsOnOnePage(s) /\ EndOf(s) = at /\ at \in Nat
  BY <1>2, WithChunkFacts DEF WithChunk
<1>4. CmdInv'
  BY <1>1 DEF IInv, CmdInv
<1>5. CASE r % 4 # 0
  <2>1. /\ phase' = "unserved" /\ size' = at /\ out' = s /\ numOps' = numOps + chunk /\ mem' = {}
    BY <1>5 DEF CopyAndPad
  <2>2. TypeOK'
    <3>1. out' \in Seq(Item) /\ numOps' \in Nat /\ size' \in Nat
      BY <1>3, <2>1
    <3> HIDE DEF at, r, q, s
    <3> QED BY <1>1, <2>1, <3>1 DEF CopyAndPad, IInv, TypeOK, record, Phases
  <2> QED BY <1>4, <2>1, <2>2, QuietPhase
<1>6. CASE r % 4 = 0
  <2>1. /\ phase' = (IF at + r > alloc.txn THEN "stale" ELSE phase)
        /\ size' = at + r /\ out' = s \o NoOps(at, q) /\ numOps' = numOps + chunk + q /\ mem' = mem
    BY <1>6 DEF CopyAndPad
  <2>2. at <= alloc.txn /\ Room(alloc.txn) /\ alloc.txn \in Nat
    <3>1. Need.txn = at
      BY <1>1 DEF Need, FlushDue, CopyDue
    <3> QED BY <1>1, <1>2, <3>1 DEF Fits, Copying
  <2>3. Spills(12, at)
    BY <1>1 DEF ChunkSpills, HdrSize, BlockOps, PayloadOps
  <2>4. NextBoundary(at) \in Nat /\ NextBoundary(at) > at /\ NextBoundary(at) <= alloc.txn
    BY <1>3, <2>2, <2>3, Pages
  <2> HIDE DEF at, s
  <2>5. q \in Nat /\ at + r = at + 4 * q /\ at + r \in Nat /\ at + r <= alloc.txn
    <3>1. r \in Nat /\ at + r = NextBoundary(at)
      BY <1>3, <2>4
    <3>2. q \in Nat /\ r = 4 * q
      <4> HIDE DEF r
      <4> QED BY <1>6, <3>1
    <3> QED BY <2>4, <3>1, <3>2
  <2> HIDE DEF q, r
  <2>6. /\ NoOps(at, q) \in Seq(Item) /\ Len(NoOps(at, q)) = q
        /\ Follows(NoOps(at, q), at) /\ EndFrom(NoOps(at, q), at) = at + 4 * q
        /\ \A k \in DOMAIN NoOps(at, q) : NoOps(at, q)[k].op = "noop"
    BY <1>3, <2>5, NoOpsFacts
  <2>7. RegsWhole(NoOps(at, q)) /\ RegsOnOnePage(NoOps(at, q))
    BY <2>6 DEF RegsWhole, RegsOnOnePage
  <2>8. /\ out' \in Seq(Item) /\ Len(out') = Len(s) + q /\ Tiling(out')
        /\ EndOf(out') = at + 4 * q
    BY <1>3, <2>1, <2>6, ConcatLayout
  <2>9. RegsWhole(out') /\ RegsOnOnePage(out')
    BY <1>3, <2>1, <2>6, <2>7, ConcatRegs
  <2>10. phase' = "copy" /\ size' <= alloc.txn /\ size' = EndOf(out') /\ size' \in Nat
    BY <1>1, <2>1, <2>2, <2>5, <2>8
  <2>11. numOps' = Len(out') /\ numOps' \in Nat
    BY <1>3, <2>1, <2>5, <2>8
  <2>12. TypeOK'
    BY <1>1, <2>1, <2>8, <2>10, <2>11 DEF CopyAndPad, IInv, TypeOK, record, Phases
  <2>13. LayoutInv'
    <3>1. Tiling(src) /\ RegsWhole(src)
      BY <1>1 DEF IInv, LayoutInv
    <3> QED BY <1>1, <2>8, <2>9, <2>10, <3>1 DEF LayoutInv, Building, Written
  <2>14. ChunkInv'
    <3>1. 0 < i /\ i <= Len(src) + 1 /\ i \in Nat /\ (i - 0)..(i - 1) = {}
      BY <1>2 DEF Copying
    <3> QED BY <1>1, <3>1 DEF ChunkInv
  <2>15. RoomInv' /\ CountInv' /\ PatchInv'
    BY <1>1, <2>2, <2>10, <2>11 DEF RoomInv, CountInv, PatchInv, Building, Written
  <2> QED BY <1>4, <2>1, <2>10, <2>12, <2>13, <2>14, <2>15 DEF IInv, NothingLeaked, PaddingInPlace
<1> QED BY <1>5, <1>6

LEMMA StepStutter ==
    ASSUME IInv, UNCHANGED vars
    PROVE  IInv'
<1>1. /\ cmds' = cmds /\ pmActive' = pmActive /\ entry' = entry /\ exports' = exports
      /\ phase' = phase /\ ver' = ver /\ i' = i /\ out' = out /\ size' = size
      /\ numOps' = numOps /\ bw' = bw /\ patches' = patches /\ loadSeq' = loadSeq
      /\ hdr' = hdr /\ alloc' = alloc /\ mem' = mem /\ src' = src /\ spilled' = spilled
      /\ chunk' = chunk
  BY DEF vars, record, walk, reser
<1> QED BY <1>1
  DEF IInv, TypeOK, NothingLeaked, PaddingInPlace, RoomInv, LayoutInv, CountInv, PatchInv,
      ChunkInv, CmdInv, Building, Written

LEMMA NextIInv == IInv /\ [Next]_vars => IInv'
<1> SUFFICES ASSUME IInv, [Next]_vars PROVE IInv'
  OBVIOUS
<1>1. CASE Client
  BY <1>1, StepClient, StepExport, StepReserialize DEF Client
<1>2. CASE Growth
  BY <1>2, StepGrow, StepGrowFails DEF Growth
<1>3. CASE Serializer
  BY <1>3, StepFlushBlock, StepPad, StepAppendCmd, StepPmStart, StepPmEnd, StepStartBlock,
     StepCoalesce, StepComplete DEF Serializer
<1>4. CASE Reserializer
  BY <1>4, StepScan, StepEndScan, StepJoinChunk, StepCopyAndPad, StepCopyRest DEF Reserializer
<1>5. CASE UNCHANGED vars
  BY <1>5, StepStutter
<1> QED BY <1>1, <1>2, <1>3, <1>4, <1>5 DEF Next

----------------------------------------------------------------------------
(* Every reachable state satisfies the invariant the properties rest on.    *)
THEOREM InvariantHolds == Spec => []IInv
<1> QED BY InitIInv, NextIInv, PTL DEF Spec

(* Padding an UPDATE_REG to the next page never moves the buffer, so the    *)
(* base pointer both callers keep across the call stays good: a buffer that *)
(* holds some bytes of a page holds all of it, or is at most 8 KB.          *)
THEOREM PaddingInPlaceHolds == Spec => []PaddingInPlace
<1>1. IInv => PaddingInPlace
  BY DEF IInv
<1> QED BY <1>1, InvariantHolds, PTL

(* An export and a re-serialization leave a binary without gap or overlap,  *)
(* whose size is that of its operations, rounded up.                        *)
THEOREM TiledHolds == Spec => []Tiled
<1>1. IInv => Tiled
  BY DEF IInv, LayoutInv, Tiled
<1> QED BY <1>1, InvariantHolds, PTL

(* The header of a finished binary counts its operations.                   *)
THEOREM NumOpsRightHolds == Spec => []NumOpsRight
<1>1. IInv => NumOpsRight
  BY DEF IInv, CountInv, NumOpsRight
<1> QED BY <1>1, InvariantHolds, PTL

(* No UPDATE_REG of a finished binary crosses a page.                       *)
THEOREM NoUpdateRegOnTwoPagesHolds == Spec => []NoUpdateRegOnTwoPages
<1>1. ASSUME IInv, Written, NEW k \in DOMAIN out, out[k].op = "update_reg"
      PROVE  out[k].at \div BOUNDARY_16KB = (out[k].at + out[k].size - 1) \div BOUNDARY_16KB
  <2>1. out[k] \in Item
    <3>1. out \in Seq(Item)
      BY <1>1 DEF IInv, TypeOK
    <3> QED BY <1>1, <3>1, SeqFacts
  <2>2. out[k].at \in Nat /\ out[k].size = 12 /\ OnePage(out[k].at)
    BY <1>1, <2>1 DEF Item, IInv, LayoutInv, RegsWhole, RegsOnOnePage
  <2>3. out[k].at + out[k].size - 1 = out[k].at + 11
    BY <2>2
  <2> QED BY <2>2, <2>3 DEF OnePage
<1>2. IInv => NoUpdateRegOnTwoPages
  BY <1>1 DEF NoUpdateRegOnTwoPages
<1> QED BY <1>2, InvariantHolds, PTL

(* An export that fails has freed both of its buffers.                      *)
THEOREM NothingLeakedHolds == Spec => []NothingLeaked
<1>1. IInv => NothingLeaked
  BY DEF IInv
<1> QED BY <1>1, InvariantHolds, PTL

(* Both together: what BuffersSafe asks of the buffers.                     *)
THEOREM BuffersSafeHolds == Spec => []BuffersSafe
<1>1. IInv => BuffersSafe
  BY DEF IInv, BuffersSafe
<1> QED BY <1>1, InvariantHolds, PTL

(* A binary is well formed: the header counts its operations, which tile it. *)
THEOREM WellFormedHolds == Spec => []WellFormed
<1>1. NumOpsRight /\ Tiled => WellFormed
  BY DEF WellFormed
<1> QED BY <1>1, NumOpsRightHolds, TiledHolds, PTL

(* Every variable of the exporter and the re-serializer keeps its type.      *)
THEOREM TypeCorrect == Spec => []TypeOK
<1>1. IInv => TypeOK
  BY DEF IInv
<1> QED BY <1>1, InvariantHolds, PTL
=============================================================================
