----------------------------- MODULE TxnProofs -----------------------------
(***************************************************************************)
(* Type correctness and memory safety of transaction mode, immutability of *)
(* exports and the order of each thread's accesses, for any number of      *)
(* threads, instances, payloads and commands.                              *)
(*                                                                         *)
(* The one hypothesis of the first three is TidUnique, what xaie_io.h says *)
(* of GetTid: without it two threads free the same instance.  The order    *)
(* also needs NothingRefused; allocation may fail in all of them.          *)
(***************************************************************************)
EXTENDS Txn, SequenceTheorems, TLAPS

TidUnique == \A t, u \in Threads : TidOf[t] = TidOf[u] => t = u

(* A listed buffer always has a free slot after the one it would fill next. *)
RoomInv ==
    \A i \in Insts : inst[i].st = "listed" =>
        Len(inst[i].cmds) < inst[i].max /\ inst[i].init \in Nat \ {0}

(* Until the device is closed, the list has exactly started instances, each *)
(* once.                                                                    *)
ListInv ==
    ready => /\ \A k \in DOMAIN TxnList : inst[TxnList[k]].st = "listed"
             /\ \A j, k \in DOMAIN TxnList : TxnList[j] = TxnList[k] => j = k

(* What a thread is flushing is exported, or still what it finds in the     *)
(* list.                                                                    *)
FlushInv ==
    \A t \in Threads : fl[t] # NoFlush =>
        /\ fl[t].inst \in Insts
        /\ ready
        /\ inst[fl[t].inst].st = "exported" \/ Found(t, fl[t].inst)

(* The part of the invariant that speaks of instances and payloads only.    *)
MemInv ==
    /\ inst \in [Insts -> Inst]
    /\ heap \in [Payloads -> PayloadTags \cup {"free"}]
    /\ fault \in Faults
    /\ RoomInv
    /\ PayloadOwnership
    /\ NoBadMemoryAccess

FlushType == [inst : Insts \cup {NULL}, pos : Nat, then : Kinds \cup {"none", "Submit"}]
OutType == [id : Nat, ask : Kinds \cup {"none"}, did : Kinds \cup {"none"}, own : BOOLEAN]

(* TypeOK without what MemInv says.                                         *)
RestTypeOK ==
    /\ TxnList \in Seq(Insts)
    /\ fl \in [Threads -> FlushType]
    /\ arraySize \in Nat \ {0}
    /\ pmActive \in BOOLEAN /\ ready \in BOOLEAN
    /\ issued \in [Threads -> Nat]
    /\ out \in [Threads -> OutType]

IInv == TypeOK /\ MemInv /\ ListInv /\ FlushInv

(* Instances keep their place and their owner.                              *)
SameShape ==
    \A i \in Insts : inst'[i].st = inst[i].st /\ inst'[i].tid = inst[i].tid

----------------------------------------------------------------------------
(* Facts about single instances.                                            *)

LEMMA AppendCmd ==
    ASSUME NEW s \in Seq(Cmd), NEW c \in Cmd
    PROVE  /\ Append(s, c) \in Seq(Cmd)
           /\ Len(s) \in Nat /\ Len(Append(s, c)) = Len(s) + 1
           /\ DOMAIN s = 1..Len(s) /\ DOMAIN Append(s, c) = 1..(Len(s) + 1)
           /\ \A k \in 1..Len(s) : Append(s, c)[k] = s[k]
           /\ Append(s, c)[Len(s) + 1] = c
OBVIOUS

LEMMA CmdsFacts ==
    ASSUME NEW r \in Inst
    PROVE  /\ r.cmds \in Seq(Cmd) /\ Len(r.cmds) \in Nat
           /\ DOMAIN r.cmds = 1..Len(r.cmds)
           /\ \A k \in DOMAIN r.cmds : r.cmds[k] \in Cmd
           /\ r.max \in Nat /\ r.init \in Nat
           /\ \A k \in Owned(r) : r.cmds[k].data \in Payloads
<1>1. /\ r.cmds \in Seq(Cmd) /\ r.max \in Nat /\ r.init \in Nat
  BY DEF Inst
<1>2. /\ Len(r.cmds) \in Nat /\ DOMAIN r.cmds = 1..Len(r.cmds)
      /\ \A k \in DOMAIN r.cmds : r.cmds[k] \in Cmd
  BY <1>1, LenProperties, ElementOfSeq
<1>3. ASSUME NEW k \in Owned(r) PROVE r.cmds[k].data \in Payloads
  <2>1. r.cmds[k] \in Cmd /\ r.cmds[k].data # NULL
    BY <1>2 DEF Owned
  <2> QED BY <2>1 DEF Cmd
<1> QED BY <1>1, <1>2, <1>3

LEMMA ResizedFacts ==
    ASSUME NEW r \in Inst, NEW m \in Nat, NEW b \in BOOLEAN
    PROVE  LET n == [r EXCEPT !.max = m, !.lost = b] IN
           /\ n \in Inst
           /\ n.st = r.st /\ n.tid = r.tid /\ n.cmds = r.cmds /\ n.init = r.init
           /\ n.max = m
<1> DEFINE n == [r EXCEPT !.max = m, !.lost = b]
<1>1. n.st = r.st /\ n.tid = r.tid /\ n.cmds = r.cmds /\ n.init = r.init /\ n.max = m
  BY DEF Inst
<1>2. n \in Inst
  BY DEF Inst
<1> QED BY <1>1, <1>2

(* Growing a buffer changes its size alone and leaves room for one more.    *)
LEMMA GrownFacts ==
    ASSUME NEW r \in Inst, Len(r.cmds) < r.max, r.init \in Nat \ {0}
    PROVE  /\ Grown(r) \in Inst
           /\ Grown(r).st = r.st /\ Grown(r).tid = r.tid
           /\ Grown(r).cmds = r.cmds /\ Grown(r).init = r.init
           /\ Len(r.cmds) + 1 < Grown(r).max
<1>1. /\ r.lost \in BOOLEAN /\ r.cmds \in Seq(Cmd) /\ Len(r.cmds) \in Nat /\ r.max \in Nat
  BY CmdsFacts DEF Inst
<1>2. CASE NeedsGrowth(r)
  <2> DEFINE b == r.lost /\ r.cmds # <<>>
  <2>1. b \in BOOLEAN
    BY <1>1
  <2>2. Grown(r) = [r EXCEPT !.max = r.max + r.init, !.lost = b]
    BY <1>2, Zenon DEF Grown
  <2>3. r.max + r.init \in Nat
    BY <1>1
  <2> HIDE DEF b
  <2>4. /\ Grown(r) \in Inst
        /\ Grown(r).st = r.st /\ Grown(r).tid = r.tid
        /\ Grown(r).cmds = r.cmds /\ Grown(r).init = r.init
        /\ Grown(r).max = r.max + r.init
    <3>1. LET n == [r EXCEPT !.max = r.max + r.init, !.lost = b] IN
          /\ n \in Inst
          /\ n.st = r.st /\ n.tid = r.tid /\ n.cmds = r.cmds /\ n.init = r.init
          /\ n.max = r.max + r.init
      BY <2>1, <2>3, ResizedFacts, Zenon
    <3> QED BY <2>2, <3>1, Zenon
  <2> QED BY <1>1, <1>2, <2>4 DEF NeedsGrowth
<1>3. CASE ~NeedsGrowth(r)
  BY <1>1, <1>3 DEF Grown, NeedsGrowth
<1> QED BY <1>2, <1>3

(* A command appended to an instance adds one slot, owned or not.           *)
LEMMA AppendedFacts ==
    ASSUME NEW r \in Inst, NEW c \in Cmd
    PROVE  LET n == [r EXCEPT !.cmds = Append(@, c)] IN
           /\ n \in Inst
           /\ n.st = r.st /\ n.tid = r.tid /\ n.max = r.max /\ n.init = r.init
           /\ Len(n.cmds) = Len(r.cmds) + 1
           /\ \A k \in Owned(n) :
                \/ k \in Owned(r) /\ n.cmds[k].data = r.cmds[k].data
                \/ k = Len(r.cmds) + 1 /\ n.cmds[k] = c /\ c.data # NULL
<1> DEFINE n == [r EXCEPT !.cmds = Append(@, c)]
<1>1. r.cmds \in Seq(Cmd) BY DEF Inst
<1>2. n.cmds = Append(r.cmds, c) BY DEF Inst
<1>3. n \in Inst BY <1>1, AppendCmd DEF Inst
<1>4. n.st = r.st /\ n.tid = r.tid /\ n.max = r.max /\ n.init = r.init BY DEF Inst
<1>5. ASSUME NEW k \in Owned(n)
      PROVE  \/ k \in Owned(r) /\ n.cmds[k].data = r.cmds[k].data
             \/ k = Len(r.cmds) + 1 /\ n.cmds[k] = c /\ c.data # NULL
  BY <1>1, <1>2, <1>5, AppendCmd DEF Owned
<1>6. Len(n.cmds) = Len(r.cmds) + 1 BY <1>1, <1>2, AppendCmd
<1> QED BY <1>3, <1>4, <1>5, <1>6

----------------------------------------------------------------------------
(* Ownership of payloads.                                                   *)

(* Slot k of instance i held the same payload before the step.              *)
OldSlot(i, k) ==
    /\ Live(i) /\ k \in Owned(inst[i])
    /\ inst[i].cmds[k].data = inst'[i].cmds[k].data

(* A step preserves ownership if the owned slots it leaves hold what they   *)
(* held, still allocated, or payloads it has just allocated, one a slot.    *)
LEMMA OwnershipStep ==
    ASSUME PayloadOwnership,
           \A i \in Insts : Live(i)' => \A k \in Owned(inst'[i]) :
               /\ heap'[inst'[i].cmds[k].data] # "free"
               /\ OldSlot(i, k) \/ heap[inst'[i].cmds[k].data] = "free",
           \A i, j \in Insts : Live(i)' /\ Live(j)' =>
               \A k \in Owned(inst'[i]), l \in Owned(inst'[j]) :
                 /\ heap[inst'[i].cmds[k].data] = "free"
                 /\ inst'[i].cmds[k].data = inst'[j].cmds[l].data
                 => i = j /\ k = l
    PROVE  PayloadOwnership'
<1> SUFFICES ASSUME NEW i \in Insts, Live(i)', NEW k \in Owned(inst'[i])
             PROVE  /\ heap'[inst'[i].cmds[k].data] # "free"
                    /\ \A j \in Insts : Live(j)' => \A l \in Owned(inst'[j]) :
                         inst'[i].cmds[k].data = inst'[j].cmds[l].data => i = j /\ k = l
  BY DEF PayloadOwnership
<1>1. heap'[inst'[i].cmds[k].data] # "free"
  OBVIOUS
<1>2. ASSUME NEW j \in Insts, Live(j)', NEW l \in Owned(inst'[j]),
             inst'[i].cmds[k].data = inst'[j].cmds[l].data
      PROVE  i = j /\ k = l
  <2>1. CASE heap[inst'[i].cmds[k].data] = "free"
    BY <1>2, <2>1
  <2>2. CASE heap[inst'[i].cmds[k].data] # "free"
    <3>1. OldSlot(i, k) /\ OldSlot(j, l)
      BY <1>2, <2>2
    <3> QED BY <1>2, <3>1 DEF PayloadOwnership, OldSlot
  <2> QED BY <2>1, <2>2
<1> QED BY <1>1, <1>2

----------------------------------------------------------------------------
(* The effect of the operators the actions are built from on MemInv.        *)

(* Storing a command in a listed instance succeeds and adds one slot.       *)
LEMMA StoreFacts ==
    ASSUME IInv, NEW i \in Insts, inst[i].st = "listed",
           NEW c \in Cmd, Store(i, c)
    PROVE  /\ fault' = fault
           /\ inst' \in [Insts -> Inst]
           /\ \A j \in Insts : j # i => inst'[j] = inst[j]
           /\ inst'[i].st = "listed" /\ inst'[i].tid = inst[i].tid
           /\ Len(inst'[i].cmds) < inst'[i].max /\ inst'[i].init \in Nat \ {0}
           /\ \A k \in Owned(inst'[i]) :
                \/ k \in Owned(inst[i]) /\ inst'[i].cmds[k].data = inst[i].cmds[k].data
                \/ k = Len(inst[i].cmds) + 1 /\ inst'[i].cmds[k].data = c.data
                   /\ c.data # NULL
<1> DEFINE r == Grown(inst[i])
           n == [r EXCEPT !.cmds = Append(@, c)]
<1>1. inst \in [Insts -> Inst] /\ inst[i] \in Inst
  BY DEF IInv, MemInv
<1>2. Len(inst[i].cmds) < inst[i].max /\ inst[i].init \in Nat \ {0}
  BY DEF IInv, MemInv, RoomInv
<1>3. /\ r \in Inst /\ r.st = inst[i].st /\ r.tid = inst[i].tid
      /\ r.cmds = inst[i].cmds /\ r.init = inst[i].init
      /\ Len(inst[i].cmds) + 1 < r.max
  BY <1>1, <1>2, GrownFacts
<1>4. Len(inst[i].cmds) \in Nat /\ r.max \in Nat
  BY <1>1, <1>3, CmdsFacts
<1>5. inst' = [inst EXCEPT ![i] = n] /\ fault' = fault
  BY <1>3, <1>4 DEF Store
<1> HIDE DEF r
<1>6. /\ n \in Inst /\ n.st = r.st /\ n.tid = r.tid /\ n.max = r.max /\ n.init = r.init
      /\ Len(n.cmds) = Len(r.cmds) + 1
      /\ \A k \in Owned(n) :
           \/ k \in Owned(r) /\ n.cmds[k].data = r.cmds[k].data
           \/ k = Len(r.cmds) + 1 /\ n.cmds[k] = c /\ c.data # NULL
  BY <1>3, AppendedFacts
<1>7. Owned(r) = Owned(inst[i])
  BY <1>3 DEF Owned
<1> HIDE DEF n
<1>8. inst'[i] = n /\ inst' \in [Insts -> Inst]
  BY <1>1, <1>5, <1>6
<1>9. \A j \in Insts : j # i => inst'[j] = inst[j]
  BY <1>1, <1>5
<1> QED BY <1>2, <1>3, <1>4, <1>5, <1>6, <1>7, <1>8, <1>9

(* If an instance keeps its commands and its room, so does the invariant.   *)
LEMMA SameCmds ==
    ASSUME IInv, NEW i \in Insts, NEW n \in Inst,
           inst' = [inst EXCEPT ![i] = n], heap' = heap, fault' = fault,
           n.st = inst[i].st, n.tid = inst[i].tid, n.cmds = inst[i].cmds,
           n.init = inst[i].init, n.st = "listed" => Len(n.cmds) < n.max
    PROVE  MemInv' /\ SameShape
<1>1. /\ inst \in [Insts -> Inst] /\ heap \in [Payloads -> PayloadTags \cup {"free"}]
      /\ fault \in Faults /\ RoomInv /\ PayloadOwnership /\ NoBadMemoryAccess
  BY DEF IInv, MemInv
<1>2. /\ inst' \in [Insts -> Inst] /\ inst'[i] = n
      /\ \A j \in Insts : j # i => inst'[j] = inst[j]
  BY <1>1
<1>3. RoomInv' /\ SameShape
  BY <1>1, <1>2 DEF RoomInv, SameShape
<1>4. \A j \in Insts : Owned(inst'[j]) = Owned(inst[j]) /\ Live(j)' = Live(j)
                        /\ inst'[j].cmds = inst[j].cmds
  BY <1>2 DEF Owned, Live
<1>5. PayloadOwnership'
  BY <1>1, <1>4 DEF PayloadOwnership
<1> QED BY <1>1, <1>2, <1>3, <1>5 DEF MemInv, NoBadMemoryAccess

LEMMA LoseBufferFacts ==
    ASSUME IInv, NEW i \in Insts, inst[i].st = "listed", LoseBuffer(i)
    PROVE  MemInv' /\ SameShape /\ inst'[i].cmds = inst[i].cmds
<1> DEFINE n == [inst[i] EXCEPT !.lost = TRUE]
<1>1. inst \in [Insts -> Inst] /\ inst[i] \in Inst /\ RoomInv
  BY DEF IInv, MemInv
<1>2. /\ n \in Inst /\ n.st = inst[i].st /\ n.tid = inst[i].tid
      /\ n.cmds = inst[i].cmds /\ n.init = inst[i].init /\ n.max = inst[i].max
  BY <1>1 DEF Inst
<1>3. inst' = [inst EXCEPT ![i] = n] /\ heap' = heap /\ fault' = fault
  BY <1>1 DEF LoseBuffer
<1>4. n.st = "listed" => Len(n.cmds) < n.max
  BY <1>1, <1>2 DEF RoomInv
<1> HIDE DEF n
<1>5. MemInv' /\ SameShape
  BY <1>2, <1>3, <1>4, SameCmds
<1> QED BY <1>1, <1>2, <1>3, <1>5

(* Storing a command that has no payload.                                   *)
LEMMA StoreBare ==
    ASSUME IInv, NEW i \in Insts, inst[i].st = "listed",
           NEW c \in Cmd, c.data = NULL, Store(i, c), heap' = heap
    PROVE  MemInv' /\ SameShape
<1>1. /\ inst \in [Insts -> Inst] /\ heap \in [Payloads -> PayloadTags \cup {"free"}]
      /\ fault \in Faults /\ RoomInv /\ PayloadOwnership /\ NoBadMemoryAccess
  BY DEF IInv, MemInv
<1>2. /\ fault' = fault /\ inst' \in [Insts -> Inst]
      /\ \A j \in Insts : j # i => inst'[j] = inst[j]
      /\ inst'[i].st = "listed" /\ inst'[i].tid = inst[i].tid
      /\ Len(inst'[i].cmds) < inst'[i].max /\ inst'[i].init \in Nat \ {0}
      /\ \A k \in Owned(inst'[i]) :
           k \in Owned(inst[i]) /\ inst'[i].cmds[k].data = inst[i].cmds[k].data
  BY StoreFacts
<1>3. RoomInv' /\ SameShape
  BY <1>1, <1>2 DEF RoomInv, SameShape
<1>4. \A j \in Insts : Live(j)' => \A k \in Owned(inst'[j]) : OldSlot(j, k)
  BY <1>2 DEF OldSlot, Live
<1>5. \A j \in Insts : Live(j)' => \A k \in Owned(inst'[j]) :
        heap[inst'[j].cmds[k].data] # "free"
  BY <1>1, <1>4 DEF OldSlot, PayloadOwnership
<1>6. PayloadOwnership'
  BY <1>1, <1>4, <1>5, OwnershipStep
<1> QED BY <1>1, <1>2, <1>3, <1>6 DEF MemInv, NoBadMemoryAccess

(* Storing a command with a payload that has just been allocated.           *)
LEMMA StorePayload ==
    ASSUME IInv, NEW i \in Insts, inst[i].st = "listed",
           NEW p \in Payloads, heap[p] = "free",
           NEW tag \in PayloadTags, heap' = [heap EXCEPT ![p] = tag],
           NEW c \in Cmd, c.data = p, Store(i, c)
    PROVE  MemInv' /\ SameShape
<1>1. /\ inst \in [Insts -> Inst] /\ heap \in [Payloads -> PayloadTags \cup {"free"}]
      /\ fault \in Faults /\ RoomInv /\ PayloadOwnership /\ NoBadMemoryAccess
  BY DEF IInv, MemInv
<1>2. /\ fault' = fault /\ inst' \in [Insts -> Inst]
      /\ \A j \in Insts : j # i => inst'[j] = inst[j]
      /\ inst'[i].st = "listed" /\ inst'[i].tid = inst[i].tid
      /\ Len(inst'[i].cmds) < inst'[i].max /\ inst'[i].init \in Nat \ {0}
      /\ \A k \in Owned(inst'[i]) :
           \/ k \in Owned(inst[i]) /\ inst'[i].cmds[k].data = inst[i].cmds[k].data
           \/ k = Len(inst[i].cmds) + 1 /\ inst'[i].cmds[k].data = p
  BY StoreFacts
<1>3. RoomInv' /\ SameShape
  BY <1>1, <1>2 DEF RoomInv, SameShape
<1>4. tag # "free" /\ heap' \in [Payloads -> PayloadTags \cup {"free"}]
      /\ heap'[p] = tag /\ \A q \in Payloads : q # p => heap'[q] = heap[q]
  BY <1>1 DEF PayloadTags
<1>5. \A j \in Insts : Live(j)' => \A k \in Owned(inst'[j]) :
        \/ OldSlot(j, k) /\ heap[inst'[j].cmds[k].data] # "free"
        \/ j = i /\ k = Len(inst[i].cmds) + 1 /\ inst'[j].cmds[k].data = p
  BY <1>1, <1>2 DEF OldSlot, Live, PayloadOwnership
<1>6. \A j \in Insts : \A k \in Owned(inst'[j]) : inst'[j].cmds[k].data \in Payloads
  BY <1>2, CmdsFacts
<1>7. PayloadOwnership'
  <2>1. \A j \in Insts : Live(j)' => \A k \in Owned(inst'[j]) :
          /\ heap'[inst'[j].cmds[k].data] # "free"
          /\ OldSlot(j, k) \/ heap[inst'[j].cmds[k].data] = "free"
    BY <1>4, <1>5, <1>6
  <2>2. \A j, m \in Insts : Live(j)' /\ Live(m)' =>
          \A k \in Owned(inst'[j]), l \in Owned(inst'[m]) :
            /\ heap[inst'[j].cmds[k].data] = "free"
            /\ inst'[j].cmds[k].data = inst'[m].cmds[l].data
            => j = m /\ k = l
    BY <1>5
  <2> QED BY <1>1, <2>1, <2>2, OwnershipStep
<1> QED BY <1>1, <1>2, <1>3, <1>4, <1>7 DEF MemInv, NoBadMemoryAccess

LEMMA BufferFacts ==
    ASSUME IInv, NEW i \in Insts, inst[i].st = "listed",
           NEW c \in Cmd, c.data = NULL, Buffer(i, c)
    PROVE  MemInv' /\ SameShape
<1>1. CASE Store(i, c) /\ heap' = heap
  BY <1>1, StoreBare
<1>2. CASE LoseBuffer(i)
  BY <1>2, LoseBufferFacts
<1> QED BY <1>1, <1>2 DEF Buffer

LEMMA BufferPayloadFacts ==
    ASSUME IInv, NEW i \in Insts, inst[i].st = "listed",
           NEW c \in Cmd, NEW tag \in PayloadTags, BufferPayload(i, c, tag)
    PROVE  MemInv' /\ SameShape
<1>1. ASSUME NEW p \in Payloads, heap[p] = "free", heap' = [heap EXCEPT ![p] = tag],
             Store(i, [c EXCEPT !.data = p])
      PROVE  MemInv' /\ SameShape
  <2>1. [c EXCEPT !.data = p] \in Cmd /\ [c EXCEPT !.data = p].data = p
    BY DEF Cmd
  <2> QED BY <1>1, <2>1, StorePayload
<1>2. CASE inst' = [inst EXCEPT ![i] = Grown(inst[i])] /\ fault' = fault /\ heap' = heap
  <2>1. inst[i] \in Inst /\ Len(inst[i].cmds) < inst[i].max /\ inst[i].init \in Nat \ {0}
        /\ Len(inst[i].cmds) \in Nat
    BY CmdsFacts DEF IInv, MemInv, RoomInv
  <2>2. /\ Grown(inst[i]) \in Inst
        /\ Grown(inst[i]).st = inst[i].st /\ Grown(inst[i]).tid = inst[i].tid
        /\ Grown(inst[i]).cmds = inst[i].cmds /\ Grown(inst[i]).init = inst[i].init
        /\ Len(inst[i].cmds) + 1 < Grown(inst[i]).max
    BY <2>1, GrownFacts
  <2>3. Len(Grown(inst[i]).cmds) < Grown(inst[i]).max
    BY <2>1, <2>2, CmdsFacts
  <2> QED BY <1>2, <2>2, <2>3, SameCmds
<1>3. CASE LoseBuffer(i)
  BY <1>3, LoseBufferFacts
<1> QED BY <1>1, <1>2, <1>3 DEF BufferPayload

(* Cleaning up an instance frees payloads that only it owned.               *)
LEMMA DisposeFacts ==
    ASSUME IInv, NEW i \in Insts, Live(i), Dispose(i)
    PROVE  /\ MemInv'
           /\ \A j \in Insts : j # i => inst'[j] = inst[j]
<1> DEFINE r == inst[i]
<1>1. /\ inst \in [Insts -> Inst] /\ heap \in [Payloads -> PayloadTags \cup {"free"}]
      /\ fault \in Faults /\ RoomInv /\ PayloadOwnership /\ NoBadMemoryAccess
  BY DEF IInv, MemInv
<1>2. ~BadFree(r)
  BY <1>1 DEF BadFree, PayloadOwnership
<1>3. CASE fault' = "lost-cmdbuf" /\ UNCHANGED <<inst, heap>>
  <2>1. RoomInv' /\ PayloadOwnership'
    BY <1>1, <1>3 DEF RoomInv, PayloadOwnership, Live
  <2> QED BY <1>1, <1>3, <2>1 DEF MemInv, NoBadMemoryAccess, Faults
<1>4. CASE /\ heap' = FreePayloads(OwnedData(r))
           /\ inst' = [inst EXCEPT ![i] = Unused]
           /\ fault' = fault
  <2>1. Unused \in Inst /\ Unused.st = "unused"
    <3>1. <<>> \in Seq(Cmd)
      OBVIOUS
    <3> QED BY <3>1 DEF Unused, Inst
  <2>2. inst' \in [Insts -> Inst] /\ inst'[i].st = "unused"
        /\ \A j \in Insts : j # i => inst'[j] = inst[j]
    BY <1>1, <1>4, <2>1
  <2>3. heap' \in [Payloads -> PayloadTags \cup {"free"}]
        /\ \A p \in Payloads : p \notin OwnedData(r) => heap'[p] = heap[p]
    BY <1>1, <1>4 DEF FreePayloads
  <2>4. RoomInv'
    BY <1>1, <2>2 DEF RoomInv
  <2>5. \A j \in Insts : Live(j)' => \A k \in Owned(inst'[j]) : OldSlot(j, k) /\ j # i
    BY <2>2 DEF OldSlot, Live
  <2>6. \A j \in Insts : Live(j)' => \A k \in Owned(inst'[j]) :
          /\ inst'[j].cmds[k].data \in Payloads
          /\ inst'[j].cmds[k].data \notin OwnedData(r)
          /\ heap[inst'[j].cmds[k].data] # "free"
    BY <1>1, <2>2, <2>5, CmdsFacts DEF OldSlot, PayloadOwnership, OwnedData
  <2>7. PayloadOwnership'
    BY <1>1, <2>3, <2>5, <2>6, OwnershipStep
  <2> QED BY <1>1, <1>4, <2>2, <2>3, <2>4, <2>7 DEF MemInv, NoBadMemoryAccess
<1> QED BY <1>2, <1>3, <1>4 DEF Dispose

----------------------------------------------------------------------------
(* The list and the flushes.                                                *)

(* Lookups before and after a step that leaves the list and its instances'  *)
(* places and owners alone.                                                 *)
LEMMA FoundKept ==
    ASSUME TypeOK, TxnList' = TxnList,
           \A k \in DOMAIN TxnList : inst'[TxnList[k]].tid = inst[TxnList[k]].tid,
           NEW t \in Threads, NEW i \in Insts, Found(t, i)
    PROVE  Found(t, i)'
<1>1. PICK k \in DOMAIN TxnList : FoundAt(t, i, k)
  BY DEF Found
<1>2. TxnList \in Seq(Insts) /\ DOMAIN TxnList = 1..Len(TxnList) /\ Len(TxnList) \in Nat
  BY DEF TypeOK
<1>3. \A j \in 1..(k - 1) : j \in DOMAIN TxnList
  BY <1>2
<1>4. FoundAt(t, i, k)'
  BY <1>1, <1>3 DEF FoundAt
<1> QED BY <1>4, <1>2 DEF Found

(* What a thread finds is a listed instance of its own.                     *)
LEMMA FoundFacts ==
    ASSUME IInv, ready, NEW t \in Threads, NEW i \in Insts, Found(t, i)
    PROVE  inst[i].st = "listed" /\ inst[i].tid = TidOf[t]
BY DEF IInv, ListInv, Found, FoundAt

(* A lookup has one result.                                                 *)
LEMMA FoundOnce ==
    ASSUME TypeOK, NEW t \in Threads,
           NEW k \in DOMAIN TxnList, NEW l \in DOMAIN TxnList,
           NEW i, NEW j, FoundAt(t, i, k), FoundAt(t, j, l)
    PROVE  i = j /\ k = l
<1>1. k \in Nat /\ l \in Nat /\ k >= 1 /\ l >= 1
  BY DEF TypeOK
<1>2. ~(k < l) /\ ~(l < k)
  BY <1>1 DEF FoundAt
<1> QED BY <1>1, <1>2 DEF FoundAt

(* FlushInv after a step, its instances named before it.                    *)
LEMMA FlushInvNext ==
    ASSUME \A t \in Threads : fl'[t] # NoFlush => \E i \in Insts :
               /\ ready' /\ fl'[t].inst = i
               /\ inst'[i].st = "exported" \/ Found(t, i)'
    PROVE  FlushInv'
BY DEF FlushInv, Found, FoundAt

(* A step that changes no instance of the list and begins flushes only of   *)
(* what is exported or found.                                               *)
LEMMA KeepPlace ==
    ASSUME IInv, UNCHANGED <<TxnList, ready>>,
           ready => \A k \in DOMAIN TxnList :
               /\ inst'[TxnList[k]].st = inst[TxnList[k]].st
               /\ inst'[TxnList[k]].tid = inst[TxnList[k]].tid,
           \A t \in Threads : fl'[t] # NoFlush =>
               /\ ready /\ fl'[t].inst \in Insts
               /\ inst'[fl'[t].inst].st = "exported" \/ Found(t, fl'[t].inst)
    PROVE  ListInv' /\ FlushInv'
<1>1. ListInv'
  BY DEF IInv, ListInv
<1>2. ASSUME NEW t \in Threads, NEW i \in Insts, ready, Found(t, i)
      PROVE  Found(t, i)'
  BY <1>2, FoundKept DEF IInv
<1>3. \A t \in Threads : fl'[t] # NoFlush => \E i \in Insts :
        /\ ready' /\ fl'[t].inst = i
        /\ inst'[i].st = "exported" \/ Found(t, i)'
  BY <1>2
<1> QED BY <1>1, <1>3, FlushInvNext

(* The case in which all instances keep their place, and flushes go on or   *)
(* end.                                                                     *)
LEMMA KeepShape ==
    ASSUME IInv, UNCHANGED <<TxnList, ready>>, SameShape,
           \A t \in Threads : fl'[t] # NoFlush =>
               \/ fl[t] # NoFlush /\ fl'[t].inst = fl[t].inst
               \/ /\ ready /\ fl'[t].inst \in Insts
                  /\ inst[fl'[t].inst].st = "exported" \/ Found(t, fl'[t].inst)
    PROVE  ListInv' /\ FlushInv'
<1>1. \A k \in DOMAIN TxnList : TxnList[k] \in Insts
  BY ElementOfSeq DEF IInv, TypeOK
<1>2. \A t \in Threads : fl'[t] # NoFlush =>
        /\ ready /\ fl'[t].inst \in Insts
        /\ inst'[fl'[t].inst].st = "exported" \/ Found(t, fl'[t].inst)
  BY DEF IInv, FlushInv, SameShape
<1>3. \A k \in DOMAIN TxnList : /\ inst'[TxnList[k]].st = inst[TxnList[k]].st
                                /\ inst'[TxnList[k]].tid = inst[TxnList[k]].tid
  BY <1>1 DEF SameShape
<1> QED BY <1>2, <1>3, KeepPlace

(* Taking what thread t found out of the list changes no other thread's     *)
(* lookups, because no other thread has its id.                             *)
LEMMA RemovalFacts ==
    ASSUME IInv, ready, TidUnique, NEW t \in Threads, NEW k \in DOMAIN TxnList,
           FoundAt(t, TxnList[k], k), TxnList' = Without(k), ready' = ready,
           \A j \in Insts : j # TxnList[k] => inst'[j] = inst[j]
    PROVE  /\ TxnList' \in Seq(Insts) /\ ListInv'
           /\ \A u \in Threads, i \in Insts : u # t /\ Found(u, i) => Found(u, i)'
<1> DEFINE n == Len(TxnList)
<1>1. /\ TxnList \in Seq(Insts) /\ n \in Nat /\ DOMAIN TxnList = 1..n /\ k \in 1..n
      /\ \A j \in 1..n : TxnList[j] \in Insts
  BY ElementOfSeq DEF IInv, TypeOK
<1>2. /\ \A j \in 1..n : inst[TxnList[j]].st = "listed"
      /\ \A j, l \in 1..n : TxnList[j] = TxnList[l] => j = l
  BY <1>1 DEF IInv, ListInv
<1>3. /\ TxnList' = [j \in 1..(n - 1) |-> IF j < k THEN TxnList[j] ELSE TxnList[j + 1]]
      /\ n - 1 \in Nat
  BY <1>1 DEF Without
<1>4. TxnList' \in Seq(Insts) /\ Len(TxnList') = n - 1 /\ DOMAIN TxnList' = 1..(n - 1)
  BY <1>1, <1>3
<1>5. \A j \in 1..(n - 1) :
        /\ j < k => j \in 1..n /\ TxnList'[j] = TxnList[j]
        /\ ~(j < k) => j + 1 \in 1..n /\ TxnList'[j] = TxnList[j + 1]
  BY <1>1, <1>3
<1>6. \A j \in 1..n : j # k => inst'[TxnList[j]] = inst[TxnList[j]]
  BY <1>1, <1>2
<1> HIDE DEF n
<1>7. ListInv'
  <2>1. \A j \in 1..(n - 1) : inst'[TxnList'[j]].st = "listed"
    BY <1>1, <1>2, <1>5, <1>6
  <2>2. \A j, l \in 1..(n - 1) : TxnList'[j] = TxnList'[l] => j = l
    BY <1>1, <1>2, <1>5
  <2> QED BY <1>4, <2>1, <2>2 DEF ListInv
<1>8. ASSUME NEW u \in Threads, NEW i \in Insts, u # t, Found(u, i)
      PROVE  Found(u, i)'
  <2>1. PICK q \in 1..n : FoundAt(u, i, q)
    BY <1>1, <1>8 DEF Found
  <2>2. TidOf[u] # TidOf[t] /\ q # k
    BY <1>8, <2>1 DEF TidUnique, FoundAt
  <2> DEFINE m == IF q < k THEN q ELSE q - 1
  <2>3. m \in 1..(n - 1) /\ TxnList'[m] = i
    BY <1>1, <1>5, <2>1, <2>2 DEF FoundAt
  <2>4. inst'[i].tid = TidOf[u]
    BY <1>6, <2>1, <2>2 DEF FoundAt
  <2>5. ASSUME NEW j \in 1..(m - 1)
        PROVE  inst'[TxnList'[j]].tid # TidOf[u]
    <3>1. PICK l \in 1..(q - 1) : l # k /\ TxnList'[j] = TxnList[l] /\ l \in 1..n
      BY <1>1, <1>5, <2>1, <2>2, <2>3
    <3> QED BY <1>6, <2>1, <3>1 DEF FoundAt
  <2>6. FoundAt(u, i, m)'
    BY <2>3, <2>4, <2>5 DEF FoundAt
  <2> QED BY <1>4, <2>3, <2>6 DEF Found
<1> QED BY <1>4, <1>7, <1>8

(* An instance taken out of the list and cleaned up by its own thread,      *)
(* whose flush, if any, ends.                                               *)
LEMMA DisposeListed ==
    ASSUME IInv, ready, TidUnique, NEW t \in Threads, NEW k \in DOMAIN TxnList,
           FoundAt(t, TxnList[k], k), TxnList' = Without(k), ready' = ready,
           Dispose(TxnList[k]),
           \A u \in Threads : fl'[u] = IF u = t THEN NoFlush ELSE fl[u]
    PROVE  TxnList' \in Seq(Insts) /\ MemInv' /\ ListInv' /\ FlushInv'
<1>1. TxnList[k] \in Insts /\ inst[TxnList[k]].st = "listed"
  BY ElementOfSeq DEF IInv, TypeOK, ListInv
<1>2. MemInv' /\ \A j \in Insts : j # TxnList[k] => inst'[j] = inst[j]
  BY <1>1, DisposeFacts DEF Live
<1>3. /\ TxnList' \in Seq(Insts) /\ ListInv'
      /\ \A u \in Threads, i \in Insts : u # t /\ Found(u, i) => Found(u, i)'
  BY <1>2, RemovalFacts
<1>4. ASSUME NEW u \in Threads, fl'[u] # NoFlush
      PROVE  \E i \in Insts : /\ ready' /\ fl'[u].inst = i
                              /\ inst'[i].st = "exported" \/ Found(u, i)'
  <2>1. u # t /\ fl'[u] = fl[u]
    BY <1>4
  <2>2. fl[u].inst \in Insts /\ (inst[fl[u].inst].st = "exported" \/ Found(u, fl[u].inst))
    BY <1>4, <2>1 DEF IInv, FlushInv
  <2>3. PICK i \in Insts : fl[u].inst = i
    BY <2>2
  <2>4. CASE inst[i].st = "exported"
    BY <1>1, <1>2, <2>1, <2>3, <2>4
  <2>5. CASE Found(u, i)
    BY <1>3, <2>1, <2>3, <2>5
  <2> QED BY <2>2, <2>3, <2>4, <2>5
<1> QED BY <1>2, <1>3, <1>4, FlushInvNext

----------------------------------------------------------------------------
(* The actions.                                                             *)

LEMMA TypeSplit == IInv => RestTypeOK /\ MemInv
BY DEF IInv, TypeOK, RestTypeOK, FlushType, OutType

LEMMA IInvNext ==
    ASSUME MemInv', RestTypeOK', ListInv', FlushInv'
    PROVE  IInv'
BY DEF IInv, TypeOK, MemInv, RestTypeOK, FlushType, OutType

LEMMA MemSame ==
    ASSUME IInv, UNCHANGED <<inst, heap, fault>>
    PROVE  MemInv' /\ SameShape
<1>1. PayloadOwnership' /\ RoomInv'
  BY DEF IInv, MemInv, PayloadOwnership, RoomInv, Live
<1> QED BY <1>1 DEF IInv, MemInv, NoBadMemoryAccess, SameShape

(* An action that keeps all instances in place and the flushes as they are. *)
LEMMA Kept ==
    ASSUME IInv, MemInv', SameShape, RestTypeOK', UNCHANGED <<TxnList, fl, ready>>
    PROVE  IInv'
<1>1. \A t \in Threads : fl'[t] # NoFlush =>
        fl[t] # NoFlush /\ fl'[t].inst = fl[t].inst
  OBVIOUS
<1>2. ListInv' /\ FlushInv'
  BY <1>1, KeepShape
<1> QED BY <1>2, IInvNext

(* An action that begins a flush of what its thread found or of an exported *)
(* instance.                                                                *)
LEMMA FlushBegun ==
    ASSUME IInv, ready, NEW t \in Threads, NEW i \in Insts,
           Found(t, i) \/ inst[i].st = "exported",
           NEW then \in Kinds \cup {"Submit"}, BeginFlush(t, i, then),
           UNCHANGED <<TxnList, inst, heap, arraySize, pmActive, ready, fault, issued, out>>
    PROVE  IInv'
<1>1. RestTypeOK /\ MemInv' /\ SameShape
  BY TypeSplit, MemSame
<1>2. fl'[t] = [inst |-> i, pos |-> 0, then |-> then]
      /\ fl' \in [Threads -> FlushType] /\ \A u \in Threads : u # t => fl'[u] = fl[u]
  BY <1>1 DEF RestTypeOK, BeginFlush, FlushType
<1>3. RestTypeOK'
  BY <1>1, <1>2 DEF RestTypeOK
<1>4. \A u \in Threads : fl'[u] # NoFlush =>
        \/ fl[u] # NoFlush /\ fl'[u].inst = fl[u].inst
        \/ /\ ready /\ fl'[u].inst \in Insts
           /\ inst[fl'[u].inst].st = "exported" \/ Found(u, fl'[u].inst)
  BY <1>2
<1>5. ListInv' /\ FlushInv'
  BY <1>1, <1>4, KeepShape
<1> QED BY <1>1, <1>3, <1>5, IInvNext

LEMMA CountType ==
    ASSUME IInv, NEW t \in Threads, NEW i \in Insts, CountIfBuffered(t, i)
    PROVE  issued' \in [Threads -> Nat]
<1>1. issued \in [Threads -> Nat]
  BY DEF IInv, TypeOK
<1> QED BY <1>1 DEF CountIfBuffered

LEMMA PerformType ==
    ASSUME IInv, NEW t \in Threads, NEW kind \in Kinds, PerformNow(t, kind)
    PROVE  issued' \in [Threads -> Nat] /\ out' \in [Threads -> OutType]
<1>1. issued \in [Threads -> Nat] /\ out \in [Threads -> OutType]
  BY TypeSplit DEF RestTypeOK
<1> QED BY <1>1 DEF PerformNow, OutType

LEMMA AccessType ==
    ASSUME IInv, NEW t \in Threads, NEW op \in 0..13, NEW kind \in Kinds, NEW mask \in Nat
    PROVE  Access(t, op, kind, mask) \in Cmd /\ Access(t, op, kind, mask).data = NULL
<1>1. issued[t] + 1 \in Nat
  BY DEF IInv, TypeOK
<1>2. op \in Opcodes
  BY DEF Opcodes
<1> QED BY <1>1, <1>2 DEF Access, Cmd

LEMMA ControlType ==
    ASSUME NEW op \in Opcodes
    PROVE  Control(op) \in Cmd /\ Control(op).data = NULL
BY DEF Control, Cmd

LEMMA OpcodeFacts ==
    /\ 0..13 \subseteq Opcodes /\ CustomOpBegin..CustomOpMax \subseteq Opcodes
    /\ LoadPmEndInternal \in Opcodes
    /\ CUSTOM_OP_DDR_PATCH \in Opcodes /\ CUSTOM_OP_MERGE_SYNC \in Opcodes
<1>1. /\ CustomOpBegin \in Nat /\ CustomOpMax \in Nat /\ LoadPmEndInternal \in Nat
      /\ CustomOpBegin + 5 <= LoadPmEndInternal /\ LoadPmEndInternal < CustomOpMax
  BY TxnAssumption
<1> QED BY <1>1 DEF Opcodes, CUSTOM_OP_DDR_PATCH, CUSTOM_OP_MERGE_SYNC

(* The thread buffers an access, or a control command.                      *)
LEMMA BufferStep ==
    ASSUME IInv, ready, NEW t \in Threads, NEW i \in Insts, Found(t, i),
           NEW c \in Cmd, c.data = NULL, Buffer(i, c),
           issued' \in [Threads -> Nat], pmActive' \in BOOLEAN,
           UNCHANGED <<TxnList, fl, arraySize, ready, out>>
    PROVE  IInv'
<1>1. inst[i].st = "listed"
  BY FoundFacts
<1>2. MemInv' /\ SameShape
  BY <1>1, BufferFacts
<1>3. RestTypeOK'
  BY TypeSplit DEF RestTypeOK
<1> QED BY <1>2, <1>3, Kept

LEMMA InitIInv == Init => IInv
<1> SUFFICES ASSUME Init PROVE IInv
  OBVIOUS
<1>1. Unused \in Inst
  <2>1. <<>> \in Seq(Cmd)
    OBVIOUS
  <2> QED BY <2>1 DEF Unused, Inst
<1>2. inst \in [Insts -> Inst] /\ heap \in [Payloads -> PayloadTags \cup {"free"}]
  BY <1>1 DEF Init
<1>3. \A i \in Insts : inst[i].st = "unused"
  BY DEF Init, Unused
<1>4. RoomInv /\ PayloadOwnership /\ NoBadMemoryAccess /\ fault \in Faults
  BY <1>3 DEF RoomInv, PayloadOwnership, NoBadMemoryAccess, Faults, Live, Init
<1>5. ListInv /\ FlushInv
  BY DEF ListInv, FlushInv, Init
<1>6. TypeOK
  <2>1. TxnList \in Seq(Insts) /\ arraySize \in Nat \ {0}
    BY TxnAssumption DEF Init
  <2> QED BY <1>2, <1>4, <2>1 DEF TypeOK, Init, NoFlush
<1> QED BY <1>2, <1>4, <1>5, <1>6 DEF IInv, MemInv

LEMMA StepStart ==
    ASSUME IInv, NEW t \in Threads, Start(t)
    PROVE  IInv'
<1>1. PICK i \in Insts, auto \in BOOLEAN :
        /\ inst[i].st = "unused"
        /\ inst' = [inst EXCEPT ![i] =
                      [st |-> "listed", tid |-> TidOf[t], cmds |-> <<>>,
                       max |-> arraySize, init |-> arraySize,
                       nextOp |-> CustomOpNext, auto |-> auto, lost |-> FALSE]]
        /\ TxnList' = Append(TxnList, i)
  BY DEF Start
<1> DEFINE n == [st |-> "listed", tid |-> TidOf[t], cmds |-> <<>>,
                 max |-> arraySize, init |-> arraySize,
                 nextOp |-> CustomOpNext, auto |-> auto, lost |-> FALSE]
<1>2. /\ inst \in [Insts -> Inst] /\ RestTypeOK /\ MemInv /\ ListInv /\ FlushInv /\ ready
      /\ UNCHANGED <<heap, fl, arraySize, pmActive, ready, fault, issued, out>>
  BY TypeSplit DEF IInv, MemInv, Start, MayCall
<1>3. n \in Inst /\ n.st = "listed" /\ n.cmds = <<>> /\ n.max = arraySize /\ n.init = arraySize
  <2>1. <<>> \in Seq(Cmd) /\ CustomOpNext \in Nat /\ arraySize \in Nat
    BY <1>2, TxnAssumption DEF RestTypeOK
  <2> QED BY <2>1 DEF Inst
<1> HIDE DEF n
<1>4. /\ inst' \in [Insts -> Inst] /\ inst'[i] = n
      /\ \A j \in Insts : j # i => inst'[j] = inst[j]
  BY <1>1, <1>2, <1>3 DEF n
<1>5. /\ TxnList \in Seq(Insts) /\ TxnList' \in Seq(Insts) /\ Len(TxnList) \in Nat
      /\ DOMAIN TxnList = 1..Len(TxnList) /\ DOMAIN TxnList' = 1..(Len(TxnList) + 1)
      /\ \A k \in 1..Len(TxnList) : TxnList'[k] = TxnList[k] /\ TxnList[k] \in Insts
      /\ TxnList'[Len(TxnList) + 1] = i
  BY <1>1, <1>2, ElementOfSeq DEF RestTypeOK
<1>6. Owned(n) = {}
  BY <1>3 DEF Owned
<1>7. MemInv'
  <2>1. arraySize \in Nat \ {0} /\ RoomInv /\ PayloadOwnership
    BY <1>2 DEF RestTypeOK, MemInv
  <2>2. RoomInv'
    BY <1>3, <1>4, <2>1 DEF RoomInv
  <2>3. \A j \in Insts : Live(j)' => \A k \in Owned(inst'[j]) :
          OldSlot(j, k) /\ heap[inst'[j].cmds[k].data] # "free"
    BY <1>4, <1>6, <2>1 DEF OldSlot, Live, PayloadOwnership
  <2>4. PayloadOwnership'
    BY <1>2, <2>1, <2>3, OwnershipStep
  <2> QED BY <1>2, <1>4, <2>2, <2>4 DEF MemInv, NoBadMemoryAccess
<1>8. \A k \in 1..Len(TxnList) : TxnList[k] # i
  BY <1>1, <1>2, <1>5 DEF ListInv
<1>9. ListInv'
  <2>1. \A k \in 1..(Len(TxnList) + 1) : inst'[TxnList'[k]].st = "listed"
    BY <1>2, <1>3, <1>4, <1>5, <1>8 DEF ListInv
  <2>2. \A j, k \in 1..(Len(TxnList) + 1) : TxnList'[j] = TxnList'[k] => j = k
    <3>1. \A j, k \in 1..Len(TxnList) : TxnList[j] = TxnList[k] => j = k
      BY <1>2, <1>5 DEF ListInv
    <3>2. \A j \in 1..(Len(TxnList) + 1) : j \in 1..Len(TxnList) \/ j = Len(TxnList) + 1
      BY <1>5
    <3> QED BY <1>5, <1>8, <3>1, <3>2
  <2> QED BY <1>5, <2>1, <2>2 DEF ListInv
<1>10. ASSUME NEW u \in Threads, NEW j \in Insts, Found(u, j)
       PROVE  Found(u, j)'
  <2>1. PICK k \in 1..Len(TxnList) : FoundAt(u, j, k)
    BY <1>5, <1>10 DEF Found
  <2>2. \A l \in 1..k : l \in 1..Len(TxnList) /\ inst'[TxnList'[l]] = inst[TxnList[l]]
    BY <1>4, <1>5, <1>8
  <2>3. FoundAt(u, j, k)'
    BY <1>5, <2>1, <2>2 DEF FoundAt
  <2> QED BY <1>5, <2>1, <2>3 DEF Found
<1>11. \A u \in Threads : fl'[u] # NoFlush => \E j \in Insts :
         /\ ready' /\ fl'[u].inst = j
         /\ inst'[j].st = "exported" \/ Found(u, j)'
  BY <1>1, <1>2, <1>4, <1>10 DEF FlushInv
<1>12. FlushInv' /\ RestTypeOK'
  BY <1>2, <1>5, <1>11, FlushInvNext DEF RestTypeOK
<1> QED BY <1>7, <1>9, <1>12, IInvNext

LEMMA StepCfg ==
    ASSUME IInv, NEW t \in Threads, CfgInitialCmdArraySize(t)
    PROVE  IInv'
<1>1. MemInv' /\ SameShape
  BY MemSame DEF CfgInitialCmdArraySize
<1>2. RestTypeOK'
  <2>1. arraySize' \in Nat \ {0}
    BY TxnAssumption DEF CfgInitialCmdArraySize
  <2> QED BY <2>1, TypeSplit DEF CfgInitialCmdArraySize, RestTypeOK
<1> QED BY <1>1, <1>2, Kept DEF CfgInitialCmdArraySize

LEMMA StepWrite32 ==
    ASSUME IInv, NEW t \in Threads, Write32(t)
    PROVE  IInv'
<1>1. PICK i \in Insts : /\ Found(t, i)
                        /\ Buffer(i, Access(t, IO_WRITE, "Write32", 0))
                        /\ CountIfBuffered(t, i)
  BY DEF Write32
<1>2. Access(t, IO_WRITE, "Write32", 0) \in Cmd
      /\ Access(t, IO_WRITE, "Write32", 0).data = NULL
  BY AccessType DEF IO_WRITE, Kinds
<1>3. issued' \in [Threads -> Nat]
  BY <1>1, CountType
<1>4. ready /\ pmActive' \in BOOLEAN /\ UNCHANGED <<TxnList, fl, arraySize, ready, out>>
  BY TypeSplit DEF Write32, MayAccess, MayCall, RestTypeOK
<1> QED BY <1>1, <1>2, <1>3, <1>4, BufferStep

LEMMA StepMaskWrite32 ==
    ASSUME IInv, NEW t \in Threads, MaskWrite32(t)
    PROVE  IInv'
<1>1. PICK i \in Insts, mask \in Masks :
        /\ Found(t, i)
        /\ Buffer(i, Access(t, IO_WRITE, "MaskWrite32", mask))
        /\ CountIfBuffered(t, i)
  BY DEF MaskWrite32
<1>2. Access(t, IO_WRITE, "MaskWrite32", mask) \in Cmd
      /\ Access(t, IO_WRITE, "MaskWrite32", mask).data = NULL
  BY AccessType, TxnAssumption DEF IO_WRITE, Kinds
<1>3. issued' \in [Threads -> Nat]
  BY <1>1, CountType
<1>4. ready /\ pmActive' \in BOOLEAN /\ UNCHANGED <<TxnList, fl, arraySize, ready, out>>
  BY TypeSplit DEF MaskWrite32, MayAccess, MayCall, RestTypeOK
<1> QED BY <1>1, <1>2, <1>3, <1>4, BufferStep

LEMMA StepMaskPoll ==
    ASSUME IInv, NEW t \in Threads, MaskPoll(t)
    PROVE  IInv'
<1>1. ready /\ UNCHANGED <<TxnList, arraySize, pmActive, ready, out>>
      /\ pmActive' \in BOOLEAN
  BY TypeSplit DEF MaskPoll, MayAccess, MayCall, RestTypeOK
<1>2. ASSUME NEW i \in Insts, Found(t, i), BeginFlush(t, i, "MaskPoll"),
             UNCHANGED <<inst, heap, fault, issued>>
      PROVE  IInv'
  <2>1. "MaskPoll" \in Kinds \cup {"Submit"}
    BY DEF Kinds
  <2> QED BY <1>1, <1>2, <2>1, FlushBegun
<1>3. ASSUME NEW i \in Insts, Found(t, i), NEW op \in {IO_MASKPOLL, IO_MASKPOLL_BUSY},
             Buffer(i, Access(t, op, "MaskPoll", 1)), CountIfBuffered(t, i), UNCHANGED fl
      PROVE  IInv'
  <2>1. Access(t, op, "MaskPoll", 1) \in Cmd /\ Access(t, op, "MaskPoll", 1).data = NULL
    <3>1. op \in 0..13 /\ 1 \in Nat /\ "MaskPoll" \in Kinds
      BY DEF IO_MASKPOLL, IO_MASKPOLL_BUSY, Kinds
    <3> QED BY <3>1, AccessType
  <2>2. issued' \in [Threads -> Nat]
    BY <1>3, CountType
  <2> QED BY <1>1, <1>3, <2>1, <2>2, BufferStep
<1> QED BY <1>2, <1>3 DEF MaskPoll

(* An access the backend performs during the call, the buffer left alone.   *)
LEMMA PerformStep ==
    ASSUME IInv, NEW t \in Threads, NEW kind \in Kinds, PerformNow(t, kind),
           UNCHANGED <<TxnList, inst, heap, fl, arraySize, pmActive, ready, fault>>
    PROVE  IInv'
<1>1. MemInv' /\ SameShape
  BY MemSame
<1>2. issued' \in [Threads -> Nat] /\ out' \in [Threads -> OutType]
  BY PerformType
<1>3. RestTypeOK'
  BY <1>2, TypeSplit DEF RestTypeOK
<1> QED BY <1>1, <1>3, Kept

LEMMA StepBlockWrite32 ==
    ASSUME IInv, NEW t \in Threads, BlockWrite32(t)
    PROVE  IInv'
<1>1. /\ ready /\ UNCHANGED <<TxnList, arraySize, pmActive, ready>>
      /\ RestTypeOK /\ "BlockWrite32" \in Kinds
  BY TypeSplit DEF BlockWrite32, MayAccess, MayCall, Kinds
<1>2. ASSUME NEW i \in Insts, Found(t, i), BeginFlush(t, i, "BlockWrite32"),
             UNCHANGED <<inst, heap, fault, issued, out>>
      PROVE  IInv'
  BY <1>1, <1>2, FlushBegun
<1>3. CASE PerformNow(t, "BlockWrite32") /\ UNCHANGED <<inst, heap, fault, fl>>
  BY <1>1, <1>3, PerformStep
<1>4. ASSUME NEW i \in Insts, Found(t, i),
             BufferPayload(i, Access(t, IO_BLOCKWRITE, "BlockWrite32", 0), "block"),
             CountIfBuffered(t, i), UNCHANGED <<fl, out>>
      PROVE  IInv'
  <2>1. Access(t, IO_BLOCKWRITE, "BlockWrite32", 0) \in Cmd
    BY <1>1, AccessType DEF IO_BLOCKWRITE
  <2>2. "block" \in PayloadTags /\ inst[i].st = "listed"
    BY <1>1, <1>4, FoundFacts DEF PayloadTags
  <2>3. MemInv' /\ SameShape
    BY <1>4, <2>1, <2>2, BufferPayloadFacts
  <2>4. issued' \in [Threads -> Nat]
    BY <1>4, CountType
  <2>5. RestTypeOK'
    BY <1>1, <1>4, <2>4 DEF RestTypeOK
  <2> QED BY <1>1, <1>4, <2>3, <2>5, Kept
<1> QED BY <1>2, <1>3, <1>4 DEF BlockWrite32

LEMMA StepBlockSet32 ==
    ASSUME IInv, NEW t \in Threads, BlockSet32(t)
    PROVE  IInv'
<1>1. /\ ready /\ UNCHANGED <<TxnList, arraySize, pmActive, ready>>
      /\ pmActive' \in BOOLEAN /\ "BlockSet32" \in Kinds
  BY TypeSplit DEF BlockSet32, MayAccess, MayCall, Kinds, RestTypeOK
<1>2. ASSUME NEW i \in Insts, Found(t, i), BeginFlush(t, i, "BlockSet32"),
             UNCHANGED <<inst, heap, fault, issued, out>>
      PROVE  IInv'
  BY <1>1, <1>2, FlushBegun
<1>3. CASE PerformNow(t, "BlockSet32") /\ UNCHANGED <<inst, heap, fault, fl>>
  BY <1>1, <1>3, PerformStep
<1>4. ASSUME NEW i \in Insts, Found(t, i),
             Buffer(i, Access(t, IO_BLOCKSET, "BlockSet32", 0)),
             CountIfBuffered(t, i), UNCHANGED <<fl, out>>
      PROVE  IInv'
  <2>1. Access(t, IO_BLOCKSET, "BlockSet32", 0) \in Cmd
        /\ Access(t, IO_BLOCKSET, "BlockSet32", 0).data = NULL
    BY <1>1, AccessType DEF IO_BLOCKSET
  <2>2. issued' \in [Threads -> Nat]
    BY <1>4, CountType
  <2> QED BY <1>1, <1>4, <2>1, <2>2, BufferStep
<1> QED BY <1>2, <1>3, <1>4 DEF BlockSet32

LEMMA StepReadOrRunOp ==
    ASSUME IInv, NEW t \in Threads, ReadOrRunOp(t)
    PROVE  IInv'
<1>1. PICK kind \in {"Read32", "RunOp"}, i \in Insts :
        /\ MayAccess(t, kind)
        /\ Found(t, i)
        /\ \/ BeginFlush(t, i, kind) /\ UNCHANGED <<issued, out>>
           \/ PerformNow(t, kind) /\ UNCHANGED fl
        /\ UNCHANGED <<TxnList, inst, heap, arraySize, pmActive, ready, fault>>
  BY DEF ReadOrRunOp
<1>2. kind \in Kinds /\ ready
  BY <1>1 DEF Kinds, MayAccess, MayCall
<1>3. CASE BeginFlush(t, i, kind) /\ UNCHANGED <<issued, out>>
  BY <1>1, <1>2, <1>3, FlushBegun
<1>4. CASE PerformNow(t, kind) /\ UNCHANGED fl
  BY <1>1, <1>2, <1>4, PerformStep
<1> QED BY <1>1, <1>3, <1>4

LEMMA StepDirect ==
    ASSUME IInv, NEW t \in Threads, Direct(t)
    PROVE  IInv'
BY PerformStep DEF Direct

LEMMA StepControlOp ==
    ASSUME IInv, NEW t \in Threads, ControlOp(t)
    PROVE  IInv'
<1>1. PICK i \in Insts, op \in 0..13 : Found(t, i) /\ Buffer(i, Control(op))
  BY ControlAssumption DEF ControlOp, ControlOpcodes, IO_NOOP, IO_PREEMPT, IO_LOADPDI, IO_CREATE_SCRATCHPAD,
         IO_UPDATE_STATE_TABLE, IO_UPDATE_REG, IO_UPDATE_SCRATCH
<1>2. Control(op) \in Cmd /\ Control(op).data = NULL
  BY OpcodeFacts, ControlType
<1>3. /\ ready /\ UNCHANGED <<TxnList, fl, arraySize, ready, out>>
      /\ pmActive' \in BOOLEAN /\ issued' \in [Threads -> Nat]
  BY TypeSplit DEF ControlOp, MayCall, RestTypeOK
<1> QED BY <1>1, <1>2, <1>3, BufferStep

LEMMA StepPmLoadStart ==
    ASSUME IInv, NEW t \in Threads, PmLoadStart(t)
    PROVE  IInv'
<1>1. PICK i \in Insts : /\ Found(t, i) /\ Buffer(i, Control(IO_LOAD_PM_START))
                        /\ pmActive' = (inst'[i].cmds # inst[i].cmds)
  BY DEF PmLoadStart
<1>2. Control(IO_LOAD_PM_START) \in Cmd /\ Control(IO_LOAD_PM_START).data = NULL
  BY OpcodeFacts, ControlType DEF IO_LOAD_PM_START
<1>3. /\ ready /\ UNCHANGED <<TxnList, fl, arraySize, ready, out>>
      /\ issued' \in [Threads -> Nat]
  BY TypeSplit DEF PmLoadStart, MayCall, RestTypeOK
<1>4. pmActive' \in BOOLEAN
  BY <1>1
<1> QED BY <1>1, <1>2, <1>3, <1>4, BufferStep

LEMMA StepPmLoadEnd ==
    ASSUME IInv, NEW t \in Threads, PmLoadEnd(t)
    PROVE  IInv'
<1>1. PICK i \in Insts : /\ Found(t, i) /\ Buffer(i, Control(LoadPmEndInternal))
                        /\ pmActive' = (inst'[i].cmds = inst[i].cmds)
  BY DEF PmLoadEnd
<1>2. Control(LoadPmEndInternal) \in Cmd /\ Control(LoadPmEndInternal).data = NULL
  BY OpcodeFacts, ControlType
<1>3. /\ ready /\ UNCHANGED <<TxnList, fl, arraySize, ready, out>>
      /\ issued' \in [Threads -> Nat]
  BY TypeSplit DEF PmLoadEnd, MayCall, RestTypeOK
<1>4. pmActive' \in BOOLEAN
  BY <1>1
<1> QED BY <1>1, <1>2, <1>3, <1>4, BufferStep

LEMMA StepPayloadOp ==
    ASSUME IInv, NEW t \in Threads, PayloadOp(t)
    PROVE  IInv'
<1>1. PICK i \in Insts, op \in {CUSTOM_OP_DDR_PATCH, CUSTOM_OP_MERGE_SYNC} :
        Found(t, i) /\ BufferPayload(i, Control(op), "custom")
  BY DEF PayloadOp
<1>2. /\ ready /\ UNCHANGED <<TxnList, fl, arraySize, pmActive, ready, issued, out>>
      /\ RestTypeOK
  BY TypeSplit DEF PayloadOp, MayCall
<1>3. Control(op) \in Cmd /\ "custom" \in PayloadTags /\ inst[i].st = "listed"
  BY <1>1, <1>2, OpcodeFacts, ControlType, FoundFacts DEF PayloadTags
<1>4. MemInv' /\ SameShape
  BY <1>1, <1>3, BufferPayloadFacts
<1>5. RestTypeOK'
  BY <1>2 DEF RestTypeOK
<1> QED BY <1>2, <1>4, <1>5, Kept

LEMMA StepRequest ==
    ASSUME IInv, NEW t \in Threads, RequestCustomTxnOp(t)
    PROVE  IInv'
<1>1. PICK i \in Insts : Found(t, i) /\ inst' = [inst EXCEPT ![i].nextOp = @ + 1]
  BY DEF RequestCustomTxnOp
<1>2. /\ UNCHANGED <<TxnList, heap, fl, arraySize, pmActive, ready, fault, issued, out>>
      /\ RestTypeOK /\ inst \in [Insts -> Inst] /\ RoomInv
  BY TypeSplit DEF RequestCustomTxnOp, MemInv
<1> DEFINE n == [inst[i] EXCEPT !.nextOp = @ + 1]
<1>3. /\ n \in Inst /\ n.st = inst[i].st /\ n.tid = inst[i].tid
      /\ n.cmds = inst[i].cmds /\ n.init = inst[i].init /\ n.max = inst[i].max
  <2>1. inst[i] \in Inst /\ inst[i].nextOp + 1 \in Nat
    BY <1>2 DEF Inst
  <2> QED BY <2>1 DEF Inst
<1>4. inst' = [inst EXCEPT ![i] = n]
  BY <1>1, <1>2
<1>5. n.st = "listed" => Len(n.cmds) < n.max
  BY <1>2, <1>3 DEF RoomInv
<1> HIDE DEF n
<1>6. MemInv' /\ SameShape
  BY <1>2, <1>3, <1>4, <1>5, SameCmds
<1>7. RestTypeOK'
  BY <1>2 DEF RestTypeOK
<1> QED BY <1>2, <1>6, <1>7, Kept

LEMMA StepAddCustomTxnOp ==
    ASSUME IInv, NEW t \in Threads, AddCustomTxnOp(t)
    PROVE  IInv'
<1>1. PICK i \in Insts, op \in UserOps :
        /\ Found(t, i) /\ CustomOpBegin <= op
        /\ \/ \E p \in Payloads : /\ heap[p] = "free"
                                  /\ heap' = [heap EXCEPT ![p] = "user"]
                                  /\ Store(i, [Control(op) EXCEPT !.data = p])
           \/ LoseBuffer(i)
  BY DEF AddCustomTxnOp
<1>2. /\ ready /\ UNCHANGED <<TxnList, fl, arraySize, pmActive, ready, issued, out>>
      /\ RestTypeOK /\ "user" \in PayloadTags
  BY TypeSplit DEF AddCustomTxnOp, MayCall, PayloadTags
<1>3. inst[i].st = "listed"
  BY <1>1, <1>2, FoundFacts
<1>4. op \in Opcodes
  BY <1>1, TxnAssumption DEF Opcodes
<1>5. ASSUME NEW p \in Payloads, heap[p] = "free", heap' = [heap EXCEPT ![p] = "user"],
             Store(i, [Control(op) EXCEPT !.data = p])
      PROVE  MemInv' /\ SameShape
  <2>1. [Control(op) EXCEPT !.data = p] \in Cmd /\ [Control(op) EXCEPT !.data = p].data = p
    BY <1>4, ControlType DEF Cmd
  <2> QED BY <1>2, <1>3, <1>5, <2>1, StorePayload
<1>6. LoseBuffer(i) => MemInv' /\ SameShape
  BY <1>3, LoseBufferFacts
<1>7. MemInv' /\ SameShape
  BY <1>1, <1>5, <1>6, Zenon
<1>8. RestTypeOK'
  BY <1>2 DEF RestTypeOK
<1> QED BY <1>2, <1>7, <1>8, Kept

(* What thread t is flushing exists, and the command it is about to execute *)
(* is well-typed.                                                           *)
LEMMA FlushFacts ==
    ASSUME IInv, NEW t \in Threads, fl[t] # NoFlush
    PROVE  /\ ready /\ fl[t].inst \in Insts /\ inst[fl[t].inst] \in Inst
           /\ inst[fl[t].inst].st \in {"listed", "exported"}
           /\ fl[t].pos \in Nat
           /\ CanRead(t) => /\ fl[t].pos + 1 \in DOMAIN inst[fl[t].inst].cmds
                            /\ NextCmd(t) \in Cmd
<1>1. ready /\ fl[t].inst \in Insts
      /\ (inst[fl[t].inst].st = "exported" \/ Found(t, fl[t].inst))
  BY DEF IInv, FlushInv
<1>2. inst[fl[t].inst].st \in {"listed", "exported"}
  BY <1>1, FoundFacts
<1>3. inst[fl[t].inst] \in Inst /\ fl[t].pos \in Nat
  BY <1>1 DEF IInv, TypeOK
<1>4. ASSUME CanRead(t)
      PROVE  fl[t].pos + 1 \in DOMAIN inst[fl[t].inst].cmds /\ NextCmd(t) \in Cmd
  <2>1. fl[t].pos + 1 \in DOMAIN inst[fl[t].inst].cmds
    BY <1>3, <1>4, CmdsFacts DEF CanRead, FlushInst
  <2> QED BY <1>3, <2>1, CmdsFacts DEF NextCmd, FlushInst
<1> QED BY <1>1, <1>2, <1>3, <1>4

(* A thread's flush goes on with the same instance, or ends.                *)
LEMMA FlushGoesOn ==
    ASSUME IInv, NEW t \in Threads, fl[t] # NoFlush, Advance(t) \/ Return(t) \/ UNCHANGED fl
    PROVE  /\ fl' \in [Threads -> FlushType]
           /\ \A u \in Threads : fl'[u] # NoFlush =>
                fl[u] # NoFlush /\ fl'[u].inst = fl[u].inst
<1>1. fl \in [Threads -> FlushType]
  BY TypeSplit DEF RestTypeOK
<1>2. CASE Advance(t)
  BY <1>1, <1>2 DEF Advance, FlushType
<1>3. CASE Return(t)
  <2>1. NoFlush \in FlushType
    BY DEF NoFlush, FlushType
  <2> QED BY <1>1, <1>3, <2>1 DEF Return
<1> QED BY <1>1, <1>2, <1>3

(* A flush step that leaves instances and payloads alone.                   *)
LEMMA FlushIdle ==
    ASSUME IInv, NEW t \in Threads, fl[t] # NoFlush,
           Advance(t) \/ Return(t) \/ UNCHANGED fl, MemInv', SameShape,
           out' \in [Threads -> OutType],
           UNCHANGED <<TxnList, arraySize, pmActive, ready, issued>>
    PROVE  IInv'
<1>1. fl' \in [Threads -> FlushType]
      /\ \A u \in Threads : fl'[u] # NoFlush => fl[u] # NoFlush /\ fl'[u].inst = fl[u].inst
  BY FlushGoesOn
<1>2. ListInv' /\ FlushInv'
  BY <1>1, KeepShape
<1>3. RestTypeOK'
  BY <1>1, TypeSplit DEF RestTypeOK
<1> QED BY <1>2, <1>3, IInvNext

(* n is r without the payload of slot k.                                    *)
Forgets(r, k, n) ==
    /\ n \in Inst
    /\ n.st = r.st /\ n.tid = r.tid /\ n.max = r.max /\ n.init = r.init
    /\ Len(n.cmds) = Len(r.cmds)
    /\ Owned(n) \subseteq Owned(r) \ {k}
    /\ \A l \in Owned(n) : n.cmds[l] = r.cmds[l]

(* A step that frees the payload of slot k of instance i, which then owns   *)
(* no more slots than before without k.                                     *)
LEMMA ForgetPayload ==
    ASSUME IInv, NEW i \in Insts, Live(i), NEW k \in Owned(inst[i]), NEW n,
           Forgets(inst[i], k, n),
           inst' \in [Insts -> Inst], inst'[i] = n,
           \A j \in Insts : j # i => inst'[j] = inst[j],
           heap' = FreePayloads({inst[i].cmds[k].data}), fault' = fault
    PROVE  MemInv' /\ SameShape
<1> DEFINE d == inst[i].cmds[k].data
<1>0. /\ n \in Inst
      /\ n.st = inst[i].st /\ n.tid = inst[i].tid /\ n.max = inst[i].max /\ n.init = inst[i].init
      /\ Len(n.cmds) = Len(inst[i].cmds)
      /\ Owned(n) \subseteq Owned(inst[i]) \ {k}
      /\ \A l \in Owned(n) : n.cmds[l] = inst[i].cmds[l]
  BY DEF Forgets
<1> USE <1>0
<1>1. /\ inst \in [Insts -> Inst] /\ heap \in [Payloads -> PayloadTags \cup {"free"}]
      /\ fault \in Faults /\ RoomInv /\ PayloadOwnership /\ NoBadMemoryAccess
  BY DEF IInv, MemInv
<1>2. /\ heap' \in [Payloads -> PayloadTags \cup {"free"}]
      /\ \A q \in Payloads : q # d => heap'[q] = heap[q]
  BY <1>1 DEF FreePayloads
<1>3. RoomInv' /\ SameShape
  BY <1>1 DEF RoomInv, SameShape
<1>4. ASSUME NEW j \in Insts, Live(j)', NEW l \in Owned(inst'[j])
      PROVE  /\ OldSlot(j, l) /\ heap[inst'[j].cmds[l].data] # "free"
             /\ heap'[inst'[j].cmds[l].data] # "free"
  <2>1. OldSlot(j, l) /\ ~(j = i /\ l = k)
    BY <1>4 DEF OldSlot, Live
  <2>2. inst'[j].cmds[l].data \in Payloads
    BY <1>4, CmdsFacts
  <2>3. inst'[j].cmds[l].data # d /\ heap[inst'[j].cmds[l].data] # "free"
    BY <1>1, <2>1 DEF OldSlot, PayloadOwnership
  <2> QED BY <1>2, <2>1, <2>2, <2>3
<1>5. PayloadOwnership'
  BY <1>1, <1>4, OwnershipStep
<1> QED BY <1>1, <1>2, <1>3, <1>5 DEF MemInv, NoBadMemoryAccess

(* The payload of an executed block write is freed and forgotten.           *)
LEMMA FreeExecuted ==
    ASSUME IInv, NEW i \in Insts, Live(i), NEW k \in Owned(inst[i]),
           heap' = FreePayloads({inst[i].cmds[k].data}),
           inst' = [inst EXCEPT ![i].cmds[k].data = NULL], fault' = fault
    PROVE  MemInv' /\ SameShape
<1> DEFINE r == inst[i]
           n == [r EXCEPT !.cmds[k].data = NULL]
<1>1. inst \in [Insts -> Inst]
  BY DEF IInv, MemInv
<1>2. /\ r \in Inst /\ r.cmds \in Seq(Cmd) /\ k \in 1..Len(r.cmds) /\ r.cmds[k] \in Cmd
      /\ Len(r.cmds) \in Nat /\ DOMAIN r.cmds = 1..Len(r.cmds)
  BY <1>1, CmdsFacts DEF Owned
<1>3. [r.cmds[k] EXCEPT !.data = NULL] \in Cmd /\ [r.cmds[k] EXCEPT !.data = NULL].data = NULL
  BY <1>2 DEF Cmd
<1>4. /\ n.cmds = [r.cmds EXCEPT ![k] = [r.cmds[k] EXCEPT !.data = NULL]]
      /\ n.st = r.st /\ n.tid = r.tid /\ n.max = r.max /\ n.init = r.init
  BY <1>2 DEF Inst
<1>5. /\ n.cmds \in Seq(Cmd) /\ Len(n.cmds) = Len(r.cmds)
      /\ n.cmds[k].data = NULL /\ DOMAIN n.cmds = DOMAIN r.cmds
      /\ \A l \in DOMAIN r.cmds : l # k => n.cmds[l] = r.cmds[l]
  BY <1>2, <1>3, <1>4, ExceptSeq
<1>6. n \in Inst
  BY <1>2, <1>5 DEF Inst
<1>7. Owned(n) \subseteq Owned(r) \ {k} /\ \A l \in Owned(n) : n.cmds[l] = r.cmds[l]
  BY <1>5 DEF Owned
<1>8. inst' = [inst EXCEPT ![i] = n]
  BY <1>1
<1>8a. Forgets(r, k, n)
  BY <1>4, <1>5, <1>6, <1>7 DEF Forgets
<1> HIDE DEF n
<1>9. /\ inst' \in [Insts -> Inst] /\ inst'[i] = n
      /\ \A j \in Insts : j # i => inst'[j] = inst[j]
  BY <1>1, <1>6, <1>8
<1> QED BY <1>8a, <1>9, ForgetPayload

LEMMA StepExecuteAccess ==
    ASSUME IInv, NEW t \in Threads, fl[t] # NoFlush, CanRead(t), ExecuteAccess(t),
           UNCHANGED <<TxnList, arraySize, pmActive, ready, issued>>
    PROVE  IInv'
<1> DEFINE i == fl[t].inst
           k == fl[t].pos + 1
           c == NextCmd(t)
<1>1. i \in Insts /\ Live(i) /\ k \in DOMAIN inst[i].cmds /\ c \in Cmd /\ c = inst[i].cmds[k]
  BY FlushFacts DEF Live, NextCmd, FlushInst
<1>2. Advance(t)
  BY DEF ExecuteAccess
<1>3. out' \in [Threads -> OutType]
  <2> DEFINE b == FlushInst(t).st # "exported"
             o == [id |-> c.id, ask |-> c.ask, did |-> ExecutedAs(c), own |-> b]
  <2>1. b \in BOOLEAN /\ c.id \in Nat /\ c.ask \in Kinds \cup {"none"} /\ ExecutedAs(c) \in Kinds
    BY <1>1 DEF Cmd, ExecuteAccess
  <2>2. out' = [out EXCEPT ![t] = o]
    BY Zenon DEF ExecuteAccess
  <2> HIDE DEF b
  <2>3. o \in OutType
    BY <2>1, Zenon DEF OutType
  <2> QED BY <2>2, <2>3, TypeSplit DEF RestTypeOK
<1>4. MemInv' /\ SameShape
  <2>1. CASE c.op = IO_BLOCKWRITE /\ FlushInst(t).st # "exported"
    <3>1. c.data # NULL /\ k \in Owned(inst[i])
      BY <1>1, <2>1 DEF ExecuteAccess, Owned, OwnsPayload
    <3>2. /\ heap' = FreePayloads({inst[i].cmds[k].data}) /\ fault' = fault
          /\ inst' = [inst EXCEPT ![i].cmds[k].data = NULL]
      BY <1>1, <2>1 DEF ExecuteAccess
    <3> QED BY <1>1, <3>1, <3>2, FreeExecuted
  <2>2. CASE ~(c.op = IO_BLOCKWRITE /\ FlushInst(t).st # "exported")
    BY <2>2, MemSame DEF ExecuteAccess
  <2> QED BY <2>1, <2>2
<1> QED BY <1>2, <1>3, <1>4, FlushIdle

LEMMA StepFaultyRead ==
    ASSUME IInv, NEW t \in Threads, fl[t] # NoFlush, FaultyRead(t),
           UNCHANGED <<TxnList, arraySize, pmActive, ready, issued>>
    PROVE  IInv'
<1> DEFINE i == fl[t].inst
           k == fl[t].pos + 1
<1>1. i \in Insts /\ Live(i) /\ FlushInst(t).st # "unused" /\ FlushInst(t) = inst[i]
  BY FlushFacts DEF Live, FlushInst
<1>2. ~ (/\ CanRead(t) /\ NextCmd(t).op = IO_BLOCKWRITE
         /\ NextCmd(t).data \in Payloads /\ heap[NextCmd(t).data] = "free")
  <2> SUFFICES ASSUME CanRead(t), NextCmd(t).op = IO_BLOCKWRITE,
                      NextCmd(t).data \in Payloads, heap[NextCmd(t).data] = "free"
               PROVE  FALSE
    OBVIOUS
  <2>1. k \in DOMAIN inst[i].cmds /\ NextCmd(t) = inst[i].cmds[k]
    BY FlushFacts DEF NextCmd, FlushInst
  <2>2. k \in Owned(inst[i])
    BY <2>1, TxnAssumption DEF Owned, OwnsPayload
  <2>3. PayloadOwnership
    BY DEF IInv, MemInv
  <2>4. heap[inst[i].cmds[k].data] # "free"
    BY <1>1, <2>2, <2>3 DEF PayloadOwnership
  <2> QED BY <2>1, <2>4
<1>3. fault' \in {"lost-cmdbuf", "null-payload"}
  BY <1>1, <1>2 DEF FaultyRead
<1>4. MemInv' /\ SameShape
  <2>1. RoomInv' /\ PayloadOwnership' /\ SameShape
    BY DEF FaultyRead, IInv, MemInv, RoomInv, PayloadOwnership, Live, SameShape
  <2> QED BY <1>3, <2>1 DEF IInv, MemInv, NoBadMemoryAccess, Faults, FaultyRead
<1>5. UNCHANGED fl /\ out' \in [Threads -> OutType]
  BY TypeSplit DEF FaultyRead, RestTypeOK
<1> QED BY <1>4, <1>5, FlushIdle

LEMMA StepFlush ==
    ASSUME IInv, NEW t \in Threads, FlushStep(t)
    PROVE  IInv'
<1>1. /\ fl[t] # NoFlush /\ UNCHANGED <<TxnList, arraySize, pmActive, ready, issued>>
      /\ out \in [Threads -> OutType]
  BY TypeSplit DEF FlushStep, RestTypeOK
<1>2. CASE CanRead(t) /\ ExecuteAccess(t)
  BY <1>1, <1>2, StepExecuteAccess
<1>3. CASE SkipCustomOp(t)
  <2>1. MemInv' /\ SameShape
    BY <1>3, MemSame DEF SkipCustomOp
  <2> QED BY <1>1, <1>3, <2>1, FlushIdle DEF SkipCustomOp
<1>4. CASE FailFlush(t)
  <2>1. MemInv' /\ SameShape
    BY <1>4, MemSame DEF FailFlush
  <2> QED BY <1>1, <1>4, <2>1, FlushIdle DEF FailFlush
<1>5. CASE FaultyRead(t)
  BY <1>1, <1>5, StepFaultyRead
<1> QED BY <1>2, <1>3, <1>4, <1>5 DEF FlushStep

LEMMA StepFinishSubmit ==
    ASSUME IInv, TidUnique, NEW t \in Threads, FinishSubmit(t)
    PROVE  IInv'
<1>1. /\ fl[t] # NoFlush /\ Return(t) /\ UNCHANGED <<arraySize, pmActive, ready, issued, out>>
      /\ RestTypeOK
  BY TypeSplit DEF FinishSubmit, Flushed
<1>2. CASE UNCHANGED <<TxnList, inst, heap, fault>>
  <2>1. MemInv' /\ SameShape
    BY <1>2, MemSame
  <2>2. out' \in [Threads -> OutType]
    BY <1>1 DEF RestTypeOK
  <2> QED BY <1>1, <1>2, <2>1, <2>2, FlushIdle
<1>3. ASSUME inst[fl[t].inst].st = "listed", Dispose(fl[t].inst),
             NEW k \in DOMAIN TxnList, FoundAt(t, TxnList[k], k), TxnList' = Without(k)
      PROVE  IInv'
  <2>1. ready /\ Found(t, fl[t].inst)
    BY <1>1, <1>3 DEF IInv, FlushInv
  <2>2. TxnList[k] = fl[t].inst
    BY <1>3, <2>1, FoundOnce DEF Found, IInv
  <2>3. \A u \in Threads : fl'[u] = IF u = t THEN NoFlush ELSE fl[u]
    BY <1>1 DEF Return, RestTypeOK
  <2>4. TxnList' \in Seq(Insts) /\ MemInv' /\ ListInv' /\ FlushInv'
    BY <1>1, <1>3, <2>1, <2>2, <2>3, DisposeListed
  <2>5. fl' \in [Threads -> FlushType]
    BY <1>1, FlushGoesOn
  <2>6. RestTypeOK'
    BY <1>1, <2>4, <2>5 DEF RestTypeOK
  <2> QED BY <2>4, <2>6, IInvNext
<1> QED BY <1>2, <1>3 DEF FinishSubmit, FlushInst

LEMMA StepFinishAutoFlush ==
    ASSUME IInv, NEW t \in Threads, FinishAutoFlush(t)
    PROVE  IInv'
<1> DEFINE i == fl[t].inst
           n == [inst[i] EXCEPT !.cmds = <<>>]
<1>1. /\ fl[t] # NoFlush /\ Return(t)
      /\ inst' = [inst EXCEPT ![i].cmds = <<>>]
      /\ UNCHANGED <<TxnList, heap, arraySize, pmActive, ready, fault>>
  BY DEF FinishAutoFlush, Flushed
<1>2. issued' \in [Threads -> Nat] /\ out' \in [Threads -> OutType]
  <2>1. CASE \E kind \in Kinds : PerformNow(t, kind)
    BY <2>1, PerformType
  <2>2. CASE UNCHANGED <<issued, out>>
    BY <2>2, TypeSplit DEF RestTypeOK
  <2> QED BY <2>1, <2>2 DEF FinishAutoFlush
<1>3. /\ RestTypeOK /\ inst \in [Insts -> Inst] /\ RoomInv /\ PayloadOwnership
      /\ fault \in Faults /\ NoBadMemoryAccess
      /\ heap \in [Payloads -> PayloadTags \cup {"free"}]
  BY TypeSplit DEF MemInv
<1>4. i \in Insts /\ inst[i] \in Inst /\ Live(i)
  BY <1>1, FlushFacts DEF Live
<1>5. /\ n \in Inst /\ n.st = inst[i].st /\ n.tid = inst[i].tid /\ n.max = inst[i].max
      /\ n.init = inst[i].init /\ n.cmds = <<>> /\ Owned(n) = {}
  <2>1. <<>> \in Seq(Cmd)
    OBVIOUS
  <2>2. /\ n \in Inst /\ n.st = inst[i].st /\ n.tid = inst[i].tid /\ n.max = inst[i].max
        /\ n.init = inst[i].init /\ n.cmds = <<>>
    BY <1>4, <2>1 DEF Inst
  <2> QED BY <2>2 DEF Owned
<1>6. inst' = [inst EXCEPT ![i] = n]
  BY <1>1, <1>3
<1> HIDE DEF n
<1>7. /\ inst' \in [Insts -> Inst] /\ inst'[i] = n
      /\ \A j \in Insts : j # i => inst'[j] = inst[j]
  BY <1>3, <1>4, <1>5, <1>6
<1>8. MemInv' /\ SameShape
  <2>1. Len(inst[i].cmds) \in Nat
    BY <1>4, CmdsFacts
  <2>2. inst[i].max \in Nat
    BY <1>4, CmdsFacts
  <2>3. RoomInv' /\ SameShape
    BY <1>3, <1>4, <1>5, <1>7, <2>1, <2>2 DEF RoomInv, SameShape
  <2>4. PayloadOwnership'
    BY <1>1, <1>3, <1>5, <1>7 DEF PayloadOwnership, Live
  <2> QED BY <1>1, <1>3, <1>7, <2>3, <2>4 DEF MemInv, NoBadMemoryAccess
<1>9. fl' \in [Threads -> FlushType]
      /\ \A u \in Threads : fl'[u] # NoFlush => fl[u] # NoFlush /\ fl'[u].inst = fl[u].inst
  BY <1>1, FlushGoesOn
<1>10. ListInv' /\ FlushInv'
  BY <1>1, <1>8, <1>9, KeepShape
<1>11. RestTypeOK'
  BY <1>1, <1>2, <1>3, <1>9 DEF RestTypeOK
<1> QED BY <1>8, <1>10, <1>11, IInvNext

LEMMA StepSubmit ==
    ASSUME IInv, NEW t \in Threads, Submit(t)
    PROVE  IInv'
<1>1. "Submit" \in Kinds \cup {"Submit"}
  OBVIOUS
<1> QED BY <1>1, FlushBegun DEF Submit, MayCall

LEMMA StepClear ==
    ASSUME IInv, TidUnique, NEW t \in Threads, Clear(t)
    PROVE  IInv'
<1>1. PICK k \in DOMAIN TxnList :
        FoundAt(t, TxnList[k], k) /\ Dispose(TxnList[k]) /\ TxnList' = Without(k)
  BY DEF Clear
<1>2. /\ ready /\ UNCHANGED <<fl, arraySize, pmActive, ready, issued, out>>
      /\ \A u \in Threads : fl'[u] = IF u = t THEN NoFlush ELSE fl[u]
  BY DEF Clear, MayCall
<1>3. TxnList' \in Seq(Insts) /\ MemInv' /\ ListInv' /\ FlushInv'
  BY <1>1, <1>2, DisposeListed
<1>4. RestTypeOK'
  BY <1>2, <1>3, TypeSplit DEF RestTypeOK
<1> QED BY <1>3, <1>4, IInvNext

LEMMA StepFreeExported ==
    ASSUME IInv, NEW t \in Threads, FreeExported(t)
    PROVE  IInv'
<1>1. PICK i \in Insts : /\ inst[i].st = "exported" /\ Dispose(i)
                        /\ \A u \in Threads : fl[u].inst # i
  BY DEF FreeExported
<1>2. UNCHANGED <<TxnList, fl, arraySize, pmActive, ready, issued, out>>
  BY DEF FreeExported
<1>3. MemInv' /\ \A j \in Insts : j # i => inst'[j] = inst[j]
  BY <1>1, DisposeFacts DEF Live
<1>4. ready => \A k \in DOMAIN TxnList : TxnList[k] \in Insts /\ TxnList[k] # i
  BY <1>1, ElementOfSeq DEF IInv, TypeOK, ListInv
<1>5. \A u \in Threads : fl'[u] # NoFlush =>
        /\ ready /\ fl'[u].inst \in Insts
        /\ inst'[fl'[u].inst].st = "exported" \/ Found(u, fl'[u].inst)
  BY <1>1, <1>2, <1>3 DEF IInv, FlushInv
<1>6. ListInv' /\ FlushInv'
  BY <1>2, <1>3, <1>4, <1>5, KeepPlace
<1>7. RestTypeOK'
  BY <1>2, TypeSplit DEF RestTypeOK
<1> QED BY <1>3, <1>6, <1>7, IInvNext

(* An export owns only the fresh copies of the payloads its original owns.  *)
LEMMA CopyFacts ==
    ASSUME NEW r \in Inst, NEW new \in [Owned(r) -> Payloads]
    PROVE  /\ Copy(r, new) \in Inst /\ Copy(r, new).st = "exported"
           /\ \A k \in Owned(Copy(r, new)) :
                k \in Owned(r) /\ Copy(r, new).cmds[k].data = new[k]
<1> DEFINE s == [k \in DOMAIN r.cmds |->
                   IF k \in Owned(r) THEN [r.cmds[k] EXCEPT !.data = new[k]] ELSE r.cmds[k]]
           n == [r EXCEPT !.st = "exported", !.lost = FALSE, !.cmds = s]
<1>1. /\ r.cmds \in Seq(Cmd) /\ Len(r.cmds) \in Nat /\ DOMAIN r.cmds = 1..Len(r.cmds)
      /\ \A k \in DOMAIN r.cmds : r.cmds[k] \in Cmd
  BY CmdsFacts
<1>2. \A k \in DOMAIN r.cmds : s[k] \in Cmd /\ s[k].op = r.cmds[k].op
                               /\ s[k].data = IF k \in Owned(r) THEN new[k] ELSE r.cmds[k].data
  BY <1>1 DEF Cmd
<1>3. s \in Seq(Cmd) /\ DOMAIN s = DOMAIN r.cmds
  <2>1. DOMAIN s = 1..Len(r.cmds) /\ s \in [1..Len(r.cmds) -> Cmd]
    BY <1>1, <1>2
  <2> QED BY <1>1, <2>1, SeqDef
<1> HIDE DEF s
<1>4. n \in Inst /\ n.st = "exported" /\ n.cmds = s
  BY <1>3 DEF Inst
<1>5. \A k \in Owned(n) : k \in Owned(r) /\ n.cmds[k].data = new[k]
  BY <1>2, <1>3, <1>4 DEF Owned, OwnsPayload
<1>6. Copy(r, new) = n
  BY DEF Copy, s
<1> QED BY <1>4, <1>5, <1>6

(* A step that leaves a new exported instance n at j, whose owned slots     *)
(* hold fresh payloads new[k] for slots k that instance i owns.             *)
CopyEffect(i, j, n, new) ==
    /\ inst[j].st = "unused" /\ n \in Inst /\ n.st = "exported"
    /\ \A k, l \in Owned(inst[i]) : k # l => new[k] # new[l]
    /\ \A k \in Owned(n) : k \in Owned(inst[i]) /\ n.cmds[k].data = new[k]
    /\ inst' \in [Insts -> Inst] /\ inst'[j] = n
    /\ \A m \in Insts : m # j => inst'[m] = inst[m]
    /\ heap' \in [Payloads -> PayloadTags \cup {"free"}]
    /\ \A p \in Payloads : heap[p] # "free" => heap'[p] = heap[p]
    /\ \A k \in Owned(inst[i]) : heap[new[k]] = "free" /\ heap'[new[k]] # "free"
    /\ fault' = fault

LEMMA NewCopy ==
    ASSUME IInv, NEW i \in Insts, NEW j \in Insts, NEW n, NEW new, CopyEffect(i, j, n, new)
    PROVE  MemInv'
<1> DEFINE S == Owned(inst[i])
<1> USE DEF CopyEffect
<1>1. /\ inst \in [Insts -> Inst] /\ RoomInv /\ PayloadOwnership
      /\ fault \in Faults /\ NoBadMemoryAccess
  BY DEF IInv, MemInv
<1>2. ASSUME NEW m \in Insts, Live(m)', NEW k \in Owned(inst'[m])
      PROVE  \/ /\ OldSlot(m, k) /\ heap[inst'[m].cmds[k].data] # "free"
                /\ heap'[inst'[m].cmds[k].data] # "free"
             \/ m = j /\ k \in S /\ inst'[m].cmds[k].data = new[k]
  <2>1. CASE m = j
    BY <1>2, <2>1
  <2>2. CASE m # j
    <3>1. inst'[m] = inst[m] /\ Live(m) /\ inst[m] \in Inst
      BY <1>1, <1>2, <2>2 DEF Live
    <3>2. inst[m].cmds[k].data \in Payloads
      BY <1>2, <3>1, CmdsFacts
    <3> QED BY <1>1, <1>2, <3>1, <3>2 DEF OldSlot, PayloadOwnership
  <2> QED BY <2>1, <2>2
<1>3. PayloadOwnership'
  <2>1. \A m \in Insts : Live(m)' => \A k \in Owned(inst'[m]) :
          /\ heap'[inst'[m].cmds[k].data] # "free"
          /\ OldSlot(m, k) \/ heap[inst'[m].cmds[k].data] = "free"
    BY <1>2
  <2>2. \A m, q \in Insts : Live(m)' /\ Live(q)' =>
          \A k \in Owned(inst'[m]), l \in Owned(inst'[q]) :
            /\ heap[inst'[m].cmds[k].data] = "free"
            /\ inst'[m].cmds[k].data = inst'[q].cmds[l].data
            => m = q /\ k = l
    BY <1>2
  <2> QED BY <1>1, <2>1, <2>2, OwnershipStep
<1>4. RoomInv'
  BY <1>1 DEF RoomInv
<1> QED BY <1>1, <1>3, <1>4 DEF MemInv, NoBadMemoryAccess

LEMMA StepExport ==
    ASSUME IInv, NEW t \in Threads, Export(t)
    PROVE  IInv'
<1>1. PICK i \in Insts, j \in Insts :
        /\ Found(t, i) /\ inst[j].st = "unused"
        /\ LET r == inst[i] IN
           IF r.lost /\ r.cmds # <<>>
           THEN fault' = "lost-cmdbuf" /\ UNCHANGED <<inst, heap>>
           ELSE IF \E k \in Owned(r) : heap[r.cmds[k].data] = "free"
           THEN fault' = "use-after-free" /\ UNCHANGED <<inst, heap>>
           ELSE \E new \in [Owned(r) -> {p \in Payloads : heap[p] = "free"}] :
                  /\ \A k, l \in Owned(r) : k # l => new[k] # new[l]
                  /\ inst' = [inst EXCEPT ![j] = Copy(r, new)]
                  /\ heap' = [p \in Payloads |->
                                IF \E k \in Owned(r) : new[k] = p
                                THEN heap[r.cmds[CHOOSE k \in Owned(r) : new[k] = p].data]
                                ELSE heap[p]]
                  /\ UNCHANGED fault
  BY DEF Export
<1> DEFINE r == inst[i]
<1>2. /\ ready /\ UNCHANGED <<TxnList, fl, arraySize, pmActive, ready, issued, out>>
      /\ RestTypeOK /\ inst \in [Insts -> Inst] /\ RoomInv /\ PayloadOwnership
      /\ fault \in Faults /\ NoBadMemoryAccess
      /\ heap \in [Payloads -> PayloadTags \cup {"free"}]
  BY TypeSplit DEF Export, MayCall, MemInv
<1>3. r.st = "listed" /\ r \in Inst /\ i # j /\ Live(i)
  BY <1>1, <1>2, FoundFacts DEF Live
<1>4. \A k \in Owned(r) : heap[r.cmds[k].data] # "free" /\ r.cmds[k].data \in Payloads
  BY <1>2, <1>3, CmdsFacts DEF PayloadOwnership
<1>5. RestTypeOK'
  BY <1>2 DEF RestTypeOK
<1>6. CASE fault' = "lost-cmdbuf" /\ UNCHANGED <<inst, heap>>
  <2>1. RoomInv' /\ PayloadOwnership' /\ SameShape
    BY <1>2, <1>6 DEF RoomInv, PayloadOwnership, Live, SameShape
  <2>2. MemInv'
    BY <1>2, <1>6, <2>1 DEF MemInv, NoBadMemoryAccess, Faults
  <2> QED BY <1>2, <1>5, <2>1, <2>2, Kept
<1>7. ASSUME NEW new \in [Owned(r) -> {p \in Payloads : heap[p] = "free"}],
             \A k, l \in Owned(r) : k # l => new[k] # new[l],
             inst' = [inst EXCEPT ![j] = Copy(r, new)],
             heap' = [p \in Payloads |->
                        IF \E k \in Owned(r) : new[k] = p
                        THEN heap[r.cmds[CHOOSE k \in Owned(r) : new[k] = p].data]
                        ELSE heap[p]],
             UNCHANGED fault
      PROVE  IInv'
  <2> DEFINE n == Copy(r, new)
  <2>1. n \in Inst /\ n.st = "exported"
        /\ \A k \in Owned(n) : k \in Owned(r) /\ n.cmds[k].data = new[k]
    BY <1>3, <1>7, CopyFacts
  <2> HIDE DEF n
  <2>2. /\ inst' \in [Insts -> Inst] /\ inst'[j] = n
        /\ \A m \in Insts : m # j => inst'[m] = inst[m]
    BY <1>2, <1>7, <2>1 DEF n
  <2>3. /\ heap' \in [Payloads -> PayloadTags \cup {"free"}]
        /\ \A p \in Payloads : heap[p] # "free" => heap'[p] = heap[p]
        /\ \A k \in Owned(r) : new[k] \in Payloads /\ heap[new[k]] = "free"
                               /\ heap'[new[k]] # "free"
    <3>1. ASSUME NEW p \in Payloads
          PROVE  /\ heap'[p] \in PayloadTags \cup {"free"}
                 /\ heap[p] # "free" => heap'[p] = heap[p]
                 /\ (\E k \in Owned(r) : new[k] = p) => heap'[p] # "free"
      <4> DEFINE k == CHOOSE k \in Owned(r) : new[k] = p
      <4>1. CASE \E l \in Owned(r) : new[l] = p
        <5>1. k \in Owned(r) /\ new[k] = p /\ heap[p] = "free"
          BY <1>7, <4>1
        <5>2. heap'[p] = heap[r.cmds[k].data]
          BY <1>7, <4>1
        <5> HIDE DEF k
        <5> QED BY <1>2, <1>4, <5>1, <5>2
      <4>2. CASE ~ \E l \in Owned(r) : new[l] = p
        <5>1. heap'[p] = heap[p]
          BY <1>7, <4>2
        <5> QED BY <1>2, <4>2, <5>1
      <4> QED BY <4>1, <4>2
    <3>2. heap' \in [Payloads -> PayloadTags \cup {"free"}]
      BY <1>7, <3>1
    <3>3. \A k \in Owned(r) : new[k] \in Payloads /\ heap[new[k]] = "free"
      BY <1>7
    <3>4. \A k \in Owned(r) : heap'[new[k]] # "free"
      BY <3>1, <3>3, Zenon
    <3>5. \A p \in Payloads : heap[p] # "free" => heap'[p] = heap[p]
      BY <3>1
    <3> QED BY <3>2, <3>3, <3>4, <3>5, Zenon
  <2>4. MemInv'
    <3>1. /\ fault' = fault
          /\ inst[j].st = "unused"
          /\ \A k \in Owned(r) : heap[new[k]] = "free" /\ heap'[new[k]] # "free"
          /\ \A k, l \in Owned(r) : k # l => new[k] # new[l]
      BY <1>1, <1>7, <2>3
    <3>2. CopyEffect(i, j, n, new)
      BY <2>1, <2>2, <2>3, <3>1 DEF CopyEffect
    <3> QED BY <3>2, NewCopy
  <2>5. ready => \A k \in DOMAIN TxnList : TxnList[k] \in Insts /\ TxnList[k] # j
    BY <1>1, ElementOfSeq DEF IInv, TypeOK, ListInv
  <2>6. \A u \in Threads : fl'[u] # NoFlush =>
          /\ ready /\ fl'[u].inst \in Insts
          /\ inst'[fl'[u].inst].st = "exported" \/ Found(u, fl'[u].inst)
    BY <1>1, <1>2, <2>2 DEF IInv, FlushInv
  <2>7. ListInv' /\ FlushInv'
    BY <1>2, <2>2, <2>5, <2>6, KeepPlace
  <2> QED BY <1>5, <2>4, <2>7, IInvNext
<1> QED BY <1>1, <1>4, <1>6, <1>7

LEMMA StepFinish ==
    ASSUME IInv, NEW t \in Threads, Finish(t)
    PROVE  IInv'
<1> DEFINE listed == {i \in Insts : inst[i].st = "listed"}
           D == UNION {OwnedData(inst[i]) : i \in listed}
<1>1. /\ RestTypeOK /\ inst \in [Insts -> Inst] /\ RoomInv /\ PayloadOwnership
      /\ fault \in Faults /\ NoBadMemoryAccess
      /\ heap \in [Payloads -> PayloadTags \cup {"free"}]
  BY TypeSplit DEF MemInv
<1>2. /\ ready' = FALSE /\ UNCHANGED <<TxnList, fl, arraySize, pmActive, issued, out>>
      /\ \A u \in Threads : fl[u] = NoFlush
  BY DEF Finish
<1>3. ListInv' /\ FlushInv' /\ RestTypeOK'
  BY <1>1, <1>2 DEF ListInv, FlushInv, RestTypeOK
<1>4. ~(\E i \in listed : BadFree(inst[i]))
  BY <1>1 DEF BadFree, PayloadOwnership, Live
<1>5. ~(\E i, j \in listed : i # j /\ OwnedData(inst[i]) \cap OwnedData(inst[j]) # {})
  BY <1>1 DEF OwnedData, PayloadOwnership, Live
<1>6. CASE fault' = "lost-cmdbuf" /\ UNCHANGED <<inst, heap>>
  <2>1. RoomInv' /\ PayloadOwnership'
    BY <1>1, <1>6 DEF RoomInv, PayloadOwnership, Live
  <2>2. MemInv'
    BY <1>1, <1>6, <2>1 DEF MemInv, NoBadMemoryAccess, Faults
  <2> QED BY <1>3, <2>2, IInvNext
<1>7. CASE /\ heap' = FreePayloads(D)
           /\ inst' = [i \in Insts |-> IF i \in listed THEN Unused ELSE inst[i]]
           /\ fault' = fault
  <2>1. Unused \in Inst /\ Unused.st = "unused"
    <3>1. <<>> \in Seq(Cmd)
      OBVIOUS
    <3> QED BY <3>1 DEF Unused, Inst
  <2>2. /\ inst' \in [Insts -> Inst]
        /\ \A i \in Insts :
             inst'[i].st = "unused" \/ (inst[i].st # "listed" /\ inst'[i] = inst[i])
    BY <1>1, <1>7, <2>1
  <2>3. /\ heap' \in [Payloads -> PayloadTags \cup {"free"}]
        /\ \A p \in Payloads : p \notin D => heap'[p] = heap[p]
    BY <1>1, <1>7 DEF FreePayloads
  <2>4. RoomInv'
    BY <1>1, <2>2 DEF RoomInv
  <2>5. ASSUME NEW i \in Insts, Live(i)', NEW k \in Owned(inst'[i])
        PROVE  /\ OldSlot(i, k) /\ heap[inst'[i].cmds[k].data] # "free"
               /\ heap'[inst'[i].cmds[k].data] # "free"
    <3>1. inst'[i] = inst[i] /\ inst[i].st # "listed" /\ Live(i)
      BY <2>2, <2>5 DEF Live
    <3>2. inst[i].cmds[k].data \in Payloads /\ heap[inst[i].cmds[k].data] # "free"
      BY <1>1, <2>5, <3>1, CmdsFacts DEF PayloadOwnership
    <3>3. ASSUME NEW j \in listed PROVE inst[i].cmds[k].data \notin OwnedData(inst[j])
      BY <1>1, <2>5, <3>1, <3>3 DEF PayloadOwnership, Live, OwnedData
    <3> QED BY <2>3, <2>5, <3>1, <3>2, <3>3 DEF OldSlot
  <2>6. PayloadOwnership'
    BY <1>1, <2>5, OwnershipStep
  <2>7. MemInv'
    BY <1>1, <1>7, <2>2, <2>3, <2>4, <2>6 DEF MemInv, NoBadMemoryAccess
  <2> QED BY <1>3, <2>7, IInvNext
<1> QED BY <1>4, <1>5, <1>6, <1>7 DEF Finish

----------------------------------------------------------------------------
(* The theorems.                                                            *)

LEMMA NextIInv ==
    ASSUME IInv, TidUnique, [Next]_vars
    PROVE  IInv'
<1>1. CASE UNCHANGED vars
  <2>1. MemInv' /\ SameShape /\ UNCHANGED <<TxnList, fl, ready>>
    BY <1>1, MemSame DEF vars
  <2>2. RestTypeOK'
    BY <1>1, TypeSplit DEF vars, RestTypeOK
  <2> QED BY <2>1, <2>2, Kept
<1>2. ASSUME NEW t \in Threads,
             \/ CfgInitialCmdArraySize(t) \/ Start(t)
             \/ Write32(t) \/ MaskWrite32(t) \/ MaskPoll(t)
             \/ BlockWrite32(t) \/ BlockSet32(t) \/ ReadOrRunOp(t) \/ Direct(t)
             \/ ControlOp(t) \/ PmLoadStart(t) \/ PmLoadEnd(t)
             \/ PayloadOp(t) \/ RequestCustomTxnOp(t) \/ AddCustomTxnOp(t)
      PROVE  IInv'
  BY <1>2, StepCfg, StepStart, StepWrite32, StepMaskWrite32, StepMaskPoll,
     StepBlockWrite32, StepBlockSet32, StepReadOrRunOp, StepDirect, StepControlOp,
     StepPmLoadStart, StepPmLoadEnd, StepPayloadOp, StepRequest, StepAddCustomTxnOp
<1>3. ASSUME NEW t \in Threads,
             \/ FlushStep(t) \/ FinishSubmit(t) \/ FinishAutoFlush(t)
             \/ Submit(t) \/ Export(t) \/ Clear(t) \/ FreeExported(t) \/ Finish(t)
      PROVE  IInv'
  BY <1>3, StepFlush, StepFinishSubmit, StepFinishAutoFlush, StepSubmit, StepExport,
     StepClear, StepFreeExported, StepFinish
<1> QED BY <1>1, <1>2, <1>3 DEF Next

(* The invariant holds in every reachable state of transaction mode.       *)
THEOREM Inductive ==
    ASSUME TidUnique
    PROVE  Spec => []IInv
<1>1. Init => IInv
  BY InitIInv
<1>2. IInv /\ [Next]_vars => IInv'
  BY NextIInv
<1> QED BY <1>1, <1>2, PTL DEF Spec

(* Every variable keeps its type, whatever calls are made and whatever      *)
(* fails in them: in particular a configured array size is never 0.         *)
THEOREM TypeCorrect ==
    ASSUME TidUnique
    PROVE  Spec => []TypeOK
<1>1. IInv => TypeOK
  BY DEF IInv
<1> QED BY <1>1, Inductive, PTL

(* No thread ever uses a freed instance or payload, frees a payload twice   *)
(* or writes past a command buffer.                                         *)
THEOREM MemorySafe ==
    ASSUME TidUnique
    PROVE  Spec => []NoBadMemoryAccess
<1>1. IInv => NoBadMemoryAccess
  BY DEF IInv, MemInv
<1> QED BY <1>1, Inductive, PTL

(* Every payload a clean-up will free is allocated and in one slot only, of *)
(* one instance: exports share nothing with their originals.                *)
THEOREM PayloadsOwned ==
    ASSUME TidUnique
    PROVE  Spec => []PayloadOwnership
<1>1. IInv => PayloadOwnership
  BY DEF IInv, MemInv
<1> QED BY <1>1, Inductive, PTL

----------------------------------------------------------------------------
(* Exported instances.                                                      *)

(* An automatic flush is one of a listed instance.                          *)
AutoInv ==
    \A t \in Threads : fl[t].then \in Kinds =>
        fl[t].inst \in Insts /\ inst[fl[t].inst].st = "listed"

(* A step leaves an instance alone, or it is a listed one that is not made  *)
(* an export by it, or an address with no instance.                         *)
ExportsAlone ==
    \A i \in Insts :
        \/ inst'[i] = inst[i]
        \/ inst[i].st = "listed" /\ inst'[i].st # "exported"
        \/ inst[i].st = "unused"

(* A thread goes on with the flush it was in, or begins one of a listed     *)
(* instance, or one that a submit asked for.                                *)
FlushesKept ==
    \A u \in Threads : fl'[u].then \in Kinds =>
        \/ fl'[u].inst = fl[u].inst /\ fl'[u].then = fl[u].then
        \/ inst[fl'[u].inst].st = "listed"

LEMMA OneListed ==
    ASSUME IInv, NEW i \in Insts, inst[i].st = "listed", NEW n,
           inst' = [inst EXCEPT ![i] = n], n.st # "exported"
    PROVE  ExportsAlone
BY DEF IInv, TypeOK, ExportsAlone

LEMMA BufferAlone ==
    ASSUME IInv, NEW i \in Insts, inst[i].st = "listed", NEW c, Buffer(i, c) \/ Store(i, c) \/ LoseBuffer(i)
    PROVE  ExportsAlone
<1>1. inst \in [Insts -> Inst] /\ inst[i] \in Inst
  BY DEF IInv, TypeOK
<1>2. Len(inst[i].cmds) < inst[i].max /\ inst[i].init \in Nat \ {0}
  BY DEF IInv, MemInv, RoomInv
<1>3. Grown(inst[i]) \in Inst /\ Grown(inst[i]).st = "listed"
  BY <1>1, <1>2, GrownFacts
<1>4. CASE Store(i, c)
  <2> DEFINE r == Grown(inst[i])
             n == [r EXCEPT !.cmds = Append(@, c)]
  <2>1. n.st = "listed"
    BY <1>3 DEF Inst
  <2>2. inst' = [inst EXCEPT ![i] = n] \/ inst' = inst
    BY <1>4 DEF Store
  <2> HIDE DEF n
  <2> QED BY <2>1, <2>2, OneListed DEF ExportsAlone
<1>5. CASE LoseBuffer(i)
  <2> DEFINE n == [inst[i] EXCEPT !.lost = TRUE]
  <2>1. n.st = "listed"
    BY <1>1 DEF Inst
  <2>2. inst' = [inst EXCEPT ![i] = n]
    BY <1>1, <1>5 DEF LoseBuffer
  <2> HIDE DEF n
  <2> QED BY <2>1, <2>2, OneListed
<1> QED BY <1>4, <1>5 DEF Buffer

LEMMA BufferPayloadAlone ==
    ASSUME IInv, NEW i \in Insts, inst[i].st = "listed", NEW c, NEW tag, BufferPayload(i, c, tag)
    PROVE  ExportsAlone
<1>1. inst[i] \in Inst /\ Len(inst[i].cmds) < inst[i].max /\ inst[i].init \in Nat \ {0}
  BY DEF IInv, TypeOK, MemInv, RoomInv
<1>2. Grown(inst[i]).st = "listed"
  BY <1>1, GrownFacts
<1>3. CASE inst' = [inst EXCEPT ![i] = Grown(inst[i])]
  BY <1>2, <1>3, OneListed
<1>4. ASSUME NEW p \in Payloads, Store(i, [c EXCEPT !.data = p]) PROVE ExportsAlone
  BY <1>4, BufferAlone
<1>5. CASE LoseBuffer(i)
  BY <1>5, BufferAlone
<1> QED BY <1>3, <1>4, <1>5 DEF BufferPayload

(* Buffering, for a thread that found its instance.                         *)
LEMMA FoundAlone ==
    ASSUME IInv, ready, NEW t \in Threads, NEW i \in Insts, Found(t, i), NEW c, NEW tag,
           \/ Buffer(i, c) \/ BufferPayload(i, c, tag) \/ Store(i, c) \/ LoseBuffer(i)
    PROVE  ExportsAlone
BY FoundFacts, BufferAlone, BufferPayloadAlone

LEMMA DisposeAlone ==
    ASSUME IInv, NEW i \in Insts, inst[i].st = "listed", Dispose(i)
    PROVE  ExportsAlone
<1>1. Unused.st # "exported"
  BY DEF Unused
<1>2. inst' = inst \/ inst' = [inst EXCEPT ![i] = Unused]
  BY DEF Dispose
<1> QED BY <1>1, <1>2, OneListed DEF ExportsAlone

LEMMA SameFlushes ==
    ASSUME UNCHANGED fl
    PROVE  FlushesKept
BY DEF FlushesKept

LEMMA FlushOfFound ==
    ASSUME IInv, NEW t \in Threads, NEW i \in Insts, NEW then, BeginFlush(t, i, then),
           inst[i].st = "listed" \/ then \notin Kinds
    PROVE  FlushesKept
<1>1. fl \in [Threads -> FlushType]
  BY TypeSplit DEF RestTypeOK
<1>2. \A u \in Threads : fl'[u] = IF u = t THEN [inst |-> i, pos |-> 0, then |-> then] ELSE fl[u]
  BY <1>1 DEF BeginFlush
<1> QED BY <1>2 DEF FlushesKept

LEMMA FlushGoesOnOrEnds ==
    ASSUME IInv, NEW t \in Threads, Advance(t) \/ Return(t)
    PROVE  FlushesKept
<1>1. fl \in [Threads -> FlushType] /\ "none" \notin Kinds
  BY TypeSplit DEF RestTypeOK, Kinds
<1>2. CASE Advance(t)
  BY <1>1, <1>2 DEF Advance, FlushesKept, FlushType
<1>3. CASE Return(t)
  BY <1>1, <1>3 DEF Return, NoFlush, FlushesKept
<1> QED BY <1>2, <1>3

(* The calls that only start, buffer or perform.                            *)
LEMMA CallsAlone ==
    ASSUME IInv, NEW t \in Threads,
           \/ CfgInitialCmdArraySize(t) \/ Start(t) \/ Write32(t) \/ MaskWrite32(t) \/ Direct(t)
           \/ ControlOp(t) \/ PmLoadStart(t) \/ PmLoadEnd(t) \/ PayloadOp(t)
           \/ RequestCustomTxnOp(t) \/ AddCustomTxnOp(t)
    PROVE  ExportsAlone /\ FlushesKept
<1>1. inst \in [Insts -> Inst]
  BY DEF IInv, TypeOK
<1>2. CASE CfgInitialCmdArraySize(t) \/ Direct(t)
  BY <1>2, SameFlushes DEF CfgInitialCmdArraySize, Direct, ExportsAlone
<1>3. CASE Start(t)
  <2>1. \E i \in Insts : inst[i].st = "unused" /\ \A j \in Insts : j # i => inst'[j] = inst[j]
    BY <1>1, <1>3 DEF Start
  <2> QED BY <1>3, <2>1, SameFlushes DEF Start, ExportsAlone
<1>4. CASE Write32(t)
  BY <1>4, FoundAlone, SameFlushes DEF Write32, MayAccess, MayCall
<1>5. CASE MaskWrite32(t)
  BY <1>5, FoundAlone, SameFlushes DEF MaskWrite32, MayAccess, MayCall
<1>6. CASE ControlOp(t)
  BY <1>6, FoundAlone, SameFlushes DEF ControlOp, MayCall
<1>7. CASE PmLoadStart(t)
  BY <1>7, FoundAlone, SameFlushes DEF PmLoadStart, MayCall
<1>8. CASE PmLoadEnd(t)
  BY <1>8, FoundAlone, SameFlushes DEF PmLoadEnd, MayCall
<1>9. CASE PayloadOp(t)
  BY <1>9, FoundAlone, SameFlushes DEF PayloadOp, MayCall
<1>10. CASE RequestCustomTxnOp(t)
  <2>1. PICK i \in Insts : Found(t, i) /\ inst' = [inst EXCEPT ![i].nextOp = @ + 1]
    BY <1>10 DEF RequestCustomTxnOp
  <2> DEFINE n == [inst[i] EXCEPT !.nextOp = @ + 1]
  <2>2. inst[i].st = "listed" /\ inst[i] \in Inst
    BY <1>1, <1>10, <2>1, FoundFacts DEF RequestCustomTxnOp, MayCall
  <2>3. n.st = "listed" /\ inst' = [inst EXCEPT ![i] = n]
    BY <1>1, <2>1, <2>2 DEF Inst
  <2> HIDE DEF n
  <2> QED BY <1>10, <2>2, <2>3, OneListed, SameFlushes DEF RequestCustomTxnOp
<1>11. CASE AddCustomTxnOp(t)
  BY <1>11, FoundAlone, SameFlushes DEF AddCustomTxnOp, MayCall
<1> QED BY <1>2, <1>3, <1>4, <1>5, <1>6, <1>7, <1>8, <1>9, <1>10, <1>11

(* The calls that may have to flush first.                                  *)
LEMMA FlushingCallsAlone ==
    ASSUME IInv, NEW t \in Threads,
           \/ MaskPoll(t) \/ BlockWrite32(t) \/ BlockSet32(t) \/ ReadOrRunOp(t) \/ Submit(t)
    PROVE  ExportsAlone /\ FlushesKept
<1>1. CASE MaskPoll(t)
  <2>1. PICK i \in Insts :
          /\ Found(t, i) /\ ready
          /\ \/ BeginFlush(t, i, "MaskPoll") /\ UNCHANGED inst
             \/ (\E c : Buffer(i, c)) /\ UNCHANGED fl
    BY <1>1 DEF MaskPoll, MayAccess, MayCall
  <2>2. inst[i].st = "listed"
    BY <2>1, FoundFacts
  <2> QED BY <2>1, <2>2, FlushOfFound, BufferAlone, SameFlushes DEF ExportsAlone
<1>2. CASE BlockWrite32(t)
  <2>1. PICK i \in Insts :
          /\ Found(t, i) /\ ready
          /\ \/ BeginFlush(t, i, "BlockWrite32") /\ UNCHANGED inst
             \/ UNCHANGED <<inst, fl>>
             \/ (\E c, tag : BufferPayload(i, c, tag)) /\ UNCHANGED fl
    BY <1>2 DEF BlockWrite32, MayAccess, MayCall
  <2>2. inst[i].st = "listed"
    BY <2>1, FoundFacts
  <2> QED BY <2>1, <2>2, FlushOfFound, BufferPayloadAlone, SameFlushes DEF ExportsAlone
<1>3. CASE BlockSet32(t)
  <2>1. PICK i \in Insts :
          /\ Found(t, i) /\ ready
          /\ \/ BeginFlush(t, i, "BlockSet32") /\ UNCHANGED inst
             \/ UNCHANGED <<inst, fl>>
             \/ (\E c : Buffer(i, c)) /\ UNCHANGED fl
    BY <1>3 DEF BlockSet32, MayAccess, MayCall
  <2>2. inst[i].st = "listed"
    BY <2>1, FoundFacts
  <2> QED BY <2>1, <2>2, FlushOfFound, BufferAlone, SameFlushes DEF ExportsAlone
<1>4. CASE ReadOrRunOp(t)
  <2>1. PICK kind \in {"Read32", "RunOp"}, i \in Insts :
          /\ Found(t, i) /\ ready /\ UNCHANGED inst
          /\ BeginFlush(t, i, kind) \/ UNCHANGED fl
    BY <1>4 DEF ReadOrRunOp, MayAccess, MayCall
  <2>2. inst[i].st = "listed"
    BY <2>1, FoundFacts
  <2> QED BY <2>1, <2>2, FlushOfFound, SameFlushes DEF ExportsAlone
<1>5. CASE Submit(t)
  <2>1. "Submit" \notin Kinds
    BY DEF Kinds
  <2>2. (\E i \in Insts : BeginFlush(t, i, "Submit")) /\ UNCHANGED inst
    BY <1>5 DEF Submit
  <2> QED BY <2>1, <2>2, FlushOfFound DEF ExportsAlone
<1> QED BY <1>1, <1>2, <1>3, <1>4, <1>5

(* The steps of a flush and its ends.                                       *)
LEMMA FlushAlone ==
    ASSUME IInv, AutoInv, NEW t \in Threads, FlushStep(t) \/ FinishSubmit(t) \/ FinishAutoFlush(t)
    PROVE  ExportsAlone /\ FlushesKept
<1> DEFINE i == fl[t].inst
<1>1. /\ inst \in [Insts -> Inst] /\ i \in Insts /\ inst[i] \in Inst
      /\ inst[i].st \in {"listed", "exported"}
  BY FlushFacts DEF IInv, TypeOK, FlushStep, FinishSubmit, FinishAutoFlush, Flushed
<1>2. CASE FlushStep(t)
  <2>1. CASE ExecuteAccess(t)
    <3> DEFINE k == fl[t].pos + 1
               n == [inst[i] EXCEPT !.cmds[k].data = NULL]
    <3>1. n.st = inst[i].st
      BY <1>1 DEF Inst
    <3>2. inst' = inst \/ (inst[i].st = "listed" /\ inst' = [inst EXCEPT ![i].cmds[k].data = NULL])
      BY <1>1, <2>1 DEF ExecuteAccess, FlushInst
    <3>3. inst' = inst \/ (inst[i].st = "listed" /\ inst' = [inst EXCEPT ![i] = n])
      BY <1>1, <3>2
    <3> HIDE DEF n
    <3>4. ExportsAlone
      BY <1>1, <3>1, <3>3, OneListed DEF ExportsAlone
    <3> QED BY <2>1, <3>4, FlushGoesOnOrEnds DEF ExecuteAccess
  <2>2. CASE SkipCustomOp(t) \/ FailFlush(t) \/ FaultyRead(t)
    BY <2>2, FlushGoesOnOrEnds, SameFlushes DEF SkipCustomOp, FailFlush, FaultyRead, ExportsAlone
  <2> QED BY <1>2, <2>1, <2>2 DEF FlushStep
<1>3. CASE FinishSubmit(t)
  <2>1. UNCHANGED inst \/ (inst[i].st = "listed" /\ Dispose(i))
    BY <1>3 DEF FinishSubmit, FlushInst
  <2>2. ExportsAlone
    BY <1>1, <2>1, DisposeAlone DEF ExportsAlone
  <2> QED BY <1>3, <2>2, FlushGoesOnOrEnds DEF FinishSubmit
<1>4. CASE FinishAutoFlush(t)
  <2>1. inst[i].st = "listed"
    BY <1>4 DEF FinishAutoFlush, Flushed, AutoInv
  <2> DEFINE n == [inst[i] EXCEPT !.cmds = <<>>]
  <2>2. n.st = "listed" /\ inst' = [inst EXCEPT ![i] = n]
    BY <1>1, <1>4, <2>1 DEF FinishAutoFlush, Inst
  <2> HIDE DEF n
  <2>3. ExportsAlone
    BY <1>1, <2>1, <2>2, OneListed
  <2> QED BY <1>4, <2>3, FlushGoesOnOrEnds DEF FinishAutoFlush
<1> QED BY <1>2, <1>3, <1>4

LEMMA EndsAlone ==
    ASSUME IInv, NEW t \in Threads, Export(t) \/ Clear(t) \/ Finish(t)
    PROVE  ExportsAlone /\ FlushesKept
<1>1. inst \in [Insts -> Inst]
  BY DEF IInv, TypeOK
<1>2. CASE Export(t)
  <2>1. PICK j \in Insts : /\ inst[j].st = "unused"
                           /\ inst' = inst \/ \E n : inst' = [inst EXCEPT ![j] = n]
    BY <1>2 DEF Export
  <2>2. \A i \in Insts : i # j => inst'[i] = inst[i]
    BY <1>1, <2>1
  <2> QED BY <1>2, <2>1, <2>2, SameFlushes DEF Export, ExportsAlone
<1>3. CASE Clear(t)
  <2>1. PICK k \in DOMAIN TxnList : Dispose(TxnList[k]) /\ ready
    BY <1>3 DEF Clear, MayCall
  <2>2. TxnList[k] \in Insts /\ inst[TxnList[k]].st = "listed"
    BY <2>1, ElementOfSeq DEF IInv, TypeOK, ListInv
  <2> QED BY <1>3, <2>1, <2>2, DisposeAlone, SameFlushes DEF Clear
<1>4. CASE Finish(t)
  <2>1. \/ inst' = inst
        \/ inst' = [i \in Insts |-> IF i \in {j \in Insts : inst[j].st = "listed"}
                                    THEN Unused ELSE inst[i]]
    BY <1>4 DEF Finish
  <2>2. Unused.st # "exported"
    BY DEF Unused
  <2> QED BY <1>4, <2>1, <2>2, SameFlushes DEF Finish, ExportsAlone
<1> QED BY <1>2, <1>3, <1>4

(* Freeing an export, which no thread executes.                             *)
LEMMA FreeExportedAlone ==
    ASSUME IInv, NEW t \in Threads, FreeExported(t)
    PROVE  /\ FlushesKept
           /\ \A i \in Insts :
                \/ inst'[i] = inst[i]
                \/ inst'[i].st = "unused" /\ \A u \in Threads : fl[u].inst # i
<1>1. PICK i \in Insts : Dispose(i) /\ \A u \in Threads : fl[u].inst # i
  BY DEF FreeExported
<1>2. inst \in [Insts -> Inst] /\ Unused.st = "unused"
  BY DEF IInv, TypeOK, Unused
<1>3. inst' = inst \/ inst' = [inst EXCEPT ![i] = Unused]
  BY <1>1 DEF Dispose
<1>4. ASSUME NEW j \in Insts
      PROVE  inst'[j] = inst[j] \/ (j = i /\ inst'[j].st = "unused")
  BY <1>2, <1>3
<1> QED BY <1>1, <1>4, SameFlushes DEF FreeExported

(* What a step does to exported instances.                                  *)
ExportStep ==
    \A i \in Insts : inst[i].st = "exported" =>
        inst'[i] = inst[i] \/ (inst'[i].st = "unused" /\ \A t \in Threads : fl[t].inst # i)

LEMMA StepExportStep ==
    ASSUME IInv, AutoInv, IInv', [Next]_vars
    PROVE  ExportStep /\ AutoInv'
<1>1. CASE UNCHANGED vars
  BY <1>1 DEF vars, ExportStep, AutoInv
<1>2. CASE ExportsAlone /\ FlushesKept
  <2>1. ExportStep
    BY <1>2 DEF ExportStep, ExportsAlone
  <2>2. ASSUME NEW u \in Threads, fl'[u].then \in Kinds
        PROVE  fl'[u].inst \in Insts /\ inst'[fl'[u].inst].st = "listed"
    <3>1. fl'[u] # NoFlush
      BY <2>2 DEF NoFlush, Kinds
    <3>2. fl'[u].inst \in Insts /\ inst'[fl'[u].inst].st \in {"exported", "listed"}
      BY <3>1 DEF IInv, FlushInv, ListInv, Found, FoundAt
    <3>3. inst[fl'[u].inst].st = "listed"
      BY <1>2, <2>2 DEF FlushesKept, AutoInv
    <3> QED BY <1>2, <3>2, <3>3 DEF ExportsAlone
  <2> QED BY <2>1, <2>2 DEF AutoInv
<1>3. ASSUME NEW t \in Threads, FreeExported(t) PROVE ExportStep /\ AutoInv'
  <2>1. /\ FlushesKept
        /\ \A i \in Insts : inst'[i] = inst[i] \/ (inst'[i].st = "unused" /\ \A u \in Threads : fl[u].inst # i)
    BY <1>3, FreeExportedAlone
  <2>2. UNCHANGED fl
    BY <1>3 DEF FreeExported
  <2>3. ExportStep
    BY <2>1 DEF ExportStep
  <2>4. AutoInv'
    BY <2>1, <2>2 DEF AutoInv
  <2> QED BY <2>3, <2>4
<1> QED BY <1>1, <1>2, <1>3, CallsAlone, FlushingCallsAlone, FlushAlone, EndsAlone DEF Next

(* An exported transaction never changes, whatever its original, its        *)
(* submits and other threads do, until its owner frees it; and no thread is *)
(* executing it when it is freed.                                           *)
THEOREM ExportImmutableHolds ==
    ASSUME TidUnique
    PROVE  Spec => ExportImmutable
<1>1. Init => AutoInv
  BY DEF Init, AutoInv, NoFlush, Kinds
<1>2. IInv /\ IInv' /\ AutoInv /\ [Next]_vars => AutoInv'
  BY StepExportStep
<1>3. IInv /\ IInv' /\ AutoInv /\ [Next]_vars => [ExportStep]_vars
  BY StepExportStep
<1>4. Spec => []AutoInv
  BY <1>1, <1>2, Inductive, PTL DEF Spec
<1>5. Spec => [][ExportStep]_vars
  BY <1>3, <1>4, Inductive, PTL DEF Spec
<1> QED BY <1>5 DEF ExportStep, ExportImmutable

------------------------------------------------------------------------------
(* The order of the accesses: Txn implements TxnOrder.                      *)

(* With this, nothing a thread asks for is refused when it is executed.     *)
NothingRefused ==
    /\ ~IoMayFail /\ 0 \notin Masks
    /\ \A t \in Threads : "ControlOp" \notin Calls[t] /\ "PmLoad" \notin Calls[t]

(* A buffered command is executed as the access it was asked for as, which  *)
(* some thread was granted; a command that is no access is skipped.         *)
AskedInv ==
    \A i \in Insts : Live(i) => \A k \in DOMAIN inst[i].cmds :
        /\ ExecutedAs(inst[i].cmds[k]) = inst[i].cmds[k].ask
        /\ inst[i].cmds[k].ask # "none" =>
             \E u \in Threads : inst[i].cmds[k].id \in 1..issued[u]

(* A started instance holds accesses its thread was granted, in their order. *)
NumberedInv ==
    \A t \in Threads, i \in Insts : inst[i].st = "listed" /\ inst[i].tid = TidOf[t] =>
        \A k \in DOMAIN inst[i].cmds : inst[i].cmds[k].ask # "none" =>
            /\ inst[i].cmds[k].id \in 1..issued[t]
            /\ \A l \in 1..(k - 1) : inst[i].cmds[l].ask # "none" =>
                 inst[i].cmds[l].id < inst[i].cmds[k].id

(* Of a thread's transactions only the oldest holds commands.               *)
OldestInv ==
    ready => \A k \in DOMAIN TxnList : inst[TxnList[k]].cmds # <<>> =>
        \E t \in Threads : FoundAt(t, TxnList[k], k)

OrderInv == AskedInv /\ NumberedInv /\ OldestInv

OrderNext == [Order!Next]_<<[t \in Threads |-> Waiting(t)], issued, out>>

LEMMA WaitingDef ==
    ASSUME NEW t, NEW a
    PROVE  a \in Waiting(t) <=>
             \E i \in Insts : \E k \in DOMAIN inst[i].cmds :
                WaitsIn(t, i, k) /\ a = [id |-> inst[i].cmds[k].id, ask |-> inst[i].cmds[k].ask]
BY DEF Waiting

LEMMA Stutters ==
    ASSUME \A u \in Threads : Waiting(u)' = Waiting(u), UNCHANGED <<issued, out>>
    PROVE  OrderNext
BY DEF OrderNext

LEMMA Accepts ==
    ASSUME IInv, NEW t \in Threads, NEW kind \in Kinds,
           \A u \in Threads : Waiting(u)' = IF u = t THEN Waiting(u) \cup {[id |-> issued[t] + 1, ask |-> kind]} ELSE Waiting(u),
           issued' = [issued EXCEPT ![t] = @ + 1], UNCHANGED out
    PROVE  OrderNext
<1> DEFINE bar == [u \in Threads |-> Waiting(u)]
<1>1. [u \in Threads |-> Waiting(u)'] = [bar EXCEPT ![t] = @ \cup {[id |-> issued[t] + 1, ask |-> kind]}]
  OBVIOUS
<1>2. Order!Accept(t, kind)
  BY <1>1 DEF Order!Accept
<1> QED BY <1>2 DEF OrderNext, Order!Next

----------------------------------------------------------------------------
(* What steps do to the commands of an instance.                            *)

(* c and d are the same command, their payloads apart.                      *)
SameCmd(c, d) == c.id = d.id /\ c.ask = d.ask /\ ExecutedAs(c) = ExecutedAs(d)

(* Instance i keeps its place, its owner and its commands.                  *)
KeepsCmds(i) ==
    /\ inst'[i].st = inst[i].st /\ inst'[i].tid = inst[i].tid
    /\ DOMAIN inst'[i].cmds = DOMAIN inst[i].cmds
    /\ \A k \in DOMAIN inst[i].cmds : SameCmd(inst'[i].cmds[k], inst[i].cmds[k])

(* Instance i is emptied.                                                   *)
Empties(i) ==
    /\ inst'[i].st = inst[i].st /\ inst'[i].tid = inst[i].tid
    /\ inst'[i].cmds = <<>>

(* Instance i gets one more command, the same as c.                         *)
Appends(i, c) ==
    /\ inst'[i].st = inst[i].st /\ inst'[i].tid = inst[i].tid
    /\ DOMAIN inst'[i].cmds = DOMAIN inst[i].cmds \cup {Len(inst[i].cmds) + 1}
    /\ \A k \in DOMAIN inst[i].cmds : SameCmd(inst'[i].cmds[k], inst[i].cmds[k])
    /\ SameCmd(inst'[i].cmds[Len(inst[i].cmds) + 1], c)
    /\ Len(inst'[i].cmds) = Len(inst[i].cmds) + 1

(* Thread t, which finds i, has its next access or no access buffered.      *)
Buffers(t, i) ==
    /\ ready /\ Found(t, i)
    /\ \E c : /\ Appends(i, c) /\ ExecutedAs(c) = c.ask
              /\ c.ask # "none" => c.id = issued[t] + 1 /\ issued'[t] = issued[t] + 1

(* A new export holds commands of other instances.                          *)
Exports(i) ==
    /\ inst[i].st = "unused" /\ inst'[i].st = "exported"
    /\ \A k \in DOMAIN inst'[i].cmds : \E j \in Insts : \E l \in DOMAIN inst[j].cmds :
         Live(j) /\ SameCmd(inst'[i].cmds[k], inst[j].cmds[l])

(* An export is freed.                                                      *)
Frees(i) == inst[i].st = "exported" /\ inst'[i].st = "unused"

(* What a step that leaves the list alone does to instance i.               *)
InPlace(i) ==
    \/ KeepsCmds(i) \/ Empties(i) \/ Exports(i) \/ Frees(i)
    \/ \E t \in Threads : Buffers(t, i)

Grows == \A u \in Threads : issued[u] \in Nat /\ issued'[u] \in Nat /\ issued[u] <= issued'[u]

LEMMA ExecutedSame ==
    ASSUME NEW c, NEW d, c.op = d.op, c.mask = d.mask
    PROVE  ExecutedAs(c) = ExecutedAs(d)
BY DEF ExecutedAs

(* The slots of an instance.                                                *)
LEMMA Slots ==
    ASSUME IInv, NEW i \in Insts
    PROVE  /\ DOMAIN inst[i].cmds = 1..Len(inst[i].cmds) /\ Len(inst[i].cmds) \in Nat
           /\ inst[i].cmds = <<>> <=> DOMAIN inst[i].cmds = {}
           /\ inst[i] \in Inst /\ inst \in [Insts -> Inst]
           /\ \A k \in DOMAIN inst[i].cmds : inst[i].cmds[k] \in Cmd
<1>1. inst[i] \in Inst /\ inst \in [Insts -> Inst]
  BY DEF IInv, TypeOK
<1>2. inst[i].cmds \in Seq(Cmd)
  BY <1>1 DEF Inst
<1> QED BY <1>1, <1>2, CmdsFacts

LEMMA ListFacts ==
    ASSUME IInv
    PROVE  /\ DOMAIN TxnList = 1..Len(TxnList) /\ Len(TxnList) \in Nat
           /\ TxnList \in Seq(Insts)
           /\ \A k \in DOMAIN TxnList : TxnList[k] \in Insts
           /\ ready => \A k \in DOMAIN TxnList : inst[TxnList[k]].st = "listed"
BY ElementOfSeq DEF IInv, TypeOK, ListInv

(* Lookups when the list and its instances' owners stay.                    *)
LEMMA LookupsKept ==
    ASSUME IInv, ready, UNCHANGED <<TxnList, ready>>,
           \A i \in Insts : inst[i].st = "listed" => inst'[i].tid = inst[i].tid,
           NEW t \in Threads, NEW i \in Insts
    PROVE  /\ \A k \in DOMAIN TxnList : FoundAt(t, i, k)' <=> FoundAt(t, i, k)
           /\ Found(t, i)' <=> Found(t, i)
<1>1. \A k \in DOMAIN TxnList : inst'[TxnList[k]].tid = inst[TxnList[k]].tid
  BY ListFacts
<1>2. ASSUME NEW k \in DOMAIN TxnList PROVE FoundAt(t, i, k)' <=> FoundAt(t, i, k)
  <2>1. \A j \in 1..(k - 1) : j \in DOMAIN TxnList
    BY ListFacts
  <2> QED BY <1>1, <1>2, <2>1 DEF FoundAt
<1> QED BY <1>2 DEF Found

(* The invariant of the commands, for steps that leave the list alone.      *)
LEMMA AskedKept ==
    ASSUME IInv, AskedInv, Grows,
           \A i \in Insts : InPlace(i) \/ inst'[i].cmds = <<>>
    PROVE  AskedInv'
<1> SUFFICES ASSUME NEW i \in Insts, Live(i)', NEW k \in DOMAIN inst'[i].cmds
             PROVE  /\ ExecutedAs(inst'[i].cmds[k]) = inst'[i].cmds[k].ask
                    /\ inst'[i].cmds[k].ask # "none" =>
                         \E u \in Threads : inst'[i].cmds[k].id \in 1..issued'[u]
  BY Zenon DEF AskedInv
<1>1. ASSUME NEW j \in Insts, NEW l \in DOMAIN inst[j].cmds, Live(j),
             SameCmd(inst'[i].cmds[k], inst[j].cmds[l])
      PROVE  /\ ExecutedAs(inst'[i].cmds[k]) = inst'[i].cmds[k].ask
             /\ inst'[i].cmds[k].ask # "none" =>
                  \E u \in Threads : inst'[i].cmds[k].id \in 1..issued'[u]
  <2>1. /\ ExecutedAs(inst[j].cmds[l]) = inst[j].cmds[l].ask
        /\ inst[j].cmds[l].ask # "none" =>
             \E u \in Threads : inst[j].cmds[l].id \in 1..issued[u]
    BY <1>1 DEF AskedInv
  <2>2. \A u \in Threads : 1..issued[u] \subseteq 1..issued'[u]
    BY DEF Grows
  <2> QED BY <1>1, <2>1, <2>2 DEF SameCmd
<1>2. CASE KeepsCmds(i)
  BY <1>1, <1>2 DEF KeepsCmds, Live
<1>3. CASE Empties(i) \/ inst'[i].cmds = <<>>
  BY <1>3 DEF Empties
<1>4. CASE Exports(i)
  BY <1>1, <1>4 DEF Exports
<1>5. CASE Frees(i)
  BY <1>5 DEF Frees, Live
<1>6. ASSUME NEW t \in Threads, Buffers(t, i)
      PROVE  /\ ExecutedAs(inst'[i].cmds[k]) = inst'[i].cmds[k].ask
             /\ inst'[i].cmds[k].ask # "none" =>
                  \E u \in Threads : inst'[i].cmds[k].id \in 1..issued'[u]
  <2>1. PICK c : /\ Appends(i, c) /\ ExecutedAs(c) = c.ask
                 /\ c.ask # "none" => c.id = issued[t] + 1 /\ issued'[t] = issued[t] + 1
    BY <1>6 DEF Buffers
  <2>2. CASE k \in DOMAIN inst[i].cmds
    <3>1. Live(i) /\ SameCmd(inst'[i].cmds[k], inst[i].cmds[k])
      BY <2>1, <2>2 DEF Appends, Live
    <3> QED BY <1>1, <2>2, <3>1
  <2>3. CASE k = Len(inst[i].cmds) + 1
    <3>1. SameCmd(inst'[i].cmds[k], c)
      BY <2>1, <2>3 DEF Appends
    <3>2. issued[t] + 1 \in 1..(issued[t] + 1)
      BY DEF Grows
    <3> QED BY <2>1, <3>1, <3>2 DEF SameCmd
  <2> QED BY <2>1, <2>2, <2>3 DEF Appends
<1> QED BY <1>2, <1>3, <1>4, <1>5, <1>6 DEF InPlace

(* A command of a started instance of thread t that has its number, after   *)
(* the numbers of those before it.                                          *)
Numbered(t, i, k) ==
    inst[i].cmds[k].ask # "none" =>
        /\ inst[i].cmds[k].id \in 1..issued[t]
        /\ \A l \in 1..(k - 1) : inst[i].cmds[l].ask # "none" =>
             inst[i].cmds[l].id < inst[i].cmds[k].id

LEMMA NumberedKept ==
    ASSUME IInv, IInv', TidUnique, NumberedInv, Grows,
           \A i \in Insts : InPlace(i) \/ inst'[i].cmds = <<>>
    PROVE  NumberedInv'
<1> SUFFICES ASSUME NEW t \in Threads, NEW i \in Insts, inst'[i].st = "listed",
                    inst'[i].tid = TidOf[t], NEW k \in DOMAIN inst'[i].cmds
             PROVE  Numbered(t, i, k)'
  BY Zenon DEF NumberedInv, Numbered
<1>1. /\ DOMAIN inst'[i].cmds = 1..Len(inst'[i].cmds) /\ Len(inst'[i].cmds) \in Nat
      /\ DOMAIN inst[i].cmds = 1..Len(inst[i].cmds) /\ Len(inst[i].cmds) \in Nat
  BY Slots
<1>2. 1..issued[t] \subseteq 1..issued'[t]
  BY DEF Grows
<1>3. ASSUME inst[i].st = "listed", inst[i].tid = TidOf[t], NEW l \in DOMAIN inst[i].cmds
      PROVE  Numbered(t, i, l)
  BY <1>3 DEF NumberedInv, Numbered
<1>4. ASSUME inst[i].st = "listed", inst[i].tid = TidOf[t], k \in DOMAIN inst[i].cmds,
             \A l \in DOMAIN inst[i].cmds : SameCmd(inst'[i].cmds[l], inst[i].cmds[l])
      PROVE  Numbered(t, i, k)'
  <2>1. Numbered(t, i, k)
    BY <1>3, <1>4
  <2>2. \A l \in 1..(k - 1) : l \in DOMAIN inst[i].cmds
    BY <1>1, <1>4
  <2> QED BY <1>2, <1>4, <2>1, <2>2 DEF Numbered, SameCmd
<1>5. CASE KeepsCmds(i)
  BY <1>4, <1>5 DEF KeepsCmds
<1>6. CASE Empties(i) \/ Exports(i) \/ Frees(i) \/ inst'[i].cmds = <<>>
  BY <1>6 DEF Empties, Exports, Frees
<1>7. ASSUME NEW u \in Threads, Buffers(u, i) PROVE Numbered(t, i, k)'
  <2>1. PICK c : /\ Appends(i, c)
                 /\ c.ask # "none" => c.id = issued[u] + 1 /\ issued'[u] = issued[u] + 1
    BY <1>7 DEF Buffers
  <2>2. inst[i].st = "listed" /\ inst[i].tid = TidOf[u] /\ u = t
    BY <1>7, <2>1, FoundFacts DEF Buffers, Appends, TidUnique
  <2>3. CASE k \in DOMAIN inst[i].cmds
    BY <1>4, <2>1, <2>2, <2>3 DEF Appends
  <2>4. CASE k = Len(inst[i].cmds) + 1
    <3>1. SameCmd(inst'[i].cmds[k], c)
      BY <2>1, <2>4 DEF Appends
    <3>2. ASSUME NEW l \in 1..(k - 1), inst'[i].cmds[l].ask # "none"
          PROVE  inst'[i].cmds[l].id \in 1..issued[t]
      <4>1. l \in DOMAIN inst[i].cmds
        BY <1>1, <2>4
      <4>2. SameCmd(inst'[i].cmds[l], inst[i].cmds[l])
        BY <2>1, <4>1 DEF Appends
      <4> QED BY <1>3, <2>2, <3>2, <4>1, <4>2 DEF Numbered, SameCmd
    <3>3. ASSUME inst'[i].cmds[k].ask # "none"
          PROVE  inst'[i].cmds[k].id = issued[t] + 1 /\ issued'[t] = issued[t] + 1
      BY <2>1, <2>2, <3>1, <3>3 DEF SameCmd
    <3>4. issued[t] \in Nat
      BY DEF Grows
    <3> QED BY <3>2, <3>3, <3>4 DEF Numbered
  <2> QED BY <2>1, <2>3, <2>4 DEF Appends
<1> QED BY <1>5, <1>6, <1>7 DEF InPlace

LEMMA OldestKept ==
    ASSUME IInv, IInv', OldestInv, UNCHANGED <<TxnList, ready>>, \A i \in Insts : InPlace(i)
    PROVE  OldestInv'
<1> SUFFICES ASSUME ready, NEW k \in DOMAIN TxnList, inst'[TxnList[k]].cmds # <<>>
             PROVE  \E t \in Threads : FoundAt(t, TxnList[k], k)'
  BY Zenon DEF OldestInv, FoundAt
<1> DEFINE i == TxnList[k]
<1>1. i \in Insts /\ inst[i].st = "listed"
  BY ListFacts
<1>2. \A j \in Insts : inst[j].st = "listed" => inst'[j].tid = inst[j].tid
  BY DEF InPlace, KeepsCmds, Empties, Exports, Frees, Buffers, Appends
<1>3. inst[i].cmds # <<>> \/ \E t \in Threads : Found(t, i)
  BY <1>1, Slots DEF InPlace, KeepsCmds, Empties, Exports, Frees, Buffers
<1>4. \E t \in Threads : FoundAt(t, i, k)
  <2>1. CASE inst[i].cmds # <<>>
    BY <2>1 DEF OldestInv
  <2>2. ASSUME NEW t \in Threads, Found(t, i) PROVE FoundAt(t, i, k)
    <3>1. PICK l \in DOMAIN TxnList : FoundAt(t, i, l)
      BY <2>2 DEF Found
    <3>2. l = k
      BY <3>1 DEF FoundAt, IInv, ListInv
    <3> QED BY <3>1, <3>2
  <2> QED BY <1>3, <2>1, <2>2
<1> QED BY <1>1, <1>2, <1>4, LookupsKept

LEMMA OrderKept ==
    ASSUME IInv, IInv', TidUnique, OrderInv, Grows, UNCHANGED <<TxnList, ready>>,
           \A i \in Insts : InPlace(i)
    PROVE  OrderInv'
BY AskedKept, NumberedKept, OldestKept DEF OrderInv

----------------------------------------------------------------------------
(* What waits.                                                              *)

LEMMA WaitsInNext ==
    ASSUME IInv, ready' = ready, NEW u \in Threads,
           \A i \in Insts : ready =>
               /\ Found(u, i) => Found(u, i)'
               /\ Found(u, i)' => Found(u, i) \/ inst'[i].cmds = <<>>,
           \A i \in Insts : ready /\ Found(u, i) => KeepsCmds(i) /\ Position(u, i)' = Position(u, i)
    PROVE  Waiting(u)' = Waiting(u)
<1>1. ASSUME NEW i \in Insts, NEW k PROVE WaitsIn(u, i, k)' <=> WaitsIn(u, i, k)
  BY DEF WaitsIn, KeepsCmds, SameCmd
<1>2. ASSUME NEW i \in Insts, NEW k, WaitsIn(u, i, k)
      PROVE  /\ inst'[i].cmds[k].id = inst[i].cmds[k].id
             /\ inst'[i].cmds[k].ask = inst[i].cmds[k].ask
  BY <1>2 DEF WaitsIn, KeepsCmds, SameCmd
<1>3. \A i \in Insts : \A k : WaitsIn(u, i, k) =>
        k \in DOMAIN inst[i].cmds /\ k \in DOMAIN inst'[i].cmds
  BY DEF WaitsIn, KeepsCmds
<1>4. \A a : a \in Waiting(u)' <=>
        \E i \in Insts : \E k \in DOMAIN inst'[i].cmds :
           WaitsIn(u, i, k)' /\ a = [id |-> inst'[i].cmds[k].id, ask |-> inst'[i].cmds[k].ask]
  BY DEF Waiting
<1>5. ASSUME NEW a PROVE a \in Waiting(u)' <=> a \in Waiting(u)
  <2>1. ASSUME a \in Waiting(u)' PROVE a \in Waiting(u)
    <3>1. PICK i \in Insts : \E k \in DOMAIN inst'[i].cmds :
            WaitsIn(u, i, k)' /\ a = [id |-> inst'[i].cmds[k].id, ask |-> inst'[i].cmds[k].ask]
      BY <1>4, <2>1
    <3>2. PICK k \in DOMAIN inst'[i].cmds :
            WaitsIn(u, i, k)' /\ a = [id |-> inst'[i].cmds[k].id, ask |-> inst'[i].cmds[k].ask]
      BY <3>1
    <3>3. WaitsIn(u, i, k) /\ k \in DOMAIN inst[i].cmds
      BY <1>1, <1>3, <3>2
    <3>4. a = [id |-> inst[i].cmds[k].id, ask |-> inst[i].cmds[k].ask]
      BY <1>2, <3>2, <3>3
    <3> QED BY <3>3, <3>4, WaitingDef
  <2>2. ASSUME a \in Waiting(u) PROVE a \in Waiting(u)'
    <3>1. PICK i \in Insts : \E k \in DOMAIN inst[i].cmds :
            WaitsIn(u, i, k) /\ a = [id |-> inst[i].cmds[k].id, ask |-> inst[i].cmds[k].ask]
      BY <2>2, WaitingDef
    <3>2. PICK k \in DOMAIN inst[i].cmds :
            WaitsIn(u, i, k) /\ a = [id |-> inst[i].cmds[k].id, ask |-> inst[i].cmds[k].ask]
      BY <3>1
    <3>3. WaitsIn(u, i, k)' /\ k \in DOMAIN inst'[i].cmds
      BY <1>1, <1>3, <3>2
    <3>4. a = [id |-> inst'[i].cmds[k].id, ask |-> inst'[i].cmds[k].ask]
      BY <1>2, <3>2
    <3> QED BY <1>4, <3>3, <3>4
  <2> QED BY <2>1, <2>2
<1> QED BY <1>5

(* Nothing waits for a thread that finds nothing, or has nothing left.      *)
LEMMA NothingWaits ==
    ASSUME NEW u \in Threads,
           \A i \in Insts : ready /\ Found(u, i) =>
              \A k \in DOMAIN inst[i].cmds : ~(k > Position(u, i))
    PROVE  Waiting(u) = {}
BY DEF Waiting, WaitsIn

LEMMA ListedKept ==
    ASSUME \A i \in Insts : InPlace(i)
    PROVE  \A i \in Insts : inst[i].st = "listed" => inst'[i].tid = inst[i].tid
BY DEF InPlace, KeepsCmds, Empties, Exports, Frees, Buffers, Appends

LEMMA FoundStays ==
    ASSUME IInv, UNCHANGED <<TxnList, ready>>, \A i \in Insts : InPlace(i), NEW u \in Threads
    PROVE  \A i \in Insts : ready => (Found(u, i)' <=> Found(u, i))
BY ListedKept, LookupsKept

(* A flush of thread t changes the place of no other thread.                *)
OnlyFlushOf(t) == \A u \in Threads : u # t => fl'[u] = fl[u]

(* Other threads wait for what they waited for.                             *)
LEMMA OthersWait ==
    ASSUME IInv, TidUnique, UNCHANGED <<TxnList, ready>>, \A i \in Insts : InPlace(i),
           NEW t \in Threads, OnlyFlushOf(t),
           \A i \in Insts : KeepsCmds(i) \/ ~(ready /\ inst[i].st = "listed") \/ Found(t, i),
           NEW u \in Threads, u # t
    PROVE  Waiting(u)' = Waiting(u)
<1>1. \A i \in Insts : ready => (Found(u, i)' <=> Found(u, i))
  BY FoundStays
<1>2. ASSUME NEW i \in Insts, ready, Found(u, i)
      PROVE  KeepsCmds(i) /\ Position(u, i)' = Position(u, i)
  <2>1. inst[i].st = "listed" /\ ~Found(t, i)
    BY <1>2, FoundFacts DEF TidUnique
  <2> QED BY <1>2, <2>1 DEF OnlyFlushOf, Position
<1> QED BY <1>1, <1>2, WaitsInNext

(* Thread t waits for what it waited for: its transactions keep their       *)
(* commands and it keeps its place in them.                                 *)
LEMMA SameWaiting ==
    ASSUME IInv, TidUnique, UNCHANGED <<TxnList, ready>>, \A i \in Insts : InPlace(i),
           NEW t \in Threads, OnlyFlushOf(t),
           \A i \in Insts : KeepsCmds(i) \/ ~(ready /\ inst[i].st = "listed"),
           \A i \in Insts : ready /\ Found(t, i) => Position(t, i)' = Position(t, i)
    PROVE  \A u \in Threads : Waiting(u)' = Waiting(u)
<1>1. ASSUME NEW u \in Threads, u # t PROVE Waiting(u)' = Waiting(u)
  BY <1>1, OthersWait
<1>2. \A i \in Insts : ready => (Found(t, i)' <=> Found(t, i))
  BY FoundStays
<1>3. \A i \in Insts : ready /\ Found(t, i) => inst[i].st = "listed"
  BY FoundFacts
<1>4. Waiting(t)' = Waiting(t)
  BY <1>2, <1>3, WaitsInNext
<1> QED BY <1>1, <1>4

----------------------------------------------------------------------------
(* The steps of the abstract specification.                                 *)

LEMMA PerformsAtOnce ==
    ASSUME NEW t \in Threads, NEW kind \in Kinds, PerformNow(t, kind),
           Waiting(t) = {}, \A u \in Threads : Waiting(u)' = Waiting(u)
    PROVE  OrderNext
<1>1. Order!PerformAtOnce(t, kind)
  BY DEF Order!PerformAtOnce, Order!Performed, PerformNow
<1> QED BY <1>1 DEF OrderNext, Order!Next

LEMMA GivesUp ==
    ASSUME NEW t \in Threads, UNCHANGED <<issued, out>>,
           \A u \in Threads : Waiting(u)' = IF u = t THEN {} ELSE Waiting(u)
    PROVE  OrderNext
<1>1. Order!GiveUp(t)
  BY DEF Order!GiveUp
<1> QED BY <1>1 DEF OrderNext, Order!Next

LEMMA GivesUpAll ==
    ASSUME UNCHANGED <<issued, out>>, \A u \in Threads : Waiting(u)' = {}
    PROVE  OrderNext
<1>1. Order!GiveUpAll
  BY DEF Order!GiveUpAll
<1> QED BY <1>1 DEF OrderNext, Order!Next

LEMMA Performs ==
    ASSUME NEW t \in Threads, NEW a, a \in Waiting(t),
           \A b \in Waiting(t) : a.id <= b.id,
           out' = [out EXCEPT ![t] = [id |-> a.id, ask |-> a.ask, did |-> a.ask, own |-> TRUE]],
           UNCHANGED issued,
           \A u \in Threads : Waiting(u)' = IF u = t THEN Waiting(u) \ {a} ELSE Waiting(u)
    PROVE  OrderNext
<1>1. Order!Perform(t)
  BY DEF Order!Perform, Order!Performed
<1> QED BY <1>1 DEF OrderNext, Order!Next

LEMMA Replays ==
    ASSUME NEW t \in Threads, NEW u \in Threads, NEW id \in 1..issued[u], NEW kind \in Kinds,
           out' = [out EXCEPT ![t] = [id |-> id, ask |-> kind, did |-> kind, own |-> FALSE]],
           UNCHANGED issued, \A v \in Threads : Waiting(v)' = Waiting(v)
    PROVE  OrderNext
<1>1. Order!Replay(t, u, id, kind)
  BY DEF Order!Replay, Order!Performed
<1> QED BY <1>1 DEF OrderNext, Order!Next

----------------------------------------------------------------------------
(* The kinds of steps.                                                      *)

LEMMA GrowsSame ==
    ASSUME IInv, UNCHANGED issued
    PROVE  Grows
BY DEF Grows, IInv, TypeOK

LEMMA GrowsOne ==
    ASSUME IInv, NEW t \in Threads, issued' = [issued EXCEPT ![t] = @ + 1]
    PROVE  Grows /\ issued'[t] = issued[t] + 1
BY DEF Grows, IInv, TypeOK

LEMMA SameInst ==
    ASSUME UNCHANGED inst
    PROVE  \A i \in Insts : KeepsCmds(i)
BY DEF KeepsCmds, SameCmd

LEMMA SameAt ==
    ASSUME NEW i \in Insts, inst'[i] = inst[i]
    PROVE  KeepsCmds(i)
BY DEF KeepsCmds, SameCmd

(* A step no thread notices.                                                *)
LEMMA QuietStep ==
    ASSUME IInv, IInv', TidUnique, OrderInv, UNCHANGED <<TxnList, ready, issued, out>>,
           NEW t \in Threads, OnlyFlushOf(t),
           \A i \in Insts : KeepsCmds(i) \/ (InPlace(i) /\ ~(ready /\ inst[i].st = "listed")),
           \A i \in Insts : ready /\ Found(t, i) => Position(t, i)' = Position(t, i)
    PROVE  OrderInv' /\ OrderNext
<1>1. \A i \in Insts : InPlace(i)
  BY DEF InPlace
<1>2. Grows
  BY GrowsSame
<1>3. \A u \in Threads : Waiting(u)' = Waiting(u)
  BY <1>1, SameWaiting
<1> QED BY <1>1, <1>2, <1>3, OrderKept, Stutters

(* A step that changes nothing of the flushes either.                       *)
LEMMA IdleStep ==
    ASSUME IInv, IInv', TidUnique, OrderInv, UNCHANGED <<TxnList, ready, fl, issued, out>>,
           NEW t \in Threads,
           \A i \in Insts : KeepsCmds(i) \/ (InPlace(i) /\ ~(ready /\ inst[i].st = "listed"))
    PROVE  OrderInv' /\ OrderNext
BY QuietStep DEF OnlyFlushOf, Position

LEMMA NotFlushing ==
    ASSUME NEW t \in Threads, fl[t] = NoFlush
    PROVE  \A i \in Insts : Position(t, i) = 0
BY TxnAssumption DEF Position, NoFlush

LEMMA FlushesAt ==
    ASSUME IInv, NEW t \in Threads, NEW i \in Insts, NEW then, BeginFlush(t, i, then)
    PROVE  OnlyFlushOf(t) /\ fl'[t] = [inst |-> i, pos |-> 0, then |-> then]
BY DEF BeginFlush, OnlyFlushOf, IInv, TypeOK

(* A flush begins.                                                          *)
LEMMA BeginStep ==
    ASSUME IInv, IInv', TidUnique, OrderInv, UNCHANGED <<TxnList, ready, inst, issued, out>>,
           NEW t \in Threads, fl[t] = NoFlush, NEW i \in Insts, NEW then, BeginFlush(t, i, then)
    PROVE  OrderInv' /\ OrderNext
<1>1. OnlyFlushOf(t) /\ fl'[t] = [inst |-> i, pos |-> 0, then |-> then]
  BY FlushesAt
<1>2. \A j \in Insts : Position(t, j)' = Position(t, j)
  BY <1>1, NotFlushing DEF Position
<1> QED BY <1>1, <1>2, SameInst, QuietStep

(* The access is performed during the call.                                 *)
LEMMA DirectStep ==
    ASSUME IInv, IInv', TidUnique, OrderInv, UNCHANGED <<TxnList, ready, inst, fl>>,
           NEW t \in Threads, NEW kind \in Kinds, PerformNow(t, kind), Waiting(t) = {}
    PROVE  OrderInv' /\ OrderNext
<1>1. \A i \in Insts : KeepsCmds(i) /\ InPlace(i)
  BY SameInst DEF InPlace
<1>2. Grows
  BY GrowsOne DEF PerformNow
<1>3. \A u \in Threads : Waiting(u)' = Waiting(u)
  BY <1>1, SameWaiting DEF OnlyFlushOf, Position
<1> QED BY <1>1, <1>2, <1>3, OrderKept, PerformsAtOnce

LEMMA FoundOne ==
    ASSUME IInv, NEW t \in Threads, NEW i \in Insts, Found(t, i), NEW j \in Insts, Found(t, j)
    PROVE  i = j
BY FoundOnce DEF Found, IInv

(* What waits is in the one transaction the thread finds.                   *)
LEMMA WaitingOfFound ==
    ASSUME IInv, ready, NEW t \in Threads, NEW i \in Insts, Found(t, i), NEW a
    PROVE  a \in Waiting(t) <=>
             \E k \in DOMAIN inst[i].cmds :
                /\ k > Position(t, i) /\ inst[i].cmds[k].ask # "none"
                /\ a = [id |-> inst[i].cmds[k].id, ask |-> inst[i].cmds[k].ask]
<1>1. ASSUME NEW j \in Insts, NEW k, WaitsIn(t, j, k) PROVE j = i
  BY <1>1, FoundOne DEF WaitsIn
<1>2. ASSUME NEW k
      PROVE  WaitsIn(t, i, k) <=> /\ k \in DOMAIN inst[i].cmds
                                  /\ k > Position(t, i) /\ inst[i].cmds[k].ask # "none"
  BY DEF WaitsIn
<1> QED BY <1>1, <1>2, WaitingDef

(* Nothing waits for a thread without a transaction, or with an empty one.  *)
LEMMA EmptyWaits ==
    ASSUME IInv, NEW t \in Threads, NEW i \in Insts, Found(t, i), inst[i].cmds = <<>>
    PROVE  Waiting(t) = {}
<1>1. \A j \in Insts : Found(t, j) => inst[j].cmds = <<>>
  BY FoundOne
<1> QED BY <1>1, NothingWaits

LEMMA NoTxnWaits ==
    ASSUME NEW t \in Threads, NoTxn(t)
    PROVE  Waiting(t) = {}
<1>1. \A i \in Insts : ~Found(t, i)
  BY DEF NoTxn, Found, FoundAt
<1> QED BY <1>1, NothingWaits

----------------------------------------------------------------------------
(* Buffering.                                                               *)

LEMMA StoreAppends ==
    ASSUME IInv, NEW i \in Insts, inst[i].st = "listed", NEW c \in Cmd, Store(i, c)
    PROVE  Appends(i, c) /\ \A j \in Insts : j # i => inst'[j] = inst[j]
<1> DEFINE r == Grown(inst[i])
           n == [r EXCEPT !.cmds = Append(@, c)]
<1>1. inst \in [Insts -> Inst] /\ inst[i] \in Inst
  BY DEF IInv, MemInv
<1>2. Len(inst[i].cmds) < inst[i].max /\ inst[i].init \in Nat \ {0}
  BY DEF IInv, MemInv, RoomInv
<1>3. /\ r \in Inst /\ r.st = inst[i].st /\ r.tid = inst[i].tid
      /\ r.cmds = inst[i].cmds /\ Len(inst[i].cmds) + 1 < r.max
  BY <1>1, <1>2, GrownFacts
<1>4. Len(inst[i].cmds) \in Nat /\ r.max \in Nat /\ inst[i].cmds \in Seq(Cmd)
  BY <1>1, <1>3, CmdsFacts
<1>5. inst' = [inst EXCEPT ![i] = n]
  BY <1>3, <1>4 DEF Store
<1> HIDE DEF r
<1>6. n.st = inst[i].st /\ n.tid = inst[i].tid /\ n.cmds = Append(inst[i].cmds, c)
  BY <1>3 DEF Inst
<1>7. inst'[i] = n /\ \A j \in Insts : j # i => inst'[j] = inst[j]
  BY <1>1, <1>5
<1> HIDE DEF n
<1>8. /\ DOMAIN inst'[i].cmds = DOMAIN inst[i].cmds \cup {Len(inst[i].cmds) + 1}
      /\ Len(inst'[i].cmds) = Len(inst[i].cmds) + 1
      /\ \A k \in DOMAIN inst[i].cmds : inst'[i].cmds[k] = inst[i].cmds[k]
      /\ inst'[i].cmds[Len(inst[i].cmds) + 1] = c
  <2> DEFINE q == inst[i].cmds
  <2>1. q \in Seq(Cmd) /\ inst'[i].cmds = Append(q, c)
    BY <1>4, <1>6, <1>7
  <2> HIDE DEF q
  <2>2. /\ DOMAIN q = 1..Len(q) /\ Len(q) \in Nat
        /\ DOMAIN Append(q, c) = 1..(Len(q) + 1) /\ Len(Append(q, c)) = Len(q) + 1
        /\ \A k \in 1..Len(q) : Append(q, c)[k] = q[k]
        /\ Append(q, c)[Len(q) + 1] = c
    BY <2>1, AppendCmd
  <2>3. 1..(Len(q) + 1) = 1..Len(q) \cup {Len(q) + 1}
    BY <2>2
  <2>4. /\ DOMAIN inst'[i].cmds = DOMAIN q \cup {Len(q) + 1}
        /\ Len(inst'[i].cmds) = Len(q) + 1
        /\ \A k \in DOMAIN q : inst'[i].cmds[k] = q[k]
        /\ inst'[i].cmds[Len(q) + 1] = c
    BY <2>1, <2>2, <2>3
  <2> QED BY <2>4 DEF q
<1> QED BY <1>6, <1>7, <1>8 DEF Appends, SameCmd

(* Buffering c appends it, with a payload or without, or leaves all         *)
(* commands as they were.                                                   *)
BufferEffect(i, c) ==
    /\ \A j \in Insts : j # i => inst'[j] = inst[j]
    /\ Appends(i, c) \/ (KeepsCmds(i) /\ Len(inst'[i].cmds) = Len(inst[i].cmds))

LEMMA LoseEffect ==
    ASSUME IInv, NEW i \in Insts, LoseBuffer(i), NEW c
    PROVE  BufferEffect(i, c)
<1>1. inst \in [Insts -> Inst] /\ inst[i] \in Inst
  BY DEF IInv, MemInv
<1>2. /\ inst'[i].st = inst[i].st /\ inst'[i].tid = inst[i].tid /\ inst'[i].cmds = inst[i].cmds
      /\ \A j \in Insts : j # i => inst'[j] = inst[j]
  BY <1>1 DEF LoseBuffer, Inst
<1> QED BY <1>2 DEF BufferEffect, KeepsCmds, SameCmd

LEMMA BareEffect ==
    ASSUME IInv, NEW i \in Insts, inst[i].st = "listed", NEW c \in Cmd, Buffer(i, c)
    PROVE  BufferEffect(i, c)
BY StoreAppends, LoseEffect DEF Buffer, BufferEffect

(* The payload does not change what the command is.                         *)
LEMMA StoredEffect ==
    ASSUME IInv, NEW i \in Insts, inst[i].st = "listed", NEW c \in Cmd, NEW p \in Payloads,
           Store(i, [c EXCEPT !.data = p])
    PROVE  BufferEffect(i, c)
<1> DEFINE d == [c EXCEPT !.data = p]
<1>1. d \in Cmd /\ d.op = c.op /\ d.mask = c.mask /\ d.id = c.id /\ d.ask = c.ask
  BY DEF Cmd
<1>2. Store(i, d)
  OBVIOUS
<1> HIDE DEF d
<1>3. Appends(i, d) /\ \A j \in Insts : j # i => inst'[j] = inst[j]
  BY <1>1, <1>2, StoreAppends
<1>4. ExecutedAs(d) = ExecutedAs(c)
  BY <1>1, ExecutedSame
<1> QED BY <1>1, <1>3, <1>4 DEF Appends, SameCmd, BufferEffect

LEMMA PayloadEffect ==
    ASSUME IInv, NEW i \in Insts, inst[i].st = "listed", NEW c \in Cmd, NEW tag,
           BufferPayload(i, c, tag)
    PROVE  BufferEffect(i, c)
<1>1. ASSUME NEW p \in Payloads, Store(i, [c EXCEPT !.data = p]) PROVE BufferEffect(i, c)
  BY <1>1, StoredEffect
<1>2. CASE inst' = [inst EXCEPT ![i] = Grown(inst[i])]
  <2>1. inst \in [Insts -> Inst] /\ inst[i] \in Inst
    BY DEF IInv, MemInv
  <2>2. Len(inst[i].cmds) < inst[i].max /\ inst[i].init \in Nat \ {0}
    BY DEF IInv, MemInv, RoomInv
  <2>3. /\ inst'[i].st = inst[i].st /\ inst'[i].tid = inst[i].tid /\ inst'[i].cmds = inst[i].cmds
        /\ \A j \in Insts : j # i => inst'[j] = inst[j]
    BY <1>2, <2>1, <2>2, GrownFacts
  <2> QED BY <2>3 DEF BufferEffect, KeepsCmds, SameCmd
<1>3. CASE LoseBuffer(i)
  BY <1>3, LoseEffect
<1> QED BY <1>1, <1>2, <1>3 DEF BufferPayload

(* One more command waits, if it is an access.                              *)
LEMMA AppendWaits ==
    ASSUME IInv, IInv', ready, UNCHANGED <<TxnList, ready, fl>>,
           NEW t \in Threads, NEW i \in Insts, Found(t, i), fl[t] = NoFlush,
           NEW c, Appends(i, c), \A j \in Insts : InPlace(j)
    PROVE  Waiting(t)' = Waiting(t) \cup
              (IF c.ask = "none" THEN {} ELSE {[id |-> c.id, ask |-> c.ask]})
<1> DEFINE n == Len(inst[i].cmds)
           new == IF c.ask = "none" THEN {} ELSE {[id |-> c.id, ask |-> c.ask]}
<1>1. /\ n \in Nat /\ DOMAIN inst[i].cmds = 1..n
      /\ DOMAIN inst'[i].cmds = 1..n \cup {n + 1}
      /\ \A k \in 1..n : SameCmd(inst'[i].cmds[k], inst[i].cmds[k])
      /\ SameCmd(inst'[i].cmds[n + 1], c)
  BY Slots DEF Appends
<1>2. Found(t, i)'
  BY FoundStays
<1>3. Position(t, i) = 0 /\ Position(t, i)' = 0
  BY NotFlushing DEF Position
<1>4. ASSUME NEW a
      PROVE  a \in Waiting(t)' <=>
               \E k \in DOMAIN inst'[i].cmds :
                  /\ k > Position(t, i)' /\ inst'[i].cmds[k].ask # "none"
                  /\ a = [id |-> inst'[i].cmds[k].id, ask |-> inst'[i].cmds[k].ask]
  <2>1. \A b : b \in Waiting(t)' <=> \E j \in Insts : \E k \in DOMAIN inst'[j].cmds :
           WaitsIn(t, j, k)' /\ b = [id |-> inst'[j].cmds[k].id, ask |-> inst'[j].cmds[k].ask]
    BY DEF Waiting
  <2>2. ASSUME NEW j \in Insts, NEW k, WaitsIn(t, j, k)' PROVE j = i
    <3>1. Found(t, j)'
      BY <2>2 DEF WaitsIn
    <3>2. Found(t, j)
      BY <3>1, FoundStays
    <3> QED BY <3>2, FoundOne
  <2>3. ASSUME NEW k
        PROVE  WaitsIn(t, i, k)' <=> /\ k \in DOMAIN inst'[i].cmds
                                     /\ k > Position(t, i)' /\ inst'[i].cmds[k].ask # "none"
    BY <1>2 DEF WaitsIn
  <2> QED BY <2>1, <2>2, <2>3
<1>5. ASSUME NEW a PROVE a \in Waiting(t)' <=> a \in Waiting(t) \/ a \in new
  <2>1. a \in Waiting(t) <=> \E k \in 1..n :
          inst[i].cmds[k].ask # "none" /\ a = [id |-> inst[i].cmds[k].id, ask |-> inst[i].cmds[k].ask]
    BY <1>1, <1>3, WaitingOfFound
  <2>2. a \in Waiting(t)' <=> \E k \in 1..n \cup {n + 1} :
          inst'[i].cmds[k].ask # "none" /\ a = [id |-> inst'[i].cmds[k].id, ask |-> inst'[i].cmds[k].ask]
    BY <1>1, <1>3, <1>4
  <2> HIDE DEF n
  <2> QED BY <1>1, <2>1, <2>2 DEF SameCmd
<1> QED BY <1>5

(* A command is buffered for the thread's transaction, or fails to be.      *)
LEMMA AppendStep ==
    ASSUME IInv, IInv', TidUnique, OrderInv, ready, UNCHANGED <<TxnList, ready, fl, out>>,
           NEW t \in Threads, NEW i \in Insts, Found(t, i), fl[t] = NoFlush,
           NEW c, BufferEffect(i, c), ExecutedAs(c) = c.ask, c.ask \in Kinds \cup {"none"},
           c.ask = "none" => UNCHANGED issued,
           c.ask # "none" => CountIfBuffered(t, i) /\ c.id = issued[t] + 1
    PROVE  OrderInv' /\ OrderNext
<1>1. \A j \in Insts : j # i => KeepsCmds(j)
  BY SameAt DEF BufferEffect
<1>2. CASE Appends(i, c)
  <2>1. /\ c.ask = "none" => UNCHANGED issued
        /\ c.ask # "none" => issued' = [issued EXCEPT ![t] = @ + 1] /\ issued'[t] = issued[t] + 1
    <3>1. Len(inst'[i].cmds) > Len(inst[i].cmds)
      BY <1>2, Slots DEF Appends
    <3> QED BY <3>1, GrowsOne DEF CountIfBuffered
  <2>2. Grows
    BY <2>1, GrowsSame, GrowsOne
  <2>3. Buffers(t, i)
    BY <1>2, <2>1 DEF Buffers
  <2>4. \A j \in Insts : InPlace(j)
    BY <1>1, <2>3 DEF InPlace
  <2>5. OrderInv'
    BY <2>2, <2>4, OrderKept
  <2>6. \A u \in Threads : u # t => Waiting(u)' = Waiting(u)
    BY <1>1, <2>4, OthersWait DEF OnlyFlushOf
  <2>7. Waiting(t)' = Waiting(t) \cup (IF c.ask = "none" THEN {} ELSE {[id |-> c.id, ask |-> c.ask]})
    BY <1>2, <2>4, AppendWaits
  <2>8. CASE c.ask = "none"
    <3>1. Waiting(t)' = Waiting(t)
      BY <2>7, <2>8
    <3> QED BY <2>1, <2>5, <2>6, <2>8, <3>1, Stutters
  <2>9. CASE c.ask # "none"
    <3>1. Waiting(t)' = Waiting(t) \cup {[id |-> issued[t] + 1, ask |-> c.ask]}
      BY <2>7, <2>9
    <3>2. c.ask \in Kinds
      BY <2>9
    <3> QED BY <2>1, <2>5, <2>6, <2>9, <3>1, <3>2, Accepts
  <2> QED BY <2>8, <2>9
<1>3. CASE KeepsCmds(i) /\ Len(inst'[i].cmds) = Len(inst[i].cmds)
  <2>1. UNCHANGED issued
    BY <1>3, Slots DEF CountIfBuffered
  <2> QED BY <1>1, <1>3, <2>1, IdleStep
<1> QED BY <1>2, <1>3 DEF BufferEffect

----------------------------------------------------------------------------
(* The calls.                                                               *)

LEMMA FoundListed ==
    ASSUME IInv, ready, NEW t \in Threads, NEW i \in Insts, Found(t, i)
    PROVE  inst[i].st = "listed"
BY FoundFacts

(* The calls buffer what will be executed as what it was asked for as.      *)
LEMMA AsAsked ==
    ASSUME NothingRefused, NEW t \in Threads
    PROVE  /\ ExecutedAs(Access(t, IO_WRITE, "Write32", 0)) = "Write32"
           /\ \A mask \in Masks : ExecutedAs(Access(t, IO_WRITE, "MaskWrite32", mask)) = "MaskWrite32"
           /\ \A op \in {IO_MASKPOLL, IO_MASKPOLL_BUSY} :
                ExecutedAs(Access(t, op, "MaskPoll", 1)) = "MaskPoll"
           /\ ExecutedAs(Access(t, IO_BLOCKWRITE, "BlockWrite32", 0)) = "BlockWrite32"
           /\ ExecutedAs(Access(t, IO_BLOCKSET, "BlockSet32", 0)) = "BlockSet32"
<1>1. CustomOpBegin \in Nat /\ CustomOpBegin > 13
  BY TxnAssumption
<1> QED BY <1>1 DEF NothingRefused, ExecutedAs, Access, IO_WRITE, IO_MASKPOLL, IO_MASKPOLL_BUSY,
       IO_BLOCKWRITE, IO_BLOCKSET

LEMMA SkippedOps ==
    ASSUME NEW op \in CustomOpBegin..CustomOpMax
    PROVE  ExecutedAs(Control(op)) = "none"
<1>1. CustomOpBegin \in Nat /\ CustomOpMax \in Nat
  BY TxnAssumption
<1>2. Control(op).op = op /\ op >= CustomOpBegin /\ op > 13
  BY <1>1, TxnAssumption DEF Control
<1> QED BY <1>2 DEF ExecutedAs, IO_WRITE, IO_BLOCKWRITE, IO_BLOCKSET, IO_MASKPOLL, IO_MASKPOLL_BUSY

LEMMA AccessBuffered ==
    ASSUME IInv, IInv', TidUnique, OrderInv, ready, UNCHANGED <<TxnList, ready, fl, out>>,
           NEW t \in Threads, NEW i \in Insts, Found(t, i), fl[t] = NoFlush,
           NEW op, NEW kind \in Kinds, NEW mask,
           BufferEffect(i, Access(t, op, kind, mask)), CountIfBuffered(t, i),
           ExecutedAs(Access(t, op, kind, mask)) = kind
    PROVE  OrderInv' /\ OrderNext
<1> DEFINE c == Access(t, op, kind, mask)
<1>1. c.ask = kind /\ c.id = issued[t] + 1 /\ kind # "none"
  BY DEF Access, Kinds
<1>2. BufferEffect(i, c) /\ ExecutedAs(c) = kind
  OBVIOUS
<1> HIDE DEF c
<1> QED BY <1>1, <1>2, AppendStep

LEMMA CustomBuffered ==
    ASSUME IInv, IInv', TidUnique, OrderInv, ready, UNCHANGED <<TxnList, ready, fl, issued, out>>,
           NEW t \in Threads, NEW i \in Insts, Found(t, i), fl[t] = NoFlush,
           NEW op \in CustomOpBegin..CustomOpMax, BufferEffect(i, Control(op))
    PROVE  OrderInv' /\ OrderNext
<1> DEFINE c == Control(op)
<1>1. c.ask = "none"
  BY DEF Control
<1>2. BufferEffect(i, c) /\ ExecutedAs(c) = "none"
  BY SkippedOps
<1> HIDE DEF c
<1> QED BY <1>1, <1>2, AppendStep

LEMMA OrderWrite32 ==
    ASSUME IInv, IInv', TidUnique, NothingRefused, OrderInv, NEW t \in Threads, Write32(t)
    PROVE  OrderInv' /\ OrderNext
<1>1. PICK i \in Insts : /\ Found(t, i) /\ CountIfBuffered(t, i)
                         /\ Buffer(i, Access(t, IO_WRITE, "Write32", 0))
  BY DEF Write32
<1>2. ready /\ fl[t] = NoFlush /\ UNCHANGED <<TxnList, ready, fl, out>>
  BY DEF Write32, MayAccess, MayCall
<1>3. Access(t, IO_WRITE, "Write32", 0) \in Cmd /\ "Write32" \in Kinds
  BY AccessType DEF IO_WRITE, Kinds
<1>4. BufferEffect(i, Access(t, IO_WRITE, "Write32", 0))
  BY <1>1, <1>2, <1>3, FoundListed, BareEffect
<1> QED BY <1>1, <1>2, <1>3, <1>4, AsAsked, AccessBuffered

LEMMA OrderMaskWrite32 ==
    ASSUME IInv, IInv', TidUnique, NothingRefused, OrderInv, NEW t \in Threads, MaskWrite32(t)
    PROVE  OrderInv' /\ OrderNext
<1>1. PICK i \in Insts, mask \in Masks :
        /\ Found(t, i) /\ CountIfBuffered(t, i)
        /\ Buffer(i, Access(t, IO_WRITE, "MaskWrite32", mask))
  BY DEF MaskWrite32
<1>2. ready /\ fl[t] = NoFlush /\ UNCHANGED <<TxnList, ready, fl, out>>
  BY DEF MaskWrite32, MayAccess, MayCall
<1>3. Access(t, IO_WRITE, "MaskWrite32", mask) \in Cmd /\ "MaskWrite32" \in Kinds
  BY AccessType, TxnAssumption DEF IO_WRITE, Kinds
<1>4. BufferEffect(i, Access(t, IO_WRITE, "MaskWrite32", mask))
  BY <1>1, <1>2, <1>3, FoundListed, BareEffect
<1> QED BY <1>1, <1>2, <1>3, <1>4, AsAsked, AccessBuffered

LEMMA OrderMaskPoll ==
    ASSUME IInv, IInv', TidUnique, NothingRefused, OrderInv, NEW t \in Threads, MaskPoll(t)
    PROVE  OrderInv' /\ OrderNext
<1>1. ready /\ fl[t] = NoFlush /\ UNCHANGED <<TxnList, ready, out>>
  BY DEF MaskPoll, MayAccess, MayCall
<1>2. ASSUME NEW i \in Insts, BeginFlush(t, i, "MaskPoll"), UNCHANGED <<inst, issued>>
      PROVE  OrderInv' /\ OrderNext
  BY <1>1, <1>2, BeginStep
<1>3. ASSUME NEW i \in Insts, Found(t, i), NEW op \in {IO_MASKPOLL, IO_MASKPOLL_BUSY},
             Buffer(i, Access(t, op, "MaskPoll", 1)), CountIfBuffered(t, i), UNCHANGED fl
      PROVE  OrderInv' /\ OrderNext
  <2>1. Access(t, op, "MaskPoll", 1) \in Cmd /\ "MaskPoll" \in Kinds
    <3>1. op \in 0..13 /\ 1 \in Nat /\ "MaskPoll" \in Kinds
      BY DEF IO_MASKPOLL, IO_MASKPOLL_BUSY, Kinds
    <3> QED BY <3>1, AccessType
  <2>2. BufferEffect(i, Access(t, op, "MaskPoll", 1))
    BY <1>1, <1>3, <2>1, FoundListed, BareEffect
  <2> QED BY <1>1, <1>3, <2>1, <2>2, AsAsked, AccessBuffered
<1> QED BY <1>2, <1>3 DEF MaskPoll

LEMMA OrderBlockWrite32 ==
    ASSUME IInv, IInv', TidUnique, NothingRefused, OrderInv, NEW t \in Threads, BlockWrite32(t)
    PROVE  OrderInv' /\ OrderNext
<1>1. ready /\ fl[t] = NoFlush /\ UNCHANGED <<TxnList, ready>> /\ "BlockWrite32" \in Kinds
  BY DEF BlockWrite32, MayAccess, MayCall, Kinds
<1>2. ASSUME NEW i \in Insts, BeginFlush(t, i, "BlockWrite32"), UNCHANGED <<inst, issued, out>>
      PROVE  OrderInv' /\ OrderNext
  BY <1>1, <1>2, BeginStep
<1>3. ASSUME NEW i \in Insts, Found(t, i), inst[i].cmds = <<>>, PerformNow(t, "BlockWrite32"),
             UNCHANGED <<inst, fl>>
      PROVE  OrderInv' /\ OrderNext
  BY <1>1, <1>3, EmptyWaits, DirectStep
<1>4. ASSUME NEW i \in Insts, Found(t, i),
             BufferPayload(i, Access(t, IO_BLOCKWRITE, "BlockWrite32", 0), "block"),
             CountIfBuffered(t, i), UNCHANGED <<fl, out>>
      PROVE  OrderInv' /\ OrderNext
  <2>1. Access(t, IO_BLOCKWRITE, "BlockWrite32", 0) \in Cmd
    BY <1>1, AccessType DEF IO_BLOCKWRITE
  <2>2. BufferEffect(i, Access(t, IO_BLOCKWRITE, "BlockWrite32", 0))
    BY <1>1, <1>4, <2>1, FoundListed, PayloadEffect
  <2> QED BY <1>1, <1>4, <2>1, <2>2, AsAsked, AccessBuffered
<1> QED BY <1>2, <1>3, <1>4 DEF BlockWrite32, MustFlush

LEMMA OrderBlockSet32 ==
    ASSUME IInv, IInv', TidUnique, NothingRefused, OrderInv, NEW t \in Threads, BlockSet32(t)
    PROVE  OrderInv' /\ OrderNext
<1>1. ready /\ fl[t] = NoFlush /\ UNCHANGED <<TxnList, ready>> /\ "BlockSet32" \in Kinds
  BY DEF BlockSet32, MayAccess, MayCall, Kinds
<1>2. ASSUME NEW i \in Insts, BeginFlush(t, i, "BlockSet32"), UNCHANGED <<inst, issued, out>>
      PROVE  OrderInv' /\ OrderNext
  BY <1>1, <1>2, BeginStep
<1>3. ASSUME NEW i \in Insts, Found(t, i), inst[i].cmds = <<>>, PerformNow(t, "BlockSet32"),
             UNCHANGED <<inst, fl>>
      PROVE  OrderInv' /\ OrderNext
  BY <1>1, <1>3, EmptyWaits, DirectStep
<1>4. ASSUME NEW i \in Insts, Found(t, i), Buffer(i, Access(t, IO_BLOCKSET, "BlockSet32", 0)),
             CountIfBuffered(t, i), UNCHANGED <<fl, out>>
      PROVE  OrderInv' /\ OrderNext
  <2>1. Access(t, IO_BLOCKSET, "BlockSet32", 0) \in Cmd
    BY <1>1, AccessType DEF IO_BLOCKSET
  <2>2. BufferEffect(i, Access(t, IO_BLOCKSET, "BlockSet32", 0))
    BY <1>1, <1>4, <2>1, FoundListed, BareEffect
  <2> QED BY <1>1, <1>4, <2>1, <2>2, AsAsked, AccessBuffered
<1> QED BY <1>2, <1>3, <1>4 DEF BlockSet32, MustFlush

LEMMA OrderReadOrRunOp ==
    ASSUME IInv, IInv', TidUnique, OrderInv, NEW t \in Threads, ReadOrRunOp(t)
    PROVE  OrderInv' /\ OrderNext
<1>1. PICK kind \in {"Read32", "RunOp"}, i \in Insts :
        /\ ready /\ fl[t] = NoFlush /\ Found(t, i) /\ UNCHANGED <<TxnList, ready, inst>>
        /\ \/ BeginFlush(t, i, kind) /\ UNCHANGED <<issued, out>>
           \/ inst[i].cmds = <<>> /\ PerformNow(t, kind) /\ UNCHANGED fl
  BY DEF ReadOrRunOp, MayAccess, MayCall
<1>2. kind \in Kinds
  BY DEF Kinds
<1> QED BY <1>1, <1>2, BeginStep, EmptyWaits, DirectStep

LEMMA OrderDirect ==
    ASSUME IInv, IInv', TidUnique, OrderInv, NEW t \in Threads, Direct(t)
    PROVE  OrderInv' /\ OrderNext
<1>1. PICK kind \in Kinds : NoTxn(t) /\ PerformNow(t, kind) /\ UNCHANGED <<TxnList, ready, inst, fl>>
  BY DEF Direct
<1> QED BY <1>1, NoTxnWaits, DirectStep

LEMMA OrderPayloadOp ==
    ASSUME IInv, IInv', TidUnique, OrderInv, NEW t \in Threads, PayloadOp(t)
    PROVE  OrderInv' /\ OrderNext
<1>1. PICK i \in Insts, op \in {CUSTOM_OP_DDR_PATCH, CUSTOM_OP_MERGE_SYNC} :
        Found(t, i) /\ BufferPayload(i, Control(op), "custom")
  BY DEF PayloadOp
<1>2. ready /\ fl[t] = NoFlush /\ UNCHANGED <<TxnList, ready, fl, issued, out>>
  BY DEF PayloadOp, MayCall
<1>3. op \in CustomOpBegin..CustomOpMax
  BY <1>1, TxnAssumption DEF CUSTOM_OP_DDR_PATCH, CUSTOM_OP_MERGE_SYNC
<1>4. Control(op) \in Cmd
  BY <1>3, OpcodeFacts, ControlType
<1>5. BufferEffect(i, Control(op))
  BY <1>1, <1>2, <1>4, FoundListed, PayloadEffect
<1> QED BY <1>1, <1>2, <1>3, <1>5, CustomBuffered

LEMMA OrderAddCustomTxnOp ==
    ASSUME IInv, IInv', TidUnique, OrderInv, NEW t \in Threads, AddCustomTxnOp(t)
    PROVE  OrderInv' /\ OrderNext
<1>1. PICK i \in Insts, op \in UserOps :
        /\ Found(t, i) /\ CustomOpBegin <= op
        /\ (\E p \in Payloads : Store(i, [Control(op) EXCEPT !.data = p])) \/ LoseBuffer(i)
  BY DEF AddCustomTxnOp
<1>2. ready /\ fl[t] = NoFlush /\ UNCHANGED <<TxnList, ready, fl, issued, out>>
  BY DEF AddCustomTxnOp, MayCall
<1>3. op \in CustomOpBegin..CustomOpMax
  BY <1>1, TxnAssumption
<1>4. Control(op) \in Cmd
  BY <1>3, OpcodeFacts, ControlType
<1>5. BufferEffect(i, Control(op))
  BY <1>1, <1>2, <1>4, FoundListed, StoredEffect, LoseEffect
<1> QED BY <1>1, <1>2, <1>3, <1>5, CustomBuffered

LEMMA OrderRequest ==
    ASSUME IInv, IInv', TidUnique, OrderInv, NEW t \in Threads, RequestCustomTxnOp(t)
    PROVE  OrderInv' /\ OrderNext
<1>1. UNCHANGED <<TxnList, ready, fl, issued, out>>
  BY DEF RequestCustomTxnOp
<1>2. PICK i \in Insts : inst' = [inst EXCEPT ![i].nextOp = @ + 1]
  BY DEF RequestCustomTxnOp
<1>3. inst \in [Insts -> Inst]
  BY DEF IInv, TypeOK
<1>4. ASSUME NEW j \in Insts PROVE KeepsCmds(j)
  <2>1. inst'[j].st = inst[j].st /\ inst'[j].tid = inst[j].tid /\ inst'[j].cmds = inst[j].cmds
    BY <1>2, <1>3 DEF Inst
  <2> QED BY <2>1 DEF KeepsCmds, SameCmd
<1> QED BY <1>1, <1>4, IdleStep

LEMMA OrderCfg ==
    ASSUME IInv, IInv', TidUnique, OrderInv, NEW t \in Threads, CfgInitialCmdArraySize(t)
    PROVE  OrderInv' /\ OrderNext
<1>1. UNCHANGED <<TxnList, ready, inst, fl, issued, out>>
  BY DEF CfgInitialCmdArraySize
<1> QED BY <1>1, SameInst, IdleStep

LEMMA OrderSubmit ==
    ASSUME IInv, IInv', TidUnique, OrderInv, NEW t \in Threads, Submit(t)
    PROVE  OrderInv' /\ OrderNext
<1>1. PICK i \in Insts : BeginFlush(t, i, "Submit")
  BY DEF Submit
<1>2. fl[t] = NoFlush /\ UNCHANGED <<TxnList, ready, inst, issued, out>>
  BY DEF Submit, MayCall
<1> QED BY <1>1, <1>2, BeginStep

(* A new transaction is the last of the list, and empty.                    *)
LEMMA StartFacts ==
    ASSUME IInv, NEW t \in Threads, Start(t)
    PROVE  \E i \in Insts :
             /\ inst[i].st = "unused" /\ inst'[i].cmds = <<>> /\ TxnList' = Append(TxnList, i)
             /\ \A j \in Insts : j # i => inst'[j] = inst[j]
             /\ Len(TxnList') = Len(TxnList) + 1
             /\ DOMAIN TxnList' = 1..(Len(TxnList) + 1)
             /\ TxnList'[Len(TxnList) + 1] = i
             /\ \A k \in 1..Len(TxnList) :
                  TxnList'[k] = TxnList[k] /\ inst'[TxnList[k]] = inst[TxnList[k]]
<1>1. PICK i \in Insts, auto \in BOOLEAN :
        /\ inst[i].st = "unused" /\ TxnList' = Append(TxnList, i)
        /\ inst' = [inst EXCEPT ![i] =
                      [st |-> "listed", tid |-> TidOf[t], cmds |-> <<>>,
                       max |-> arraySize, init |-> arraySize,
                       nextOp |-> CustomOpNext, auto |-> auto, lost |-> FALSE]]
  BY DEF Start
<1>2. inst \in [Insts -> Inst] /\ ready
  BY DEF IInv, TypeOK, Start, MayCall
<1>3. inst'[i].cmds = <<>> /\ \A j \in Insts : j # i => inst'[j] = inst[j]
  BY <1>1, <1>2
<1>4. /\ Len(TxnList') = Len(TxnList) + 1 /\ DOMAIN TxnList' = 1..(Len(TxnList) + 1)
      /\ TxnList'[Len(TxnList) + 1] = i
      /\ \A k \in 1..Len(TxnList) : TxnList'[k] = TxnList[k]
  BY <1>1, ListFacts
<1>5. \A k \in 1..Len(TxnList) : TxnList[k] \in Insts /\ TxnList[k] # i
  BY <1>1, <1>2, ListFacts
<1> QED BY <1>1, <1>3, <1>4, <1>5

LEMMA OrderStart ==
    ASSUME IInv, IInv', TidUnique, OrderInv, NEW t \in Threads, Start(t)
    PROVE  OrderInv' /\ OrderNext
<1> DEFINE n == Len(TxnList)
<1>1. /\ ready /\ ready' /\ UNCHANGED <<fl, issued, out>> /\ n \in Nat /\ DOMAIN TxnList = 1..n
      /\ \A k \in 1..n : inst[TxnList[k]].st = "listed"
  BY ListFacts DEF Start, MayCall
<1>2. PICK i \in Insts :
             /\ inst[i].st = "unused" /\ inst'[i].cmds = <<>>
             /\ \A j \in Insts : j # i => inst'[j] = inst[j]
             /\ DOMAIN TxnList' = 1..(n + 1) /\ TxnList'[n + 1] = i
             /\ \A k \in 1..n : TxnList'[k] = TxnList[k] /\ inst'[TxnList[k]] = inst[TxnList[k]]
  BY StartFacts
<1> HIDE DEF n
<1>3. \A j \in Insts : InPlace(j) \/ inst'[j].cmds = <<>>
  BY <1>2, SameAt DEF InPlace
<1>4. ASSUME NEW u \in Threads, NEW j, NEW k \in 1..n
      PROVE  FoundAt(u, j, k)' <=> FoundAt(u, j, k)
  <2>1. \A l \in 1..(k - 1) : l \in 1..n
    BY <1>1, <1>4
  <2>2. TxnList'[k] = TxnList[k] /\ inst'[TxnList[k]] = inst[TxnList[k]]
        /\ \A l \in 1..(k - 1) : inst'[TxnList'[l]] = inst[TxnList[l]]
    BY <1>2, <1>4, <2>1
  <2> QED BY <2>2 DEF FoundAt
<1>5. ASSUME NEW u \in Threads, NEW j \in Insts
      PROVE  /\ Found(u, j) => Found(u, j)'
             /\ Found(u, j)' => Found(u, j) \/ inst'[j].cmds = <<>>
  <2>1. ASSUME Found(u, j) PROVE Found(u, j)'
    <3>1. PICK k \in 1..n : FoundAt(u, j, k)
      BY <1>1, <2>1 DEF Found
    <3>2. k \in DOMAIN TxnList' /\ FoundAt(u, j, k)'
      BY <1>1, <1>2, <1>4, <3>1
    <3> QED BY <3>2 DEF Found
  <2>2. ASSUME Found(u, j)' PROVE Found(u, j) \/ inst'[j].cmds = <<>>
    <3>1. PICK k \in 1..(n + 1) : FoundAt(u, j, k)'
      BY <1>2, <2>2 DEF Found
    <3>2. CASE k \in 1..n
      BY <1>1, <1>4, <3>1, <3>2 DEF Found
    <3>3. CASE k = n + 1
      BY <1>2, <3>1, <3>3 DEF FoundAt
    <3> QED BY <1>1, <3>1, <3>2, <3>3
  <2> QED BY <2>1, <2>2
<1>6. ASSUME NEW u \in Threads PROVE Waiting(u)' = Waiting(u)
  <2>1. \A j \in Insts : Found(u, j) => KeepsCmds(j) /\ Position(u, j)' = Position(u, j)
    <3>1. ASSUME NEW j \in Insts, Found(u, j) PROVE KeepsCmds(j) /\ Position(u, j)' = Position(u, j)
      <4>1. inst'[j] = inst[j]
        BY <1>1, <1>2, <3>1, FoundFacts
      <4> QED BY <1>1, <4>1, SameAt DEF Position
    <3> QED BY <3>1
  <2> QED BY <1>1, <1>5, <2>1, WaitsInNext
<1>7. OldestInv'
  <2> SUFFICES ASSUME NEW k \in 1..(n + 1), inst'[TxnList'[k]].cmds # <<>>
               PROVE  \E u \in Threads : FoundAt(u, TxnList[k], k)'
    BY <1>2 DEF OldestInv
  <2>1. k \in 1..n /\ inst[TxnList[k]].cmds # <<>> /\ TxnList'[k] = TxnList[k]
    BY <1>1, <1>2
  <2>2. \E u \in Threads : FoundAt(u, TxnList[k], k)
    BY <1>1, <2>1 DEF OrderInv, OldestInv
  <2> QED BY <1>4, <2>1, <2>2
<1>8. Grows
  BY <1>1, GrowsSame
<1>9. OrderInv'
  BY <1>3, <1>7, <1>8, AskedKept, NumberedKept DEF OrderInv
<1> QED BY <1>1, <1>6, <1>9, Stutters

----------------------------------------------------------------------------
(* The steps of a flush.                                                    *)

(* Thread t moves on in the buffer it executes.                             *)
LEMMA AdvanceFacts ==
    ASSUME IInv, NEW t \in Threads, fl[t] # NoFlush, Advance(t)
    PROVE  OnlyFlushOf(t) /\ fl'[t].inst = fl[t].inst /\ fl'[t].pos = fl[t].pos + 1
<1>1. fl \in [Threads -> FlushType]
  BY TypeSplit DEF RestTypeOK
<1> QED BY <1>1 DEF Advance, OnlyFlushOf, FlushType

LEMMA ReturnFacts ==
    ASSUME IInv, NEW t \in Threads, Return(t)
    PROVE  OnlyFlushOf(t) /\ fl'[t] = NoFlush
BY DEF Return, OnlyFlushOf, IInv, TypeOK

(* What waits once the command at the thread's place is executed.           *)
LEMMA AdvanceWaits ==
    ASSUME IInv, UNCHANGED <<TxnList, ready>>, NEW t \in Threads, fl[t] # NoFlush,
           Advance(t), CanRead(t), Found(t, fl[t].inst), \A j \in Insts : KeepsCmds(j),
           NEW a
    PROVE  a \in Waiting(t)' <=>
             \E k \in DOMAIN FlushInst(t).cmds :
                /\ k > fl[t].pos + 1 /\ FlushInst(t).cmds[k].ask # "none"
                /\ a = [id |-> FlushInst(t).cmds[k].id, ask |-> FlushInst(t).cmds[k].ask]
<1>1. PICK i \in Insts : ready /\ i = fl[t].inst
  BY FlushFacts
<1>2. Position(t, i)' = fl[t].pos + 1
  BY <1>1, AdvanceFacts DEF Position
<1>3. \A j \in Insts : InPlace(j)
  BY DEF InPlace
<1>4. \A j \in Insts : Found(t, j)' <=> j = i
  BY <1>1, <1>3, FoundStays, FoundOne
<1>5. a \in Waiting(t)' <=> \E j \in Insts : \E k \in DOMAIN inst'[j].cmds :
        WaitsIn(t, j, k)' /\ a = [id |-> inst'[j].cmds[k].id, ask |-> inst'[j].cmds[k].ask]
  BY DEF Waiting
<1>6. \A j \in Insts : \A k : WaitsIn(t, j, k)' <=>
        j = i /\ k \in DOMAIN inst'[i].cmds /\ k > fl[t].pos + 1 /\ inst'[i].cmds[k].ask # "none"
  BY <1>1, <1>2, <1>4 DEF WaitsIn
<1>7. DOMAIN inst'[i].cmds = DOMAIN inst[i].cmds /\ \A k \in DOMAIN inst[i].cmds :
        inst'[i].cmds[k].id = inst[i].cmds[k].id /\ inst'[i].cmds[k].ask = inst[i].cmds[k].ask
  BY <1>1 DEF KeepsCmds, SameCmd
<1>8. FlushInst(t) = inst[i]
  BY <1>1 DEF FlushInst
<1> QED BY <1>1, <1>5, <1>6, <1>7, <1>8

LEMMA OrderSkip ==
    ASSUME IInv, IInv', TidUnique, OrderInv, NEW t \in Threads, fl[t] # NoFlush, CanRead(t),
           SkipCustomOp(t), UNCHANGED <<TxnList, ready, issued>>
    PROVE  OrderInv' /\ OrderNext
<1> DEFINE i == fl[t].inst
           p == fl[t].pos
<1>1. /\ ready /\ i \in Insts /\ p \in Nat /\ p + 1 \in DOMAIN inst[i].cmds
      /\ inst[i].st = "exported" \/ Found(t, i)
  BY FlushFacts DEF IInv, FlushInv
<1>2. (\A j \in Insts : KeepsCmds(j)) /\ Advance(t) /\ UNCHANGED out
  BY SameInst DEF SkipCustomOp
<1>3. inst[i].cmds[p + 1].ask = "none"
  BY <1>1 DEF SkipCustomOp, NextCmd, FlushInst, OrderInv, AskedInv, Live, CanRead
<1>4. OnlyFlushOf(t) /\ fl'[t].inst = i /\ fl'[t].pos = p + 1
  BY <1>2, AdvanceFacts
<1>5. CASE inst[i].st = "exported"
  <2>1. \A j \in Insts : Found(t, j) => Position(t, j)' = Position(t, j)
    BY <1>1, <1>4, <1>5, FoundFacts DEF Position
  <2> QED BY <1>2, <1>4, <2>1, QuietStep
<1>6. CASE Found(t, i)
  <2>1. \A j \in Insts : InPlace(j)
    BY <1>2 DEF InPlace
  <2>2. \A u \in Threads : u # t => Waiting(u)' = Waiting(u)
    BY <1>2, <1>4, <2>1, OthersWait
  <2>3. ASSUME NEW a PROVE a \in Waiting(t)' <=> a \in Waiting(t)
    <3>1. a \in Waiting(t)' <=> \E k \in DOMAIN inst[i].cmds :
                /\ k > p + 1 /\ inst[i].cmds[k].ask # "none"
                /\ a = [id |-> inst[i].cmds[k].id, ask |-> inst[i].cmds[k].ask]
      BY <1>2, <1>6, AdvanceWaits DEF FlushInst
    <3>2. a \in Waiting(t) <=> \E k \in DOMAIN inst[i].cmds :
                /\ k > p /\ inst[i].cmds[k].ask # "none"
                /\ a = [id |-> inst[i].cmds[k].id, ask |-> inst[i].cmds[k].ask]
      <4>1. Position(t, i) = p
        BY DEF Position
      <4> QED BY <1>1, <1>6, <4>1, WaitingOfFound
    <3>3. DOMAIN inst[i].cmds = 1..Len(inst[i].cmds)
      BY <1>1, Slots
    <3>4. \A k \in DOMAIN inst[i].cmds : k > p <=> k > p + 1 \/ k = p + 1
      BY <1>1, <3>3
    <3> HIDE DEF i, p
    <3> QED BY <1>3, <3>1, <3>2, <3>4
  <2>4. Waiting(t)' = Waiting(t)
    BY <2>3
  <2>5. OrderInv'
    BY <2>1, GrowsSame, OrderKept
  <2> QED BY <1>2, <2>2, <2>4, <2>5, Stutters
<1> QED BY <1>1, <1>5, <1>6

LEMMA ExecuteKeeps ==
    ASSUME IInv, NEW t \in Threads, fl[t] # NoFlush, CanRead(t), ExecuteAccess(t), NEW j \in Insts
    PROVE  KeepsCmds(j)
<1> DEFINE i == fl[t].inst
           k == fl[t].pos + 1
<1>1. i \in Insts /\ inst[i] \in Inst /\ inst \in [Insts -> Inst] /\ k \in DOMAIN inst[i].cmds
  BY FlushFacts DEF IInv, TypeOK
<1>2. inst' = inst \/ inst' = [inst EXCEPT ![i].cmds[k].data = NULL]
  BY DEF ExecuteAccess
<1>3. CASE inst' = inst
  BY <1>3, SameInst
<1>4. CASE inst' = [inst EXCEPT ![i].cmds[k].data = NULL]
  <2> DEFINE c == [inst[i].cmds[k] EXCEPT !.data = NULL]
             n == [inst[i] EXCEPT !.cmds = [inst[i].cmds EXCEPT ![k] = c]]
  <2>1. inst' = [inst EXCEPT ![i] = n]
    BY <1>1, <1>4
  <2>2. inst[i].cmds[k] \in Cmd
    BY <1>1, Slots
  <2>3. c.id = inst[i].cmds[k].id /\ c.ask = inst[i].cmds[k].ask
        /\ c.op = inst[i].cmds[k].op /\ c.mask = inst[i].cmds[k].mask
    BY <2>2 DEF Cmd
  <2>4. ExecutedAs(c) = ExecutedAs(inst[i].cmds[k])
    BY <2>3, ExecutedSame
  <2>5. n.st = inst[i].st /\ n.tid = inst[i].tid /\ n.cmds = [inst[i].cmds EXCEPT ![k] = c]
    BY <1>1 DEF Inst
  <2> HIDE DEF n, c
  <2>6. inst'[i] = n /\ (j # i => inst'[j] = inst[j])
    BY <1>1, <2>1
  <2>7. KeepsCmds(i)
    BY <1>1, <2>3, <2>4, <2>5, <2>6 DEF KeepsCmds, SameCmd
  <2> QED BY <2>6, <2>7, SameAt
<1> QED BY <1>2, <1>3, <1>4

LEMMA OrderExecute ==
    ASSUME IInv, IInv', TidUnique, OrderInv, NEW t \in Threads, fl[t] # NoFlush, CanRead(t),
           ExecuteAccess(t), UNCHANGED <<TxnList, ready, issued>>
    PROVE  OrderInv' /\ OrderNext
<1> DEFINE i == fl[t].inst
           p == fl[t].pos
           c == inst[i].cmds[p + 1]
           a == [id |-> c.id, ask |-> c.ask]
<1>1. /\ ready /\ i \in Insts /\ p \in Nat /\ p + 1 \in DOMAIN inst[i].cmds
      /\ inst[i].st = "exported" \/ Found(t, i)
  BY FlushFacts DEF IInv, FlushInv
<1>2. (\A j \in Insts : KeepsCmds(j)) /\ Advance(t)
  BY ExecuteKeeps DEF ExecuteAccess
<1>3. \A j \in Insts : InPlace(j)
  BY <1>2 DEF InPlace
<1>4. OnlyFlushOf(t) /\ fl'[t].inst = i /\ fl'[t].pos = p + 1
  BY <1>2, AdvanceFacts
<1>5. OrderInv'
  BY <1>3, GrowsSame, OrderKept
<1>6. /\ ExecutedAs(c) = c.ask /\ c.ask \in Kinds /\ c.ask # "none"
      /\ \E u \in Threads : c.id \in 1..issued[u]
  <2>1. ExecutedAs(c) \in Kinds /\ "none" \notin Kinds
    BY DEF ExecuteAccess, NextCmd, FlushInst, Kinds
  <2>2. Live(i)
    BY DEF CanRead, FlushInst, Live
  <2> QED BY <1>1, <2>1, <2>2 DEF OrderInv, AskedInv
<1>7. out' = [out EXCEPT ![t] = [id |-> c.id, ask |-> c.ask, did |-> c.ask, own |-> inst[i].st # "exported"]]
  BY <1>6 DEF ExecuteAccess, NextCmd, FlushInst
<1>8. CASE inst[i].st = "exported"
  <2>1. \A j \in Insts : Found(t, j) => Position(t, j)' = Position(t, j)
    BY <1>1, <1>4, <1>8, FoundFacts DEF Position
  <2>2. \A u \in Threads : Waiting(u)' = Waiting(u)
    BY <1>2, <1>3, <1>4, <2>1, SameWaiting
  <2>3. PICK u \in Threads : c.id \in 1..issued[u]
    BY <1>6
  <2>4. out' = [out EXCEPT ![t] = [id |-> c.id, ask |-> c.ask, did |-> c.ask, own |-> FALSE]]
    BY <1>7, <1>8
  <2> HIDE DEF c
  <2> QED BY <1>5, <1>6, <2>2, <2>3, <2>4, Replays
<1>9. CASE Found(t, i)
  <2>1. \A u \in Threads : u # t => Waiting(u)' = Waiting(u)
    BY <1>2, <1>3, <1>4, OthersWait
  <2>2. inst[i].st = "listed" /\ inst[i].tid = TidOf[t]
    BY <1>1, <1>9, FoundFacts
  <2>3. out' = [out EXCEPT ![t] = [id |-> a.id, ask |-> a.ask, did |-> a.ask, own |-> TRUE]]
    BY <1>7, <2>2
  <2>4. /\ DOMAIN inst[i].cmds = 1..Len(inst[i].cmds) /\ Len(inst[i].cmds) \in Nat
        /\ \A k \in DOMAIN inst[i].cmds : k \in Nat
    BY <1>1, Slots
  <2>5. ASSUME NEW b
        PROVE  /\ b \in Waiting(t)' <=> \E k \in DOMAIN inst[i].cmds :
                    /\ k > p + 1 /\ inst[i].cmds[k].ask # "none"
                    /\ b = [id |-> inst[i].cmds[k].id, ask |-> inst[i].cmds[k].ask]
               /\ b \in Waiting(t) <=> \E k \in DOMAIN inst[i].cmds :
                    /\ k > p /\ inst[i].cmds[k].ask # "none"
                    /\ b = [id |-> inst[i].cmds[k].id, ask |-> inst[i].cmds[k].ask]
    <3>1. Position(t, i) = p
      BY DEF Position
    <3>2. FlushInst(t) = inst[i]
      BY DEF FlushInst
    <3> QED BY <1>1, <1>2, <1>9, <3>1, <3>2, WaitingOfFound, AdvanceWaits
  <2>6. ASSUME NEW k \in DOMAIN inst[i].cmds, k > p + 1, inst[i].cmds[k].ask # "none"
        PROVE  c.id < inst[i].cmds[k].id
    <3>1. p + 1 \in 1..(k - 1)
      BY <1>1, <2>4, <2>6
    <3> QED BY <1>1, <1>6, <2>2, <2>6, <3>1 DEF OrderInv, NumberedInv
  <2>7. c.id \in Nat /\ \A k \in DOMAIN inst[i].cmds : inst[i].cmds[k].id \in Nat
    BY <1>1, Slots DEF Cmd
  <2>8. a \in Waiting(t)
    <3>1. p + 1 > p
      BY <1>1
    <3> QED BY <1>1, <1>6, <2>5, <3>1
  <2>9. ASSUME NEW b \in Waiting(t)
        PROVE  (b \in Waiting(t)' /\ a.id < b.id) \/ b = a
    <3>1. PICK k \in DOMAIN inst[i].cmds :
                    /\ k > p /\ inst[i].cmds[k].ask # "none"
                    /\ b = [id |-> inst[i].cmds[k].id, ask |-> inst[i].cmds[k].ask]
      BY <2>5
    <3>2. CASE k = p + 1
      BY <3>1, <3>2
    <3>3. CASE k # p + 1
      <4>1. k > p + 1
        BY <1>1, <2>4, <3>1, <3>3
      <4>2. c.id < inst[i].cmds[k].id
        BY <2>6, <3>1, <4>1
      <4> QED BY <2>5, <3>1, <4>1, <4>2
    <3> QED BY <3>2, <3>3
  <2>10. ASSUME NEW b \in Waiting(t)' PROVE b \in Waiting(t) /\ a.id < b.id
    <3>1. PICK k \in DOMAIN inst[i].cmds :
                    /\ k > p + 1 /\ inst[i].cmds[k].ask # "none"
                    /\ b = [id |-> inst[i].cmds[k].id, ask |-> inst[i].cmds[k].ask]
      BY <2>5
    <3>2. k > p
      BY <1>1, <2>4, <3>1
    <3>3. c.id < inst[i].cmds[k].id
      BY <2>6, <3>1
    <3> QED BY <2>5, <3>1, <3>2, <3>3
  <2>11. a.id \in Nat
    BY <2>7
  <2> HIDE DEF a, c
  <2>12. Waiting(t)' = Waiting(t) \ {a}
    <3>1. a \notin Waiting(t)'
      BY <2>10, <2>11
    <3> QED BY <2>9, <2>10, <3>1
  <2>13. \A b \in Waiting(t) : a.id <= b.id
    <3>1. ASSUME NEW b \in Waiting(t) PROVE a.id <= b.id
      <4>1. PICK k \in DOMAIN inst[i].cmds : b = [id |-> inst[i].cmds[k].id, ask |-> inst[i].cmds[k].ask]
        BY <2>5
      <4>2. b.id \in Nat
        BY <2>7, <4>1
      <4> QED BY <2>9, <2>11, <4>2
    <3> QED BY <3>1
  <2> QED BY <1>5, <2>1, <2>3, <2>8, <2>12, <2>13, Performs
<1> QED BY <1>1, <1>8, <1>9

LEMMA OrderFlush ==
    ASSUME IInv, IInv', TidUnique, NothingRefused, OrderInv, NEW t \in Threads, FlushStep(t)
    PROVE  OrderInv' /\ OrderNext
<1>1. fl[t] # NoFlush /\ UNCHANGED <<TxnList, ready, issued>>
  BY DEF FlushStep
<1>2. CASE CanRead(t) /\ ExecuteAccess(t)
  BY <1>1, <1>2, OrderExecute
<1>3. CASE CanRead(t) /\ SkipCustomOp(t)
  BY <1>1, <1>3, OrderSkip
<1>4. CASE CanRead(t) /\ FailFlush(t)
  <2>1. fl[t].inst \in Insts /\ fl[t].pos + 1 \in DOMAIN inst[fl[t].inst].cmds /\ NextCmd(t) \in Cmd
    BY <1>1, <1>4, FlushFacts
  <2>2. ExecutedAs(NextCmd(t)) = NextCmd(t).ask
    BY <1>4, <2>1 DEF NextCmd, FlushInst, CanRead, OrderInv, AskedInv, Live
  <2>3. NextCmd(t).ask \in Kinds \cup {"none"}
    BY <2>1 DEF Cmd
  <2> QED BY <1>4, <2>2, <2>3 DEF FailFlush, NothingRefused, Kinds
<1>5. CASE FaultyRead(t)
  BY <1>1, <1>5, SameInst, IdleStep DEF FaultyRead
<1> QED BY <1>2, <1>3, <1>4, <1>5 DEF FlushStep

----------------------------------------------------------------------------
(* Ends of flushes, clears, exports and the closing of the device.          *)

(* The list after the k-th node, which thread t found, is taken out.        *)
LEMMA RemovedList ==
    ASSUME IInv, ready, NEW k \in DOMAIN TxnList, TxnList' = Without(k),
           \A j \in Insts : j # TxnList[k] => inst'[j] = inst[j]
    PROVE  \A m \in DOMAIN TxnList' : \E q \in DOMAIN TxnList :
             /\ q # k /\ TxnList'[m] = TxnList[q] /\ inst'[TxnList[q]] = inst[TxnList[q]]
             /\ \A l \in 1..(q - 1) : l # k =>
                  \E o \in 1..(m - 1) : TxnList'[o] = TxnList[l] /\ inst'[TxnList[l]] = inst[TxnList[l]]
<1> DEFINE n == Len(TxnList)
<1>1. /\ n \in Nat /\ DOMAIN TxnList = 1..n /\ k \in 1..n
      /\ \A j \in 1..n : TxnList[j] \in Insts
      /\ \A j, l \in 1..n : TxnList[j] = TxnList[l] => j = l
  BY ListFacts DEF IInv, ListInv
<1>2. TxnList' = [j \in 1..(n - 1) |-> IF j < k THEN TxnList[j] ELSE TxnList[j + 1]]
  BY DEF Without
<1>3. \A j \in 1..n : j # k => inst'[TxnList[j]] = inst[TxnList[j]]
  BY <1>1
<1> HIDE DEF n
<1>4. ASSUME NEW m \in 1..(n - 1)
      PROVE  \E q \in 1..n :
             /\ q # k /\ TxnList'[m] = TxnList[q] /\ inst'[TxnList[q]] = inst[TxnList[q]]
             /\ \A l \in 1..(q - 1) : l # k =>
                  \E o \in 1..(m - 1) : TxnList'[o] = TxnList[l] /\ inst'[TxnList[l]] = inst[TxnList[l]]
  <2> DEFINE q == IF m < k THEN m ELSE m + 1
  <2>1. q \in 1..n /\ q # k /\ TxnList'[m] = TxnList[q]
    BY <1>1, <1>2
  <2>2. ASSUME NEW l \in 1..(q - 1), l # k
        PROVE  \E o \in 1..(m - 1) : TxnList'[o] = TxnList[l] /\ inst'[TxnList[l]] = inst[TxnList[l]]
    <3> DEFINE o == IF l < k THEN l ELSE l - 1
    <3>1. o \in 1..(m - 1) /\ o \in 1..(n - 1) /\ TxnList'[o] = TxnList[l] /\ l \in 1..n
      BY <1>1, <1>2, <2>2
    <3>2. inst'[TxnList[l]] = inst[TxnList[l]]
      BY <1>3, <2>2, <3>1
    <3> QED BY <3>1, <3>2
  <2>3. inst'[TxnList[q]] = inst[TxnList[q]]
    BY <1>3, <2>1
  <2> QED BY <2>1, <2>2, <2>3
<1>5. DOMAIN TxnList' = 1..(n - 1) /\ DOMAIN TxnList = 1..n
  BY <1>1, <1>2
<1>6. ASSUME NEW m \in DOMAIN TxnList'
      PROVE  \E q \in DOMAIN TxnList :
             /\ q # k /\ TxnList'[m] = TxnList[q] /\ inst'[TxnList[q]] = inst[TxnList[q]]
             /\ \A l \in 1..(q - 1) : l # k =>
                  \E o \in 1..(m - 1) : TxnList'[o] = TxnList[l] /\ inst'[TxnList[l]] = inst[TxnList[l]]
  <2>1. m \in 1..(n - 1)
    BY <1>5, <1>6
  <2> QED BY ONLY <2>1, <1>4, <1>5
<1> QED BY ONLY <1>6

(* A transaction the thread has nothing waiting in is cleaned up and taken  *)
(* out of the list, or one it gives up.                                     *)
LEMMA RemovalStep ==
    ASSUME IInv, IInv', TidUnique, OrderInv, ready, UNCHANGED <<ready, issued, out>>,
           NEW t \in Threads, OnlyFlushOf(t), NEW k \in DOMAIN TxnList,
           FoundAt(t, TxnList[k], k), TxnList' = Without(k), Dispose(TxnList[k])
    PROVE  OrderInv' /\ OrderNext
<1>1. PICK i \in Insts : i = TxnList[k] /\ inst[i].st = "listed"
  BY ListFacts
<1>2. inst \in [Insts -> Inst] /\ Unused.cmds = <<>>
  BY DEF IInv, TypeOK, Unused
<1>3. \A j \in Insts : (j # i => inst'[j] = inst[j]) /\ (inst'[j] = inst[j] \/ inst'[j].cmds = <<>>)
  BY <1>1, <1>2 DEF Dispose
<1>4. \A j \in Insts : InPlace(j) \/ inst'[j].cmds = <<>>
  BY <1>3, SameAt DEF InPlace
<1>5. /\ TxnList' \in Seq(Insts) /\ ListInv'
      /\ \A u \in Threads, j \in Insts : u # t /\ Found(u, j) => Found(u, j)'
  BY <1>1, <1>3, RemovalFacts
<1>6. \A m \in DOMAIN TxnList' : \E q \in DOMAIN TxnList :
         /\ q # k /\ TxnList'[m] = TxnList[q] /\ inst'[TxnList[q]] = inst[TxnList[q]]
         /\ \A l \in 1..(q - 1) : l # k =>
              \E o \in 1..(m - 1) : TxnList'[o] = TxnList[l] /\ inst'[TxnList[l]] = inst[TxnList[l]]
  BY <1>1, <1>3, RemovedList
<1>7. ASSUME NEW u \in Threads, u # t, NEW j \in Insts, Found(u, j)'
      PROVE  Found(u, j)
  <2>1. PICK m \in DOMAIN TxnList' : FoundAt(u, j, m)'
    BY <1>7 DEF Found
  <2>2. PICK q \in DOMAIN TxnList :
         /\ q # k /\ TxnList'[m] = TxnList[q] /\ inst'[TxnList[q]] = inst[TxnList[q]]
         /\ \A l \in 1..(q - 1) : l # k =>
              \E o \in 1..(m - 1) : TxnList'[o] = TxnList[l] /\ inst'[TxnList[l]] = inst[TxnList[l]]
    BY <1>6
  <2>3. TxnList[q] = j /\ inst[j].tid = TidOf[u]
    BY <2>1, <2>2 DEF FoundAt
  <2>4. inst[TxnList[k]].tid # TidOf[u]
    BY <1>7 DEF FoundAt, TidUnique
  <2>5. \A l \in 1..(q - 1) : inst[TxnList[l]].tid # TidOf[u]
    BY <2>1, <2>2, <2>4 DEF FoundAt
  <2> QED BY <2>3, <2>5 DEF FoundAt, Found
<1>8. ASSUME NEW u \in Threads, u # t PROVE Waiting(u)' = Waiting(u)
  <2>1. \A j \in Insts : Found(u, j) => KeepsCmds(j) /\ Position(u, j)' = Position(u, j)
    <3>1. ASSUME NEW j \in Insts, Found(u, j) PROVE KeepsCmds(j) /\ Position(u, j)' = Position(u, j)
      <4>1. inst[j].tid # inst[i].tid
        BY <1>1, <1>8, <3>1, FoundFacts DEF FoundAt, TidUnique
      <4>2. KeepsCmds(j)
        BY <1>3, <4>1, SameAt
      <4> QED BY <1>8, <4>2 DEF OnlyFlushOf, Position
    <3> QED BY <3>1
  <2> QED BY <1>5, <1>7, <1>8, <2>1, WaitsInNext
<1>9. ASSUME NEW m \in DOMAIN TxnList', inst'[TxnList'[m]].cmds # <<>>
      PROVE  \E u \in Threads : u # t /\ inst'[TxnList'[m]].tid = TidOf[u] /\ Found(u, TxnList[m])'
  <2>1. PICK q \in DOMAIN TxnList :
          q # k /\ TxnList'[m] = TxnList[q] /\ inst'[TxnList[q]] = inst[TxnList[q]]
    BY <1>6
  <2>2. PICK u \in Threads : FoundAt(u, TxnList[q], q)
    BY <1>9, <2>1 DEF OrderInv, OldestInv
  <2>3. u # t
    BY <2>1, <2>2, FoundOnce DEF IInv
  <2>4. TxnList[q] \in Insts /\ Found(u, TxnList[q])
    BY <2>2, ListFacts DEF Found
  <2>5. PICK j \in Insts : j = TxnList[q]
    BY <2>4
  <2>6. Found(u, j)'
    BY <1>5, <2>3, <2>4, <2>5
  <2>7. Found(u, TxnList[m])'
    BY <2>1, <2>5, <2>6
  <2> QED BY <2>1, <2>2, <2>3, <2>7 DEF FoundAt
<1>10. Waiting(t)' = {}
  <2>1. ASSUME NEW j \in Insts, Found(t, j)' PROVE inst'[j].cmds = <<>>
    <3>1. PICK m \in DOMAIN TxnList' : TxnList'[m] = j /\ inst'[j].tid = TidOf[t]
      BY <2>1 DEF Found, FoundAt
    <3> QED BY <1>9, <3>1 DEF TidUnique
  <2> QED BY <2>1 DEF Waiting, WaitsIn
<1>11. OldestInv'
  <2> SUFFICES ASSUME NEW m \in DOMAIN TxnList', inst'[TxnList'[m]].cmds # <<>>
               PROVE  \E u \in Threads : FoundAt(u, TxnList[m], m)'
    BY DEF OldestInv
  <2>1. PICK u \in Threads : Found(u, TxnList[m])'
    BY <1>9
  <2>2. PICK l \in DOMAIN TxnList' : FoundAt(u, TxnList[m], l)'
    BY <2>1 DEF Found
  <2>3. l = m
    BY <1>5, <2>2 DEF ListInv, FoundAt
  <2> QED BY <2>2, <2>3
<1>12. OrderInv'
  BY <1>4, <1>11, GrowsSame, AskedKept, NumberedKept DEF OrderInv
<1> QED BY <1>8, <1>10, <1>12, GivesUp

LEMMA OrderFinishSubmit ==
    ASSUME IInv, IInv', TidUnique, OrderInv, NEW t \in Threads, FinishSubmit(t)
    PROVE  OrderInv' /\ OrderNext
<1>1. fl[t] # NoFlush /\ Return(t) /\ UNCHANGED <<ready, issued, out>>
  BY DEF FinishSubmit, Flushed
<1>2. OnlyFlushOf(t) /\ fl'[t] = NoFlush
  BY <1>1, ReturnFacts
<1>3. ready /\ fl[t].inst \in Insts
  BY <1>1, FlushFacts
<1>4. CASE FlushInst(t).st = "exported"
  <2>1. UNCHANGED <<TxnList, inst>>
    BY <1>4 DEF FinishSubmit
  <2>2. \A j \in Insts : Found(t, j) => Position(t, j)' = Position(t, j)
    <3>1. \A j \in Insts : Position(t, j)' = 0
      BY <1>2, TxnAssumption DEF Position, NoFlush
    <3>2. \A j \in Insts : Found(t, j) => Position(t, j) = 0
      BY <1>3, <1>4, FoundFacts DEF Position, FlushInst
    <3> QED BY <3>1, <3>2
  <2> QED BY <1>1, <1>2, <2>1, <2>2, SameInst, QuietStep
<1>5. CASE FlushInst(t).st = "listed"
  <2>1. Found(t, fl[t].inst)
    BY <1>1, <1>5 DEF IInv, FlushInv, FlushInst
  <2>2. PICK k \in DOMAIN TxnList :
          FoundAt(t, TxnList[k], k) /\ TxnList' = Without(k) /\ Dispose(fl[t].inst)
    BY <1>5 DEF FinishSubmit
  <2>3. TxnList[k] = fl[t].inst
    <3>1. PICK l \in DOMAIN TxnList : FoundAt(t, fl[t].inst, l)
      BY <2>1 DEF Found
    <3> QED BY <2>2, <3>1, FoundOnce DEF IInv
  <2> QED BY <1>1, <1>2, <1>3, <2>2, <2>3, RemovalStep
<1> QED BY <1>4, <1>5 DEF FinishSubmit

LEMMA OrderClear ==
    ASSUME IInv, IInv', TidUnique, OrderInv, NEW t \in Threads, Clear(t)
    PROVE  OrderInv' /\ OrderNext
<1>1. ready /\ UNCHANGED <<fl, ready, issued, out>>
  BY DEF Clear, MayCall
<1>2. PICK k \in DOMAIN TxnList :
        FoundAt(t, TxnList[k], k) /\ TxnList' = Without(k) /\ Dispose(TxnList[k])
  BY DEF Clear
<1> QED BY <1>1, <1>2, RemovalStep DEF OnlyFlushOf

(* The buffer has been executed to its end and is emptied, the access that  *)
(* waited for that performed, or refused.                                   *)
LEMMA OrderFinishAutoFlush ==
    ASSUME IInv, IInv', TidUnique, NothingRefused, OrderInv, AutoInv, NEW t \in Threads, FinishAutoFlush(t)
    PROVE  OrderInv' /\ OrderNext
<1>1. PICK kind \in Kinds : Flushed(t, kind) /\ PerformNow(t, kind)
  BY DEF FinishAutoFlush, NothingRefused
<1>2. /\ UNCHANGED <<TxnList, ready>> /\ Return(t) /\ fl[t] # NoFlush
      /\ inst' = [inst EXCEPT ![fl[t].inst].cmds = <<>>]
  BY DEF FinishAutoFlush, Flushed
<1>3. PICK i \in Insts : i = fl[t].inst /\ ready /\ inst[i].st = "listed" /\ Found(t, i)
  BY <1>1, <1>2, FlushFacts DEF Flushed, AutoInv, IInv, FlushInv
<1>4. OnlyFlushOf(t) /\ fl'[t] = NoFlush
  BY <1>2, ReturnFacts
<1>5. inst \in [Insts -> Inst] /\ inst[i] \in Inst
  BY DEF IInv, TypeOK
<1>6. Empties(i) /\ \A j \in Insts : j # i => inst'[j] = inst[j]
  BY <1>2, <1>3, <1>5 DEF Empties, Inst
<1>7. \A j \in Insts : InPlace(j) /\ (j # i => KeepsCmds(j))
  BY <1>6, SameAt DEF InPlace
<1>8. \A u \in Threads : u # t => Waiting(u)' = Waiting(u)
  BY <1>2, <1>3, <1>4, <1>7, OthersWait
<1>9. Waiting(t) = {}
  <2>1. Position(t, i) = fl[t].pos /\ fl[t].pos \in Nat /\ fl[t].pos >= Len(inst[i].cmds)
    BY <1>1, <1>2, <1>3, FlushFacts DEF Position, Flushed, FlushInst
  <2>2. \A k \in DOMAIN inst[i].cmds : ~(k > Position(t, i))
    BY <2>1, Slots
  <2>3. \A j \in Insts : Found(t, j) => j = i
    BY <1>3, FoundOne
  <2> QED BY <2>2, <2>3, NothingWaits
<1>10. Waiting(t)' = {}
  <2>1. \A j \in Insts : Found(t, j)' => j = i
    BY <1>2, <1>3, <1>7, FoundStays, FoundOne
  <2>2. inst'[i].cmds = <<>>
    BY <1>6 DEF Empties
  <2> QED BY <2>1, <2>2 DEF Waiting, WaitsIn
<1>11. \A u \in Threads : Waiting(u)' = Waiting(u)
  BY <1>8, <1>9, <1>10
<1>12. Grows
  BY <1>1, GrowsOne DEF PerformNow
<1>13. OrderInv'
  BY <1>2, <1>7, <1>12, OrderKept
<1> QED BY <1>1, <1>9, <1>11, <1>13, PerformsAtOnce

LEMMA OrderExport ==
    ASSUME IInv, IInv', TidUnique, OrderInv, NEW t \in Threads, Export(t)
    PROVE  OrderInv' /\ OrderNext
<1>1. ready /\ UNCHANGED <<TxnList, ready, fl, issued, out>>
  BY DEF Export, MayCall
<1>2. CASE UNCHANGED inst
  BY <1>1, <1>2, SameInst, IdleStep
<1>3. CASE ~UNCHANGED inst
  <2>1. PICK i \in Insts, j \in Insts :
          /\ Found(t, i) /\ inst[j].st = "unused"
          /\ \E new : inst' = [inst EXCEPT ![j] = Copy(inst[i], new)]
    BY <1>3 DEF Export
  <2>2. PICK new : inst' = [inst EXCEPT ![j] = Copy(inst[i], new)]
    BY <2>1
  <2>3. inst \in [Insts -> Inst] /\ inst[i] \in Inst /\ inst[i].st = "listed"
    BY <1>1, <2>1, FoundFacts DEF IInv, TypeOK
  <2> DEFINE n == Copy(inst[i], new)
             copied == [k \in DOMAIN inst[i].cmds |->
                          IF k \in Owned(inst[i]) THEN [inst[i].cmds[k] EXCEPT !.data = new[k]]
                                                  ELSE inst[i].cmds[k]]
  <2>4. n.st = "exported" /\ n.cmds = copied
    BY <2>3 DEF Copy, Inst
  <2>5. ASSUME NEW k \in DOMAIN inst[i].cmds
        PROVE  k \in DOMAIN copied /\ SameCmd(copied[k], inst[i].cmds[k])
    <3>1. inst[i].cmds[k] \in Cmd
      BY Slots
    <3> DEFINE c == inst[i].cmds[k]
               d == [c EXCEPT !.data = new[k]]
    <3>2. d.id = c.id /\ d.ask = c.ask /\ d.op = c.op /\ d.mask = c.mask
      BY <3>1 DEF Cmd
    <3>3. copied[k] = d \/ copied[k] = c
      OBVIOUS
    <3> HIDE DEF d, c, copied
    <3>4. SameCmd(copied[k], c)
      BY <3>2, <3>3, ExecutedSame DEF SameCmd
    <3> QED BY <3>4 DEF c, copied
  <2>6. DOMAIN copied = DOMAIN inst[i].cmds
    OBVIOUS
  <2> HIDE DEF n, copied
  <2>7. inst'[j] = n /\ \A l \in Insts : l # j => inst'[l] = inst[l]
    BY <2>2, <2>3 DEF n
  <2>8. Exports(j)
    BY <2>1, <2>3, <2>4, <2>5, <2>6, <2>7 DEF Exports, Live
  <2>9. \A l \in Insts : KeepsCmds(l) \/ (InPlace(l) /\ ~(ready /\ inst[l].st = "listed"))
    BY <2>1, <2>7, <2>8, SameAt DEF InPlace
  <2> QED BY <1>1, <2>9, IdleStep
<1> QED BY <1>2, <1>3

LEMMA OrderFreeExported ==
    ASSUME IInv, IInv', TidUnique, OrderInv, NEW t \in Threads, FreeExported(t)
    PROVE  OrderInv' /\ OrderNext
<1>1. UNCHANGED <<TxnList, ready, fl, issued, out>>
  BY DEF FreeExported
<1>2. PICK i \in Insts : inst[i].st = "exported" /\ Dispose(i)
  BY DEF FreeExported
<1>3. inst \in [Insts -> Inst] /\ Unused.st = "unused"
  BY DEF IInv, TypeOK, Unused
<1>4. \A j \in Insts : inst'[j] = inst[j] \/ (j = i /\ inst'[j].st = "unused")
  BY <1>2, <1>3 DEF Dispose
<1>5. \A j \in Insts : KeepsCmds(j) \/ (InPlace(j) /\ ~(ready /\ inst[j].st = "listed"))
  BY <1>2, <1>4, SameAt DEF InPlace, Frees
<1> QED BY <1>1, <1>5, IdleStep

LEMMA OrderFinish ==
    ASSUME IInv, IInv', TidUnique, OrderInv, NEW t \in Threads, Finish(t)
    PROVE  OrderInv' /\ OrderNext
<1>1. ~ready' /\ UNCHANGED <<issued, out>>
  BY DEF Finish
<1>2. \A u \in Threads : Waiting(u)' = {}
  BY <1>1 DEF Waiting, WaitsIn
<1>3. \A i \in Insts : inst'[i] = inst[i] \/ inst'[i] = Unused
  BY DEF Finish
<1>4. \A i \in Insts : InPlace(i) \/ inst'[i].cmds = <<>>
  BY <1>3, SameAt DEF InPlace, Unused
<1>5. OldestInv'
  BY <1>1 DEF OldestInv
<1>6. OrderInv'
  BY <1>1, <1>4, <1>5, GrowsSame, AskedKept, NumberedKept DEF OrderInv
<1> QED BY <1>1, <1>2, <1>6, GivesUpAll

----------------------------------------------------------------------------
LEMMA OrderStep ==
    ASSUME IInv, IInv', TidUnique, NothingRefused, OrderInv, AutoInv, [Next]_vars
    PROVE  OrderInv' /\ OrderNext
<1>1. CASE UNCHANGED vars
  <2>1. \A i \in Insts : InPlace(i)
    BY <1>1, SameInst DEF vars, InPlace
  <2>2. OrderInv'
    BY <1>1, <2>1, GrowsSame, OrderKept DEF vars
  <2>3. UNCHANGED <<[u \in Threads |-> Waiting(u)], issued, out>>
    BY <1>1 DEF vars, Waiting, WaitsIn, Found, FoundAt, Position
  <2> QED BY <2>2, <2>3 DEF OrderNext
<1>2. ASSUME NEW t \in Threads,
             \/ CfgInitialCmdArraySize(t) \/ Start(t)
             \/ Write32(t) \/ MaskWrite32(t) \/ MaskPoll(t)
             \/ BlockWrite32(t) \/ BlockSet32(t) \/ ReadOrRunOp(t) \/ Direct(t)
             \/ PayloadOp(t) \/ RequestCustomTxnOp(t) \/ AddCustomTxnOp(t)
      PROVE  OrderInv' /\ OrderNext
  BY <1>2, OrderCfg, OrderStart, OrderWrite32, OrderMaskWrite32, OrderMaskPoll,
     OrderBlockWrite32, OrderBlockSet32, OrderReadOrRunOp, OrderDirect,
     OrderPayloadOp, OrderRequest, OrderAddCustomTxnOp
<1>3. ASSUME NEW t \in Threads, ControlOp(t) \/ PmLoadStart(t) \/ PmLoadEnd(t)
      PROVE  OrderInv' /\ OrderNext
  BY <1>3 DEF ControlOp, PmLoadStart, PmLoadEnd, MayCall, NothingRefused
<1>4. ASSUME NEW t \in Threads,
             \/ FlushStep(t) \/ FinishSubmit(t) \/ FinishAutoFlush(t)
             \/ Submit(t) \/ Export(t) \/ Clear(t) \/ FreeExported(t) \/ Finish(t)
      PROVE  OrderInv' /\ OrderNext
  BY <1>4, OrderFlush, OrderFinishSubmit, OrderFinishAutoFlush, OrderSubmit, OrderExport,
     OrderClear, OrderFreeExported, OrderFinish
<1> QED BY <1>1, <1>2, <1>3, <1>4 DEF Next

LEMMA OrderInit == Init => OrderInv /\ Order!Init
<1> SUFFICES ASSUME Init PROVE OrderInv /\ Order!Init
  OBVIOUS
<1>1. ASSUME NEW t \in Threads PROVE Waiting(t) = {}
  BY DEF Init, Waiting, WaitsIn, Found
<1>2. Order!Init
  BY <1>1 DEF Init, Order!Init, Order!Performed
<1>3. \A i \in Insts : inst[i].st = "unused"
  BY DEF Init, Unused
<1>4. OrderInv
  BY <1>3 DEF Init, OrderInv, AskedInv, NumberedInv, OldestInv, Live
<1> QED BY <1>2, <1>4

(* Each thread's accesses reach the device in program order, each once and  *)
(* as it was asked for, however flushes, submits and exports of all threads *)
(* interleave and whatever allocation fails: Txn implements TxnOrder.       *)
THEOREM OrderImplemented ==
    ASSUME TidUnique, NothingRefused
    PROVE  Spec => ImplementsOrder
<1>1. Init => OrderInv /\ Order!Init
  BY OrderInit
<1>2. Init => AutoInv
  BY DEF Init, AutoInv, NoFlush, Kinds
<1>3. IInv /\ IInv' /\ AutoInv /\ [Next]_vars => AutoInv'
  BY StepExportStep
<1>4. IInv /\ IInv' /\ OrderInv /\ AutoInv /\ [Next]_vars => OrderInv'
  BY OrderStep
<1>5. IInv /\ IInv' /\ OrderInv /\ AutoInv /\ [Next]_vars
        => [Order!Next]_<<[t \in Threads |-> Waiting(t)], issued, out>>
  BY OrderStep DEF OrderNext
<1> QED BY <1>1, <1>2, <1>3, <1>4, <1>5, Inductive, PTL DEF Spec, ImplementsOrder, Order!Spec

=============================================================================
