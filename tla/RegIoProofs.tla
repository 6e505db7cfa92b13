----------------------------- MODULE RegIoProofs -----------------------------
(***************************************************************************)
(* Proofs of RegIo's invariants, for any number of threads and arrays.     *)
(***************************************************************************)
EXTENDS RegIo, FiniteSetTheorems, SequenceTheorems, TLAPS

----------------------------------------------------------------------------
(* The inductive invariant.                                                 *)

Access == [id : Nat, kind : AllKinds \cup {"none"}, off : Nat, size : Nat]
Transaction == [open : BOOLEAN, auto : BOOLEAN, cmds : Seq(Access)]
Buffer == [made : BOOLEAN, ops : Arrays \cup {NULL}, count : Nat, recording : BOOLEAN]
Exported == [ops : Arrays, count : Nat, session : Seq(Access)]

TypeInv ==
    /\ ready \in BOOLEAN
    /\ txn \in [Threads -> Transaction]
    /\ buf \in Buffer
    /\ heap \in [Arrays -> Seq(Access)]
    /\ held \in SUBSET Exported
    /\ IsFiniteSet(held)
    /\ issued \in Nat
    /\ log \in Seq(Access)
    /\ session \in Seq(Access)
    /\ gone \in SUBSET Nat

(* The first n slots of an array hold the accesses of s.                    *)
Holds(a, n, s) ==
    /\ n = Len(s) /\ n <= Len(heap[a])
    /\ \A k \in 1..n : heap[a][k] = s[k]

(* What records has an array; what has none has recorded nothing.           *)
CaptureInv ==
    /\ buf.recording => buf.made /\ buf.ops # NULL
    /\ buf.ops = NULL => session = <<>>
    /\ buf.ops # NULL => Holds(buf.ops, buf.count, session)
    /\ \A e \in held : Holds(e.ops, e.count, e.session)

(* The arrays with slots are the driver's one and those of the exports.     *)
OwnerInv ==
    /\ buf.ops # NULL => heap[buf.ops] # <<>>
    /\ \A e \in held : heap[e.ops] # <<>> /\ e.ops # buf.ops
    /\ \A e, f \in held : e.ops = f.ops => e = f
    /\ \A a \in Arrays : heap[a] # <<>> => a = buf.ops \/ \E e \in held : e.ops = a
    /\ \A a \in Arrays : Len(heap[a]) <= MaxSlots

Distinct(s) == \A j, k \in DOMAIN s : s[j].id = s[k].id => j = k
Apart(S, T) == S \cap T = {}

(* No access is twice in one place.                                         *)
DistinctInv ==
    /\ Distinct(log)
    /\ \A t \in Threads : Distinct(txn[t].cmds)
    /\ Distinct(session)
    /\ \A e \in held : Distinct(e.session)

(* No access is in two places.                                              *)
ApartInv ==
    /\ Apart(Ids(log), gone)
    /\ Apart(Ids(log), Ids(session))
    /\ Apart(Ids(session), gone)
    /\ \A t \in Threads :
         /\ Apart(Ids(txn[t].cmds), Ids(log))
         /\ Apart(Ids(txn[t].cmds), Ids(session))
         /\ Apart(Ids(txn[t].cmds), gone)
         /\ \A u \in Threads : t # u => Apart(Ids(txn[t].cmds), Ids(txn[u].cmds))
         /\ \A e \in held : Apart(Ids(txn[t].cmds), Ids(e.session))
    /\ \A e \in held :
         /\ Apart(Ids(e.session), Ids(log))
         /\ Apart(Ids(e.session), Ids(session))
         /\ Apart(Ids(e.session), gone)
         /\ \A f \in held : e # f => Apart(Ids(e.session), Ids(f.session))

(* Only accepted accesses are anywhere.                                     *)
BoundInv ==
    /\ Ids(log) \subseteq 1..issued
    /\ Ids(session) \subseteq 1..issued
    /\ gone \subseteq 1..issued
    /\ \A t \in Threads : Ids(txn[t].cmds) \subseteq 1..issued
    /\ \A e \in held : Ids(e.session) \subseteq 1..issued

(* Every accepted access is somewhere.                                      *)
Placed(id) ==
    \/ id \in Ids(log) \/ id \in Ids(session) \/ id \in gone
    \/ \E t \in Threads : id \in Ids(txn[t].cmds)
    \/ \E e \in held : id \in Ids(e.session)
PlacedInv == \A id \in 1..issued : Placed(id)

(* A thread without a transaction has no command.                           *)
ClosedInv == \A t \in Threads : ~txn[t].open => txn[t].cmds = <<>>

PlaceInv == DistinctInv /\ ApartInv /\ BoundInv /\ PlacedInv /\ ClosedInv

IInv == TypeInv /\ CaptureInv /\ OwnerInv /\ PlaceInv

----------------------------------------------------------------------------
(* Sequences of accesses.                                                   *)

LEMMA SeqFacts ==
    ASSUME NEW S, NEW s \in Seq(S)
    PROVE  Len(s) \in Nat /\ DOMAIN s = 1..Len(s) /\ \A k \in DOMAIN s : s[k] \in S
BY LenProperties, ElementOfSeq

LEMMA NoIds == Ids(<<>>) = {} /\ Distinct(<<>>)
BY DEF Ids, Distinct

(* What a concatenation holds is what its parts hold.                       *)
LEMMA IdsConcat ==
    ASSUME NEW s \in Seq(Access), NEW t \in Seq(Access)
    PROVE  /\ s \o t \in Seq(Access)
           /\ Ids(s \o t) = Ids(s) \cup Ids(t)
           /\ Distinct(s) /\ Distinct(t) /\ Apart(Ids(s), Ids(t)) => Distinct(s \o t)
<1> DEFINE c == s \o t
<1>1. /\ Len(s) \in Nat /\ DOMAIN s = 1..Len(s)
      /\ Len(t) \in Nat /\ DOMAIN t = 1..Len(t)
  BY SeqFacts
<1>2. /\ c \in Seq(Access) /\ Len(c) = Len(s) + Len(t)
      /\ \A k \in 1..(Len(s) + Len(t)) : c[k] = IF k <= Len(s) THEN s[k] ELSE t[k - Len(s)]
  BY ConcatProperties
<1>3. DOMAIN c = 1..(Len(s) + Len(t))
  BY <1>2, SeqFacts
<1> HIDE DEF c
<1>4. Ids(c) = Ids(s) \cup Ids(t)
  <2>1. ASSUME NEW k \in DOMAIN c PROVE c[k].id \in Ids(s) \cup Ids(t)
    <3>1. CASE k <= Len(s)
      BY <1>1, <1>2, <1>3, <2>1, <3>1 DEF Ids
    <3>2. CASE k > Len(s)
      <4>1. k - Len(s) \in DOMAIN t /\ c[k] = t[k - Len(s)]
        BY <1>1, <1>2, <1>3, <2>1, <3>2
      <4> QED BY <4>1 DEF Ids
    <3> QED BY <1>1, <1>3, <3>1, <3>2
  <2>2. ASSUME NEW k \in DOMAIN s PROVE s[k].id \in Ids(c)
    <3>1. k \in DOMAIN c /\ c[k] = s[k]
      BY <1>1, <1>2, <1>3
    <3> QED BY <3>1 DEF Ids
  <2>3. ASSUME NEW k \in DOMAIN t PROVE t[k].id \in Ids(c)
    <3>1. k + Len(s) \in DOMAIN c /\ c[k + Len(s)] = t[k]
      BY <1>1, <1>2, <1>3
    <3> QED BY <3>1 DEF Ids
  <2> QED BY <2>1, <2>2, <2>3 DEF Ids
<1>5. ASSUME Distinct(s), Distinct(t), Apart(Ids(s), Ids(t)),
             NEW j \in DOMAIN c, NEW k \in DOMAIN c, c[j].id = c[k].id
      PROVE  j = k
  <2>1. ASSUME NEW m \in DOMAIN s, NEW n \in DOMAIN t PROVE s[m].id # t[n].id
    BY <1>5, <2>1 DEF Ids, Apart
  <2>2. ASSUME NEW m \in DOMAIN c
        PROVE  \/ m <= Len(s) /\ m \in DOMAIN s /\ c[m] = s[m]
               \/ m > Len(s) /\ m - Len(s) \in DOMAIN t /\ c[m] = t[m - Len(s)]
    BY <1>1, <1>2, <1>3
  <2>3. CASE j <= Len(s) /\ k <= Len(s)
    BY <1>1, <1>3, <1>5, <2>2, <2>3 DEF Distinct
  <2>4. CASE j > Len(s) /\ k > Len(s)
    <3>1. j - Len(s) = k - Len(s)
      BY <1>1, <1>3, <1>5, <2>2, <2>4 DEF Distinct
    <3> QED BY <1>1, <1>3, <3>1
  <2> QED BY <1>1, <1>3, <1>5, <2>1, <2>2, <2>3, <2>4
<1> QED BY <1>2, <1>4, <1>5 DEF c, Distinct

LEMMA IdsOne ==
    ASSUME NEW a \in Access
    PROVE  <<a>> \in Seq(Access) /\ Ids(<<a>>) = {a.id} /\ Distinct(<<a>>)
<1>1. DOMAIN <<a>> = {1} /\ <<a>>[1] = a
  OBVIOUS
<1> QED BY <1>1 DEF Ids, Distinct

LEMMA IdsAppend ==
    ASSUME NEW s \in Seq(Access), NEW a \in Access
    PROVE  /\ Append(s, a) \in Seq(Access)
           /\ Ids(Append(s, a)) = Ids(s) \cup {a.id}
           /\ Distinct(s) /\ a.id \notin Ids(s) => Distinct(Append(s, a))
<1>1. Append(s, a) = s \o <<a>>
  BY AppendIsConcat
<1>2. <<a>> \in Seq(Access) /\ Ids(<<a>>) = {a.id} /\ Distinct(<<a>>)
  BY IdsOne
<1>3. /\ s \o <<a>> \in Seq(Access)
      /\ Ids(s \o <<a>>) = Ids(s) \cup Ids(<<a>>)
      /\ Distinct(s) /\ Distinct(<<a>>) /\ Apart(Ids(s), Ids(<<a>>)) => Distinct(s \o <<a>>)
  BY <1>2, IdsConcat
<1> QED BY <1>1, <1>2, <1>3 DEF Apart

LEMMA BlanksFacts ==
    ASSUME NEW n \in Nat
    PROVE  Blanks(n) \in Seq(Access) /\ Len(Blanks(n)) = n
<1>1. Blank \in Access
  BY DEF Blank, Access
<1> QED BY <1>1 DEF Blanks

(* An array is empty exactly when it has no slots.                          *)
LEMMA EmptyFacts ==
    ASSUME NEW S, NEW s \in Seq(S)
    PROVE  s = <<>> <=> Len(s) = 0
BY EmptySeq

----------------------------------------------------------------------------
(* Accesses.                                                                *)

(* An accepted access is a new one.                                         *)
LEMMA AcceptedFacts ==
    ASSUME issued \in Nat, NEW kind \in Kinds, NEW access \in Accepted(kind)
    PROVE  access \in Access /\ access.id = issued + 1
<1>1. kind \in AllKinds /\ Offs \subseteq Nat /\ Sizes \subseteq Nat
  BY RegIoAssumption
<1>2. CASE kind \in Blocks
  <2>1. PICK q \in Offs \X Sizes :
          access = [id |-> issued + 1, kind |-> kind, off |-> q[1], size |-> q[2]]
    <3> kind \notin Recorded \cup Polls
      BY <1>2 DEF Recorded, Writes, Polls, Blocks
    <3> DEFINE asked == {q \in Offs \X Sizes : ValidBlock(q[1], q[2])}
    <3>1. Accepted(kind) = {[id |-> issued + 1, kind |-> kind, off |-> q[1], size |-> q[2]] :
                              q \in asked}
      BY <1>2 DEF Accepted
    <3>2. \A q \in asked : q \in Offs \X Sizes
      OBVIOUS
    <3> HIDE DEF asked
    <3> QED BY <3>1, <3>2
  <2>2. q[1] \in Nat /\ q[2] \in Nat
    BY <1>1
  <2> QED BY <1>1, <2>1, <2>2 DEF Access
<1>3. CASE kind \in Recorded \cup Polls
  <2>1. kind \notin Blocks
    BY <1>3 DEF Recorded, Writes, Polls, Blocks
  <2>2. PICK off \in Offs :
          access = [id |-> issued + 1, kind |-> kind, off |-> off, size |-> 1]
    BY <1>3, <2>1 DEF Accepted
  <2> QED BY <1>1, <2>2 DEF Access
<1>4. CASE kind \notin Blocks /\ kind \notin Recorded \cup Polls
  <2>1. access = [id |-> issued + 1, kind |-> kind, off |-> 0, size |-> 1]
    BY <1>4 DEF Accepted
  <2> QED BY <1>1, <2>1 DEF Access
<1> QED BY <1>2, <1>3, <1>4

----------------------------------------------------------------------------
(* The array of recorded operations.                                        *)

LEMMA SlotsFacts ==
    ASSUME TypeInv, OwnerInv, NEW a \in Arrays
    PROVE  /\ heap[a] \in Seq(Access) /\ Len(heap[a]) \in Nat /\ Len(heap[a]) <= MaxSlots
           /\ heap[a] = <<>> <=> Len(heap[a]) = 0
<1>1. heap[a] \in Seq(Access)
  BY DEF TypeInv
<1> QED BY <1>1, SeqFacts, EmptyFacts DEF OwnerInv

(* The room _XAie_EnsureInstBufCapacity leaves: the array, in place or      *)
(* moved to addresses nobody has, with the old slots in front and enough    *)
(* of them; every other array is as it was.                                 *)
LEMMA EnsuredFacts ==
    ASSUME TypeInv, OwnerInv, NEW min \in Nat \ {0}, NEW r \in Ensured(min),
           IF buf.ops = NULL THEN min <= InitialSlots ELSE min <= Len(heap[buf.ops]) + 1
    PROVE  /\ r.ops \in Arrays /\ r.mem \in [Arrays -> Seq(Access)]
           /\ min <= Len(r.mem[r.ops]) /\ Len(r.mem[r.ops]) <= MaxSlots
           /\ r.ops # buf.ops => heap[r.ops] = <<>>
           /\ \A a \in Arrays \ {r.ops} : r.mem[a] = IF a = buf.ops THEN <<>> ELSE heap[a]
           /\ buf.ops # NULL => /\ Len(heap[buf.ops]) <= Len(r.mem[r.ops])
                                /\ \A k \in DOMAIN heap[buf.ops] : r.mem[r.ops][k] = heap[buf.ops][k]
<1>1. /\ buf.ops \in Arrays \cup {NULL} /\ heap \in [Arrays -> Seq(Access)]
      /\ NULL \notin Arrays /\ InitialSlots \in Nat \ {0} /\ MaxSlots \in Nat
      /\ InitialSlots <= MaxSlots
  BY RegIoAssumption DEF TypeInv, Buffer
<1>2. \A a \in Arrays : /\ Len(heap[a]) \in Nat /\ Len(heap[a]) <= MaxSlots
                         /\ heap[a] = <<>> <=> Len(heap[a]) = 0
  BY <1>1, SeqFacts, EmptyFacts DEF OwnerInv
<1>3. Capacity \in Nat /\ (Capacity = 0 <=> buf.ops = NULL)
  BY <1>1, <1>2 DEF Capacity, OwnerInv
<1> DEFINE kept == IF buf.ops = NULL THEN <<>> ELSE heap[buf.ops]
<1>4. kept \in Seq(Access) /\ Len(kept) = Capacity
  BY <1>1 DEF Capacity
<1>5. min <= MaxSlots
  BY <1>1 DEF Ensured
<1>6. CASE Capacity >= min
  <2>1. r = Room(buf.ops, heap) /\ buf.ops \in Arrays
    BY <1>1, <1>3, <1>5, <1>6 DEF Ensured
  <2>2. r.ops = buf.ops /\ r.mem = heap
    BY <2>1 DEF Room
  <2>3. Capacity = Len(heap[buf.ops])
    BY <1>1, <2>1 DEF Capacity
  <2>4. min <= Len(heap[buf.ops]) /\ Len(heap[buf.ops]) <= MaxSlots /\ Len(heap[buf.ops]) \in Nat
    <3>1. Len(heap[buf.ops]) <= MaxSlots /\ Len(heap[buf.ops]) \in Nat
      BY <2>1, SlotsFacts
    <3>2. min <= Capacity
      BY <1>3, <1>6
    <3> QED BY <2>3, <3>1, <3>2
  <2> QED BY <1>1, <2>1, <2>2, <2>4
<1>7. CASE ~(Capacity >= min)
  <2>1. PICK n \in Nat : /\ r \in Grown(n) /\ min <= n /\ n <= MaxSlots
                         /\ Capacity <= n /\ n # 0
    <3>1. CASE Capacity = 0
      BY <1>1, <1>3, <1>5, <1>7, <3>1 DEF Ensured
    <3>2. CASE Capacity # 0
      <4>1. Capacity + 1 = min /\ min <= MaxSlots
        BY <1>1, <1>3, <1>5, <1>7, <3>2 DEF Capacity
      <4>2. r \in Grown(IF 2 * Capacity > MaxSlots THEN MaxSlots ELSE 2 * Capacity)
        BY <1>1, <1>3, <1>7, <3>2, <4>1 DEF Ensured
      <4> QED BY <1>1, <1>3, <3>2, <4>1, <4>2
    <3> QED BY <3>1, <3>2
  <2> DEFINE slots == kept \o Blanks(n - Len(kept))
             freed == [a \in Arrays |-> IF a = buf.ops THEN <<>> ELSE heap[a]]
  <2>2. n - Len(kept) \in Nat /\ Len(kept) \in Nat
    BY <1>3, <1>4, <2>1
  <2>3. /\ slots \in Seq(Access) /\ Len(slots) = n
        /\ \A k \in 1..Len(kept) : slots[k] = kept[k]
    <3>1. Blanks(n - Len(kept)) \in Seq(Access) /\ Len(Blanks(n - Len(kept))) = n - Len(kept)
      BY <2>2, BlanksFacts
    <3> HIDE DEF kept
    <3>2. /\ slots \in Seq(Access) /\ Len(slots) = Len(kept) + (n - Len(kept))
          /\ \A k \in 1..(Len(kept) + (n - Len(kept))) :
               slots[k] = IF k <= Len(kept) THEN kept[k] ELSE Blanks(n - Len(kept))[k - Len(kept)]
      BY <1>4, <3>1, ConcatProperties
    <3> QED BY <2>1, <2>2, <3>2
  <2>4. PICK a \in Arrays : /\ r = Room(a, [freed EXCEPT ![a] = slots])
                            /\ a = buf.ops \/ heap[a] = <<>>
    BY <1>1, <2>1 DEF Grown
  <2>5. r.ops = a /\ r.mem = [freed EXCEPT ![a] = slots]
    BY <2>4 DEF Room
  <2>6. freed \in [Arrays -> Seq(Access)]
    BY <1>1
  <2> HIDE DEF slots, freed
  <2>7. /\ r.mem \in [Arrays -> Seq(Access)] /\ r.mem[a] = slots
        /\ \A b \in Arrays \ {a} : r.mem[b] = freed[b]
    BY <2>3, <2>5, <2>6
  <2>8. \A b \in Arrays \ {a} : r.mem[b] = IF b = buf.ops THEN <<>> ELSE heap[b]
    BY <2>7 DEF freed
  <2>9. buf.ops # NULL => /\ Len(heap[buf.ops]) <= Len(slots)
                          /\ \A k \in DOMAIN heap[buf.ops] : slots[k] = heap[buf.ops][k]
    <3>1. buf.ops # NULL => kept = heap[buf.ops] /\ DOMAIN kept = 1..Len(kept)
      BY <1>4, SeqFacts
    <3> HIDE DEF kept
    <3> QED BY <1>4, <2>1, <2>3, <3>1
  <2>10. min <= Len(slots) /\ Len(slots) <= MaxSlots
    BY <2>1, <2>3
  <2>11. r.ops = a /\ (a # buf.ops => heap[a] = <<>>)
    BY <2>4, <2>5
  <2> QED BY <2>7, <2>8, <2>9, <2>10, <2>11
<1> QED BY <1>6, <1>7

----------------------------------------------------------------------------
(* The initial states, and steps that change nothing.                       *)

LEMMA InitIInv == Init => IInv
<1> SUFFICES ASSUME Init PROVE IInv
  OBVIOUS
<1> USE DEF Init
<1>1. <<>> \in Seq(Access) /\ Ids(<<>>) = {} /\ Distinct(<<>>)
  BY NoIds
<1>2. TypeInv
  <2>1. buf \in Buffer /\ txn \in [Threads -> Transaction]
    BY <1>1 DEF NoBuf, Buffer, NoTxn, Transaction
  <2> QED BY <1>1, <2>1, FS_EmptySet DEF TypeInv
<1>3. CaptureInv
  BY DEF CaptureInv, NoBuf
<1>4. OwnerInv
  <2>1. \A a \in Arrays : heap[a] = <<>> /\ Len(heap[a]) = 0 /\ 0 <= MaxSlots
    BY RegIoAssumption
  <2> QED BY <2>1 DEF OwnerInv, NoBuf
<1>5. PlaceInv
  <2>1. \A t \in Threads : txn[t].cmds = <<>>
    BY DEF NoTxn
  <2> QED BY <1>1, <2>1 DEF PlaceInv, DistinctInv, ApartInv, Apart, BoundInv, PlacedInv, ClosedInv
<1> QED BY <1>2, <1>3, <1>4, <1>5 DEF IInv

LEMMA StepStutter ==
    ASSUME IInv, UNCHANGED vars
    PROVE  IInv'
BY DEF vars, IInv, TypeInv, CaptureInv, Holds, OwnerInv, PlaceInv, DistinctInv, ApartInv, BoundInv,
       PlacedInv, Placed, ClosedInv

(* What does not touch the instruction buffer keeps what is recorded.       *)
LEMMA BufferUntouched ==
    ASSUME CaptureInv, OwnerInv, UNCHANGED <<buf, heap, held, session>>
    PROVE  CaptureInv' /\ OwnerInv'
BY DEF CaptureInv, Holds, OwnerInv

----------------------------------------------------------------------------
(* Accesses.                                                                *)

(* The number of the next access is nowhere yet.                            *)
LEMMA FreshFacts ==
    ASSUME TypeInv, BoundInv
    PROVE  /\ issued + 1 \notin Ids(log)
           /\ issued + 1 \notin Ids(session)
           /\ issued + 1 \notin gone
           /\ \A t \in Threads : issued + 1 \notin Ids(txn[t].cmds)
           /\ \A e \in held : issued + 1 \notin Ids(e.session)
           /\ 1..(issued + 1) = 1..issued \cup {issued + 1}
<1>1. issued \in Nat
  BY DEF TypeInv
<1>2. issued + 1 \notin 1..issued /\ 1..(issued + 1) = 1..issued \cup {issued + 1}
  BY <1>1
<1> QED BY <1>2 DEF BoundInv

LEMMA StepToDevice ==
    ASSUME IInv, NEW t \in Threads, ToDevice(t)
    PROVE  IInv'
<1>1. PICK access \in Access :
        /\ access.id = issued + 1 /\ log' = log \o <<access>> /\ issued' = issued + 1
        /\ UNCHANGED <<ready, txn, buf, heap, held, session, gone>>
  BY AcceptedFacts DEF ToDevice, Perform, IInv, TypeInv
<1>2. /\ issued \in Nat /\ log \in Seq(Access)
      /\ DistinctInv /\ ApartInv /\ BoundInv /\ PlacedInv /\ ClosedInv
  BY DEF IInv, TypeInv, PlaceInv
<1>3. /\ log' \in Seq(Access) /\ Ids(log') = Ids(log) \cup {issued + 1} /\ Distinct(log')
  <2>1. log' = Append(log, access)
    BY <1>1, <1>2, AppendIsConcat
  <2> QED BY <1>1, <1>2, <2>1, FreshFacts, IdsAppend DEF DistinctInv, IInv
<1>4. TypeInv'
  BY <1>1, <1>2, <1>3 DEF IInv, TypeInv
<1>5. CaptureInv' /\ OwnerInv'
  BY <1>1, BufferUntouched DEF IInv
<1>6. DistinctInv' /\ ClosedInv'
  BY <1>1, <1>2, <1>3 DEF DistinctInv, ClosedInv
<1>7. /\ issued + 1 \notin Ids(session) /\ issued + 1 \notin gone
      /\ \A u \in Threads : issued + 1 \notin Ids(txn[u].cmds)
      /\ \A e \in held : issued + 1 \notin Ids(e.session)
      /\ 1..(issued + 1) = 1..issued \cup {issued + 1}
  BY <1>2, FreshFacts DEF IInv
<1>8. ApartInv'
  <2>1. /\ Apart(Ids(log), gone)' /\ Apart(Ids(log), Ids(session))'
        /\ Apart(Ids(session), gone)'
    BY <1>1, <1>2, <1>3, <1>7 DEF ApartInv, Apart
  <2>2. ASSUME NEW u \in Threads PROVE Apart(Ids(txn[u].cmds), Ids(log))'
    <3>1. Apart(Ids(txn[u].cmds), Ids(log)) /\ issued + 1 \notin Ids(txn[u].cmds)
      BY <1>2, <1>7, <2>2 DEF ApartInv
    <3> QED BY <1>1, <1>3, <3>1 DEF Apart
  <2>3. ASSUME NEW e \in held PROVE Apart(Ids(e.session), Ids(log))'
    <3>1. Apart(Ids(e.session), Ids(log)) /\ issued + 1 \notin Ids(e.session)
      BY <1>2, <1>7, <2>3 DEF ApartInv
    <3> QED BY <1>1, <1>3, <3>1 DEF Apart
  <2> QED BY <1>1, <1>2, <2>1, <2>2, <2>3 DEF ApartInv
<1>9. BoundInv'
  BY <1>1, <1>2, <1>3, <1>7 DEF BoundInv
<1>10. PlacedInv'
  BY <1>1, <1>2, <1>3, <1>7 DEF PlacedInv, Placed
<1> QED BY <1>4, <1>5, <1>6, <1>8, <1>9, <1>10 DEF IInv, PlaceInv

(* A thread's commands are replaced.                                        *)
LEMMA CmdsReplaced ==
    ASSUME NEW t \in Threads, NEW cmds \in Seq(Access), txn \in [Threads -> Transaction],
           txn' = [txn EXCEPT ![t].cmds = cmds]
    PROVE  /\ txn' \in [Threads -> Transaction]
           /\ \A u \in Threads : /\ txn'[u].cmds = IF u = t THEN cmds ELSE txn[u].cmds
                                 /\ txn'[u].open = txn[u].open
                                 /\ Ids(txn'[u].cmds) = IF u = t THEN Ids(cmds) ELSE Ids(txn[u].cmds)
<1>1. ASSUME NEW u \in Threads
      PROVE  /\ txn[u] \in Transaction
             /\ txn'[u] = IF u = t THEN [txn[u] EXCEPT !.cmds = cmds] ELSE txn[u]
  OBVIOUS
<1>2. ASSUME NEW u \in Threads
      PROVE  /\ txn'[u] \in Transaction
             /\ txn'[u].cmds = IF u = t THEN cmds ELSE txn[u].cmds
             /\ txn'[u].open = txn[u].open
  BY <1>1 DEF Transaction
<1>3. txn' \in [Threads -> Transaction]
  <2>1. txn' = [u \in Threads |-> txn'[u]]
    OBVIOUS
  <2> QED BY <1>2, <2>1
<1>4. ASSUME NEW u \in Threads
      PROVE  /\ txn'[u].cmds = IF u = t THEN cmds ELSE txn[u].cmds
             /\ txn'[u].open = txn[u].open
             /\ Ids(txn'[u].cmds) = IF u = t THEN Ids(cmds) ELSE Ids(txn[u].cmds)
  BY <1>2
<1> QED BY <1>3, <1>4

(* The commands of a thread and the access go to the device.                *)
LEMMA StepPastTransaction ==
    ASSUME IInv, NEW t \in Threads, PastTransaction(t)
    PROVE  IInv'
<1> DEFINE cmds == txn[t].cmds
<1>1. PICK access \in Access :
        /\ access.id = issued + 1 /\ log' = log \o Append(cmds, access) /\ issued' = issued + 1
        /\ txn' = [txn EXCEPT ![t].cmds = <<>>]
        /\ UNCHANGED <<ready, buf, heap, held, session, gone>>
  BY AcceptedFacts DEF PastTransaction, Perform, IInv, TypeInv
<1>2. /\ issued \in Nat /\ log \in Seq(Access) /\ txn \in [Threads -> Transaction]
      /\ DistinctInv /\ ApartInv /\ BoundInv /\ PlacedInv /\ ClosedInv
  BY DEF IInv, TypeInv, PlaceInv
<1>3. /\ issued + 1 \notin Ids(log) /\ issued + 1 \notin Ids(cmds)
      /\ issued + 1 \notin Ids(session) /\ issued + 1 \notin gone
      /\ \A u \in Threads : issued + 1 \notin Ids(txn[u].cmds)
      /\ \A e \in held : issued + 1 \notin Ids(e.session)
      /\ 1..(issued + 1) = 1..issued \cup {issued + 1}
  BY <1>2, FreshFacts DEF IInv
<1>4. cmds \in Seq(Access) /\ Distinct(cmds) /\ Apart(Ids(log), Ids(cmds)) /\ Distinct(log)
  BY <1>2 DEF Transaction, DistinctInv, ApartInv, Apart
<1>5. /\ log' \in Seq(Access) /\ Distinct(log')
      /\ Ids(log') = Ids(log) \cup Ids(cmds) \cup {issued + 1}
  <2> HIDE DEF cmds
  <2>1. /\ Append(cmds, access) \in Seq(Access)
        /\ Ids(Append(cmds, access)) = Ids(cmds) \cup {issued + 1}
        /\ Distinct(Append(cmds, access))
    BY <1>1, <1>3, <1>4, IdsAppend
  <2>2. Apart(Ids(log), Ids(Append(cmds, access)))
    BY <1>3, <1>4, <2>1 DEF Apart
  <2>3. /\ log \o Append(cmds, access) \in Seq(Access)
        /\ Ids(log \o Append(cmds, access)) = Ids(log) \cup Ids(Append(cmds, access))
        /\ Distinct(log \o Append(cmds, access))
    BY <1>2, <1>4, <2>1, <2>2, IdsConcat
  <2> QED BY <1>1, <2>1, <2>3
<1>6. /\ txn' \in [Threads -> Transaction]
      /\ \A u \in Threads : /\ txn'[u].cmds = IF u = t THEN <<>> ELSE txn[u].cmds
                            /\ txn'[u].open = txn[u].open
                            /\ Ids(txn'[u].cmds) = IF u = t THEN Ids(<<>>) ELSE Ids(txn[u].cmds)
  <2>1. <<>> \in Seq(Access)
    OBVIOUS
  <2> QED BY <1>1, <1>2, <2>1, CmdsReplaced
<1>7. \A u \in Threads : Ids(txn'[u].cmds) = IF u = t THEN {} ELSE Ids(txn[u].cmds)
  BY <1>6, NoIds
<1>8. TypeInv'
  BY <1>1, <1>2, <1>5, <1>6 DEF IInv, TypeInv
<1>9. CaptureInv' /\ OwnerInv'
  BY <1>1, BufferUntouched DEF IInv
<1>10. DistinctInv' /\ ClosedInv'
  BY <1>1, <1>2, <1>5, <1>6, NoIds DEF DistinctInv, ClosedInv
<1>11. ApartInv'
  <2>1. /\ Apart(Ids(log), gone)' /\ Apart(Ids(log), Ids(session))'
        /\ Apart(Ids(session), gone)'
    BY <1>1, <1>2, <1>3, <1>5 DEF ApartInv, Apart
  <2>2. ASSUME NEW u \in Threads
        PROVE  /\ Apart(Ids(txn[u].cmds), Ids(log))'
               /\ Apart(Ids(txn[u].cmds), Ids(session))'
               /\ Apart(Ids(txn[u].cmds), gone)'
    <3>1. CASE u = t
      BY <1>7, <3>1 DEF Apart
    <3>2. CASE u # t
      <4>1. Ids(txn'[u].cmds) = Ids(txn[u].cmds)
        BY <1>7, <3>2
      <4>2. /\ Apart(Ids(txn[u].cmds), Ids(log)) /\ Apart(Ids(txn[u].cmds), Ids(session))
            /\ Apart(Ids(txn[u].cmds), gone) /\ Apart(Ids(txn[u].cmds), Ids(cmds))
            /\ issued + 1 \notin Ids(txn[u].cmds)
        BY <1>2, <1>3, <3>2 DEF ApartInv
      <4> QED BY <1>1, <1>5, <4>1, <4>2 DEF Apart
    <3> QED BY <3>1, <3>2
  <2>3. ASSUME NEW u \in Threads, NEW v \in Threads, u # v
        PROVE  Apart(Ids(txn[u].cmds), Ids(txn[v].cmds))'
    BY <1>2, <1>7, <2>3 DEF ApartInv, Apart
  <2>4. ASSUME NEW u \in Threads, NEW e \in held
        PROVE  Apart(Ids(txn[u].cmds), Ids(e.session))'
    BY <1>2, <1>7, <2>4 DEF ApartInv, Apart
  <2>5. ASSUME NEW e \in held PROVE Apart(Ids(e.session), Ids(log))'
    <3>1. /\ Apart(Ids(e.session), Ids(log)) /\ Apart(Ids(cmds), Ids(e.session))
          /\ issued + 1 \notin Ids(e.session)
      BY <1>2, <1>3, <2>5 DEF ApartInv
    <3> QED BY <1>1, <1>5, <3>1 DEF Apart
  <2> QED BY <1>1, <1>2, <2>1, <2>2, <2>3, <2>4, <2>5 DEF ApartInv
<1>12. BoundInv'
  BY <1>1, <1>2, <1>3, <1>5, <1>7 DEF BoundInv
<1>13. PlacedInv'
  <2>1. ASSUME NEW id \in 1..issued PROVE Placed(id)'
    <3>1. Placed(id)
      BY <1>2 DEF PlacedInv
    <3>2. CASE \E u \in Threads : id \in Ids(txn[u].cmds)
      BY <1>5, <1>7, <3>2 DEF Placed
    <3> QED BY <1>1, <1>5, <3>1, <3>2 DEF Placed
  <2>2. Placed(issued)'
    <3>1. issued' \in Ids(log')
      BY <1>1, <1>5
    <3> QED BY <3>1 DEF Placed
  <2>3. ASSUME NEW id \in 1..issued' PROVE Placed(id)'
    <3>1. id \in 1..issued \/ id = issued'
      BY <1>1, <1>3
    <3> QED BY <2>1, <2>2, <3>1
  <2> QED BY <2>3 DEF PlacedInv
<1> QED BY <1>8, <1>9, <1>10, <1>11, <1>12, <1>13 DEF IInv, PlaceInv

(* The access waits behind the commands of the thread.                      *)
LEMMA StepIntoTransaction ==
    ASSUME IInv, NEW t \in Threads, IntoTransaction(t)
    PROVE  IInv'
<1> DEFINE cmds == txn[t].cmds
<1>1. PICK access \in Access :
        /\ access.id = issued + 1 /\ txn' = [txn EXCEPT ![t].cmds = Append(cmds, access)]
        /\ issued' = issued + 1 /\ txn[t].open
        /\ UNCHANGED <<ready, buf, heap, held, log, session, gone>>
  BY AcceptedFacts DEF IntoTransaction, IInv, TypeInv
<1>2. /\ issued \in Nat /\ txn \in [Threads -> Transaction]
      /\ DistinctInv /\ ApartInv /\ BoundInv /\ PlacedInv /\ ClosedInv
  BY DEF IInv, TypeInv, PlaceInv
<1>3. /\ issued + 1 \notin Ids(log) /\ issued + 1 \notin Ids(cmds)
      /\ issued + 1 \notin Ids(session) /\ issued + 1 \notin gone
      /\ \A u \in Threads : issued + 1 \notin Ids(txn[u].cmds)
      /\ \A e \in held : issued + 1 \notin Ids(e.session)
      /\ 1..(issued + 1) = 1..issued \cup {issued + 1}
  BY <1>2, FreshFacts DEF IInv
<1>4. /\ Append(cmds, access) \in Seq(Access) /\ Distinct(Append(cmds, access))
      /\ Ids(Append(cmds, access)) = Ids(cmds) \cup {issued + 1}
  <2>1. cmds \in Seq(Access) /\ Distinct(cmds)
    BY <1>2 DEF Transaction, DistinctInv
  <2> HIDE DEF cmds
  <2> QED BY <1>1, <1>3, <2>1, IdsAppend
<1>5. /\ txn' \in [Threads -> Transaction]
      /\ \A u \in Threads : /\ txn'[u].cmds = IF u = t THEN Append(cmds, access) ELSE txn[u].cmds
                            /\ txn'[u].open = txn[u].open
                            /\ Ids(txn'[u].cmds) = IF u = t THEN Ids(Append(cmds, access))
                                                    ELSE Ids(txn[u].cmds)
  <2>1. /\ txn \in [Threads -> Transaction] /\ Append(cmds, access) \in Seq(Access)
        /\ txn' = [txn EXCEPT ![t].cmds = Append(cmds, access)]
    BY <1>1, <1>2, <1>4
  <2> HIDE DEF cmds
  <2> QED BY <2>1, CmdsReplaced
<1>6. \A u \in Threads :
        Ids(txn'[u].cmds) = Ids(txn[u].cmds) \cup (IF u = t THEN {issued + 1} ELSE {})
  <2>1. Ids(txn'[t].cmds) = Ids(txn[t].cmds) \cup {issued + 1}
    BY <1>4, <1>5
  <2>2. ASSUME NEW u \in Threads, u # t PROVE Ids(txn'[u].cmds) = Ids(txn[u].cmds)
    BY <1>5, <2>2
  <2> QED BY <2>1, <2>2
<1>7. TypeInv'
  BY <1>1, <1>2, <1>5 DEF IInv, TypeInv
<1>8. CaptureInv' /\ OwnerInv'
  BY <1>1, BufferUntouched DEF IInv
<1>9. DistinctInv' /\ ClosedInv'
  BY <1>1, <1>2, <1>4, <1>5 DEF DistinctInv, ClosedInv
<1>10. ApartInv'
  <2>1. ASSUME NEW u \in Threads
        PROVE  /\ Apart(Ids(txn[u].cmds), Ids(log))'
               /\ Apart(Ids(txn[u].cmds), Ids(session))'
               /\ Apart(Ids(txn[u].cmds), gone)'
    <3>1. Ids(txn'[u].cmds) \subseteq Ids(txn[u].cmds) \cup {issued + 1}
      BY <1>6
    <3>2. /\ Apart(Ids(txn[u].cmds), Ids(log)) /\ Apart(Ids(txn[u].cmds), Ids(session))
          /\ Apart(Ids(txn[u].cmds), gone)
      BY <1>2 DEF ApartInv
    <3> QED BY <1>1, <1>3, <3>1, <3>2 DEF Apart
  <2>2. ASSUME NEW u \in Threads, NEW v \in Threads, u # v
        PROVE  Apart(Ids(txn[u].cmds), Ids(txn[v].cmds))'
    BY <1>2, <1>3, <1>6, <2>2 DEF ApartInv, Apart
  <2>3. ASSUME NEW u \in Threads, NEW e \in held
        PROVE  Apart(Ids(txn[u].cmds), Ids(e.session))'
    BY <1>2, <1>3, <1>6, <2>3 DEF ApartInv, Apart
  <2> QED BY <1>1, <1>2, <2>1, <2>2, <2>3 DEF ApartInv
<1>11. BoundInv'
  BY <1>1, <1>2, <1>3, <1>6 DEF BoundInv
<1>12. PlacedInv'
  <2>1. ASSUME NEW id \in 1..issued PROVE Placed(id)'
    <3>1. Placed(id)
      BY <1>2 DEF PlacedInv
    <3> QED BY <1>1, <1>6, <3>1 DEF Placed
  <2>2. Placed(issued)'
    <3>1. issued' \in Ids(txn'[t].cmds)
      BY <1>1, <1>6
    <3> QED BY <3>1 DEF Placed
  <2>3. ASSUME NEW id \in 1..issued' PROVE Placed(id)'
    <3>1. id \in 1..issued \/ id = issued'
      BY <1>1, <1>3
    <3> QED BY <2>1, <2>2, <3>1
  <2> QED BY <2>3 DEF PlacedInv
<1> QED BY <1>7, <1>8, <1>9, <1>10, <1>11, <1>12 DEF IInv, PlaceInv

LEMMA StepIgnoredCommand ==
    ASSUME IInv, NEW t \in Threads, IgnoredCommand(t)
    PROVE  IInv'
<1>1. /\ issued' = issued + 1 /\ gone' = gone \cup {issued + 1}
      /\ UNCHANGED <<ready, txn, buf, heap, held, log, session>>
  BY DEF IgnoredCommand
<1>2. /\ issued \in Nat /\ gone \in SUBSET Nat
      /\ DistinctInv /\ ApartInv /\ BoundInv /\ PlacedInv /\ ClosedInv
  BY DEF IInv, TypeInv, PlaceInv
<1>3. /\ issued + 1 \notin Ids(log) /\ issued + 1 \notin Ids(session)
      /\ \A u \in Threads : issued + 1 \notin Ids(txn[u].cmds)
      /\ \A e \in held : issued + 1 \notin Ids(e.session)
      /\ 1..(issued + 1) = 1..issued \cup {issued + 1}
  BY <1>2, FreshFacts DEF IInv
<1>4. TypeInv'
  BY <1>1, <1>2 DEF IInv, TypeInv
<1>5. CaptureInv' /\ OwnerInv'
  BY <1>1, BufferUntouched DEF IInv
<1>6. DistinctInv' /\ ClosedInv'
  BY <1>1, <1>2 DEF DistinctInv, ClosedInv
<1>7. ApartInv'
  <2>1. Apart(Ids(log), gone)' /\ Apart(Ids(session), gone)'
    BY <1>1, <1>2, <1>3 DEF ApartInv, Apart
  <2>2. ASSUME NEW u \in Threads PROVE Apart(Ids(txn[u].cmds), gone)'
    BY <1>1, <1>2, <1>3, <2>2 DEF ApartInv, Apart
  <2>3. ASSUME NEW e \in held PROVE Apart(Ids(e.session), gone)'
    BY <1>1, <1>2, <1>3, <2>3 DEF ApartInv, Apart
  <2> QED BY <1>1, <1>2, <2>1, <2>2, <2>3 DEF ApartInv
<1>8. BoundInv'
  BY <1>1, <1>2, <1>3 DEF BoundInv
<1>9. PlacedInv'
  BY <1>1, <1>2, <1>3 DEF PlacedInv, Placed
<1> QED BY <1>4, <1>5, <1>6, <1>7, <1>8, <1>9 DEF IInv, PlaceInv

----------------------------------------------------------------------------
(* Transactions.                                                            *)

(* A thread's transaction without commands is replaced by another one.      *)
LEMMA StepStartTransaction ==
    ASSUME IInv, NEW t \in Threads, StartTransaction(t)
    PROVE  IInv'
<1>1. PICK auto \in BOOLEAN :
        /\ txn' = [txn EXCEPT ![t] = [NoTxn EXCEPT !.open = TRUE, !.auto = auto]]
        /\ ~txn[t].open
        /\ UNCHANGED <<ready, buf, heap, held, issued, log, session, gone>>
  BY DEF StartTransaction
<1>2. txn \in [Threads -> Transaction] /\ <<>> \in Seq(Access) /\ PlaceInv
  BY DEF IInv, TypeInv
<1>3. /\ txn' \in [Threads -> Transaction]
      /\ \A u \in Threads : txn'[u].cmds = txn[u].cmds /\ (u # t => txn'[u] = txn[u])
      /\ txn'[t].open
  <2> DEFINE fresh == [NoTxn EXCEPT !.open = TRUE, !.auto = auto]
  <2>1. NoTxn \in Transaction /\ NoTxn.cmds = <<>>
    BY DEF NoTxn, Transaction
  <2>2. fresh \in Transaction /\ fresh.open /\ fresh.cmds = <<>>
    BY <2>1 DEF Transaction
  <2>3. txn[t].cmds = <<>>
    BY <1>1, <1>2 DEF PlaceInv, ClosedInv
  <2>4. txn' = [txn EXCEPT ![t] = fresh]
    BY <1>1
  <2> HIDE DEF fresh
  <2> QED BY <1>2, <2>2, <2>3, <2>4
<1>4. TypeInv'
  BY <1>1, <1>3 DEF IInv, TypeInv
<1>5. CaptureInv' /\ OwnerInv'
  BY <1>1, BufferUntouched DEF IInv
<1>6. DistinctInv' /\ BoundInv' /\ PlacedInv'
  BY <1>1, <1>2, <1>3 DEF PlaceInv, DistinctInv, BoundInv, PlacedInv, Placed
<1>7. ClosedInv'
  BY <1>2, <1>3 DEF PlaceInv, ClosedInv
<1>8. ApartInv'
  BY <1>1, <1>2, <1>3 DEF PlaceInv, ApartInv
<1> QED BY <1>4, <1>5, <1>6, <1>7, <1>8 DEF IInv, PlaceInv

(* The commands of a thread go to the device.                               *)
LEMMA StepSubmitTransaction ==
    ASSUME IInv, NEW t \in Threads, SubmitTransaction(t)
    PROVE  IInv'
<1> DEFINE cmds == txn[t].cmds
<1>1. /\ log' = log \o cmds /\ txn' = [txn EXCEPT ![t] = NoTxn]
      /\ UNCHANGED <<ready, buf, heap, held, issued, session, gone>>
  BY DEF SubmitTransaction
<1>2. /\ log \in Seq(Access) /\ txn \in [Threads -> Transaction]
      /\ DistinctInv /\ ApartInv /\ BoundInv /\ PlacedInv /\ ClosedInv
  BY DEF IInv, TypeInv, PlaceInv
<1>3. cmds \in Seq(Access) /\ Distinct(cmds) /\ Apart(Ids(log), Ids(cmds)) /\ Distinct(log)
  BY <1>2 DEF Transaction, DistinctInv, ApartInv, Apart
<1>4. log' \in Seq(Access) /\ Distinct(log') /\ Ids(log') = Ids(log) \cup Ids(cmds)
  <2> HIDE DEF cmds
  <2> QED BY <1>1, <1>2, <1>3, IdsConcat
<1>5. /\ txn' \in [Threads -> Transaction]
      /\ \A u \in Threads : txn'[u] = IF u = t THEN NoTxn ELSE txn[u]
      /\ \A u \in Threads : txn'[u].cmds = IF u = t THEN <<>> ELSE txn[u].cmds
  BY <1>1, <1>2 DEF Transaction, NoTxn
<1>6. \A u \in Threads : Ids(txn'[u].cmds) = IF u = t THEN {} ELSE Ids(txn[u].cmds)
  BY <1>5, NoIds
<1>7. TypeInv'
  BY <1>1, <1>4, <1>5 DEF IInv, TypeInv
<1>8. CaptureInv' /\ OwnerInv'
  BY <1>1, BufferUntouched DEF IInv
<1>9. DistinctInv' /\ ClosedInv'
  BY <1>1, <1>2, <1>4, <1>5, NoIds DEF DistinctInv, ClosedInv
<1>10. ApartInv'
  <2>1. Apart(Ids(log), gone)' /\ Apart(Ids(log), Ids(session))'
    BY <1>1, <1>2, <1>4 DEF ApartInv, Apart
  <2>2. ASSUME NEW u \in Threads
        PROVE  /\ Apart(Ids(txn[u].cmds), Ids(log))'
               /\ Apart(Ids(txn[u].cmds), Ids(session))'
               /\ Apart(Ids(txn[u].cmds), gone)'
    BY <1>1, <1>2, <1>4, <1>6, <2>2 DEF ApartInv, Apart
  <2>3. ASSUME NEW u \in Threads, NEW v \in Threads, u # v
        PROVE  Apart(Ids(txn[u].cmds), Ids(txn[v].cmds))'
    BY <1>2, <1>6, <2>3 DEF ApartInv, Apart
  <2>4. ASSUME NEW u \in Threads, NEW e \in held
        PROVE  Apart(Ids(txn[u].cmds), Ids(e.session))'
    BY <1>2, <1>6, <2>4 DEF ApartInv, Apart
  <2>5. ASSUME NEW e \in held PROVE Apart(Ids(e.session), Ids(log))'
    BY <1>1, <1>2, <1>4, <2>5 DEF ApartInv, Apart
  <2> QED BY <1>1, <1>2, <2>1, <2>2, <2>3, <2>4, <2>5 DEF ApartInv
<1>11. BoundInv'
  BY <1>1, <1>2, <1>4, <1>6 DEF BoundInv
<1>12. PlacedInv'
  <2>1. ASSUME NEW id \in 1..issued PROVE Placed(id)'
    <3>1. Placed(id)
      BY <1>2 DEF PlacedInv
    <3>2. CASE \E u \in Threads : id \in Ids(txn[u].cmds)
      BY <1>4, <1>6, <3>2 DEF Placed
    <3> QED BY <1>1, <1>4, <3>1, <3>2 DEF Placed
  <2> QED BY <1>1, <2>1 DEF PlacedInv
<1> QED BY <1>7, <1>8, <1>9, <1>10, <1>11, <1>12 DEF IInv, PlaceInv

(* The commands of a thread are given up.                                   *)
LEMMA StepClearTransaction ==
    ASSUME IInv, NEW t \in Threads, ClearTransaction(t)
    PROVE  IInv'
<1> DEFINE cmds == txn[t].cmds
<1>1. /\ gone' = gone \cup Ids(cmds) /\ txn' = [txn EXCEPT ![t].cmds = <<>>]
      /\ UNCHANGED <<ready, buf, heap, held, issued, log, session>>
  BY DEF ClearTransaction
<1>2. /\ issued \in Nat /\ gone \in SUBSET Nat /\ txn \in [Threads -> Transaction]
      /\ DistinctInv /\ ApartInv /\ BoundInv /\ PlacedInv /\ ClosedInv
  BY DEF IInv, TypeInv, PlaceInv
<1>3. /\ txn' \in [Threads -> Transaction]
      /\ \A u \in Threads : /\ txn'[u].cmds = IF u = t THEN <<>> ELSE txn[u].cmds
                            /\ txn'[u].open = txn[u].open
                            /\ Ids(txn'[u].cmds) = IF u = t THEN Ids(<<>>) ELSE Ids(txn[u].cmds)
  <2>1. <<>> \in Seq(Access)
    OBVIOUS
  <2> QED BY <1>1, <1>2, <2>1, CmdsReplaced
<1>4. \A u \in Threads : Ids(txn'[u].cmds) = IF u = t THEN {} ELSE Ids(txn[u].cmds)
  BY <1>3, NoIds
<1>5. Ids(cmds) \subseteq 1..issued /\ gone' \in SUBSET Nat
  <2>1. Ids(cmds) \subseteq 1..issued
    BY <1>2 DEF BoundInv
  <2> QED BY <1>1, <1>2, <2>1
<1>6. TypeInv'
  BY <1>1, <1>3, <1>5 DEF IInv, TypeInv
<1>7. CaptureInv' /\ OwnerInv'
  BY <1>1, BufferUntouched DEF IInv
<1>8. DistinctInv' /\ ClosedInv'
  BY <1>1, <1>2, <1>3, NoIds DEF DistinctInv, ClosedInv
<1>9. ApartInv'
  <2>1. Apart(Ids(log), gone)' /\ Apart(Ids(session), gone)'
    BY <1>1, <1>2 DEF ApartInv, Apart
  <2>2. ASSUME NEW u \in Threads
        PROVE  /\ Apart(Ids(txn[u].cmds), Ids(log))'
               /\ Apart(Ids(txn[u].cmds), Ids(session))'
               /\ Apart(Ids(txn[u].cmds), gone)'
    BY <1>1, <1>2, <1>4, <2>2 DEF ApartInv, Apart
  <2>3. ASSUME NEW u \in Threads, NEW v \in Threads, u # v
        PROVE  Apart(Ids(txn[u].cmds), Ids(txn[v].cmds))'
    BY <1>2, <1>4, <2>3 DEF ApartInv, Apart
  <2>4. ASSUME NEW u \in Threads, NEW e \in held
        PROVE  Apart(Ids(txn[u].cmds), Ids(e.session))'
    BY <1>2, <1>4, <2>4 DEF ApartInv, Apart
  <2>5. ASSUME NEW e \in held PROVE Apart(Ids(e.session), gone)'
    BY <1>1, <1>2, <2>5 DEF ApartInv, Apart
  <2> QED BY <1>1, <1>2, <2>1, <2>2, <2>3, <2>4, <2>5 DEF ApartInv
<1>10. BoundInv'
  BY <1>1, <1>2, <1>4, <1>5 DEF BoundInv
<1>11. PlacedInv'
  <2>1. ASSUME NEW id \in 1..issued PROVE Placed(id)'
    <3>1. Placed(id)
      BY <1>2 DEF PlacedInv
    <3>2. CASE \E u \in Threads : id \in Ids(txn[u].cmds)
      BY <1>1, <1>4, <3>2 DEF Placed
    <3> QED BY <1>1, <3>1, <3>2 DEF Placed
  <2> QED BY <1>1, <2>1 DEF PlacedInv
<1> QED BY <1>6, <1>7, <1>8, <1>9, <1>10, <1>11 DEF IInv, PlaceInv

----------------------------------------------------------------------------
(* The instruction buffer.                                                  *)

(* The driver's array stays or moves to addresses nobody has: the exports   *)
(* keep theirs and what is in them.                                         *)
LEMMA MovedFacts ==
    ASSUME IInv, NEW a \in Arrays, buf'.ops = a, held' = held,
           heap' \in [Arrays -> Seq(Access)],
           heap'[a] # <<>>, Len(heap'[a]) <= MaxSlots,
           a # buf.ops => heap[a] = <<>>,
           \A b \in Arrays \ {a} : heap'[b] = IF b = buf.ops THEN <<>> ELSE heap[b]
    PROVE  OwnerInv' /\ \A e \in held : Holds(e.ops, e.count, e.session)'
<1>1. /\ held \in SUBSET Exported /\ NULL \notin Arrays /\ OwnerInv /\ CaptureInv
      /\ \A e \in held : e.ops \in Arrays
  BY RegIoAssumption DEF IInv, TypeInv, Exported
<1>2. \A e \in held : e.ops # a /\ heap'[e.ops] = heap[e.ops]
  BY <1>1 DEF OwnerInv
<1>3. Len(<<>>) <= MaxSlots
  BY RegIoAssumption
<1>4. \A b \in Arrays : heap'[b] # <<>> => b = a \/ \E e \in held : e.ops = b
  BY <1>1 DEF OwnerInv
<1>5. \A b \in Arrays : Len(heap'[b]) <= MaxSlots
  BY <1>1, <1>3 DEF OwnerInv
<1>6. OwnerInv'
  BY <1>1, <1>2, <1>4, <1>5 DEF OwnerInv
<1>7. ASSUME NEW e \in held PROVE Holds(e.ops, e.count, e.session)'
  <2>1. Holds(e.ops, e.count, e.session) /\ heap'[e.ops] = heap[e.ops]
    BY <1>1, <1>2 DEF CaptureInv
  <2> QED BY <2>1 DEF Holds
<1> QED BY <1>6, <1>7

(* A recorded access is in the next slot.                                   *)
LEMMA StepToInstBuf ==
    ASSUME IInv, NEW t \in Threads, ToInstBuf(t)
    PROVE  IInv'
<1> DEFINE n == buf.count + 1
<1>1. buf.recording /\ CaptureInv /\ buf.ops # NULL /\ buf.ops \in Arrays /\ buf \in Buffer
  BY DEF ToInstBuf, IsRecording, IInv, CaptureInv, TypeInv, Buffer
<1>2. /\ issued \in Nat /\ session \in Seq(Access) /\ buf.count \in Nat
      /\ DistinctInv /\ ApartInv /\ BoundInv /\ PlacedInv /\ ClosedInv /\ OwnerInv /\ TypeInv
  BY DEF IInv, TypeInv, PlaceInv, Buffer
<1>3. PICK access \in Access, r \in Ensured(n) :
        /\ access.id = issued + 1
        /\ heap' = [r.mem EXCEPT ![r.ops][n] = access]
        /\ buf' = [buf EXCEPT !.ops = r.ops, !.count = @ + 1]
        /\ session' = Append(session, access)
        /\ issued' = issued + 1
        /\ UNCHANGED <<ready, txn, held, log, gone>>
  <2>1. PICK kind \in Kinds : \E access \in Accepted(kind) : AppendInstBuf(access)
    BY DEF ToInstBuf
  <2>2. PICK access \in Accepted(kind) : AppendInstBuf(access)
    BY <2>1
  <2>3. access \in Access /\ access.id = issued + 1
    BY <1>2, AcceptedFacts
  <2>4. issued' = issued + 1 /\ UNCHANGED <<ready, txn, held, log, gone>>
    BY DEF ToInstBuf
  <2> QED BY <1>1, <2>2, <2>3, <2>4 DEF AppendInstBuf
<1>4. Holds(buf.ops, buf.count, session)
  BY <1>1 DEF CaptureInv
<1>5. /\ buf.count = Len(session) /\ Len(session) \in Nat /\ DOMAIN session = 1..Len(session)
      /\ buf.count <= Len(heap[buf.ops])
      /\ \A k \in 1..buf.count : heap[buf.ops][k] = session[k]
  BY <1>2, <1>4, SeqFacts DEF Holds
<1> DEFINE a == r.ops
           old == r.mem[a]
<1>6. /\ a \in Arrays /\ r.mem \in [Arrays -> Seq(Access)]
      /\ n <= Len(old) /\ Len(old) <= MaxSlots
      /\ a # buf.ops => heap[a] = <<>>
      /\ \A b \in Arrays \ {a} : r.mem[b] = IF b = buf.ops THEN <<>> ELSE heap[b]
      /\ Len(heap[buf.ops]) <= Len(old)
      /\ \A k \in DOMAIN heap[buf.ops] : old[k] = heap[buf.ops][k]
  <2>1. n \in Nat \ {0} /\ n <= Len(heap[buf.ops]) + 1
    <3>1. Len(heap[buf.ops]) \in Nat
      BY <1>1, <1>2, SlotsFacts
    <3> QED BY <1>2, <1>5, <3>1
  <2> HIDE DEF n
  <2> QED BY <1>1, <1>2, <2>1, EnsuredFacts
<1>7. old \in Seq(Access) /\ Len(old) \in Nat /\ DOMAIN old = 1..Len(old) /\ n \in 1..Len(old)
  <2>1. old \in Seq(Access)
    BY <1>6
  <2> HIDE DEF old
  <2>2. Len(old) \in Nat /\ DOMAIN old = 1..Len(old)
    BY <2>1, SeqFacts
  <2> QED BY <1>2, <1>6, <2>1, <2>2
<1> DEFINE new == [old EXCEPT ![n] = access]
<1>8. /\ new \in Seq(Access) /\ Len(new) = Len(old)
      /\ \A k \in 1..Len(old) : new[k] = IF k = n THEN access ELSE old[k]
  <2> HIDE DEF old, n
  <2> QED BY <1>3, <1>7, ExceptSeq
<1>9. /\ heap' \in [Arrays -> Seq(Access)] /\ heap'[a] = new
      /\ \A b \in Arrays \ {a} : heap'[b] = r.mem[b]
  <2>1. heap' = [r.mem EXCEPT ![a] = new]
    BY <1>3
  <2> HIDE DEF new, a
  <2> QED BY <1>6, <1>8, <2>1
<1>10. /\ buf' \in Buffer /\ buf'.ops = a /\ buf'.count = n
       /\ buf'.made = buf.made /\ buf'.recording = buf.recording
  <2>1. buf' = [buf EXCEPT !.ops = a, !.count = n]
    BY <1>3
  <2>2. n \in Nat
    BY <1>2
  <2> HIDE DEF a, n
  <2> QED BY <1>1, <1>6, <2>1, <2>2 DEF Buffer
<1>11. /\ session' \in Seq(Access) /\ Len(session') = n
       /\ \A k \in 1..Len(session) : session'[k] = session[k]
       /\ session'[n] = access
       /\ Ids(session') = Ids(session) \cup {issued + 1} /\ Distinct(session')
  <2>1. /\ session' \in Seq(Access)
        /\ Ids(session') = Ids(session) \cup {issued + 1} /\ Distinct(session')
    BY <1>2, <1>3, FreshFacts, IdsAppend DEF DistinctInv
  <2>2. /\ Len(session') = Len(session) + 1
        /\ \A k \in 1..Len(session) : session'[k] = session[k]
        /\ session'[Len(session) + 1] = access
    BY <1>2, <1>3, AppendProperties
  <2> QED BY <1>5, <2>1, <2>2
<1>12. Holds(buf.ops, buf.count, session)'
  <2>1. ASSUME NEW k \in 1..n PROVE new[k] = session'[k]
    <3>1. CASE k = n
      BY <1>7, <1>8, <1>11, <3>1
    <3>2. CASE k # n
      <4>1. k \in 1..Len(session) /\ k \in 1..Len(old)
        BY <1>2, <1>5, <1>7, <2>1, <3>2
      <4>2. k \in DOMAIN heap[buf.ops]
        <5>1. heap[buf.ops] \in Seq(Access)
          BY <1>1, <1>2, SlotsFacts
        <5>2. DOMAIN heap[buf.ops] = 1..Len(heap[buf.ops]) /\ Len(heap[buf.ops]) \in Nat
          BY <5>1, SeqFacts
        <5> QED BY <1>5, <4>1, <5>2
      <4>3. new[k] = heap[buf.ops][k]
        BY <1>6, <1>8, <3>2, <4>1, <4>2
      <4> QED BY <1>5, <1>11, <4>1, <4>3
    <3> QED BY <3>1, <3>2
  <2>2. n <= Len(new)
    BY <1>6, <1>8
  <2> HIDE DEF new, n, a
  <2> QED BY <1>9, <1>10, <1>11, <2>1, <2>2 DEF Holds
<1>13. OwnerInv' /\ \A e \in held : Holds(e.ops, e.count, e.session)'
  <2>1. new # <<>> /\ Len(new) <= MaxSlots
    <3> HIDE DEF new, old
    <3> QED BY <1>6, <1>7, <1>8, EmptyFacts
  <2>2. \A b \in Arrays \ {a} : heap'[b] = IF b = buf.ops THEN <<>> ELSE heap[b]
    BY <1>6, <1>9
  <2>3. a \in Arrays /\ buf'.ops = a /\ held' = held /\ (a # buf.ops => heap[a] = <<>>)
    BY <1>3, <1>6, <1>10
  <2>4. heap'[a] # <<>> /\ Len(heap'[a]) <= MaxSlots /\ heap' \in [Arrays -> Seq(Access)]
    BY <1>9, <2>1
  <2> HIDE DEF new, a
  <2> QED BY <2>2, <2>3, <2>4, MovedFacts
<1>14. TypeInv'
  BY <1>2, <1>3, <1>9, <1>10, <1>11 DEF TypeInv
<1>15. CaptureInv'
  <2>1. a # NULL /\ (buf.recording => buf.made)
    BY <1>1, <1>6, RegIoAssumption DEF CaptureInv
  <2> HIDE DEF a, n
  <2> QED BY <1>3, <1>10, <1>12, <1>13, <2>1 DEF CaptureInv
<1>16. DistinctInv' /\ ClosedInv'
  BY <1>2, <1>3, <1>11 DEF DistinctInv, ClosedInv
<1>17. /\ issued + 1 \notin Ids(log) /\ issued + 1 \notin gone
       /\ \A u \in Threads : issued + 1 \notin Ids(txn[u].cmds)
       /\ \A e \in held : issued + 1 \notin Ids(e.session)
       /\ 1..(issued + 1) = 1..issued \cup {issued + 1}
  BY <1>2, FreshFacts
<1>18. ApartInv'
  <2>1. Apart(Ids(log), Ids(session))' /\ Apart(Ids(session), gone)'
    BY <1>2, <1>3, <1>11, <1>17 DEF ApartInv, Apart
  <2>2. ASSUME NEW u \in Threads PROVE Apart(Ids(txn[u].cmds), Ids(session))'
    BY <1>2, <1>3, <1>11, <1>17, <2>2 DEF ApartInv, Apart
  <2>3. ASSUME NEW e \in held PROVE Apart(Ids(e.session), Ids(session))'
    BY <1>2, <1>3, <1>11, <1>17, <2>3 DEF ApartInv, Apart
  <2> QED BY <1>2, <1>3, <2>1, <2>2, <2>3 DEF ApartInv
<1>19. BoundInv'
  BY <1>2, <1>3, <1>11, <1>17 DEF BoundInv
<1>20. PlacedInv'
  BY <1>2, <1>3, <1>11, <1>17 DEF PlacedInv, Placed
<1> QED BY <1>13, <1>14, <1>15, <1>16, <1>18, <1>19, <1>20 DEF IInv, PlaceInv

(* What was recorded is given up.                                           *)
LEMMA GivenUp ==
    ASSUME IInv, GiveUpSession, UNCHANGED <<txn, held, issued, log>>
    PROVE  PlaceInv' /\ gone' \in SUBSET Nat /\ session' = <<>> /\ session' \in Seq(Access)
<1>1. /\ issued \in Nat /\ gone \in SUBSET Nat
      /\ DistinctInv /\ ApartInv /\ BoundInv /\ PlacedInv /\ ClosedInv
      /\ gone' = gone \cup Ids(session) /\ session' = <<>>
  BY DEF IInv, TypeInv, PlaceInv, GiveUpSession
<1>2. Ids(session') = {} /\ Distinct(session')
  BY <1>1, NoIds
<1>3. DistinctInv' /\ ClosedInv'
  BY <1>1, <1>2 DEF DistinctInv, ClosedInv
<1>4. ApartInv'
  <2>1. /\ Apart(Ids(log), gone)' /\ Apart(Ids(log), Ids(session))'
        /\ Apart(Ids(session), gone)'
    BY <1>1, <1>2 DEF ApartInv, Apart
  <2>2. ASSUME NEW t \in Threads
        PROVE  Apart(Ids(txn[t].cmds), Ids(session))' /\ Apart(Ids(txn[t].cmds), gone)'
    BY <1>1, <1>2, <2>2 DEF ApartInv, Apart
  <2>3. ASSUME NEW e \in held
        PROVE  Apart(Ids(e.session), Ids(session))' /\ Apart(Ids(e.session), gone)'
    BY <1>1, <1>2, <2>3 DEF ApartInv, Apart
  <2> QED BY <1>1, <2>1, <2>2, <2>3 DEF ApartInv
<1>5. BoundInv'
  BY <1>1, <1>2 DEF BoundInv
<1>6. PlacedInv'
  BY <1>1, <1>2 DEF PlacedInv, Placed
<1>7. gone' \in SUBSET Nat
  <2>1. Ids(session) \subseteq 1..issued /\ 1..issued \subseteq Nat
    BY <1>1 DEF BoundInv
  <2> QED BY <1>1, <2>1
<1> QED BY <1>1, <1>3, <1>4, <1>5, <1>6, <1>7 DEF PlaceInv

(* A start finds the array there is or makes one, and wipes it.             *)
LEMMA StepStartInstBuf ==
    ASSUME IInv, StartInstBuf
    PROVE  IInv'
<1>1. PICK r \in (IF buf.ops = NULL THEN Ensured(InitialSlots) ELSE {Room(buf.ops, heap)}) :
        /\ heap' = [r.mem EXCEPT ![r.ops] = Blanks(Len(@))]
        /\ buf' = [made |-> TRUE, ops |-> r.ops, count |-> 0, recording |-> TRUE]
        /\ GiveUpSession /\ UNCHANGED <<ready, txn, held, issued, log>>
  BY DEF StartInstBuf
<1>2. /\ TypeInv /\ OwnerInv /\ CaptureInv /\ buf.ops \in Arrays \cup {NULL} /\ NULL \notin Arrays
      /\ InitialSlots \in Nat \ {0} /\ heap \in [Arrays -> Seq(Access)]
  BY RegIoAssumption DEF IInv, TypeInv, Buffer
<1> DEFINE a == r.ops
<1>3. /\ a \in Arrays /\ r.mem \in [Arrays -> Seq(Access)]
      /\ 0 < Len(r.mem[a]) /\ Len(r.mem[a]) <= MaxSlots
      /\ a # buf.ops => heap[a] = <<>>
      /\ \A b \in Arrays \ {a} : r.mem[b] = IF b = buf.ops THEN <<>> ELSE heap[b]
  <2>1. CASE buf.ops = NULL
    <3>1. /\ r.ops \in Arrays /\ r.mem \in [Arrays -> Seq(Access)]
          /\ InitialSlots <= Len(r.mem[r.ops]) /\ Len(r.mem[r.ops]) <= MaxSlots
          /\ r.ops # buf.ops => heap[r.ops] = <<>>
          /\ \A b \in Arrays \ {r.ops} : r.mem[b] = IF b = buf.ops THEN <<>> ELSE heap[b]
      <4>1. r \in Ensured(InitialSlots)
        BY <1>1, <2>1
      <4>2. InitialSlots <= InitialSlots
        BY <1>2
      <4> QED BY <1>2, <2>1, <4>1, <4>2, EnsuredFacts
    <3>2. r.mem[r.ops] \in Seq(Access)
      BY <3>1
    <3>3. Len(r.mem[r.ops]) \in Nat
      BY <3>2, SeqFacts
    <3> QED BY <1>2, <3>1, <3>3
  <2>2. CASE buf.ops # NULL
    <3>1. r.ops = buf.ops /\ r.mem = heap
      BY <1>1, <2>2 DEF Room
    <3>2. buf.ops \in Arrays /\ heap[buf.ops] # <<>>
      BY <1>2, <2>2 DEF OwnerInv
    <3>3. Len(heap[buf.ops]) \in Nat /\ Len(heap[buf.ops]) <= MaxSlots /\ Len(heap[buf.ops]) # 0
      BY <1>2, <3>2, SlotsFacts
    <3> QED BY <1>2, <3>1, <3>2, <3>3
  <2> QED BY <2>1, <2>2
<1> DEFINE new == Blanks(Len(r.mem[a]))
<1>4. new \in Seq(Access) /\ new # <<>> /\ Len(new) <= MaxSlots /\ 0 <= Len(new)
  <2>1. Len(r.mem[a]) \in Nat
    BY <1>3, SeqFacts
  <2>2. Blanks(Len(r.mem[a])) \in Seq(Access) /\ Len(Blanks(Len(r.mem[a]))) = Len(r.mem[a])
    BY <2>1, BlanksFacts
  <2> QED BY <1>3, <2>1, <2>2, EmptyFacts
<1>5. /\ heap' \in [Arrays -> Seq(Access)] /\ heap'[a] = new
      /\ \A b \in Arrays \ {a} : heap'[b] = r.mem[b]
  <2>1. heap' = [r.mem EXCEPT ![a] = new]
    BY <1>1
  <2> HIDE DEF new, a
  <2> QED BY <1>3, <1>4, <2>1
<1>6. buf' \in Buffer /\ buf'.ops = a /\ buf'.count = 0 /\ buf'.made
  BY <1>1, <1>3 DEF Buffer
<1>7. PlaceInv' /\ gone' \in SUBSET Nat /\ session' = <<>> /\ session' \in Seq(Access)
  BY <1>1, GivenUp
<1>8. OwnerInv' /\ \A e \in held : Holds(e.ops, e.count, e.session)'
  <2> HIDE DEF new, a
  <2> QED BY <1>1, <1>3, <1>4, <1>5, <1>6, MovedFacts
<1>9. Holds(buf.ops, buf.count, session)'
  <2> HIDE DEF new, a
  <2> QED BY <1>4, <1>5, <1>6, <1>7 DEF Holds
<1>10. TypeInv'
  BY <1>1, <1>2, <1>5, <1>6, <1>7 DEF TypeInv
<1>11. CaptureInv'
  <2>1. a # NULL
    BY <1>2, <1>3
  <2> HIDE DEF a
  <2> QED BY <1>1, <1>6, <1>7, <1>8, <1>9, <2>1 DEF CaptureInv
<1> QED BY <1>7, <1>8, <1>10, <1>11 DEF IInv

LEMMA StepStartInstBufFails ==
    ASSUME IInv, StartInstBufFails
    PROVE  IInv'
<1>1. /\ buf = NoBuf /\ buf' = EmptyBuf
      /\ UNCHANGED <<ready, txn, heap, held, issued, log, session, gone>>
  BY DEF StartInstBufFails
<1>2. /\ buf.ops = NULL /\ buf'.ops = NULL /\ ~buf'.recording /\ buf' \in Buffer
  BY <1>1 DEF NoBuf, EmptyBuf, Buffer
<1>3. TypeInv'
  BY <1>1, <1>2 DEF IInv, TypeInv
<1>4. CaptureInv'
  BY <1>1, <1>2 DEF IInv, CaptureInv, Holds
<1>5. OwnerInv'
  BY <1>1, <1>2 DEF IInv, OwnerInv
<1>6. PlaceInv'
  BY <1>1 DEF IInv, PlaceInv, DistinctInv, ApartInv, BoundInv, PlacedInv, Placed, ClosedInv
<1> QED BY <1>3, <1>4, <1>5, <1>6 DEF IInv

LEMMA StepClearInstBuf ==
    ASSUME IInv, ClearInstBuf
    PROVE  IInv'
<1>1. /\ heap' = [a \in Arrays |-> IF a = buf.ops THEN Blanks(Len(heap[a])) ELSE heap[a]]
      /\ buf' = [buf EXCEPT !.count = 0]
      /\ GiveUpSession /\ UNCHANGED <<ready, txn, held, issued, log>>
  BY DEF ClearInstBuf
<1>2. /\ TypeInv /\ OwnerInv /\ CaptureInv /\ buf \in Buffer /\ heap \in [Arrays -> Seq(Access)]
      /\ buf.ops \in Arrays \cup {NULL} /\ held \in SUBSET Exported
      /\ \A e \in held : e.ops \in Arrays
  BY DEF IInv, TypeInv, Buffer, Exported
<1>3. /\ buf' \in Buffer /\ buf'.ops = buf.ops /\ buf'.count = 0
      /\ buf'.made = buf.made /\ buf'.recording = buf.recording
  BY <1>1, <1>2 DEF Buffer
<1>4. PlaceInv' /\ gone' \in SUBSET Nat /\ session' = <<>> /\ session' \in Seq(Access)
  BY <1>1, GivenUp
<1>5. ASSUME NEW a \in Arrays
      PROVE  /\ heap'[a] \in Seq(Access) /\ Len(heap'[a]) = Len(heap[a]) /\ Len(heap[a]) \in Nat
             /\ heap'[a] = <<>> <=> heap[a] = <<>>
             /\ a # buf.ops => heap'[a] = heap[a]
  <2>1. heap[a] \in Seq(Access) /\ Len(heap[a]) \in Nat
    BY <1>2, SlotsFacts
  <2>2. Blanks(Len(heap[a])) \in Seq(Access) /\ Len(Blanks(Len(heap[a]))) = Len(heap[a])
    BY <2>1, BlanksFacts
  <2>3. heap'[a] = IF a = buf.ops THEN Blanks(Len(heap[a])) ELSE heap[a]
    BY <1>1
  <2>4. heap'[a] \in Seq(Access) /\ Len(heap'[a]) = Len(heap[a])
    BY <2>1, <2>2, <2>3
  <2> QED BY <2>1, <2>3, <2>4, EmptyFacts
<1>6. TypeInv'
  <2>1. heap' \in [Arrays -> Seq(Access)]
    BY <1>1, <1>5
  <2> QED BY <1>1, <1>2, <1>3, <1>4, <2>1 DEF TypeInv
<1>7. OwnerInv'
  BY <1>1, <1>2, <1>3, <1>5 DEF OwnerInv
<1>8. CaptureInv'
  <2>1. ASSUME NEW e \in held PROVE Holds(e.ops, e.count, e.session)'
    <3>1. heap'[e.ops] = heap[e.ops] /\ Holds(e.ops, e.count, e.session)
      BY <1>2, <1>5 DEF OwnerInv, CaptureInv
    <3> QED BY <3>1 DEF Holds
  <2>2. ASSUME buf.ops # NULL PROVE Holds(buf.ops, buf.count, session)'
    <3>1. buf.ops \in Arrays /\ Len(heap'[buf.ops]) \in Nat
      BY <1>2, <1>5, <2>2
    <3> QED BY <1>3, <1>4, <3>1 DEF Holds
  <2> QED BY <1>1, <1>2, <1>3, <1>4, <2>1, <2>2 DEF CaptureInv
<1> QED BY <1>4, <1>6, <1>7, <1>8 DEF IInv

(* The session and its array go to the client.                              *)
LEMMA StepExportInstBuf ==
    ASSUME IInv, ExportInstBuf
    PROVE  IInv'
<1>1. /\ held' = (IF buf.ops = NULL THEN held ELSE held \cup {Export})
      /\ buf' = EmptyBuf /\ session' = <<>>
      /\ UNCHANGED <<ready, txn, heap, issued, log, gone>>
  BY DEF ExportInstBuf
<1>2. /\ TypeInv /\ OwnerInv /\ CaptureInv /\ buf \in Buffer /\ session \in Seq(Access)
      /\ buf.ops \in Arrays \cup {NULL} /\ held \in SUBSET Exported /\ IsFiniteSet(held)
      /\ DistinctInv /\ ApartInv /\ BoundInv /\ PlacedInv /\ ClosedInv /\ NULL \notin Arrays
      /\ \A e \in held : e.ops \in Arrays
  BY RegIoAssumption DEF IInv, TypeInv, Buffer, Exported, PlaceInv
<1>3. buf' \in Buffer /\ buf'.ops = NULL /\ ~buf'.recording
  BY <1>1 DEF EmptyBuf, NoBuf, Buffer
<1>4. session' = <<>> /\ Ids(session') = {} /\ Distinct(session') /\ session' \in Seq(Access)
  BY <1>1, NoIds
<1>5. CASE buf.ops = NULL
  <2>1. held' = held /\ session = <<>> /\ session' = session
    BY <1>1, <1>2, <1>5 DEF CaptureInv
  <2>2. TypeInv'
    BY <1>1, <1>2, <1>3, <1>4, <2>1 DEF TypeInv
  <2>3. CaptureInv' /\ OwnerInv'
    BY <1>1, <1>2, <1>3, <1>5, <2>1 DEF CaptureInv, OwnerInv, Holds
  <2>4. PlaceInv'
    BY <1>1, <1>2, <2>1 DEF PlaceInv, DistinctInv, ApartInv, BoundInv, PlacedInv, Placed, ClosedInv
  <2> QED BY <2>2, <2>3, <2>4 DEF IInv
<1>6. CASE buf.ops # NULL
  <2>1. /\ held' = held \cup {Export} /\ Export \in Exported
        /\ Export.ops = buf.ops /\ Export.count = buf.count /\ Export.session = session
    BY <1>1, <1>2, <1>6 DEF Export, Exported, Buffer
  <2> HIDE DEF Export
  <2>2. TypeInv'
    <3>1. IsFiniteSet(held')
      BY <1>2, <2>1, FS_AddElement
    <3> QED BY <1>1, <1>2, <1>3, <1>4, <2>1, <3>1 DEF TypeInv
  <2>3. CaptureInv'
    <3>1. Holds(Export.ops, Export.count, Export.session)
      BY <1>2, <1>6, <2>1 DEF CaptureInv
    <3>2. \A e \in held' : Holds(e.ops, e.count, e.session)
      BY <1>2, <2>1, <3>1 DEF CaptureInv
    <3> QED BY <1>1, <1>3, <1>4, <3>2 DEF CaptureInv, Holds
  <2>4. OwnerInv'
    <3>1. \A e \in held : e.ops # Export.ops
      BY <1>2, <2>1 DEF OwnerInv
    <3>2. \A e \in held' : heap[e.ops] # <<>> /\ e.ops # buf'.ops
      BY <1>2, <1>3, <1>6, <2>1 DEF OwnerInv
    <3>3. \A e, f \in held' : e.ops = f.ops => e = f
      BY <1>2, <2>1, <3>1 DEF OwnerInv
    <3>4. \A a \in Arrays : heap[a] # <<>> => \E e \in held' : e.ops = a
      BY <1>2, <2>1 DEF OwnerInv
    <3>5. \A a \in Arrays : Len(heap[a]) <= MaxSlots
      BY <1>2 DEF OwnerInv
    <3> QED BY <1>1, <1>3, <3>2, <3>3, <3>4, <3>5 DEF OwnerInv
  <2>5. DistinctInv' /\ ClosedInv'
    BY <1>1, <1>2, <1>4, <2>1 DEF DistinctInv, ClosedInv
  <2>6. ApartInv'
    <3>1. /\ Apart(Ids(log), gone)' /\ Apart(Ids(log), Ids(session))'
          /\ Apart(Ids(session), gone)'
      BY <1>1, <1>2, <1>4 DEF ApartInv, Apart
    <3>2. ASSUME NEW t \in Threads
          PROVE  /\ Apart(Ids(txn[t].cmds), Ids(log))' /\ Apart(Ids(txn[t].cmds), Ids(session))'
                 /\ Apart(Ids(txn[t].cmds), gone)'
                 /\ \A u \in Threads : t # u => Apart(Ids(txn[t].cmds), Ids(txn[u].cmds))'
                 /\ \A e \in held' : Apart(Ids(txn[t].cmds), Ids(e.session))'
      BY <1>1, <1>2, <1>4, <2>1, <3>2 DEF ApartInv, Apart
    <3>3. ASSUME NEW e \in held'
          PROVE  /\ Apart(Ids(e.session), Ids(log))' /\ Apart(Ids(e.session), Ids(session))'
                 /\ Apart(Ids(e.session), gone)'
      BY <1>1, <1>2, <1>4, <2>1, <3>3 DEF ApartInv, Apart
    <3>4. ASSUME NEW e \in held', NEW f \in held', e # f
          PROVE  Apart(Ids(e.session), Ids(f.session))
      BY <1>2, <2>1, <3>4 DEF ApartInv, Apart
    <3> QED BY <3>1, <3>2, <3>3, <3>4 DEF ApartInv
  <2>7. BoundInv'
    BY <1>1, <1>2, <1>4, <2>1 DEF BoundInv
  <2>8. PlacedInv'
    BY <1>1, <1>2, <1>4, <2>1 DEF PlacedInv, Placed
  <2> QED BY <2>2, <2>3, <2>4, <2>5, <2>6, <2>7, <2>8 DEF IInv, PlaceInv
<1> QED BY <1>5, <1>6

(* The array of an export is freed: what it holds is given up.              *)
LEMMA StepFreeExportedInstBuf ==
    ASSUME IInv, FreeExportedInstBuf
    PROVE  IInv'
<1>1. PICK e \in held :
        /\ held' = held \ {e} /\ heap' = [heap EXCEPT ![e.ops] = <<>>]
        /\ gone' = gone \cup Ids(e.session)
        /\ UNCHANGED <<ready, txn, buf, issued, log, session>>
  BY DEF FreeExportedInstBuf
<1>2. /\ TypeInv /\ OwnerInv /\ CaptureInv /\ heap \in [Arrays -> Seq(Access)]
      /\ held \in SUBSET Exported /\ IsFiniteSet(held) /\ gone \in SUBSET Nat /\ issued \in Nat
      /\ DistinctInv /\ ApartInv /\ BoundInv /\ PlacedInv /\ ClosedInv
      /\ \A f \in held : f.ops \in Arrays
  BY DEF IInv, TypeInv, Exported, PlaceInv
<1>3. /\ heap' \in [Arrays -> Seq(Access)] /\ heap'[e.ops] = <<>>
      /\ \A a \in Arrays \ {e.ops} : heap'[a] = heap[a]
  <2>1. <<>> \in Seq(Access) /\ e.ops \in Arrays
    BY <1>2
  <2> QED BY <1>1, <1>2, <2>1
<1>4. Ids(e.session) \subseteq 1..issued /\ 1..issued \subseteq Nat
  BY <1>2 DEF BoundInv
<1>5. TypeInv'
  <2>1. IsFiniteSet(held')
    BY <1>1, <1>2, FS_Subset
  <2> QED BY <1>1, <1>2, <1>3, <1>4, <2>1 DEF TypeInv
<1>6. \A f \in held' : f \in held /\ f # e /\ f.ops # e.ops /\ heap'[f.ops] = heap[f.ops]
  BY <1>1, <1>2, <1>3 DEF OwnerInv
<1>7. CaptureInv'
  <2>1. ASSUME NEW f \in held' PROVE Holds(f.ops, f.count, f.session)'
    <3>1. Holds(f.ops, f.count, f.session) /\ heap'[f.ops] = heap[f.ops]
      BY <1>2, <1>6 DEF CaptureInv
    <3> QED BY <3>1 DEF Holds
  <2>2. ASSUME buf.ops # NULL PROVE Holds(buf.ops, buf.count, session)'
    <3>1. buf.ops \in Arrays \ {e.ops} /\ Holds(buf.ops, buf.count, session)
      BY <1>2, <2>2 DEF TypeInv, Buffer, OwnerInv, CaptureInv
    <3> QED BY <1>1, <1>3, <3>1 DEF Holds
  <2> QED BY <1>1, <1>2, <2>1, <2>2 DEF CaptureInv
<1>8. OwnerInv'
  <2>1. buf'.ops # NULL => heap'[buf'.ops] # <<>>
    <3>1. buf.ops # NULL => buf.ops \in Arrays \ {e.ops}
      BY <1>2 DEF TypeInv, Buffer, OwnerInv
    <3> QED BY <1>1, <1>2, <1>3, <3>1 DEF OwnerInv
  <2>2. \A f \in held' : heap'[f.ops] # <<>> /\ f.ops # buf'.ops
    BY <1>1, <1>2, <1>6 DEF OwnerInv
  <2>3. \A f, g \in held' : f.ops = g.ops => f = g
    BY <1>2, <1>6 DEF OwnerInv
  <2>4. ASSUME NEW a \in Arrays, heap'[a] # <<>>
        PROVE  a = buf'.ops \/ \E f \in held' : f.ops = a
    <3>1. a # e.ops /\ heap[a] # <<>>
      BY <1>3, <2>4
    <3>2. a = buf.ops \/ \E f \in held : f.ops = a
      BY <1>2, <3>1 DEF OwnerInv
    <3> QED BY <1>1, <3>1, <3>2
  <2>5. ASSUME NEW a \in Arrays PROVE Len(heap'[a]) <= MaxSlots
    <3>1. Len(<<>>) <= MaxSlots
      BY RegIoAssumption
    <3> QED BY <1>2, <1>3, <3>1 DEF OwnerInv
  <2> QED BY <2>1, <2>2, <2>3, <2>4, <2>5 DEF OwnerInv
<1>9. DistinctInv' /\ ClosedInv'
  BY <1>1, <1>2 DEF DistinctInv, ClosedInv
<1>10. ApartInv'
  <2>1. /\ Apart(Ids(log), gone)' /\ Apart(Ids(log), Ids(session))'
        /\ Apart(Ids(session), gone)'
    BY <1>1, <1>2 DEF ApartInv, Apart
  <2>2. ASSUME NEW t \in Threads PROVE Apart(Ids(txn[t].cmds), gone)'
    BY <1>1, <1>2, <2>2 DEF ApartInv, Apart
  <2>3. ASSUME NEW f \in held' PROVE Apart(Ids(f.session), gone)'
    <3>1. Apart(Ids(f.session), gone) /\ Apart(Ids(e.session), Ids(f.session))
      BY <1>2, <1>6 DEF ApartInv
    <3> QED BY <1>1, <3>1 DEF Apart
  <2>4. ASSUME NEW t \in Threads, NEW f \in held' PROVE Apart(Ids(txn[t].cmds), Ids(f.session))'
    BY <1>1, <1>2, <1>6 DEF ApartInv
  <2>5. ASSUME NEW f \in held'
        PROVE  /\ Apart(Ids(f.session), Ids(log))' /\ Apart(Ids(f.session), Ids(session))'
               /\ \A g \in held' : f # g => Apart(Ids(f.session), Ids(g.session))
    BY <1>1, <1>2, <1>6 DEF ApartInv
  <2> QED BY <1>1, <1>2, <2>1, <2>2, <2>3, <2>4, <2>5 DEF ApartInv
<1>11. BoundInv'
  BY <1>1, <1>2, <1>4, <1>6 DEF BoundInv
<1>12. PlacedInv'
  <2>1. ASSUME NEW id \in 1..issued PROVE Placed(id)'
    <3>1. Placed(id)
      BY <1>2 DEF PlacedInv
    <3>2. CASE \E f \in held : id \in Ids(f.session)
      BY <1>1, <3>2 DEF Placed
    <3> QED BY <1>1, <3>1, <3>2 DEF Placed
  <2> QED BY <1>1, <2>1 DEF PlacedInv
<1> QED BY <1>5, <1>7, <1>8, <1>9, <1>10, <1>11, <1>12 DEF IInv, PlaceInv

(* The device is closed: what waits is given up, what was exported stays.   *)
LEMMA StepFinish ==
    ASSUME IInv, Finish
    PROVE  IInv'
<1> DEFINE waiting == UNION {Ids(txn[t].cmds) : t \in Threads}
<1>1. /\ ready' = FALSE /\ buf' = NoBuf /\ session' = <<>>
      /\ heap' = [a \in Arrays |-> IF a = buf.ops THEN <<>> ELSE heap[a]]
      /\ txn' = [t \in Threads |-> NoTxn]
      /\ gone' = gone \cup Ids(session) \cup waiting
      /\ UNCHANGED <<held, issued, log>>
  BY DEF Finish, FinishInstBuf
<1>2. \A id : id \in waiting <=> \E t \in Threads : id \in Ids(txn[t].cmds)
  OBVIOUS
<1> HIDE DEF waiting
<1>3. /\ TypeInv /\ OwnerInv /\ CaptureInv /\ heap \in [Arrays -> Seq(Access)]
      /\ held \in SUBSET Exported /\ gone \in SUBSET Nat /\ issued \in Nat
      /\ DistinctInv /\ ApartInv /\ BoundInv /\ PlacedInv /\ ClosedInv
      /\ \A e \in held : e.ops \in Arrays /\ e.ops # buf.ops
  BY DEF IInv, TypeInv, Exported, PlaceInv, OwnerInv
<1>4. /\ session' \in Seq(Access) /\ Ids(session') = {} /\ Distinct(session')
      /\ txn' \in [Threads -> Transaction]
      /\ \A t \in Threads : txn'[t].cmds = <<>> /\ Ids(txn'[t].cmds) = {} /\ Distinct(txn'[t].cmds)
  <2>1. NoTxn \in Transaction /\ NoTxn.cmds = <<>> /\ <<>> \in Seq(Access)
    BY DEF NoTxn, Transaction
  <2> QED BY <1>1, <2>1, NoIds
<1>5. waiting \subseteq 1..issued /\ Ids(session) \subseteq 1..issued /\ 1..issued \subseteq Nat
  BY <1>2, <1>3 DEF BoundInv
<1>6. buf' \in Buffer /\ buf'.ops = NULL /\ ~buf'.recording
  BY <1>1 DEF NoBuf, Buffer
<1>7. TypeInv'
  BY <1>1, <1>3, <1>4, <1>5, <1>6 DEF TypeInv
<1>8. \A e \in held : heap'[e.ops] = heap[e.ops]
  BY <1>1, <1>3
<1>9. CaptureInv'
  <2>1. ASSUME NEW e \in held PROVE Holds(e.ops, e.count, e.session)'
    <3>1. Holds(e.ops, e.count, e.session) /\ heap'[e.ops] = heap[e.ops]
      BY <1>3, <1>8 DEF CaptureInv
    <3> QED BY <3>1 DEF Holds
  <2> QED BY <1>1, <1>6, <2>1 DEF CaptureInv
<1>10. OwnerInv'
  <2>1. NULL \notin Arrays /\ Len(<<>>) <= MaxSlots
    BY RegIoAssumption
  <2>2. \A e \in held : heap'[e.ops] # <<>> /\ e.ops # NULL
    BY <1>3, <1>8, <2>1 DEF OwnerInv
  <2>3. \A a \in Arrays : heap'[a] # <<>> => \E e \in held : e.ops = a
    BY <1>1, <1>3 DEF OwnerInv
  <2>4. \A a \in Arrays : Len(heap'[a]) <= MaxSlots
    BY <1>1, <1>3, <2>1 DEF OwnerInv
  <2> QED BY <1>1, <1>3, <1>6, <2>2, <2>3, <2>4 DEF OwnerInv
<1>11. DistinctInv' /\ ClosedInv'
  BY <1>1, <1>3, <1>4 DEF DistinctInv, ClosedInv
<1>12. ApartInv'
  <2>1. Apart(Ids(log), gone)'
    BY <1>1, <1>2, <1>3 DEF ApartInv, Apart
  <2>2. Apart(Ids(log), Ids(session))' /\ Apart(Ids(session), gone)'
    BY <1>4 DEF Apart
  <2>3. ASSUME NEW t \in Threads, NEW s PROVE Apart(Ids(txn'[t].cmds), s)
    BY <1>4 DEF Apart
  <2>4. ASSUME NEW e \in held PROVE Apart(Ids(e.session), gone)'
    BY <1>1, <1>2, <1>3, <2>4 DEF ApartInv, Apart
  <2>5. ASSUME NEW e \in held
        PROVE  /\ Apart(Ids(e.session), Ids(log))' /\ Apart(Ids(e.session), Ids(session))'
               /\ \A f \in held : e # f => Apart(Ids(e.session), Ids(f.session))
    BY <1>1, <1>3, <1>4, <2>5 DEF ApartInv, Apart
  <2> QED BY <1>1, <2>1, <2>2, <2>3, <2>4, <2>5 DEF ApartInv
<1>13. BoundInv'
  BY <1>1, <1>3, <1>4, <1>5 DEF BoundInv
<1>14. PlacedInv'
  BY <1>1, <1>2, <1>3 DEF PlacedInv, Placed
<1> QED BY <1>7, <1>9, <1>10, <1>11, <1>12, <1>13, <1>14 DEF IInv, PlaceInv

----------------------------------------------------------------------------
(* The invariant.                                                           *)

LEMMA NextIInv ==
    ASSUME IInv, [Next]_vars
    PROVE  IInv'
<1>1. CASE Next
  <2>1. CASE \E t \in Threads :
               \/ ToDevice(t) \/ ToInstBuf(t) \/ PastTransaction(t) \/ IntoTransaction(t)
               \/ IgnoredCommand(t)
               \/ StartTransaction(t) \/ SubmitTransaction(t) \/ ClearTransaction(t)
    BY <2>1, StepToDevice, StepToInstBuf, StepPastTransaction, StepIntoTransaction,
       StepIgnoredCommand, StepStartTransaction, StepSubmitTransaction, StepClearTransaction
  <2>2. CASE StartInstBuf
    BY <2>2, StepStartInstBuf
  <2>3. CASE StartInstBufFails
    BY <2>3, StepStartInstBufFails
  <2>4. CASE ClearInstBuf
    BY <2>4, StepClearInstBuf
  <2>5. CASE ExportInstBuf
    BY <2>5, StepExportInstBuf
  <2>6. CASE FreeExportedInstBuf
    BY <2>6, StepFreeExportedInstBuf
  <2>7. CASE Finish
    BY <2>7, StepFinish
  <2> QED BY <1>1, <2>1, <2>2, <2>3, <2>4, <2>5, <2>6, <2>7 DEF Next
<1>2. CASE UNCHANGED vars
  BY <1>2, StepStutter
<1> QED BY <1>1, <1>2

(* Every reachable state satisfies the inductive invariant, the types of    *)
(* the variables included.                                                  *)
THEOREM InvariantHolds == Spec => []IInv
<1>1. Init => IInv
  BY InitIInv
<1>2. IInv /\ [Next]_vars => IInv'
  BY NextIInv
<1> QED BY <1>1, <1>2, PTL DEF Spec

----------------------------------------------------------------------------
(* What the runs check.                                                     *)

LEMMA CapturedFacts ==
    ASSUME NEW a, NEW n, NEW s \in Seq(Access), heap[a] \in Seq(Access), Holds(a, n, s)
    PROVE  Captured(a, n) = s
<1>1. /\ n = Len(s) /\ Len(s) \in Nat /\ Len(heap[a]) \in Nat /\ n <= Len(heap[a])
      /\ DOMAIN heap[a] = 1..Len(heap[a])
      /\ \A k \in 1..n : heap[a][k] = s[k]
  BY SeqFacts DEF Holds
<1>2. \A k \in 1..n : heap[a][k] \in Access
  BY <1>1, SeqFacts
<1>3. /\ SubSeq(heap[a], 1, n) \in Seq(Access)
      /\ Len(SubSeq(heap[a], 1, n)) = IF 1 <= n THEN n - 1 + 1 ELSE 0
      /\ \A k \in 1..(n - 1 + 1) : SubSeq(heap[a], 1, n)[k] = heap[a][1 + k - 1]
  BY <1>1, <1>2, SubSeqProperties
<1>4. /\ Len(SubSeq(heap[a], 1, n)) = Len(s)
      /\ \A k \in 1..Len(SubSeq(heap[a], 1, n)) : SubSeq(heap[a], 1, n)[k] = s[k]
  BY <1>1, <1>3
<1> QED BY <1>3, <1>4, SeqEqual DEF Captured

(* What records has an array that holds the session recorded so far, and    *)
(* every exported array keeps the session it was exported with, until the   *)
(* client frees it.                                                         *)
THEOREM CaptureHolds == Spec => []CaptureIsTheSession
<1>1. ASSUME IInv PROVE CaptureIsTheSession
  <2>1. /\ TypeInv /\ CaptureInv /\ OwnerInv /\ session \in Seq(Access)
        /\ heap \in [Arrays -> Seq(Access)] /\ held \in SUBSET Exported
        /\ buf.ops \in Arrays \cup {NULL}
    BY <1>1 DEF IInv, TypeInv, Buffer
  <2>2. ASSUME buf.ops # NULL
        PROVE  /\ buf.count <= Len(heap[buf.ops]) /\ Len(heap[buf.ops]) <= MaxSlots
               /\ Captured(buf.ops, buf.count) = session
    <3>1. Holds(buf.ops, buf.count, session) /\ buf.ops \in Arrays
      BY <2>1, <2>2 DEF CaptureInv
    <3>2. buf.count <= Len(heap[buf.ops]) /\ Len(heap[buf.ops]) <= MaxSlots
      BY <2>1, <3>1, SlotsFacts DEF Holds
    <3> QED BY <2>1, <3>1, <3>2, CapturedFacts
  <2>3. ASSUME NEW e \in held PROVE Captured(e.ops, e.count) = e.session
    <3>1. e.ops \in Arrays /\ e.session \in Seq(Access) /\ Holds(e.ops, e.count, e.session)
      BY <2>1 DEF CaptureInv, Exported
    <3> QED BY <2>1, <3>1, CapturedFacts
  <2> QED BY <2>1, <2>2, <2>3 DEF CaptureIsTheSession, CaptureInv
<1> QED BY <1>1, InvariantHolds, PTL

(* Every allocated array belongs to the driver or to exactly one export the *)
(* client has not freed, and to nobody else.                                *)
THEOREM ArraysOwnedOnceHolds == Spec => []ArraysOwnedOnce
<1>1. ASSUME IInv PROVE ArraysOwnedOnce
  <2> DEFINE driver == {buf.ops} \ {NULL}
             client == {e.ops : e \in held}
  <2>1. /\ OwnerInv /\ IsFiniteSet(held) /\ held \in SUBSET Exported /\ NULL \notin Arrays
        /\ buf.ops \in Arrays \cup {NULL} /\ \A e \in held : e.ops \in Arrays
    BY <1>1, RegIoAssumption DEF IInv, TypeInv, Buffer, Exported
  <2>2. driver \cap client = {}
    BY <2>1 DEF OwnerInv
  <2>3. Cardinality(client) = Cardinality(held)
    <3> DEFINE f == [e \in held |-> e.ops]
    <3>1. \A e, g \in held : e.ops = g.ops => e = g
      BY <2>1 DEF OwnerInv
    <3>2. f \in Bijection(held, client)
      BY <3>1 DEF Bijection, Injection, Surjection, IsInjective
    <3>3. ExistsBijection(held, client)
      BY <3>2 DEF ExistsBijection
    <3> HIDE DEF client
    <3> QED BY <2>1, <3>3, FS_Bijection
  <2>4. {a \in Arrays : heap[a] # <<>>} = driver \cup client
    BY <2>1 DEF OwnerInv
  <2> QED BY <2>2, <2>3, <2>4 DEF ArraysOwnedOnce
<1> QED BY <1>1, InvariantHolds, PTL

(* The positions an access has in a sequence.                               *)
At(name, s, id) == {<<name, k>> : k \in {j \in DOMAIN s : s[j].id = id}}

LEMMA AtFacts ==
    ASSUME NEW name, NEW s, NEW id
    PROVE  /\ id \notin Ids(s) => At(name, s, id) = {}
           /\ id \in Ids(s) /\ Distinct(s) => \E x : At(name, s, id) = {x}
<1>1. id \notin Ids(s) => At(name, s, id) = {}
  BY DEF At, Ids
<1>2. ASSUME id \in Ids(s), Distinct(s) PROVE \E x : At(name, s, id) = {x}
  <2>1. PICK k \in DOMAIN s : s[k].id = id
    BY <1>2 DEF Ids
  <2>2. {j \in DOMAIN s : s[j].id = id} = {k}
    BY <1>2, <2>1 DEF Distinct
  <2>3. At(name, s, id) = {<<name, k>>}
    BY <2>2 DEF At
  <2> QED BY <2>3
<1> QED BY <1>1, <1>2

LEMMA PlacesFacts ==
    ASSUME IInv, NEW id
    PROVE  Places(id) = At("device", log, id)
                          \cup (UNION {At(t, txn[t].cmds, id) : t \in Threads})
                          \cup At(NULL, session, id)
                          \cup (UNION {At(e.ops, e.session, id) : e \in held})
                          \cup {<<"gone", k>> : k \in gone \cap {id}}
<1>1. /\ TypeInv /\ CaptureInv /\ session \in Seq(Access)
      /\ heap \in [Arrays -> Seq(Access)] /\ held \in SUBSET Exported
      /\ buf.ops \in Arrays \cup {NULL}
  BY DEF IInv, TypeInv, Buffer
<1>2. At(NULL, session, id) = IF buf.ops = NULL THEN {}
                              ELSE At(NULL, Captured(buf.ops, buf.count), id)
  <2>1. CASE buf.ops = NULL
    <3>1. session = <<>>
      BY <1>1, <2>1 DEF CaptureInv
    <3> QED BY <2>1, <3>1, NoIds, AtFacts
  <2>2. CASE buf.ops # NULL
    <3>1. heap[buf.ops] \in Seq(Access) /\ Holds(buf.ops, buf.count, session)
      BY <1>1, <2>2 DEF CaptureInv
    <3>2. Captured(buf.ops, buf.count) = session
      BY <1>1, <3>1, CapturedFacts
    <3> QED BY <2>2, <3>2
  <2> QED BY <2>1, <2>2
<1>3. ASSUME NEW e \in held PROVE Captured(e.ops, e.count) = e.session
  <2>1. e.ops \in Arrays /\ e.session \in Seq(Access) /\ Holds(e.ops, e.count, e.session)
    BY <1>1 DEF CaptureInv, Exported
  <2> QED BY <1>1, <2>1, CapturedFacts
<1>4. {At(e.ops, Captured(e.ops, e.count), id) : e \in held} = {At(e.ops, e.session, id) : e \in held}
  BY <1>3
<1>5. Places(id) = At("device", log, id)
                     \cup (UNION {At(t, txn[t].cmds, id) : t \in Threads})
                     \cup (IF buf.ops = NULL THEN {}
                           ELSE At(NULL, Captured(buf.ops, buf.count), id))
                     \cup (UNION {At(e.ops, Captured(e.ops, e.count), id) : e \in held})
                     \cup {<<"gone", k>> : k \in gone \cap {id}}
  BY DEF Places, At
<1> QED BY <1>2, <1>4, <1>5

(* Every access the driver accepted is in exactly one place: performed,     *)
(* waiting in a transaction, recorded, exported, or given up.               *)
THEOREM EachAccessInOnePlaceHolds == Spec => []EachAccessInOnePlace
<1>1. ASSUME IInv, NEW id \in 1..issued PROVE Cardinality(Places(id)) = 1
  <2> DEFINE D == At("device", log, id)
             T(t) == At(t, txn[t].cmds, id)
             R == At(NULL, session, id)
             E(e) == At(e.ops, e.session, id)
             G == {<<"gone", k>> : k \in gone \cap {id}}
             Ts == UNION {T(t) : t \in Threads}
             Es == UNION {E(e) : e \in held}
  <2>1. DistinctInv /\ ApartInv /\ Placed(id)
    BY <1>1 DEF IInv, PlaceInv, PlacedInv
  <2>2. /\ id \notin Ids(log) => D = {}
        /\ id \in Ids(log) => \E x : D = {x}
        /\ id \notin Ids(session) => R = {}
        /\ id \in Ids(session) => \E x : R = {x}
        /\ id \notin gone => G = {}
        /\ id \in gone => G = {<<"gone", id>>}
    BY <2>1, AtFacts DEF DistinctInv
  <2>3. ASSUME NEW t \in Threads
        PROVE  /\ id \notin Ids(txn[t].cmds) => T(t) = {}
               /\ id \in Ids(txn[t].cmds) => \E x : T(t) = {x}
    BY <2>1, AtFacts DEF DistinctInv
  <2>4. ASSUME NEW e \in held
        PROVE  /\ id \notin Ids(e.session) => E(e) = {}
               /\ id \in Ids(e.session) => \E x : E(e) = {x}
    BY <2>1, AtFacts DEF DistinctInv
  <2>5. (\A t \in Threads : id \notin Ids(txn[t].cmds)) => Ts = {}
    <3>1. ASSUME \A t \in Threads : id \notin Ids(txn[t].cmds) PROVE \A t \in Threads : T(t) = {}
      BY <2>3, <3>1
    <3> HIDE DEF T
    <3> QED BY <3>1
  <2>6. (\A e \in held : id \notin Ids(e.session)) => Es = {}
    <3>1. ASSUME \A e \in held : id \notin Ids(e.session) PROVE \A e \in held : E(e) = {}
      BY <2>4, <3>1
    <3> HIDE DEF E
    <3> QED BY <3>1
  <2>7. ASSUME NEW t \in Threads, id \in Ids(txn[t].cmds) PROVE \E x : Ts = {x}
    <3>1. \A u \in Threads : u # t => id \notin Ids(txn[u].cmds)
      BY <2>1, <2>7 DEF ApartInv, Apart
    <3>2. \A u \in Threads : u # t => T(u) = {}
      BY <2>3, <3>1
    <3>3. \E x : T(t) = {x}
      BY <2>3, <2>7
    <3> HIDE DEF T
    <3>4. Ts = T(t)
      BY <3>2
    <3> QED BY <3>3, <3>4
  <2>8. ASSUME NEW e \in held, id \in Ids(e.session) PROVE \E x : Es = {x}
    <3>1. \A f \in held : f # e => id \notin Ids(f.session)
      BY <2>1, <2>8 DEF ApartInv, Apart
    <3>2. \A f \in held : f # e => E(f) = {}
      BY <2>4, <3>1
    <3>3. \E x : E(e) = {x}
      BY <2>4, <2>8
    <3> HIDE DEF E
    <3>4. Es = E(e)
      BY <3>2
    <3> QED BY <3>3, <3>4
  <2>9. Places(id) = D \cup Ts \cup R \cup Es \cup G
    BY <1>1, PlacesFacts
  <2> HIDE DEF D, Ts, R, Es, G
  <2>10. \E x : Places(id) = {x}
    <3>1. CASE id \in Ids(log)
      <4>1. /\ id \notin Ids(session) /\ id \notin gone
            /\ \A t \in Threads : id \notin Ids(txn[t].cmds)
            /\ \A e \in held : id \notin Ids(e.session)
        BY <2>1, <3>1 DEF ApartInv, Apart
      <4> QED BY <2>2, <2>5, <2>6, <2>9, <3>1, <4>1
    <3>2. CASE id \in Ids(session)
      <4>1. /\ id \notin Ids(log) /\ id \notin gone
            /\ \A t \in Threads : id \notin Ids(txn[t].cmds)
            /\ \A e \in held : id \notin Ids(e.session)
        BY <2>1, <3>2 DEF ApartInv, Apart
      <4> QED BY <2>2, <2>5, <2>6, <2>9, <3>2, <4>1
    <3>3. CASE id \in gone
      <4>1. /\ id \notin Ids(log) /\ id \notin Ids(session)
            /\ \A t \in Threads : id \notin Ids(txn[t].cmds)
            /\ \A e \in held : id \notin Ids(e.session)
        BY <2>1, <3>3 DEF ApartInv, Apart
      <4> QED BY <2>2, <2>5, <2>6, <2>9, <3>3, <4>1
    <3>4. ASSUME NEW t \in Threads, id \in Ids(txn[t].cmds) PROVE \E x : Places(id) = {x}
      <4>1. /\ id \notin Ids(log) /\ id \notin Ids(session) /\ id \notin gone
            /\ \A e \in held : id \notin Ids(e.session)
        BY <2>1, <3>4 DEF ApartInv, Apart
      <4>2. \E x : Ts = {x}
        BY <2>7, <3>4
      <4> QED BY <2>2, <2>6, <2>9, <4>1, <4>2
    <3>5. ASSUME NEW e \in held, id \in Ids(e.session) PROVE \E x : Places(id) = {x}
      <4>1. /\ id \notin Ids(log) /\ id \notin Ids(session) /\ id \notin gone
            /\ \A t \in Threads : id \notin Ids(txn[t].cmds)
        BY <2>1, <3>5 DEF ApartInv, Apart
      <4>2. \E x : Es = {x}
        BY <2>8, <3>5
      <4> QED BY <2>2, <2>5, <2>9, <4>1, <4>2
    <3> QED BY <2>1, <3>1, <3>2, <3>3, <3>4, <3>5 DEF Placed
  <2> QED BY <2>10, FS_Singleton
<1>2. IInv => EachAccessInOnePlace
  BY <1>1 DEF EachAccessInOnePlace
<1> QED BY <1>2, InvariantHolds, PTL

=============================================================================
