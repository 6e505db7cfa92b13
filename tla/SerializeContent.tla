-------------------------- MODULE SerializeContent --------------------------
(***************************************************************************)
(* What a serialized transaction holds, for any commands, any number of    *)
(* them, any of the formats and sources, and whatever allocation fails:    *)
(* every command once, in its order, and the sequence counts of PM loads.  *)
(***************************************************************************)
EXTENDS SerializeProofs

----------------------------------------------------------------------------
(* The sequence counts of PM loads.                                         *)

(* The operations of the binary begin with commands walked, headers of     *)
(* loads with a START.                                                     *)
FirstsInv ==
    phase \in {"serialize", "done"} => \A k \in DOMAIN out :
        /\ out[k].src # <<>> => out[k].src[1] \in 1..(i - 1)
        /\ out[k].op = "pm_start" => /\ out[k].src # <<>>
                                     /\ cmds[out[k].src[1]].op = "pm_start"

(* The pending block began behind every END walked, and the operations it  *)
(* will move began behind it.                                              *)
BlockInv ==
    phase = "serialize" =>
        /\ bw # NoBlock =>
              /\ bw.src # <<>> /\ bw.src[1] \in 1..(i - 1)
              /\ \A e \in bw.src[1]..(i - 1) : cmds[e].op # "pm_end"
        /\ \A k \in DOMAIN out : k > Len(out) - patches =>
              /\ out[k].op # "pm_start" /\ out[k].src # <<>>
              /\ out[k].src[1] > bw.src[1]

(* In an open load the count is that of the operations behind the header,  *)
(* the pending block included; every other load has met its END.           *)
Counted(s, h) == {l \in DOMAIN s : l > h /\ s[l].src # <<>>}
Pending(b) == IF b = NoBlock THEN 0 ELSE 1
Ended(c, a, n) == \E e \in a..(n - 1) : c[e].op = "pm_end"
OpenInv ==
    phase = "serialize" /\ ~entry /\ ~Nested(cmds) =>
        /\ ~pmActive => loadSeq = 0
        /\ pmActive => /\ hdr \in DOMAIN out /\ out[hdr].op = "pm_start" /\ out[hdr].count = 0
                       /\ \A e \in (out[hdr].src[1] + 1)..(i - 1) :
                             cmds[e].op \notin {"pm_start", "pm_end"}
                       /\ loadSeq = Cardinality(Counted(out, hdr)) + Pending(bw)
        /\ \A k \in DOMAIN out : out[k].op = "pm_start" =>
              (pmActive /\ k = hdr) \/ Ended(cmds, out[k].src[1], i)

(* The count of a load that has met its END is right.                      *)
ClosedInv ==
    phase \in {"serialize", "done"} /\ ~entry /\ ~Nested(cmds) =>
        \A k \in DOMAIN out : out[k].op = "pm_start" =>
            \A b \in 1..(i - 1) : FirstEnd(cmds, out[k].src[1], b) => CountRight(out, k, b)

(* Counting cannot overflow.                                               *)
BoundInv ==
    /\ Len(cmds) <= MaxCmds
    /\ phase = "serialize" => loadSeq < i /\ i <= Len(cmds) + 1
    /\ phase = "done" => i = Len(cmds) + 1

LoadInv == BoundInv /\ FirstsInv /\ BlockInv /\ OpenInv /\ ClosedInv

----------------------------------------------------------------------------
(* Commands and operations.                                                 *)

(* The walk may shorten a command, which stays what it is.                  *)
SameOps(c, d) ==
    /\ DOMAIN d = DOMAIN c /\ Len(d) = Len(c)
    /\ \A a \in DOMAIN c : d[a].op = c[a].op

(* Where loads begin and end depends on the operations of the commands only. *)
LEMMA OpsDecide ==
    ASSUME NEW c, NEW d, SameOps(c, d), Len(c) \in Nat, DOMAIN c = 1..Len(c)
    PROVE  /\ Nested(d) <=> Nested(c)
           /\ \A a \in Nat \ {0}, b \in Nat : FirstEnd(d, a, b) <=> FirstEnd(c, a, b)
<1>1. ASSUME NEW a \in DOMAIN c, NEW b \in DOMAIN c
      PROVE  (\A e \in a..b : d[e].op # "pm_end") <=> (\A e \in a..b : c[e].op # "pm_end")
  <2>1. \A e \in a..b : e \in DOMAIN c
    OBVIOUS
  <2> QED BY <2>1 DEF SameOps
<1>2. Nested(d) <=> Nested(c)
  <2> DEFINE N(x, a, b) == /\ a < b /\ x[a].op = "pm_start" /\ x[b].op = "pm_start"
                           /\ \A e \in a..b : x[e].op # "pm_end"
  <2>1. \A a, b \in DOMAIN c : N(d, a, b) <=> N(c, a, b)
    BY <1>1 DEF SameOps
  <2>2. (Nested(c) <=> \E a, b \in DOMAIN c : N(c, a, b))
        /\ (Nested(d) <=> \E a, b \in DOMAIN d : N(d, a, b))
    BY DEF Nested
  <2>3. DOMAIN d = DOMAIN c
    BY DEF SameOps
  <2> HIDE DEF N
  <2> QED BY <2>1, <2>2, <2>3
<1>3. ASSUME NEW a \in Nat \ {0}, NEW b \in DOMAIN c
      PROVE  (\A e \in a..(b - 1) : d[e].op # "pm_end")
               <=> (\A e \in a..(b - 1) : c[e].op # "pm_end")
  <2>1. \A e \in a..(b - 1) : e \in DOMAIN c
    OBVIOUS
  <2> QED BY <2>1 DEF SameOps
<1>4. ASSUME NEW a \in Nat \ {0}, NEW b \in Nat
      PROVE  FirstEnd(d, a, b) <=> FirstEnd(c, a, b)
  BY <1>3 DEF FirstEnd, SameOps
<1> QED BY <1>2, <1>4

(* The load of a header is the same, and rightly counted, if its operations *)
(* are among the first q, which stay.                                       *)
LEMMA SameLoad ==
    ASSUME NEW s, NEW t, NEW q \in Nat, Len(s) \in Nat, Len(t) \in Nat,
           DOMAIN s = 1..Len(s), DOMAIN t = 1..Len(t),
           q <= Len(s), q <= Len(t), NEW k \in 1..q, NEW b,
           \A l \in 1..q : t[l].src = s[l].src,
           \A l \in DOMAIN s : l > q => ~Before(s[l], b),
           \A l \in DOMAIN t : l > q => ~Before(t[l], b),
           t[k].count = s[k].count
    PROVE  CountRight(s, k, b) => CountRight(t, k, b)
<1>1. \A l \in 1..q : Before(t[l], b) <=> Before(s[l], b)
  BY DEF Before
<1>2. ASSUME NEW l
      PROVE  l \in Load(t, k, b) <=> l \in Load(s, k, b)
  <2>1. ASSUME l \in Load(s, k, b)
        PROVE  l \in Load(t, k, b)
    <3>1. l \in 1..Len(s) /\ l > k
      BY <2>1 DEF Load
    <3>2. PICK m \in l..Len(s) : Before(s[m], b)
      BY <2>1 DEF Load
    <3>3. m \in DOMAIN s /\ ~(m > q)
      BY <3>1, <3>2
    <3>4. m \in l..Len(t) /\ l \in DOMAIN t /\ m \in 1..q
      BY <3>1, <3>2, <3>3
    <3>5. Before(t[m], b)
      BY <1>1, <3>2, <3>4
    <3> QED BY <3>1, <3>4, <3>5 DEF Load
  <2>2. ASSUME l \in Load(t, k, b)
        PROVE  l \in Load(s, k, b)
    <3>1. l \in 1..Len(t) /\ l > k
      BY <2>2 DEF Load
    <3>2. PICK m \in l..Len(t) : Before(t[m], b)
      BY <2>2 DEF Load
    <3>3. m \in DOMAIN t /\ ~(m > q)
      BY <3>1, <3>2
    <3>4. m \in l..Len(s) /\ l \in DOMAIN s /\ m \in 1..q
      BY <3>1, <3>2, <3>3
    <3>5. Before(s[m], b)
      BY <1>1, <3>2, <3>4
    <3> QED BY <3>1, <3>4, <3>5 DEF Load
  <2> QED BY <2>1, <2>2
<1>3. Load(t, k, b) = Load(s, k, b)
  BY <1>2
<1>4. ASSUME NEW l \in Load(s, k, b)
      PROVE  t[l].src = s[l].src
  <2>1. l \in 1..Len(s)
    BY DEF Load
  <2>2. PICK m \in l..Len(s) : Before(s[m], b)
    BY DEF Load
  <2>3. m \in DOMAIN s /\ ~(m > q)
    BY <2>1, <2>2
  <2>4. l \in 1..q
    BY <2>1, <2>2, <2>3
  <2> QED BY <2>4
<1> QED BY <1>3, <1>4 DEF CountRight

(* The load that ends at i holds what is counted, if nothing in it is padding. *)
LEMMA LoadIsCounted ==
    ASSUME NEW s, Len(s) \in Nat, DOMAIN s = 1..Len(s), NEW h \in Nat, NEW b \in Nat,
           \A l \in DOMAIN s : s[l].src # <<>> => s[l].src[1] < b,
           \A l \in Load(s, h, b) : s[l].src # <<>>
    PROVE  Load(s, h, b) = Counted(s, h)
<1>1. ASSUME NEW l \in Counted(s, h)
      PROVE  l \in Load(s, h, b)
  <2>1. l \in DOMAIN s /\ l \in l..Len(s) /\ l > h /\ Before(s[l], b)
    BY DEF Counted, Before
  <2> QED BY <2>1 DEF Load
<1>2. ASSUME NEW l \in Load(s, h, b)
      PROVE  l \in Counted(s, h)
  BY DEF Load, Counted
<1> QED BY <1>1, <1>2

(* One more operation is counted.                                           *)
LEMMA CountOneMore ==
    ASSUME NEW s, NEW t, NEW n \in Nat, NEW h \in Nat, DOMAIN s = 1..n,
           Counted(t, h) = Counted(s, h) \cup {n + 1}
    PROVE  /\ Cardinality(Counted(s, h)) \in Nat
           /\ Cardinality(Counted(t, h)) = Cardinality(Counted(s, h)) + 1
<1>1. Counted(s, h) \in SUBSET (1..n) /\ IsFiniteSet(1..n)
  BY FS_Interval DEF Counted
<1>2. IsFiniteSet(Counted(s, h))
  BY <1>1, FS_Subset
<1>3. n + 1 \notin Counted(s, h)
  BY <1>1
<1> QED BY <1>2, <1>3, FS_CardinalityType, FS_AddElement

----------------------------------------------------------------------------
(* The steps of the walk.                                                   *)

(* While commands are walked: the types the loads depend on.                *)
LEMMA WalkingLoads ==
    ASSUME IInv, LoadInv, phase = "serialize"
    PROVE  /\ Len(out) \in Nat /\ DOMAIN out = 1..Len(out)
           /\ \A k \in DOMAIN out : out[k].src \in Seq(Nat)
           /\ DOMAIN cmds = 1..Len(cmds) /\ Len(cmds) \in Nat
           /\ i \in Nat \ {0} /\ loadSeq \in Nat /\ loadSeq < i /\ hdr \in Nat
           /\ patches \in Nat /\ patches <= Len(out) /\ (bw = NoBlock => patches = 0)
           /\ Len(cmds) \in Nat /\ Len(cmds) <= MaxCmds /\ i <= Len(cmds) + 1
           /\ (More => i \in DOMAIN cmds)
<1>1. /\ out \in Seq(Item) /\ Len(out) \in Nat /\ DOMAIN out = 1..Len(out)
      /\ patches \in Nat /\ patches <= Len(out) /\ (bw = NoBlock => patches = 0)
  BY Walking
<1>2. ASSUME NEW k \in DOMAIN out
      PROVE  out[k].src \in Seq(Nat)
  <2>1. out[k] \in Item
    BY <1>1, SeqFacts
  <2> QED BY <2>1 DEF Item
<1>3. DOMAIN cmds = 1..Len(cmds) /\ Len(cmds) \in Nat
  BY SeqFacts DEF IInv, TypeOK
<1>4. i \in Nat \ {0} /\ loadSeq \in Nat /\ loadSeq < i /\ hdr \in Nat
  BY DEF IInv, TypeOK, LoadInv, BoundInv
<1>5. Len(cmds) <= MaxCmds /\ i <= Len(cmds) + 1
  BY DEF LoadInv, BoundInv
<1>6. More => i \in DOMAIN cmds
  BY <1>3, <1>4 DEF More
<1> QED BY <1>1, <1>2, <1>3, <1>4, <1>5, <1>6

(* A step that takes no END keeps the counts of the loads that are closed,  *)
(* if what it moves or adds began behind their ENDs.                        *)
StaysFrom(q) ==
    /\ q \in Nat /\ q <= Len(out) /\ q <= Len(out')
    /\ Len(out') \in Nat /\ DOMAIN out' = 1..Len(out')
    /\ \A l \in 1..q : /\ out'[l].src = out[l].src /\ out'[l].op = out[l].op
                       /\ out'[l].count = out[l].count
    /\ \A l \in DOMAIN out : l > q =>
          \A b \in 1..(i - 1) : cmds[b].op = "pm_end" => ~Before(out[l], b)
    /\ \A l \in DOMAIN out' : l > q =>
          /\ \A b \in 1..(i - 1) : cmds[b].op = "pm_end" => ~Before(out'[l], b)
          /\ out'[l].op = "pm_start" => out'[l].src[1] = i

NoEndTaken ==
    /\ phase = "serialize" /\ phase' \in {"serialize", "done"} /\ entry' = entry
    /\ SameOps(cmds, cmds')
    /\ i' = i \/ (i' = i + 1 /\ More /\ Op # "pm_end")

LEMMA ClosedStay ==
    ASSUME IInv, LoadInv, NoEndTaken, NEW q, StaysFrom(q)
    PROVE  ClosedInv'
<1>1. /\ Len(out) \in Nat /\ DOMAIN out = 1..Len(out)
      /\ DOMAIN cmds = 1..Len(cmds) /\ Len(cmds) \in Nat
      /\ i \in Nat \ {0} /\ (More => i \in DOMAIN cmds)
  BY WalkingLoads DEF NoEndTaken
<1>2. SUFFICES ASSUME ~entry, ~Nested(cmds), NEW k \in DOMAIN out', out'[k].op = "pm_start",
                      NEW b \in 1..(i' - 1), FirstEnd(cmds', out'[k].src[1], b)
               PROVE  CountRight(out', k, b)
  BY <1>1, OpsDecide DEF ClosedInv, NoEndTaken
<1>3. cmds'[b].op = "pm_end" /\ b > out'[k].src[1] /\ b \in DOMAIN cmds'
  BY <1>2 DEF FirstEnd
<1>4. cmds[b].op = "pm_end" /\ b \in 1..(i - 1)
  BY <1>1, <1>3 DEF NoEndTaken, SameOps, Op
<1>5. k \in 1..q
  BY <1>1, <1>2, <1>3, <1>4 DEF StaysFrom
<1>6. /\ k \in DOMAIN out /\ out[k].op = "pm_start" /\ out'[k].src = out[k].src
      /\ out'[k].count = out[k].count
  BY <1>1, <1>2, <1>5 DEF StaysFrom
<1>7. out[k].src[1] \in 1..(i - 1)
  BY <1>6 DEF LoadInv, FirstsInv, NoEndTaken
<1>8. FirstEnd(cmds, out[k].src[1], b)
  BY <1>1, <1>2, <1>6, <1>7, OpsDecide DEF NoEndTaken
<1>9. CountRight(out, k, b)
  BY <1>2, <1>4, <1>6, <1>8 DEF LoadInv, ClosedInv, NoEndTaken
<1>10. /\ q \in Nat /\ Len(out') \in Nat /\ DOMAIN out' = 1..Len(out')
       /\ q <= Len(out) /\ q <= Len(out') /\ \A l \in 1..q : out'[l].src = out[l].src
       /\ \A l \in DOMAIN out : l > q => ~Before(out[l], b)
       /\ \A l \in DOMAIN out' : l > q => ~Before(out'[l], b)
  BY <1>4 DEF StaysFrom
<1> QED BY <1>1, <1>5, <1>6, <1>9, <1>10, SameLoad

(* The operations begin where they began, or at the command taken.          *)
LEMMA FirstsStay ==
    ASSUME IInv, LoadInv, NoEndTaken,
           \A k \in DOMAIN out' :
              \/ \E l \in DOMAIN out : out'[k].src = out[l].src /\ out'[k].op = out[l].op
              \/ out'[k].op # "pm_start" /\ out'[k].src = <<>>
              \/ out'[k].op # "pm_start" /\ out'[k].src # <<>> /\ out'[k].src[1] \in 1..(i' - 1)
              \/ i' = i + 1 /\ out'[k].src = <<i>> /\ Op = "pm_start"
    PROVE  FirstsInv'
<1>1. /\ DOMAIN cmds = 1..Len(cmds) /\ Len(cmds) \in Nat /\ i <= Len(cmds) + 1
      /\ i \in Nat \ {0} /\ (More => i \in DOMAIN cmds) /\ i' \in Nat \ {0} /\ i <= i'
  BY WalkingLoads DEF NoEndTaken
<1>2. ASSUME NEW a \in 1..(i - 1)
      PROVE  a \in 1..(i' - 1) /\ cmds'[a].op = cmds[a].op
  BY <1>1 DEF NoEndTaken, SameOps
<1>3. ASSUME NEW k \in DOMAIN out'
      PROVE  /\ out'[k].src # <<>> => out'[k].src[1] \in 1..(i' - 1)
             /\ out'[k].op = "pm_start" => out'[k].src # <<>> /\ cmds'[out'[k].src[1]].op = "pm_start"
  <2>1. ASSUME NEW l \in DOMAIN out, out'[k].src = out[l].src, out'[k].op = out[l].op
        PROVE  /\ out'[k].src # <<>> => out'[k].src[1] \in 1..(i' - 1)
               /\ out'[k].op = "pm_start"
                    => out'[k].src # <<>> /\ cmds'[out'[k].src[1]].op = "pm_start"
    <3>1. /\ out[l].src # <<>> => out[l].src[1] \in 1..(i - 1)
          /\ out[l].op = "pm_start" => out[l].src # <<>> /\ cmds[out[l].src[1]].op = "pm_start"
      BY DEF LoadInv, FirstsInv, NoEndTaken
    <3> QED BY <1>2, <2>1, <3>1
  <2>2. ASSUME i' = i + 1, out'[k].src = <<i>>, Op = "pm_start"
        PROVE  /\ out'[k].src # <<>> /\ out'[k].src[1] \in 1..(i' - 1)
               /\ cmds'[out'[k].src[1]].op = "pm_start"
    <3>1. More /\ cmds'[i].op = Op
      BY <1>1, <2>2 DEF NoEndTaken, SameOps, Op
    <3> QED BY <1>1, <2>2, <3>1
  <2> QED BY <2>1, <2>2
<1> QED BY <1>3 DEF FirstsInv

(* What an append does to the operations.                                   *)
AppendedOp ==
    /\ Len(out') = Len(out) + 1 /\ DOMAIN out' = 1..(Len(out) + 1)
    /\ \A k \in 1..Len(out) : out'[k] = out[k]
    /\ out'[Len(out) + 1].src = <<i>> /\ out'[Len(out) + 1].count = 0
    /\ (out'[Len(out) + 1].op = "pm_start" <=> Op = "pm_start")
    /\ i' = i + 1

LEMMA AppendsOp ==
    ASSUME IInv, phase = "serialize", More, AppendItem(ver)
    PROVE  AppendedOp
<1> DEFINE c == Cmd(ver)
           o == [op |-> IF c.op = "blockset" THEN "blockwrite" ELSE c.op,
                 src |-> <<i>>, at |-> size, size |-> SizeOf(ver, c), count |-> 0]
<1>1. out' = Append(out, o) /\ i' = i + 1
  BY DEF AppendItem
<1>2. c.op = Op
  <2>1. cmds[i] \in Command
    BY Walking
  <2> QED BY <2>1 DEF Cmd, Emitted, Op, Command
<1>3. o.src = <<i>> /\ o.count = 0 /\ (o.op = "pm_start" <=> Op = "pm_start")
  BY <1>2
<1> HIDE DEF o
<1>4. out \in Seq(Item) /\ Len(out) \in Nat /\ DOMAIN out = 1..Len(out)
  BY Walking
<1>5. /\ Len(out') = Len(out) + 1 /\ DOMAIN out' = 1..(Len(out) + 1)
      /\ \A k \in 1..Len(out) : out'[k] = out[k]
      /\ out'[Len(out) + 1] = o
  BY <1>1, <1>4
<1> QED BY <1>1, <1>3, <1>5 DEF AppendedOp

LEMMA AppendKeeps ==
    ASSUME IInv, LoadInv, NoEndTaken, AppendedOp
    PROVE  FirstsInv' /\ ClosedInv'
<1> DEFINE n == Len(out)
<1>1. /\ n \in Nat /\ DOMAIN out = 1..n /\ i \in Nat \ {0}
  BY WalkingLoads DEF NoEndTaken
<1>2. /\ Len(out') = n + 1 /\ DOMAIN out' = 1..(n + 1)
      /\ \A k \in 1..n : out'[k] = out[k]
      /\ out'[n + 1].src = <<i>> /\ (out'[n + 1].op = "pm_start" <=> Op = "pm_start")
      /\ i' = i + 1
  BY DEF AppendedOp
<1>3. StaysFrom(n)
  <2>1. ASSUME NEW l \in DOMAIN out', l > n
        PROVE  out'[l].src = <<i>> /\ out'[l].src[1] = i
    <3>1. l = n + 1
      BY <1>1, <1>2, <2>1
    <3> QED BY <1>2, <3>1
  <2>2. ASSUME NEW l \in DOMAIN out', l > n, NEW b \in 1..(i - 1)
        PROVE  ~Before(out'[l], b)
    BY <1>1, <2>1, <2>2 DEF Before
  <2> QED BY <1>1, <1>2, <2>1, <2>2 DEF StaysFrom
<1>4. ClosedInv'
  BY <1>3, ClosedStay
<1> HIDE DEF n
<1>5. ASSUME NEW k \in DOMAIN out'
      PROVE  \/ \E l \in DOMAIN out : out'[k].src = out[l].src /\ out'[k].op = out[l].op
             \/ out'[k].op # "pm_start" /\ out'[k].src # <<>> /\ out'[k].src[1] \in 1..(i' - 1)
             \/ i' = i + 1 /\ out'[k].src = <<i>> /\ Op = "pm_start"
  <2>1. CASE k \in 1..n
    BY <1>1, <1>2, <2>1
  <2>2. CASE k = n + 1
    BY <1>1, <1>2, <2>2
  <2> QED BY <1>1, <1>2, <2>1, <2>2
<1> QED BY <1>4, <1>5, FirstsStay

LEMMA Widens ==
    ASSUME NEW a \in Int, NEW n \in Int, NEW m \in Int, n <= m, NEW e \in a..(n - 1)
    PROVE  e \in a..(m - 1)
OBVIOUS

(* Headers whose load has met its END keep it; commands keep their place.   *)
LEMMA EndedStays ==
    ASSUME IInv, LoadInv, phase = "serialize", SameOps(cmds, cmds'), i' \in {i, i + 1},
           i' \in Nat, NEW a \in Nat \ {0}, Ended(cmds, a, i)
    PROVE  Ended(cmds', a, i')
<1>1. /\ DOMAIN cmds = 1..Len(cmds) /\ Len(cmds) \in Nat /\ i <= Len(cmds) + 1
      /\ i \in Nat \ {0}
  BY WalkingLoads
<1>2. PICK e \in a..(i - 1) : cmds[e].op = "pm_end"
  BY DEF Ended
<1>3. e \in Int /\ a <= e /\ e <= i - 1 /\ i <= i'
  BY <1>1, <1>2
<1>4. e \in DOMAIN cmds
  BY <1>1, <1>3
<1>5. e \in a..(i' - 1)
  <2>1. a \in Int /\ i \in Int /\ i' \in Int
    BY <1>1
  <2> QED BY <1>3, <2>1, Widens
<1> QED BY <1>2, <1>4, <1>5 DEF Ended, SameOps

(* The pending block at an append that is no START.                         *)
LEMMA StepAppendCmdLoads ==
    ASSUME IInv, LoadInv, AppendCmd
    PROVE  LoadInv'
<1> DEFINE n == Len(out)
<1>1. /\ phase = "serialize" /\ phase' = "serialize" /\ More /\ ~FlushDue
      /\ AppendItem(ver) /\ Op \notin {"blockwrite", "pm_start", "pm_end"}
      /\ loadSeq' = (IF pmActive THEN loadSeq + 1 ELSE loadSeq)
      /\ patches' = (IF Op = "ddr_patch" /\ bw # NoBlock THEN patches + 1 ELSE patches)
      /\ cmds' = [cmds EXCEPT ![i] = Cmd(ver)]
      /\ pmActive' = pmActive /\ entry' = entry /\ bw' = bw /\ hdr' = hdr
  BY DEF AppendCmd, Appending, CountInLoad
<1>2. /\ n \in Nat /\ DOMAIN out = 1..n
      /\ \A k \in DOMAIN out : out[k].src \in Seq(Nat)
      /\ DOMAIN cmds = 1..Len(cmds) /\ Len(cmds) \in Nat
      /\ i \in Nat \ {0} /\ loadSeq \in Nat /\ loadSeq < i /\ hdr \in Nat
      /\ patches \in Nat /\ patches <= n /\ (bw = NoBlock => patches = 0)
      /\ Len(cmds) <= MaxCmds /\ i <= Len(cmds) + 1 /\ i \in DOMAIN cmds
  BY <1>1, WalkingLoads
<1>3. SameOps(cmds, cmds')
  <2>1. cmds[i] \in Command /\ cmds \in Seq(Command)
    BY <1>1, Walking DEF IInv, TypeOK
  <2>2. Cmd(ver).op = cmds[i].op /\ Cmd(ver) \in Command
    BY <2>1, Sizes DEF Cmd
  <2>3. cmds' \in Seq(Command) /\ Len(cmds') = Len(cmds) /\ DOMAIN cmds' = DOMAIN cmds
    BY <1>1, <1>2, <2>1, <2>2
  <2> QED BY <1>1, <1>2, <2>2, <2>3 DEF SameOps
<1>4. AppendedOp
  BY <1>1, AppendsOp
<1>5. /\ Len(out') = n + 1 /\ DOMAIN out' = 1..(n + 1)
      /\ \A k \in 1..n : out'[k] = out[k]
      /\ out'[n + 1].src = <<i>> /\ out'[n + 1].op # "pm_start"
      /\ i' = i + 1
  BY <1>1, <1>4 DEF AppendedOp
<1>6. NoEndTaken
  BY <1>1, <1>3, <1>5 DEF NoEndTaken
<1>7. FirstsInv' /\ ClosedInv'
  BY <1>4, <1>6, AppendKeeps
<1> HIDE DEF n
<1>8. BoundInv'
  BY <1>1, <1>2, <1>3, <1>5 DEF BoundInv, SameOps
<1>9. BlockInv'
  <2>1. CASE bw = NoBlock
    <3>1. patches = 0
      BY <1>2, <2>1
    <3>2. patches' = 0
      BY <1>1, <2>1, <3>1
    <3> QED BY <1>1, <1>2, <1>5, <2>1, <3>2 DEF BlockInv
  <2>2. CASE bw # NoBlock
    <3>1. Op = "ddr_patch" /\ patches' = patches + 1
      BY <1>1, <2>2 DEF FlushDue
    <3>2. /\ bw.src # <<>> /\ bw.src[1] \in 1..(i - 1)
          /\ \A e \in bw.src[1]..(i - 1) : cmds[e].op # "pm_end"
          /\ \A k \in 1..n : k > n - patches =>
                /\ out[k].op # "pm_start" /\ out[k].src # <<>> /\ out[k].src[1] > bw.src[1]
      BY <1>1, <1>2, <2>2 DEF LoadInv, BlockInv, n
    <3>3. bw'.src[1] \in 1..(i' - 1)
      BY <1>1, <1>2, <1>5, <3>2
    <3>4. \A e \in bw'.src[1]..(i' - 1) : cmds'[e].op # "pm_end"
      BY <1>1, <1>2, <1>3, <1>5, <3>2 DEF SameOps, Op
    <3>5. ASSUME NEW k \in DOMAIN out', k > Len(out') - patches'
          PROVE  out'[k].op # "pm_start" /\ out'[k].src # <<>> /\ out'[k].src[1] > bw'.src[1]
      <4>1. CASE k \in 1..n
        <5>1. k > n - patches
          BY <1>2, <1>5, <3>1, <3>5
        <5> QED BY <1>1, <1>5, <3>2, <4>1, <5>1
      <4>2. CASE k = n + 1
        BY <1>1, <1>2, <1>5, <3>2, <4>2
      <4> QED BY <1>2, <1>5, <4>1, <4>2
    <3> QED BY <1>1, <3>2, <3>3, <3>4, <3>5 DEF BlockInv
  <2> QED BY <2>1, <2>2
<1>10. OpenInv'
  <2>1. SUFFICES ASSUME ~entry, ~Nested(cmds)
                 PROVE  /\ ~pmActive' => loadSeq' = 0
                        /\ pmActive' =>
                             /\ hdr' \in DOMAIN out' /\ out'[hdr'].op = "pm_start"
                             /\ out'[hdr'].count = 0
                             /\ \A e \in (out'[hdr'].src[1] + 1)..(i' - 1) :
                                   cmds'[e].op \notin {"pm_start", "pm_end"}
                             /\ loadSeq' = Cardinality(Counted(out', hdr')) + Pending(bw')
                        /\ \A k \in DOMAIN out' : out'[k].op = "pm_start" =>
                             (pmActive' /\ k = hdr') \/ Ended(cmds', out'[k].src[1], i')
    BY <1>1, <1>2, <1>3, OpsDecide DEF OpenInv
  <2>2. /\ ~pmActive => loadSeq = 0
        /\ pmActive => /\ hdr \in 1..n /\ out[hdr].op = "pm_start" /\ out[hdr].count = 0
                       /\ \A e \in (out[hdr].src[1] + 1)..(i - 1) :
                             cmds[e].op \notin {"pm_start", "pm_end"}
                       /\ loadSeq = Cardinality(Counted(out, hdr)) + Pending(bw)
        /\ \A k \in 1..n : out[k].op = "pm_start" =>
              (pmActive /\ k = hdr) \/ Ended(cmds, out[k].src[1], i)
    BY <1>1, <1>2, <2>1 DEF LoadInv, OpenInv
  <2>3. \A k \in 1..n : out[k].op = "pm_start" => out[k].src[1] \in 1..(i - 1)
    BY <1>1, <1>2 DEF LoadInv, FirstsInv
  <2>4. ~pmActive' => loadSeq' = 0
    BY <1>1, <2>2
  <2>5. ASSUME pmActive
        PROVE  /\ hdr' \in DOMAIN out' /\ out'[hdr'].op = "pm_start" /\ out'[hdr'].count = 0
               /\ out'[hdr'].src[1] = out[hdr].src[1]
    BY <1>1, <1>2, <1>5, <2>2, <2>5
  <2>6. ASSUME pmActive, NEW e \in (out'[hdr'].src[1] + 1)..(i' - 1)
        PROVE  cmds'[e].op \notin {"pm_start", "pm_end"}
    <3>1. out[hdr].src[1] \in 1..(i - 1) /\ out'[hdr'].src[1] = out[hdr].src[1]
      BY <2>2, <2>3, <2>5, <2>6
    <3>2. e \in DOMAIN cmds /\ (e = i \/ e \in (out[hdr].src[1] + 1)..(i - 1))
      <4> DEFINE x == out[hdr].src[1]
      <4>1. e \in (x + 1)..(i' - 1) /\ x \in 1..(i - 1)
        BY <2>6, <3>1
      <4> HIDE DEF x
      <4>2. e \in (x + 1)..i
        BY <1>2, <1>5, <4>1
      <4>3. e \in 1..Len(cmds) /\ (e = i \/ e \in (x + 1)..(i - 1))
        BY <1>2, <4>1, <4>2
      <4> QED BY <1>2, <4>3 DEF x
    <3> QED BY <1>1, <1>3, <2>2, <2>6, <3>2 DEF SameOps, Op
  <2>7. ASSUME pmActive
        PROVE  loadSeq' = Cardinality(Counted(out', hdr')) + Pending(bw')
    <3>1. Counted(out', hdr) = Counted(out, hdr) \cup {n + 1}
      <4>1. \A l \in 1..n : l \in Counted(out', hdr) <=> l \in Counted(out, hdr)
        BY <1>2, <1>5 DEF Counted
      <4>2. n + 1 \in Counted(out', hdr)
        <5>1. n + 1 \in DOMAIN out' /\ n + 1 > hdr /\ out'[n + 1].src # <<>>
          BY <1>2, <1>5, <2>2, <2>7
        <5> QED BY <5>1 DEF Counted
      <4>3. Counted(out', hdr) \subseteq 1..(n + 1) /\ Counted(out, hdr) \subseteq 1..n
        BY <1>2, <1>5 DEF Counted
      <4> QED BY <1>2, <4>1, <4>2, <4>3
    <3>2. /\ Cardinality(Counted(out, hdr)) \in Nat
          /\ Cardinality(Counted(out', hdr)) = Cardinality(Counted(out, hdr)) + 1
      <4>1. n \in Nat /\ hdr \in Nat /\ DOMAIN out = 1..n
        BY <1>2
      <4> QED BY <3>1, <4>1, CountOneMore
    <3>3. Pending(bw) \in Nat
      BY DEF Pending
    <3> QED BY <1>1, <2>2, <2>7, <3>2, <3>3
  <2>8. ASSUME NEW k \in DOMAIN out', out'[k].op = "pm_start"
        PROVE  (pmActive' /\ k = hdr') \/ Ended(cmds', out'[k].src[1], i')
    <3>1. k \in 1..n /\ out'[k] = out[k] /\ out[k].op = "pm_start"
      BY <1>2, <1>5, <2>8
    <3>2. out[k].src[1] \in Nat \ {0}
      BY <1>2, <2>3, <3>1
    <3>3. (pmActive /\ k = hdr) \/ Ended(cmds, out[k].src[1], i)
      BY <2>2, <3>1
    <3>4. Ended(cmds, out[k].src[1], i) => Ended(cmds', out[k].src[1], i')
      <4>1. i' \in {i, i + 1} /\ i' \in Nat
        BY <1>2, <1>5
      <4> QED BY <1>1, <1>3, <3>2, <4>1, EndedStays
    <3> QED BY <1>1, <3>1, <3>3, <3>4
  <2> QED BY <1>1, <2>4, <2>5, <2>6, <2>7, <2>8
<1> QED BY <1>7, <1>8, <1>9, <1>10 DEF LoadInv

LEMMA StepPmStartLoads ==
    ASSUME IInv, LoadInv, AppendPmStart
    PROVE  LoadInv'
<1> DEFINE n == Len(out)
<1>1. /\ phase = "serialize" /\ phase' = "serialize" /\ More /\ ~FlushDue
      /\ AppendItem(ver) /\ Op = "pm_start" /\ loadSeq' = loadSeq
      /\ patches' = patches /\ cmds' = cmds /\ pmActive' = TRUE /\ entry' = entry
      /\ bw' = bw /\ bw = NoBlock /\ hdr' = n + 1
  BY DEF AppendPmStart, Appending, FlushDue
<1>2. /\ n \in Nat /\ DOMAIN out = 1..n
      /\ DOMAIN cmds = 1..Len(cmds) /\ Len(cmds) \in Nat
      /\ i \in Nat \ {0} /\ loadSeq \in Nat /\ loadSeq < i
      /\ patches = 0 /\ Len(cmds) <= MaxCmds /\ i <= Len(cmds) + 1 /\ i \in DOMAIN cmds
  BY <1>1, WalkingLoads
<1>3. SameOps(cmds, cmds')
  BY <1>1 DEF SameOps
<1>4. AppendedOp
  BY <1>1, AppendsOp
<1>5. /\ Len(out') = n + 1 /\ DOMAIN out' = 1..(n + 1)
      /\ \A k \in 1..n : out'[k] = out[k]
      /\ out'[n + 1].src = <<i>> /\ out'[n + 1].op = "pm_start" /\ out'[n + 1].count = 0
      /\ i' = i + 1
  BY <1>1, <1>4 DEF AppendedOp
<1>6. NoEndTaken
  BY <1>1, <1>3, <1>5 DEF NoEndTaken
<1>7. FirstsInv' /\ ClosedInv'
  BY <1>4, <1>6, AppendKeeps
<1> HIDE DEF n
<1>8. BoundInv'
  BY <1>1, <1>2, <1>5 DEF BoundInv
<1>9. BlockInv'
  BY <1>1, <1>2, <1>5 DEF BlockInv
<1>10. OpenInv'
  <2>1. SUFFICES ASSUME ~entry, ~Nested(cmds)
                 PROVE  /\ hdr' \in DOMAIN out' /\ out'[hdr'].op = "pm_start"
                        /\ out'[hdr'].count = 0
                        /\ \A e \in (out'[hdr'].src[1] + 1)..(i' - 1) :
                              cmds'[e].op \notin {"pm_start", "pm_end"}
                        /\ loadSeq' = Cardinality(Counted(out', hdr')) + Pending(bw')
                        /\ \A k \in DOMAIN out' : out'[k].op = "pm_start" =>
                             k = hdr' \/ Ended(cmds', out'[k].src[1], i')
    BY <1>1 DEF OpenInv
  <2>2. /\ ~pmActive => loadSeq = 0
        /\ pmActive => /\ hdr \in 1..n /\ out[hdr].op = "pm_start"
                       /\ \A e \in (out[hdr].src[1] + 1)..(i - 1) :
                             cmds[e].op \notin {"pm_start", "pm_end"}
        /\ \A k \in 1..n : out[k].op = "pm_start" =>
              (pmActive /\ k = hdr) \/ Ended(cmds, out[k].src[1], i)
    BY <1>1, <1>2, <2>1 DEF LoadInv, OpenInv
  <2>3. \A k \in 1..n : out[k].op = "pm_start" =>
           out[k].src[1] \in 1..(i - 1) /\ cmds[out[k].src[1]].op = "pm_start"
    BY <1>1, <1>2 DEF LoadInv, FirstsInv
  <2>4. ~pmActive
    <3>1. SUFFICES ASSUME pmActive PROVE Nested(cmds)
      BY <2>1
    <3>2. PICK a \in 1..(i - 1) : a = out[hdr].src[1] /\ cmds[a].op = "pm_start"
      BY <2>2, <2>3, <3>1
    <3>3. \A e \in (a + 1)..(i - 1) : cmds[e].op # "pm_end"
      BY <2>2, <3>1, <3>2
    <3>4. \A e \in a..i : cmds[e].op # "pm_end"
      <4>1. cmds[i].op = "pm_start"
        BY <1>1, <1>2 DEF Op
      <4>2. \A e \in a..i : e = a \/ e = i \/ e \in (a + 1)..(i - 1)
        BY <1>1, <1>2, <3>2
      <4> QED BY <3>2, <3>3, <4>1, <4>2
    <3>5. a \in DOMAIN cmds /\ a < i /\ cmds[i].op = "pm_start"
      BY <1>1, <1>2, <3>2 DEF Op
    <3> QED BY <1>2, <3>2, <3>4, <3>5 DEF Nested
  <2>5. hdr' \in DOMAIN out' /\ out'[hdr'].op = "pm_start" /\ out'[hdr'].count = 0
        /\ out'[hdr'].src[1] = i
    BY <1>1, <1>2, <1>5
  <2>6. \A e \in (out'[hdr'].src[1] + 1)..(i' - 1) : cmds'[e].op \notin {"pm_start", "pm_end"}
    BY <1>2, <1>5, <2>5
  <2>7. loadSeq' = Cardinality(Counted(out', hdr')) + Pending(bw')
    <3>1. Counted(out', hdr') = {}
      BY <1>1, <1>2, <1>5 DEF Counted
    <3>2. Cardinality(Counted(out', hdr')) = 0
      BY <3>1, FS_EmptySet
    <3>3. Pending(bw') = 0
      BY <1>1 DEF Pending
    <3> QED BY <1>1, <2>2, <2>4, <3>2, <3>3
  <2>8. ASSUME NEW k \in DOMAIN out', out'[k].op = "pm_start"
        PROVE  k = hdr' \/ Ended(cmds', out'[k].src[1], i')
    <3>1. CASE k = n + 1
      BY <1>1, <3>1
    <3>2. CASE k \in 1..n
      <4>1. out'[k] = out[k] /\ out[k].op = "pm_start"
        BY <1>5, <2>8, <3>2
      <4>2. out[k].src[1] \in Nat \ {0} /\ Ended(cmds, out[k].src[1], i)
        BY <1>2, <2>2, <2>3, <2>4, <3>2, <4>1
      <4>3. i' \in {i, i + 1} /\ i' \in Nat
        BY <1>2, <1>5
      <4> QED BY <1>1, <1>3, <4>1, <4>2, <4>3, EndedStays
    <3> QED BY <1>2, <1>5, <3>1, <3>2
  <2> QED BY <2>5, <2>6, <2>7, <2>8
<1> QED BY <1>7, <1>8, <1>9, <1>10 DEF LoadInv

(* A BLOCKWRITE is counted when it is begun; what continues it is not.      *)
LEMMA StepBlockLoads ==
    ASSUME IInv, LoadInv, StartBlock \/ Coalesce
    PROVE  LoadInv'
<1> DEFINE n == Len(out)
<1>1. /\ phase = "serialize" /\ phase' = "serialize" /\ More /\ Op = "blockwrite"
      /\ out' = out /\ patches' = patches /\ cmds' = cmds /\ pmActive' = pmActive
      /\ entry' = entry /\ hdr' = hdr /\ i' = i + 1
      /\ \/ bw = NoBlock /\ bw'.src = <<i>> /\ loadSeq' = (IF pmActive THEN loadSeq + 1 ELSE loadSeq)
         \/ bw # NoBlock /\ bw'.src = Append(bw.src, i) /\ loadSeq' = loadSeq
  BY DEF StartBlock, Coalesce, Appending, CountInLoad, record
<1>2. /\ n \in Nat /\ DOMAIN out = 1..n
      /\ DOMAIN cmds = 1..Len(cmds) /\ Len(cmds) \in Nat
      /\ i \in Nat \ {0} /\ loadSeq \in Nat /\ loadSeq < i
      /\ patches \in Nat /\ patches <= n /\ (bw = NoBlock => patches = 0)
      /\ Len(cmds) <= MaxCmds /\ i <= Len(cmds) + 1 /\ i \in DOMAIN cmds
      /\ cmds[i].op = "blockwrite"
  BY <1>1, WalkingLoads DEF Op
<1>3. SameOps(cmds, cmds')
  BY <1>1 DEF SameOps
<1>4. NoEndTaken
  BY <1>1, <1>3 DEF NoEndTaken
<1>5. FirstsInv'
  BY <1>1, <1>4, FirstsStay
<1>6. ClosedInv'
  <2>1. StaysFrom(n)
    BY <1>1, <1>2 DEF StaysFrom
  <2> QED BY <1>4, <2>1, ClosedStay
<1> HIDE DEF n
<1>7. BoundInv'
  BY <1>1, <1>2 DEF BoundInv
<1>8. /\ bw'.src # <<>> /\ bw'.src[1] \in 1..i /\ bw' # NoBlock
      /\ (bw = NoBlock => bw'.src[1] = i) /\ (bw # NoBlock => bw'.src[1] = bw.src[1])
      /\ (bw # NoBlock => bw.src[1] \in 1..(i - 1))
  <2>1. CASE bw = NoBlock
    <3>1. bw'.src = <<i>>
      BY <1>1, <2>1
    <3> QED BY <1>2, <2>1, <3>1 DEF NoBlock
  <2>2. CASE bw # NoBlock
    <3>1. bw'.src = Append(bw.src, i) /\ bw.src \in Seq(Nat) /\ i \in Nat
      BY <1>1, <1>2, <2>2 DEF IInv, TypeOK
    <3>2. bw.src # <<>> /\ bw.src[1] \in 1..(i - 1)
      BY <1>1, <2>2 DEF LoadInv, BlockInv
    <3>3. Len(bw.src) \in Nat /\ Len(bw.src) > 0
      BY <3>1, <3>2, SeqFacts
    <3>4. Len(bw'.src) = Len(bw.src) + 1 /\ bw'.src[1] = bw.src[1] /\ bw'.src \in Seq(Nat)
      BY <3>1, <3>3
    <3>5. bw'.src # <<>>
      BY <3>3, <3>4, SeqFacts
    <3> QED BY <1>2, <2>2, <3>2, <3>4, <3>5 DEF NoBlock
  <2> QED BY <2>1, <2>2
<1>9. BlockInv'
  <2>1. ASSUME NEW e \in bw'.src[1]..(i' - 1)
        PROVE  cmds'[e].op # "pm_end"
    <3>1. CASE e = i
      BY <1>1, <1>2, <3>1
    <3>2. CASE e # i
      <4>1. bw # NoBlock
        <5>1. SUFFICES ASSUME bw = NoBlock PROVE FALSE
          OBVIOUS
        <5>2. e \in i..(i + 1 - 1)
          BY <1>1, <1>8, <2>1, <5>1
        <5> QED BY <1>2, <3>2, <5>2
      <4>2. bw.src[1] \in 1..(i - 1) /\ bw'.src[1] = bw.src[1] /\ i' = i + 1
        BY <1>1, <1>8, <4>1
      <4>3. e \in bw.src[1]..(i - 1)
        <5> DEFINE f == bw.src[1]
        <5>1. e \in f..(i' - 1)
          BY <2>1, <4>2
        <5>2. f \in Int /\ i \in Int /\ i' = i + 1 /\ e # i
          BY <1>2, <3>2, <4>2
        <5> HIDE DEF f
        <5>3. e \in f..(i - 1)
          BY <5>1, <5>2
        <5> QED BY <5>3 DEF f
      <4> QED BY <1>1, <4>1, <4>3 DEF LoadInv, BlockInv
    <3> QED BY <3>1, <3>2
  <2>2. ASSUME NEW k \in DOMAIN out, k > Len(out) - patches
        PROVE  out[k].op # "pm_start" /\ out[k].src # <<>> /\ out[k].src[1] > bw'.src[1]
    <3>1. bw # NoBlock
      BY <1>2, <2>2 DEF n
    <3>2. out[k].op # "pm_start" /\ out[k].src # <<>> /\ out[k].src[1] > bw.src[1]
      BY <1>1, <2>2 DEF LoadInv, BlockInv
    <3> QED BY <1>8, <3>1, <3>2
  <2>3. bw'.src[1] \in 1..(i' - 1)
    BY <1>1, <1>2, <1>8
  <2> QED BY <1>1, <1>8, <2>1, <2>2, <2>3 DEF BlockInv
<1>10. OpenInv'
  <2>1. SUFFICES ASSUME ~entry, ~Nested(cmds)
                 PROVE  /\ ~pmActive => loadSeq' = 0
                        /\ pmActive =>
                             /\ hdr \in DOMAIN out /\ out[hdr].op = "pm_start"
                             /\ out[hdr].count = 0
                             /\ \A e \in (out[hdr].src[1] + 1)..(i' - 1) :
                                   cmds[e].op \notin {"pm_start", "pm_end"}
                             /\ loadSeq' = Cardinality(Counted(out, hdr)) + Pending(bw')
                        /\ \A k \in DOMAIN out : out[k].op = "pm_start" =>
                             (pmActive /\ k = hdr) \/ Ended(cmds, out[k].src[1], i')
    BY <1>1 DEF OpenInv
  <2>2. /\ ~pmActive => loadSeq = 0
        /\ pmActive => /\ hdr \in DOMAIN out /\ out[hdr].op = "pm_start" /\ out[hdr].count = 0
                       /\ \A e \in (out[hdr].src[1] + 1)..(i - 1) :
                             cmds[e].op \notin {"pm_start", "pm_end"}
                       /\ loadSeq = Cardinality(Counted(out, hdr)) + Pending(bw)
        /\ \A k \in DOMAIN out : out[k].op = "pm_start" =>
              (pmActive /\ k = hdr) \/ Ended(cmds, out[k].src[1], i)
    BY <1>1, <2>1 DEF LoadInv, OpenInv
  <2>3. \A k \in DOMAIN out : out[k].op = "pm_start" => out[k].src[1] \in 1..(i - 1)
    BY <1>1, <1>2 DEF LoadInv, FirstsInv
  <2>4. ~pmActive => loadSeq' = 0
    BY <1>1, <2>2
  <2>5. ASSUME pmActive, NEW e \in (out[hdr].src[1] + 1)..(i' - 1)
        PROVE  cmds[e].op \notin {"pm_start", "pm_end"}
    <3>1. out[hdr].src[1] \in 1..(i - 1)
      BY <2>2, <2>3, <2>5
    <3>2. e = i \/ e \in (out[hdr].src[1] + 1)..(i - 1)
      BY <1>1, <1>2, <2>5, <3>1
    <3> QED BY <1>2, <2>2, <2>5, <3>2
  <2>6. ASSUME pmActive
        PROVE  loadSeq' = Cardinality(Counted(out, hdr)) + Pending(bw')
    <3>1. IsFiniteSet(Counted(out, hdr))
      <4>1. Counted(out, hdr) \in SUBSET (1..n) /\ IsFiniteSet(1..n)
        BY <1>2, FS_Interval DEF Counted
      <4> QED BY <4>1, FS_Subset
    <3>2. Cardinality(Counted(out, hdr)) \in Nat
      BY <3>1, FS_CardinalityType
    <3>3. Pending(bw') = 1
      BY <1>8 DEF Pending
    <3>4. CASE bw = NoBlock
      <4>1. loadSeq' = loadSeq + 1 /\ Pending(bw) = 0
        BY <1>1, <2>6, <3>4 DEF Pending
      <4> QED BY <2>2, <2>6, <3>2, <3>3, <4>1
    <3>5. CASE bw # NoBlock
      <4>1. loadSeq' = loadSeq /\ Pending(bw) = 1
        BY <1>1, <2>6, <3>5 DEF Pending
      <4> QED BY <2>2, <2>6, <3>2, <3>3, <4>1
    <3> QED BY <3>4, <3>5
  <2>7. ASSUME NEW k \in DOMAIN out, out[k].op = "pm_start", ~(pmActive /\ k = hdr)
        PROVE  Ended(cmds, out[k].src[1], i')
    <3>1. Ended(cmds, out[k].src[1], i) /\ out[k].src[1] \in Nat \ {0}
      BY <1>2, <2>2, <2>3, <2>7
    <3>2. i' \in {i, i + 1} /\ i' \in Nat
      BY <1>1, <1>2
    <3> QED BY <1>1, <1>3, <3>1, <3>2, EndedStays
  <2> QED BY <2>2, <2>4, <2>5, <2>6, <2>7
<1> QED BY <1>5, <1>6, <1>7, <1>9, <1>10 DEF LoadInv

(* An END completes the open load: what is counted is what lies behind its  *)
(* header, and every other load has met an END before.                      *)
LEMMA StepPmEndLoads ==
    ASSUME IInv, LoadInv, AppendPmEnd, hdr # 0, MaxCmds < SEQ_COUNTS
    PROVE  LoadInv'
<1> DEFINE n == Len(out)
<1>1. /\ phase = "serialize" /\ phase' = "serialize" /\ More /\ Op = "pm_end"
      /\ out' = (IF loadSeq = 0 THEN out ELSE [out EXCEPT ![hdr].count = loadSeq % SEQ_COUNTS])
      /\ patches' = patches /\ cmds' = cmds /\ pmActive' = FALSE /\ loadSeq' = 0
      /\ entry' = entry /\ bw' = bw /\ bw = NoBlock /\ i' = i + 1
  BY DEF AppendPmEnd, Appending, FlushDue
<1>2. /\ n \in Nat /\ DOMAIN out = 1..n
      /\ DOMAIN cmds = 1..Len(cmds) /\ Len(cmds) \in Nat
      /\ i \in Nat \ {0} /\ loadSeq \in Nat /\ loadSeq < i /\ hdr \in Nat
      /\ patches = 0 /\ Len(cmds) <= MaxCmds /\ i <= Len(cmds) + 1 /\ i \in DOMAIN cmds
      /\ cmds[i].op = "pm_end" /\ out \in Seq(Item)
  BY <1>1, WalkingLoads, Walking DEF Op
<1>3. SameOps(cmds, cmds')
  BY <1>1 DEF SameOps
<1>4. /\ Len(out') = n /\ DOMAIN out' = 1..n
      /\ \A k \in 1..n : /\ out'[k].src = out[k].src /\ out'[k].op = out[k].op
                         /\ k # hdr => out'[k].count = out[k].count
      /\ hdr \in 1..n => out'[hdr].count = IF loadSeq = 0 THEN out[hdr].count
                                           ELSE loadSeq % SEQ_COUNTS
  <2>1. ASSUME NEW k \in 1..n, NEW c
        PROVE  /\ [out[k] EXCEPT !.count = c].src = out[k].src
               /\ [out[k] EXCEPT !.count = c].op = out[k].op
               /\ [out[k] EXCEPT !.count = c].count = c
    <3>1. out[k] \in Item
      BY <1>2, SeqFacts
    <3> QED BY <3>1 DEF Item
  <2>2. CASE loadSeq = 0
    BY <1>1, <1>2, <2>2
  <2>3. CASE loadSeq # 0
    <3> DEFINE c == loadSeq % SEQ_COUNTS
    <3>1. out' = [out EXCEPT ![hdr] = [out[hdr] EXCEPT !.count = c]]
      BY <1>1, <2>3
    <3>2. Len(out') = n /\ DOMAIN out' = 1..n
      BY <1>2, <3>1
    <3>3. \A k \in 1..n : out'[k] = IF k = hdr THEN [out[k] EXCEPT !.count = c] ELSE out[k]
      BY <1>2, <3>1
    <3> HIDE DEF c
    <3>4. \A k \in 1..n : /\ out'[k].src = out[k].src /\ out'[k].op = out[k].op
                          /\ k # hdr => out'[k].count = out[k].count
                          /\ k = hdr => out'[k].count = c
      <4>1. ASSUME NEW k \in 1..n
            PROVE  /\ out'[k].src = out[k].src /\ out'[k].op = out[k].op
                   /\ k # hdr => out'[k].count = out[k].count
                   /\ k = hdr => out'[k].count = c
        <5>1. CASE k = hdr
          <6>1. out'[k] = [out[k] EXCEPT !.count = c]
            BY <3>3, <5>1
          <6> QED BY <2>1, <5>1, <6>1
        <5>2. CASE k # hdr
          BY <3>3, <5>2
        <5> QED BY <5>1, <5>2
      <4> QED BY <4>1
    <3> QED BY <2>3, <3>2, <3>4 DEF c
  <2> QED BY <2>2, <2>3
<1> HIDE DEF n
<1>5. BoundInv' /\ BlockInv'
  BY <1>1, <1>2, <1>4 DEF BoundInv, BlockInv
<1>6. FirstsInv'
  <2>1. \A k \in 1..n : /\ out[k].src # <<>> => out[k].src[1] \in 1..(i - 1)
                        /\ out[k].op = "pm_start" => /\ out[k].src # <<>>
                                                     /\ cmds[out[k].src[1]].op = "pm_start"
    BY <1>1, <1>2 DEF LoadInv, FirstsInv
  <2>2. \A a \in 1..(i - 1) : a \in 1..(i' - 1)
    BY <1>1, <1>2
  <2> QED BY <1>1, <1>4, <2>1, <2>2 DEF FirstsInv
<1>7. \A k \in 1..n : /\ out[k].src # <<>> => out[k].src[1] \in 1..(i - 1)
                      /\ out[k].op = "pm_start" => /\ out[k].src # <<>>
                                                   /\ out[k].src[1] \in 1..(i - 1)
  BY <1>1, <1>2 DEF LoadInv, FirstsInv
<1>8. ASSUME ~entry, ~Nested(cmds)
      PROVE  /\ ~pmActive => loadSeq = 0
             /\ pmActive => /\ hdr \in 1..n /\ out[hdr].op = "pm_start" /\ out[hdr].count = 0
                            /\ \A e \in (out[hdr].src[1] + 1)..(i - 1) : cmds[e].op # "pm_end"
                            /\ loadSeq = Cardinality(Counted(out, hdr))
             /\ \A k \in 1..n : out[k].op = "pm_start" =>
                   (pmActive /\ k = hdr) \/ Ended(cmds, out[k].src[1], i)
  <2>1. Pending(bw) = 0 /\ Cardinality(Counted(out, hdr)) \in Nat
    <3>1. Counted(out, hdr) \in SUBSET (1..n) /\ IsFiniteSet(1..n)
      BY <1>2, FS_Interval DEF Counted
    <3> QED BY <1>1, <3>1, FS_Subset, FS_CardinalityType DEF Pending
  <2>2. /\ ~pmActive => loadSeq = 0
        /\ pmActive => /\ hdr \in 1..n /\ out[hdr].op = "pm_start" /\ out[hdr].count = 0
                       /\ \A e \in (out[hdr].src[1] + 1)..(i - 1) :
                             cmds[e].op \notin {"pm_start", "pm_end"}
                       /\ loadSeq = Cardinality(Counted(out, hdr)) + Pending(bw)
        /\ \A k \in 1..n : out[k].op = "pm_start" =>
              (pmActive /\ k = hdr) \/ Ended(cmds, out[k].src[1], i)
    BY <1>1, <1>2, <1>8 DEF LoadInv, OpenInv
  <2> QED BY <2>1, <2>2
<1>9. OpenInv'
  <2>1. ASSUME ~entry, ~Nested(cmds), NEW k \in 1..n, out[k].op = "pm_start"
        PROVE  Ended(cmds, out[k].src[1], i')
    <3>1. out[k].src[1] \in Nat \ {0} /\ out[k].src[1] <= i
      BY <1>2, <1>7, <2>1
    <3>2. i \in out[k].src[1]..(i' - 1)
      BY <1>1, <1>2, <3>1
    <3> QED BY <1>2, <3>2 DEF Ended
  <2> QED BY <1>1, <1>4, <2>1 DEF OpenInv
<1>10. ClosedInv'
  <2>1. SUFFICES ASSUME ~entry, ~Nested(cmds), NEW k \in 1..n, out[k].op = "pm_start",
                        NEW b \in 1..i, FirstEnd(cmds, out[k].src[1], b)
                 PROVE  CountRight(out', k, b)
    <3>1. ASSUME NEW b \in 1..(i' - 1)
          PROVE  b \in 1..i
      <4>1. i' - 1 = i
        BY <1>1, <1>2
      <4> QED BY <4>1
    <3>2. SUFFICES ASSUME ~entry', ~Nested(cmds'), NEW k \in DOMAIN out', out'[k].op = "pm_start",
                          NEW b \in 1..(i' - 1), FirstEnd(cmds', out'[k].src[1], b)
                   PROVE  CountRight(out', k, b)
      BY DEF ClosedInv
    <3>3. ~entry /\ ~Nested(cmds) /\ k \in 1..n
      BY <1>1, <1>4, <3>2
    <3>4. out[k].op = "pm_start" /\ FirstEnd(cmds, out[k].src[1], b)
      BY <1>1, <1>4, <3>2, <3>3
    <3> QED BY <2>1, <3>1, <3>3, <3>4
  <2>2. PICK a \in 1..(i - 1) : a = out[k].src[1]
    BY <1>7, <2>1
  <2>3. b > a /\ cmds[b].op = "pm_end" /\ \A e \in a..(b - 1) : cmds[e].op # "pm_end"
    BY <2>1, <2>2 DEF FirstEnd
  <2>4. CASE b # i
    <3>1. b \in 1..(i - 1)
      BY <1>2, <2>4
    <3>2. CountRight(out, k, b)
      BY <1>1, <1>2, <2>1, <3>1 DEF LoadInv, ClosedInv
    <3>3. ~(pmActive /\ k = hdr)
      <4>1. SUFFICES ASSUME pmActive, k = hdr PROVE FALSE
        OBVIOUS
      <4>2. \A e \in (a + 1)..(i - 1) : cmds[e].op # "pm_end"
        BY <1>8, <2>1, <2>2, <4>1
      <4>3. b \in (a + 1)..(i - 1)
        BY <2>3, <3>1
      <4> QED BY <2>3, <4>2, <4>3
    <3>4. out'[k].count = out[k].count
      <4>1. CASE k # hdr
        BY <1>4, <4>1
      <4>2. CASE k = hdr
        BY <1>1, <1>8, <2>1, <3>3, <4>2
      <4> QED BY <4>1, <4>2
    <3>5. /\ n \in Nat /\ Len(out) = n /\ Len(out') = n /\ DOMAIN out' = 1..n /\ n <= n
          /\ (\A l \in DOMAIN out : ~(l > n)) /\ (\A l \in DOMAIN out' : ~(l > n))
      BY <1>2, <1>4 DEF n
    <3> QED BY <1>2, <1>4, <3>2, <3>4, <3>5, SameLoad
  <2>5. CASE b = i
    <3>1. pmActive /\ k = hdr
      <4>1. ASSUME Ended(cmds, out[k].src[1], i) PROVE FALSE
        <5>1. PICK e \in a..(i - 1) : cmds[e].op = "pm_end"
          BY <2>2, <4>1 DEF Ended
        <5> QED BY <2>3, <2>5, <5>1
      <4> QED BY <1>8, <2>1, <4>1
    <3>2. SUFFICES ASSUME \A l \in Load(out', k, b) : out'[l].src # <<>>
                   PROVE  out'[k].count = Cardinality(Load(out', k, b))
      BY DEF CountRight
    <3>3. Load(out', hdr, b) = Counted(out', hdr)
      <4>1. Len(out') \in Nat /\ DOMAIN out' = 1..Len(out') /\ hdr \in Nat /\ b \in Nat
        BY <1>2, <1>4, <2>5
      <4>2. \A l \in DOMAIN out' : out'[l].src # <<>> => out'[l].src[1] < b
        BY <1>2, <1>4, <1>7, <2>5
      <4> QED BY <3>1, <3>2, <4>1, <4>2, LoadIsCounted
    <3>4. Counted(out', hdr) = Counted(out, hdr)
      BY <1>2, <1>4 DEF Counted
    <3>5. loadSeq = Cardinality(Counted(out, hdr)) /\ out[hdr].count = 0 /\ hdr \in 1..n
      BY <1>8, <2>1, <3>1
    <3>6. out'[hdr].count = loadSeq
      <4>1. CASE loadSeq = 0
        BY <1>4, <3>5, <4>1
      <4>2. CASE loadSeq # 0
        <5>1. MaxCmds \in Nat
          BY SerializeAssumption
        <5>2. loadSeq \in Nat /\ loadSeq < 16777216
          BY <1>2, <5>1 DEF SEQ_COUNTS
        <5>3. loadSeq % 16777216 = loadSeq
          BY <5>2
        <5> QED BY <1>4, <3>5, <4>2, <5>3 DEF SEQ_COUNTS
      <4> QED BY <4>1, <4>2
    <3> QED BY <3>1, <3>3, <3>4, <3>5, <3>6
  <2> QED BY <2>4, <2>5
<1> QED BY <1>5, <1>6, <1>9, <1>10 DEF LoadInv

(* A step at which no command is taken, the same operations are counted and *)
(* the loads stay open or closed.                                           *)
LEMMA OpenStays ==
    ASSUME IInv, LoadInv, phase = "serialize", phase' = "serialize",
           UNCHANGED <<cmds, pmActive, entry, i, loadSeq, hdr>>, NEW q \in Nat,
           q <= Len(out), DOMAIN out' = 1..Len(out'), q <= Len(out'), Len(out') \in Nat,
           \A k \in 1..q : out'[k] = out[k],
           \A k \in DOMAIN out : k > q => out[k].op # "pm_start",
           \A k \in DOMAIN out' : k > q => out'[k].op # "pm_start",
           \A h \in 1..q : Cardinality(Counted(out', h)) + Pending(bw')
                              = Cardinality(Counted(out, h)) + Pending(bw)
    PROVE  OpenInv'
<1>1. DOMAIN out = 1..Len(out) /\ Len(out) \in Nat
  BY WalkingLoads
<1>2. SUFFICES ASSUME ~entry, ~Nested(cmds)
               PROVE  /\ ~pmActive => loadSeq = 0
                      /\ pmActive =>
                           /\ hdr \in DOMAIN out' /\ out'[hdr].op = "pm_start"
                           /\ out'[hdr].count = 0
                           /\ \A e \in (out'[hdr].src[1] + 1)..(i - 1) :
                                 cmds[e].op \notin {"pm_start", "pm_end"}
                           /\ loadSeq = Cardinality(Counted(out', hdr)) + Pending(bw')
                      /\ \A k \in DOMAIN out' : out'[k].op = "pm_start" =>
                           (pmActive /\ k = hdr) \/ Ended(cmds, out'[k].src[1], i)
  BY DEF OpenInv
<1>3. /\ ~pmActive => loadSeq = 0
      /\ pmActive => /\ hdr \in DOMAIN out /\ out[hdr].op = "pm_start" /\ out[hdr].count = 0
                     /\ \A e \in (out[hdr].src[1] + 1)..(i - 1) :
                           cmds[e].op \notin {"pm_start", "pm_end"}
                     /\ loadSeq = Cardinality(Counted(out, hdr)) + Pending(bw)
      /\ \A k \in DOMAIN out : out[k].op = "pm_start" =>
            (pmActive /\ k = hdr) \/ Ended(cmds, out[k].src[1], i)
  BY <1>2 DEF LoadInv, OpenInv
<1>4. pmActive => hdr \in 1..q /\ hdr \in DOMAIN out' /\ out'[hdr] = out[hdr]
  BY <1>1, <1>3
<1>5. ASSUME NEW k \in DOMAIN out', out'[k].op = "pm_start"
      PROVE  (pmActive /\ k = hdr) \/ Ended(cmds, out'[k].src[1], i)
  <2>1. k \in 1..q /\ k \in DOMAIN out /\ out'[k] = out[k]
    BY <1>1, <1>5
  <2> QED BY <1>3, <1>5, <2>1
<1> QED BY <1>3, <1>4, <1>5

(* A flush adds one operation and takes the pending one.                    *)
LEMMA StepFlushLoads ==
    ASSUME IInv, LoadInv, FlushBlock, phase' # "torn"
    PROVE  LoadInv'
<1>1. /\ phase = "serialize" /\ phase' = "serialize" /\ bw # NoBlock /\ bw' = NoBlock
      /\ patches' = 0 /\ UNCHANGED <<cmds, pmActive, entry, i, loadSeq, hdr>>
  BY FlushInserts DEF FlushBlock, FlushDue, record
<1>2. /\ Len(out) \in Nat /\ DOMAIN out = 1..Len(out) /\ out \in Seq(Item)
      /\ i \in Nat \ {0} /\ patches \in Nat /\ patches <= Len(out)
  BY <1>1, WalkingLoads, Walking
<1>3. PICK m \in Nat, b \in Item :
         /\ Len(out) = m + patches /\ out' = Inserted(out, m, patches, b)
         /\ b.op = "blockwrite" /\ b.src = bw.src /\ b.count = 0
  BY FlushInserts
<1>4. InsertedAt(out', out, m, patches, b)
  BY <1>2, <1>3, InsertElements
<1>5. /\ Len(out') = m + patches + 1 /\ DOMAIN out' = 1..(m + patches + 1)
      /\ \A k \in 1..m : out'[k] = out[k]
      /\ out'[m + 1].op = "blockwrite" /\ out'[m + 1].src = bw.src
      /\ \A k \in (m + 1)..(m + patches) : out'[k + 1].op = out[k].op
                                           /\ out'[k + 1].src = out[k].src
  BY <1>3, <1>4 DEF InsertedAt
<1>6. /\ bw.src # <<>> /\ bw.src[1] \in 1..(i - 1)
      /\ \A e \in bw.src[1]..(i - 1) : cmds[e].op # "pm_end"
      /\ \A k \in DOMAIN out : k > m =>
            out[k].op # "pm_start" /\ out[k].src # <<>> /\ out[k].src[1] > bw.src[1]
  <2>1. \A k \in DOMAIN out : k > m => k > Len(out) - patches
    BY <1>2, <1>3
  <2> QED BY <1>1, <2>1 DEF LoadInv, BlockInv
<1>7. \A k \in DOMAIN out : /\ out[k].src # <<>> => out[k].src[1] \in 1..(i - 1)
                            /\ out[k].op = "pm_start" => out[k].src # <<>>
  BY <1>1 DEF LoadInv, FirstsInv
<1>8. ASSUME NEW k \in DOMAIN out', k > m
      PROVE  /\ out'[k].op # "pm_start" /\ out'[k].src # <<>>
             /\ out'[k].src[1] \in bw.src[1]..(i - 1)
  <2>1. CASE k = m + 1
    BY <1>2, <1>5, <1>6, <2>1
  <2>2. CASE k # m + 1
    <3>1. k - 1 \in (m + 1)..(m + patches) /\ (k - 1) + 1 = k /\ k - 1 > m
      BY <1>2, <1>5, <1>8, <2>2
    <3>2. out'[k].op = out[k - 1].op /\ out'[k].src = out[k - 1].src /\ k - 1 \in DOMAIN out
      BY <1>2, <1>3, <1>5, <3>1
    <3> QED BY <1>2, <1>6, <1>7, <3>1, <3>2
  <2> QED BY <2>1, <2>2
<1>9. NoEndTaken
  BY <1>1 DEF NoEndTaken, SameOps
<1>10. FirstsInv'
  <2>1. ASSUME NEW k \in DOMAIN out'
        PROVE  \/ \E l \in DOMAIN out : out'[k].src = out[l].src /\ out'[k].op = out[l].op
               \/ out'[k].op # "pm_start" /\ out'[k].src # <<>> /\ out'[k].src[1] \in 1..(i' - 1)
    <3>1. CASE k > m
      BY <1>1, <1>2, <1>6, <1>8, <3>1
    <3>2. CASE ~(k > m)
      <4>1. k \in 1..m /\ k \in DOMAIN out
        BY <1>2, <1>3, <1>5, <3>2
      <4> QED BY <1>5, <4>1
    <3> QED BY <3>1, <3>2
  <2> QED BY <1>9, <2>1, FirstsStay
<1>11. ClosedInv'
  <2>1. ASSUME NEW e \in 1..(i - 1), cmds[e].op = "pm_end"
        PROVE  e < bw.src[1]
    BY <1>2, <1>6, <2>1
  <2>2. ASSUME NEW l \in DOMAIN out, l > m, NEW e \in 1..(i - 1), cmds[e].op = "pm_end"
        PROVE  ~Before(out[l], e)
    <3>1. e < bw.src[1] /\ out[l].src[1] > bw.src[1] /\ out[l].src[1] \in 1..(i - 1)
      BY <1>6, <1>7, <2>1, <2>2
    <3> QED BY <1>2, <1>6, <3>1 DEF Before
  <2>3. ASSUME NEW l \in DOMAIN out', l > m, NEW e \in 1..(i - 1), cmds[e].op = "pm_end"
        PROVE  ~Before(out'[l], e)
    <3>1. e < bw.src[1] /\ out'[l].src[1] \in bw.src[1]..(i - 1)
      BY <1>8, <2>1, <2>3
    <3> QED BY <1>2, <1>6, <3>1 DEF Before
  <2>4. StaysFrom(m)
    BY <1>2, <1>3, <1>5, <1>8, <2>2, <2>3 DEF StaysFrom
  <2> QED BY <1>9, <2>4, ClosedStay
<1>12. OpenInv'
  <2>1. ASSUME NEW h \in 1..m
        PROVE  Cardinality(Counted(out', h)) + Pending(bw')
                  = Cardinality(Counted(out, h)) + Pending(bw)
    <3> DEFINE n == Len(out)
    <3>1. Counted(out', h) = Counted(out, h) \cup {n + 1}
      <4>1. \A l \in 1..m : l \in Counted(out', h) <=> l \in Counted(out, h)
        BY <1>2, <1>3, <1>5 DEF Counted
      <4>2. \A l \in (m + 1)..n : l \in Counted(out, h)
        BY <1>2, <1>3, <1>6 DEF Counted
      <4>3. \A l \in (m + 1)..(n + 1) : l \in Counted(out', h)
        <5>1. ASSUME NEW l \in (m + 1)..(n + 1)
              PROVE  l \in DOMAIN out' /\ l > m /\ l > h
          BY <1>2, <1>3, <1>5
        <5> QED BY <1>8, <5>1 DEF Counted
      <4>4. Counted(out', h) \subseteq 1..(n + 1) /\ Counted(out, h) \subseteq 1..n
        BY <1>2, <1>3, <1>5 DEF Counted
      <4> HIDE DEF n
      <4>5. n \in Nat /\ m <= n
        BY <1>2, <1>3 DEF n
      <4> QED BY <4>1, <4>2, <4>3, <4>4, <4>5
    <3>2. n \in Nat /\ h \in Nat /\ DOMAIN out = 1..n
      BY <1>2, <1>3
    <3>3. /\ Cardinality(Counted(out, h)) \in Nat
          /\ Cardinality(Counted(out', h)) = Cardinality(Counted(out, h)) + 1
      BY <3>1, <3>2, CountOneMore
    <3>4. Pending(bw) = 1 /\ Pending(bw') = 0
      BY <1>1 DEF Pending
    <3> QED BY <3>3, <3>4
  <2>2. m <= Len(out) /\ m <= Len(out') /\ Len(out') \in Nat /\ DOMAIN out' = 1..Len(out')
    BY <1>2, <1>3, <1>5
  <2>3. /\ \A k \in DOMAIN out : k > m => out[k].op # "pm_start"
        /\ \A k \in DOMAIN out' : k > m => out'[k].op # "pm_start"
    BY <1>6, <1>8
  <2> QED BY <1>1, <1>5, <2>1, <2>2, <2>3, OpenStays
<1>13. BoundInv'
  BY <1>1 DEF LoadInv, BoundInv
<1>14. BlockInv'
  BY <1>1, <1>2, <1>3, <1>5 DEF BlockInv
<1> QED BY <1>10, <1>11, <1>12, <1>13, <1>14 DEF LoadInv

LEMMA StepPadLoads ==
    ASSUME IInv, LoadInv, PadUpdateReg, phase' = "serialize"
    PROVE  LoadInv'
<1> DEFINE n == Len(out)
<1>1. /\ phase = "serialize" /\ bw = NoBlock /\ bw' = NoBlock /\ patches' = patches
      /\ UNCHANGED <<cmds, pmActive, entry, i, loadSeq, hdr>>
  BY DEF PadUpdateReg, PadDue, FlushDue, record
<1>2. /\ n \in Nat /\ DOMAIN out = 1..n /\ out \in Seq(Item) /\ i \in Nat \ {0}
      /\ patches = 0 /\ size \in Nat
  BY <1>1, WalkingLoads, Walking
<1>3. PICK q \in Nat : out' = out \o NoOps(size, q)
  BY PadAppends
<1>4. /\ Len(out') = n + q /\ DOMAIN out' = 1..(n + q)
      /\ \A k \in 1..n : out'[k] = out[k]
      /\ \A k \in DOMAIN out' : k > n => out'[k].op = "noop" /\ out'[k].src = <<>>
  <2> DEFINE t == NoOps(size, q)
  <2>1. t \in Seq(Item) /\ Len(t) = q
    BY <1>2, NoOpsFacts
  <2>2. \A k \in 1..q : t[k].op = "noop" /\ t[k].src = <<>>
    BY DEF NoOps
  <2> HIDE DEF t, n
  <2>3. /\ Len(out \o t) = Len(out) + Len(t) /\ out \o t \in Seq(Item)
        /\ \A k \in 1..(Len(out) + Len(t)) :
              (out \o t)[k] = IF k <= Len(out) THEN out[k] ELSE t[k - Len(out)]
    BY <1>2, <2>1, ConcatProperties
  <2>4. /\ Len(out') = n + q /\ DOMAIN out' = 1..(n + q)
        /\ \A k \in 1..(n + q) : out'[k] = IF k <= n THEN out[k] ELSE t[k - n]
    <3>1. out' = out \o t /\ Len(out) = n
      BY <1>3 DEF t, n
    <3>2. DOMAIN out' = 1..Len(out')
      BY <2>3, <3>1, SeqFacts
    <3> QED BY <2>1, <2>3, <3>1, <3>2
  <2>5. ASSUME NEW k \in DOMAIN out', k > n
        PROVE  out'[k].op = "noop" /\ out'[k].src = <<>>
    <3>1. k - n \in 1..q /\ out'[k] = t[k - n]
      BY <1>2, <2>4, <2>5
    <3> QED BY <2>2, <3>1
  <2> QED BY <1>2, <2>4, <2>5
<1>5. NoEndTaken
  BY <1>1 DEF NoEndTaken, SameOps
<1>6. FirstsInv'
  <2>1. ASSUME NEW k \in DOMAIN out'
        PROVE  \/ \E l \in DOMAIN out : out'[k].src = out[l].src /\ out'[k].op = out[l].op
               \/ out'[k].op # "pm_start" /\ out'[k].src = <<>>
    <3>1. CASE k > n
      BY <1>4, <3>1
    <3>2. CASE ~(k > n)
      <4>1. k \in 1..n /\ k \in DOMAIN out
        BY <1>2, <1>4, <3>2
      <4> QED BY <1>4, <4>1
    <3> QED BY <3>1, <3>2
  <2> QED BY <1>5, <2>1, FirstsStay
<1>7. ClosedInv'
  <2>1. StaysFrom(n)
    BY <1>2, <1>4 DEF StaysFrom, Before
  <2> QED BY <1>5, <2>1, ClosedStay
<1>8. OpenInv'
  <2>1. ASSUME NEW h \in 1..n
        PROVE  Counted(out', h) = Counted(out, h)
    BY <1>2, <1>4 DEF Counted
  <2>2. ASSUME NEW h \in 1..n
        PROVE  Cardinality(Counted(out', h)) + Pending(bw')
                  = Cardinality(Counted(out, h)) + Pending(bw)
    BY <1>1, <2>1, <2>2
  <2>3. n <= Len(out) /\ n <= Len(out') /\ Len(out') \in Nat /\ DOMAIN out' = 1..Len(out')
    BY <1>2, <1>4
  <2>4. /\ \A k \in DOMAIN out : k > n => out[k].op # "pm_start"
        /\ \A k \in DOMAIN out' : k > n => out'[k].op # "pm_start"
    BY <1>2, <1>4
  <2> QED BY <1>1, <1>2, <1>4, <2>2, <2>3, <2>4, OpenStays
<1>9. BoundInv' /\ BlockInv'
  BY <1>1, <1>2, <1>4 DEF LoadInv, BoundInv, BlockInv
<1> QED BY <1>6, <1>7, <1>8, <1>9 DEF LoadInv

(* Outside of the walk and of a finished binary nothing is said of loads.    *)
LEMMA QuietLoads ==
    ASSUME phase' \notin {"serialize", "done"}, Len(cmds') <= MaxCmds
    PROVE  LoadInv'
BY DEF LoadInv, BoundInv, FirstsInv, BlockInv, OpenInv, ClosedInv

LEMMA UnchangedLoads ==
    ASSUME LoadInv, UNCHANGED <<record, phase, walk>>
    PROVE  LoadInv'
<1>1. /\ cmds' = cmds /\ pmActive' = pmActive /\ entry' = entry /\ phase' = phase
      /\ i' = i /\ out' = out /\ bw' = bw /\ patches' = patches /\ loadSeq' = loadSeq
      /\ hdr' = hdr
  BY DEF record, walk
<1> QED BY <1>1 DEF LoadInv, BoundInv, FirstsInv, BlockInv, OpenInv, ClosedInv

LEMMA StepCompleteLoads ==
    ASSUME IInv, LoadInv, Complete
    PROVE  LoadInv'
<1>1. /\ phase = "serialize" /\ phase' = "done" /\ ~More
      /\ cmds' = cmds /\ entry' = entry /\ i' = i /\ out' = out
  BY DEF Complete, record
<1>2. BoundInv'
  <2>1. i <= Len(cmds) + 1 /\ i \in Nat /\ Len(cmds) \in Nat
    BY <1>1, WalkingLoads
  <2> QED BY <1>1, <2>1 DEF LoadInv, BoundInv, More
<1> QED BY <1>1, <1>2 DEF LoadInv, FirstsInv, BlockInv, OpenInv, ClosedInv

LEMMA StepExportLoads ==
    ASSUME IInv, LoadInv, NEW v \in Versions, ExportSerialized(v)
    PROVE  LoadInv'
<1>1. /\ phase' = "serialize" /\ entry' = pmActive /\ pmActive' = pmActive /\ i' = 1
      /\ out' = <<>> /\ bw' = NoBlock /\ patches' = 0 /\ loadSeq' = 0 /\ hdr' = 0
      /\ cmds' = cmds
  BY DEF ExportSerialized
<1>2. DOMAIN out' = {} /\ Len(cmds) \in Nat
  BY <1>1 DEF IInv, TypeOK
<1>3. BoundInv'
  BY <1>1, <1>2 DEF LoadInv, BoundInv
<1>4. OpenInv'
  BY <1>1, <1>2, Zenon DEF OpenInv
<1> QED BY <1>1, <1>2, <1>3, <1>4 DEF LoadInv, FirstsInv, BlockInv, ClosedInv

LEMMA NextLoadInv ==
    ASSUME MaxCmds < SEQ_COUNTS, IInv, IInv', LoadInv, [Next]_vars
    PROVE  LoadInv'
<1>1. Len(cmds) <= MaxCmds /\ Len(cmds) \in Nat
  BY DEF LoadInv, BoundInv, IInv, TypeOK
<1>2. ASSUME NEW c \in Commands, Buffer(c) PROVE LoadInv'
  <2>1. phase' = "record" /\ cmds' = Append(cmds, c) /\ Len(cmds) < MaxCmds /\ MaxCmds \in Nat
    BY <1>2, SerializeAssumption DEF Buffer
  <2>2. Len(cmds') <= MaxCmds
    BY <1>1, <2>1 DEF IInv, TypeOK
  <2> QED BY <2>1, <2>2, QuietLoads
<1>3. ASSUME NEW v \in Versions, ExportSerialized(v) PROVE LoadInv'
  BY <1>3, StepExportLoads
<1>4. ASSUME FreeSerialized \/ (\E s : Reserialize(s)) \/ Reserializer
      PROVE  LoadInv'
  <2>1. phase' \notin {"serialize", "done"} /\ cmds' = cmds
    BY <1>4 DEF FreeSerialized, Reserialize, Reserializer, Scan, EndScan, JoinChunk, CopyAndPad,
                CopyRest, ChunkSpills, record
  <2> QED BY <1>1, <2>1, QuietLoads
<1>5. CASE Growth
  <2>1. ASSUME NEW b \in {"txn", "bw"}, Grow(b) PROVE LoadInv'
    BY <2>1, UnchangedLoads DEF Grow
  <2>2. ASSUME NEW b \in {"txn", "bw"}, GrowFails(b) PROVE LoadInv'
    <3>1. phase' \notin {"serialize", "done"} /\ cmds' = cmds
      BY <2>2 DEF GrowFails, record
    <3> QED BY <1>1, <3>1, QuietLoads
  <2> QED BY <1>5, <2>1, <2>2 DEF Growth
<1>6. CASE FlushBlock
  <2>1. CASE phase' = "torn"
    <3>1. cmds' = cmds
      BY <1>6 DEF FlushBlock, record
    <3> QED BY <1>1, <2>1, <3>1, QuietLoads
  <2> QED BY <1>6, <2>1, StepFlushLoads
<1>7. CASE PadUpdateReg
  <2>1. phase' \in {"failed", "stale", "serialize"} /\ cmds' = cmds
    BY <1>7 DEF PadUpdateReg, PadDue, record
  <2>2. CASE phase' # "serialize"
    BY <1>1, <2>1, <2>2, QuietLoads
  <2> QED BY <1>7, <2>2, StepPadLoads
<1>8. CASE AppendPmEnd
  <2>1. CASE hdr = 0
    <3>1. phase' = "failed" /\ cmds' = cmds
      BY <1>8, <2>1 DEF AppendPmEnd
    <3> QED BY <1>1, <3>1, QuietLoads
  <2> QED BY <1>8, <2>1, StepPmEndLoads
<1>9. CASE AppendCmd \/ AppendPmStart \/ StartBlock \/ Coalesce \/ Complete
  BY <1>9, StepAppendCmdLoads, StepPmStartLoads, StepBlockLoads, StepCompleteLoads
<1>10. CASE UNCHANGED vars
  BY <1>10, UnchangedLoads DEF vars
<1>11. CASE Client
  BY <1>2, <1>3, <1>4, <1>11 DEF Client
<1>12. CASE Serializer
  BY <1>6, <1>7, <1>8, <1>9, <1>12 DEF Serializer
<1> QED BY <1>4, <1>5, <1>10, <1>11, <1>12 DEF Next

LEMMA InitLoadInv == Init => LoadInv
<1> SUFFICES ASSUME Init PROVE LoadInv
  OBVIOUS
<1>1. phase = "record" /\ Len(cmds) = 0
  BY DEF Init
<1>2. MaxCmds \in Nat
  BY SerializeAssumption
<1> QED BY <1>1, <1>2 DEF LoadInv, BoundInv, FirstsInv, BlockInv, OpenInv, ClosedInv

(* The header of a PM load counts the operations up to its END, however     *)
(* BLOCKWRITEs are coalesced and patches moved behind them.  The count has  *)
(* 24 bits: fewer commands than it can hold are buffered.                   *)
THEOREM PmCountRightHolds ==
    ASSUME MaxCmds < SEQ_COUNTS
    PROVE  Spec => []PmCountRight
<1>1. Init => IInv /\ LoadInv
  BY InitIInv, InitLoadInv
<1>2. (IInv /\ LoadInv) /\ [Next]_vars => (IInv /\ LoadInv)'
  BY NextIInv, NextLoadInv
<1>3. ASSUME IInv, LoadInv PROVE PmCountRight
  <2>1. ASSUME phase = "done", NEW b \in DOMAIN cmds
        PROVE  b \in 1..(i - 1)
    <3>1. DOMAIN cmds = 1..Len(cmds) /\ Len(cmds) \in Nat
      BY <1>3, SeqFacts DEF IInv, TypeOK
    <3>2. i = Len(cmds) + 1
      BY <1>3, <2>1 DEF LoadInv, BoundInv
    <3> QED BY <2>1, <3>1, <3>2
  <2> QED BY <1>3, <2>1 DEF LoadInv, ClosedInv, PmCountRight
<1>4. (IInv /\ LoadInv) => PmCountRight
  BY <1>3
<1> QED BY <1>1, <1>2, <1>4, PTL DEF Spec

----------------------------------------------------------------------------
(* Every command once and in order.                                          *)

(* A DDR_PATCH keeps the length it was buffered with, or the format's own.  *)
LenInv ==
    \A k \in DOMAIN cmds : cmds[k].op = "ddr_patch" =>
        cmds[k].len = 40 \/ (ver = "v10" /\ cmds[k].len = 16)

PatchBytes == 8 + PatchSize(ver)

(* Slot k of the n operations ends the walk's bytes as a patch does, was    *)
(* taken behind the beginning of the block, and is a patch.                 *)
TailAt(k, n) ==
    /\ out[k].size = PatchBytes /\ out[k].at = size - (n + 1 - k) * PatchBytes
    /\ \E p \in 1..(i - 1) : out[k].src = <<p>> /\ cmds[p].op = "ddr_patch" /\ p > bw.src[1]

(* The operations a flush will move are patches, one after the other at the *)
(* end.                                                                     *)
TailInv ==
    phase = "serialize" =>
        \A k \in DOMAIN out : k > Len(out) - patches => TailAt(k, Len(out))

(* What a block or an operation was made from covers consecutive registers. *)
Contiguous(c, q) ==
    \A m \in 1..(Len(q) - 1) : c[q[m + 1]].reg = c[q[m]].reg + 4 * c[q[m]].len
LastEnd(c, q) == c[q[Len(q)]].reg + 4 * c[q[Len(q)]].len

(* A block made from q, among the first e - 1 commands: BLOCKWRITEs, each   *)
(* continued where it ended.                                                *)
BlockOf(c, q, e) ==
    /\ q # <<>>
    /\ \A m \in DOMAIN q : q[m] \in q[1]..(e - 1) /\ q[m] \in 1..(e - 1) /\ c[q[m]].op = "blockwrite"
    /\ Contiguous(c, q)

(* All operations of s but the last p were taken before command f.          *)
OlderThan(s, p, f) ==
    \A k \in DOMAIN s : k <= Len(s) - p => \A m \in DOMAIN s[k].src : s[k].src[m] < f

PendingInv ==
    phase = "serialize" /\ bw # NoBlock =>
        /\ BlockOf(cmds, bw.src, i) /\ bw.next = LastEnd(cmds, bw.src)
        /\ OlderThan(out, patches, bw.src[1])

(* Operations stand for commands walked that are no END, each for its own,  *)
(* and cover consecutive registers.                                         *)
Taken(s, c, e) ==
    \A k \in DOMAIN s : \A m \in DOMAIN s[k].src :
        s[k].src[m] \in 1..(e - 1) /\ c[s[k].src[m]].op # "pm_end"
Once(s) ==
    \A k, l \in DOMAIN s : \A m \in DOMAIN s[k].src, n \in DOMAIN s[l].src :
        s[k].src[m] = s[l].src[n] => k = l
Runs(s, c) == \A k \in DOMAIN s : Contiguous(c, s[k].src)

(* A command that comes before an older one is a BLOCKWRITE coalesced into  *)
(* a block that was begun before the older one, a patch.                    *)
Passing(s, c) ==
    \A k, l \in DOMAIN s : \A m \in DOMAIN s[k].src, n \in DOMAIN s[l].src :
        k < l /\ s[l].src[n] < s[k].src[m] =>
            /\ c[s[l].src[n]].op = "ddr_patch" /\ c[s[k].src[m]].op = "blockwrite"
            /\ s[k].src[1] < s[l].src[n]

(* Each command walked is in an operation of s or in the block made from q. *)
HeldBy(s, a) == \E k \in DOMAIN s : \E m \in DOMAIN s[k].src : s[k].src[m] = a
AllHeld(s, q, c, e) ==
    \A a \in 1..(e - 1) : c[a].op # "pm_end" => HeldBy(s, a) \/ \E m \in DOMAIN q : q[m] = a

Faithful(s, c, e) == Taken(s, c, e) /\ Once(s) /\ Runs(s, c) /\ Passing(s, c)

WalkInv ==
    /\ phase \in {"serialize", "done"} =>
          Faithful(out, cmds, i) /\ AllHeld(out, bw.src, cmds, i)
    /\ phase = "serialize" => i <= Len(cmds) + 1 /\ ver \in Versions
    /\ phase = "done" => bw = NoBlock /\ i = Len(cmds) + 1

(* What has been copied is, but for NOOPs, what has been read and is not in *)
(* the chunk.                                                               *)
ShapeTo(s, n) == {[nth |-> Rank(s, k), op |-> s[k].op, src |-> s[k].src, size |-> s[k].size] :
                    k \in {m \in 1..n : Kept(s[m])}}
SameTo(s, a, t, b) == Rank(s, a) = Rank(t, b) /\ ShapeTo(s, a) = ShapeTo(t, b)
CopyInv == phase = "copy" => SameTo(src, i - chunk - 1, out, Len(out))

ContentInv ==
    LenInv /\ TailInv /\ PendingInv /\ WalkInv /\ CopyInv /\ PatchesWhole /\ OnlyNoOpsAdded

----------------------------------------------------------------------------
(* Operations and the commands they were made from.                         *)

LEMMA Single == \A e : DOMAIN <<e>> = {1} /\ <<e>>[1] = e /\ Len(<<e>>) = 1 /\ <<e>> # <<>>
OBVIOUS

(* t has the operations of s and others made from nothing.                  *)
LEMMA FaithfulPadded ==
    ASSUME NEW s, NEW t, NEW n \in Nat, NEW c, NEW e, NEW q, DOMAIN s = 1..n,
           DOMAIN t \subseteq Nat, 1..n \subseteq DOMAIN t,
           \A k \in 1..n : t[k].src = s[k].src,
           \A k \in DOMAIN t : k > n => t[k].src = <<>>,
           1..n = DOMAIN t \cap 1..n,
           \A k \in DOMAIN t : k > n \/ k \in 1..n
    PROVE  /\ Faithful(s, c, e) => Faithful(t, c, e)
           /\ AllHeld(s, q, c, e) => AllHeld(t, q, c, e)
<1>1. \A k \in DOMAIN t : \A m \in DOMAIN t[k].src : k \in 1..n
  OBVIOUS
<1>2. Taken(s, c, e) => Taken(t, c, e)
  BY <1>1 DEF Taken
<1>3. Once(s) => Once(t)
  BY <1>1 DEF Once
<1>4. Passing(s, c) => Passing(t, c)
  BY <1>1 DEF Passing
<1>5. Runs(s, c) => Runs(t, c)
  <2> SUFFICES ASSUME Runs(s, c), NEW k \in DOMAIN t PROVE Contiguous(c, t[k].src)
    BY DEF Runs
  <2>1. CASE k \in 1..n
    BY <2>1 DEF Runs
  <2>2. CASE k > n
    BY <2>2 DEF Contiguous
  <2> QED BY <2>1, <2>2
<1>6. \A a : HeldBy(s, a) => HeldBy(t, a)
  BY DEF HeldBy
<1> QED BY <1>2, <1>3, <1>4, <1>5, <1>6 DEF Faithful, AllHeld

(* t has the operations of s and one made from command e, the next walked.  *)
LEMMA FaithfulAppended ==
    ASSUME NEW s, NEW t, NEW n \in Nat, NEW c, NEW d, NEW e \in Nat \ {0}, NEW q,
           DOMAIN s = 1..n, DOMAIN t = 1..(n + 1),
           \A k \in 1..n : t[k].src = s[k].src, t[n + 1].src = <<e>>,
           \A a \in 1..(e - 1) : d[a] = c[a], d[e].op # "pm_end",
           \A k \in 1..n : s[k].src \in Seq(Nat),
           Faithful(s, c, e), AllHeld(s, q, c, e)
    PROVE  Faithful(t, d, e + 1) /\ AllHeld(t, q, d, e + 1)
<1>1. /\ DOMAIN t[n + 1].src = {1} /\ t[n + 1].src[1] = e
      /\ \A k \in DOMAIN t : k \in 1..n \/ k = n + 1
      /\ n + 1 \in DOMAIN t /\ 1..n \subseteq DOMAIN t
  BY Single
<1>2. \A k \in 1..n : \A m \in DOMAIN s[k].src :
        s[k].src[m] \in 1..(e - 1) /\ c[s[k].src[m]].op # "pm_end"
  BY DEF Faithful, Taken
<1>3. Taken(t, d, e + 1)
  <2>1. ASSUME NEW k \in 1..n, NEW m \in DOMAIN s[k].src
        PROVE  s[k].src[m] \in 1..(e + 1 - 1) /\ d[s[k].src[m]].op # "pm_end"
    <3>1. s[k].src[m] \in 1..(e - 1) /\ c[s[k].src[m]].op # "pm_end"
      BY <1>2, <2>1
    <3>2. d[s[k].src[m]] = c[s[k].src[m]]
      BY <3>1
    <3> QED BY <3>1, <3>2
  <2>2. e \in 1..(e + 1 - 1)
    OBVIOUS
  <2> QED BY <1>1, <2>1, <2>2 DEF Taken
<1>4. Once(t)
  <2> SUFFICES ASSUME NEW k \in DOMAIN t, NEW l \in DOMAIN t, NEW m \in DOMAIN t[k].src,
                      NEW o \in DOMAIN t[l].src, t[k].src[m] = t[l].src[o]
               PROVE  k = l
    BY DEF Once
  <2>1. ASSUME NEW x \in 1..n, NEW y \in DOMAIN t[x].src PROVE t[x].src[y] # e
    <3>1. t[x].src[y] \in 1..(e - 1)
      BY <1>2
    <3> QED BY <3>1
  <2>2. k = n + 1 => t[k].src[m] = e
    BY <1>1
  <2>3. l = n + 1 => t[l].src[o] = e
    BY <1>1
  <2>4. CASE k \in 1..n /\ l \in 1..n
    <3>1. /\ k \in DOMAIN s /\ l \in DOMAIN s /\ m \in DOMAIN s[k].src /\ o \in DOMAIN s[l].src
          /\ s[k].src[m] = s[l].src[o]
      BY <2>4
    <3> QED BY <3>1 DEF Faithful, Once
  <2> QED BY <1>1, <2>1, <2>2, <2>3, <2>4
<1>5. Passing(t, d)
  <2> SUFFICES ASSUME NEW k \in DOMAIN t, NEW l \in DOMAIN t, NEW m \in DOMAIN t[k].src,
                      NEW o \in DOMAIN t[l].src, k < l, t[l].src[o] < t[k].src[m]
               PROVE  /\ d[t[l].src[o]].op = "ddr_patch" /\ d[t[k].src[m]].op = "blockwrite"
                      /\ t[k].src[1] < t[l].src[o]
    BY DEF Passing
  <2>1. k \in 1..n
    BY <1>1
  <2>2. l \in 1..n
    <3>1. SUFFICES ASSUME l = n + 1 PROVE FALSE
      BY <1>1
    <3>2. t[l].src[o] = e /\ t[k].src[m] \in 1..(e - 1)
      BY <1>1, <1>2, <2>1, <3>1
    <3> QED BY <3>2
  <2>3. m \in DOMAIN s[k].src /\ o \in DOMAIN s[l].src /\ s[l].src[o] < s[k].src[m]
    BY <2>1, <2>2
  <2>4. /\ c[s[l].src[o]].op = "ddr_patch" /\ c[s[k].src[m]].op = "blockwrite"
        /\ s[k].src[1] < s[l].src[o]
    BY <2>1, <2>2, <2>3 DEF Faithful, Passing
  <2>5. s[l].src[o] \in 1..(e - 1) /\ s[k].src[m] \in 1..(e - 1)
    BY <1>2, <2>1, <2>2, <2>3
  <2> QED BY <2>1, <2>2, <2>4, <2>5
<1>6. Runs(t, d)
  <2>1. Contiguous(d, t[n + 1].src)
    BY Single DEF Contiguous
  <2>2. ASSUME NEW k \in 1..n PROVE Contiguous(d, t[k].src)
    <3>1. Contiguous(c, s[k].src)
      BY <2>2 DEF Faithful, Runs
    <3>2. /\ DOMAIN s[k].src = 1..Len(s[k].src) /\ Len(s[k].src) \in Nat
      BY <2>2, SeqFacts
    <3>3. ASSUME NEW m \in 1..(Len(s[k].src) - 1)
          PROVE  /\ d[s[k].src[m]] = c[s[k].src[m]] /\ d[s[k].src[m + 1]] = c[s[k].src[m + 1]]
      <4>1. m \in DOMAIN s[k].src /\ m + 1 \in DOMAIN s[k].src
        BY <3>2, <3>3
      <4> QED BY <1>2, <4>1
    <3>4. Contiguous(d, s[k].src)
      BY <3>1, <3>3 DEF Contiguous
    <3> QED BY <2>2, <3>4
  <2> QED BY <1>1, <2>1, <2>2 DEF Runs
<1>7. AllHeld(t, q, d, e + 1)
  <2>1. \A a : HeldBy(s, a) => HeldBy(t, a)
    BY <1>1 DEF HeldBy
  <2>2. HeldBy(t, e)
    BY <1>1 DEF HeldBy
  <2>3. \A a \in 1..(e + 1 - 1) : a = e \/ a \in 1..(e - 1)
    OBVIOUS
  <2> QED BY <2>1, <2>2, <2>3 DEF AllHeld
<1> QED BY <1>3, <1>4, <1>5, <1>6, <1>7 DEF Faithful

(* t has the operations of s with a block of commands q between the first m *)
(* and the others, which are patches taken behind the block's beginning.    *)
BlockInserted(s, t, m, p, c, e, q) ==
    /\ DOMAIN s = 1..(m + p) /\ DOMAIN t = 1..(m + p + 1)
    /\ \A k \in 1..m : t[k].src = s[k].src
    /\ t[m + 1].src = q
    /\ \A k \in (m + 1)..(m + p) : t[k + 1].src = s[k].src
    /\ \A k \in 1..m : \A j \in DOMAIN s[k].src : s[k].src[j] < q[1]
    /\ \A k \in (m + 1)..(m + p) : \E a \in 1..(e - 1) :
          s[k].src = <<a>> /\ c[a].op = "ddr_patch" /\ a > q[1]
    /\ BlockOf(c, q, e)

LEMMA FaithfulInserted ==
    ASSUME NEW s, NEW t, NEW m \in Nat, NEW p \in Nat, NEW c, NEW e \in Nat \ {0},
           NEW q \in Seq(Nat), BlockInserted(s, t, m, p, c, e, q),
           Faithful(s, c, e), AllHeld(s, q, c, e)
    PROVE  Faithful(t, c, e) /\ AllHeld(t, <<>>, c, e)
<1> USE DEF BlockInserted
<1>0. 1 \in DOMAIN q /\ q[1] \in Nat
  BY SeqFacts DEF BlockOf
<1> DEFINE old(k) == IF k <= m THEN k ELSE k - 1
<1>1. ASSUME NEW k \in DOMAIN t, k # m + 1
      PROVE  old(k) \in DOMAIN s /\ t[k].src = s[old(k)].src
             /\ (k <= m => old(k) \in 1..m) /\ (k > m => old(k) \in (m + 1)..(m + p))
  <2>1. CASE k <= m
    BY <1>1, <2>1
  <2>2. CASE ~(k <= m)
    <3>1. k - 1 \in (m + 1)..(m + p) /\ (k - 1) + 1 = k /\ k - 1 \in DOMAIN s /\ k > m
      BY <1>1, <2>2
    <3>2. t[(k - 1) + 1].src = s[k - 1].src
      BY <3>1
    <3> QED BY <2>2, <3>1, <3>2
  <2> QED BY <2>1, <2>2
<1>2. ASSUME NEW k \in DOMAIN t, k # m + 1, NEW l \in DOMAIN t, l # m + 1
      PROVE  (old(k) = old(l) => k = l) /\ (k < l => old(k) < old(l))
  BY <1>2
<1> HIDE DEF old
<1>3. \A j \in DOMAIN q : q[j] \in q[1]..(e - 1) /\ q[j] \in 1..(e - 1) /\ c[q[j]].op = "blockwrite"
  BY DEF BlockOf
<1>4. \A k \in DOMAIN s : \A j \in DOMAIN s[k].src :
        s[k].src[j] \in 1..(e - 1) /\ c[s[k].src[j]].op # "pm_end"
  BY DEF Faithful, Taken
<1>5. ASSUME NEW k \in (m + 1)..(m + p), NEW j \in DOMAIN s[k].src
      PROVE  /\ s[k].src[j] \in 1..(e - 1) /\ c[s[k].src[j]].op = "ddr_patch"
             /\ s[k].src[j] > q[1]
  <2>1. PICK a \in 1..(e - 1) : s[k].src = <<a>> /\ c[a].op = "ddr_patch" /\ a > q[1]
    OBVIOUS
  <2>2. s[k].src[j] = a
    BY <1>5, <2>1, Single
  <2> QED BY <2>1, <2>2
<1>6. Taken(t, c, e)
  BY <1>1, <1>3, <1>4 DEF Taken
<1>7. ASSUME NEW k \in DOMAIN s, NEW j \in DOMAIN s[k].src, NEW l \in DOMAIN q
      PROVE  s[k].src[j] # q[l]
  <2>1. CASE k \in 1..m
    <3>1. s[k].src[j] < q[1] /\ s[k].src[j] \in 1..(e - 1)
      BY <1>4, <1>7, <2>1
    <3>2. q[l] \in 1..(e - 1) /\ q[l] \in q[1]..(e - 1)
      BY <1>3
    <3> QED BY <1>0, <3>1, <3>2
  <2>2. CASE k \in (m + 1)..(m + p)
    <3>1. c[s[k].src[j]].op = "ddr_patch" /\ c[q[l]].op = "blockwrite"
      BY <1>3, <1>5, <1>7, <2>2
    <3> QED BY <3>1
  <2> QED BY <2>1, <2>2
<1>8. Once(t)
  <2> SUFFICES ASSUME NEW k \in DOMAIN t, NEW l \in DOMAIN t, NEW j \in DOMAIN t[k].src,
                      NEW n \in DOMAIN t[l].src, t[k].src[j] = t[l].src[n]
               PROVE  k = l
    BY DEF Once
  <2>1. CASE k # m + 1 /\ l # m + 1
    <3>1. /\ old(k) \in DOMAIN s /\ t[k].src = s[old(k)].src
          /\ old(l) \in DOMAIN s /\ t[l].src = s[old(l)].src
      BY <1>1, <2>1
    <3>2. \A x, y \in DOMAIN s : \A a \in DOMAIN s[x].src, b \in DOMAIN s[y].src :
             s[x].src[a] = s[y].src[b] => x = y
      BY DEF Faithful, Once
    <3>3. old(k) = old(l)
      BY ONLY <3>1, <3>2, j \in DOMAIN t[k].src, n \in DOMAIN t[l].src, t[k].src[j] = t[l].src[n]
    <3> QED BY <1>2, <2>1, <3>3
  <2>2. CASE k = m + 1 /\ l # m + 1
    <3>1. old(l) \in DOMAIN s /\ t[l].src = s[old(l)].src /\ t[k].src = q
      BY <1>1, <2>2
    <3>2. s[old(l)].src[n] # q[j]
      BY <1>7, <3>1
    <3> QED BY <3>1, <3>2
  <2>3. CASE k # m + 1 /\ l = m + 1
    <3>1. old(k) \in DOMAIN s /\ t[k].src = s[old(k)].src /\ t[l].src = q
      BY <1>1, <2>3
    <3>2. s[old(k)].src[j] # q[n]
      BY <1>7, <3>1
    <3> QED BY <3>1, <3>2
  <2> QED BY <2>1, <2>2, <2>3
<1>9. Passing(t, c)
  <2> SUFFICES ASSUME NEW k \in DOMAIN t, NEW l \in DOMAIN t, NEW j \in DOMAIN t[k].src,
                      NEW n \in DOMAIN t[l].src, k < l, t[l].src[n] < t[k].src[j]
               PROVE  /\ c[t[l].src[n]].op = "ddr_patch" /\ c[t[k].src[j]].op = "blockwrite"
                      /\ t[k].src[1] < t[l].src[n]
    BY DEF Passing
  <2>1. CASE k # m + 1 /\ l # m + 1
    <3>1. old(k) \in DOMAIN s /\ old(l) \in DOMAIN s /\ old(k) < old(l)
          /\ t[k].src = s[old(k)].src /\ t[l].src = s[old(l)].src
      BY <1>1, <1>2, <2>1
    <3> QED BY <3>1 DEF Faithful, Passing
  <2>2. CASE k = m + 1 /\ l # m + 1
    <3>1. old(l) \in (m + 1)..(m + p) /\ t[l].src = s[old(l)].src
      BY <1>1, <2>2
    <3>2. /\ t[l].src[n] \in 1..(e - 1) /\ c[t[l].src[n]].op = "ddr_patch"
          /\ t[l].src[n] > q[1]
      BY <1>5, <3>1
    <3>3. t[k].src = q /\ c[t[k].src[j]].op = "blockwrite"
      BY <1>3, <2>2
    <3> QED BY <1>0, <3>2, <3>3
  <2>3. CASE l = m + 1
    <3>0. k \in 1..m
      BY <2>3
    <3>1. k \in 1..m /\ t[k].src = s[k].src
      BY <3>0
    <3>2. t[k].src[j] < q[1] /\ k \in DOMAIN s /\ t[k].src[j] \in 1..(e - 1)
      BY <1>4, <3>1
    <3>3. t[l].src[n] \in q[1]..(e - 1) /\ t[l].src[n] \in 1..(e - 1)
      BY <1>3, <2>3
    <3> QED BY <1>0, <3>2, <3>3
  <2> QED BY <2>1, <2>2, <2>3
<1>10. Runs(t, c)
  <2> SUFFICES ASSUME NEW k \in DOMAIN t PROVE Contiguous(c, t[k].src)
    BY DEF Runs
  <2>1. CASE k = m + 1
    BY <2>1 DEF BlockOf
  <2>2. CASE k # m + 1
    BY <1>1, <2>2 DEF Faithful, Runs
  <2> QED BY <2>1, <2>2
<1>11. \A a : HeldBy(s, a) => HeldBy(t, a)
  <2> SUFFICES ASSUME NEW a, NEW k \in DOMAIN s, NEW j \in DOMAIN s[k].src, s[k].src[j] = a
               PROVE  HeldBy(t, a)
    BY DEF HeldBy
  <2>1. CASE k <= m
    <3>1. k \in DOMAIN t /\ t[k].src = s[k].src
      BY <2>1
    <3> QED BY <3>1 DEF HeldBy
  <2>2. CASE ~(k <= m)
    <3>1. k + 1 \in DOMAIN t /\ t[k + 1].src = s[k].src
      BY <2>2
    <3> QED BY <3>1 DEF HeldBy
  <2> QED BY <2>1, <2>2
<1>12. \A j \in DOMAIN q : HeldBy(t, q[j])
  <2>1. m + 1 \in DOMAIN t
    OBVIOUS
  <2> QED BY <2>1 DEF HeldBy
<1>13. AllHeld(t, <<>>, c, e)
  BY <1>11, <1>12 DEF AllHeld
<1> QED BY <1>6, <1>8, <1>9, <1>10, <1>13 DEF Faithful

(* A command that is no operation, or that joins the block, is walked.       *)
LEMMA FaithfulWalked ==
    ASSUME NEW s, NEW c, NEW e \in Nat \ {0}, NEW q, NEW r, Faithful(s, c, e), AllHeld(s, q, c, e),
           \A m \in DOMAIN q : \E n \in DOMAIN r : r[n] = q[m],
           c[e].op = "pm_end" \/ \E n \in DOMAIN r : r[n] = e
    PROVE  Faithful(s, c, e + 1) /\ AllHeld(s, r, c, e + 1)
<1>1. \A a \in 1..(e - 1) : a \in 1..(e + 1 - 1)
  OBVIOUS
<1>2. \A a \in 1..(e + 1 - 1) : a = e \/ a \in 1..(e - 1)
  OBVIOUS
<1>3. Taken(s, c, e + 1)
  BY <1>1 DEF Faithful, Taken
<1> QED BY <1>2, <1>3 DEF Faithful, AllHeld
----------------------------------------------------------------------------
(* The steps of the walk.                                                   *)

LEMMA WalkingContent ==
    ASSUME IInv, ContentInv, phase = "serialize"
    PROVE  /\ out \in Seq(Item) /\ Len(out) \in Nat /\ DOMAIN out = 1..Len(out)
           /\ \A k \in DOMAIN out : out[k].src \in Seq(Nat) /\ out[k] \in Item
           /\ cmds \in Seq(Command) /\ DOMAIN cmds = 1..Len(cmds) /\ Len(cmds) \in Nat
           /\ i \in Nat \ {0} /\ i <= Len(cmds) + 1 /\ ver \in Versions /\ size \in Nat
           /\ patches \in Nat /\ patches <= Len(out) /\ (bw = NoBlock => patches = 0)
           /\ bw.src \in Seq(Nat) /\ (bw = NoBlock => bw.src = <<>>)
           /\ (More => i \in DOMAIN cmds /\ cmds[i] \in Command)
           /\ Faithful(out, cmds, i) /\ AllHeld(out, bw.src, cmds, i)
<1>1. /\ out \in Seq(Item) /\ Len(out) \in Nat /\ DOMAIN out = 1..Len(out)
      /\ patches \in Nat /\ patches <= Len(out) /\ (bw = NoBlock => patches = 0)
      /\ bw.src \in Seq(Nat) /\ size \in Nat
      /\ (More => i \in DOMAIN cmds /\ cmds[i] \in Command)
  BY Walking
<1>2. ASSUME NEW k \in DOMAIN out
      PROVE  out[k].src \in Seq(Nat) /\ out[k] \in Item
  <2>1. out[k] \in Item
    BY <1>1, SeqFacts
  <2> QED BY <2>1 DEF Item
<1>3. cmds \in Seq(Command) /\ DOMAIN cmds = 1..Len(cmds) /\ Len(cmds) \in Nat /\ i \in Nat \ {0}
  BY SeqFacts DEF IInv, TypeOK
<1>4. /\ i <= Len(cmds) + 1 /\ ver \in Versions
      /\ Faithful(out, cmds, i) /\ AllHeld(out, bw.src, cmds, i)
  BY DEF ContentInv, WalkInv
<1> QED BY <1>1, <1>2, <1>3, <1>4 DEF NoBlock

(* What an append leaves in the buffer and of the commands.                  *)
Appended ==
    /\ AppendedOp /\ out'[Len(out) + 1].at = size
    /\ size' \in Nat /\ bw' = bw /\ ver' = ver
    /\ Op = "ddr_patch" => /\ out'[Len(out) + 1].size = PatchBytes
                           /\ size' = size + PatchBytes
    /\ DOMAIN cmds' = DOMAIN cmds /\ Len(cmds') = Len(cmds)
    /\ \A a \in DOMAIN cmds : a # i => cmds'[a] = cmds[a]
    /\ cmds'[i].op = Op
    /\ Op = "ddr_patch" => (ver = "v10" /\ cmds'[i].len = 16) \/ cmds'[i] = cmds[i]
    /\ patches' = IF Op = "ddr_patch" /\ bw # NoBlock THEN patches + 1 ELSE patches

LEMMA AppendCmdAppends ==
    ASSUME OneVersion, IInv, ContentInv, AppendCmd \/ AppendPmStart
    PROVE  Appended /\ phase = "serialize" /\ phase' = "serialize" /\ More /\ ~FlushDue
           /\ Op \notin {"blockwrite", "pm_end"}
<1> DEFINE c == Cmd(ver)
           o == [op |-> IF c.op = "blockset" THEN "blockwrite" ELSE c.op,
                 src |-> <<i>>, at |-> size, size |-> SizeOf(ver, c), count |-> 0]
<1>1. /\ phase = "serialize" /\ phase' = "serialize" /\ More /\ ~FlushDue
      /\ AppendItem(ver) /\ Op \notin {"blockwrite", "pm_end"} /\ bw' = bw /\ ver' = ver
      /\ patches' = IF Op = "ddr_patch" /\ bw # NoBlock THEN patches + 1 ELSE patches
      /\ cmds' = [cmds EXCEPT ![i] = c] \/ (Op # "ddr_patch" /\ cmds' = cmds)
  BY DEF AppendCmd, AppendPmStart, Appending
<1>2. AppendedOp
  BY <1>1, AppendsOp
<1>3. out' = Append(out, o) /\ size' = size + SizeOf(ver, c)
  BY <1>1 DEF AppendItem
<1>4. /\ out \in Seq(Item) /\ Len(out) \in Nat /\ DOMAIN out = 1..Len(out) /\ size \in Nat
      /\ i \in DOMAIN cmds /\ cmds[i] \in Command /\ ver \in Versions /\ cmds \in Seq(Command)
  BY <1>1, WalkingContent
<1>5. c \in Command /\ c.op = Op /\ SizeOf(ver, c) \in Nat
  BY <1>4, Sizes DEF Cmd, Op
<1>6. out'[Len(out) + 1].at = size /\ out'[Len(out) + 1].size = SizeOf(ver, c)
  <2>1. out'[Len(out) + 1] = o
    <3> HIDE DEF o
    <3> QED BY <1>3, <1>4
  <2> QED BY <2>1
<1>7. ASSUME Op = "ddr_patch"
      PROVE  SizeOf(ver, c) = PatchBytes /\ ((ver = "v10" /\ c.len = 16) \/ c = cmds[i])
  <2>1. ver \in {"v01", "v10"}
    BY <1>4, SerializeAssumption
  <2>2. cmds[i].len = 40 \/ (ver = "v10" /\ cmds[i].len = 16)
    BY <1>4, <1>7 DEF ContentInv, LenInv, Op
  <2>3. CASE ver = "v01"
    <3>1. c = cmds[i] /\ c.len = 40 /\ c.op = "ddr_patch"
      BY <1>7, <2>2, <2>3 DEF Cmd, Emitted, Op
    <3> QED BY <2>3, <3>1 DEF SizeOf, HdrSize, BlockOps, PayloadOps, PatchBytes, PatchSize
  <2>4. CASE ver = "v10"
    <3>1. c.len = 16 /\ c.op = "ddr_patch"
      BY <1>4, <1>5, <1>7, <2>4 DEF Cmd, Emitted, Op, PatchSize, Command
    <3> QED BY <2>4, <3>1 DEF SizeOf, HdrSize, BlockOps, PayloadOps, PatchBytes, PatchSize
  <2> QED BY <2>1, <2>3, <2>4
<1> HIDE DEF o, c
<1>8. /\ DOMAIN cmds' = DOMAIN cmds /\ Len(cmds') = Len(cmds)
      /\ \A a \in DOMAIN cmds : a # i => cmds'[a] = cmds[a]
      /\ cmds'[i] = c \/ (Op # "ddr_patch" /\ cmds'[i] = cmds[i])
  <2>1. CASE cmds' = [cmds EXCEPT ![i] = c]
    <3>1. cmds' \in Seq(Command) /\ Len(cmds') = Len(cmds)
      BY <1>4, <1>5, <2>1
    <3> QED BY <1>4, <2>1, <3>1
  <2>2. CASE Op # "ddr_patch" /\ cmds' = cmds
    BY <2>2
  <2> QED BY <1>1, <2>1, <2>2
<1>9. cmds'[i].op = Op
  BY <1>5, <1>8 DEF Op
<1> QED BY <1>1, <1>2, <1>3, <1>4, <1>5, <1>6, <1>7, <1>8, <1>9 DEF Appended

LEMMA StepAppendContent ==
    ASSUME OneVersion, IInv, ContentInv, AppendCmd \/ AppendPmStart
    PROVE  ContentInv'
<1> DEFINE n == Len(out)
<1>1. /\ Appended /\ phase = "serialize" /\ phase' = "serialize" /\ More /\ ~FlushDue
      /\ Op \notin {"blockwrite", "pm_end"}
  BY AppendCmdAppends
<1>2. /\ out \in Seq(Item) /\ n \in Nat /\ DOMAIN out = 1..n /\ size \in Nat
      /\ \A k \in DOMAIN out : out[k].src \in Seq(Nat)
      /\ DOMAIN cmds = 1..Len(cmds) /\ Len(cmds) \in Nat
      /\ i \in Nat \ {0} /\ i \in DOMAIN cmds /\ ver \in Versions
      /\ patches \in Nat /\ patches <= n /\ (bw = NoBlock => patches = 0)
      /\ Faithful(out, cmds, i) /\ AllHeld(out, bw.src, cmds, i)
  BY <1>1, WalkingContent
<1>3. /\ DOMAIN out' = 1..(n + 1) /\ Len(out') = n + 1
      /\ \A k \in 1..n : out'[k] = out[k]
      /\ out'[n + 1].src = <<i>> /\ out'[n + 1].at = size /\ i' = i + 1
      /\ bw' = bw /\ ver' = ver /\ size' \in Nat
      /\ Op = "ddr_patch" => /\ out'[n + 1].size = PatchBytes
                             /\ size' = size + PatchBytes
      /\ DOMAIN cmds' = DOMAIN cmds /\ Len(cmds') = Len(cmds)
      /\ \A a \in DOMAIN cmds : a # i => cmds'[a] = cmds[a]
      /\ cmds'[i].op = Op
      /\ Op = "ddr_patch" => (ver = "v10" /\ cmds'[i].len = 16) \/ cmds'[i] = cmds[i]
      /\ patches' = IF Op = "ddr_patch" /\ bw # NoBlock THEN patches + 1 ELSE patches
  BY <1>1 DEF Appended, AppendedOp
<1> HIDE DEF n
<1>4. bw # NoBlock => Op = "ddr_patch"
  BY <1>1 DEF FlushDue
<1>5. LenInv'
  BY <1>2, <1>3 DEF ContentInv, LenInv, Op
<1>6. \A a \in 1..(i - 1) : a \in DOMAIN cmds /\ a # i /\ cmds'[a] = cmds[a]
  BY <1>2, <1>3
<1>7. WalkInv'
  <2>1. Faithful(out', cmds', i + 1) /\ AllHeld(out', bw.src, cmds', i + 1)
    <3>1. /\ \A k \in 1..n : out'[k].src = out[k].src
          /\ \A a \in 1..(i - 1) : cmds'[a] = cmds[a]
          /\ cmds'[i].op # "pm_end" /\ \A k \in 1..n : out[k].src \in Seq(Nat)
      BY <1>1, <1>2, <1>3, <1>6
    <3> QED BY <1>2, <1>3, <3>1, FaithfulAppended
  <2> QED BY <1>1, <1>2, <1>3, <2>1 DEF WalkInv
<1>8. CASE bw = NoBlock
  <2>1. patches' = 0
    BY <1>2, <1>3, <1>8
  <2>2. TailInv'
    BY <1>2, <1>3, <2>1 DEF TailInv
  <2> QED BY <1>1, <1>3, <1>5, <1>7, <1>8, <2>2
          DEF ContentInv, PendingInv, CopyInv, PatchesWhole, OnlyNoOpsAdded
<1>9. CASE bw # NoBlock
  <2>1. /\ Op = "ddr_patch" /\ patches' = patches + 1
        /\ out'[n + 1].size = PatchBytes /\ size' = size + PatchBytes
    BY <1>3, <1>4, <1>9
  <2>2. BlockOf(cmds, bw.src, i) /\ bw.next = LastEnd(cmds, bw.src)
        /\ OlderThan(out, patches, bw.src[1])
    BY <1>1, <1>9 DEF ContentInv, PendingInv
  <2>3. /\ bw.src \in Seq(Nat) /\ bw.src # <<>> /\ Len(bw.src) \in Nat \ {0}
        /\ DOMAIN bw.src = 1..Len(bw.src) /\ bw.src[1] \in 1..(i - 1)
    BY <1>1, <2>2, WalkingContent, SeqFacts DEF BlockOf
  <2>4. \A m \in DOMAIN bw.src : /\ bw.src[m] \in bw.src[1]..(i - 1) /\ bw.src[m] \in 1..(i - 1)
                                 /\ cmds'[bw.src[m]] = cmds[bw.src[m]]
    BY <1>6, <2>2 DEF BlockOf
  <2>5. BlockOf(cmds', bw.src, i + 1)
    <3>1. \A m \in DOMAIN bw.src : /\ bw.src[m] \in bw.src[1]..((i + 1) - 1)
                                   /\ bw.src[m] \in 1..((i + 1) - 1)
                                   /\ cmds'[bw.src[m]].op = "blockwrite"
      BY <1>2, <2>2, <2>3, <2>4 DEF BlockOf
    <3>2. Contiguous(cmds', bw.src)
      <4>1. \A m \in 1..(Len(bw.src) - 1) : m \in DOMAIN bw.src /\ m + 1 \in DOMAIN bw.src
        BY <2>3
      <4> QED BY <2>2, <2>4, <4>1 DEF BlockOf, Contiguous
    <3> QED BY <2>3, <3>1, <3>2 DEF BlockOf
  <2>6. LastEnd(cmds', bw.src) = LastEnd(cmds, bw.src)
    <3>1. Len(bw.src) \in DOMAIN bw.src
      BY <2>3
    <3> QED BY <2>4, <3>1 DEF LastEnd
  <2>7. OlderThan(out', patches + 1, bw.src[1])
    <3>1. \A k \in DOMAIN out' : k <= Len(out') - (patches + 1) =>
             k \in DOMAIN out /\ k <= Len(out) - patches /\ out'[k] = out[k]
      BY <1>2, <1>3 DEF n
    <3> QED BY <2>2, <3>1 DEF OlderThan
  <2>8. PendingInv'
    BY <1>3, <2>1, <2>2, <2>5, <2>6, <2>7 DEF PendingInv
  <2>9. TailInv'
    <3>1. PatchBytes \in Nat /\ PatchBytes' = PatchBytes /\ (PatchBytes = 48 \/ PatchBytes = 24)
      BY <1>3 DEF PatchBytes, PatchSize
    <3>2. ASSUME NEW k \in DOMAIN out', k > Len(out') - patches'
          PROVE  /\ out'[k].size = PatchBytes /\ out'[k].at = size' - (n + 2 - k) * PatchBytes
                 /\ \E p \in 1..i : out'[k].src = <<p>> /\ cmds'[p].op = "ddr_patch"
                                    /\ p > bw.src[1]
      <4>1. CASE k = n + 1
        <5>1. out'[k].at = size' - (n + 2 - k) * PatchBytes
          <6>1. n + 2 - k = 1 /\ out'[k].at = size
            BY <1>2, <1>3, <4>1
          <6> HIDE DEF PatchBytes
          <6> QED BY <1>2, <2>1, <3>1, <6>1
        <5>2. i \in 1..i /\ out'[k].src = <<i>> /\ cmds'[i].op = "ddr_patch" /\ i > bw.src[1]
          BY <1>2, <1>3, <2>1, <2>3, <4>1
        <5> QED BY <2>1, <4>1, <5>1, <5>2
      <4>2. CASE k # n + 1
        <5>1. k \in 1..n /\ k > Len(out) - patches
          BY <1>2, <1>3, <2>1, <3>2, <4>2 DEF n
        <5>2. TailAt(k, n)
          BY <1>1, <1>2, <5>1 DEF ContentInv, TailInv, n
        <5>3. out'[k].size = PatchBytes /\ out'[k].at = size - (n + 1 - k) * PatchBytes
          BY <1>3, <5>1, <5>2 DEF TailAt
        <5>4. out'[k].at = size' - (n + 2 - k) * PatchBytes
          <6> HIDE DEF PatchBytes
          <6> QED BY <1>2, <2>1, <3>1, <5>1, <5>3
        <5>5. PICK p \in 1..(i - 1) : out[k].src = <<p>> /\ cmds[p].op = "ddr_patch" /\ p > bw.src[1]
          BY <5>2 DEF TailAt
        <5>6. p \in 1..i /\ out'[k].src = <<p>> /\ cmds'[p].op = "ddr_patch"
          BY <1>2, <1>3, <1>6, <5>1, <5>5
        <5> QED BY <5>3, <5>4, <5>5, <5>6
      <4> QED BY <4>1, <4>2
    <3>3. Len(out') + 1 = n + 2 /\ i' - 1 = i
      <4>1. n \in Nat /\ Len(out') = n + 1
        BY <1>2, <1>3
      <4>2. i \in Nat /\ i' = i + 1
        BY <1>2, <1>3
      <4> HIDE DEF n
      <4> QED BY ONLY <4>1, <4>2, SMT
    <3>4. ASSUME NEW k \in DOMAIN out', k > Len(out') - patches'
          PROVE  /\ out'[k].size = PatchBytes' /\ out'[k].at = size' - (Len(out') + 1 - k) * PatchBytes'
                 /\ \E p \in 1..(i' - 1) : out'[k].src = <<p>> /\ cmds'[p].op = "ddr_patch"
                                          /\ p > bw'.src[1]
      <4>1. out'[k].at = size' - (Len(out') + 1 - k) * PatchBytes'
        <5>1. Len(out') + 1 - k = n + 2 - k
          BY <3>3, <1>2, <1>3
        <5> QED BY <3>1, <3>2, <3>4, <5>1
      <4> QED BY <1>3, <3>1, <3>2, <3>3, <3>4, <4>1
    <3> QED BY <3>4 DEF TailInv, TailAt
  <2> QED BY <1>1, <1>5, <1>7, <2>8, <2>9 DEF ContentInv, CopyInv, PatchesWhole, OnlyNoOpsAdded
<1> QED BY <1>8, <1>9

LEMMA StepPmEndContent ==
    ASSUME IInv, ContentInv, AppendPmEnd, hdr # 0
    PROVE  ContentInv'
<1>1. /\ Op = "pm_end" /\ phase = "serialize" /\ phase' = "serialize" /\ More /\ bw' = bw
      /\ bw = NoBlock /\ patches' = patches /\ cmds' = cmds /\ i' = i + 1 /\ ver' = ver
      /\ out' = IF loadSeq = 0 THEN out ELSE [out EXCEPT ![hdr].count = loadSeq % SEQ_COUNTS]
  BY DEF AppendPmEnd, Appending, FlushDue
<1>2. /\ out \in Seq(Item) /\ Len(out) \in Nat /\ DOMAIN out = 1..Len(out)
      /\ \A k \in DOMAIN out : out[k] \in Item
      /\ i \in Nat \ {0} /\ i \in DOMAIN cmds /\ ver \in Versions /\ patches = 0
      /\ Len(cmds) \in Nat /\ DOMAIN cmds = 1..Len(cmds)
      /\ Faithful(out, cmds, i) /\ AllHeld(out, <<>>, cmds, i) /\ bw.src = <<>>
  BY <1>1, WalkingContent
<1>3. /\ DOMAIN out' = 1..Len(out) /\ Len(out') = Len(out)
      /\ \A k \in 1..Len(out) : out'[k].src = out[k].src
  <2>1. CASE loadSeq = 0
    BY <1>1, <1>2, <2>1
  <2>2. CASE loadSeq # 0
    <3>1. out' = [k \in 1..Len(out) |->
                    IF k = hdr THEN [out[k] EXCEPT !.count = loadSeq % SEQ_COUNTS] ELSE out[k]]
      BY <1>1, <1>2, <2>2
    <3>2. \A k \in 1..Len(out) : [out[k] EXCEPT !.count = loadSeq % SEQ_COUNTS].src = out[k].src
      BY <1>2 DEF Item
    <3>3. DOMAIN out' = 1..Len(out) /\ Len(out') = Len(out)
      BY <1>2, <3>1
    <3> QED BY <3>1, <3>2, <3>3
  <2> QED BY <2>1, <2>2
<1>4. Faithful(out', cmds, i) /\ AllHeld(out', <<>>, cmds, i)
  <2>1. /\ DOMAIN out' \subseteq Nat /\ 1..Len(out) \subseteq DOMAIN out'
        /\ \A k \in DOMAIN out' : k > Len(out) => out'[k].src = <<>>
        /\ 1..Len(out) = DOMAIN out' \cap 1..Len(out)
        /\ \A k \in DOMAIN out' : k > Len(out) \/ k \in 1..Len(out)
    BY <1>2, <1>3
  <2> QED BY <1>2, <1>3, <2>1, FaithfulPadded
<1>5. Faithful(out', cmds, i + 1) /\ AllHeld(out', <<>>, cmds, i + 1)
  BY <1>1, <1>2, <1>4, FaithfulWalked DEF Op
<1>6. WalkInv'
  BY <1>1, <1>2, <1>5 DEF WalkInv
<1>7. TailInv' /\ PendingInv'
  BY <1>1, <1>2, <1>3 DEF TailInv, PendingInv
<1> QED BY <1>1, <1>6, <1>7 DEF ContentInv, LenInv, CopyInv, PatchesWhole, OnlyNoOpsAdded

LEMMA StepStartContent ==
    ASSUME IInv, ContentInv, StartBlock
    PROVE  ContentInv'
<1>1. /\ Op = "blockwrite" /\ phase = "serialize" /\ phase' = "serialize" /\ More
      /\ bw = NoBlock /\ patches' = patches /\ cmds' = cmds /\ i' = i + 1 /\ ver' = ver
      /\ out' = out
      /\ bw'.src = <<i>> /\ bw'.next = cmds[i].reg + 4 * cmds[i].len
  BY DEF StartBlock, Appending, record
<1>2. /\ Len(out) \in Nat /\ DOMAIN out = 1..Len(out)
      /\ i \in Nat \ {0} /\ i \in DOMAIN cmds /\ ver \in Versions /\ patches = 0
      /\ Len(cmds) \in Nat /\ DOMAIN cmds = 1..Len(cmds)
      /\ Faithful(out, cmds, i) /\ AllHeld(out, <<>>, cmds, i)
  BY <1>1, WalkingContent
<1>3. DOMAIN <<i>> = {1} /\ <<i>>[1] = i /\ Len(<<i>>) = 1 /\ <<i>> # <<>>
  BY Single
<1>4. Faithful(out, cmds, i + 1) /\ AllHeld(out, <<i>>, cmds, i + 1)
  BY <1>2, <1>3, FaithfulWalked
<1>5. WalkInv'
  BY <1>1, <1>2, <1>4 DEF WalkInv
<1>6. BlockOf(cmds, <<i>>, i + 1) /\ LastEnd(cmds, <<i>>) = cmds[i].reg + 4 * cmds[i].len
  <2>1. i \in i..((i + 1) - 1) /\ i \in 1..((i + 1) - 1)
    BY <1>2
  <2>2. Contiguous(cmds, <<i>>)
    BY <1>3 DEF Contiguous
  <2> QED BY <1>1, <1>3, <2>1, <2>2 DEF BlockOf, LastEnd, Op
<1>7. OlderThan(out, 0, i)
  <2>1. \A k \in DOMAIN out : \A m \in DOMAIN out[k].src : out[k].src[m] \in 1..(i - 1)
    BY <1>2 DEF Faithful, Taken
  <2>2. \A a \in 1..(i - 1) : a < i
    BY <1>2
  <2> QED BY <2>1, <2>2 DEF OlderThan
<1>8. TailInv' /\ PendingInv'
  BY <1>1, <1>2, <1>3, <1>6, <1>7 DEF TailInv, PendingInv
<1> QED BY <1>1, <1>5, <1>8 DEF ContentInv, LenInv, CopyInv, PatchesWhole, OnlyNoOpsAdded

(* A command that continues the block joins it.                              *)
LEMMA StepCoalesceContent ==
    ASSUME IInv, ContentInv, Coalesce
    PROVE  ContentInv'
<1> DEFINE q == bw.src
           r == Append(q, i)
<1>1. /\ Op = "blockwrite" /\ phase = "serialize" /\ phase' = "serialize" /\ More
      /\ bw # NoBlock /\ patches' = patches /\ cmds' = cmds /\ i' = i + 1 /\ ver' = ver
      /\ out' = out /\ size' = size /\ cmds[i].reg = bw.next
      /\ bw'.src = r /\ bw'.next = cmds[i].reg + 4 * cmds[i].len
  BY DEF Coalesce, Appending, FlushDue, record, Op
<1>2. /\ Len(out) \in Nat /\ DOMAIN out = 1..Len(out)
      /\ i \in Nat \ {0} /\ i \in DOMAIN cmds /\ ver \in Versions
      /\ patches \in Nat /\ patches <= Len(out)
      /\ Len(cmds) \in Nat /\ DOMAIN cmds = 1..Len(cmds)
      /\ Faithful(out, cmds, i) /\ AllHeld(out, q, cmds, i) /\ q \in Seq(Nat)
  BY <1>1, WalkingContent
<1>3. BlockOf(cmds, q, i) /\ bw.next = LastEnd(cmds, q) /\ OlderThan(out, patches, q[1])
  BY <1>1 DEF ContentInv, PendingInv
<1>4. /\ Len(q) \in Nat \ {0} /\ DOMAIN q = 1..Len(q) /\ q[1] \in 1..(i - 1)
      /\ Len(r) = Len(q) + 1 /\ DOMAIN r = 1..(Len(q) + 1) /\ r # <<>>
      /\ \A m \in 1..Len(q) : r[m] = q[m]
      /\ r[Len(q) + 1] = i
  <2>1. Len(q) \in Nat \ {0} /\ DOMAIN q = 1..Len(q)
    BY <1>2, <1>3, SeqFacts DEF BlockOf
  <2>2. q[1] \in 1..(i - 1)
    BY <1>3, <2>1 DEF BlockOf
  <2>3. r \in Seq(Nat) /\ Len(r) = Len(q) + 1 /\ DOMAIN r = 1..(Len(q) + 1)
        /\ \A m \in 1..Len(q) : r[m] = q[m]
        /\ r[Len(q) + 1] = i
    <3> HIDE DEF q
    <3> QED BY <1>2, <2>1
  <2>4. r # <<>>
    <3> HIDE DEF r
    <3> QED BY <2>1, <2>3, SeqFacts
  <2> QED BY <2>1, <2>2, <2>3, <2>4
<1> HIDE DEF q, r
<1>5. Faithful(out, cmds, i + 1) /\ AllHeld(out, r, cmds, i + 1)
  <2>1. \A m \in DOMAIN q : m \in DOMAIN r /\ r[m] = q[m]
    BY <1>4
  <2>2. Len(q) + 1 \in DOMAIN r /\ r[Len(q) + 1] = i
    BY <1>4
  <2> QED BY <1>2, <2>1, <2>2, FaithfulWalked
<1>6. WalkInv'
  BY <1>1, <1>2, <1>5 DEF WalkInv
<1>7. r[1] = q[1]
  BY <1>4
<1>8. BlockOf(cmds, r, i + 1)
  <2>1. ASSUME NEW m \in DOMAIN r
        PROVE  /\ r[m] \in r[1]..((i + 1) - 1) /\ r[m] \in 1..((i + 1) - 1)
               /\ cmds[r[m]].op = "blockwrite"
    <3>1. CASE m \in 1..Len(q)
      <4>1. r[m] = q[m] /\ q[m] \in q[1]..(i - 1) /\ q[m] \in 1..(i - 1)
            /\ cmds[q[m]].op = "blockwrite"
        BY <1>3, <1>4, <3>1 DEF BlockOf
      <4> QED BY <1>2, <1>4, <1>7, <4>1
    <3>2. CASE m = Len(q) + 1
      BY <1>1, <1>2, <1>4, <1>7, <3>2 DEF Op
    <3> QED BY <1>4, <2>1, <3>1, <3>2
  <2>2. Contiguous(cmds, r)
    <3>1. ASSUME NEW m \in 1..(Len(r) - 1)
          PROVE  cmds[r[m + 1]].reg = cmds[r[m]].reg + 4 * cmds[r[m]].len
      <4>1. CASE m = Len(q)
        <5>1. r[m + 1] = i /\ r[m] = q[Len(q)]
          BY <1>4, <4>1
        <5> QED BY <1>1, <1>3, <5>1 DEF LastEnd
      <4>2. CASE m # Len(q)
        <5>0. Len(r) - 1 = Len(q) /\ Len(q) \in Nat
          BY <1>4
        <5>1. m \in 1..(Len(q) - 1) /\ m \in 1..Len(q) /\ m + 1 \in 1..Len(q)
          BY <4>2, <5>0
        <5>2. r[m] = q[m] /\ r[m + 1] = q[m + 1]
          BY <1>4, <5>1
        <5> QED BY <1>3, <5>1, <5>2 DEF BlockOf, Contiguous
      <4> QED BY <4>1, <4>2
    <3> QED BY <3>1 DEF Contiguous
  <2> QED BY <1>4, <2>1, <2>2 DEF BlockOf
<1>9. bw'.next = LastEnd(cmds, r)
  BY <1>1, <1>4 DEF LastEnd
<1>10. PendingInv'
  BY <1>1, <1>3, <1>7, <1>8, <1>9 DEF PendingInv
<1>11. TailInv'
  <2>1. ASSUME NEW k \in DOMAIN out, TailAt(k, Len(out))
        PROVE  TailAt(k, Len(out))'
    <3>1. PICK p \in 1..(i - 1) : out[k].src = <<p>> /\ cmds[p].op = "ddr_patch" /\ p > q[1]
      BY <2>1 DEF TailAt, q
    <3>2. p \in 1..(i' - 1) /\ p > bw'.src[1]
      BY <1>1, <1>2, <1>7, <3>1
    <3> QED BY <1>1, <2>1, <3>1, <3>2 DEF TailAt, PatchBytes
  <2> QED BY <1>1, <2>1 DEF ContentInv, TailInv
<1> QED BY <1>1, <1>6, <1>10, <1>11 DEF ContentInv, LenInv, CopyInv, PatchesWhole, OnlyNoOpsAdded

(* The patches behind a block are whole: it is put before the first of them. *)
LEMMA FlushIsWhole ==
    ASSUME IInv, ContentInv, FlushBlock
    PROVE  phase' # "torn"
<1> DEFINE n == Len(out)
           k == n - patches + 1
<1>1. /\ phase = "serialize"
      /\ patches > 0 /\ n >= patches /\ out[k].at = size - patches * PatchBytes => phase' = phase
      /\ ~(patches > 0) => phase' = phase
  BY DEF FlushBlock, FlushDue, PatchBytes
<1>2. n \in Nat /\ DOMAIN out = 1..n /\ patches \in Nat /\ patches <= n
  BY <1>1, WalkingContent
<1>3. CASE patches > 0
  <2>1. k \in DOMAIN out /\ k > Len(out) - patches /\ n + 1 - k = patches
    BY <1>2, <1>3
  <2>2. TailAt(k, n)
    BY <1>1, <2>1 DEF ContentInv, TailInv
  <2>3. out[k].at = size - patches * PatchBytes
    BY <2>1, <2>2 DEF TailAt
  <2> QED BY <1>1, <1>2, <1>3, <2>3
<1> QED BY <1>1, <1>3

LEMMA StepFlushContent ==
    ASSUME IInv, ContentInv, FlushBlock
    PROVE  ContentInv'
<1>1. /\ phase = "serialize" /\ phase' = "serialize" /\ bw # NoBlock /\ bw' = NoBlock
      /\ patches' = 0 /\ cmds' = cmds /\ i' = i /\ ver' = ver
  BY FlushIsWhole, FlushInserts DEF FlushBlock, FlushDue, record
<1>2. /\ Len(out) \in Nat /\ DOMAIN out = 1..Len(out) /\ out \in Seq(Item)
      /\ i \in Nat \ {0} /\ patches \in Nat /\ patches <= Len(out) /\ bw.src \in Seq(Nat)
      /\ Faithful(out, cmds, i) /\ AllHeld(out, bw.src, cmds, i)
      /\ ver \in Versions /\ i <= Len(cmds) + 1
  BY <1>1, WalkingContent
<1>3. PICK m \in Nat, b \in Item :
         /\ Len(out) = m + patches /\ out' = Inserted(out, m, patches, b)
         /\ b.op = "blockwrite" /\ b.src = bw.src
  BY FlushIsWhole, FlushInserts
<1>4. InsertedAt(out', out, m, patches, b)
  BY <1>2, <1>3, InsertElements
<1>5. /\ Len(out') = m + patches + 1 /\ DOMAIN out' = 1..(m + patches + 1)
      /\ \A k \in 1..m : out'[k].src = out[k].src
      /\ out'[m + 1].src = bw.src
      /\ \A k \in (m + 1)..(m + patches) : out'[k + 1].src = out[k].src
  BY <1>3, <1>4 DEF InsertedAt
<1>6. BlockOf(cmds, bw.src, i) /\ OlderThan(out, patches, bw.src[1])
  BY <1>1 DEF ContentInv, PendingInv
<1>7. \A k \in 1..m : \A j \in DOMAIN out[k].src : out[k].src[j] < bw.src[1]
  <2>1. \A k \in 1..m : k \in DOMAIN out /\ k <= Len(out) - patches
    BY <1>2, <1>3
  <2> QED BY <1>6, <2>1 DEF OlderThan
<1>8. \A k \in (m + 1)..(m + patches) : \E a \in 1..(i - 1) :
         out[k].src = <<a>> /\ cmds[a].op = "ddr_patch" /\ a > bw.src[1]
  <2>1. \A k \in (m + 1)..(m + patches) : k \in DOMAIN out /\ k > Len(out) - patches
    BY <1>2, <1>3
  <2> QED BY <1>1, <2>1 DEF ContentInv, TailInv, TailAt
<1>9. Faithful(out', cmds, i) /\ AllHeld(out', <<>>, cmds, i)
  <2>1. DOMAIN out = 1..(m + patches)
    BY <1>2, <1>3
  <2>2. BlockInserted(out, out', m, patches, cmds, i, bw.src)
    BY <1>2, <1>5, <1>6, <1>7, <1>8, <2>1 DEF BlockInserted
  <2> QED BY <1>2, <2>2, FaithfulInserted
<1>10. WalkInv'
  BY <1>1, <1>2, <1>9 DEF WalkInv, NoBlock
<1>11. TailInv' /\ PendingInv'
  BY <1>1, <1>2, <1>3, <1>5 DEF TailInv, PendingInv
<1> QED BY <1>1, <1>10, <1>11 DEF ContentInv, LenInv, CopyInv, PatchesWhole, OnlyNoOpsAdded

LEMMA StepPadContent ==
    ASSUME IInv, ContentInv, PadUpdateReg, phase' = "serialize"
    PROVE  ContentInv'
<1> DEFINE n == Len(out)
<1>1. /\ phase = "serialize" /\ bw = NoBlock /\ bw' = NoBlock /\ patches' = patches
      /\ cmds' = cmds /\ i' = i /\ ver' = ver
  BY DEF PadUpdateReg, PadDue, FlushDue, record
<1>2. /\ n \in Nat /\ DOMAIN out = 1..n /\ out \in Seq(Item) /\ i \in Nat \ {0}
      /\ patches = 0 /\ size \in Nat /\ bw.src = <<>> /\ ver \in Versions /\ i <= Len(cmds) + 1
      /\ Faithful(out, cmds, i) /\ AllHeld(out, <<>>, cmds, i)
  BY <1>1, WalkingContent
<1>3. PICK q \in Nat : out' = out \o NoOps(size, q)
  BY PadAppends
<1> DEFINE t == NoOps(size, q)
<1>4. t \in Seq(Item) /\ Len(t) = q /\ \A k \in 1..q : t[k].src = <<>>
  <2>1. t \in Seq(Item) /\ Len(t) = q
    BY <1>2, NoOpsFacts
  <2> QED BY <2>1 DEF NoOps
<1> HIDE DEF t
<1>5. /\ Len(out') = n + q /\ DOMAIN out' = 1..(n + q)
      /\ \A k \in 1..(n + q) : out'[k] = IF k <= n THEN out[k] ELSE t[k - n]
  <2>1. out' = out \o t /\ out' \in Seq(Item) /\ Len(out') = Len(out) + Len(t)
        /\ \A k \in 1..(Len(out) + Len(t)) :
              out'[k] = IF k <= Len(out) THEN out[k] ELSE t[k - Len(out)]
    BY <1>2, <1>3, <1>4, ConcatProperties DEF t
  <2> QED BY <1>4, <2>1, SeqFacts
<1> HIDE DEF n
<1>6. Faithful(out', cmds, i) /\ AllHeld(out', <<>>, cmds, i)
  <2>1. /\ DOMAIN out' \subseteq Nat /\ 1..n \subseteq DOMAIN out'
        /\ 1..n = DOMAIN out' \cap 1..n
        /\ \A k \in DOMAIN out' : k > n \/ k \in 1..n
        /\ \A k \in 1..n : out'[k].src = out[k].src
    BY <1>2, <1>5
  <2>2. ASSUME NEW k \in DOMAIN out', k > n
        PROVE  out'[k].src = <<>>
    <3>1. k - n \in 1..q /\ out'[k] = t[k - n]
      BY <1>2, <1>5, <2>2
    <3> QED BY <1>4, <3>1
  <2> QED BY <1>2, <2>1, <2>2, FaithfulPadded
<1>7. WalkInv'
  BY <1>1, <1>2, <1>6 DEF WalkInv, NoBlock
<1>8. TailInv' /\ PendingInv'
  BY <1>1, <1>2, <1>5 DEF TailInv, PendingInv
<1> QED BY <1>1, <1>7, <1>8 DEF ContentInv, LenInv, CopyInv, PatchesWhole, OnlyNoOpsAdded

LEMMA StepCompleteContent ==
    ASSUME IInv, ContentInv, Complete
    PROVE  ContentInv'
<1>1. /\ phase = "serialize" /\ phase' = "done" /\ ~More /\ bw = NoBlock /\ bw' = bw
      /\ cmds' = cmds /\ i' = i /\ out' = out /\ ver' = ver
  BY DEF Complete, FlushDue, record
<1>2. i = Len(cmds) + 1 /\ Faithful(out, cmds, i) /\ AllHeld(out, bw.src, cmds, i)
  BY <1>1, WalkingContent DEF More
<1>3. WalkInv'
  BY <1>1, <1>2 DEF WalkInv
<1> QED BY <1>1, <1>3
        DEF ContentInv, LenInv, TailInv, PendingInv, CopyInv, PatchesWhole, OnlyNoOpsAdded

----------------------------------------------------------------------------
(* Copying operations: their place among those that are no NOOP.             *)

LEMMA RankSplit ==
    ASSUME NEW s, NEW a \in Nat, NEW j \in Nat
    PROVE  Rank(s, a + j) = Rank(s, a) + Cardinality({m \in 1..j : Kept(s[a + m])})
<1> DEFINE A == {m \in 1..a : Kept(s[m])}
           B == {m \in (a + 1)..(a + j) : Kept(s[m])}
           C == {m \in 1..j : Kept(s[a + m])}
           f == [m \in C |-> a + m]
<1>1. IsFiniteSet(1..a) /\ IsFiniteSet(1..j)
  BY FS_Interval
<1>2. IsFiniteSet(A) /\ IsFiniteSet(C)
  <2>1. A \in SUBSET (1..a) /\ C \in SUBSET (1..j)
    OBVIOUS
  <2> QED BY <1>1, <2>1, FS_Subset
<1>3. ExistsBijection(C, B)
  <2>1. f \in [C -> B]
    OBVIOUS
  <2>2. \A x, y \in C : f[x] = f[y] => x = y
    OBVIOUS
  <2>3. ASSUME NEW y \in B PROVE \E x \in C : f[x] = y
    <3>1. y - a \in 1..j /\ a + (y - a) = y
      OBVIOUS
    <3>2. y - a \in C
      BY <3>1
    <3> QED BY <3>1, <3>2
  <2>4. f \in Bijection(C, B)
    <3> HIDE DEF f, B, C
    <3> QED BY <2>1, <2>2, <2>3 DEF Bijection, Injection, Surjection, IsInjective
  <2> QED BY <2>4 DEF ExistsBijection
<1>4. IsFiniteSet(B) /\ Cardinality(B) = Cardinality(C)
  <2> HIDE DEF B, C
  <2> QED BY <1>2, <1>3, FS_Bijection
<1>5. A \cup B = {m \in 1..(a + j) : Kept(s[m])} /\ A \cap B = {}
  OBVIOUS
<1>6. Cardinality(A \cup B) = Cardinality(A) + Cardinality(B) - Cardinality(A \cap B)
  <2> HIDE DEF A, B
  <2> QED BY <1>2, <1>4, FS_Union
<1>7. Cardinality(A) \in Nat /\ Cardinality(C) \in Nat /\ Cardinality(A \cap B) = 0
  <2> HIDE DEF A, B, C
  <2> QED BY <1>2, <1>5, FS_CardinalityType, FS_EmptySet
<1>8. Rank(s, a) = Cardinality(A) /\ Rank(s, a + j) = Cardinality(A \cup B)
  BY <1>5 DEF Rank
<1> HIDE DEF A, B, C
<1>9. Rank(s, a + j) = Rank(s, a) + Cardinality(C)
  BY <1>4, <1>6, <1>7, <1>8
<1> QED BY <1>9 DEF C

(* The n operations behind the first a of s and behind the first b of t.     *)
Alike(s, a, t, b, n) ==
    \A j \in 1..n : /\ s[a + j].op = t[b + j].op /\ s[a + j].src = t[b + j].src
                    /\ s[a + j].size = t[b + j].size

RanksAgree(s, a, t, b, j) == Rank(s, a + j) = Rank(t, b + j)

LEMMA RanksGrow ==
    ASSUME NEW s, NEW t, NEW a \in Nat, NEW b \in Nat, NEW n \in Nat,
           SameTo(s, a, t, b), Alike(s, a, t, b, n), NEW j \in Nat, j <= n
    PROVE  RanksAgree(s, a, t, b, j)
<1>1. {m \in 1..j : Kept(s[a + m])} = {m \in 1..j : Kept(t[b + m])}
  <2>1. \A m \in 1..j : m \in 1..n
    OBVIOUS
  <2>2. \A m \in 1..j : Kept(s[a + m]) <=> Kept(t[b + m])
    BY <2>1 DEF Alike, Kept
  <2> QED BY <2>2
<1>2. Rank(s, a) = Rank(t, b)
  BY DEF SameTo
<1>3. Rank(s, a + j) = Rank(s, a) + Cardinality({m \in 1..j : Kept(s[a + m])})
  BY RankSplit
<1>4. Rank(t, b + j) = Rank(t, b) + Cardinality({m \in 1..j : Kept(t[b + m])})
  BY RankSplit
<1> QED BY <1>1, <1>2, <1>3, <1>4 DEF RanksAgree

LEMMA ShapesGrow ==
    ASSUME NEW s, NEW t, NEW a \in Nat, NEW b \in Nat, NEW n \in Nat,
           SameTo(s, a, t, b), Alike(s, a, t, b, n)
    PROVE  ShapeTo(s, a + n) \subseteq ShapeTo(t, b + n)
<1>1. ASSUME NEW x \in ShapeTo(s, a + n) PROVE x \in ShapeTo(t, b + n)
  <2>1. PICK k \in 1..(a + n) :
           /\ Kept(s[k])
           /\ x = [nth |-> Rank(s, k), op |-> s[k].op, src |-> s[k].src, size |-> s[k].size]
    BY DEF ShapeTo
  <2>2. CASE k <= a
    <3>1. k \in 1..a
      BY <2>2
    <3>2. x \in ShapeTo(s, a)
      BY <2>1, <3>1 DEF ShapeTo
    <3>3. x \in ShapeTo(t, b)
      BY <3>2 DEF SameTo
    <3>4. \A m \in 1..b : m \in 1..(b + n)
      OBVIOUS
    <3> QED BY <3>3, <3>4 DEF ShapeTo
  <2>3. CASE ~(k <= a)
    <3> DEFINE j == k - a
    <3>1. j \in 1..n /\ j \in 0..n /\ a + j = k /\ b + j \in 1..(b + n)
      BY <2>3
    <3> HIDE DEF j
    <3>2. s[k].op = t[b + j].op /\ s[k].src = t[b + j].src /\ s[k].size = t[b + j].size
      BY <3>1 DEF Alike
    <3>3. Rank(s, a + j) = Rank(t, b + j)
      <4>1. j \in Nat /\ j <= n
        BY <3>1
      <4>2. RanksAgree(s, a, t, b, j)
        BY <4>1, RanksGrow
      <4> QED BY <4>2 DEF RanksAgree
    <3>4. Rank(s, k) = Rank(t, b + j) /\ Kept(t[b + j])
      BY <2>1, <3>1, <3>2, <3>3 DEF Kept
    <3> QED BY <2>1, <3>1, <3>2, <3>4 DEF ShapeTo
  <2> QED BY <2>2, <2>3
<1> QED BY <1>1

LEMMA ExtendBoth ==
    ASSUME NEW s, NEW t, NEW a \in Nat, NEW b \in Nat, NEW n \in Nat,
           SameTo(s, a, t, b), Alike(s, a, t, b, n)
    PROVE  SameTo(s, a + n, t, b + n)
<1>1. SameTo(t, b, s, a) /\ Alike(t, b, s, a, n)
  BY DEF SameTo, Alike
<1>2. ShapeTo(s, a + n) = ShapeTo(t, b + n)
  <2>1. ShapeTo(s, a + n) \subseteq ShapeTo(t, b + n)
    BY ShapesGrow
  <2>2. ShapeTo(t, b + n) \subseteq ShapeTo(s, a + n)
    BY <1>1, ShapesGrow
  <2> QED BY <2>1, <2>2
<1>4. Rank(s, a + n) = Rank(t, b + n)
  <2>1. n \in Nat /\ n <= n
    OBVIOUS
  <2>2. RanksAgree(s, a, t, b, n)
    BY <2>1, RanksGrow
  <2> QED BY <2>2 DEF RanksAgree
<1> QED BY <1>2, <1>4 DEF SameTo

(* NOOPs behind t are not seen, nor is what replaces t if it begins as t.    *)
LEMMA ExtendNoOps ==
    ASSUME NEW s, NEW a, NEW t, NEW u, NEW b \in Nat, NEW n \in Nat, SameTo(s, a, t, b),
           \A k \in 1..b : u[k] = t[k], \A k \in (b + 1)..(b + n) : u[k].op = "noop"
    PROVE  SameTo(s, a, u, b + n)
<1>1. ASSUME NEW k \in 1..b
      PROVE  {m \in 1..k : Kept(u[m])} = {m \in 1..k : Kept(t[m])}
  <2>1. \A m \in 1..k : m \in 1..b
    OBVIOUS
  <2> QED BY <2>1
<1>2. {m \in 1..(b + n) : Kept(u[m])} = {m \in 1..b : Kept(t[m])}
  <2>1. \A m \in 1..(b + n) : m \in 1..b \/ m \in (b + 1)..(b + n)
    OBVIOUS
  <2>2. \A m \in (b + 1)..(b + n) : ~Kept(u[m])
    BY DEF Kept
  <2>3. \A m \in 1..b : m \in 1..(b + n)
    OBVIOUS
  <2> QED BY <2>1, <2>2, <2>3
<1>3. Rank(u, b + n) = Rank(t, b)
  BY <1>2 DEF Rank
<1>4. \A k \in 1..b : Rank(u, k) = Rank(t, k) /\ u[k] = t[k]
  BY <1>1 DEF Rank
<1>5. ShapeTo(u, b + n) = ShapeTo(t, b)
  BY <1>2, <1>4 DEF ShapeTo
<1> QED BY <1>3, <1>5 DEF SameTo

(* The copied chunk is what was read, but for the offsets.                   *)
LEMMA CopiedAlike ==
    ASSUME Copying
    PROVE  /\ i - chunk - 1 \in Nat
           /\ \A j \in 1..chunk :
                 LET o == src[i - chunk - 1 + j]
                 IN Copied[j].op = o.op /\ Copied[j].src = o.src /\ Copied[j].size = o.size
<1>1. /\ chunk \in Nat /\ i \in Nat /\ chunk < i /\ Len(src) \in Nat /\ i <= Len(src) + 1
      /\ \A k \in 1..Len(src) : src[k] \in Item
  BY DEF Copying
<1>2. ASSUME NEW j \in 1..chunk
      PROVE  LET o == src[i - chunk - 1 + j]
             IN Copied[j].op = o.op /\ Copied[j].src = o.src /\ Copied[j].size = o.size
  <2>1. i - chunk - 1 + j = i - chunk + j - 1 /\ i - chunk + j - 1 \in 1..Len(src)
    BY <1>1
  <2>2. src[i - chunk + j - 1] \in Item
    BY <1>1, <2>1
  <2>3. Copied[j] = [src[i - chunk + j - 1] EXCEPT
                        !.at = size + src[i - chunk + j - 1].at - src[i - chunk].at]
    BY DEF Copied
  <2> QED BY <2>1, <2>2, <2>3 DEF Item
<1> QED BY <1>1, <1>2

LEMMA ChunkCopied ==
    ASSUME IInv, ContentInv, phase = "copy"
    PROVE  /\ out \o Copied \in Seq(Item) /\ Len(out \o Copied) = Len(out) + chunk
           /\ SameTo(src, i - 1, out \o Copied, Len(out) + chunk)
           /\ i \in Nat /\ i <= Len(src) + 1 /\ Len(src) \in Nat /\ DOMAIN src = 1..Len(src)
           /\ Len(out) \in Nat /\ chunk \in Nat
<1> DEFINE t == out \o Copied
           n == Len(out)
           a == i - chunk - 1
<1>1. Copying
  BY CopyingFacts
<1>2. /\ out \in Seq(Item) /\ n \in Nat /\ chunk \in Nat /\ i \in Nat /\ i <= Len(src) + 1
      /\ Len(src) \in Nat
  BY <1>1 DEF Copying
<1>3. DOMAIN src = 1..Len(src)
  BY SeqFacts DEF IInv, TypeOK
<1>4. Copied \in Seq(Item) /\ Len(Copied) = chunk
  BY <1>1, CopiedFacts DEF CopiedInv
<1>5. /\ t \in Seq(Item) /\ Len(t) = n + chunk
      /\ \A k \in 1..n : t[k] = out[k]
      /\ \A j \in 1..chunk : t[n + j] = Copied[j]
  <2> DEFINE q == Copied
  <2>1. /\ t \in Seq(Item) /\ Len(t) = Len(out) + Len(q)
        /\ \A k \in 1..(Len(out) + Len(q)) : t[k] = IF k <= Len(out) THEN out[k] ELSE q[k - Len(out)]
    BY <1>2, <1>4, ConcatProperties
  <2> HIDE DEF t, q
  <2>2. \A j \in 1..chunk : n + j \in 1..(n + chunk) /\ ~(n + j <= n) /\ (n + j) - n = j
    BY <1>2
  <2>3. /\ t \in Seq(Item) /\ Len(t) = n + chunk
        /\ \A k \in 1..(n + chunk) : t[k] = IF k <= n THEN out[k] ELSE q[k - n]
    BY <1>4, <2>1 DEF q
  <2>4. \A j \in 1..chunk : t[n + j] = q[j]
    BY <2>2, <2>3
  <2>5. \A k \in 1..n : k \in 1..(n + chunk) /\ k <= n
    BY <1>2
  <2> QED BY <2>3, <2>4, <2>5 DEF q
<1>6. a \in Nat /\ a + chunk = i - 1
  BY <1>1, <1>2, CopiedAlike
<1>7. SameTo(src, a, out, n)
  BY DEF ContentInv, CopyInv
<1> HIDE DEF t
<1>8. Alike(src, a, t, n, chunk)
  <2>1. ASSUME NEW j \in 1..chunk
        PROVE  /\ src[a + j].op = t[n + j].op /\ src[a + j].src = t[n + j].src
               /\ src[a + j].size = t[n + j].size
    BY <1>1, <1>5, CopiedAlike
  <2> QED BY <2>1 DEF Alike
<1> HIDE DEF a, n
<1>9. SameTo(src, a, t, n)
  <2>1. SameTo(src, a, t, n + 0)
    <3>1. 0 \in Nat /\ \A k \in (n + 1)..(n + 0) : t[k].op = "noop"
      BY <1>2
    <3> QED BY <1>2, <1>5, <1>7, <3>1, ExtendNoOps
  <2> QED BY <1>2, <2>1
<1>10. SameTo(src, a + chunk, t, n + chunk)
  BY <1>2, <1>6, <1>8, <1>9, ExtendBoth
<1> QED BY <1>2, <1>3, <1>5, <1>6, <1>10 DEF t, n

LEMMA StepCopyAndPadContent ==
    ASSUME IInv, ContentInv, CopyAndPad
    PROVE  ContentInv'
<1> DEFINE at == size + ChunkBytes
           r == NextBoundary(at) - at
           q == r \div 4
           t == out \o Copied
           u == NoOps(at, q)
<1>1. /\ phase = "copy" /\ cmds' = cmds /\ ver' = ver /\ src' = src /\ i' = i /\ chunk' = 0
      /\ phase' \in {"copy", "stale", "unserved"} /\ (phase' = "copy" => r % 4 = 0 /\ out' = t \o u)
  BY DEF CopyAndPad, ChunkSpills, record
<1>2. LenInv'
  BY <1>1 DEF ContentInv, LenInv
<1>3. CASE phase' # "copy"
  BY <1>1, <1>2, <1>3
     DEF ContentInv, TailInv, PendingInv, WalkInv, CopyInv, PatchesWhole, OnlyNoOpsAdded
<1>4. CASE phase' = "copy"
  <2>1. at \in Nat
    BY <1>1, CopyingFacts, WithChunkFacts DEF WithChunk
  <2>2. r \in Nat
    <3>1. NextBoundary(at) \in Nat /\ NextBoundary(at) > at
      BY <2>1, Pages
    <3> HIDE DEF at
    <3> QED BY <2>1, <3>1
  <2>3. q \in Nat
    <3> HIDE DEF r
    <3> QED BY <2>2
  <2>4. /\ t \in Seq(Item) /\ Len(t) = Len(out) + chunk /\ Len(t) \in Nat
        /\ SameTo(src, i - 1, t, Len(t)) /\ i \in Nat
    BY <1>1, ChunkCopied
  <2>5. u \in Seq(Item) /\ Len(u) = q /\ DOMAIN u = 1..q /\ \A k \in DOMAIN u : u[k].op = "noop"
    <3> HIDE DEF at, q
    <3>1. u \in Seq(Item) /\ Len(u) = q /\ \A k \in DOMAIN u : u[k].op = "noop"
      BY <2>1, <2>3, NoOpsFacts
    <3> QED BY <3>1, SeqFacts
  <2> HIDE DEF t, u, q
  <2>6. /\ Len(out') = Len(t) + q
        /\ \A k \in 1..Len(t) : out'[k] = t[k]
        /\ \A k \in (Len(t) + 1)..(Len(t) + q) : out'[k].op = "noop"
    <3> DEFINE n == Len(t)
    <3>1. /\ Len(t \o u) = Len(t) + Len(u)
          /\ \A k \in 1..(Len(t) + Len(u)) :
                (t \o u)[k] = IF k <= Len(t) THEN t[k] ELSE u[k - Len(t)]
      BY <2>4, <2>5, ConcatProperties
    <3>2. out' = t \o u
      BY <1>1, <1>4
    <3>3. /\ n \in Nat /\ Len(out') = n + q
          /\ \A k \in 1..(n + q) : out'[k] = IF k <= n THEN t[k] ELSE u[k - n]
      BY <2>4, <2>5, <3>1, <3>2
    <3> HIDE DEF n
    <3>4. \A k \in 1..n : out'[k] = t[k]
      BY <2>3, <3>3
    <3>5. ASSUME NEW k \in (n + 1)..(n + q) PROVE out'[k].op = "noop"
      <4>1. k - n \in 1..q /\ out'[k] = u[k - n]
        BY <2>3, <3>3
      <4> QED BY <2>5, <4>1
    <3> QED BY <3>3, <3>4, <3>5 DEF n
  <2>7. SameTo(src, i - 1, out', Len(t) + q)
    BY <2>3, <2>4, <2>6, ExtendNoOps
  <2>8. CopyInv'
    <3>1. i' - chunk' - 1 = i - 1
      BY <1>1, <2>4
    <3> QED BY <1>1, <2>6, <2>7, <3>1 DEF CopyInv
  <2> QED BY <1>1, <1>2, <1>4, <2>8
          DEF ContentInv, TailInv, PendingInv, WalkInv, PatchesWhole, OnlyNoOpsAdded
<1> QED BY <1>3, <1>4

LEMMA StepCopyRestContent ==
    ASSUME IInv, ContentInv, CopyRest
    PROVE  ContentInv'
<1> DEFINE t == out \o Copied
<1>1. /\ phase = "copy" /\ i > Len(src) /\ phase' = "reserialized" /\ cmds' = cmds /\ ver' = ver
      /\ src' = src /\ out' = t
  BY DEF CopyRest, record
<1>2. /\ t \in Seq(Item) /\ SameTo(src, i - 1, t, Len(t)) /\ i \in Nat /\ i <= Len(src) + 1
      /\ Len(src) \in Nat /\ DOMAIN src = 1..Len(src)
  BY <1>1, ChunkCopied
<1> HIDE DEF t
<1>3. i - 1 = Len(src) /\ DOMAIN t = 1..Len(t)
  BY <1>1, <1>2, SeqFacts
<1>4. Shape(t) = ShapeTo(t, Len(t)) /\ Shape(src) = ShapeTo(src, Len(src))
  BY <1>2, <1>3 DEF Shape, ShapeTo
<1>5. Shape(t) = Shape(src)
  BY <1>2, <1>3, <1>4 DEF SameTo
<1>6. OnlyNoOpsAdded'
  BY <1>1, <1>5 DEF OnlyNoOpsAdded
<1> QED BY <1>1, <1>6
        DEF ContentInv, LenInv, TailInv, PendingInv, WalkInv, CopyInv, PatchesWhole

----------------------------------------------------------------------------
(* Every step.                                                               *)

(* Outside of the walk, of a finished binary and of the copy nothing is said. *)
LEMMA QuietContent ==
    ASSUME LenInv', phase' \notin {"serialize", "done", "copy", "torn", "reserialized"}
    PROVE  ContentInv'
BY DEF ContentInv, TailInv, PendingInv, WalkInv, CopyInv, PatchesWhole, OnlyNoOpsAdded

LEMMA UnchangedContent ==
    ASSUME ContentInv, UNCHANGED <<record, phase, walk, reser>>
    PROVE  ContentInv'
<1>1. /\ cmds' = cmds /\ phase' = phase /\ ver' = ver /\ size' = size /\ chunk' = chunk
      /\ i' = i /\ out' = out /\ bw' = bw /\ patches' = patches /\ src' = src
  BY DEF record, walk, reser
<1> QED BY <1>1
  DEF ContentInv, LenInv, TailInv, TailAt, PatchBytes, PendingInv, WalkInv, CopyInv,
      PatchesWhole, OnlyNoOpsAdded

LEMMA ClientContent ==
    ASSUME OneVersion, IInv, ContentInv, Client
    PROVE  ContentInv'
<1>1. ASSUME NEW c \in Commands, Buffer(c) PROVE ContentInv'
  <2>1. /\ phase' = "record" /\ cmds' = Append(cmds, c) /\ ver' = ver
        /\ cmds \in Seq(Command) /\ c \in Command /\ (c.op = "ddr_patch" => c.len = 40)
    BY <1>1, SerializeAssumption DEF Buffer, walk, IInv, TypeOK
  <2>2. LenInv'
    BY <2>1 DEF ContentInv, LenInv
  <2> QED BY <2>1, <2>2, QuietContent
<1>2. ASSUME NEW v \in Versions, ExportSerialized(v) PROVE ContentInv'
  <2>1. /\ phase' = "serialize" /\ ver' = v /\ ver \in {"none", v} /\ i' = 1 /\ out' = <<>>
        /\ bw' = NoBlock /\ patches' = 0 /\ cmds' = cmds
    BY <1>2 DEF ExportSerialized
  <2>2. DOMAIN out' = {} /\ Len(cmds) \in Nat
    BY <2>1 DEF IInv, TypeOK
  <2>3. LenInv'
    BY <2>1 DEF ContentInv, LenInv
  <2>4. WalkInv'
    <3>1. Faithful(out', cmds', 1) /\ AllHeld(out', bw'.src, cmds', 1)
      <4>1. ~\E a : a \in 1..(1 - 1)
        OBVIOUS
      <4> QED BY <2>2, <4>1 DEF Faithful, Taken, Once, Runs, Passing, AllHeld
    <3> QED BY <2>1, <2>2, <3>1 DEF WalkInv
  <2> QED BY <2>1, <2>2, <2>3, <2>4
          DEF ContentInv, TailInv, PendingInv, CopyInv, PatchesWhole, OnlyNoOpsAdded
<1>3. ASSUME FreeSerialized \/ (\E s : Reserialize(s)) PROVE ContentInv'
  <2>1. phase' \in {"record", "scan"} /\ cmds' = cmds /\ ver' = ver
    BY <1>3 DEF FreeSerialized, Reserialize, record
  <2>2. LenInv'
    BY <2>1 DEF ContentInv, LenInv
  <2> QED BY <2>1, <2>2, QuietContent
<1> QED BY <1>1, <1>2, <1>3 DEF Client

LEMMA ReserializerContent ==
    ASSUME IInv, ContentInv, Reserializer
    PROVE  ContentInv'
<1>1. CASE Scan
  <2>1. phase' \in {"unserved", "scan"} /\ cmds' = cmds /\ ver' = ver
    BY <1>1 DEF Scan, record
  <2>2. LenInv'
    BY <2>1 DEF ContentInv, LenInv
  <2> QED BY <2>1, <2>2, QuietContent
<1>2. CASE EndScan
  <2>1. /\ phase = "scan" /\ phase' \in {"kept", "copy"} /\ cmds' = cmds /\ ver' = ver
        /\ out' = out /\ src' = src /\ chunk' = chunk /\ (phase' = "copy" => i' = 1)
    BY <1>2 DEF EndScan, record, reser
  <2>2. LenInv'
    BY <2>1 DEF ContentInv, LenInv
  <2>3. out = <<>> /\ chunk = 0
    BY <2>1 DEF IInv, CountInv
  <2>4. ASSUME phase' = "copy" PROVE CopyInv'
    <3>1. i' - chunk' - 1 = 0 /\ Len(out') = 0
      BY <2>1, <2>3, <2>4
    <3>2. \A s : {m \in 1..0 : Kept(s[m])} = {}
      OBVIOUS
    <3>3. SameTo(src', 0, out', 0)
      BY <3>2 DEF SameTo, Rank, ShapeTo
    <3> QED BY <3>1, <3>3 DEF CopyInv
  <2>5. CASE phase' = "copy"
    BY <2>2, <2>4, <2>5
       DEF ContentInv, TailInv, PendingInv, WalkInv, PatchesWhole, OnlyNoOpsAdded
  <2> QED BY <2>1, <2>2, <2>5, QuietContent
<1>3. CASE JoinChunk
  <2>1. /\ phase = "copy" /\ phase' = phase /\ cmds' = cmds /\ ver' = ver /\ out' = out
        /\ src' = src /\ chunk' = chunk + 1 /\ i' = i + 1
    BY <1>3 DEF JoinChunk, record
  <2>2. LenInv'
    BY <2>1 DEF ContentInv, LenInv
  <2>3. i' - chunk' - 1 = i - chunk - 1
    <3>1. i \in Nat /\ chunk \in Nat
      BY DEF IInv, TypeOK
    <3> QED BY <2>1, <3>1
  <2>4. CopyInv'
    BY <2>1, <2>3 DEF ContentInv, CopyInv
  <2> QED BY <2>1, <2>2, <2>4
          DEF ContentInv, TailInv, PendingInv, WalkInv, PatchesWhole, OnlyNoOpsAdded
<1> QED BY <1>1, <1>2, <1>3, StepCopyAndPadContent, StepCopyRestContent DEF Reserializer

LEMMA NextContentInv ==
    ASSUME OneVersion, IInv, ContentInv, [Next]_vars
    PROVE  ContentInv'
<1>1. CASE Client
  BY <1>1, ClientContent
<1>2. CASE Growth
  <2>1. ASSUME NEW b \in {"txn", "bw"}, Grow(b) PROVE ContentInv'
    BY <2>1, UnchangedContent DEF Grow
  <2>2. ASSUME NEW b \in {"txn", "bw"}, GrowFails(b) PROVE ContentInv'
    <3>1. phase' \in {"unserved", "failed"} /\ cmds' = cmds /\ ver' = ver
      BY <2>2 DEF GrowFails, record, walk
    <3>2. LenInv'
      BY <3>1 DEF ContentInv, LenInv
    <3> QED BY <3>1, <3>2, QuietContent
  <2> QED BY <1>2, <2>1, <2>2 DEF Growth
<1>3. CASE Serializer
  <2>1. CASE PadUpdateReg
    <3>1. phase' \in {"failed", "stale", "serialize"} /\ cmds' = cmds /\ ver' = ver
      BY <2>1 DEF PadUpdateReg, PadDue, record
    <3>2. LenInv'
      BY <3>1 DEF ContentInv, LenInv
    <3> QED BY <2>1, <3>1, <3>2, QuietContent, StepPadContent
  <2>2. CASE AppendPmEnd
    <3>1. CASE hdr = 0
      <4>1. phase' = "failed" /\ cmds' = cmds /\ ver' = ver
        BY <2>2, <3>1 DEF AppendPmEnd
      <4>2. LenInv'
        BY <4>1 DEF ContentInv, LenInv
      <4> QED BY <4>1, <4>2, QuietContent
    <3> QED BY <2>2, <3>1, StepPmEndContent
  <2> QED BY <1>3, <2>1, <2>2, StepFlushContent, StepAppendContent, StepStartContent,
             StepCoalesceContent, StepCompleteContent DEF Serializer
<1>4. CASE Reserializer
  BY <1>4, ReserializerContent
<1>5. CASE UNCHANGED vars
  BY <1>5, UnchangedContent DEF vars
<1> QED BY <1>1, <1>2, <1>3, <1>4, <1>5 DEF Next

LEMMA InitContentInv == Init => ContentInv
<1> SUFFICES ASSUME Init PROVE ContentInv
  OBVIOUS
<1>1. phase = "record" /\ cmds = <<>>
  BY DEF Init
<1> QED BY <1>1
  DEF ContentInv, LenInv, TailInv, PendingInv, WalkInv, CopyInv, PatchesWhole, OnlyNoOpsAdded

LEMMA ContentInvKeeps == IInv /\ ContentInv => ContentKept
<1> SUFFICES ASSUME IInv, ContentInv PROVE OrderKept /\ BlocksContiguous
  BY DEF ContentInv, ContentKept
<1>1. ASSUME phase = "done"
      PROVE  /\ Faithful(out, cmds, i) /\ AllHeld(out, <<>>, cmds, i)
             /\ DOMAIN cmds = 1..(i - 1)
  <2>1. i = Len(cmds) + 1 /\ bw.src = <<>> /\ Len(cmds) \in Nat /\ DOMAIN cmds = 1..Len(cmds)
    BY <1>1, SeqFacts DEF ContentInv, WalkInv, NoBlock, IInv, TypeOK
  <2> QED BY <1>1, <2>1 DEF ContentInv, WalkInv
<1>2. BlocksContiguous
  BY <1>1 DEF BlocksContiguous, Faithful, Runs, Contiguous
<1>3. ASSUME phase = "done", NEW a \in DOMAIN cmds
      PROVE  Cardinality(Places(a)) = IF cmds[a].op = "pm_end" THEN 0 ELSE 1
  <2>1. CASE cmds[a].op = "pm_end"
    <3>1. Places(a) = {}
      BY <1>1, <1>3, <2>1 DEF Faithful, Taken, Places, Holds
    <3> QED BY <2>1, <3>1, FS_EmptySet
  <2>2. CASE cmds[a].op # "pm_end"
    <3>1. HeldBy(out, a)
      BY <1>1, <1>3, <2>2 DEF AllHeld
    <3>2. PICK k \in DOMAIN out : Holds(k, a)
      BY <3>1 DEF HeldBy, Holds
    <3>3. \A l \in DOMAIN out : Holds(l, a) => l = k
      BY <1>1, <1>3, <3>2 DEF Faithful, Once, Holds
    <3>4. Places(a) = {k}
      BY <3>2, <3>3 DEF Places
    <3> QED BY <2>2, <3>4, FS_Singleton
  <2> QED BY <2>1, <2>2
<1>4. ASSUME phase = "done", NEW k \in DOMAIN out, NEW l \in DOMAIN out,
             NEW m \in DOMAIN out[k].src, NEW n \in DOMAIN out[l].src,
             k < l, out[l].src[n] < out[k].src[m]
      PROVE  /\ cmds[out[l].src[n]].op = "ddr_patch" /\ cmds[out[k].src[m]].op = "blockwrite"
             /\ out[k].src[1] < out[l].src[n]
  BY <1>1, <1>4 DEF Faithful, Passing
<1>5. OrderKept
  BY <1>3, <1>4 DEF OrderKept
<1> QED BY <1>2, <1>5

(* A binary holds every command of the transaction once, in its order but    *)
(* for the patches a coalesced block is put before, each block over          *)
(* consecutive registers; re-serializing adds nothing but NOOPs.  All        *)
(* exports use one format: format v10 shortens the recorded DDR_PATCHes.     *)
THEOREM ContentKeptHolds ==
    ASSUME OneVersion
    PROVE  Spec => []ContentKept
<1>1. Init => IInv /\ ContentInv
  BY InitIInv, InitContentInv
<1>2. (IInv /\ ContentInv) /\ [Next]_vars => (IInv /\ ContentInv)'
  BY NextIInv, NextContentInv
<1>3. (IInv /\ ContentInv) => ContentKept
  BY ContentInvKeeps
<1> QED BY <1>1, <1>2, <1>3, PTL DEF Spec
=============================================================================
