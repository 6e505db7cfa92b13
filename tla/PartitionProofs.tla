-------------------------- MODULE PartitionProofs --------------------------
(***************************************************************************)
(* Proofs about the privileged operations, for every device, partition,    *)
(* option and request.                                                     *)
(*                                                                         *)
(* A handler's plan is judged like a program by its pieces: from "sure" or *)
(* "unsure" of a fact about the registers it leads to "sure" or "unsure",  *)
(* and the steps that count on the fact come when it is sure.              *)
(***************************************************************************)
EXTENDS Partition, SequenceTheorems, TLAPS

----------------------------------------------------------------------------
(* Pieces of a plan.  The steps of "good" establish a fact, those of "bad"  *)
(* may end it, those of "must" count on it.                                 *)

Sureness == {"sure", "unsure"}

\* The fact is sure before position k of p, which was entered with sureness x.
SureAt(p, x, k, good, bad) ==
    /\ x = "sure" \/ \E i \in 1..(k - 1) : p[i] \in good
    /\ \A i \in 1..(k - 1) : p[i] \in bad => \E j \in (i + 1)..(k - 1) : p[j] \in good

Leads(p, x, y, good, bad, must) ==
    /\ \A k \in 1..Len(p) : p[k] \in must => SureAt(p, x, k, good, bad)
    /\ y = "sure" => SureAt(p, x, Len(p) + 1, good, bad)

LEMMA LeadsEmpty ==
    ASSUME NEW x \in Sureness, NEW good, NEW bad, NEW must
    PROVE  Leads(<<>>, x, x, good, bad, must)
BY DEF Leads, SureAt, Sureness

\* Nothing is sure in the end; nothing needs it.
LEMMA LeadsWeaken ==
    ASSUME NEW p, NEW x \in Sureness, NEW y \in Sureness, NEW good, NEW bad, NEW must,
           Leads(p, x, y, good, bad, must)
    PROVE  Leads(p, x, "unsure", good, bad, must)
BY DEF Leads, Sureness

LEMMA SureSooner ==
    ASSUME NEW p, NEW x \in Sureness, NEW k, NEW good, NEW bad,
           SureAt(p, x, k, good, bad)
    PROVE  SureAt(p, "sure", k, good, bad)
BY DEF SureAt, Sureness

LEMMA LeadsStrengthen ==
    ASSUME NEW p, NEW x \in Sureness, NEW y \in Sureness, NEW good, NEW bad, NEW must,
           Leads(p, x, y, good, bad, must)
    PROVE  Leads(p, "sure", y, good, bad, must)
BY SureSooner DEF Leads

\* A single step.
LEMMA LeadsStep ==
    ASSUME NEW S, NEW s \in S, NEW x \in Sureness, NEW y \in Sureness,
           NEW good, NEW bad, NEW must,
           s \in must => x = "sure",
           y = "sure" => s \in good \/ x = "sure",
           y = "sure" => s \notin bad
    PROVE  Leads(<<s>>, x, y, good, bad, must)
<1> DEFINE p == <<s>>
<1>1. Len(p) = 1 /\ p[1] = s
  OBVIOUS
<1> HIDE DEF p
<1>2. \A k \in 1..Len(p) : p[k] \in must => SureAt(p, x, k, good, bad)
  BY <1>1 DEF SureAt
<1>3. y = "sure" => SureAt(p, x, Len(p) + 1, good, bad)
  <2> SUFFICES ASSUME y = "sure" PROVE SureAt(p, x, 2, good, bad)
    BY <1>1
  <2>1. x = "sure" \/ \E i \in 1..(2 - 1) : p[i] \in good
    BY <1>1
  <2>2. \A i \in 1..(2 - 1) : p[i] \notin bad
    BY <1>1
  <2> QED BY <2>1, <2>2 DEF SureAt
<1>4. Leads(p, x, y, good, bad, must)
  BY <1>2, <1>3 DEF Leads
<1> QED BY <1>4 DEF p

\* Steps that neither end the fact nor count on it.
LEMMA LeadsQuiet ==
    ASSUME NEW S, NEW p \in Seq(S), NEW x \in Sureness, NEW good, NEW bad, NEW must,
           \A s \in S : s \notin bad /\ (x = "sure" \/ s \notin must)
    PROVE  Leads(p, x, x, good, bad, must)
<1>1. Len(p) \in Nat /\ \A i \in 1..Len(p) : p[i] \in S
  OBVIOUS
<1>2. ASSUME x = "sure", NEW k \in 1..(Len(p) + 1) PROVE SureAt(p, x, k, good, bad)
  BY <1>1, <1>2 DEF SureAt
<1> QED BY <1>1, <1>2 DEF Leads, Sureness

\* Steps that do not count on it.
LEMMA LeadsUnsure ==
    ASSUME NEW S, NEW p \in Seq(S), NEW x \in Sureness, NEW good, NEW bad, NEW must,
           \A s \in S : s \notin must
    PROVE  Leads(p, x, "unsure", good, bad, must)
<1>1. Len(p) \in Nat /\ \A i \in 1..Len(p) : p[i] \in S
  OBVIOUS
<1> QED BY <1>1 DEF Leads

\* What is sure before a position of the second piece.
LEMMA SureInSecond ==
    ASSUME NEW S, NEW a \in Seq(S), NEW b \in Seq(S), NEW x \in Sureness, NEW y \in Sureness,
           NEW good, NEW bad,
           y = "sure" => SureAt(a, x, Len(a) + 1, good, bad),
           NEW m \in 1..(Len(b) + 1), SureAt(b, y, m, good, bad)
    PROVE  SureAt(a \o b, x, Len(a) + m, good, bad)
<1> DEFINE p == a \o b
<1>1. /\ Len(a) \in Nat /\ Len(b) \in Nat
      /\ \A i \in 1..Len(a) : p[i] = a[i]
      /\ \A i \in 1..Len(b) : p[Len(a) + i] = b[i]
  BY ConcatProperties
<1> HIDE DEF p
<1>2. \A i \in 1..(m - 1) : /\ i \in 1..Len(b) /\ Len(a) + i \in 1..(Len(a) + m - 1)
                            /\ p[Len(a) + i] = b[i]
  BY <1>1
<1>3. \A i \in 1..Len(a) : i \in 1..(Len(a) + m - 1) /\ p[i] = a[i]
  BY <1>1
<1>4. x = "sure" \/ \E i \in 1..(Len(a) + m - 1) : p[i] \in good
  <2>1. CASE \E i \in 1..(m - 1) : b[i] \in good
    BY <2>1, <1>2
  <2>2. CASE y = "sure"
    <3>1. x = "sure" \/ \E i \in 1..Len(a) : a[i] \in good
      BY <2>2, <1>1 DEF SureAt
    <3> QED BY <3>1, <1>3
  <2> QED BY <2>1, <2>2 DEF SureAt
<1>5. ASSUME NEW i \in 1..(Len(a) + m - 1), p[i] \in bad
      PROVE  \E j \in (i + 1)..(Len(a) + m - 1) : p[j] \in good
  <2>1. CASE i > Len(a)
    <3>1. i - Len(a) \in 1..(m - 1) /\ p[i] = b[i - Len(a)]
      <4>1. i - Len(a) \in 1..(m - 1) /\ Len(a) + (i - Len(a)) = i
        BY <2>1, <1>1
      <4> QED BY <4>1, <1>2
    <3>2. PICK j \in (i - Len(a) + 1)..(m - 1) : b[j] \in good
      BY <3>1, <1>5 DEF SureAt
    <3>3. j \in 1..(m - 1) /\ Len(a) + j \in (i + 1)..(Len(a) + m - 1)
      BY <3>1, <1>1
    <3> QED BY <3>2, <3>3, <1>2
  <2>2. CASE i <= Len(a) /\ \E j \in 1..(m - 1) : b[j] \in good
    <3>1. PICK j \in 1..(m - 1) : b[j] \in good
      BY <2>2
    <3>2. Len(a) + j \in (i + 1)..(Len(a) + m - 1)
      BY <2>2, <1>1
    <3> QED BY <3>1, <3>2, <1>2
  <2>3. CASE i <= Len(a) /\ ~\E j \in 1..(m - 1) : b[j] \in good
    <3>1. SureAt(a, x, Len(a) + 1, good, bad)
      BY <2>3 DEF SureAt
    <3>2. i \in 1..(Len(a) + 1 - 1) /\ a[i] \in bad
      BY <2>3, <1>1, <1>5
    <3>3. PICK j \in (i + 1)..(Len(a) + 1 - 1) : a[j] \in good
      BY <3>1, <3>2 DEF SureAt
    <3>4. j \in 1..Len(a) /\ j \in (i + 1)..(Len(a) + m - 1)
      BY <1>1
    <3> QED BY <3>3, <3>4, <1>3
  <2> QED BY <2>1, <2>2, <2>3, <1>1
<1>6. SureAt(p, x, Len(a) + m, good, bad)
  BY <1>4, <1>5 DEF SureAt
<1> QED BY <1>6 DEF p

\* Pieces follow one another.
LEMMA LeadsConcat ==
    ASSUME NEW S, NEW a \in Seq(S), NEW b \in Seq(S),
           NEW x \in Sureness, NEW y \in Sureness, NEW z \in Sureness,
           NEW good, NEW bad, NEW must,
           Leads(a, x, y, good, bad, must), Leads(b, y, z, good, bad, must)
    PROVE  Leads(a \o b, x, z, good, bad, must)
<1> DEFINE p == a \o b
<1>1. /\ Len(a) \in Nat /\ Len(b) \in Nat /\ Len(p) = Len(a) + Len(b)
      /\ \A i \in 1..Len(a) : p[i] = a[i]
      /\ \A i \in 1..Len(b) : p[Len(a) + i] = b[i]
  BY ConcatProperties
<1>2. ASSUME NEW m \in 1..(Len(b) + 1), SureAt(b, y, m, good, bad)
      PROVE  SureAt(p, x, Len(a) + m, good, bad)
  <2>1. y = "sure" => SureAt(a, x, Len(a) + 1, good, bad)
    BY DEF Leads
  <2> QED BY <2>1, <1>2, SureInSecond
<1> HIDE DEF p
<1>3. ASSUME NEW k \in 1..Len(p), p[k] \in must PROVE SureAt(p, x, k, good, bad)
  <2>1. CASE k <= Len(a)
    <3>1. SureAt(a, x, k, good, bad)
      BY <2>1, <1>1, <1>3 DEF Leads
    <3>2. \A i \in 1..(k - 1) : p[i] = a[i]
      BY <2>1, <1>1
    <3> QED BY <3>1, <3>2 DEF SureAt
  <2>2. CASE k > Len(a)
    <3>1. k - Len(a) \in 1..Len(b) /\ Len(a) + (k - Len(a)) = k
      BY <2>2, <1>1
    <3>2. SureAt(b, y, k - Len(a), good, bad)
      BY <3>1, <1>1, <1>3 DEF Leads
    <3>3. k - Len(a) \in 1..(Len(b) + 1)
      BY <3>1, <1>1
    <3> QED BY <3>1, <3>2, <3>3, <1>2
  <2> QED BY <2>1, <2>2, <1>1
<1>4. ASSUME z = "sure" PROVE SureAt(p, x, Len(p) + 1, good, bad)
  <2>1. Len(b) + 1 \in 1..(Len(b) + 1) /\ Len(p) + 1 = Len(a) + (Len(b) + 1)
    BY <1>1
  <2>2. SureAt(b, y, Len(b) + 1, good, bad)
    BY <1>4 DEF Leads
  <2> QED BY <2>1, <2>2, <1>2
<1>5. Leads(p, x, z, good, bad, must)
  BY <1>3, <1>4 DEF Leads
<1> QED BY <1>5 DEF p

\* The first step of a plan is done.
LEMMA LeadsTail ==
    ASSUME NEW S, NEW p \in Seq(S), p # <<>>, NEW x \in Sureness, NEW y \in Sureness,
           NEW w \in Sureness, NEW good, NEW bad, NEW must,
           Leads(p, x, y, good, bad, must),
           p[1] \in good => w = "sure",
           x = "sure" /\ p[1] \notin bad => w = "sure"
    PROVE  Leads(Tail(p), w, y, good, bad, must)
<1> DEFINE t == Tail(p)
<1>1. /\ Len(p) \in Nat /\ Len(p) >= 1 /\ Len(t) = Len(p) - 1
      /\ \A i \in 1..Len(t) : t[i] = p[i + 1]
  OBVIOUS
<1> HIDE DEF t
<1>2. ASSUME NEW k \in 1..(Len(t) + 1), SureAt(p, x, k + 1, good, bad)
      PROVE  SureAt(t, w, k, good, bad)
  <2>1. \A i \in 1..(k - 1) : i + 1 \in 1..(k + 1 - 1) /\ t[i] = p[i + 1]
    BY <1>1
  <2>2. \A i \in 1..(k + 1 - 1) : i # 1 => i - 1 \in 1..(k - 1) /\ t[i - 1] = p[i]
    <3> SUFFICES ASSUME NEW i \in 1..(k + 1 - 1), i # 1
                 PROVE  i - 1 \in 1..(k - 1) /\ t[i - 1] = p[i]
      OBVIOUS
    <3>1. i - 1 \in 1..(k - 1) /\ (i - 1) + 1 = i
      BY <1>1
    <3> QED BY <3>1, <2>1
  <2>3. ASSUME NEW i \in 1..(k - 1), t[i] \in bad
        PROVE  \E j \in (i + 1)..(k - 1) : t[j] \in good
    <3>1. i + 1 \in 1..(k + 1 - 1) /\ p[i + 1] \in bad
      BY <2>1, <2>3
    <3>2. PICK j \in (i + 1 + 1)..(k + 1 - 1) : p[j] \in good
      BY <3>1, <1>2 DEF SureAt
    <3>3. j \in 1..(k + 1 - 1) /\ j # 1 /\ j - 1 \in (i + 1)..(k - 1)
      BY <1>1
    <3> QED BY <3>2, <3>3, <2>2
  <2>4. w = "sure" \/ \E i \in 1..(k - 1) : t[i] \in good
    <3>1. 1 \in 1..(k + 1 - 1)
      BY <1>1
    <3>2. CASE p[1] \in good
      BY <3>2
    <3>3. CASE p[1] \in bad
      <4>1. PICK j \in (1 + 1)..(k + 1 - 1) : p[j] \in good
        BY <3>1, <3>3, <1>2 DEF SureAt
      <4>2. j \in 1..(k + 1 - 1) /\ j # 1
        BY <1>1
      <4> QED BY <4>1, <4>2, <2>2
    <3>4. CASE p[1] \notin good /\ p[1] \notin bad
      <4>1. CASE x = "sure"
        BY <4>1, <3>4
      <4>2. CASE x # "sure"
        <5>1. PICK i \in 1..(k + 1 - 1) : p[i] \in good
          BY <4>2, <1>2 DEF SureAt
        <5>2. i # 1
          BY <5>1, <3>4
        <5> QED BY <5>1, <5>2, <2>2
      <4> QED BY <4>1, <4>2
    <3> QED BY <3>2, <3>3, <3>4
  <2> QED BY <2>3, <2>4 DEF SureAt
<1>3. ASSUME NEW k \in 1..Len(t), t[k] \in must PROVE SureAt(t, w, k, good, bad)
  <2>1. k + 1 \in 1..Len(p) /\ p[k + 1] \in must
    BY <1>1, <1>3
  <2>2. SureAt(p, x, k + 1, good, bad)
    BY <2>1 DEF Leads
  <2>3. k \in 1..(Len(t) + 1)
    BY <1>1
  <2> QED BY <2>2, <2>3, <1>2
<1>4. ASSUME y = "sure" PROVE SureAt(t, w, Len(t) + 1, good, bad)
  <2>1. Len(t) + 1 \in 1..(Len(t) + 1) /\ Len(p) + 1 = (Len(t) + 1) + 1
    BY <1>1
  <2>2. SureAt(p, x, Len(p) + 1, good, bad)
    BY <1>4 DEF Leads
  <2> QED BY <2>1, <2>2, <1>2
<1>5. Leads(t, w, y, good, bad, must)
  BY <1>3, <1>4 DEF Leads
<1> QED BY <1>5 DEF t

----------------------------------------------------------------------------
(* Types.                                                                   *)

Borders == {"init", "west", "east"}
FailKinds == {"return", "close", "closes", "goOn", "drop", "last"}
Reporting == FailKinds \ {"goOn", "drop"}
StepSet ==
    [do : {"clk", "rst", "shim", "nsu", "irq", "zero", "uc", "split", "npi"},
     arg : BOOLEAN, fail : FailKinds]
    \cup [do : {"prot", "mark", "unmark"}, arg : SUBSET Int, fail : FailKinds]
    \cup [do : {"iso", "axi"}, arg : SUBSET Borders, fail : FailKinds]
    \cup [do : {"inter"}, arg : Nat, fail : FailKinds]
    \cup [do : {"nmu"}, arg : {0, 1}, fail : FailKinds]
    \cup [do : {"app"}, arg : Locations, fail : FailKinds]
    \cup [do : {"tile"}, arg : Nat \X Nat, fail : FailKinds]
    \cup [do : {"columns"}, arg : [start : Nat, cols : Nat, enable : BOOLEAN], fail : FailKinds]
    \cup [do : {"interloc"}, arg : (Nat \X Nat) \X Nat, fail : FailKinds]
    \cup [do : {"clear", "unsupported"}, arg : {""}, fail : FailKinds]
Kinds == PerColumn \cup {"npi", "prot", "mark", "unmark", "nmu", "app", "tile", "columns",
                        "interloc", "clear", "unsupported"}
Ops == {"none", "init", "soft", "teardown", "request", "columns", "reset", "clear", "interloc",
        "axi"}
Options == [flags : SUBSET STRING, inter : Nat, app : AppModes, tiles : Locations]

\* Steps that name a column do so inside of the partition, but for those of
\* XAie_PmSetColumnClk, which alone has any of this kind; each generation has
\* its resets; an error of what names a tile is never dropped.
StepsIn(g, part) ==
    {s \in StepSet : /\ s.do # "columns"
                     /\ s.do = "nmu" => part.start = 0
                     /\ s.do = "interloc" => s.arg[1][1] < part.cols
                     /\ s.do = "shim" => g \in {"AIE", "AIE4"}
                     /\ s.do \in {"npi", "rst"} => g # "AIE4"
                     /\ s.do \in {"nmu", "tile", "interloc"} => s.fail \notin {"drop", "goOn"}}
Planned(g, part, op) ==
    IF op = "columns" THEN StepsIn(g, part) \cup {s \in StepSet : s.do = "columns"}
    ELSE StepsIn(g, part)

InstOK(part) ==
    /\ part \in [start : Cols, cols : 1..DevCols, app : AppModes]
    /\ part.start + part.cols <= DevCols
HwOK(h) ==
    /\ DOMAIN h = ColumnRegs \cup {"npi", "prot", "locked"}
    /\ \A r \in ColumnRegs : DOMAIN h[r] = Cols
    /\ h.locked \in BOOLEAN

CallOK(c, g, part) ==
    c \in [op : Ops, arg : Options \cup {[NoOpts EXCEPT !.tiles = All]},
          plan : Seq(Planned(g, part, c.op)), rc : {"ok", "error"}, lost : SUBSET Kinds,
          fit : BOOLEAN, shut : BOOLEAN]

TypeOK ==
    /\ gen \in Gens /\ InstOK(inst)
    /\ used \subseteq Int
    /\ HwOK(hw) /\ CallOK(call, gen, inst)
    /\ faults \in Nat /\ calls \in Nat

----------------------------------------------------------------------------
(* The pieces the plans are made of.                                        *)

LEMMA StepFields ==
    ASSUME NEW do, NEW arg, NEW fail
    PROVE  /\ Step(do, arg, fail).do = do /\ Step(do, arg, fail).arg = arg
           /\ Step(do, arg, fail).fail = fail
BY DEF Step

LEMMA StepTypes ==
    ASSUME NEW fail \in FailKinds
    PROVE  /\ \A do \in {"clk", "rst", "shim", "nsu", "irq", "zero", "uc", "split", "npi"},
                 v \in BOOLEAN : Step(do, v, fail) \in StepSet
           /\ \A do \in {"prot", "mark", "unmark"}, v \in SUBSET Int :
                 Step(do, v, fail) \in StepSet
           /\ \A do \in {"iso", "axi"}, v \in SUBSET Borders : Step(do, v, fail) \in StepSet
           /\ \A v \in Nat : Step("inter", v, fail) \in StepSet
           /\ \A v \in {0, 1} : Step("nmu", v, fail) \in StepSet
           /\ \A v \in Locations : Step("app", v, fail) \in StepSet
           /\ \A v \in Nat \X Nat : Step("tile", v, fail) \in StepSet
           /\ \A v \in [start : Nat, cols : Nat, enable : BOOLEAN] :
                 Step("columns", v, fail) \in StepSet
           /\ \A v \in (Nat \X Nat) \X Nat : Step("interloc", v, fail) \in StepSet
           /\ \A do \in {"clear", "unsupported"} : Step(do, "", fail) \in StepSet
<1>1. \A do \in {"clk", "rst", "shim", "nsu", "irq", "zero", "uc", "split", "npi"},
         v \in BOOLEAN : Step(do, v, fail) \in StepSet
  BY DEF Step, StepSet
<1>2. \A do \in {"prot", "mark", "unmark"}, v \in SUBSET Int : Step(do, v, fail) \in StepSet
  BY DEF Step, StepSet
<1>3. \A do \in {"iso", "axi"}, v \in SUBSET Borders : Step(do, v, fail) \in StepSet
  BY DEF Step, StepSet
<1>4. \A v \in Nat : Step("inter", v, fail) \in StepSet
  BY DEF Step, StepSet
<1>5. \A v \in {0, 1} : Step("nmu", v, fail) \in StepSet
  BY DEF Step, StepSet
<1>6. \A v \in Locations : Step("app", v, fail) \in StepSet
  BY DEF Step, StepSet
<1>7. \A v \in Nat \X Nat : Step("tile", v, fail) \in StepSet
  BY DEF Step, StepSet
<1>8. \A v \in [start : Nat, cols : Nat, enable : BOOLEAN] : Step("columns", v, fail) \in StepSet
  BY DEF Step, StepSet
<1>9. \A v \in (Nat \X Nat) \X Nat : Step("interloc", v, fail) \in StepSet
  BY DEF Step, StepSet
<1>10. \A do \in {"clear", "unsupported"} : Step(do, "", fail) \in StepSet
  BY DEF Step, StepSet
<1> QED BY <1>1, <1>2, <1>3, <1>4, <1>5, <1>6, <1>7, <1>8, <1>9, <1>10

\* What a plan is made of: a sequence of steps, each of them in a set.
LEMMA WhenIn ==
    ASSUME NEW S, NEW cond, NEW p, cond => p \in Seq(S)
    PROVE  When(cond, p) \in Seq(S)
BY DEF When

LEMMA OneIn == ASSUME NEW S, NEW s \in S PROVE <<s>> \in Seq(S)
OBVIOUS

LEMMA TwoIn == ASSUME NEW S, NEW s \in S, NEW t \in S PROVE <<s, t>> \in Seq(S)
OBVIOUS

LEMMA ThreeIn ==
    ASSUME NEW S, NEW s \in S, NEW t \in S, NEW u \in S
    PROVE  <<s, t, u>> \in Seq(S)
OBVIOUS

LEMMA ThreeAndOne ==
    ASSUME NEW s, NEW t, NEW u, NEW v
    PROVE  <<s, t, u, v>> = <<s, t, u>> \o <<v>>
OBVIOUS

LEMMA OneAndOne == ASSUME NEW s, NEW t PROVE <<s, t>> = <<s>> \o <<t>>
<1> DEFINE S == {s, t}
           a == <<s>>
           b == <<t>>
           p == <<s, t>>
<1>1. a \in Seq(S) /\ b \in Seq(S) /\ p \in Seq(S)
  OBVIOUS
<1>2. Len(a) = 1 /\ a[1] = s /\ Len(b) = 1 /\ b[1] = t /\ Len(p) = 2 /\ p[1] = s /\ p[2] = t
  OBVIOUS
<1> HIDE DEF a, b, p
<1>3. a \o b \in Seq(S) /\ Len(a \o b) = 2 /\ (a \o b)[1] = s /\ (a \o b)[2] = t
  <2>1. Len(a \o b) = Len(a) + Len(b) /\ a \o b \in Seq(S)
    BY <1>1, ConcatProperties
  <2>2. \A i \in 1..Len(a \o b) :
           (a \o b)[i] = IF i <= Len(a) THEN a[i] ELSE b[i - Len(a)]
    BY <1>1, ConcatProperties
  <2> HIDE DEF S
  <2>3. 1 \in 1..Len(a \o b) /\ 2 \in 1..Len(a \o b) /\ Len(a \o b) = 2
    BY <2>1, <1>2
  <2>4. (a \o b)[1] = s
    BY <2>2, <2>3, <1>2
  <2>5. (a \o b)[2] = t
    BY <2>2, <2>3, <1>2
  <2> QED BY <2>1, <2>3, <2>4, <2>5
<1>4. p = a \o b
  BY <1>1, <1>2, <1>3, SeqEqual
<1> QED BY <1>4 DEF a, b, p

LEMMA TwoAndOne == ASSUME NEW s, NEW t, NEW u PROVE <<s, t, u>> = <<s, t>> \o <<u>>
OBVIOUS

LEMMA TwoAndTwo ==
    ASSUME NEW s, NEW t, NEW u, NEW v
    PROVE  <<s, t>> \o <<u, v>> = <<s, t, u, v>>
<1> DEFINE S == {s, t, u, v}
           a == <<s, t>>
           b == <<u>>
           c == <<v>>
<1>1. a \in Seq(S) /\ b \in Seq(S) /\ c \in Seq(S)
  OBVIOUS
<1>2. /\ <<u, v>> = b \o c /\ a \o b = <<s, t, u>> /\ <<s, t, u>> \o c = <<s, t, u, v>>
  <2>1. <<u, v>> = b \o c
    BY OneAndOne
  <2>2. a \o b = <<s, t, u>>
    BY TwoAndOne
  <2>3. <<s, t, u>> \o c = <<s, t, u, v>>
    BY ThreeAndOne
  <2> HIDE DEF a, b, c
  <2> QED BY <2>1, <2>2, <2>3
<1> HIDE DEF S, a, b, c
<1>3. (a \o b) \o c = a \o (b \o c)
  BY <1>1
<1> QED BY <1>2, <1>3 DEF a

LEMMA FourIn ==
    ASSUME NEW S, NEW s \in S, NEW t \in S, NEW u \in S, NEW v \in S
    PROVE  <<s, t, u, v>> \in Seq(S)
OBVIOUS

LEMMA ConcatIn == ASSUME NEW S, NEW a \in Seq(S), NEW b \in Seq(S) PROVE a \o b \in Seq(S)
OBVIOUS

LEMMA SubIn == ASSUME NEW S, NEW T, S \subseteq T, NEW p \in Seq(S) PROVE p \in Seq(T)
OBVIOUS

LEMMA PartColsOK == InstOK(inst) => PartCols \subseteq Cols /\ PartCols \subseteq Int /\ Cols \subseteq Int
BY SizesOK DEF InstOK, PartCols, Cols

LEMMA AllBitsOK == InstOK(inst) => AllBits \subseteq Int
<1> SUFFICES ASSUME InstOK(inst) PROVE AllBits \subseteq Int
  OBVIOUS
<1>1. NumRows \in Nat
  BY SizesOK
<1>2. inst.cols \in Nat /\ inst.start \in Nat
  BY SizesOK DEF InstOK, Cols
<1>3. TileBit(0, 1) \in Int /\ (NumRows - 1) * inst.cols \in Int
  BY <1>1, <1>2 DEF TileBit
<1> QED BY <1>3 DEF AllBits, Bits

\* Steps that close the protected registers, or after which nothing is claimed;
\* steps that open them; steps whose failure returns at once.
Shuts == {s \in StepSet : s.do = "unsupported" \/ (s.do = "prot" /\ s.arg = {})}
Opens == {s \in StepSet : s.do = "prot" /\ s.arg # {}}
Returns == {s \in StepSet : s.fail = "return" /\ s.do \notin LeftOpen}

\* Steps that neither return at once nor touch the tiles, and the steps of the
\* set-up, which do but leave clocks and protected registers alone.
Calm == {s \in StepsIn(gen, inst) \ Returns : s.do \notin InTiles}
Setup == {s \in StepsIn(gen, inst) \ Returns : s.do \in InTiles \cup {"uc", "irq"}}

LEMMA CalmSteps ==
    ASSUME NEW do, NEW arg, NEW fail, Step(do, arg, fail) \in StepSet,
           do \notin InTiles \cup {"nmu", "interloc", "columns", "shim", "npi", "rst", "tile"},
           fail # "return" \/ do \in LeftOpen
    PROVE  Step(do, arg, fail) \in Calm
BY StepFields DEF Calm, StepsIn, Returns

LEMMA OpenCalm ==
    ASSUME InstOK(inst), NEW fail \in FailKinds
    PROVE  Open(fail) \in Calm /\ Close(fail) \in Calm
<1>1. (IF gen = "AIE" THEN ProtColsAie ELSE ProtColsMl) \in SUBSET Int /\ {} \in SUBSET Int
  BY PartColsOK DEF ProtColsAie, ProtColsMl
<1>2. Open(fail) \in StepSet /\ Close(fail) \in StepSet
  BY <1>1, StepTypes DEF Open, Close
<1>3. /\ "prot" \in LeftOpen
      /\ "prot" \notin InTiles \cup {"nmu", "interloc", "columns", "shim", "npi", "rst", "tile"}
  BY DEF LeftOpen, InTiles
<1> QED BY <1>2, <1>3, CalmSteps DEF Open, Close

\* Steps that neither touch the tiles nor open or close the registers.
Plain(fail) == {s \in StepsIn(gen, inst) : s.fail = fail /\ s.do \notin InTiles \cup {"prot"}}

LEMMA PlainSteps ==
    ASSUME NEW fail \in FailKinds
    PROVE  /\ \A do \in {"clk", "nsu"}, v \in BOOLEAN : Step(do, v, fail) \in Plain(fail)
           /\ HasShimReset => \A v \in BOOLEAN : Step("shim", v, fail) \in Plain(fail)
           /\ gen # "AIE4" => \A do \in {"rst", "npi"}, v \in BOOLEAN :
                 Step(do, v, fail) \in Plain(fail)
           /\ \A do \in {"mark", "unmark"}, v \in SUBSET Int : Step(do, v, fail) \in Plain(fail)
           /\ inst.start = 0 /\ fail \in Reporting =>
                 \A v \in {0, 1} : Step("nmu", v, fail) \in Plain(fail)
           /\ fail \in Reporting => \A v \in Nat \X Nat : Step("tile", v, fail) \in Plain(fail)
           /\ fail \in Reporting => \A v \in (Nat \X Nat) \X Nat :
                 v[1][1] < inst.cols => Step("interloc", v, fail) \in Plain(fail)
           /\ \A do \in {"clear", "unsupported"} : Step(do, "", fail) \in Plain(fail)
<1>1. /\ \A do \in {"clk", "rst", "shim", "nsu", "npi"}, v \in BOOLEAN : Step(do, v, fail) \in StepSet
      /\ \A do \in {"mark", "unmark"}, v \in SUBSET Int : Step(do, v, fail) \in StepSet
      /\ \A v \in {0, 1} : Step("nmu", v, fail) \in StepSet
      /\ \A v \in Nat \X Nat : Step("tile", v, fail) \in StepSet
      /\ \A v \in (Nat \X Nat) \X Nat : Step("interloc", v, fail) \in StepSet
      /\ \A do \in {"clear", "unsupported"} : Step(do, "", fail) \in StepSet
  BY StepTypes
<1>2. ASSUME NEW do, NEW v, Step(do, v, fail) \in StepSet, do \notin InTiles \cup {"prot"},
             do # "columns", do = "nmu" => inst.start = 0, do = "interloc" => v[1][1] < inst.cols,
             do = "shim" => HasShimReset, do \in {"npi", "rst"} => gen # "AIE4",
             do \in {"nmu", "tile", "interloc"} => fail \in Reporting
      PROVE  Step(do, v, fail) \in Plain(fail)
  BY <1>2, StepFields DEF Plain, StepsIn, HasShimReset, Reporting
<1>3. /\ \A do \in {"clk", "nsu"}, v \in BOOLEAN : Step(do, v, fail) \in Plain(fail)
      /\ HasShimReset => \A v \in BOOLEAN : Step("shim", v, fail) \in Plain(fail)
      /\ gen # "AIE4" => \A do \in {"rst", "npi"}, v \in BOOLEAN :
            Step(do, v, fail) \in Plain(fail)
      /\ \A do \in {"mark", "unmark"}, v \in SUBSET Int : Step(do, v, fail) \in Plain(fail)
  BY <1>1, <1>2 DEF InTiles
<1>4. /\ inst.start = 0 /\ fail \in Reporting =>
            \A v \in {0, 1} : Step("nmu", v, fail) \in Plain(fail)
      /\ fail \in Reporting => \A v \in Nat \X Nat : Step("tile", v, fail) \in Plain(fail)
  BY <1>1, <1>2 DEF InTiles
<1>5. fail \in Reporting => \A v \in (Nat \X Nat) \X Nat :
         v[1][1] < inst.cols => Step("interloc", v, fail) \in Plain(fail)
  BY <1>1, <1>2 DEF InTiles
<1>6. \A do \in {"clear", "unsupported"} : Step(do, "", fail) \in Plain(fail)
  BY <1>1, <1>2 DEF InTiles
<1> QED BY <1>3, <1>4, <1>5, <1>6

LEMMA PlainCalm == \A fail \in FailKinds \ {"return"} : Plain(fail) \subseteq Calm
BY DEF Plain, Calm, Returns

LEMMA WriteCalm ==
    ASSUME NEW fail \in FailKinds \ {"return"}
    PROVE  /\ \A do \in {"clk", "nsu"}, v \in BOOLEAN : Step(do, v, fail) \in Calm
           /\ HasShimReset => \A v \in BOOLEAN : Step("shim", v, fail) \in Calm
           /\ gen # "AIE4" => \A do \in {"rst", "npi"}, v \in BOOLEAN : Step(do, v, fail) \in Calm
           /\ \A do \in {"mark", "unmark"}, v \in SUBSET Int : Step(do, v, fail) \in Calm
           /\ inst.start = 0 /\ fail \in Reporting => \A v \in {0, 1} : Step("nmu", v, fail) \in Calm
BY PlainSteps, PlainCalm

\* Steps that leave the clocks alone as well.
Still == {s \in Calm : s.do \notin {"clk", "rst", "tile", "columns"}}

LEMMA StillSteps ==
    ASSUME NEW fail \in FailKinds \ {"return"}
    PROVE  /\ \A v \in BOOLEAN : Step("nsu", v, fail) \in Still
           /\ HasShimReset => \A v \in BOOLEAN : Step("shim", v, fail) \in Still
           /\ gen # "AIE4" => \A v \in BOOLEAN : Step("npi", v, fail) \in Still
           /\ inst.start = 0 /\ fail \in Reporting => \A v \in {0, 1} : Step("nmu", v, fail) \in Still
<1>1. /\ \A v \in BOOLEAN : Step("nsu", v, fail) \in Calm
      /\ HasShimReset => \A v \in BOOLEAN : Step("shim", v, fail) \in Calm
      /\ gen # "AIE4" => \A v \in BOOLEAN : Step("npi", v, fail) \in Calm
      /\ inst.start = 0 /\ fail \in Reporting => \A v \in {0, 1} : Step("nmu", v, fail) \in Calm
  BY WriteCalm
<1> QED BY <1>1, StepFields DEF Still

\* The loops of the plans.
LEMMA RequestStepsMade ==
    ASSUME InstOK(inst), NEW req \in Locations \cup {All}, NEW fail \in Reporting
    PROVE  RequestSteps(req, fail) \in Seq(Plain(fail))
<1> DEFINE tile(t) == Step("tile", t, fail)
           tiles == [i \in DOMAIN req |-> tile(req[i])]
<1>0. /\ Step("mark", AllBits, fail) \in Plain(fail) /\ Step("unmark", AllBits, fail) \in Plain(fail)
      /\ Write("clk", TRUE, fail) \in Plain(fail) /\ Write("clk", FALSE, fail) \in Plain(fail)
  <2>1. AllBits \in SUBSET Int
    BY AllBitsOK
  <2> QED BY <2>1, PlainSteps DEF Write, Reporting
<1>1. CASE req = All
  <2>1. <<Step("mark", AllBits, fail)>> \in Seq(Plain(fail)) /\ <<Write("clk", TRUE, fail)>> \in Seq(Plain(fail))
    BY <1>0, OneIn
  <2>2. ClockAfterRst(fail) \in Seq(Plain(fail))
    BY <2>1, WhenIn DEF ClockAfterRst
  <2>3. (IF gen = "AIE" THEN <<Write("clk", TRUE, fail)>> ELSE ClockAfterRst(fail)) \in Seq(Plain(fail))
    BY <2>1, <2>2
  <2>4. <<Step("mark", AllBits, fail)>>
          \o (IF gen = "AIE" THEN <<Write("clk", TRUE, fail)>> ELSE ClockAfterRst(fail))
        \in Seq(Plain(fail))
    BY <2>1, <2>3, ConcatIn
  <2> QED BY <1>1, <2>4 DEF RequestSteps
<1>2. CASE req # All
  <2>1. <<Write("clk", FALSE, fail), Step("unmark", AllBits, fail)>> \in Seq(Plain(fail))
    BY <1>0, TwoIn
  <2>2. tiles \in Seq(Plain(fail))
    <3>1. req \in Seq(Nat \X Nat)
      BY <1>2 DEF Locations
    <3>2. \A i \in DOMAIN req : tile(req[i]) \in Plain(fail)
      <4>1. \A i \in DOMAIN req : req[i] \in Nat \X Nat
        BY <3>1
      <4>2. \A v \in Nat \X Nat : tile(v) \in Plain(fail)
        BY PlainSteps DEF Reporting
      <4> QED BY <4>1, <4>2
    <3>3. DOMAIN req = 1..Len(req) /\ Len(req) \in Nat
      BY <3>1
    <3> QED BY <3>2, <3>3, IsASeq
  <2>3. When(gen # "AIE", <<Write("clk", FALSE, fail), Step("unmark", AllBits, fail)>>)
          \in Seq(Plain(fail))
    BY <2>1, WhenIn
  <2> HIDE DEF tiles
  <2>4. When(gen # "AIE", <<Write("clk", FALSE, fail), Step("unmark", AllBits, fail)>>)
          \o tiles \in Seq(Plain(fail))
    BY <2>2, <2>3
  <2> QED BY <1>2, <2>4 DEF RequestSteps, tiles
<1> QED BY <1>1, <1>2

LEMMA ResetsMade ==
    ASSUME NEW fail \in FailKinds \ {"return"}
    PROVE  /\ gen # "AIE4" => ColumnReset(fail) \in Seq(Calm)
           /\ RstPartShims(fail) \in Seq(Still)
           /\ ClockAfterRst(fail) \in Seq(Calm)
<1>1. /\ Write("clk", TRUE, fail) \in Calm /\ Write("clk", FALSE, fail) \in Calm
      /\ gen # "AIE4" => /\ Write("rst", TRUE, fail) \in Calm /\ Write("rst", FALSE, fail) \in Calm
                         /\ NpiShimReset(TRUE, fail) \in Still
                         /\ NpiShimReset(FALSE, fail) \in Still
      /\ HasShimReset => /\ Write("shim", TRUE, fail) \in Still
                         /\ Write("shim", FALSE, fail) \in Still
  BY WriteCalm, StillSteps DEF Write, NpiShimReset
<1>2. gen # "AIE4" => ColumnReset(fail) \in Seq(Calm)
  BY <1>1, FourIn DEF ColumnReset
<1>3. /\ HasShimReset => <<Write("shim", TRUE, fail)>> \in Seq(Still)
      /\ gen # "AIE4" => <<NpiShimReset(TRUE, fail), NpiShimReset(FALSE, fail)>> \in Seq(Still)
      /\ HasShimReset => <<Write("shim", FALSE, fail)>> \in Seq(Still)
      /\ <<Write("clk", TRUE, fail)>> \in Seq(Calm)
  BY <1>1, OneIn, TwoIn
<1>4. /\ When(HasShimReset, <<Write("shim", TRUE, fail)>>) \in Seq(Still)
      /\ When(gen # "AIE4", <<NpiShimReset(TRUE, fail), NpiShimReset(FALSE, fail)>>) \in Seq(Still)
      /\ When(HasShimReset, <<Write("shim", FALSE, fail)>>) \in Seq(Still)
  BY <1>3, WhenIn
<1>5. RstPartShims(fail) \in Seq(Still)
  BY <1>4, ConcatIn DEF RstPartShims
<1>6. ClockAfterRst(fail) \in Seq(Calm)
  BY <1>3, WhenIn DEF ClockAfterRst
<1> QED BY <1>2, <1>5, <1>6

LEMMA StillCalm == Still \subseteq Calm
BY DEF Still

\* InitReset opens the registers, resets the columns, goes on with steps that
\* leave clocks alone, and turns the clocks on.
LEMMA InitResetMade ==
    ASSUME InstOK(inst), NEW o \in Options
    PROVE  \E first \in Seq(Calm), shims \in Seq(Still) :
               /\ InitReset(o) = first \o When(Has(o, "COLUMN_RST") /\ gen # "AIE4", ColumnReset("close"))
                                 \o shims \o ClockAfterRst("close")
               /\ InitReset(o) \in Seq(Calm)
<1> DEFINE open == <<Open("return")>>
           app == When(DualApp /\ o.app # "single", <<Step("app", o.tiles, "return")>>)
           col == When(Has(o, "COLUMN_RST") /\ gen # "AIE4", ColumnReset("close"))
           shim == When(Has(o, "SHIM_RST"), RstPartShims("close"))
           nmu == When(Has(o, "SHIM_RST") /\ gen = "AIE2PS" /\ inst.start = 0,
                       <<Step("nmu", 0, "close"), Step("nmu", 1, "close")>>)
           nsu == When(Has(o, "BLOCK_NOCAXIMMERR"), <<Write("nsu", TRUE, "close")>>)
           clock == ClockAfterRst("close")
<1>1. open \in Seq(Calm)
  BY OpenCalm, OneIn DEF FailKinds
<1>2. app \in Seq(Calm)
  <2>1. o.tiles \in Locations
    BY DEF Options
  <2>2. Step("app", o.tiles, "return") \in StepSet
    BY <2>1, StepTypes DEF FailKinds
  <2>3. /\ "app" \in LeftOpen
        /\ "app" \notin InTiles \cup {"nmu", "interloc", "columns", "shim", "npi", "rst", "tile"}
    BY DEF LeftOpen, InTiles
  <2>4. Step("app", o.tiles, "return") \in Calm
    BY <2>2, <2>3, CalmSteps
  <2> QED BY <2>4, OneIn, WhenIn
<1>3. "close" \in FailKinds \ {"return"}
  BY DEF FailKinds
<1>4. col \in Seq(Calm) /\ shim \in Seq(Still) /\ clock \in Seq(Calm)
  BY <1>3, ResetsMade, WhenIn
<1>5. nmu \in Seq(Still)
  <2>1. inst.start = 0 => Step("nmu", 0, "close") \in Still /\ Step("nmu", 1, "close") \in Still
    BY <1>3, StillSteps DEF Reporting
  <2>2. inst.start = 0 => <<Step("nmu", 0, "close"), Step("nmu", 1, "close")>> \in Seq(Still)
    BY <2>1, TwoIn
  <2> QED BY <2>2, WhenIn
<1>6. nsu \in Seq(Still)
  <2>1. Write("nsu", TRUE, "close") \in Still
    BY <1>3, StillSteps DEF Write
  <2> QED BY <2>1, OneIn, WhenIn
<1> DEFINE first == open \o app
           shims == shim \o nmu \o nsu
<1>7. InitReset(o) = first \o col \o shim \o nmu \o nsu \o clock
  BY DEF InitReset
<1> HIDE DEF open, app, col, shim, nmu, nsu, clock
<1>8. first \in Seq(Calm) /\ shims \in Seq(Still) /\ shims \in Seq(Calm)
  BY <1>1, <1>2, <1>4, <1>5, <1>6, ConcatIn, SubIn, StillCalm
<1>9. /\ shim \in Seq(Calm) /\ nmu \in Seq(Calm) /\ nsu \in Seq(Calm)
      /\ shim \o nmu \in Seq(Calm)
  BY <1>4, <1>5, <1>6, SubIn, StillCalm, ConcatIn
<1> HIDE DEF first
<1>10. first \o col \in Seq(Calm) /\ first \o col \o shim \in Seq(Calm)
  BY <1>4, <1>8, <1>9, ConcatIn
<1>11. first \o col \o shim \o nmu \o nsu = first \o col \o shims
  <2> DEFINE all == first \o col
  <2>1. all \in Seq(Calm)
    BY <1>10
  <2> HIDE DEF all
  <2>2. all \o shim \o nmu \o nsu = all \o (shim \o nmu \o nsu)
    <3> DEFINE m == shim \o nmu
    <3>1. (all \o shim) \o nmu = all \o m
      BY <1>9, <2>1
    <3>2. m \in Seq(Calm)
      BY <1>9
    <3> HIDE DEF m
    <3>3. (all \o m) \o nsu = all \o (m \o nsu)
      BY <1>9, <2>1, <3>2
    <3> QED BY <3>1, <3>3 DEF m
  <2> QED BY <2>2 DEF all, shims
<1>12. first \o col \o shims \o clock \in Seq(Calm)
  BY <1>4, <1>8, <1>10, ConcatIn
<1> HIDE DEF shims
<1> QED BY <1>7, <1>8, <1>11, <1>12 DEF col, clock

LEMMA RequestTilesMade ==
    ASSUME InstOK(inst), NEW req \in Locations \cup {All}
    PROVE  RequestTiles(req, TRUE) \in Seq(Calm)
<1>1. "close" \in FailKinds \ {"return"} /\ "closes" \in FailKinds \ {"return"} /\ "drop" \in FailKinds
  BY DEF FailKinds
<1>2. RequestSteps(req, "close") \in Seq(Calm) /\ RequestSteps(req, "closes") \in Seq(Calm)
  BY <1>1, RequestStepsMade, PlainCalm, SubIn DEF Reporting
<1>3. <<Open("close")>> \in Seq(Calm) /\ <<Close("drop")>> \in Seq(Calm)
  BY <1>1, OpenCalm, OneIn
<1>4. <<Open("close")>> \o RequestSteps(req, "closes") \o <<Close("drop")>> \in Seq(Calm)
  BY <1>2, <1>3, ConcatIn
<1> QED BY <1>2, <1>4 DEF RequestTiles

LEMMA SetupSteps ==
    ASSUME NEW fail \in FailKinds \ {"return"}
    PROVE  /\ \A do \in {"zero", "split", "uc"}, v \in BOOLEAN : Step(do, v, fail) \in Setup
           /\ \A v \in SUBSET Borders : Step("iso", v, fail) \in Setup
           /\ \A v \in Nat : Step("inter", v, fail) \in Setup
           /\ Step("irq", TRUE, "return") \in Setup
<1>1. /\ \A do \in {"zero", "split", "uc"}, v \in BOOLEAN : Step(do, v, fail) \in StepSet
      /\ \A v \in SUBSET Borders : Step("iso", v, fail) \in StepSet
      /\ \A v \in Nat : Step("inter", v, fail) \in StepSet
      /\ Step("irq", TRUE, "return") \in StepSet
  BY StepTypes DEF FailKinds
<1>2. ASSUME NEW do \in InTiles \cup {"uc", "irq"}, NEW v, NEW how, Step(do, v, how) \in StepSet,
             how # "return" \/ do = "irq"
      PROVE  Step(do, v, how) \in Setup
  <2>1. /\ do \notin {"nmu", "interloc", "columns", "shim", "npi", "rst", "tile"}
        /\ do = "irq" => do \in LeftOpen
    BY DEF InTiles, LeftOpen
  <2> QED BY <1>2, <2>1, StepFields DEF Setup, StepsIn, Returns
<1> QED BY <1>1, <1>2 DEF InTiles

\* InitSetup sets up the tiles, then requests some and closes the registers.
LEMMA InitSetupMade ==
    ASSUME InstOK(inst), NEW o \in Options
    PROVE  \E front \in Seq(Setup), rest \in Seq(Calm) :
               /\ InitSetup(o) = front \o rest \o <<Close("return")>>
               /\ ~HasTiles(o) => /\ rest \in Seq({s \in Calm : s.do \in {"clk", "unmark"}})
                                  /\ gen # "AIE" => rest = <<>>
<1> DEFINE split == When(Has(o, "L2_SPLIT") /\ DualApp /\ o.app # "single",
                         <<Write("split", TRUE, "close")>>)
           iso == <<Write("iso", IF Has(o, "ISOLATE") THEN {"init"} ELSE {}, "goOn")>>
           zero == When(Has(o, "ZEROIZEMEM"), <<Write("zero", TRUE, "close")>>)
           uc == When(Has(o, "UC_MEM_PRIV") /\ gen = "AIE4", <<Write("uc", TRUE, "close")>>)
           inter == When(Interleaves(o), <<Write("inter", o.inter, "close")>>)
           irq == <<Write("irq", TRUE, "return")>>
           gate == When(gen = "AIE", <<Write("clk", FALSE, "close"), Step("unmark", AllBits, "close")>>)
           tiles == When(HasTiles(o), RequestTiles(o.tiles, TRUE))
           last == <<Close("return")>>
<1>1. "close" \in FailKinds \ {"return"} /\ "goOn" \in FailKinds \ {"return"}
      /\ "return" \in FailKinds
  BY DEF FailKinds
<1>2. split \in Seq(Setup) /\ zero \in Seq(Setup) /\ uc \in Seq(Setup)
  <2>1. /\ Write("split", TRUE, "close") \in Setup /\ Write("zero", TRUE, "close") \in Setup
        /\ Write("uc", TRUE, "close") \in Setup
    BY <1>1, SetupSteps DEF Write
  <2> QED BY <2>1, OneIn, WhenIn
<1>3. iso \in Seq(Setup)
  <2>1. (IF Has(o, "ISOLATE") THEN {"init"} ELSE {}) \in SUBSET Borders
    BY DEF Borders
  <2>2. Write("iso", IF Has(o, "ISOLATE") THEN {"init"} ELSE {}, "goOn") \in Setup
    BY <1>1, <2>1, SetupSteps DEF Write
  <2> QED BY <2>2, OneIn
<1>4. inter \in Seq(Setup)
  <2>1. o.inter \in Nat
    BY DEF Options
  <2>2. Write("inter", o.inter, "close") \in Setup
    BY <1>1, <2>1, SetupSteps DEF Write
  <2> QED BY <2>2, OneIn, WhenIn
<1>5. irq \in Seq(Setup)
  BY <1>1, SetupSteps, OneIn DEF Write
<1>6. gate \in Seq(Calm)
  <2>1. AllBits \in SUBSET Int
    BY AllBitsOK
  <2>2. Write("clk", FALSE, "close") \in Calm /\ Step("unmark", AllBits, "close") \in Calm
    BY <1>1, <2>1, WriteCalm DEF Write
  <2> QED BY <2>2, TwoIn, WhenIn
<1>7. tiles \in Seq(Calm)
  <2>1. o.tiles \in Locations \cup {All}
    BY DEF Options
  <2> QED BY <2>1, RequestTilesMade, WhenIn
<1>8. last \in Seq(Calm)
  BY <1>1, OpenCalm, OneIn
<1> DEFINE Gate == {s \in Calm : s.do \in {"clk", "unmark"}}
<1>12. ASSUME ~HasTiles(o)
       PROVE  gate \o tiles \in Seq(Gate) /\ (gen # "AIE" => gate \o tiles = <<>>)
  <2>1. AllBits \in SUBSET Int
    BY AllBitsOK
  <2>2. Write("clk", FALSE, "close") \in Gate /\ Step("unmark", AllBits, "close") \in Gate
    <3>1. Write("clk", FALSE, "close") \in Calm /\ Step("unmark", AllBits, "close") \in Calm
      BY <1>1, <2>1, WriteCalm DEF Write
    <3>2. Write("clk", FALSE, "close").do = "clk" /\ Step("unmark", AllBits, "close").do = "unmark"
      BY DEF Write, Step
    <3> QED BY <3>1, <3>2
  <2> HIDE DEF Gate
  <2>3. gate \in Seq(Gate)
    BY <2>2, TwoIn, WhenIn
  <2>4. tiles = <<>> /\ (gen # "AIE" => gate = <<>>)
    BY <1>12 DEF When
  <2> HIDE DEF gate, tiles
  <2>5. gate \o <<>> = gate
    BY <2>3, ConcatEmptySeq
  <2> QED BY <2>3, <2>4, <2>5
<1> DEFINE front == split \o iso \o zero \o uc \o inter \o irq
           rest == gate \o tiles
<1>9. InitSetup(o) = front \o gate \o tiles \o last
  BY DEF InitSetup
<1> HIDE DEF split, iso, zero, uc, inter, irq, gate, tiles, last
<1>10. front \in Seq(Setup) /\ rest \in Seq(Calm)
  BY <1>2, <1>3, <1>4, <1>5, <1>6, <1>7, ConcatIn
<1>11. front \o gate \o tiles \o last = front \o rest \o last
  <2> HIDE DEF front
  <2>1. (front \o gate) \o tiles = front \o (gate \o tiles)
    <3>1. front \in Seq(StepSet) /\ gate \in Seq(StepSet) /\ tiles \in Seq(StepSet)
      BY <1>6, <1>7, <1>10, SubIn DEF Setup, Calm, StepsIn
    <3> QED BY <3>1, ConcatAssociative
  <2> QED BY <2>1
<1>13. ~HasTiles(o) => rest \in Seq(Gate) /\ (gen # "AIE" => rest = <<>>)
  BY <1>12
<1> HIDE DEF front, rest
<1> QED BY <1>9, <1>10, <1>11, <1>13 DEF last

----------------------------------------------------------------------------
(* Every plan closes what it opened, from registers closed.                 *)

\* Plans that touch no tile.
Away == {s \in StepsIn(gen, inst) : s.do \notin InTiles}

Balanced(p, x) == Leads(p, x, "sure", Shuts, Opens, Returns)

LEMMA Subsets ==
    /\ Calm \subseteq StepsIn(gen, inst) \ Returns /\ Setup \subseteq StepsIn(gen, inst) \ Returns
    /\ Calm \subseteq Away /\ \A fail : Plain(fail) \subseteq Away
    /\ Away \subseteq StepsIn(gen, inst) /\ StepsIn(gen, inst) \ Returns \subseteq StepsIn(gen, inst)
BY DEF Calm, Setup, Away, StepsIn, Plain

LEMMA CloseShuts ==
    ASSUME InstOK(inst), NEW fail \in FailKinds
    PROVE  Close(fail) \in Shuts /\ Close(fail) \notin Opens /\ Close(fail) \notin Returns
<1>1. Close(fail) \in StepSet
  BY OpenCalm DEF Calm, StepsIn
<1> QED BY <1>1, StepFields DEF Close, Shuts, Opens, Returns, LeftOpen

\* A plan that returns nowhere on its way and closes in the end.
LEMMA ClosedInTheEnd ==
    ASSUME InstOK(inst), NEW p \in Seq(StepsIn(gen, inst) \ Returns), NEW fail \in FailKinds,
           NEW x \in Sureness
    PROVE  p \o <<Close(fail)>> \in Seq(StepsIn(gen, inst)) /\ Balanced(p \o <<Close(fail)>>, x)
<1>1. p \in Seq(StepsIn(gen, inst)) /\ <<Close(fail)>> \in Seq(StepsIn(gen, inst))
  BY OpenCalm, OneIn, SubIn, Subsets DEF Calm
<1>2. Leads(p, x, "unsure", Shuts, Opens, Returns)
  <2>1. \A s \in StepsIn(gen, inst) \ Returns : s \notin Returns
    OBVIOUS
  <2> HIDE DEF StepsIn, Returns
  <2> QED BY <2>1, LeadsUnsure
<1>3. Leads(<<Close(fail)>>, "unsure", "sure", Shuts, Opens, Returns)
  <2>1. Close(fail) \in StepsIn(gen, inst)
    BY OpenCalm DEF Calm
  <2> QED BY <2>1, CloseShuts, LeadsStep DEF Sureness
<1>4. Leads(p \o <<Close(fail)>>, x, "sure", Shuts, Opens, Returns)
  BY <1>1, <1>2, <1>3, LeadsConcat DEF Sureness
<1> QED BY <1>1, <1>4, ConcatIn DEF Balanced

\* Steps that leave the registers alone, from registers closed.
LEMMA LeftClosed ==
    ASSUME NEW p \in Seq(StepsIn(gen, inst)), \A i \in 1..Len(p) : p[i] \notin Opens
    PROVE  Balanced(p, "sure")
<1> DEFINE S == {s \in StepsIn(gen, inst) : s \notin Opens}
<1>1. p \in Seq(S)
  OBVIOUS
<1>2. \A s \in S : s \notin Opens
  OBVIOUS
<1> HIDE DEF S
<1> QED BY <1>1, <1>2, LeadsQuiet DEF Balanced, Sureness

LEMMA InitPartBalanced ==
    ASSUME InstOK(inst), NEW o \in Options, NEW x \in Sureness
    PROVE  InitPart(o) \in Seq(StepsIn(gen, inst)) /\ Balanced(InitPart(o), x)
<1>1. PICK front \in Seq(Setup), rest \in Seq(Calm) :
         InitSetup(o) = front \o rest \o <<Close("return")>>
  BY InitSetupMade
<1> DEFINE S == StepsIn(gen, inst) \ Returns
<1>2. InitReset(o) \in Seq(S) /\ front \in Seq(S) /\ rest \in Seq(S)
  BY InitResetMade, SubIn, Subsets
<1>3. "return" \in FailKinds
  BY DEF FailKinds
<1>4. <<Close("return")>> \in Seq(StepsIn(gen, inst)) /\ S \subseteq StepsIn(gen, inst)
  BY <1>3, OpenCalm, OneIn, SubIn, Subsets
<1>5. /\ InitReset(o) \in Seq(StepsIn(gen, inst)) /\ front \in Seq(StepsIn(gen, inst))
      /\ rest \in Seq(StepsIn(gen, inst))
  BY <1>2, <1>4, SubIn
<1>6. front \o rest \in Seq(S) /\ front \o rest \in Seq(StepsIn(gen, inst))
  BY <1>2, <1>5, ConcatIn
<1>7. InitPart(o) = (InitReset(o) \o (front \o rest)) \o <<Close("return")>>
  BY <1>1, <1>4, <1>5, <1>6, ConcatAssociative DEF InitPart
<1>8. InitReset(o) \o (front \o rest) \in Seq(S)
  BY <1>2, <1>6, ConcatIn
<1> QED BY <1>3, <1>7, <1>8, ClosedInTheEnd

LEMMA TeardownBalanced ==
    ASSUME InstOK(inst), NEW x \in Sureness
    PROVE  TeardownPart \in Seq(StepsIn(gen, inst)) /\ Balanced(TeardownPart, x)
<1> DEFINE S == StepsIn(gen, inst) \ Returns
           col == When(gen # "AIE4", ColumnReset("close"))
           first == <<Open("return")>> \o col \o RstPartShims("close") \o ClockAfterRst("close")
           middle == <<Write("zero", TRUE, "close"), Write("inter", 1, "close"),
                       Write("clk", FALSE, "close")>>
           last == <<Close("return")>>
<1>1. "return" \in FailKinds /\ "close" \in FailKinds \ {"return"}
  BY DEF FailKinds
<1>2. first \in Seq(S)
  <2>1. <<Open("return")>> \in Seq(Calm) /\ col \in Seq(Calm)
    BY <1>1, OpenCalm, OneIn, ResetsMade, WhenIn
  <2>2. first \in Seq(Calm)
    <3>1. RstPartShims("close") \in Seq(Calm) /\ ClockAfterRst("close") \in Seq(Calm)
      BY <1>1, ResetsMade, StillCalm, SubIn
    <3> HIDE DEF col
    <3> QED BY <2>1, <3>1, ConcatIn
  <2> QED BY <2>2, SubIn, Subsets
<1>3. middle \in Seq(S)
  <2>1. /\ Write("zero", TRUE, "close") \in Setup /\ Write("inter", 1, "close") \in Setup
        /\ Write("clk", FALSE, "close") \in Calm
    BY <1>1, SetupSteps, WriteCalm DEF Write
  <2>2. /\ Write("zero", TRUE, "close") \in S /\ Write("inter", 1, "close") \in S
        /\ Write("clk", FALSE, "close") \in S
    BY <2>1, Subsets
  <2> HIDE DEF S
  <2> QED BY <2>2, ThreeIn
<1>4. last \in Seq(S)
  BY <1>1, OpenCalm, OneIn, SubIn, Subsets
<1>5. TeardownPart = first \o (middle \o last)
  <2>1. middle \o last = <<Write("zero", TRUE, "close"), Write("inter", 1, "close"),
                           Write("clk", FALSE, "close"), Close("return")>>
    BY ThreeAndOne
  <2> QED BY <2>1 DEF TeardownPart
<1> HIDE DEF first, middle
<1>6. TeardownPart = (first \o middle) \o <<Close("return")>>
  BY <1>2, <1>3, <1>4, <1>5, ConcatAssociative
<1>7. first \o middle \in Seq(S)
  BY <1>2, <1>3, ConcatIn
<1> QED BY <1>1, <1>6, <1>7, ClosedInTheEnd

LEMMA RequestBalanced ==
    ASSUME InstOK(inst), NEW req \in Locations \cup {All}
    PROVE  RequestTiles(req, FALSE) \in Seq(Away) /\ Balanced(RequestTiles(req, FALSE), "sure")
<1>1. /\ "return" \in FailKinds /\ "close" \in FailKinds \ {"return"}
      /\ "drop" \in FailKinds
  BY DEF FailKinds
<1>2. CASE gen = "AIE"
  <2>1. RequestSteps(req, "return") \in Seq(Plain("return"))
    BY <1>1, RequestStepsMade DEF Reporting
  <2>2. RequestTiles(req, FALSE) = RequestSteps(req, "return")
    BY <1>2 DEF RequestTiles
  <2>3. \A i \in 1..Len(RequestSteps(req, "return")) : RequestSteps(req, "return")[i] \notin Opens
    BY <2>1 DEF Plain, Opens
  <2>4. RequestSteps(req, "return") \in Seq(Away) /\ RequestSteps(req, "return") \in Seq(StepsIn(gen, inst))
    BY <2>1, SubIn, Subsets
  <2> QED BY <2>2, <2>3, <2>4, LeftClosed
<1>3. CASE gen # "AIE"
  <2> DEFINE p == <<Open("return")>> \o RequestSteps(req, "close")
  <2>1. p \in Seq(Calm)
    BY <1>1, OpenCalm, OneIn, RequestStepsMade, PlainCalm, SubIn, ConcatIn DEF Reporting
  <2>2. p \in Seq(StepsIn(gen, inst) \ Returns) /\ p \in Seq(Away)
    BY <2>1, SubIn, Subsets
  <2>3. RequestTiles(req, FALSE) = p \o <<Close("drop")>>
    BY <1>3 DEF RequestTiles
  <2>4. <<Close("drop")>> \in Seq(Away)
    BY <1>1, OpenCalm, OneIn, SubIn, Subsets
  <2> HIDE DEF p
  <2>5. p \o <<Close("drop")>> \in Seq(Away)
    BY <2>2, <2>4, ConcatIn
  <2> QED BY <1>1, <2>2, <2>3, <2>5, ClosedInTheEnd DEF Sureness
<1> QED BY <1>2, <1>3

\* One balanced plan after another.
LEMMA BalancedConcat ==
    ASSUME NEW a \in Seq(StepsIn(gen, inst)), NEW b \in Seq(StepsIn(gen, inst)), NEW x \in Sureness,
           Balanced(a, x), Balanced(b, "sure")
    PROVE  a \o b \in Seq(StepsIn(gen, inst)) /\ Balanced(a \o b, x)
BY LeadsConcat, ConcatIn DEF Balanced, Sureness

SoftOpts(o) == [o EXCEPT !.flags = @ \ {"ISOLATE"}, !.tiles = <<>>]
LEMMA SoftOptsOK == \A o \in Options : SoftOpts(o) \in Options
<1>1. <<>> \in Locations
  BY DEF Locations
<1> QED BY <1>1 DEF Options, SoftOpts

\* What a soft partition adds to the initialization.
SoftEnd(parent) ==
    LET flags == Mask(parent.start = FirstCol, "west")
                 \cup Mask(parent.start + parent.cols - 1 = LastCol, "east")
        iso(fail) == <<Write("iso", flags, fail)>>
    IN IF gen # "AIE" THEN iso("return")
       ELSE <<Write("clk", TRUE, "drop"), Step("mark", AllBits, "drop")>> \o iso("drop")
            \o <<Write("clk", FALSE, "last"), Step("unmark", AllBits, "drop")>>

LEMMA SoftEndMade ==
    ASSUME InstOK(inst), NEW parent
    PROVE  /\ SoftEnd(parent) \in Seq({s \in StepsIn(gen, inst) : s.do \notin {"prot", "tile"}})
           /\ gen # "AIE" => /\ Len(SoftEnd(parent)) = 1
                             /\ SoftEnd(parent)[1].do = "iso" /\ SoftEnd(parent)[1].fail = "return"
<1> DEFINE S == {s \in StepsIn(gen, inst) : s.do \notin {"prot", "tile"}}
           flags == Mask(parent.start = FirstCol, "west")
                    \cup Mask(parent.start + parent.cols - 1 = LastCol, "east")
<1>1. flags \in SUBSET Borders
  BY DEF Mask, Borders
<1> HIDE DEF flags
<1>2. ASSUME NEW fail \in FailKinds PROVE Write("iso", flags, fail) \in S
  <2>1. Step("iso", flags, fail) \in StepSet
    BY <1>1, StepTypes
  <2>2. Step("iso", flags, fail).do = "iso"
    BY StepFields
  <2> QED BY <2>1, <2>2 DEF Write, StepsIn
<1>3. "return" \in FailKinds /\ "drop" \in FailKinds /\ "last" \in FailKinds
  BY DEF FailKinds
<1>4. \A fail \in FailKinds : <<Write("iso", flags, fail)>> \in Seq(S)
  <2> HIDE DEF S
  <2> QED BY <1>2
<1>5. CASE gen # "AIE"
  <2>1. SoftEnd(parent) = <<Write("iso", flags, "return")>>
    BY <1>5 DEF SoftEnd, flags
  <2>2. Write("iso", flags, "return").do = "iso" /\ Write("iso", flags, "return").fail = "return"
    BY StepFields DEF Write
  <2> QED BY <1>3, <1>4, <2>1, <2>2
<1>6. CASE gen = "AIE"
  <2>1. /\ Write("clk", TRUE, "drop") \in S /\ Step("mark", AllBits, "drop") \in S
        /\ Write("clk", FALSE, "last") \in S /\ Step("unmark", AllBits, "drop") \in S
    <3>1. AllBits \in SUBSET Int
      BY AllBitsOK
    <3>2. /\ Write("clk", TRUE, "drop") \in StepsIn(gen, inst) /\ Step("mark", AllBits, "drop") \in StepsIn(gen, inst)
          /\ Write("clk", FALSE, "last") \in StepsIn(gen, inst) /\ Step("unmark", AllBits, "drop") \in StepsIn(gen, inst)
      BY <1>3, <3>1, PlainSteps DEF Write, Plain
    <3>3. /\ Write("clk", TRUE, "drop").do \notin {"prot", "tile"} /\ Step("mark", AllBits, "drop").do \notin {"prot", "tile"}
          /\ Write("clk", FALSE, "last").do \notin {"prot", "tile"} /\ Step("unmark", AllBits, "drop").do \notin {"prot", "tile"}
      BY DEF Write, Step
    <3> QED BY <3>2, <3>3
  <2>2. /\ <<Write("clk", TRUE, "drop"), Step("mark", AllBits, "drop")>> \in Seq(S)
        /\ <<Write("clk", FALSE, "last"), Step("unmark", AllBits, "drop")>> \in Seq(S)
    <3> HIDE DEF S
    <3> QED BY <2>1, TwoIn
  <2>3. <<Write("iso", flags, "drop")>> \in Seq(S)
    BY <1>3, <1>4
  <2>4. <<Write("clk", TRUE, "drop"), Step("mark", AllBits, "drop")>> \o <<Write("iso", flags, "drop")>>
        \o <<Write("clk", FALSE, "last"), Step("unmark", AllBits, "drop")>> \in Seq(S)
    <3> HIDE DEF S
    <3> QED BY <2>2, <2>3, ConcatIn
  <2> QED BY <1>6, <2>4 DEF SoftEnd, flags
<1> QED BY <1>5, <1>6

LEMMA SoftPartIs ==
    ASSUME NEW o, NEW parent
    PROVE  SoftPart(o, parent) = InitPart(SoftOpts(o)) \o SoftEnd(parent)
BY DEF SoftPart, SoftEnd, SoftOpts

LEMMA SoftBalanced ==
    ASSUME InstOK(inst), NEW o \in Options, NEW parent, NEW x \in Sureness
    PROVE  /\ SoftPart(o, parent) \in Seq(StepsIn(gen, inst))
           /\ Balanced(SoftPart(o, parent), x)
<1> DEFINE S == {s \in StepsIn(gen, inst) : s.do \notin {"prot", "tile"}}
<1>1. SoftEnd(parent) \in Seq(S)
  BY SoftEndMade
<1>2. SoftEnd(parent) \in Seq(StepsIn(gen, inst))
  BY <1>1, SubIn
<1>3. \A i \in 1..Len(SoftEnd(parent)) : SoftEnd(parent)[i] \notin Opens
  <2>1. \A s \in S : s \notin Opens
    BY DEF Opens
  <2> HIDE DEF S
  <2> QED BY <1>1, <2>1
<1>4. Balanced(SoftEnd(parent), "sure")
  BY <1>2, <1>3, LeftClosed
<1>5. InitPart(SoftOpts(o)) \in Seq(StepsIn(gen, inst)) /\ Balanced(InitPart(SoftOpts(o)), x)
  BY SoftOptsOK, InitPartBalanced
<1> QED BY <1>2, <1>4, <1>5, BalancedConcat, SoftPartIs

LEMMA ResetBalanced ==
    ASSUME InstOK(inst), gen # "AIE4"
    PROVE  ResetPart \in Seq(Away) /\ Balanced(ResetPart, "sure")
<1> DEFINE S == StepsIn(gen, inst) \ Returns
           cols == IF gen = "AIE" THEN Cols ELSE 0..(inst.cols - 1)
           open == Step("prot", cols, "drop")
           npi == <<NpiShimReset(TRUE, "drop"), NpiShimReset(FALSE, "drop")>>
           shimsAie == <<Write("shim", TRUE, "drop"), NpiShimReset(TRUE, "drop"),
                         NpiShimReset(FALSE, "drop"), Write("shim", FALSE, "drop")>>
           shimsMl == <<open, NpiShimReset(TRUE, "drop"), NpiShimReset(FALSE, "drop"), Close("drop")>>
           shims == IF gen = "AIE" THEN shimsAie ELSE shimsMl
           first == <<Write("clk", FALSE, "return"), Write("rst", TRUE, "drop"),
                      Write("clk", TRUE, "return")>>
           nsu == <<open, Write("nsu", TRUE, "drop"), Close("drop")>>
           last == <<Write("clk", FALSE, "return")>>
<1>1. "return" \in FailKinds /\ "drop" \in FailKinds \ {"return"}
  BY DEF FailKinds
<1>2. cols \in SUBSET Int
  BY PartColsOK
<1> HIDE DEF cols
<1>3. open \in Calm /\ Close("drop") \in Calm
  <2>1. open \in StepSet
    BY <1>1, <1>2, StepTypes
  <2> QED BY <1>1, <2>1, OpenCalm, CalmSteps DEF InTiles
<1>4. /\ NpiShimReset(TRUE, "drop") \in Plain("drop") /\ NpiShimReset(FALSE, "drop") \in Plain("drop")
      /\ gen = "AIE" => /\ Write("shim", TRUE, "drop") \in Plain("drop")
                        /\ Write("shim", FALSE, "drop") \in Plain("drop")
      /\ Write("rst", TRUE, "drop") \in Plain("drop") /\ Write("nsu", TRUE, "drop") \in Plain("drop")
      /\ Write("clk", FALSE, "return") \in Plain("return")
      /\ Write("clk", TRUE, "return") \in Plain("return")
  BY <1>1, PlainSteps DEF Write, NpiShimReset, HasShimReset
<1> DEFINE Quiet == {s \in Away : s \notin Opens}
<1>5. \A fail : Plain(fail) \subseteq Quiet
  BY Subsets DEF Plain, Opens
<1>6. ASSUME NEW p \in Seq(Quiet) PROVE p \in Seq(StepsIn(gen, inst)) /\ p \in Seq(Away) /\ Balanced(p, "sure")
  <2>1. Quiet \subseteq Away /\ Quiet \subseteq StepsIn(gen, inst)
    BY Subsets
  <2>2. p \in Seq(StepsIn(gen, inst)) /\ p \in Seq(Away)
    BY <2>1, SubIn
  <2>3. \A s \in Quiet : s \notin Opens
    OBVIOUS
  <2>4. \A i \in 1..Len(p) : p[i] \notin Opens
    <3> HIDE DEF Quiet
    <3> QED BY <2>3
  <2> QED BY <2>2, <2>4, LeftClosed
<1> HIDE DEF Quiet
<1>7. first \in Seq(Quiet) /\ (gen = "AIE" => shimsAie \in Seq(Quiet)) /\ last \in Seq(Quiet)
  <2>1. /\ NpiShimReset(TRUE, "drop") \in Quiet /\ NpiShimReset(FALSE, "drop") \in Quiet
        /\ gen = "AIE" => Write("shim", TRUE, "drop") \in Quiet /\ Write("shim", FALSE, "drop") \in Quiet
        /\ Write("rst", TRUE, "drop") \in Quiet
        /\ Write("clk", FALSE, "return") \in Quiet /\ Write("clk", TRUE, "return") \in Quiet
    BY <1>4, <1>5
  <2> QED BY <2>1, ThreeIn, FourIn, OneIn
<1>8. ASSUME NEW p \in Seq(Calm)
      PROVE  /\ p \o <<Close("drop")>> \in Seq(Away)
             /\ p \o <<Close("drop")>> \in Seq(StepsIn(gen, inst))
             /\ Balanced(p \o <<Close("drop")>>, "sure")
  <2>1. p \in Seq(S) /\ p \in Seq(Away) /\ <<Close("drop")>> \in Seq(Away)
    BY <1>3, OneIn, SubIn, Subsets
  <2> QED BY <1>1, <2>1, ConcatIn, ClosedInTheEnd DEF Sureness
<1>9. /\ shims \in Seq(Away) /\ shims \in Seq(StepsIn(gen, inst)) /\ Balanced(shims, "sure")
  <2>1. <<open, NpiShimReset(TRUE, "drop"), NpiShimReset(FALSE, "drop")>> \in Seq(Calm)
    BY <1>1, <1>3, <1>4, PlainCalm, ThreeIn
  <2>2. shimsMl = <<open, NpiShimReset(TRUE, "drop"), NpiShimReset(FALSE, "drop")>> \o <<Close("drop")>>
    BY ThreeAndOne
  <2> HIDE DEF shimsMl, shimsAie
  <2>3. shimsMl \in Seq(Away) /\ shimsMl \in Seq(StepsIn(gen, inst)) /\ Balanced(shimsMl, "sure")
    BY <2>1, <2>2, <1>8
  <2>4. gen = "AIE" => /\ shimsAie \in Seq(Away) /\ shimsAie \in Seq(StepsIn(gen, inst))
                       /\ Balanced(shimsAie, "sure")
    BY <1>6, <1>7
  <2> QED BY <2>3, <2>4
<1>10. nsu \in Seq(Away) /\ nsu \in Seq(StepsIn(gen, inst)) /\ Balanced(nsu, "sure")
  <2>1. <<open, Write("nsu", TRUE, "drop")>> \in Seq(Calm)
    BY <1>1, <1>3, <1>4, PlainCalm, TwoIn
  <2>2. nsu = <<open, Write("nsu", TRUE, "drop")>> \o <<Close("drop")>>
    BY TwoAndOne
  <2> HIDE DEF nsu, open
  <2> QED BY <2>1, <2>2, <1>8
<1>11. ResetPart = (first \o shims) \o (nsu \o last)
  <2>1. nsu \o last = <<open, Write("nsu", TRUE, "drop"), Close("drop"), Write("clk", FALSE, "return")>>
    BY ThreeAndOne
  <2> QED BY <2>1 DEF ResetPart, cols
<1> HIDE DEF first, shims, nsu, last
<1>12. /\ first \in Seq(Away) /\ first \in Seq(StepsIn(gen, inst)) /\ Balanced(first, "sure")
       /\ last \in Seq(Away) /\ last \in Seq(StepsIn(gen, inst)) /\ Balanced(last, "sure")
  BY <1>6, <1>7
<1>13. /\ first \o shims \in Seq(Away) /\ first \o shims \in Seq(StepsIn(gen, inst))
       /\ Balanced(first \o shims, "sure")
  BY <1>9, <1>12, BalancedConcat, ConcatIn DEF Sureness
<1>14. /\ nsu \o last \in Seq(Away) /\ nsu \o last \in Seq(StepsIn(gen, inst))
       /\ Balanced(nsu \o last, "sure")
  BY <1>10, <1>12, BalancedConcat, ConcatIn DEF Sureness
<1> QED BY <1>11, <1>13, <1>14, BalancedConcat, ConcatIn DEF Sureness

LEMMA RefusedBalanced ==
    ASSUME InstOK(inst), NEW x \in Sureness
    PROVE  Refused \in Seq(Away) /\ Balanced(Refused, x)
<1> DEFINE one == Step("unsupported", "", "return")
<1>1. one \in Plain("return") /\ one \in Away /\ one \in StepSet
  BY PlainSteps, Subsets DEF FailKinds, Away, StepsIn
<1>2. one \in Shuts /\ one \notin Opens /\ one \notin Returns
  <2>1. one.do = "unsupported"
    BY DEF Step
  <2> HIDE DEF one
  <2>2. one \in Shuts /\ one \notin Opens
    BY <1>1, <2>1 DEF Shuts, Opens
  <2>3. one \notin Returns
    BY <2>1 DEF Returns, LeftOpen
  <2> QED BY <2>2, <2>3
<1> HIDE DEF one
<1>3. <<one>> \in Seq(Away) /\ Balanced(<<one>>, x)
  BY <1>1, <1>2, OneIn, LeadsStep DEF Sureness, Balanced
<1> QED BY <1>3 DEF Refused, one

LEMMA ClearBalanced ==
    ASSUME InstOK(inst)
    PROVE  <<Step("clear", "", "drop")>> \in Seq(Away)
           /\ Balanced(<<Step("clear", "", "drop")>>, "sure")
<1> DEFINE s == Step("clear", "", "drop")
<1>1. s \in Plain("drop") /\ s \in Away /\ s \in StepSet
  BY PlainSteps, Subsets DEF FailKinds, Away, StepsIn
<1>2. s \notin Opens /\ s \notin Returns
  <2>1. s.do = "clear" /\ s.fail = "drop"
    BY DEF Step
  <2> HIDE DEF s
  <2> QED BY <1>1, <2>1 DEF Opens, Returns
<1> HIDE DEF s
<1>3. <<s>> \in Seq(Away) /\ Balanced(<<s>>, "sure")
  BY <1>1, <1>2, OneIn, LeadsStep DEF Sureness, Balanced
<1> QED BY <1>3 DEF s

LEMMA InterleaveBalanced ==
    ASSUME InstOK(inst), NEW locs \in Locations, \A i \in DOMAIN locs : InPart(locs[i]),
           NEW mode \in Nat
    PROVE  InterleaveLocs(locs, mode) \in Seq(Away) /\ Balanced(InterleaveLocs(locs, mode), "sure")
<1> DEFINE one(t) == Step("interloc", <<t, mode>>, "close")
           loop == [i \in DOMAIN locs |-> one(locs[i])]
           p == <<Open("return")>> \o loop
<1>1. "return" \in FailKinds /\ "close" \in FailKinds \ {"return"}
  BY DEF FailKinds
<1>2. loop \in Seq(Calm)
  <2>1. locs \in Seq(Nat \X Nat) /\ DOMAIN locs = 1..Len(locs) /\ Len(locs) \in Nat
    BY DEF Locations
  <2>2. ASSUME NEW i \in 1..Len(locs) PROVE one(locs[i]) \in Calm
    <3>1. locs[i] \in Nat \X Nat /\ locs[i][1] < inst.cols
      <4>1. InPart(locs[i])
        BY <2>1
      <4> QED BY <2>1, <4>1 DEF InPart
    <3>2. <<locs[i], mode>> \in (Nat \X Nat) \X Nat /\ <<locs[i], mode>>[1][1] < inst.cols
      BY <3>1
    <3>3. one(locs[i]) \in Plain("close")
      BY <1>1, <3>2, PlainSteps DEF Reporting
    <3> QED BY <1>1, <3>3, PlainCalm
  <2> QED BY <2>1, <2>2, IsASeq
<1> HIDE DEF loop
<1>3. <<Open("return")>> \in Seq(Calm) /\ <<Close("return")>> \in Seq(Calm)
  BY <1>1, OpenCalm, OneIn
<1>4. p \in Seq(Calm)
  BY <1>2, <1>3, ConcatIn
<1>5. InterleaveLocs(locs, mode) = p \o <<Close("return")>>
  BY DEF InterleaveLocs, loop
<1> HIDE DEF p
<1>6. p \in Seq(StepsIn(gen, inst) \ Returns) /\ p \in Seq(Away) /\ <<Close("return")>> \in Seq(Away)
  BY <1>3, <1>4, SubIn, Subsets
<1> QED BY <1>1, <1>5, <1>6, ConcatIn, ClosedInTheEnd DEF Sureness

LEMMA AxiBalanced ==
    ASSUME InstOK(inst), NEW flags \in SUBSET Borders
    PROVE  AxiMMIsolation(flags) \in Seq(Away) /\ Balanced(AxiMMIsolation(flags), "sure")
<1> DEFINE axi == When(gen = "AIE2PS", <<Write("axi", flags, "return")>>)
           p == <<Open("return")>> \o axi
<1>1. "return" \in FailKinds
  BY DEF FailKinds
<1>2. axi \in Seq(Calm)
  <2>1. Step("axi", flags, "return") \in StepSet
    BY <1>1, StepTypes
  <2>2. Write("axi", flags, "return") \in Calm
    BY <2>1, CalmSteps DEF Write, InTiles, LeftOpen
  <2> QED BY <2>2, OneIn, WhenIn
<1>3. <<Open("return")>> \in Seq(Calm) /\ <<Close("return")>> \in Seq(Calm)
  BY <1>1, OpenCalm, OneIn
<1>4. AxiMMIsolation(flags) = p \o <<Close("return")>>
  BY DEF AxiMMIsolation
<1> HIDE DEF axi
<1>5. p \in Seq(Calm)
  BY <1>2, <1>3, ConcatIn
<1> HIDE DEF p
<1>6. p \in Seq(StepsIn(gen, inst) \ Returns) /\ p \in Seq(Away) /\ <<Close("return")>> \in Seq(Away)
  BY <1>3, <1>5, SubIn, Subsets
<1> QED BY <1>1, <1>4, <1>6, ConcatIn, ClosedInTheEnd DEF Sureness

----------------------------------------------------------------------------
(* Every plan has the clocks on when it touches the tiles.                  *)

\* Steps that turn the clocks on and off, that give the tiles of AIE columns
\* back their clocks and that may take them away.
Ungates == {s \in StepSet : s.do = "clk" /\ s.arg = TRUE}
Gates == {s \in StepSet : s.do = "columns" \/ (s.do = "clk" /\ s.arg # TRUE)}
Raises == {s \in StepSet : s.do = "rst" /\ s.arg = TRUE}
Lowers == {s \in StepSet : s.do = "tile"}
Touches == {s \in StepSet : s.do \in InTiles}

\* A sound order of clocks and accesses; AIE counts on a column reset.
ClocksLead(p, x, y) == Leads(p, x, y, Ungates, Gates, Touches)
TilesLead(p, x, y) == Leads(p, x, y, Raises, Lowers, Touches)
Ordered(p, x, y) == /\ ClocksLead(p, x, y)
                    /\ gen = "AIE" => TilesLead(p, x, y)

LEMMA OrderedConcat ==
    ASSUME NEW a \in Seq(StepsIn(gen, inst)), NEW b \in Seq(StepsIn(gen, inst)),
           NEW x \in Sureness, NEW y \in Sureness, NEW z \in Sureness,
           Ordered(a, x, y), Ordered(b, y, z)
    PROVE  Ordered(a \o b, x, z)
<1>1. ClocksLead(a \o b, x, z)
  BY LeadsConcat DEF Ordered, ClocksLead
<1>2. gen = "AIE" => TilesLead(a \o b, x, z)
  BY LeadsConcat DEF Ordered, TilesLead
<1> QED BY <1>1, <1>2 DEF Ordered

LEMMA OrderedAway ==
    ASSUME NEW p \in Seq(Away), NEW x \in Sureness PROVE Ordered(p, x, "unsure")
<1>1. \A s \in Away : s \notin Touches
  BY DEF Away, Touches
<1> HIDE DEF Away
<1> QED BY <1>1, LeadsUnsure DEF Ordered, ClocksLead, TilesLead

\* Steps that leave the clocks alone.
LEMMA OrderedQuiet ==
    ASSUME NEW S, NEW p \in Seq(S), \A s \in S : s.do \notin {"clk", "columns", "tile"}
    PROVE  Ordered(p, "sure", "sure")
<1>1. \A s \in S : s \notin Gates /\ s \notin Lowers
  BY DEF Gates, Lowers
<1> QED BY <1>1, LeadsQuiet DEF Ordered, ClocksLead, TilesLead, Sureness

LEMMA OrderedEmpty == ASSUME NEW x \in Sureness PROVE Ordered(<<>>, x, x)
BY LeadsEmpty DEF Ordered, ClocksLead, TilesLead

\* A column reset turns the clocks on and gives the tiles theirs.
LEMMA ColumnResetOrdered ==
    ASSUME NEW fail \in FailKinds \ {"return"}
    PROVE  Ordered(ColumnReset(fail), "unsure", "sure")
<1> DEFINE a == Write("clk", FALSE, fail)
           b == Write("rst", TRUE, fail)
           c == Write("clk", TRUE, fail)
           d == Write("rst", FALSE, fail)
           p == <<a, b, c, d>>
<1>1. a \in StepSet /\ b \in StepSet /\ c \in StepSet /\ d \in StepSet
  BY StepTypes DEF Write
<1>2. /\ a.do = "clk" /\ a.arg = FALSE /\ b.do = "rst" /\ b.arg = TRUE
      /\ c.do = "clk" /\ c.arg = TRUE /\ d.do = "rst" /\ d.arg = FALSE
  BY DEF Write, Step
<1> HIDE DEF a, b, c, d
<1>3. /\ c \in Ungates /\ d \notin Gates
      /\ b \in Raises /\ c \notin Lowers /\ d \notin Lowers
      /\ a \notin Touches /\ b \notin Touches /\ c \notin Touches /\ d \notin Touches
  BY <1>1, <1>2 DEF Ungates, Gates, Raises, Lowers, Touches, InTiles
<1>4. Len(p) = 4 /\ p[1] = a /\ p[2] = b /\ p[3] = c /\ p[4] = d
  OBVIOUS
<1> HIDE DEF p
<1>5. \A k \in 1..Len(p) : p[k] \notin Touches
  BY <1>3, <1>4
<1>6. SureAt(p, "unsure", 5, Ungates, Gates)
  <2>1. 3 \in 1..(5 - 1) /\ p[3] \in Ungates
    BY <1>3, <1>4
  <2>2. ASSUME NEW i \in 1..(5 - 1), p[i] \in Gates PROVE \E j \in (i + 1)..(5 - 1) : p[j] \in Ungates
    <3>1. i # 4
      BY <2>2, <1>3, <1>4
    <3>2. CASE i = 3
      <4>1. c \notin Gates
        BY <1>2 DEF Gates
      <4> QED BY <4>1, <3>2, <2>2, <1>4
    <3>3. CASE i \in 1..2
      BY <3>3, <2>1
    <3> QED BY <3>1, <3>2, <3>3
  <2> QED BY <2>1, <2>2 DEF SureAt
<1>7. SureAt(p, "unsure", 5, Raises, Lowers)
  <2>1. 2 \in 1..(5 - 1) /\ p[2] \in Raises
    BY <1>3, <1>4
  <2>2. ASSUME NEW i \in 1..(5 - 1), p[i] \in Lowers PROVE \E j \in (i + 1)..(5 - 1) : p[j] \in Raises
    <3>1. i \notin {3, 4}
      BY <2>2, <1>3, <1>4
    <3>2. p[2] \notin Lowers
      BY <1>2, <1>4 DEF Lowers
    <3>3. i = 1
      BY <3>1, <3>2, <2>2
    <3> QED BY <3>3, <2>1
  <2> QED BY <2>1, <2>2 DEF SureAt
<1>8. Ordered(p, "unsure", "sure")
  BY <1>4, <1>5, <1>6, <1>7 DEF Ordered, ClocksLead, TilesLead, Leads
<1> QED BY <1>8 DEF p, a, b, c, d, ColumnReset

LEMMA ClockAfterRstOrdered ==
    ASSUME NEW fail \in FailKinds \ {"return"}
    PROVE  /\ gen # "AIE" => Ordered(ClockAfterRst(fail), "unsure", "sure")
           /\ Ordered(ClockAfterRst(fail), "sure", "sure")
<1> DEFINE c == Write("clk", TRUE, fail)
<1>1. c \in StepSet
  BY StepTypes DEF Write
<1>2. c.do = "clk" /\ c.arg = TRUE
  BY DEF Write, Step
<1> HIDE DEF c
<1>3. c \in Ungates /\ c \notin Gates /\ c \notin Touches /\ c \notin Lowers
  BY <1>1, <1>2 DEF Ungates, Gates, Touches, InTiles, Lowers
<1>4. ClocksLead(<<c>>, "unsure", "sure") /\ Ordered(<<c>>, "sure", "sure")
  BY <1>1, <1>3, LeadsStep DEF Ordered, ClocksLead, TilesLead, Sureness
<1>5. CASE gen = "AIE"
  <2>1. ClockAfterRst(fail) = <<>>
    BY <1>5 DEF ClockAfterRst, ClocksAfterRst, When
  <2> QED BY <1>5, <2>1, OrderedEmpty DEF Sureness
<1>6. CASE gen # "AIE"
  <2>1. ClockAfterRst(fail) = <<c>>
    BY <1>6 DEF ClockAfterRst, ClocksAfterRst, When, c
  <2> QED BY <1>4, <1>6, <2>1 DEF Ordered
<1> QED BY <1>5, <1>6

\* The common beginning of initialization and teardown.
LEMMA ResetsOrdered ==
    ASSUME NEW first \in Seq(Calm), NEW cond \in BOOLEAN, NEW shims \in Seq(Still),
           gen = "AIE" => cond, cond => gen # "AIE4"
    PROVE  LET p == first \o When(cond, ColumnReset("close")) \o shims \o ClockAfterRst("close")
           IN p \in Seq(StepsIn(gen, inst)) /\ Ordered(p, "unsure", "sure")
<1> DEFINE col == When(cond, ColumnReset("close"))
           clock == ClockAfterRst("close")
           q == first \o col \o shims
<1>1. "close" \in FailKinds \ {"return"}
  BY DEF FailKinds
<1>2. col \in Seq(Calm) /\ clock \in Seq(Calm) /\ shims \in Seq(Calm)
  BY <1>1, ResetsMade, WhenIn, SubIn, StillCalm
<1>3. /\ col \in Seq(StepsIn(gen, inst)) /\ clock \in Seq(StepsIn(gen, inst)) /\ shims \in Seq(StepsIn(gen, inst))
      /\ first \in Seq(StepsIn(gen, inst)) /\ first \in Seq(Away) /\ col \in Seq(Away)
  BY <1>2, SubIn, Subsets
<1>4. Ordered(first, "unsure", "unsure")
  BY <1>3, OrderedAway DEF Sureness
<1>5. \A s \in Still : s.do \notin {"clk", "columns", "tile"}
  BY DEF Still
<1>6. Ordered(shims, "sure", "sure") /\ Ordered(shims, "unsure", "unsure")
  <2>1. shims \in Seq(Away)
    BY <1>2, SubIn, Subsets
  <2> HIDE DEF Still
  <2> QED BY <1>5, <2>1, OrderedQuiet, OrderedAway DEF Sureness
<1> HIDE DEF Still
<1>7. CASE cond
  <2>1. col = ColumnReset("close")
    BY <1>7 DEF When
  <2>2. Ordered(col, "unsure", "sure")
    BY <1>1, <2>1, ColumnResetOrdered
  <2>3. Ordered(clock, "sure", "sure")
    BY <1>1, ClockAfterRstOrdered
  <2> HIDE DEF col, clock
  <2>4. first \o col \in Seq(StepsIn(gen, inst)) /\ Ordered(first \o col, "unsure", "sure")
    BY <1>3, <1>4, <2>2, OrderedConcat, ConcatIn DEF Sureness
  <2>5. q \in Seq(StepsIn(gen, inst)) /\ Ordered(q, "unsure", "sure")
    BY <1>3, <1>6, <2>4, OrderedConcat, ConcatIn DEF Sureness
  <2> HIDE DEF q
  <2>6. q \o clock \in Seq(StepsIn(gen, inst)) /\ Ordered(q \o clock, "unsure", "sure")
    BY <1>3, <2>3, <2>5, OrderedConcat, ConcatIn DEF Sureness
  <2> QED BY <2>6 DEF q, col, clock
<1>8. CASE ~cond
  <2>1. gen # "AIE"
    BY <1>8
  <2>2. Ordered(clock, "unsure", "sure")
    BY <1>1, <2>1, ClockAfterRstOrdered
  <2>3. Ordered(col, "unsure", "unsure")
    BY <1>3, OrderedAway DEF Sureness
  <2> HIDE DEF col, clock
  <2>4. first \o col \in Seq(StepsIn(gen, inst)) /\ Ordered(first \o col, "unsure", "unsure")
    BY <1>3, <1>4, <2>3, OrderedConcat, ConcatIn DEF Sureness
  <2>5. q \in Seq(StepsIn(gen, inst)) /\ Ordered(q, "unsure", "unsure")
    BY <1>3, <1>6, <2>4, OrderedConcat, ConcatIn DEF Sureness
  <2> HIDE DEF q
  <2>6. q \o clock \in Seq(StepsIn(gen, inst)) /\ Ordered(q \o clock, "unsure", "sure")
    BY <1>3, <2>2, <2>5, OrderedConcat, ConcatIn DEF Sureness
  <2> QED BY <2>6 DEF q, col, clock
<1> QED BY <1>7, <1>8

\* Set-up steps leave the clocks alone.
LEMMA SetupOrdered ==
    ASSUME NEW p \in Seq(Setup)
    PROVE  p \in Seq(StepsIn(gen, inst)) /\ Ordered(p, "sure", "sure")
<1>1. \A s \in Setup : s.do \notin {"clk", "columns", "tile"}
  BY DEF Setup, InTiles
<1>2. p \in Seq(StepsIn(gen, inst))
  BY SubIn, Subsets
<1> HIDE DEF Setup
<1> QED BY <1>1, <1>2, OrderedQuiet

\* Initialization.  Without tiles to request it ends with the clocks it turned
\* on, but for AIE, where the tiles are left to pass them on.
LEMMA InitPartOrdered ==
    ASSUME InstOK(inst), NEW o \in Options, gen = "AIE" => Has(o, "COLUMN_RST")
    PROVE  /\ Ordered(InitPart(o), "unsure", "unsure")
           /\ ~HasTiles(o) => /\ gen # "AIE" => Ordered(InitPart(o), "unsure", "sure")
                              /\ gen = "AIE" => TilesLead(InitPart(o), "unsure", "sure")
<1> DEFINE col == When(Has(o, "COLUMN_RST") /\ gen # "AIE4", ColumnReset("close"))
           last == <<Close("return")>>
<1>1. PICK first \in Seq(Calm), shims \in Seq(Still) :
         /\ InitReset(o) = first \o col \o shims \o ClockAfterRst("close")
         /\ InitReset(o) \in Seq(Calm)
  BY InitResetMade
<1>2. PICK front \in Seq(Setup), rest \in Seq(Calm) :
         /\ InitSetup(o) = front \o rest \o last
         /\ ~HasTiles(o) => /\ rest \in Seq({s \in Calm : s.do \in {"clk", "unmark"}})
                            /\ gen # "AIE" => rest = <<>>
  BY InitSetupMade
<1>3. InitReset(o) \in Seq(StepsIn(gen, inst)) /\ Ordered(InitReset(o), "unsure", "sure")
  <2>1. gen = "AIE" => (Has(o, "COLUMN_RST") /\ gen # "AIE4")
    OBVIOUS
  <2>2. (Has(o, "COLUMN_RST") /\ gen # "AIE4") \in BOOLEAN
    BY DEF Has
  <2> QED BY <1>1, <2>1, <2>2, ResetsOrdered
<1>4. Close("return") \in Calm /\ Close("return").do = "prot"
  BY OpenCalm DEF FailKinds, Close, Step
<1> DEFINE Prot == {s \in Calm : s.do = "prot"}
<1>5. last \in Seq(Prot) /\ last \in Seq(StepsIn(gen, inst)) /\ last \in Seq(Away)
  <2>1. Close("return") \in Prot
    BY <1>4
  <2>2. Prot \subseteq StepsIn(gen, inst) /\ Prot \subseteq Away
    BY Subsets
  <2> HIDE DEF Prot
  <2> QED BY <2>1, <2>2, OneIn, SubIn
<1>6. Ordered(last, "sure", "sure") /\ Ordered(last, "unsure", "unsure")
  <2>1. \A s \in Prot : s.do \notin {"clk", "columns", "tile"}
    OBVIOUS
  <2> HIDE DEF Prot, last
  <2> QED BY <1>5, <2>1, OrderedQuiet, OrderedAway DEF Sureness
<1>7. front \in Seq(StepsIn(gen, inst)) /\ Ordered(front, "sure", "sure")
  BY SetupOrdered
<1>8. rest \in Seq(StepsIn(gen, inst)) /\ rest \in Seq(Away)
  BY SubIn, Subsets
<1>9. Ordered(rest, "sure", "unsure")
  BY <1>8, OrderedAway DEF Sureness
<1> HIDE DEF last, col
<1>10. /\ front \o rest \in Seq(StepsIn(gen, inst)) /\ front \o rest \o last \in Seq(StepsIn(gen, inst))
  BY <1>5, <1>7, <1>8, ConcatIn
<1>11. InitPart(o) = InitReset(o) \o (front \o rest \o last)
  BY <1>2 DEF InitPart
<1>12. ASSUME NEW y \in Sureness, Ordered(rest, "sure", y), Ordered(last, y, y)
       PROVE  Ordered(InitPart(o), "unsure", y)
  <2>1. Ordered(front \o rest, "sure", y)
    BY <1>7, <1>8, <1>12, OrderedConcat DEF Sureness
  <2> DEFINE q == front \o rest
  <2>2. q \in Seq(StepsIn(gen, inst)) /\ Ordered(q, "sure", y)
    BY <2>1, <1>10
  <2> HIDE DEF q
  <2>3. q \o last \in Seq(StepsIn(gen, inst)) /\ Ordered(q \o last, "sure", y)
    BY <1>5, <1>12, <2>2, OrderedConcat, ConcatIn DEF Sureness
  <2> DEFINE r == q \o last
  <2>4. r \in Seq(StepsIn(gen, inst)) /\ Ordered(r, "sure", y)
    BY <2>3
  <2> HIDE DEF r
  <2>5. Ordered(InitReset(o) \o r, "unsure", y)
    BY <1>3, <2>4, OrderedConcat DEF Sureness
  <2> QED BY <1>11, <2>5 DEF r, q
<1>13. Ordered(InitPart(o), "unsure", "unsure")
  BY <1>6, <1>9, <1>12 DEF Sureness
<1>14. ASSUME ~HasTiles(o), gen # "AIE" PROVE Ordered(InitPart(o), "unsure", "sure")
  <2>1. Ordered(rest, "sure", "sure")
    BY <1>2, <1>14, OrderedEmpty DEF Sureness
  <2> QED BY <1>6, <1>12, <2>1 DEF Sureness
<1>15. ASSUME ~HasTiles(o), gen = "AIE" PROVE TilesLead(InitPart(o), "unsure", "sure")
  <2> DEFINE Gate == {s \in Calm : s.do \in {"clk", "unmark"}}
             q == front \o rest
             r == q \o last
  <2>1. TilesLead(rest, "sure", "sure")
    <3>1. \A s \in Gate : s \notin Lowers
      BY DEF Lowers
    <3>2. rest \in Seq(Gate)
      BY <1>2, <1>15
    <3> HIDE DEF Gate
    <3> QED BY <3>1, <3>2, LeadsQuiet DEF TilesLead, Sureness
  <2>2. TilesLead(InitReset(o), "unsure", "sure") /\ TilesLead(front, "sure", "sure")
        /\ TilesLead(last, "sure", "sure")
    BY <1>3, <1>6, <1>7, <1>15 DEF Ordered
  <2>3. q \in Seq(StepsIn(gen, inst)) /\ TilesLead(q, "sure", "sure")
    BY <1>7, <1>8, <1>10, <2>1, <2>2, LeadsConcat DEF TilesLead, Sureness
  <2> HIDE DEF q
  <2>4. r \in Seq(StepsIn(gen, inst)) /\ TilesLead(r, "sure", "sure")
    BY <1>5, <2>2, <2>3, LeadsConcat, ConcatIn DEF TilesLead, Sureness
  <2> HIDE DEF r
  <2>5. TilesLead(InitReset(o) \o r, "unsure", "sure")
    BY <1>3, <2>2, <2>4, LeadsConcat DEF TilesLead, Sureness
  <2> QED BY <1>11, <2>5 DEF r, q
<1> QED BY <1>13, <1>14, <1>15

LEMMA TeardownOrdered ==
    ASSUME InstOK(inst) PROVE Ordered(TeardownPart, "unsure", "unsure")
<1> DEFINE cond == gen # "AIE4"
           open == <<Open("return")>>
           resets == open \o When(cond, ColumnReset("close")) \o RstPartShims("close")
                     \o ClockAfterRst("close")
           zero == Write("zero", TRUE, "close")
           inter == Write("inter", 1, "close")
           gate == Write("clk", FALSE, "close")
           tail == <<zero, inter>> \o <<gate, Close("return")>>
<1>1. "close" \in FailKinds \ {"return"} /\ "return" \in FailKinds
  BY DEF FailKinds
<1>2. open \in Seq(Calm) /\ RstPartShims("close") \in Seq(Still)
  BY <1>1, OpenCalm, OneIn, ResetsMade
<1>3. resets \in Seq(StepsIn(gen, inst)) /\ Ordered(resets, "unsure", "sure")
  <2>1. (gen = "AIE" => cond) /\ cond \in BOOLEAN /\ (cond => gen # "AIE4")
    OBVIOUS
  <2> HIDE DEF cond
  <2> QED BY <1>2, <2>1, ResetsOrdered
<1>4. <<zero, inter>> \in Seq(Setup)
  <2>1. zero \in Setup /\ inter \in Setup
    BY <1>1, SetupSteps DEF Write
  <2> QED BY <2>1, TwoIn
<1>5. <<gate, Close("return")>> \in Seq(Calm)
  <2>1. gate \in Calm /\ Close("return") \in Calm
    BY <1>1, WriteCalm, OpenCalm DEF Write
  <2> QED BY <2>1, TwoIn
<1>6. TeardownPart = resets \o tail
  <2> HIDE DEF zero, inter, gate
  <2>1. tail = <<zero, inter, gate, Close("return")>>
    BY TwoAndTwo
  <2> QED BY <2>1 DEF TeardownPart, zero, inter, gate
<1> DEFINE a == <<zero, inter>>
           b == <<gate, Close("return")>>
<1>7. a \in Seq(StepsIn(gen, inst)) /\ Ordered(a, "sure", "sure")
  BY <1>4, SetupOrdered
<1>8. b \in Seq(StepsIn(gen, inst)) /\ Ordered(b, "sure", "unsure")
  <2>0. b \in Seq(Calm) /\ Calm \subseteq StepsIn(gen, inst) /\ Calm \subseteq Away
    BY <1>5, Subsets
  <2> HIDE DEF b
  <2>1. b \in Seq(StepsIn(gen, inst)) /\ b \in Seq(Away)
    BY <2>0, SubIn
  <2> QED BY <2>1, OrderedAway DEF Sureness
<1> HIDE DEF resets, a, b
<1>9. a \o b \in Seq(StepsIn(gen, inst)) /\ Ordered(a \o b, "sure", "unsure")
  BY <1>7, <1>8, OrderedConcat, ConcatIn DEF Sureness
<1>10. Ordered(resets \o (a \o b), "unsure", "unsure")
  <2> DEFINE q == a \o b
  <2>1. q \in Seq(StepsIn(gen, inst)) /\ Ordered(q, "sure", "unsure")
    BY <1>9
  <2> HIDE DEF q
  <2>2. Ordered(resets \o q, "unsure", "unsure")
    BY <1>3, <2>1, OrderedConcat DEF Sureness
  <2> QED BY <2>2 DEF q
<1> QED BY <1>6, <1>10 DEF a, b

\* On AIE a soft partition turns the clocks on again to set the isolation.
LEMMA SoftEndClocks ==
    ASSUME InstOK(inst), gen = "AIE", NEW parent
    PROVE  ClocksLead(SoftEnd(parent), "unsure", "unsure")
<1> DEFINE flags == Mask(parent.start = FirstCol, "west")
                    \cup Mask(parent.start + parent.cols - 1 = LastCol, "east")
           a == Write("clk", TRUE, "drop")
           b == Step("mark", AllBits, "drop")
           c == Write("iso", flags, "drop")
           d == Write("clk", FALSE, "last")
           e == Step("unmark", AllBits, "drop")
<1>1. "drop" \in FailKinds \ {"return"} /\ "last" \in FailKinds \ {"return"}
  BY DEF FailKinds
<1>2. AllBits \in SUBSET Int /\ flags \in SUBSET Borders
  <2>1. AllBits \in SUBSET Int
    BY AllBitsOK
  <2>2. flags \in SUBSET Borders
    BY DEF Mask, Borders
  <2> QED BY <2>1, <2>2
<1> HIDE DEF flags
<1>3. /\ a \in StepSet /\ b \in Calm /\ c \in Setup /\ d \in Calm /\ e \in Calm /\ a \in Calm
  <2>1. a \in Calm /\ d \in Calm
    BY <1>1, WriteCalm DEF Write
  <2>2. b \in Calm /\ e \in Calm
    BY <1>1, <1>2, WriteCalm
  <2>3. c \in Setup
    BY <1>1, <1>2, SetupSteps DEF Write
  <2> QED BY <2>1, <2>2, <2>3 DEF Calm, StepsIn
<1>4. /\ a.do = "clk" /\ a.arg = TRUE /\ b.do = "mark"
  BY DEF Write, Step
<1> HIDE DEF a, b, c, d, e
<1>5. a \in Ungates /\ a \notin Touches /\ a \notin Gates /\ b \notin Gates /\ b \notin Touches
  BY <1>3, <1>4 DEF Ungates, Gates, Touches, InTiles
<1>6. /\ ClocksLead(<<a>>, "unsure", "sure") /\ ClocksLead(<<b>>, "sure", "sure")
      /\ <<a>> \in Seq(StepsIn(gen, inst)) /\ <<b>> \in Seq(StepsIn(gen, inst)) /\ <<a, b>> \in Seq(StepsIn(gen, inst))
  <2>1. a \in StepsIn(gen, inst) /\ b \in StepsIn(gen, inst)
    BY <1>3, Subsets
  <2>2. ClocksLead(<<a>>, "unsure", "sure")
    BY <1>3, <1>5, LeadsStep DEF ClocksLead, Sureness
  <2>3. ClocksLead(<<b>>, "sure", "sure")
    BY <1>3, <1>5, LeadsStep DEF ClocksLead, Sureness
  <2> QED BY <2>1, <2>2, <2>3, OneIn, TwoIn
<1>7. ClocksLead(<<a, b>>, "unsure", "sure")
  <2>1. <<a, b>> = <<a>> \o <<b>>
    BY OneAndOne
  <2>2. ClocksLead(<<a>> \o <<b>>, "unsure", "sure")
    BY <1>6, LeadsConcat DEF ClocksLead, Sureness
  <2> QED BY <2>1, <2>2
<1>8. <<c>> \in Seq(StepsIn(gen, inst)) /\ ClocksLead(<<c>>, "sure", "sure")
  BY <1>3, OneIn, SetupOrdered DEF Ordered
<1>9. <<d, e>> \in Seq(StepsIn(gen, inst)) /\ ClocksLead(<<d, e>>, "sure", "unsure")
  <2>1. <<d, e>> \in Seq(Calm) /\ Calm \subseteq StepsIn(gen, inst) /\ Calm \subseteq Away
    BY <1>3, TwoIn, Subsets
  <2>2. <<d, e>> \in Seq(StepsIn(gen, inst)) /\ <<d, e>> \in Seq(Away)
    BY <2>1, SubIn
  <2> QED BY <2>2, OrderedAway DEF Ordered, Sureness
<1> DEFINE p == <<a, b>> \o <<c>>
<1>10. p \in Seq(StepsIn(gen, inst)) /\ ClocksLead(p, "unsure", "sure")
  BY <1>6, <1>7, <1>8, LeadsConcat, ConcatIn DEF ClocksLead, Sureness
<1> HIDE DEF p
<1>11. ClocksLead(p \o <<d, e>>, "unsure", "unsure")
  BY <1>9, <1>10, LeadsConcat DEF ClocksLead, Sureness
<1> QED BY <1>11 DEF SoftEnd, p, a, b, c, d, e, flags

LEMMA SoftPartOrdered ==
    ASSUME InstOK(inst), NEW o \in Options, NEW parent,
           gen = "AIE" => Has(SoftOpts(o), "COLUMN_RST")
    PROVE  Ordered(SoftPart(o, parent), "unsure", "unsure")
<1> DEFINE init == InitPart(SoftOpts(o))
           end == SoftEnd(parent)
<1>1. SoftOpts(o) \in Options /\ ~HasTiles(SoftOpts(o))
  BY SoftOptsOK DEF SoftOpts, HasTiles, Options
<1>2. init \in Seq(StepsIn(gen, inst))
  BY <1>1, InitPartBalanced DEF Sureness
<1> DEFINE S == {s \in StepsIn(gen, inst) : s.do \notin {"prot", "tile"}}
<1>3. end \in Seq(S) /\ end \in Seq(StepsIn(gen, inst))
  <2>1. end \in Seq(S) /\ S \subseteq StepsIn(gen, inst)
    BY SoftEndMade
  <2> HIDE DEF end, S
  <2> QED BY <2>1, SubIn
<1>4. CASE gen # "AIE"
  <2>1. Ordered(init, "unsure", "sure")
    BY <1>1, <1>4, InitPartOrdered
  <2>2. Ordered(end, "sure", "sure")
    <3>1. Len(end) = 1 /\ end[1].do = "iso"
      BY <1>4, SoftEndMade
    <3> DEFINE Iso == {s \in StepsIn(gen, inst) : s.do = "iso"}
    <3>2. end \in Seq(Iso)
      <4> HIDE DEF end
      <4>1. \A i \in 1..Len(end) : end[i] \in Iso
        BY <1>3, <3>1
      <4> HIDE DEF Iso
      <4> QED BY <1>3, <4>1
    <3>3. \A s \in Iso : s.do \notin {"clk", "columns", "tile"}
      OBVIOUS
    <3> HIDE DEF Iso, end
    <3> QED BY <3>2, <3>3, OrderedQuiet
  <2> HIDE DEF init, end
  <2>3. Ordered(init \o end, "unsure", "sure")
    BY <1>2, <1>3, <2>1, <2>2, OrderedConcat DEF Sureness
  <2>4. Ordered(init \o end, "unsure", "unsure")
    BY <2>3, LeadsWeaken DEF Ordered, ClocksLead, TilesLead, Sureness
  <2> QED BY <2>4, SoftPartIs DEF init, end
<1>5. CASE gen = "AIE"
  <2>1. /\ ClocksLead(init, "unsure", "unsure") /\ TilesLead(init, "unsure", "sure")
    BY <1>1, <1>5, InitPartOrdered DEF Ordered
  <2>2. ClocksLead(end, "unsure", "unsure")
    BY <1>5, SoftEndClocks
  <2>3. TilesLead(end, "sure", "sure")
    <3>1. \A s \in S : s \notin Lowers
      BY DEF Lowers
    <3> HIDE DEF S, end
    <3> QED BY <1>3, <3>1, LeadsQuiet DEF TilesLead, Sureness
  <2> HIDE DEF init, end
  <2>4. ClocksLead(init \o end, "unsure", "unsure") /\ TilesLead(init \o end, "unsure", "sure")
    BY <1>2, <1>3, <2>1, <2>2, <2>3, LeadsConcat DEF ClocksLead, TilesLead, Sureness
  <2>5. TilesLead(init \o end, "unsure", "unsure")
    BY <2>4, LeadsWeaken DEF TilesLead, Sureness
  <2> QED BY <2>4, <2>5, SoftPartIs DEF Ordered, init, end
<1> QED BY <1>4, <1>5

\* The only plan with a step that may touch columns outside of the partition.
LEMMA SetColumnClkMade ==
    ASSUME InstOK(inst), NEW req \in [start : Nat, cols : Nat, enable : BOOLEAN]
    PROVE  /\ SetColumnClk(req) \in Seq(Planned(gen, inst, "columns"))
           /\ Balanced(SetColumnClk(req), "sure")
           /\ Ordered(SetColumnClk(req), "unsure", "unsure")
<1> DEFINE S == Planned(gen, inst, "columns")
           open == When(gen # "AIE", <<Open("return")>>)
           columns == Step("columns", req, "close")
           close == Close("drop")
<1>1. /\ "return" \in FailKinds /\ "close" \in FailKinds \ {"return"} /\ "drop" \in FailKinds
  BY DEF FailKinds
<1>2. StepsIn(gen, inst) \subseteq S
  BY DEF Planned
<1>3. open \in Seq(StepsIn(gen, inst)) /\ open \in Seq(Calm) /\ open \in Seq(S)
  <2>1. open \in Seq(Calm) /\ Calm \subseteq StepsIn(gen, inst)
    BY <1>1, OpenCalm, OneIn, WhenIn, Subsets
  <2> HIDE DEF open, S
  <2> QED BY <1>2, <2>1, SubIn
<1>4. Leads(open, "sure", "unsure", Shuts, Opens, Returns)
  <2>1. \A s \in Calm : s \notin Returns
    BY DEF Calm
  <2> HIDE DEF Calm, Returns
  <2> QED BY <1>3, <2>1, LeadsUnsure DEF Sureness
<1>5. /\ columns \in S /\ columns.do = "columns" /\ columns.fail = "close"
      /\ close \in S /\ close \in Shuts /\ close \notin Opens /\ close \notin Returns
      /\ close.do = "prot"
  <2>1. columns \in StepSet /\ columns.do = "columns" /\ columns.fail = "close" /\ close.do = "prot"
    <3>1. columns \in StepSet
      BY <1>1, StepTypes
    <3> QED BY <3>1, StepFields DEF Close
  <2>2. close \in StepsIn(gen, inst)
    BY <1>1, OpenCalm DEF Calm
  <2> HIDE DEF columns, close
  <2>3. columns \in S
    BY <2>1 DEF Planned
  <2> QED BY <1>1, <1>2, <2>1, <2>2, <2>3, CloseShuts DEF close
<1>6. ASSUME NEW p \in Seq({s \in S : s.do \notin InTiles}) PROVE p \in Seq(S) /\ Ordered(p, "unsure", "unsure")
  <2> DEFINE Outside == {s \in S : s.do \notin InTiles}
  <2>1. \A s \in Outside : s \notin Touches
    BY DEF Touches
  <2>2. Outside \subseteq S
    OBVIOUS
  <2> HIDE DEF Outside
  <2>3. p \in Seq(Outside)
    BY <1>6 DEF Outside
  <2> QED BY <2>1, <2>2, <2>3, SubIn, LeadsUnsure DEF Ordered, ClocksLead, TilesLead, Sureness
<1>7. CASE gen = "AIEML"
  <2> DEFINE end == <<columns, close>>
  <2>1. SetColumnClk(req) = open \o end
    BY <1>7 DEF SetColumnClk
  <2> HIDE DEF S, open, columns, close
  <2>2. <<columns>> \in Seq(S) /\ <<close>> \in Seq(S) /\ end \in Seq(S) /\ end = <<columns>> \o <<close>>
    BY <1>5, OneIn, TwoIn, OneAndOne
  <2>3. columns \notin Returns
    BY <1>5 DEF Returns
  <2>4. Leads(<<columns>>, "unsure", "unsure", Shuts, Opens, Returns)
        /\ Leads(<<close>>, "unsure", "sure", Shuts, Opens, Returns)
    BY <1>5, <2>3, LeadsStep DEF Sureness
  <2>5. Leads(end, "unsure", "sure", Shuts, Opens, Returns)
    BY <2>2, <2>4, LeadsConcat DEF Sureness
  <2> DEFINE Outside == {s \in S : s.do \notin InTiles}
  <2>6. end \in Seq(Outside)
    <3>1. columns \in Outside /\ close \in Outside
      BY <1>5 DEF InTiles
    <3> HIDE DEF Outside
    <3> QED BY <3>1, TwoIn
  <2>7. open \in Seq(Outside)
    <3>1. Calm \subseteq Outside
      BY <1>2, Subsets DEF Calm
    <3> HIDE DEF Outside
    <3> QED BY <1>3, <3>1, SubIn
  <2>8. open \o end \in Seq(Outside)
    <3> HIDE DEF Outside, end
    <3> QED BY <2>6, <2>7, ConcatIn
  <2>9. open \o end \in Seq(S) /\ Ordered(open \o end, "unsure", "unsure")
    <3> HIDE DEF end
    <3> QED BY <1>6, <2>8
  <2> HIDE DEF end
  <2>10. end \in Seq(S)
    BY <2>2
  <2>11. Balanced(open \o end, "sure")
    BY <1>3, <1>4, <2>5, <2>10, LeadsConcat DEF Balanced, Sureness
  <2> QED BY <2>1, <2>9, <2>11 DEF S
<1>8. CASE gen # "AIEML"
  <2>1. SetColumnClk(req) = open \o Refused
    BY <1>8 DEF SetColumnClk, Refused
  <2> HIDE DEF open, S
  <2>2. Refused \in Seq(Away) /\ Balanced(Refused, "unsure")
    BY RefusedBalanced DEF Sureness
  <2>3. open \in Seq(Away) /\ Refused \in Seq(StepsIn(gen, inst))
    BY <1>3, <2>2, SubIn, Subsets
  <2>4. Leads(open \o Refused, "sure", "sure", Shuts, Opens, Returns)
    BY <1>3, <1>4, <2>2, <2>3, LeadsConcat DEF Balanced, Sureness
  <2>5. open \o Refused \in Seq(Away)
    BY <2>2, <2>3, ConcatIn
  <2>6. open \o Refused \in Seq(S) /\ Ordered(open \o Refused, "unsure", "unsure")
    <3> DEFINE p == open \o Refused
    <3>1. p \in Seq(Away) /\ Away \subseteq StepsIn(gen, inst)
      BY <2>5, Subsets
    <3> HIDE DEF p
    <3>2. p \in Seq(StepsIn(gen, inst)) /\ Ordered(p, "unsure", "unsure")
      BY <3>1, SubIn, OrderedAway DEF Sureness
    <3>3. p \in Seq(S)
      BY <1>2, <3>2, SubIn
    <3> QED BY <3>2, <3>3 DEF p
  <2> QED BY <2>1, <2>4, <2>6 DEF Balanced, S
<1> QED BY <1>7, <1>8

----------------------------------------------------------------------------
(* The types are kept.                                                      *)

LEMMA StepTypesIn ==
    ASSUME NEW g, NEW part, NEW op, NEW s \in Planned(g, part, op)
    PROVE  /\ s \in StepSet /\ s.fail \in FailKinds /\ s.do \in Kinds
           /\ s.do = "columns" => op = "columns"
           /\ s.do = "nmu" => part.start = 0
           /\ s.do = "interloc" => s.arg[1][1] < part.cols
<1>1. s \in StepSet
  BY DEF Planned, StepsIn
<1>2. s.fail \in FailKinds
  BY <1>1 DEF StepSet
<1>3. s.do \in Kinds
  BY <1>1 DEF StepSet, Kinds, PerColumn
<1>4. /\ s.do = "columns" => op = "columns"
      /\ s.do = "nmu" => part.start = 0
      /\ s.do = "interloc" => s.arg[1][1] < part.cols
  BY DEF Planned, StepsIn
<1> QED BY <1>1, <1>2, <1>3, <1>4

Plan == Planned(gen, inst, call.op)
LEMMA NowOK ==
    ASSUME TypeOK, ~Idle
    PROVE  /\ call.plan \in Seq(Plan) /\ call.plan # <<>> /\ Len(call.plan) \in Nat
           /\ Now = call.plan[1] /\ Now \in Plan /\ Now \in StepSet
           /\ Now.fail \in FailKinds /\ Now.do \in Kinds
           /\ Tail(call.plan) \in Seq(Plan)
<1>1. call.plan \in Seq(Plan) /\ call.plan # <<>>
  BY DEF TypeOK, CallOK, Idle, Plan
<1> HIDE DEF Plan
<1>2. /\ Now = call.plan[1] /\ Now \in Plan /\ Len(call.plan) \in Nat
      /\ Tail(call.plan) \in Seq(Plan)
  BY <1>1 DEF Now
<1> QED BY <1>1, <1>2, StepTypesIn DEF Plan

LEMMA AfterFailureOK ==
    ASSUME InstOK(inst), NEW op, NEW plan \in Seq(Planned(gen, inst, op)), plan # <<>>,
           NEW how \in FailKinds
    PROVE  AfterFailure(plan, how) \in Seq(Planned(gen, inst, op))
<1> DEFINE S == Planned(gen, inst, op)
<1>1. Close("drop") \in S
  BY OpenCalm DEF Calm, FailKinds, Planned
<1> HIDE DEF S
<1>2. /\ <<Close("drop")>> \in Seq(S) /\ <<>> \in Seq(S)
      /\ <<Close("drop"), Close("drop")>> \in Seq(S)
  BY <1>1, OneIn, TwoIn
<1>3. Tail(plan) \in Seq(S)
  BY DEF S
<1>4. <<Close("drop")>> \o Tail(plan) \in Seq(S)
  BY <1>2, <1>3, ConcatIn
<1> QED BY <1>2, <1>3, <1>4 DEF AfterFailure, FailKinds, S

LEMMA SucceedOK == ASSUME TypeOK, ~Idle, Succeed PROVE CallOK(call', gen, inst)
BY NowOK DEF TypeOK, CallOK, Succeed, Plan

LEMMA FailOK ==
    ASSUME TypeOK, ~Idle, NEW kinds \in SUBSET Kinds, Fail(kinds)
    PROVE  CallOK(call', gen, inst)
<1>1. AfterFailure(call.plan, Now.fail) \in Seq(Planned(gen, inst, call.op))
  BY NowOK, AfterFailureOK DEF TypeOK, Plan
<1>2. /\ call.lost \cup kinds \in SUBSET Kinds
      /\ (IF Now.fail \in {"drop", "goOn"} THEN call.rc ELSE "error") \in {"ok", "error"}
  BY DEF TypeOK, CallOK
<1> QED BY <1>1, <1>2 DEF TypeOK, CallOK, Fail

LEMMA NoticedOK ==
    ASSUME TypeOK, ~Idle, Noticed PROVE CallOK(call', gen, inst) /\ faults' \in Nat
<1>1. {Now.do} \in SUBSET Kinds
  BY NowOK
<1> QED BY <1>1, FailOK DEF Noticed, Fault, TypeOK

LEMMA UnnoticedOK ==
    ASSUME TypeOK, ~Idle, Unnoticed PROVE CallOK(call', gen, inst) /\ faults' \in Nat
<1>1. call.lost \cup {Now.do} \in SUBSET Kinds
  BY NowOK DEF TypeOK, CallOK
<1>2. Tail(call.plan) \in Seq(Planned(gen, inst, call.op))
  BY NowOK DEF Plan
<1>3. CallOK(call', gen, inst)
  BY <1>1, <1>2 DEF Unnoticed, TypeOK, CallOK
<1> QED BY <1>3 DEF Unnoticed, Fault, TypeOK

LEMMA WrittenOK ==
    ASSUME NEW h, HwOK(h), NEW r \in PerColumn, NEW v, NEW cs
    PROVE  /\ HwOK(Written(h, r, v, cs))
           /\ Written(h, r, v, cs).prot = h.prot /\ Written(h, r, v, cs).locked = h.locked
<1>1. ASSUME NEW f PROVE DOMAIN Put(f, cs, v) = Cols
  BY DEF Put
<1>2. CASE r = "clk"
  BY <1>2 DEF Written, ClkWritten, Put, HwOK, ColumnRegs
<1>3. CASE r = "rst"
  BY <1>3 DEF Written, RstWritten, AfterReset, Put, HwOK, ColumnRegs
<1>4. CASE r = "shim"
  BY <1>4 DEF Written, ShimWritten, Put, HwOK, ColumnRegs
<1>5. CASE r = "nsu"
  BY <1>5 DEF Written, NsuWritten, Put, HwOK, ColumnRegs
<1>6. CASE r = "irq"
  BY <1>6 DEF Written, IrqWritten, Put, HwOK, ColumnRegs
<1>7. CASE r = "iso"
  BY <1>7 DEF Written, IsoWritten, HwOK, ColumnRegs
<1>8. CASE r = "axi"
  BY <1>8 DEF Written, AxiWritten, HwOK, ColumnRegs
<1>9. CASE r = "zero"
  BY <1>9 DEF Written, ZeroWritten, Put, HwOK, ColumnRegs
<1>10. CASE r = "uc"
  BY <1>10 DEF Written, UcWritten, Put, HwOK, ColumnRegs
<1>11. CASE r = "split"
  BY <1>11 DEF Written, SplitWritten, Put, HwOK, ColumnRegs
<1>12. CASE r = "inter"
  BY <1>12 DEF Written, InterWritten, Put, HwOK, ColumnRegs
<1> QED BY <1>2, <1>3, <1>4, <1>5, <1>6, <1>7, <1>8, <1>9, <1>10, <1>11, <1>12 DEF PerColumn

\* The arguments of the steps that name tiles or bits.
LEMMA ArgsOK ==
    ASSUME TypeOK, ~Idle
    PROVE  /\ Doing({"tile"}) => Now.arg \in Nat \X Nat
           /\ Doing({"mark", "unmark"}) => Now.arg \subseteq Int
           /\ Doing({"columns"}) => /\ Now.arg \in [start : Nat, cols : Nat, enable : BOOLEAN]
                                   /\ call.op = "columns"
           /\ Doing({"nmu"}) => Now.arg \in {0, 1} /\ inst.start = 0
           /\ Doing({"interloc"}) => Now.arg \in (Nat \X Nat) \X Nat /\ Now.arg[1][1] < inst.cols
<1>1. Now \in Planned(gen, inst, call.op) /\ Now \in StepSet
  BY NowOK DEF Plan
<1>2. Now.do = "tile" => Now.arg \in Nat \X Nat
  BY <1>1 DEF StepSet
<1>3. Now.do \in {"mark", "unmark"} => Now.arg \subseteq Int
  BY <1>1 DEF StepSet
<1>4. Now.do = "columns" => Now.arg \in [start : Nat, cols : Nat, enable : BOOLEAN]
  BY <1>1 DEF StepSet
<1>5. Now.do = "nmu" => Now.arg \in {0, 1}
  BY <1>1 DEF StepSet
<1>6. Now.do = "interloc" => Now.arg \in (Nat \X Nat) \X Nat
  BY <1>1 DEF StepSet
<1>7. /\ Now.do = "nmu" => inst.start = 0
      /\ Now.do = "interloc" => Now.arg[1][1] < inst.cols
      /\ Now.do = "columns" => call.op = "columns"
  BY <1>1, StepTypesIn
<1> QED BY <1>2, <1>3, <1>4, <1>5, <1>6, <1>7 DEF Doing

LEMMA BitsOK ==
    ASSUME TypeOK
    PROVE  /\ \A col, row \in Nat : TileBit(col, row) \in Int
           /\ \A first, num \in Int : Bits(first, num) \subseteq Int
           /\ \A col \in Nat : ColumnBits(col) \subseteq Int
           /\ \A part \in Parts : ResetBits(part) \subseteq Int
<1>1. NumRows \in Nat /\ inst.start \in Nat
  BY SizesOK DEF TypeOK, InstOK, Cols
<1>2. \A col, row \in Nat : TileBit(col, row) \in Int
  BY <1>1 DEF TileBit
<1>3. \A first, num \in Int : Bits(first, num) \subseteq Int
  BY DEF Bits
<1>4. \A col \in Nat : ColumnBits(col) \subseteq Int
  BY <1>1, <1>2, <1>3 DEF ColumnBits
<1>5. ASSUME NEW part \in Parts PROVE ResetBits(part) \subseteq Int
  BY <1>1 DEF ResetBits, Bits
<1> QED BY <1>2, <1>3, <1>4, <1>5

LEMMA NoOptsOK ==
    /\ NoOpts \in Options
    /\ \A req \in Requests : [NoOpts EXCEPT !.tiles = req]
          \in Options \cup {[NoOpts EXCEPT !.tiles = All]}
<1>1. <<>> \in Locations
  BY DEF Locations
<1>2. NoOpts \in Options
  BY <1>1 DEF NoOpts, Options, AppModes
<1>3. ASSUME NEW req \in Requests
      PROVE  [NoOpts EXCEPT !.tiles = req] \in Options \cup {[NoOpts EXCEPT !.tiles = All]}
  <2>1. req \in Locations \/ req = All
    BY SizesOK
  <2>2. req \in Locations => [NoOpts EXCEPT !.tiles = req] \in Options
    BY <1>2 DEF Options
  <2> QED BY <2>1, <2>2
<1> QED BY <1>2, <1>3

\* A call that begins keeps the types when its arguments and its plan are typed.
LEMMA BeginOK ==
    ASSUME TypeOK, NEW op \in Ops, NEW arg \in Options \cup {[NoOpts EXCEPT !.tiles = All]},
           NEW plan \in Seq(Planned(gen, inst, op)), Begin(op, arg, plan),
           InstOK(inst'), inst'.start = inst.start, inst'.cols = inst.cols
    PROVE  TypeOK'
<1>1. Planned(gen, inst', op) = Planned(gen, inst, op)
  BY DEF Planned, StepsIn
<1>2. Shut \in BOOLEAN /\ (\A col \in RelCols : InStep(col)) \in BOOLEAN
  BY DEF Shut
<1>3. call' \in [op : Ops, arg : Options \cup {[NoOpts EXCEPT !.tiles = All]},
                plan : Seq(Planned(gen, inst, op)), rc : {"ok", "error"}, lost : SUBSET Kinds,
                fit : BOOLEAN, shut : BOOLEAN]
  BY <1>2 DEF Begin
<1>4. calls' \in Nat /\ UNCHANGED <<gen, used, hw, faults>> /\ call'.op = op
  BY DEF Begin, TypeOK
<1> QED BY <1>1, <1>3, <1>4 DEF TypeOK, CallOK

\* What every call of the client begins with.
Args == Options \cup {[NoOpts EXCEPT !.tiles = All]}
Counted(op, arg) == gen = "AIE" /\ op \in {"init", "soft"} => Has(arg, "COLUMN_RST")
Begun(op, arg, plan) ==
    /\ Begin(op, arg, plan)
    /\ Balanced(plan, "sure")
    /\ Counted(op, arg) => Ordered(plan, "unsure", "unsure")
    /\ InstOK(inst') /\ inst'.start = inst.start /\ inst'.cols = inst.cols

\* Every plan but one keeps to the columns of the partition.
LEMMA PlannedIn ==
    ASSUME NEW op, NEW plan \in Seq(StepsIn(gen, inst)) PROVE plan \in Seq(Planned(gen, inst, op))
<1>1. StepsIn(gen, inst) \subseteq Planned(gen, inst, op)
  BY DEF Planned
<1> QED BY <1>1, SubIn

LEMMA AwayBegun ==
    ASSUME TypeOK, NEW op, NEW arg, NEW plan \in Seq(Away), Balanced(plan, "sure"),
           Begin(op, arg, plan), UNCHANGED inst
    PROVE  plan \in Seq(Planned(gen, inst, op)) /\ Begun(op, arg, plan)
<1>1. plan \in Seq(StepsIn(gen, inst)) /\ Ordered(plan, "unsure", "unsure")
  BY SubIn, Subsets, OrderedAway DEF Sureness
<1> QED BY <1>1, PlannedIn DEF Begun, TypeOK

LEMMA ClientBegins ==
    ASSUME TypeOK, Client
    PROVE  \/ \E part \in Parts : CfgInitialize(part)
           \/ \E op \in Ops, arg \in Args : \E plan \in Seq(Planned(gen, inst, op)) : Begun(op, arg, plan)
<1> DEFINE Goal == \E op \in Ops, arg \in Args : \E plan \in Seq(Planned(gen, inst, op)) : Begun(op, arg, plan)
<1>1. InstOK(inst) /\ NoOpts \in Args
  BY NoOptsOK DEF TypeOK, Args
<1>2. {"init", "soft", "teardown", "request", "columns", "reset", "clear", "interloc", "axi"} \subseteq Ops
  BY DEF Ops
<1>3. ASSUME NEW o \in InitOpts
      PROVE  o \in Options /\ ([inst EXCEPT !.app = Mode(o)] = inst'
                 => InstOK(inst') /\ inst'.start = inst.start /\ inst'.cols = inst.cols)
  <2>1. o \in Options
    BY SizesOK DEF Options
  <2>2. Mode(o) \in AppModes
    BY <1>1, <2>1 DEF Mode, Options, InstOK, AppModes
  <2> QED BY <1>1, <2>1, <2>2 DEF InstOK
<1>4. Refused \in Seq(Away) /\ Refused \in Seq(StepsIn(gen, inst)) /\ Balanced(Refused, "sure")
      /\ Ordered(Refused, "unsure", "unsure")
  BY <1>1, RefusedBalanced, SubIn, Subsets, OrderedAway DEF Sureness
<1>5. ASSUME NEW o \in InitOpts, PartitionInitialize(o) PROVE Goal
  <2> DEFINE plan == IF BadMode(o) THEN Refused ELSE InitPart(o)
  <2>1. o \in Options /\ o \in Args
    BY <1>3 DEF Args
  <2>2. plan \in Seq(StepsIn(gen, inst)) /\ Balanced(plan, "sure")
    BY <1>1, <1>4, <2>1, InitPartBalanced DEF Sureness
  <2>3. Counted("init", o) => Ordered(plan, "unsure", "unsure")
    <3>1. Counted("init", o) => (gen = "AIE" => Has(o, "COLUMN_RST"))
      BY DEF Counted
    <3> QED BY <1>1, <1>4, <2>1, <3>1, InitPartOrdered
  <2>4. Begin("init", o, plan) /\ InstOK(inst') /\ inst'.start = inst.start /\ inst'.cols = inst.cols
    BY <1>3, <1>5 DEF PartitionInitialize
  <2> HIDE DEF plan
  <2>5. Begun("init", o, plan)
    BY <2>2, <2>3, <2>4 DEF Begun
  <2> QED BY <1>2, <2>1, <2>2, <2>5, PlannedIn
<1>6. ASSUME NEW o \in InitOpts, NEW parent \in Parts, SoftPartitionInitialize(o, parent) PROVE Goal
  <2> DEFINE plan == IF BadMode(o) THEN Refused ELSE SoftPart(o, parent)
  <2>1. o \in Options /\ SoftOpts(o) \in Options /\ SoftOpts(o) \in Args
    BY <1>3, SoftOptsOK DEF Args
  <2>2. plan \in Seq(StepsIn(gen, inst)) /\ Balanced(plan, "sure")
    BY <1>1, <1>4, <2>1, SoftBalanced DEF Sureness
  <2>3. Counted("soft", SoftOpts(o)) => Ordered(plan, "unsure", "unsure")
    <3>1. Counted("soft", SoftOpts(o)) => (gen = "AIE" => Has(SoftOpts(o), "COLUMN_RST"))
      BY DEF Counted
    <3> QED BY <1>1, <1>4, <2>1, <3>1, SoftPartOrdered
  <2>4. /\ Begin("soft", SoftOpts(o), plan)
        /\ InstOK(inst') /\ inst'.start = inst.start /\ inst'.cols = inst.cols
    BY <1>3, <1>6 DEF SoftPartitionInitialize, SoftOpts
  <2> HIDE DEF plan
  <2>5. Begun("soft", SoftOpts(o), plan)
    BY <2>2, <2>3, <2>4 DEF Begun
  <2> QED BY <1>2, <2>1, <2>2, <2>5, PlannedIn
<1>7. ASSUME PartitionTeardown PROVE Goal
  <2>1. TeardownPart \in Seq(StepsIn(gen, inst)) /\ Balanced(TeardownPart, "sure")
    BY <1>1, TeardownBalanced DEF Sureness
  <2>2. Ordered(TeardownPart, "unsure", "unsure")
    BY <1>1, TeardownOrdered
  <2>3. Begun("teardown", NoOpts, TeardownPart)
    BY <1>1, <1>7, <2>1, <2>2 DEF Begun, PartitionTeardown
  <2> QED BY <1>1, <1>2, <2>1, <2>3, PlannedIn
<1>8. ASSUME NEW req \in Requests, PmRequestTiles(req) PROVE Goal
  <2>1. req \in Locations \cup {All}
    BY SizesOK
  <2>2. RequestTiles(req, FALSE) \in Seq(Away) /\ Balanced(RequestTiles(req, FALSE), "sure")
    BY <1>1, <2>1, RequestBalanced
  <2>3. [NoOpts EXCEPT !.tiles = req] \in Args
    BY NoOptsOK DEF Args
  <2>4. /\ RequestTiles(req, FALSE) \in Seq(Planned(gen, inst, "request"))
        /\ Begun("request", [NoOpts EXCEPT !.tiles = req], RequestTiles(req, FALSE))
    BY <1>8, <2>2, AwayBegun DEF PmRequestTiles
  <2> QED BY <1>2, <2>3, <2>4
<1>9. ASSUME NEW req \in ColumnReqs, PmSetColumnClk(req) PROVE Goal
  <2>1. req \in [start : Nat, cols : Nat, enable : BOOLEAN]
    BY SizesOK
  <2>2. /\ SetColumnClk(req) \in Seq(Planned(gen, inst, "columns")) /\ Balanced(SetColumnClk(req), "sure")
        /\ Ordered(SetColumnClk(req), "unsure", "unsure")
    BY <1>1, <2>1, SetColumnClkMade
  <2>3. Begun("columns", NoOpts, SetColumnClk(req))
    BY <1>1, <1>9, <2>2 DEF Begun, PmSetColumnClk
  <2> QED BY <1>1, <1>2, <2>2, <2>3
<1>10. ASSUME ResetPartition PROVE Goal
  <2>1. ResetPart \in Seq(Away) /\ Balanced(ResetPart, "sure")
    BY <1>1, <1>10, ResetBalanced DEF ResetPartition
  <2>2. ResetPart \in Seq(Planned(gen, inst, "reset")) /\ Begun("reset", NoOpts, ResetPart)
    BY <1>10, <2>1, AwayBegun DEF ResetPartition
  <2> QED BY <1>1, <1>2, <2>2
<1>11. ASSUME ClearPartitionMems PROVE Goal
  <2> DEFINE plan == <<Step("clear", "", "drop")>>
  <2>1. plan \in Seq(Away) /\ Balanced(plan, "sure")
    BY <1>1, ClearBalanced
  <2>2. plan \in Seq(Planned(gen, inst, "clear")) /\ Begun("clear", NoOpts, plan)
    BY <1>11, <2>1, AwayBegun DEF ClearPartitionMems
  <2> HIDE DEF plan
  <2> QED BY <1>1, <1>2, <2>2
<1>12. ASSUME NEW req \in Requests, NEW mode \in {0, 2}, req # All, ConfigMemInterleavingLoc(req, mode)
       PROVE  Goal
  <2>1. req \in Locations /\ mode \in Nat /\ \A i \in DOMAIN req : InPart(req[i])
    BY <1>12, SizesOK DEF ConfigMemInterleavingLoc
  <2>2. InterleaveLocs(req, mode) \in Seq(Away) /\ Balanced(InterleaveLocs(req, mode), "sure")
    BY <1>1, <2>1, InterleaveBalanced
  <2>3. InterleaveLocs(req, mode) \in Seq(Planned(gen, inst, "interloc")) /\ Begun("interloc", NoOpts, InterleaveLocs(req, mode))
    BY <1>12, <2>2, AwayBegun DEF ConfigMemInterleavingLoc
  <2> QED BY <1>1, <1>2, <2>3
<1>13. ASSUME NEW flags \in {{}, {"init"}, {"west"}}, SetAxiMMIsolation(flags) PROVE Goal
  <2>1. flags \in SUBSET Borders
    BY DEF Borders
  <2>2. AxiMMIsolation(flags) \in Seq(Away) /\ Balanced(AxiMMIsolation(flags), "sure")
    BY <1>1, <2>1, AxiBalanced
  <2>3. AxiMMIsolation(flags) \in Seq(Planned(gen, inst, "axi")) /\ Begun("axi", NoOpts, AxiMMIsolation(flags))
    BY <1>13, <2>2, AwayBegun DEF SetAxiMMIsolation
  <2> QED BY <1>1, <1>2, <2>3
<1> HIDE DEF Goal
<1>14. (\E part \in Parts : CfgInitialize(part)) \/ Goal
  BY <1>5, <1>6, <1>7, <1>8, <1>9, <1>10, <1>11, <1>12, <1>13 DEF Client
<1> QED BY <1>14 DEF Goal
----------------------------------------------------------------------------
(* What a step does to the plan and to the facts.                           *)

\* Every column of the partition is clocked; on AIE every tile passes it on.
ClocksOn == \A c \in PartCols : hw.clk[c] = TRUE
TilesOn == \A c \in PartCols : AllUp \subseteq hw.up[c]

SameShut == hw'.prot = hw.prot /\ hw'.locked = hw.locked
Done ==
    /\ Succeed /\ Now.do # "unsupported"
    /\ hw.locked => hw'.locked
    /\ hw'.prot = IF Now.do = "prot" THEN Now.arg ELSE hw.prot
    /\ Now \in Ungates \/ (ClocksOn /\ Now \notin Gates) => ClocksOn'
    /\ Now \in Raises \/ (TilesOn /\ Now \notin Lowers) => TilesOn'
Turned == Fail({}) /\ Now.do \in {"nmu", "tile", "interloc"} /\ UNCHANGED hw
LostNoticed == Fail({Now.do}) /\ (Now.do \notin LeftOpen => SameShut)
LostUnnoticed ==
    /\ call' = [call EXCEPT !.plan = Tail(@), !.lost = @ \cup {Now.do}]
    /\ Now.do \notin LeftOpen => SameShut
Moved == Done \/ Turned \/ LostNoticed \/ LostUnnoticed

\* A step that changes neither the clocks nor the protected registers.
LEMMA QuietDone ==
    ASSUME TypeOK, ~Idle, Succeed, SameShut, hw'.clk = hw.clk, hw'.up = hw.up,
           Now.do \notin {"clk", "rst", "prot", "unsupported"}, UNCHANGED <<gen, inst>>
    PROVE  Done
<1>1. ClocksOn => ClocksOn'
  BY DEF ClocksOn, PartCols
<1>2. TilesOn => TilesOn'
  BY DEF TilesOn, PartCols, AllUp
<1>3. Now \notin Ungates /\ Now \notin Raises
  BY DEF Ungates, Raises
<1> QED BY <1>1, <1>2, <1>3 DEF Done, SameShut

\* Succeeded writes of the registers of columns.
LEMMA WrittenDone ==
    ASSUME TypeOK, ~Idle, Succeed, Now.do \in PerColumn, UNCHANGED <<gen, inst>>,
           hw' = Written(hw, Now.do, Now.arg, ColumnLoop)
    PROVE  Done
<1>1. SameShut
  BY WrittenOK DEF TypeOK, SameShut
<1>2. ColumnLoop = PartCols /\ PartCols' = PartCols /\ PartCols \subseteq Cols
  BY PartColsOK DEF ColumnLoop, PartCols, FirstCol, LastCol, TypeOK
<1>3. Now \in StepSet
  BY NowOK
<1>4. CASE Now.do = "clk"
  <2>1. hw' = [hw EXCEPT !.clk = Put(@, ColumnLoop, Now.arg)]
    BY <1>4 DEF Written, ClkWritten
  <2>2. /\ {"clk", "up"} \subseteq DOMAIN hw
    BY DEF TypeOK, HwOK, ColumnRegs
  <2>3. hw'.up = hw.up /\ hw'.clk = Put(hw.clk, PartCols, Now.arg)
    BY <1>2, <2>1, <2>2
  <2>4. TilesOn => TilesOn'
    BY <1>2, <2>3 DEF TilesOn, AllUp
  <2>5. \A c \in PartCols : hw'.clk[c] = Now.arg
    BY <1>2, <2>3 DEF Put
  <2>6. Now.arg = TRUE => ClocksOn'
    BY <1>2, <2>5 DEF ClocksOn
  <2>7. /\ (Now \in Ungates => Now.arg = TRUE) /\ (Now \notin Gates => Now.arg = TRUE)
        /\ Now \notin Raises
    BY <1>3, <1>4 DEF Ungates, Gates, Raises
  <2> QED BY <1>1, <1>4, <2>4, <2>6, <2>7 DEF Done, SameShut
<1>5. CASE Now.do = "rst"
  <2>1. /\ {"clk", "up", "rst", "iso", "inter"} \subseteq DOMAIN hw
    BY DEF TypeOK, HwOK, ColumnRegs
  <2>2. hw' = RstWritten(hw, Now.arg, PartCols)
    BY <1>2, <1>5 DEF Written
  <2>3. hw'.clk = hw.clk
    BY <2>1, <2>2 DEF RstWritten, AfterReset
  <2>4. hw'.up = IF Now.arg THEN Put(hw.up, PartCols, AllUp) ELSE hw.up
    BY <2>1, <2>2 DEF RstWritten, AfterReset
  <2>5. ClocksOn => ClocksOn'
    BY <1>2, <2>3 DEF ClocksOn
  <2>6. Now.arg \in BOOLEAN
    BY <1>3, <1>5 DEF StepSet
  <2>7. TilesOn => TilesOn'
    BY <1>2, <2>4, <2>6 DEF TilesOn, Put, AllUp
  <2>8. Now \in Raises => TilesOn'
    <3> SUFFICES ASSUME Now \in Raises PROVE TilesOn'
      OBVIOUS
    <3>1. hw'.up = Put(hw.up, PartCols, AllUp)
      BY <2>4 DEF Raises
    <3> QED BY <1>2, <3>1 DEF TilesOn, Put, AllUp
  <2>9. Now \notin Ungates
    BY <1>5 DEF Ungates
  <2> QED BY <1>1, <1>5, <2>5, <2>7, <2>8, <2>9 DEF Done, SameShut
<1>6. CASE Now.do \notin {"clk", "rst"}
  <2>1. ColumnRegs \subseteq DOMAIN hw
    BY DEF TypeOK, HwOK
  <2>2. hw'.clk = hw.clk /\ hw'.up = hw.up
    BY <1>6, <2>1 DEF ColumnRegs, PerColumn, Written, ShimWritten, NsuWritten, IrqWritten, IsoWritten,
        AxiWritten, ZeroWritten, UcWritten, SplitWritten, InterWritten
  <2> QED BY <1>1, <1>6, <2>2, QuietDone DEF PerColumn
<1> QED BY <1>4, <1>5, <1>6

\* The steps that access the NPI.
LEMMA NpiMoved ==
    ASSUME TypeOK, ~Idle, NEW done, HwOK(done), NpiStep(done),
           done.clk = hw.clk, done.up = hw.up, Now.do \in {"prot", "npi"},
           done.prot = IF Now.do = "prot" THEN Now.arg ELSE hw.prot
    PROVE  TypeOK' /\ Moved /\ UNCHANGED <<gen, inst>>
<1>1. \A h, lock : HwOK(h) /\ lock \in BOOLEAN
        => /\ HwOK(NpiSetLock(h, lock)) /\ NpiSetLock(h, lock).prot = h.prot
           /\ NpiSetLock(h, lock).locked = lock
           /\ NpiSetLock(h, lock).clk = h.clk /\ NpiSetLock(h, lock).up = h.up
  BY DEF NpiSetLock, HwOK, ColumnRegs
<1>2. /\ HwOK(NpiSetLock(done, TRUE)) /\ HwOK(NpiSetLock(done, FALSE))
      /\ HwOK(NpiSetLock(hw, TRUE)) /\ HwOK(NpiSetLock(hw, FALSE))
      /\ NpiSetLock(done, TRUE).locked = TRUE /\ NpiSetLock(done, TRUE).prot = done.prot
      /\ NpiSetLock(done, TRUE).clk = hw.clk /\ NpiSetLock(done, TRUE).up = hw.up
  <2>1. HwOK(hw)
    BY DEF TypeOK
  <2>2. HwOK(NpiSetLock(hw, TRUE)) /\ HwOK(NpiSetLock(hw, FALSE)) /\ HwOK(NpiSetLock(done, FALSE))
    BY <1>1, <2>1
  <2>3. /\ HwOK(NpiSetLock(done, TRUE)) /\ NpiSetLock(done, TRUE).prot = done.prot
        /\ NpiSetLock(done, TRUE).locked = TRUE
        /\ NpiSetLock(done, TRUE).clk = done.clk /\ NpiSetLock(done, TRUE).up = done.up
    BY <1>1
  <2> QED BY <2>2, <2>3
<1>3. UNCHANGED <<gen, inst, used, calls>>
  BY DEF NpiStep
<1>4. CASE Succeed /\ hw' = NpiSetLock(done, TRUE) /\ UNCHANGED faults
  <2>1. TypeOK'
    BY <1>2, <1>3, <1>4, SucceedOK DEF TypeOK
  <2>2. hw'.clk = hw.clk /\ hw'.up = hw.up /\ hw'.locked = TRUE /\ hw'.prot = done.prot
    BY <1>2, <1>4
  <2>3. (ClocksOn => ClocksOn') /\ (TilesOn => TilesOn')
    BY <1>3, <2>2 DEF ClocksOn, TilesOn, PartCols, AllUp
  <2>4. Now \notin Ungates /\ Now \notin Raises
    BY DEF Ungates, Raises
  <2>5. Done
    BY <1>4, <2>2, <2>3, <2>4 DEF Done
  <2> QED BY <1>3, <2>1, <2>5 DEF Moved
<1>5. CASE Noticed /\ hw' \in {NpiSetLock(hw, FALSE), NpiSetLock(done, TRUE)}
  <2>1. TypeOK'
    BY <1>2, <1>3, <1>5, NoticedOK DEF TypeOK
  <2>2. LostNoticed
    BY <1>5 DEF LostNoticed, Noticed, LeftOpen
  <2> QED BY <1>3, <2>1, <2>2 DEF Moved
<1>6. CASE Unnoticed /\ hw' \in {NpiSetLock(done, FALSE), NpiSetLock(hw, TRUE)}
  <2>1. TypeOK'
    BY <1>2, <1>3, <1>6, UnnoticedOK DEF TypeOK
  <2>2. LostUnnoticed
    BY <1>6 DEF LostUnnoticed, Unnoticed, LeftOpen
  <2> QED BY <1>3, <2>1, <2>2 DEF Moved
<1> QED BY <1>4, <1>5, <1>6 DEF NpiStep

\* A step that only reports.
LEMMA NoticedMoved ==
    ASSUME TypeOK, ~Idle, Noticed, HwOK(hw'), SameShut, used' \subseteq Int,
           UNCHANGED <<gen, inst, calls>>
    PROVE  TypeOK' /\ Moved
BY NoticedOK DEF TypeOK, Moved, LostNoticed, Noticed

LEMMA TurnedMoved ==
    ASSUME TypeOK, ~Idle, Fail({}), Now.do \in {"nmu", "tile", "interloc"},
           UNCHANGED <<gen, inst, used, hw, faults, calls>>
    PROVE  TypeOK' /\ Moved
BY FailOK DEF TypeOK, Moved, Turned

LEMMA QuietMoved ==
    ASSUME TypeOK, ~Idle, Succeed, HwOK(hw'), SameShut, hw'.clk = hw.clk, hw'.up = hw.up,
           used' \subseteq Int, Now.do \notin {"clk", "rst", "prot", "unsupported"},
           UNCHANGED <<gen, inst, faults, calls>>
    PROVE  TypeOK' /\ Moved
<1>1. Done
  BY QuietDone
<1> QED BY <1>1, SucceedOK DEF TypeOK, Moved
LEMMA ProtMoved ==
    ASSUME TypeOK, ProtStep PROVE TypeOK' /\ ~Idle /\ Moved /\ UNCHANGED <<gen, inst>>
<1>1. ~Idle /\ Now.do = "prot"
  BY DEF ProtStep, Doing
<1>2. CASE NpiStep([hw EXCEPT !.prot = Now.arg])
  <2> DEFINE done == [hw EXCEPT !.prot = Now.arg]
  <2>1. HwOK(done) /\ done.clk = hw.clk /\ done.up = hw.up /\ done.prot = Now.arg
    BY DEF TypeOK, HwOK, ColumnRegs
  <2>2. NpiStep(done)
    BY <1>2
  <2> HIDE DEF done
  <2> QED BY <1>1, <2>1, <2>2, NpiMoved
<1>3. CASE Noticed /\ hw' = NpiSetLock(hw, TRUE) /\ UNCHANGED <<gen, inst, used, calls>>
  <2>1. HwOK(hw')
    BY <1>3 DEF NpiSetLock, TypeOK, HwOK, ColumnRegs
  <2>2. TypeOK'
    BY <1>1, <1>3, <2>1, NoticedOK DEF TypeOK
  <2>3. LostNoticed
    BY <1>1, <1>3 DEF LostNoticed, Noticed, LeftOpen
  <2> QED BY <1>1, <1>3, <2>2, <2>3 DEF Moved
<1> QED BY <1>1, <1>2, <1>3 DEF ProtStep

LEMMA ShimResetMoved ==
    ASSUME TypeOK, ShimResetStep PROVE TypeOK' /\ ~Idle /\ Moved /\ UNCHANGED <<gen, inst>>
<1>1. ~Idle /\ Now.do = "npi"
  BY DEF ShimResetStep, Doing
<1> DEFINE done == [hw EXCEPT !.npi = Now.arg]
<1>2. HwOK(done) /\ done.clk = hw.clk /\ done.up = hw.up /\ done.prot = hw.prot
  BY DEF TypeOK, HwOK, ColumnRegs
<1>3. NpiStep(done)
  BY DEF ShimResetStep
<1> HIDE DEF done
<1> QED BY <1>1, <1>2, <1>3, NpiMoved

LEMMA ColumnsMoved ==
    ASSUME TypeOK, ColumnsStep PROVE TypeOK' /\ ~Idle /\ Moved /\ UNCHANGED <<gen, inst>>
<1>1. ~Idle /\ Now.do \in PerColumn /\ UNCHANGED <<gen, inst, used, calls>>
  BY DEF ColumnsStep, Doing
<1>2. \A cs : /\ HwOK(Written(hw, Now.do, Now.arg, cs))
              /\ Written(hw, Now.do, Now.arg, cs).prot = hw.prot
              /\ Written(hw, Now.do, Now.arg, cs).locked = hw.locked
  BY <1>1, WrittenOK DEF TypeOK
<1>3. CASE Succeed /\ hw' = Written(hw, Now.do, Now.arg, ColumnLoop) /\ UNCHANGED faults
  BY <1>1, <1>2, <1>3, WrittenDone, SucceedOK DEF Moved, TypeOK
<1>4. CASE /\ Noticed
           /\ \E k \in 0..(inst.cols - 1) :
                 hw' = Written(hw, Now.do, Now.arg, FirstCol..(FirstCol + k - 1))
  <2>1. HwOK(hw') /\ SameShut
    BY <1>2, <1>4 DEF SameShut
  <2> QED BY <1>1, <1>4, <2>1, NoticedMoved DEF TypeOK
<1> QED BY <1>3, <1>4 DEF ColumnsStep

LEMMA NmuMoved ==
    ASSUME TypeOK, NmuStep PROVE TypeOK' /\ ~Idle /\ Moved /\ UNCHANGED <<gen, inst>>
<1>1. ~Idle /\ Now.do = "nmu" /\ UNCHANGED <<gen, inst, used, calls>> /\ used \subseteq Int /\ HwOK(hw)
  BY DEF NmuStep, Doing, TypeOK
<1>2. CASE Succeed /\ hw' = [hw EXCEPT !.nmu[Now.arg] = TRUE] /\ UNCHANGED faults
  <2>1. HwOK(hw') /\ SameShut /\ hw'.clk = hw.clk /\ hw'.up = hw.up
    BY <1>1, <1>2 DEF HwOK, ColumnRegs, SameShut
  <2> QED BY <1>1, <1>2, <2>1, QuietMoved
<1>3. CASE Fail({}) /\ UNCHANGED <<hw, faults>>
  BY <1>1, <1>3, TurnedMoved
<1>4. CASE Noticed /\ UNCHANGED hw
  BY <1>1, <1>4, NoticedMoved DEF SameShut
<1> QED BY <1>2, <1>3, <1>4 DEF NmuStep

LEMMA AppMoved ==
    ASSUME TypeOK, AppStep PROVE TypeOK' /\ ~Idle /\ Moved /\ UNCHANGED <<gen, inst>>
<1>1. ~Idle /\ Now.do = "app" /\ UNCHANGED <<gen, inst, used, calls>> /\ used \subseteq Int /\ HwOK(hw)
  BY DEF AppStep, Doing, TypeOK
<1>2. \E v : hw' = [hw EXCEPT !.app[FirstCol] = v]
  BY DEF AppStep
<1>3. HwOK(hw') /\ SameShut /\ hw'.clk = hw.clk /\ hw'.up = hw.up
  BY <1>1, <1>2 DEF HwOK, ColumnRegs, SameShut
<1>4. CASE Fail({"app"}) /\ UNCHANGED faults
  <2>1. {"app"} \in SUBSET Kinds
    BY DEF Kinds
  <2>2. TypeOK'
    BY <1>1, <1>3, <1>4, <2>1, FailOK DEF TypeOK
  <2>3. LostNoticed
    BY <1>1, <1>4 DEF LostNoticed, LeftOpen
  <2> QED BY <1>1, <2>2, <2>3 DEF Moved
<1>5. CASE Noticed
  BY <1>1, <1>3, <1>5, NoticedMoved
<1>6. CASE Succeed /\ UNCHANGED faults
  BY <1>1, <1>3, <1>6, QuietMoved
<1> QED BY <1>4, <1>5, <1>6 DEF AppStep

\* A refused interleaving mode fails the way a lost access does.
LEMMA InterRefusedMoved ==
    ASSUME TypeOK, InterRefused PROVE TypeOK' /\ ~Idle /\ Moved /\ UNCHANGED <<gen, inst>>
<1>1. /\ ~Idle /\ Now.do = "inter" /\ UNCHANGED <<gen, inst, used, faults, calls>>
      /\ used \subseteq Int /\ HwOK(hw) /\ Fail({"inter"})
  BY DEF InterRefused, Doing, TypeOK
<1>2. HwOK(hw') /\ SameShut
  BY <1>1 DEF InterRefused, SkewWritten, InterWritten, Put, HwOK, ColumnRegs, SameShut
<1>3. {"inter"} \in SUBSET Kinds
  BY DEF Kinds, PerColumn
<1>4. TypeOK'
  BY <1>1, <1>2, <1>3, FailOK DEF TypeOK
<1>5. LostNoticed
  BY <1>1, <1>2 DEF LostNoticed
<1> QED BY <1>1, <1>4, <1>5 DEF Moved

LEMMA BitmapMoved ==
    ASSUME TypeOK, Mark \/ Unmark \/ ClearStep
    PROVE  TypeOK' /\ ~Idle /\ Moved /\ UNCHANGED <<gen, inst>>
<1>1. /\ ~Idle /\ Now.do \in {"mark", "unmark", "clear"} /\ UNCHANGED <<gen, inst, faults, calls>>
      /\ Succeed /\ used \subseteq Int /\ HwOK(hw)
  BY DEF Mark, Unmark, ClearStep, Doing, TypeOK
<1>2. used' \subseteq Int
  <2>1. Doing({"mark", "unmark"}) => Now.arg \subseteq Int
    BY <1>1, ArgsOK
  <2>2. CASE Mark
    BY <1>1, <2>1, <2>2 DEF Mark, Doing
  <2>3. CASE Unmark
    BY <1>1, <2>1, <2>3 DEF Unmark, Doing
  <2>4. CASE ClearStep
    BY <1>1, <2>4 DEF ClearStep
  <2> QED BY <2>2, <2>3, <2>4
<1>3. HwOK(hw') /\ SameShut /\ hw'.clk = hw.clk /\ hw'.up = hw.up
  <2>1. CASE UNCHANGED hw
    BY <1>1, <2>1 DEF SameShut, HwOK
  <2>2. CASE ClearStep
    BY <1>1, <2>2 DEF ClearStep, HwOK, ColumnRegs, SameShut
  <2> QED BY <2>1, <2>2 DEF Mark, Unmark
<1> QED BY <1>1, <1>2, <1>3, QuietMoved

LEMMA UnsupportedMoved ==
    ASSUME TypeOK, Unsupported PROVE TypeOK' /\ ~Idle /\ Moved /\ UNCHANGED <<gen, inst>>
<1>1. /\ ~Idle /\ Now.do = "unsupported" /\ Fail({"unsupported"})
      /\ UNCHANGED <<gen, inst, used, hw, faults, calls>>
  BY DEF Unsupported, Doing
<1>2. {"unsupported"} \in SUBSET Kinds
  BY DEF Kinds
<1>3. TypeOK'
  BY <1>1, <1>2, FailOK DEF TypeOK
<1>4. LostNoticed
  BY <1>1 DEF LostNoticed, LeftOpen
<1> QED BY <1>1, <1>3, <1>4 DEF Moved

LEMMA InvalidMoved ==
    ASSUME TypeOK, InvalidTile PROVE TypeOK' /\ ~Idle /\ Moved /\ UNCHANGED <<gen, inst>>
BY TurnedMoved DEF InvalidTile, Doing

\* A tile request of AIE ungates its column and gates only tiles.
LEMMA AieTileMoved ==
    ASSUME TypeOK, AieTileStep PROVE TypeOK' /\ ~Idle /\ Moved /\ UNCHANGED <<gen, inst>>
<1> DEFINE col == Now.arg[1]
           row == Now.arg[2]
           c == FirstCol + col
           asked == AieClocks(hw, c, row, TopInUse(col))
<1>1. /\ ~Idle /\ Now.do = "tile" /\ UNCHANGED <<gen, inst, calls>>
      /\ Now.arg \in Nat \X Nat /\ used \subseteq Int /\ HwOK(hw) /\ inst' = inst
  BY ArgsOK DEF AieTileStep, Doing, TypeOK
<1>2. used' \subseteq Int
  <2>1. col \in Nat /\ row \in Nat /\ Bits(TileBit(col, 1), row) \subseteq Int
    BY <1>1, BitsOK
  <2> HIDE DEF col, row
  <2>2. used' = used \/ used' = used \cup Bits(TileBit(col, 1), row)
    BY DEF AieTileStep, col, row
  <2> QED BY <1>1, <2>1, <2>2
<1>3. /\ HwOK(asked) /\ asked.prot = hw.prot /\ asked.locked = hw.locked
      /\ \A d \in Cols : hw.clk[d] = TRUE => asked.clk[d] = TRUE
  BY <1>1 DEF AieClocks, HwOK, ColumnRegs
<1>4. Now \notin Ungates /\ Now \notin Raises /\ (Now \in StepSet => Now \in Lowers)
  BY <1>1 DEF Ungates, Raises, Lowers
<1>5. Now \in Lowers
  BY <1>1, <1>4, NowOK
<1>6. CASE Succeed /\ UNCHANGED <<used, hw, faults>>
  <2>1. SameShut
    BY <1>6 DEF SameShut
  <2> QED BY <1>1, <1>6, <2>1, QuietMoved
<1>7. CASE Succeed /\ hw' = asked /\ UNCHANGED faults
  <2> HIDE DEF asked
  <2>1. ClocksOn => ClocksOn'
    <3>1. PartCols' = PartCols /\ PartCols \subseteq Cols
      BY <1>1, PartColsOK DEF PartCols, TypeOK
    <3> QED BY <1>3, <1>7, <3>1 DEF ClocksOn
  <2>2. Done
    BY <1>1, <1>3, <1>4, <1>5, <1>7, <2>1 DEF Done
  <2>3. TypeOK'
    BY <1>1, <1>2, <1>3, <1>7, SucceedOK DEF TypeOK
  <2> QED BY <1>1, <2>2, <2>3 DEF Moved
<1>8. CASE /\ Unnoticed
           /\ \/ hw' = [asked EXCEPT !.clk[c] = hw.clk[c]]
              \/ \E r \in AllUp : hw' = [asked EXCEPT !.up[c] =
                    IF r \in hw.up[c] THEN @ \cup {r} ELSE @ \ {r}]
  <2> HIDE DEF asked
  <2>1. HwOK(hw') /\ SameShut
    <3>1. CASE hw' = [asked EXCEPT !.clk[c] = hw.clk[c]]
      BY <1>3, <3>1 DEF HwOK, ColumnRegs, SameShut
    <3>2. CASE \E r \in AllUp : hw' = [asked EXCEPT !.up[c] =
                    IF r \in hw.up[c] THEN @ \cup {r} ELSE @ \ {r}]
      <4>1. PICK v : hw' = [asked EXCEPT !.up[c] = v]
        BY <3>2
      <4> QED BY <1>3, <4>1 DEF HwOK, ColumnRegs, SameShut
    <3> QED BY <1>8, <3>1, <3>2
  <2>2. TypeOK'
    BY <1>1, <1>2, <1>8, <2>1, UnnoticedOK DEF TypeOK
  <2>3. LostUnnoticed
    BY <1>8, <2>1 DEF LostUnnoticed, Unnoticed
  <2> QED BY <1>1, <2>2, <2>3 DEF Moved
<1>9. \/ Succeed /\ UNCHANGED <<used, hw, faults>>
      \/ Succeed /\ hw' = asked /\ UNCHANGED faults
      \/ /\ Unnoticed
         /\ \/ hw' = [asked EXCEPT !.clk[c] = hw.clk[c]]
            \/ \E r \in AllUp : hw' = [asked EXCEPT !.up[c] =
                  IF r \in hw.up[c] THEN @ \cup {r} ELSE @ \ {r}]
  BY DEF AieTileStep
<1> QED BY <1>6, <1>7, <1>8, <1>9

\* The other generations turn on the column.
LEMMA ColumnRequestMoved ==
    ASSUME TypeOK, ~Idle, Now.do = "tile", NEW skip, ColumnRequest(skip)
    PROVE  TypeOK' /\ Moved /\ UNCHANGED <<gen, inst>>
<1> DEFINE col == Now.arg[1]
<1>1. /\ UNCHANGED <<gen, inst, calls>> /\ Now.arg \in Nat \X Nat /\ used \subseteq Int /\ HwOK(hw)
      /\ ColumnBits(col) \subseteq Int /\ inst' = inst
  BY ArgsOK, BitsOK DEF ColumnRequest, Doing, TypeOK
<1>2. CASE Succeed /\ UNCHANGED <<used, hw, faults>>
  <2>1. SameShut
    BY <1>2 DEF SameShut
  <2> QED BY <1>1, <1>2, <2>1, QuietMoved
<1>3. CASE /\ Succeed /\ UNCHANGED faults
           /\ hw' = [hw EXCEPT !.clk[FirstCol + col] = TRUE]
           /\ used' = used \cup ColumnBits(col)
  <2>1. HwOK(hw') /\ SameShut /\ \A d \in Cols : hw.clk[d] = TRUE => hw'.clk[d] = TRUE
    BY <1>1, <1>3 DEF HwOK, ColumnRegs, SameShut
  <2>2. ClocksOn => ClocksOn'
    <3>1. PartCols' = PartCols /\ PartCols \subseteq Cols
      BY <1>1, PartColsOK DEF PartCols, TypeOK
    <3> QED BY <2>1, <3>1 DEF ClocksOn
  <2>3. Now \notin Ungates /\ Now \notin Raises /\ Now \in Lowers
    BY NowOK DEF Ungates, Raises, Lowers
  <2>4. Done
    BY <1>3, <2>1, <2>2, <2>3 DEF Done, SameShut
  <2>5. TypeOK'
    BY <1>1, <1>3, <2>1, SucceedOK DEF TypeOK
  <2> QED BY <1>1, <2>4, <2>5 DEF Moved
<1>4. CASE Noticed /\ UNCHANGED <<used, hw>>
  BY <1>1, <1>4, NoticedMoved DEF SameShut
<1> QED BY <1>2, <1>3, <1>4 DEF ColumnRequest

LEMMA ColumnTileMoved ==
    ASSUME TypeOK, MlTileStep \/ Aie4TileStep
    PROVE  TypeOK' /\ ~Idle /\ Moved /\ UNCHANGED <<gen, inst>>
<1>1. ~Idle /\ Now.do = "tile"
  BY DEF MlTileStep, Aie4TileStep, Doing
<1> DEFINE known == IF gen = "AIE4" THEN TileBit(Now.arg[1], 1) \in used
                    ELSE Now.arg[2] = 0 \/ TileBit(Now.arg[1], 1) \in used
<1>2. ColumnRequest(known)
  BY DEF MlTileStep, Aie4TileStep, ColumnRequest
<1> HIDE DEF known
<1> QED BY <1>1, <1>2, ColumnRequestMoved

LEMMA ColumnClkMoved ==
    ASSUME TypeOK, ColumnClkStep PROVE TypeOK' /\ ~Idle /\ Moved /\ UNCHANGED <<gen, inst>>
<1> DEFINE req == Now.arg
           c == FirstCol + req.start
           low == TileBit(req.start, 0)
           bits == IF low < 0 THEN {} ELSE Bits(low, TileBit(req.start + req.cols, 0))
<1>1. /\ ~Idle /\ Now.do = "columns" /\ UNCHANGED <<gen, inst, calls>>
      /\ used \subseteq Int /\ HwOK(hw)
  BY DEF ColumnClkStep, Doing, TypeOK
<1>2. bits \subseteq Int
  <2>1. req.start \in Nat /\ req.start + req.cols \in Nat
    BY <1>1, ArgsOK DEF Doing
  <2> HIDE DEF req
  <2>2. 0 \in Nat /\ TileBit(req.start, 0) \in Int /\ TileBit(req.start + req.cols, 0) \in Int
    BY <2>1, BitsOK
  <2> QED BY <2>2, BitsOK
<1>3. ASSUME NEW cs
      PROVE  /\ HwOK(ClkWritten(hw, req.enable, cs))
             /\ ClkWritten(hw, req.enable, cs).prot = hw.prot
             /\ ClkWritten(hw, req.enable, cs).locked = hw.locked
             /\ ClkWritten(hw, req.enable, cs).up = hw.up
  BY <1>1 DEF ClkWritten, Put, HwOK, ColumnRegs
<1>4. CASE /\ Succeed /\ UNCHANGED faults
           /\ hw' = ClkWritten(hw, req.enable, c..(c + req.cols - 1))
           /\ used' = IF req.enable THEN used \cup bits ELSE used \ bits
  <2>1. HwOK(hw') /\ SameShut /\ hw'.up = hw.up
    BY <1>3, <1>4 DEF SameShut
  <2>2. Now \in Gates /\ Now \notin Ungates /\ Now \notin Raises
    BY <1>1, NowOK DEF Gates, Ungates, Raises
  <2>3. TilesOn => TilesOn'
    BY <1>1, <2>1 DEF TilesOn, PartCols, AllUp
  <2>4. Done
    BY <1>1, <1>4, <2>1, <2>2, <2>3 DEF Done, SameShut
  <2> HIDE DEF bits
  <2>5. used' \subseteq Int
    BY <1>1, <1>2, <1>4
  <2>6. TypeOK'
    BY <1>1, <1>4, <2>1, <2>5, SucceedOK DEF TypeOK
  <2> QED BY <1>1, <2>4, <2>6 DEF Moved
<1>5. CASE /\ Noticed /\ UNCHANGED used
           /\ \E k \in 0..(req.cols - 1) : hw' = ClkWritten(hw, req.enable, c..(c + k - 1))
  <2>1. HwOK(hw') /\ SameShut
    BY <1>3, <1>5 DEF SameShut
  <2> QED BY <1>1, <1>5, <2>1, NoticedMoved
<1> QED BY <1>4, <1>5 DEF ColumnClkStep

LEMMA InterlocMoved ==
    ASSUME TypeOK, InterlocStep PROVE TypeOK' /\ ~Idle /\ Moved /\ UNCHANGED <<gen, inst>>
<1>1. /\ ~Idle /\ Now.do = "interloc" /\ UNCHANGED <<gen, inst, used, calls>>
      /\ used \subseteq Int /\ HwOK(hw)
  BY DEF InterlocStep, Doing, TypeOK
<1>2. CASE Fail({}) /\ UNCHANGED <<hw, faults>>
  BY <1>1, <1>2, TurnedMoved
<1>3. CASE Noticed /\ UNCHANGED hw
  BY <1>1, <1>3, NoticedMoved DEF SameShut
<1>4. CASE /\ Succeed /\ UNCHANGED faults
           /\ hw' = hw \/ \E c, v : hw' = [hw EXCEPT !.inter[c] = v]
  <2>1. HwOK(hw') /\ SameShut /\ hw'.clk = hw.clk /\ hw'.up = hw.up
    BY <1>1, <1>4 DEF HwOK, ColumnRegs, SameShut
  <2> QED BY <1>1, <1>4, <2>1, QuietMoved
<1>5. \/ Fail({}) /\ UNCHANGED <<hw, faults>>
      \/ Noticed /\ UNCHANGED hw
      \/ /\ Succeed /\ UNCHANGED faults
         /\ hw' = hw \/ \E c, v : hw' = [hw EXCEPT !.inter[c] = v]
  BY DEF InterlocStep
<1> QED BY <1>2, <1>3, <1>4, <1>5

\* The steps of a call keep the types and move its plan on in one of four ways.
CallStep ==
    \/ ProtStep \/ ShimResetStep \/ ColumnsStep \/ InterRefused \/ NmuStep \/ AppStep
    \/ Mark \/ Unmark \/ AieTileStep \/ MlTileStep \/ Aie4TileStep \/ InvalidTile
    \/ ColumnClkStep \/ InterlocStep \/ ClearStep \/ Unsupported

LEMMA CallMoves ==
    ASSUME TypeOK, CallStep PROVE TypeOK' /\ ~Idle /\ Moved /\ UNCHANGED <<gen, inst>>
BY ProtMoved, ShimResetMoved, ColumnsMoved, InterRefusedMoved, NmuMoved, AppMoved, BitmapMoved, UnsupportedMoved,
   InvalidMoved, AieTileMoved, ColumnTileMoved, ColumnClkMoved, InterlocMoved DEF CallStep
----------------------------------------------------------------------------
(* Types.                                                                   *)

LEMMA InitOK == Init => TypeOK /\ Idle
<1> SUFFICES ASSUME Init PROVE TypeOK /\ Idle
  OBVIOUS
<1>1. InstOK(inst)
  <2>1. PICK p \in Parts : inst = [start |-> p.start, cols |-> p.cols, app |-> "single"]
    BY DEF Init
  <2> QED BY <2>1, SizesOK DEF InstOK, AppModes
<1>2. HwOK(hw)
  BY DEF Init, HwOK, ColumnRegs
<1>3. CallOK(call, gen, inst)
  BY NoOptsOK DEF Init, CallOK, Ops
<1>4. gen \in Gens /\ used \subseteq Int /\ faults \in Nat /\ calls \in Nat /\ Idle
  BY DEF Init, Idle
<1> QED BY <1>1, <1>2, <1>3, <1>4 DEF TypeOK

\* A new device instance and the program in the tiles leave the plan empty.
LEMMA CfgOK ==
    ASSUME TypeOK, NEW part \in Parts, CfgInitialize(part)
    PROVE  TypeOK' /\ Idle' /\ UNCHANGED hw
<1>1. call.plan = <<>> /\ call' = [call EXCEPT !.op = "none"] /\ UNCHANGED <<gen, hw, faults>>
  BY DEF CfgInitialize, Idle
<1>2. InstOK(inst')
  BY SizesOK DEF CfgInitialize, InstOK, AppModes
<1>3. CallOK(call', gen, inst') /\ call'.plan = <<>>
  BY <1>1 DEF TypeOK, CallOK, Ops
<1>4. used' \subseteq Int /\ calls' \in Nat
  BY BitsOK DEF CfgInitialize, TypeOK
<1> QED BY <1>1, <1>2, <1>3, <1>4 DEF TypeOK, Idle

LEMMA RunOK == ASSUME TypeOK, Run PROVE TypeOK' /\ Idle' /\ SameShut
<1>1. call.plan = <<>> /\ call' = [call EXCEPT !.op = "none"] /\ UNCHANGED <<gen, inst, used, faults, calls>>
  BY DEF Run, Idle
<1>2. HwOK(hw') /\ SameShut
  BY DEF Run, TypeOK, HwOK, ColumnRegs, SameShut
<1>3. CallOK(call', gen, inst) /\ call'.plan = <<>>
  BY <1>1 DEF TypeOK, CallOK, Ops
<1> QED BY <1>1, <1>2, <1>3 DEF TypeOK, Idle

LEMMA NextIs ==
    ASSUME TypeOK, Next
    PROVE  \/ \E part \in Parts : CfgInitialize(part)
           \/ \E op \in Ops, arg \in Args : \E plan \in Seq(Planned(gen, inst, op)) : Begun(op, arg, plan)
           \/ Run
           \/ CallStep
<1>1. Client \/ Run \/ CallStep
  BY DEF Next, CallStep
<1> QED BY <1>1, ClientBegins

LEMMA TypeStep == TypeOK /\ [Next]_vars => TypeOK'
<1> SUFFICES ASSUME TypeOK, [Next]_vars PROVE TypeOK'
  OBVIOUS
<1>1. CASE \E part \in Parts : CfgInitialize(part)
  BY <1>1, CfgOK
<1>2. CASE \E op \in Ops, arg \in Args : \E plan \in Seq(Planned(gen, inst, op)) : Begun(op, arg, plan)
  <2>1. PICK op \in Ops, arg \in Args : \E plan \in Seq(Planned(gen, inst, op)) : Begun(op, arg, plan)
    BY <1>2
  <2>2. PICK plan \in Seq(Planned(gen, inst, op)) : Begun(op, arg, plan)
    BY <2>1
  <2> QED BY <2>2, BeginOK DEF Begun, Args
<1>3. CASE Run
  BY <1>3, RunOK
<1>4. CASE CallStep
  BY <1>4, CallMoves
<1>5. CASE UNCHANGED vars
  BY <1>5 DEF vars, TypeOK, CallOK, HwOK, InstOK, StepsIn
<1> QED BY <1>1, <1>2, <1>3, <1>4, <1>5, NextIs

----------------------------------------------------------------------------
(* The protected registers.                                                 *)

\* The rest of the plan closes what is open, and at every return on its way.
ProtNow == IF hw.prot = {} THEN "sure" ELSE "unsure"
ProtInv ==
    call.shut /\ call.lost \cap LeftOpen = {} => hw.locked /\ Balanced(call.plan, ProtNow)

LEMMA ClosesBalanced ==
    ASSUME InstOK(inst), NEW x \in Sureness
    PROVE  /\ <<Close("drop")>> \in Seq(StepsIn(gen, inst)) /\ Balanced(<<Close("drop")>>, x)
           /\ Balanced(<<Close("drop"), Close("drop")>>, x)
<1> DEFINE c == Close("drop")
<1>1. c \in StepsIn(gen, inst) /\ c \in Shuts /\ c \notin Opens /\ c \notin Returns
  BY OpenCalm, CloseShuts DEF Calm, FailKinds
<1> HIDE DEF c
<1>2. <<c>> \in Seq(StepsIn(gen, inst)) /\ <<c, c>> = <<c>> \o <<c>>
  BY <1>1, OneIn, OneAndOne
<1>3. \A y \in Sureness : Leads(<<c>>, y, "sure", Shuts, Opens, Returns)
  BY <1>1, LeadsStep DEF Sureness
<1>4. Leads(<<c>> \o <<c>>, x, "sure", Shuts, Opens, Returns)
  BY <1>2, <1>3, LeadsConcat DEF Sureness
<1> QED BY <1>2, <1>3, <1>4 DEF Balanced, c

LEMMA FailBalanced ==
    ASSUME TypeOK, ~Idle, NEW x \in Sureness, Balanced(call.plan, x), Now.do \notin LeftOpen
    PROVE  Balanced(AfterFailure(call.plan, Now.fail), x)
<1>1. /\ call.plan \in Seq(Plan) /\ call.plan # <<>> /\ Len(call.plan) \in Nat
      /\ Now = call.plan[1] /\ Now \in StepSet /\ Now.fail \in FailKinds
      /\ Tail(call.plan) \in Seq(Plan)
  BY NowOK
<1>2. Now \notin Shuts /\ Now \notin Opens
  BY DEF Shuts, Opens, LeftOpen
<1>3. Balanced(Tail(call.plan), x)
  BY <1>1, <1>2, LeadsTail DEF Balanced, Sureness
<1>4. Balanced(Tail(call.plan), "sure")
  BY <1>3, LeadsStrengthen DEF Balanced, Sureness
<1>5. CASE Now.fail = "return"
  <2>1. Now \in Returns
    BY <1>1, <1>5 DEF Returns
  <2>2. 1 \in 1..Len(call.plan)
    BY <1>1
  <2>3. SureAt(call.plan, x, 1, Shuts, Opens)
    BY <1>1, <2>1, <2>2 DEF Balanced, Leads
  <2>4. x = "sure"
    BY <2>3 DEF SureAt
  <2> QED BY <1>5, <2>4, LeadsEmpty DEF AfterFailure, Balanced, Sureness
<1>6. CASE Now.fail \in {"close", "closes"}
  BY <1>6, ClosesBalanced DEF AfterFailure, TypeOK
<1>7. CASE Now.fail = "goOn"
  <2> DEFINE c == <<Close("drop")>>
             t == Tail(call.plan)
  <2>1. c \in Seq(Plan) /\ Balanced(c, x) /\ t \in Seq(Plan) /\ Balanced(t, "sure")
    BY <1>1, <1>4, ClosesBalanced, PlannedIn DEF TypeOK, Plan
  <2> HIDE DEF c, t
  <2>2. Balanced(c \o t, x)
    BY <2>1, LeadsConcat DEF Balanced, Sureness
  <2> QED BY <1>7, <2>2 DEF AfterFailure, c, t
<1>8. CASE Now.fail \in {"drop", "last"}
  BY <1>3, <1>8 DEF AfterFailure
<1> QED BY <1>1, <1>5, <1>6, <1>7, <1>8 DEF FailKinds

LEMMA MovedProt ==
    ASSUME TypeOK, ~Idle, ProtInv, Moved PROVE ProtInv'
<1> SUFFICES ASSUME call'.shut, call'.lost \cap LeftOpen = {}
             PROVE  hw'.locked /\ Balanced(call'.plan, ProtNow')
  BY DEF ProtInv
<1>1. /\ call.plan \in Seq(Plan) /\ call.plan # <<>>
      /\ Now = call.plan[1] /\ Now \in StepSet
  BY NowOK
<1>2. ProtNow \in Sureness /\ ProtNow' \in Sureness
  BY DEF ProtNow, Sureness
<1>3. CASE Done
  <2>1. call'.plan = Tail(call.plan) /\ call'.shut = call.shut /\ call'.lost = call.lost
    BY <1>3 DEF Done, Succeed, TypeOK, CallOK
  <2>2. hw.locked /\ Balanced(call.plan, ProtNow)
    BY <2>1 DEF ProtInv
  <2>3. Now \in Shuts => ProtNow' = "sure"
    BY <1>3 DEF Done, Shuts, ProtNow
  <2>4. ProtNow = "sure" /\ Now \notin Opens => ProtNow' = "sure"
    BY <1>1, <1>3 DEF Done, Opens, ProtNow
  <2>5. Balanced(Tail(call.plan), ProtNow')
    BY <1>1, <1>2, <2>2, <2>3, <2>4, LeadsTail DEF Balanced, Sureness
  <2> QED BY <1>3, <2>1, <2>2, <2>5 DEF Done
<1>4. CASE Turned \/ LostNoticed
  <2>1. /\ call'.plan = AfterFailure(call.plan, Now.fail) /\ call'.shut = call.shut
        /\ call.lost \subseteq call'.lost
    <3>1. PICK kinds \in {{}, {Now.do}} : Fail(kinds)
      BY <1>4 DEF Turned, LostNoticed
    <3> QED BY <3>1 DEF Fail, TypeOK, CallOK
  <2>2. Now.do \notin LeftOpen
    <3>1. CASE Turned
      BY <3>1 DEF Turned, LeftOpen
    <3>2. CASE LostNoticed
      <4>1. Now.do \in call'.lost
        BY <3>2 DEF LostNoticed, Fail, TypeOK, CallOK
      <4> QED BY <4>1
    <3> QED BY <1>4, <3>1, <3>2
  <2>3. hw.locked /\ Balanced(call.plan, ProtNow)
    BY <2>1 DEF ProtInv
  <2>4. SameShut
    BY <1>4, <2>2 DEF Turned, LostNoticed, SameShut
  <2>5. Balanced(AfterFailure(call.plan, Now.fail), ProtNow)
    BY <1>2, <2>2, <2>3, FailBalanced
  <2> QED BY <2>1, <2>3, <2>4, <2>5 DEF SameShut, ProtNow
<1>5. CASE LostUnnoticed
  <2>1. /\ call'.plan = Tail(call.plan) /\ call'.shut = call.shut
        /\ call'.lost = call.lost \cup {Now.do}
    BY <1>5 DEF LostUnnoticed, TypeOK, CallOK
  <2>2. Now.do \notin LeftOpen /\ SameShut
    BY <1>5, <2>1 DEF LostUnnoticed
  <2>3. hw.locked /\ Balanced(call.plan, ProtNow) /\ Now \notin Shuts
    BY <2>1, <2>2 DEF ProtInv, Shuts, LeftOpen
  <2>4. Balanced(Tail(call.plan), ProtNow)
    BY <1>1, <1>2, <2>3, LeadsTail DEF Balanced, Sureness
  <2> QED BY <2>1, <2>2, <2>3, <2>4 DEF SameShut, ProtNow
<1> QED BY <1>3, <1>4, <1>5 DEF Moved

\* An empty plan is of a handler that has closed the registers.
LEMMA IdleShut == ASSUME ProtInv PROVE ClosedAtReturn
<1> SUFFICES ASSUME Idle, call.shut, call.lost \cap LeftOpen = {} PROVE Shut
  BY DEF ClosedAtReturn
<1>1. hw.locked /\ Balanced(<<>>, ProtNow)
  BY DEF ProtInv, Idle
<1>2. SureAt(<<>>, ProtNow, 1, Shuts, Opens)
  BY <1>1 DEF Balanced, Leads
<1>3. hw.prot = {}
  BY <1>2 DEF SureAt, ProtNow
<1> QED BY <1>1, <1>3 DEF Shut

LEMMA StillShut ==
    ASSUME TypeOK, ProtInv, Idle, Idle', SameShut,
           call'.shut = call.shut, call'.lost = call.lost
    PROVE  ProtInv'
<1>1. call'.plan = call.plan /\ ProtNow' = ProtNow
  BY DEF Idle, SameShut, ProtNow
<1>2. hw'.locked = hw.locked
  BY DEF SameShut
<1> QED BY <1>1, <1>2 DEF ProtInv

LEMMA ProtStepKept == TypeOK /\ ProtInv /\ [Next]_vars => ProtInv'
<1> SUFFICES ASSUME TypeOK, ProtInv, [Next]_vars PROVE ProtInv'
  OBVIOUS
<1>1. CASE \E part \in Parts : CfgInitialize(part)
  <2>1. Idle /\ Idle' /\ SameShut /\ call'.shut = call.shut /\ call'.lost = call.lost
    BY <1>1, CfgOK DEF CfgInitialize, SameShut, TypeOK, CallOK
  <2> QED BY <2>1, StillShut
<1>2. CASE \E op \in Ops, arg \in Args : \E plan \in Seq(Planned(gen, inst, op)) : Begun(op, arg, plan)
  <2>1. PICK op \in Ops, arg \in Args : \E plan \in Seq(Planned(gen, inst, op)) : Begun(op, arg, plan)
    BY <1>2
  <2>2. PICK plan \in Seq(Planned(gen, inst, op)) : Begun(op, arg, plan)
    BY <2>1
  <2>3. /\ call'.plan = plan /\ (call'.shut => hw.locked /\ hw.prot = {}) /\ hw' = hw
        /\ Balanced(plan, "sure")
    BY <2>2 DEF Begun, Begin, Shut
  <2> QED BY <2>3 DEF ProtInv, ProtNow
<1>3. CASE Run
  <2>1. Idle /\ Idle' /\ SameShut /\ call'.shut = call.shut /\ call'.lost = call.lost
    BY <1>3, RunOK DEF Run, TypeOK, CallOK
  <2> QED BY <2>1, StillShut
<1>4. CASE CallStep
  BY <1>4, CallMoves, MovedProt
<1>5. CASE UNCHANGED vars
  BY <1>5 DEF vars, ProtInv, ProtNow
<1> QED BY <1>1, <1>2, <1>3, <1>4, <1>5, NextIs
----------------------------------------------------------------------------
(* The clocks.                                                              *)

\* While nothing was lost the rest of the plan finds the clocks on wherever it
\* touches the tiles.
SureIf(fact) == IF fact THEN "sure" ELSE "unsure"
ClockInv ==
    call.lost = {} /\ Counted(call.op, call.arg)
    => /\ ClocksLead(call.plan, SureIf(ClocksOn), "unsure")
       /\ gen = "AIE" => TilesLead(call.plan, SureIf(TilesOn), "unsure")

LEMMA SureIfIn == ASSUME NEW fact PROVE SureIf(fact) \in Sureness
BY DEF SureIf, Sureness

LEMMA EmptyLeads ==
    ASSUME NEW x \in Sureness PROVE ClocksLead(<<>>, x, "unsure") /\ TilesLead(<<>>, x, "unsure")
BY LeadsEmpty, LeadsWeaken DEF ClocksLead, TilesLead, Sureness

\* The error paths touch no tile.
LEMMA FailOrdered ==
    ASSUME TypeOK, ~Idle, NEW x \in Sureness, NEW good, NEW bad,
           Leads(call.plan, x, "unsure", good, bad, Touches), Now \notin good,
           x = "sure" => Close("drop") \notin bad
    PROVE  Leads(AfterFailure(call.plan, Now.fail), x, "unsure", good, bad, Touches)
<1> DEFINE c == Close("drop")
           t == Tail(call.plan)
<1>1. /\ call.plan \in Seq(Plan) /\ call.plan # <<>> /\ Now = call.plan[1]
      /\ Now.fail \in FailKinds /\ t \in Seq(Plan)
  BY NowOK
<1>2. Leads(t, x, "unsure", good, bad, Touches)
  BY <1>1, LeadsTail DEF Sureness
<1>3. c \in Plan /\ c \notin Touches
  <2>1. c \in StepsIn(gen, inst) /\ c.do = "prot"
    BY OpenCalm, StepFields DEF Calm, FailKinds, TypeOK, Close
  <2> HIDE DEF c
  <2> QED BY <2>1 DEF Plan, Planned, Touches, InTiles, PerColumn
<1> HIDE DEF t
<1>4. x = "sure" => c \notin bad
  OBVIOUS
<1> HIDE DEF c
<1>5. <<c>> \in Seq(Plan) /\ <<c, c>> \in Seq(Plan)
  BY <1>3, OneIn, TwoIn
<1>6. Leads(<<c>>, x, x, good, bad, Touches) /\ Leads(<<c>>, x, "unsure", good, bad, Touches)
  BY <1>3, <1>4, LeadsStep DEF Sureness
<1>7. Leads(<<c, c>>, x, "unsure", good, bad, Touches)
  <2>1. <<c, c>> = <<c>> \o <<c>>
    BY OneAndOne
  <2> QED BY <1>5, <1>6, <2>1, LeadsConcat DEF Sureness
<1>8. Leads(<<c>> \o t, x, "unsure", good, bad, Touches)
  BY <1>1, <1>2, <1>5, <1>6, LeadsConcat DEF Sureness
<1>9. Leads(<<>>, x, "unsure", good, bad, Touches)
  BY LeadsEmpty, LeadsWeaken DEF Sureness
<1> QED BY <1>1, <1>2, <1>6, <1>7, <1>8, <1>9 DEF AfterFailure, FailKinds, c, t

LEMMA MovedClocks ==
    ASSUME TypeOK, ~Idle, ClockInv, Moved, UNCHANGED <<gen, inst>> PROVE ClockInv'
<1> SUFFICES ASSUME call'.lost = {}, Counted(call.op, call.arg)', call'.op = call.op,
                    call'.arg = call.arg
             PROVE  /\ ClocksLead(call'.plan, SureIf(ClocksOn'), "unsure")
                    /\ gen = "AIE" => TilesLead(call'.plan, SureIf(TilesOn'), "unsure")
  <2>1. call'.op = call.op /\ call'.arg = call.arg
    BY DEF Moved, Done, Succeed, Turned, LostNoticed, Fail, LostUnnoticed, TypeOK, CallOK
  <2> QED BY <2>1 DEF ClockInv
<1>1. /\ call.plan \in Seq(Plan) /\ call.plan # <<>> /\ Now = call.plan[1] /\ Now \in StepSet
  BY NowOK
<1>2. Done \/ Turned
  <2>1. ASSUME LostNoticed PROVE Now.do \in call'.lost
    BY <2>1 DEF LostNoticed, Fail, TypeOK, CallOK
  <2>2. ASSUME LostUnnoticed PROVE Now.do \in call'.lost
    BY <2>2 DEF LostUnnoticed, TypeOK, CallOK
  <2> QED BY <2>1, <2>2 DEF Moved
<1>3. call.lost = {}
  <2>1. CASE Done
    BY <2>1 DEF Done, Succeed, TypeOK, CallOK
  <2>2. CASE Turned
    BY <2>2 DEF Turned, Fail, TypeOK, CallOK
  <2> QED BY <1>2, <2>1, <2>2
<1>4. Counted(call.op, call.arg)
  BY DEF Counted
<1>5. /\ ClocksLead(call.plan, SureIf(ClocksOn), "unsure")
      /\ gen = "AIE" => TilesLead(call.plan, SureIf(TilesOn), "unsure")
  BY <1>3, <1>4 DEF ClockInv
<1>6. /\ SureIf(ClocksOn) \in Sureness /\ SureIf(TilesOn) \in Sureness
      /\ SureIf(ClocksOn') \in Sureness /\ SureIf(TilesOn') \in Sureness
  BY SureIfIn
<1>7. CASE Done
  <2>1. call'.plan = Tail(call.plan)
    BY <1>7 DEF Done, Succeed, TypeOK, CallOK
  <2>2. /\ Now \in Ungates => SureIf(ClocksOn') = "sure"
        /\ SureIf(ClocksOn) = "sure" /\ Now \notin Gates => SureIf(ClocksOn') = "sure"
        /\ Now \in Raises => SureIf(TilesOn') = "sure"
        /\ SureIf(TilesOn) = "sure" /\ Now \notin Lowers => SureIf(TilesOn') = "sure"
    BY <1>7 DEF Done, SureIf
  <2>3. ClocksLead(Tail(call.plan), SureIf(ClocksOn'), "unsure")
    BY <1>1, <1>5, <1>6, <2>2, LeadsTail DEF ClocksLead, Sureness
  <2>4. gen = "AIE" => TilesLead(Tail(call.plan), SureIf(TilesOn'), "unsure")
    BY <1>1, <1>5, <1>6, <2>2, LeadsTail DEF TilesLead, Sureness
  <2> QED BY <2>1, <2>3, <2>4
<1>8. CASE Turned
  <2>1. /\ call'.plan = AfterFailure(call.plan, Now.fail)
        /\ SureIf(ClocksOn') = SureIf(ClocksOn) /\ SureIf(TilesOn') = SureIf(TilesOn)
    <3>1. /\ call'.plan = AfterFailure(call.plan, Now.fail) /\ hw' = hw /\ inst' = inst
      BY <1>8 DEF Turned, Fail, TypeOK, CallOK
    <3>2. ClocksOn' <=> ClocksOn
      BY <3>1 DEF ClocksOn, PartCols
    <3>3. TilesOn' <=> TilesOn
      BY <3>1 DEF TilesOn, PartCols, AllUp
    <3> QED BY <3>1, <3>2, <3>3 DEF SureIf
  <2>2. Close("drop").do = "prot"
    BY StepFields DEF Close
  <2>3. /\ Now \notin Ungates /\ Now \notin Gates /\ Now \notin Raises
        /\ Close("drop") \notin Gates /\ Close("drop") \notin Lowers
    BY <1>8, <2>2 DEF Turned, Ungates, Gates, Raises, Lowers
  <2>4. ClocksLead(AfterFailure(call.plan, Now.fail), SureIf(ClocksOn), "unsure")
    BY <1>5, <1>6, <2>3, FailOrdered DEF ClocksLead
  <2>5. ASSUME gen = "AIE"
        PROVE  TilesLead(AfterFailure(call.plan, Now.fail), SureIf(TilesOn), "unsure")
    BY <1>5, <1>6, <2>3, <2>5, FailOrdered DEF TilesLead
  <2> QED BY <2>1, <2>4, <2>5
<1> QED BY <1>2, <1>7, <1>8

LEMMA EmptyClocks == ASSUME Idle' PROVE ClockInv'
<1>1. call'.plan = <<>>
  BY DEF Idle
<1>2. SureIf(ClocksOn') \in Sureness /\ SureIf(TilesOn') \in Sureness
  BY SureIfIn
<1> QED BY <1>1, <1>2, EmptyLeads DEF ClockInv

LEMMA ClockStepKept == TypeOK /\ ClockInv /\ [Next]_vars => ClockInv'
<1> SUFFICES ASSUME TypeOK, ClockInv, [Next]_vars PROVE ClockInv'
  OBVIOUS
<1>1. CASE \E part \in Parts : CfgInitialize(part)
  BY <1>1, CfgOK, EmptyClocks
<1>2. CASE \E op \in Ops, arg \in Args : \E plan \in Seq(Planned(gen, inst, op)) : Begun(op, arg, plan)
  <2>1. PICK op \in Ops, arg \in Args : \E plan \in Seq(Planned(gen, inst, op)) : Begun(op, arg, plan)
    BY <1>2
  <2>2. PICK plan \in Seq(Planned(gen, inst, op)) : Begun(op, arg, plan)
    BY <2>1
  <2>3. /\ call'.plan = plan /\ call'.op = op /\ call'.arg = arg /\ gen' = gen
        /\ Counted(op, arg) => Ordered(plan, "unsure", "unsure")
    BY <2>2 DEF Begun, Begin
  <2>4. Counted(call.op, call.arg)' => Counted(op, arg)
    BY <2>3 DEF Counted
  <2>5. SureIf(ClocksOn') \in Sureness /\ SureIf(TilesOn') \in Sureness
    BY SureIfIn
  <2>6. \A x \in Sureness : ClocksLead(plan, "unsure", "unsure") => ClocksLead(plan, x, "unsure")
    BY LeadsStrengthen DEF ClocksLead, Sureness
  <2>7. \A x \in Sureness : TilesLead(plan, "unsure", "unsure") => TilesLead(plan, x, "unsure")
    BY LeadsStrengthen DEF TilesLead, Sureness
  <2>8. Counted(op, arg) => /\ ClocksLead(plan, SureIf(ClocksOn'), "unsure")
                            /\ gen = "AIE" => TilesLead(plan, SureIf(TilesOn'), "unsure")
    BY <2>3, <2>5, <2>6, <2>7 DEF Ordered
  <2> QED BY <2>3, <2>4, <2>8 DEF ClockInv
<1>3. CASE Run
  BY <1>3, RunOK, EmptyClocks
<1>4. CASE CallStep
  BY <1>4, CallMoves, MovedClocks
<1>5. CASE UNCHANGED vars
  <2>1. call' = call /\ gen' = gen /\ (ClocksOn' <=> ClocksOn) /\ (TilesOn' <=> TilesOn)
    BY <1>5 DEF vars, ClocksOn, TilesOn, PartCols, AllUp
  <2>2. SureIf(ClocksOn') = SureIf(ClocksOn) /\ SureIf(TilesOn') = SureIf(TilesOn)
    BY <2>1 DEF SureIf
  <2> QED BY <2>1, <2>2 DEF ClockInv, Counted
<1> QED BY <1>1, <1>2, <1>3, <1>4, <1>5, NextIs

LEMMA SureFirst ==
    ASSUME TypeOK, ~Idle, NEW x, NEW y, NEW good, NEW bad, NEW must,
           Leads(call.plan, x, y, good, bad, must), Now \in must
    PROVE  x = "sure"
<1>1. Len(call.plan) \in Nat /\ Now = call.plan[1] /\ 1 \in 1..Len(call.plan)
  BY NowOK
<1>2. SureAt(call.plan, x, 1, good, bad)
  BY <1>1 DEF Leads
<1> QED BY <1>2 DEF SureAt

LEMMA ClocksReach == ASSUME TypeOK, ClockInv PROVE NoGatedAccess
<1> SUFFICES ASSUME Doing(InTiles), Clean,
                    gen = "AIE" /\ call.op \in {"init", "soft"} => HasFlag("COLUMN_RST"),
                    NEW c \in PartCols, NEW row \in TouchedRows
             PROVE  Clocked(c, row)
  BY DEF NoGatedAccess
<1>1. ~Idle /\ Now.do \in InTiles /\ Now \in StepSet /\ NumRows \in Nat /\ NumRows >= 3
  BY NowOK, SizesOK DEF Doing
<1>2. call.lost = {} /\ Counted(call.op, call.arg) /\ Now \in Touches
  BY <1>1 DEF Clean, Counted, Has, HasFlag, Touches
<1>3. /\ ClocksLead(call.plan, SureIf(ClocksOn), "unsure")
      /\ gen = "AIE" => TilesLead(call.plan, SureIf(TilesOn), "unsure")
  BY <1>2 DEF ClockInv
<1>4. ClocksOn
  <2>1. SureIf(ClocksOn) = "sure"
    BY <1>1, <1>2, <1>3, SureFirst DEF ClocksLead
  <2> QED BY <2>1 DEF SureIf
<1>5. gen = "AIE" => TilesOn
  <2>1. gen = "AIE" => SureIf(TilesOn) = "sure"
    BY <1>1, <1>2, <1>3, SureFirst DEF TilesLead
  <2> QED BY <2>1 DEF SureIf
<1>6. row \in 1..(NumRows - 1)
  BY <1>1 DEF TouchedRows, InTiles, Rows, MemTileRowStart, AieTileRowStart
<1>7. 1..(row - 1) \subseteq AllUp
  BY <1>1, <1>6 DEF AllUp
<1> QED BY <1>4, <1>5, <1>7 DEF Clocked, ClocksOn, TilesOn

----------------------------------------------------------------------------
(* The columns of the others.                                               *)

\* What the writers leave alone.
LEMMA WrittenInside ==
    ASSUME NEW h, HwOK(h), NEW r \in PerColumn, NEW v, NEW cs, NEW reg \in ColumnRegs,
           NEW c \in Cols, c \notin cs
    PROVE  Written(h, r, v, cs)[reg][c] = h[reg][c]
<1>1. CASE r = "clk"
  BY <1>1 DEF Written, ClkWritten, Put, HwOK, ColumnRegs
<1>2. CASE r = "rst"
  BY <1>2 DEF Written, RstWritten, AfterReset, Put, HwOK, ColumnRegs
<1>3. CASE r = "shim"
  BY <1>3 DEF Written, ShimWritten, Put, HwOK, ColumnRegs
<1>4. CASE r = "nsu"
  BY <1>4 DEF Written, NsuWritten, NocCols, Put, HwOK, ColumnRegs
<1>5. CASE r = "irq"
  BY <1>5 DEF Written, IrqWritten, NocCols, Put, HwOK, ColumnRegs
<1>6. CASE r = "iso"
  BY <1>6 DEF Written, IsoWritten, HwOK, ColumnRegs
<1>7. CASE r = "axi"
  BY <1>7 DEF Written, AxiWritten, HwOK, ColumnRegs
<1>8. CASE r = "zero"
  BY <1>8 DEF Written, ZeroWritten, Put, HwOK, ColumnRegs
<1>9. CASE r = "uc"
  BY <1>9 DEF Written, UcWritten, Put, HwOK, ColumnRegs
<1>10. CASE r = "split"
  BY <1>10 DEF Written, SplitWritten, Put, HwOK, ColumnRegs
<1>11. CASE r = "inter"
  BY <1>11 DEF Written, InterWritten, Put, HwOK, ColumnRegs
<1> QED BY <1>1, <1>2, <1>3, <1>4, <1>5, <1>6, <1>7, <1>8, <1>9, <1>10, <1>11 DEF PerColumn

\* The registers of the columns outside of the partition are as they were.
Kept == \A reg \in ColumnRegs : \A c \in Cols \ PartCols : hw'[reg][c] = hw[reg][c]

LEMMA SetLockKept ==
    ASSUME NEW h, HwOK(h), NEW lock, NEW reg \in ColumnRegs
    PROVE  NpiSetLock(h, lock)[reg] = h[reg]
BY DEF NpiSetLock, HwOK, ColumnRegs

LEMMA NpiKept ==
    ASSUME TypeOK, ProtStep \/ ShimResetStep PROVE Kept
<1> DEFINE done == IF Now.do = "prot" THEN [hw EXCEPT !.prot = Now.arg]
                   ELSE [hw EXCEPT !.npi = Now.arg]
<1>1. HwOK(hw) /\ HwOK(done) /\ \A reg \in ColumnRegs : done[reg] = hw[reg]
  BY DEF TypeOK, HwOK, ColumnRegs
<1>2. \E lock \in BOOLEAN : hw' = NpiSetLock(hw, lock) \/ hw' = NpiSetLock(done, lock)
  BY DEF ProtStep, ShimResetStep, NpiStep, Doing
<1> HIDE DEF done
<1> QED BY <1>1, <1>2, SetLockKept DEF Kept

LEMMA ColumnsKept == ASSUME TypeOK, ColumnsStep PROVE Kept
<1>1. Now.do \in PerColumn /\ HwOK(hw)
  BY DEF ColumnsStep, Doing, TypeOK
<1>2. PICK cs : hw' = Written(hw, Now.do, Now.arg, cs) /\ cs \subseteq PartCols
  <2>1. CASE hw' = Written(hw, Now.do, Now.arg, ColumnLoop)
    BY <2>1 DEF ColumnLoop, PartCols, FirstCol, LastCol
  <2>2. CASE \E k \in 0..(inst.cols - 1) :
                hw' = Written(hw, Now.do, Now.arg, FirstCol..(FirstCol + k - 1))
    <3>1. PICK k \in 0..(inst.cols - 1) :
             hw' = Written(hw, Now.do, Now.arg, FirstCol..(FirstCol + k - 1))
      BY <2>2
    <3>2. FirstCol..(FirstCol + k - 1) \subseteq PartCols
      BY SizesOK DEF FirstCol, PartCols, TypeOK, InstOK, Cols
    <3> QED BY <3>1, <3>2
  <2> QED BY <2>1, <2>2 DEF ColumnsStep
<1> QED BY <1>1, <1>2, WrittenInside DEF Kept

\* Steps that write a register of one column.
LEMMA FieldKept ==
    ASSUME NEW h, HwOK(h), NEW f \in ColumnRegs, NEW c \in Cols, NEW v,
           NEW reg \in ColumnRegs, NEW d \in Cols, d # c
    PROVE  /\ [h EXCEPT ![f][c] = v][reg][d] = h[reg][d]
           /\ HwOK([h EXCEPT ![f][c] = v])
<1>1. DOMAIN h[f] = Cols /\ f \in DOMAIN h /\ reg \in DOMAIN h /\ DOMAIN h[reg] = Cols
  BY DEF HwOK
<1>2. [h EXCEPT ![f][c] = v][reg][d] = h[reg][d]
  BY <1>1
<1>3. f \notin {"npi", "prot", "locked"}
  BY DEF ColumnRegs
<1> QED BY <1>1, <1>2, <1>3 DEF HwOK

LEMMA OneColumnKept ==
    ASSUME TypeOK, NEW c \in PartCols, NEW f \in ColumnRegs, NEW v,
           hw' = hw \/ hw' = [hw EXCEPT ![f][c] = v]
    PROVE  Kept
<1> SUFFICES ASSUME NEW reg \in ColumnRegs, NEW d \in Cols \ PartCols PROVE hw'[reg][d] = hw[reg][d]
  BY DEF Kept
<1>1. HwOK(hw) /\ c \in Cols /\ d \in Cols /\ d # c
  BY PartColsOK DEF TypeOK
<1>2. [hw EXCEPT ![f][c] = v][reg][d] = hw[reg][d]
  BY <1>1, FieldKept
<1> QED BY <1>2

\* A column of a request is a column of the partition.
LEMMA ColumnIn ==
    ASSUME TypeOK, NEW col \in Nat, col < inst.cols PROVE FirstCol + col \in PartCols
BY SizesOK DEF FirstCol, PartCols, TypeOK, InstOK, Cols

LEMMA TileKept == ASSUME TypeOK, AieTileStep \/ MlTileStep \/ Aie4TileStep PROVE Kept
<1> DEFINE col == Now.arg[1]
           c == FirstCol + col
<1>1. Doing({"tile"}) /\ InPart(Now.arg) /\ ~Idle
  BY DEF AieTileStep, MlTileStep, Aie4TileStep, Doing
<1>2. Now.arg \in Nat \X Nat
  BY <1>1, ArgsOK
<1>3. c \in PartCols
  BY <1>1, <1>2, ColumnIn DEF InPart
<1>4. CASE MlTileStep \/ Aie4TileStep
  <2>1. hw' = hw \/ hw' = [hw EXCEPT !["clk"][c] = TRUE]
    BY <1>4 DEF MlTileStep, Aie4TileStep, ColumnRequest
  <2>2. "clk" \in ColumnRegs
    BY DEF ColumnRegs
  <2> HIDE DEF c
  <2> QED BY <1>3, <2>1, <2>2, OneColumnKept
<1>5. CASE AieTileStep
  <2> DEFINE asked == AieClocks(hw, c, Now.arg[2], TopInUse(col))
  <2>1. \/ hw' = hw
        \/ hw' = asked
        \/ hw' = [asked EXCEPT !["clk"][c] = hw.clk[c]]
        \/ \E v : hw' = [asked EXCEPT !["up"][c] = v]
    BY <1>5 DEF AieTileStep
  <2>2. \/ \E v, w : asked = [[hw EXCEPT !["clk"][c] = v] EXCEPT !["up"][c] = w]
        \/ \E w : asked = [hw EXCEPT !["up"][c] = w]
    <3>1. \A v, w : [hw EXCEPT !.clk[c] = v, !.up[c] = w]
                       = [[hw EXCEPT !["clk"][c] = v] EXCEPT !["up"][c] = w]
      OBVIOUS
    <3>2. CASE TopInUse(col) = 0
      <4>1. \E w : asked = [hw EXCEPT !.clk[c] = TRUE, !.up[c] = w]
        <5>1. HwOK(hw)
          BY DEF TypeOK
        <5> QED BY <3>2, <5>1 DEF AieClocks, HwOK, ColumnRegs
      <4> HIDE DEF asked
      <4> QED BY <3>1, <4>1
    <3>3. CASE TopInUse(col) # 0
      BY <3>3 DEF AieClocks
    <3> QED BY <3>2, <3>3
  <2>3. HwOK(hw) /\ c \in Cols /\ "clk" \in ColumnRegs /\ "up" \in ColumnRegs
    BY <1>3, PartColsOK DEF TypeOK, ColumnRegs
  <2> HIDE DEF asked, c
  <2> SUFFICES ASSUME NEW reg \in ColumnRegs, NEW d \in Cols \ PartCols PROVE hw'[reg][d] = hw[reg][d]
    BY DEF Kept
  <2>4. d # c /\ d \in Cols
    BY <1>3
  <2>5. HwOK(asked) /\ asked[reg][d] = hw[reg][d]
    <3>1. CASE \E v, w : asked = [[hw EXCEPT !["clk"][c] = v] EXCEPT !["up"][c] = w]
      <4>1. PICK v, w : asked = [[hw EXCEPT !["clk"][c] = v] EXCEPT !["up"][c] = w]
        BY <3>1
      <4> DEFINE h == [hw EXCEPT !["clk"][c] = v]
      <4>2. HwOK(h) /\ h[reg][d] = hw[reg][d]
        BY <2>3, <2>4, FieldKept
      <4>3. asked = [h EXCEPT !["up"][c] = w]
        BY <4>1
      <4> HIDE DEF h
      <4>4. HwOK([h EXCEPT !["up"][c] = w]) /\ [h EXCEPT !["up"][c] = w][reg][d] = h[reg][d]
        BY <2>3, <2>4, <4>2, FieldKept
      <4> QED BY <4>2, <4>3, <4>4
    <3>2. CASE \E w : asked = [hw EXCEPT !["up"][c] = w]
      <4>1. PICK w : asked = [hw EXCEPT !["up"][c] = w]
        BY <3>2
      <4>2. HwOK([hw EXCEPT !["up"][c] = w]) /\ [hw EXCEPT !["up"][c] = w][reg][d] = hw[reg][d]
        BY <2>3, <2>4, FieldKept
      <4> QED BY <4>1, <4>2
    <3> QED BY <2>2, <3>1, <3>2
  <2>6. CASE hw' = [asked EXCEPT !["clk"][c] = hw.clk[c]]
    BY <2>3, <2>4, <2>5, <2>6, FieldKept
  <2>7. CASE \E v : hw' = [asked EXCEPT !["up"][c] = v]
    BY <2>3, <2>4, <2>5, <2>7, FieldKept
  <2> QED BY <2>1, <2>5, <2>6, <2>7
<1> QED BY <1>4, <1>5

LEMMA StepKept == ASSUME TypeOK, CallStep, call.op # "columns" PROVE Kept
<1>1. CASE NmuStep
  <2>1. Now.arg \in {0, 1} /\ inst.start = 0
    BY <1>1, ArgsOK DEF NmuStep, Doing
  <2>2. CASE Now.arg < inst.cols /\ hw' = [hw EXCEPT !.nmu[Now.arg] = TRUE]
    <3>1. Now.arg \in PartCols /\ "nmu" \in ColumnRegs
      BY <2>1, <2>2, ColumnIn DEF FirstCol, ColumnRegs
    <3>2. hw' = [hw EXCEPT !["nmu"][Now.arg] = TRUE]
      BY <2>2
    <3> QED BY <3>1, <3>2, OneColumnKept
  <2>3. CASE hw' = hw
    BY <2>3 DEF Kept
  <2> QED BY <1>1, <2>2, <2>3 DEF NmuStep
<1>2. CASE AppStep
  <2>1. FirstCol \in PartCols /\ "app" \in ColumnRegs
    BY SizesOK DEF FirstCol, PartCols, TypeOK, InstOK, Cols, ColumnRegs
  <2>2. \E v : hw' = [hw EXCEPT !["app"][FirstCol] = v]
    BY <1>2 DEF AppStep
  <2> QED BY <2>1, <2>2, OneColumnKept DEF Kept
<1>3. CASE InterlocStep
  <2>1. Now.arg \in (Nat \X Nat) \X Nat /\ Now.arg[1][1] < inst.cols
    BY <1>3, ArgsOK DEF InterlocStep, Doing
  <2>2. FirstCol + Now.arg[1][1] \in PartCols
    <3>1. Now.arg[1][1] \in Nat
      BY <2>1
    <3> QED BY <2>1, <3>1, ColumnIn
  <2>3. hw' = hw \/ \E v : hw' = [hw EXCEPT !["inter"][FirstCol + Now.arg[1][1]] = v]
    BY <1>3 DEF InterlocStep
  <2>4. "inter" \in ColumnRegs
    BY DEF ColumnRegs
  <2> QED BY <2>2, <2>3, <2>4, OneColumnKept DEF Kept
<1>4. CASE ClearStep
  BY <1>4 DEF ClearStep, Kept, TypeOK, HwOK, ColumnRegs
<1>5. CASE ColumnClkStep
  <2>1. call.op = "columns"
    BY <1>5, ArgsOK DEF ColumnClkStep, Doing
  <2> QED BY <2>1
<1>6. CASE Mark \/ Unmark \/ InvalidTile \/ Unsupported
  BY <1>6 DEF Mark, Unmark, InvalidTile, Unsupported, Kept
<1>7. CASE InterRefused
  <2>1. hw' = hw \/ hw' = InterWritten(hw, 2, {FirstCol})
    BY <1>7 DEF InterRefused, SkewWritten
  <2>2. FirstCol \in PartCols
    BY SizesOK DEF FirstCol, PartCols, TypeOK, InstOK, Cols
  <2> QED BY <2>1, <2>2 DEF InterWritten, Put, Kept, TypeOK, HwOK, ColumnRegs
<1> QED BY <1>1, <1>2, <1>3, <1>4, <1>5, <1>6, <1>7, NpiKept, ColumnsKept, TileKept DEF CallStep

LEMMA OthersKept ==
    TypeOK /\ [Next]_vars => [call.op # "columns" => (inst' = inst => Others' = Others)]_vars
<1> SUFFICES ASSUME TypeOK, Next, call.op # "columns", inst' = inst PROVE Others' = Others
  BY DEF vars
<1>1. Kept
  <2>1. CASE \E part \in Parts : CfgInitialize(part)
    BY <2>1 DEF CfgInitialize, Kept
  <2>2. CASE \E op \in Ops, arg \in Args : \E plan \in Seq(Planned(gen, inst, op)) : Begun(op, arg, plan)
    BY <2>2 DEF Begun, Begin, Kept
  <2>3. CASE Run
    BY <2>3 DEF Run, Kept, TypeOK, HwOK, ColumnRegs
  <2>4. CASE CallStep
    BY <2>4, StepKept
  <2> QED BY <2>1, <2>2, <2>3, <2>4, NextIs
<1>2. PartCols' = PartCols
  BY DEF PartCols
<1>3. Others' = [r \in ColumnRegs |-> [c \in Cols \ PartCols |-> hw'[r][c]]]
  BY <1>2 DEF Others
<1> QED BY <1>1, <1>3 DEF Others, Kept

----------------------------------------------------------------------------
(* Theorems.                                                                *)

IInv == TypeOK /\ ProtInv /\ ClockInv

LEMMA Invariant == Spec => []IInv
<1>1. Init => IInv
  <2> SUFFICES ASSUME Init PROVE IInv
    OBVIOUS
  <2>1. TypeOK /\ Idle
    BY InitOK
  <2>2. hw.prot = {} /\ hw.locked = TRUE /\ call.plan = <<>>
    BY DEF Init
  <2>3. ProtInv
    BY <2>2, LeadsEmpty DEF ProtInv, ProtNow, Balanced, Sureness
  <2>4. ClockInv
    BY <2>2, SureIfIn, EmptyLeads DEF ClockInv
  <2> QED BY <2>1, <2>3, <2>4 DEF IInv
<1>2. IInv /\ [Next]_vars => IInv'
  BY TypeStep, ProtStepKept, ClockStepKept DEF IInv
<1> QED BY <1>1, <1>2, PTL DEF Spec

\* Every state of every behaviour is typed; in particular no handler but that of
\* XAie_PmSetColumnClk plans a step that names a column outside of the partition.
THEOREM TypesHold == Spec => []TypeOK
<1>1. IInv => TypeOK
  BY DEF IInv
<1> QED BY <1>1, Invariant, PTL

\* However a privileged call ends, and whichever of its accesses failed, the
\* protected registers are closed and the NPI is locked behind it, but for the
\* paths LeftOpen names: for every device, option, request and number of faults.
THEOREM ClosedAtReturnHolds == Spec => []ClosedAtReturn
<1>1. IInv => ClosedAtReturn
  BY IdleShut DEF IInv
<1> QED BY <1>1, Invariant, PTL

\* No handler touches a tile whose column is gated: isolation, zeroisation and
\* memory modes come when every column of the partition is clocked.
THEOREM NoGatedAccessHolds == Spec => []NoGatedAccess
<1>1. IInv => NoGatedAccess
  BY ClocksReach DEF IInv
<1> QED BY <1>1, Invariant, PTL

\* No call but XAie_PmSetColumnClk changes a register of a column that is not in
\* the partition of its instance.
THEOREM OthersUntouchedHolds == Spec => OthersUntouched
<1>1. IInv /\ [Next]_vars => [call.op # "columns" => (inst' = inst => Others' = Others)]_vars
  BY OthersKept DEF IInv
<1> QED BY <1>1, Invariant, PTL DEF Spec, OthersUntouched

=============================================================================
