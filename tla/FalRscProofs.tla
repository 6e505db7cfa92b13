--------------------------- MODULE FalRscProofs ---------------------------
(***************************************************************************)
(* Theorems about FalRsc: a unit has one owner and stays marked while it   *)
(* has it, the manager implements the pool of units FalPool, no request    *)
(* and no release leaves a unit marked for nobody, and files come back.    *)
(***************************************************************************)
EXTENDS FalRsc, FiniteSetTheorems, TLAPS

-----------------------------------------------------------------------------
(* The numbering of the bits.                                              *)

(* Whole words and the rest of a bit's number.                             *)
LEMMA DivMod ==
    ASSUME NEW w \in Nat \ {0}, NEW a \in Nat
    PROVE  a = (a \div w) * w + (a % w) /\ a % w \in 0 .. w - 1 /\ a \div w \in Nat
OBVIOUS

(* The word and the rest determine a bit's number.                         *)
LEMMA DivModUnique ==
    ASSUME NEW w \in Nat \ {0}, NEW q \in Nat, NEW r \in 0 .. w - 1
    PROVE  (q * w + r) \div w = q /\ (q * w + r) % w = r
OBVIOUS

(* The bits of a module end before those of the next one begin.            *)
LEMMA NextModule ==
    ASSUME NEW m \in Nat, NEW i \in Nat, NEW j \in Nat, i < j
    PROVE  m * i + m <= m * j
OBVIOUS

(* Products of natural numbers.                                            *)
LEMMA Products ==
    ASSUME NEW m \in Nat, NEW n \in Nat
    PROVE  m * n \in Nat
OBVIOUS

(* Bits of the run-time half of a module type and where they lie in it.    *)
LEMMA Slot ==
    ASSUME NEW m \in Nat, NEW n \in Nat, NEW i \in 0 .. n - 1, NEW d \in 0 .. m - 1
    PROVE  m * i + d \in 0 .. n * m - 1
<1>1. m * i + m <= m * n
  BY NextModule
<1>2. m * i \in Nat /\ m * n = n * m /\ n * m \in Nat
  BY Products
<1> QED
  BY <1>1, <1>2

(* The place in a run of modules determines the module and the resource.   *)
LEMMA SlotUnique ==
    ASSUME NEW m \in Nat, NEW i \in Nat, NEW j \in Nat,
           NEW d \in 0 .. m - 1, NEW e \in 0 .. m - 1, m * i + d = m * j + e
    PROVE  i = j /\ d = e
<1>1. m * i \in Nat /\ m * j \in Nat
  BY Products
<1>2. ~(i < j)
  BY <1>1, NextModule
<1>3. ~(j < i)
  BY <1>1, NextModule
<1> QED
  BY <1>1, <1>2, <1>3

(* getMaxRsc is a number.                                                  *)
LEMMA MaxRscNat ==
    ASSUME NEW s \in Sites, NEW t \in RscTypes
    PROVE  getMaxRsc(s, t) \in Nat
BY GeometryAssumption DEF getMaxRsc

(* ModOffset is a number.                                                  *)
LEMMA ModOffsetNat ==
    ASSUME NEW type \in TileTypes, NEW module \in Modules, NEW t \in RscTypes
    PROVE  ModOffset(type, module, t) \in Nat
<1>1. MaxRscs[<<type, "mem", t>>] \in Nat /\ Tiles[type] \in Nat
  BY GeometryAssumption DEF Modules
<1>2. MaxRscs[<<type, "mem", t>>] * Tiles[type] \in Nat
  BY <1>1, Products
<1> QED
  BY <1>2 DEF ModOffset

(* What the number of a bit is made of are numbers.                        *)
LEMMA BitNumbers ==
    ASSUME NEW s \in Sites, NEW t \in RscTypes
    PROVE  /\ getStartBit(s, t) \in Nat
           /\ getStaticOff(s, t) \in Nat
           /\ Bitmap(s, t) \in TileTypes \X RscTypes
<1>1. getMaxRsc(s, t) \in Nat /\ Site[s].index \in Nat /\ Tiles[Site[s].type] \in Nat
  BY GeometryAssumption, MaxRscNat
<1>2. getMaxRsc(s, t) * Site[s].index \in Nat /\ Tiles[Site[s].type] * getMaxRsc(s, t) \in Nat
  BY <1>1, Products
<1>3. ModOffset(Site[s].type, Site[s].module, t) \in Nat
  BY GeometryAssumption, ModOffsetNat
<1>4. Bitmap(s, t) \in TileTypes \X RscTypes
  BY GeometryAssumption DEF Bitmap
<1> QED
  BY <1>2, <1>3, <1>4 DEF getStartBit, getStaticOff

(* The parts of a unit.                                                    *)
LEMMA UnitsType ==
    ASSUME NEW u \in Units
    PROVE  /\ u.site \in Sites /\ u.type \in RscTypes
           /\ u.id \in 0 .. getMaxRsc(u.site, u.type) - 1
           /\ u = Rsc(u.site, u.type, u.id)
BY DEF Units, Rsc

(* Numbers of the bits of a unit: kind 0 is run-time, kind 1 static.       *)
Number(u, kind) ==
    getStartBit(u.site, u.type) + kind * getStaticOff(u.site, u.type) + u.id

(* The bits of a unit, by their numbers.                                   *)
LEMMA BitsAreNumbers ==
    ASSUME NEW u \in Units
    PROVE  /\ RuntimeBit(u) = <<Bitmap(u.site, u.type), Number(u, 0)>>
           /\ StaticBit(u) = <<Bitmap(u.site, u.type), Number(u, 1)>>
           /\ RuntimeBit(u) \in Bits /\ StaticBit(u) \in Bits
<1>1. u.id \in Nat /\ getStartBit(u.site, u.type) \in Nat /\ getStaticOff(u.site, u.type) \in Nat
      /\ Bitmap(u.site, u.type) \in TileTypes \X RscTypes
  BY UnitsType, MaxRscNat, BitNumbers
<1> QED
  BY <1>1 DEF RuntimeBit, StaticBit, Number, Bits

(* Within a module type: what lies where.                                  *)
LEMMA InRegion ==
    ASSUME NEW u \in Units, NEW kind \in {0, 1}
    PROVE  LET m == getMaxRsc(u.site, u.type)
               n == Tiles[Site[u.site].type]
               a == m * Site[u.site].index + u.id
           IN  /\ a \in 0 .. n * m - 1
               /\ n * m \in Nat
               /\ Number(u, kind) =
                    ModOffset(Site[u.site].type, Site[u.site].module, u.type) + kind * (n * m) + a
<1> DEFINE m == getMaxRsc(u.site, u.type)
           n == Tiles[Site[u.site].type]
           i == Site[u.site].index
           o == ModOffset(Site[u.site].type, Site[u.site].module, u.type)
<1>1. m \in Nat /\ n \in Nat /\ i \in 0 .. n - 1 /\ u.id \in 0 .. m - 1
  BY UnitsType, MaxRscNat, GeometryAssumption
<1>2. o \in Nat
  BY UnitsType, GeometryAssumption, ModOffsetNat
<1>3. Number(u, kind) = (o + m * i) + kind * (n * m) + u.id
  BY DEF Number, getStartBit, getStaticOff
<1> HIDE DEF m, n, i, o
<1>4. m * i + u.id \in 0 .. n * m - 1
  BY <1>1, Slot
<1>5. m * i \in Nat /\ n * m \in Nat
  BY <1>1, Products
<1>6. Number(u, kind) = o + kind * (n * m) + (m * i + u.id)
  BY <1>1, <1>2, <1>3, <1>5
<1> QED
  BY <1>4, <1>5, <1>6 DEF m, n, i, o

(* The region of the core module starts where that of the memory ends.     *)
LEMMA CoreBehindMem ==
    ASSUME NEW u \in Units, NEW v \in Units, NEW k \in {0, 1}, NEW l \in {0, 1},
           u.type = v.type, Site[u.site].type = Site[v.site].type,
           Site[u.site].module = "mem", Site[v.site].module = "core"
    PROVE  Number(u, k) < Number(v, l)
<1> DEFINE m == getMaxRsc(u.site, u.type)
           n == Tiles[Site[u.site].type]
           a == m * Site[u.site].index + u.id
           mv == getMaxRsc(v.site, v.type)
           b == mv * Site[v.site].index + v.id
<1>1. /\ a \in 0 .. n * m - 1
      /\ n * m \in Nat
      /\ Number(u, k) = ModOffset(Site[u.site].type, Site[u.site].module, u.type) + k * (n * m) + a
  BY InRegion
<1>2. /\ b \in 0 .. n * mv - 1
      /\ n * mv \in Nat
      /\ Number(v, l) = ModOffset(Site[v.site].type, Site[v.site].module, v.type) + l * (n * mv) + b
  BY InRegion
<1>3. ModOffset(Site[u.site].type, Site[u.site].module, u.type) = 0
  BY DEF ModOffset
<1>4. ModOffset(Site[v.site].type, Site[v.site].module, v.type) = m * n * 2
  BY DEF ModOffset, getMaxRsc
<1>5. m \in Nat /\ n \in Nat
  BY UnitsType, MaxRscNat, GeometryAssumption
<1> HIDE DEF m, n, a, b, mv
<1>6. m * n * 2 = 2 * (n * m)
  BY <1>5
<1>7. k * (n * m) <= n * m /\ l * (n * mv) >= 0
  BY <1>1, <1>2
<1>8. k * (n * m) \in Nat /\ l * (n * mv) \in Nat
  BY <1>1, <1>2
<1> QED
  BY <1>1, <1>2, <1>3, <1>4, <1>6, <1>7, <1>8

(* Two bits of modules of the same kind with one number are one bit.       *)
LEMMA SameModule ==
    ASSUME NEW u \in Units, NEW v \in Units, NEW k \in {0, 1}, NEW l \in {0, 1},
           u.type = v.type, Site[u.site].type = Site[v.site].type,
           Site[u.site].module = Site[v.site].module, Number(u, k) = Number(v, l)
    PROVE  u = v /\ k = l
<1> DEFINE m == getMaxRsc(u.site, u.type)
           n == Tiles[Site[u.site].type]
           a == m * Site[u.site].index + u.id
           b == m * Site[v.site].index + v.id
           o == ModOffset(Site[u.site].type, Site[u.site].module, u.type)
<1>1. a \in 0 .. n * m - 1 /\ n * m \in Nat /\ Number(u, k) = o + k * (n * m) + a
  BY InRegion
<1>2. getMaxRsc(v.site, v.type) = m
  BY DEF getMaxRsc
<1>3. b \in 0 .. n * m - 1 /\ Number(v, l) = o + l * (n * m) + b
  BY <1>2, InRegion
<1>4. o \in Nat
  BY UnitsType, GeometryAssumption, ModOffsetNat
<1>5. k = l /\ a = b
  <2> DEFINE half == n * m
  <2>1. /\ half \in Nat /\ a \in 0 .. half - 1 /\ b \in 0 .. half - 1
        /\ o + k * half + a = o + l * half + b
    BY <1>1, <1>3
  <2> HIDE DEF m, n, a, b, o, half
  <2>2. k * half + a = l * half + b
    BY <1>4, <2>1
  <2>3. CASE k = 0 /\ l = 0
    BY <2>1, <2>2, <2>3
  <2>4. CASE k = 1 /\ l = 1
    BY <2>1, <2>2, <2>4
  <2>5. CASE k = 0 /\ l = 1
    BY <2>1, <2>2, <2>5
  <2>6. CASE k = 1 /\ l = 0
    BY <2>1, <2>2, <2>6
  <2> QED
    BY <2>3, <2>4, <2>5, <2>6
<1>6. m \in Nat /\ u.id \in 0 .. m - 1 /\ v.id \in 0 .. m - 1
      /\ Site[u.site].index \in Nat /\ Site[v.site].index \in Nat
  BY <1>2, UnitsType, MaxRscNat, GeometryAssumption
<1>7. Site[u.site].index = Site[v.site].index /\ u.id = v.id
  <2> DEFINE i == Site[u.site].index
             j == Site[v.site].index
  <2> HIDE DEF m, i, j
  <2>1. i \in Nat /\ j \in Nat /\ m * i + u.id = m * j + v.id
    BY <1>5, <1>6 DEF i, j
  <2>2. i = j /\ u.id = v.id
    BY <1>6, <2>1, SlotUnique
  <2> QED
    BY <2>2 DEF i, j
<1>8. u.site \in Sites /\ v.site \in Sites
  BY UnitsType
<1>9. Site[u.site] = Site[v.site]
  <2>1. /\ Site[u.site] \in [type : TileTypes, module : Modules, index : Nat]
        /\ Site[v.site] \in [type : TileTypes, module : Modules, index : Nat]
    BY <1>8, GeometryAssumption
  <2> QED
    BY <1>7, <2>1
<1>10. u.site = v.site
  BY <1>8, <1>9, GeometryAssumption
<1> QED
  BY <1>5, <1>7, <1>10, UnitsType

(* No two of the bits of units coincide: not those of two units, not the   *)
(* two of one.                                                             *)
LEMMA BitsDistinct ==
    ASSUME NEW u \in Units, NEW v \in Units
    PROVE  /\ RuntimeBit(u) # StaticBit(v)
           /\ RuntimeBit(u) = RuntimeBit(v) => u = v
           /\ StaticBit(u) = StaticBit(v) => u = v
<1>1. ASSUME NEW k \in {0, 1}, NEW l \in {0, 1},
             <<Bitmap(u.site, u.type), Number(u, k)>> = <<Bitmap(v.site, v.type), Number(v, l)>>
      PROVE  u = v /\ k = l
  <2>1. u.type = v.type /\ Site[u.site].type = Site[v.site].type /\ Number(u, k) = Number(v, l)
    BY <1>1 DEF Bitmap
  <2>2. CASE Site[u.site].module = Site[v.site].module
    BY <2>1, <2>2, SameModule
  <2>3. CASE Site[u.site].module # Site[v.site].module
    <3>1. {Site[u.site].module, Site[v.site].module} = {"mem", "core"}
      <4>1. /\ Site[u.site].module \in ModulesOf(Site[u.site].type)
            /\ Site[v.site].module \in ModulesOf(Site[u.site].type)
        BY <2>1, UnitsType, GeometryAssumption
      <4>2. ModulesOf(Site[u.site].type) \in {{"mem", "core"}, {"mem"}, {"pl"}}
        BY DEF ModulesOf
      <4> QED
        BY <2>3, <4>1, <4>2
    <3>2. Number(u, k) \in Nat /\ Number(v, l) \in Nat
      <4>1. /\ RuntimeBit(u) \in Bits /\ StaticBit(u) \in Bits
            /\ RuntimeBit(v) \in Bits /\ StaticBit(v) \in Bits
        BY BitsAreNumbers
      <4>2. Number(u, 0) \in Nat /\ Number(u, 1) \in Nat /\ Number(v, 0) \in Nat /\ Number(v, 1) \in Nat
        BY <4>1, BitsAreNumbers DEF Bits
      <4> QED
        BY <4>2
    <3>3. Number(u, k) < Number(v, l) \/ Number(v, l) < Number(u, k)
      BY <2>1, <3>1, CoreBehindMem
    <3> QED
      BY <2>1, <3>2, <3>3
  <2> QED
    BY <2>2, <2>3
<1>2. /\ RuntimeBit(u) = <<Bitmap(u.site, u.type), Number(u, 0)>>
      /\ StaticBit(u) = <<Bitmap(u.site, u.type), Number(u, 1)>>
      /\ RuntimeBit(v) = <<Bitmap(v.site, v.type), Number(v, 0)>>
      /\ StaticBit(v) = <<Bitmap(v.site, v.type), Number(v, 1)>>
  BY BitsAreNumbers
<1>3. RuntimeBit(u) = RuntimeBit(v) => u = v
  BY <1>1, <1>2
<1>4. StaticBit(u) = StaticBit(v) => u = v
  BY <1>1, <1>2
<1>5. RuntimeBit(u) # StaticBit(v)
  <2>1. ~(<<Bitmap(u.site, u.type), Number(u, 0)>> = <<Bitmap(v.site, v.type), Number(v, 1)>>)
    BY <1>1
  <2> QED
    BY <1>2, <2>1
<1> QED
  BY <1>3, <1>4, <1>5

-----------------------------------------------------------------------------
(* The requests.                                                           *)

ResourcesOf(type) == {r \in Resources : r.type = type}

Endings(type) == [end : {"ok", "error", "throw"}, rscs : Seq(ResourcesOf(type)),
                  bcs : Seq(Resources), set : SUBSET Bits]

(* The hypotheses on the geometry under which requests are exclusive.      *)
Sound == UniformBroadcast /\ InOneWord

(* What a request for resources of a type on the bitmaps bs may end with:  *)
(* resources of which those that exist were not taken, and now are.        *)
Good(g, type, bs) ==
    /\ g \in Endings(type)
    /\ Sound /\ g.end = "ok" => \A r \in Existing(g.rscs) \cup Existing(g.bcs) :
                          ~Busy(r, bs) /\ RuntimeBit(r) \in g.set

(* The run-time bit of a resource is a bit of the bitmaps.                 *)
LEMMA BitType ==
    ASSUME NEW r \in Resources, r.id \in Nat
    PROVE  RuntimeBit(r) \in Bits
<1>1. r.site \in Sites /\ r.type \in RscTypes
  BY DEF Resources
<1> QED
  BY <1>1, BitNumbers DEF RuntimeBit, Bits

(* Units are resources.                                                    *)
LEMMA UnitsAreResources == Units \subseteq Resources
BY UnitsType, MaxRscNat DEF Resources, Rsc

(* A failed request is granted nothing.                                    *)
LEMMA FailedGood ==
    ASSUME NEW left \in SUBSET Bits, NEW type, NEW bs
    PROVE  Good(Failed(left), type, bs)
<1>1. <<>> \in Seq(Resources) /\ <<>> \in Seq(ResourcesOf(type))
  OBVIOUS
<1> QED
  BY <1>1 DEF Good, Endings, Failed

(* A request that throws is granted nothing.                               *)
LEMMA ThrownGood ==
    ASSUME NEW type, NEW bs
    PROVE  Good(Thrown, type, bs)
<1>1. <<>> \in Seq(Resources) /\ <<>> \in Seq(ResourcesOf(type)) /\ {} \in SUBSET Bits
  OBVIOUS
<1> QED
  BY <1>1 DEF Good, Endings, Thrown

(* Resources with ids, each unit among them free.                          *)
LEMMA GrantedGood ==
    ASSUME NEW type, NEW rs \in Seq(ResourcesOf(type)), NEW bs,
           \A i \in DOMAIN rs : rs[i].id \in Nat,
           Sound => \A i \in DOMAIN rs : rs[i] \in Units => ~Busy(rs[i], bs)
    PROVE  Good(Granted(rs), type, bs)
<1>1. \A i \in DOMAIN rs : rs[i] \in Resources
  BY DEF ResourcesOf
<1>2. RuntimeBits(rs) \subseteq Bits
  BY <1>1, BitType DEF RuntimeBits
<1>3. Sound => \A r \in Existing(rs) : ~Busy(r, bs) /\ RuntimeBit(r) \in RuntimeBits(rs)
  BY DEF Existing, RuntimeBits
<1>4. <<>> \in Seq(Resources) /\ Existing(<<>>) = {}
  BY DEF Existing
<1> QED
  BY <1>2, <1>3, <1>4 DEF Good, Endings, Granted

(* request(): each resource granted was free when its turn came.           *)
LEMMA RequestGood ==
    ASSUME NEW type, NEW rs \in Seq(ResourcesOf(type)), NEW bs
    PROVE  Good(Request(rs, bs), type, bs)
<1> DEFINE Found == LowestIds(rs, bs)
           ids == CHOOSE x \in Found : TRUE
           got == WithIds(rs, ids)
<1>1. CASE Found = {}
  BY <1>1, FailedGood DEF Request
<1>2. CASE Found # {}
  <2>1. ids \in Found
    BY <1>2
  <2>2. \A i \in DOMAIN rs : got[i] \in Units /\ ~Busy(got[i], bs \cup {RuntimeBit(got[j]) : j \in 1 .. i - 1})
    <3> HIDE DEF ids
    <3> QED
      BY <2>1 DEF LowestIds
  <2> HIDE DEF ids
  <2>3. \A i \in DOMAIN rs : got[i] \in Units /\ ~Busy(got[i], bs)
    BY <2>2 DEF Busy
  <2>4. got \in Seq(ResourcesOf(type)) /\ DOMAIN got = DOMAIN rs
    <3>1. got = [i \in 1 .. Len(rs) |-> got[i]] /\ DOMAIN got = 1 .. Len(rs) /\ DOMAIN rs = 1 .. Len(rs)
      BY DEF WithIds
    <3>2. \A i \in 1 .. Len(rs) : got[i] \in ResourcesOf(type)
      <4>1. \A i \in 1 .. Len(rs) : rs[i] \in Resources /\ rs[i].type = type
        BY DEF ResourcesOf
      <4>2. \A i \in 1 .. Len(rs) : got[i].type = type
        BY <3>1, <4>1 DEF WithIds, Resources
      <4> HIDE DEF got
      <4> QED
        BY <2>3, <3>1, <4>2, UnitsAreResources DEF ResourcesOf
    <3>3. Len(rs) \in Nat
      OBVIOUS
    <3> HIDE DEF got
    <3> QED
      BY <3>1, <3>2, <3>3
  <2>5. \A i \in DOMAIN got : got[i].id \in Nat
    BY <2>3, <2>4, UnitsType, MaxRscNat
  <2> HIDE DEF got
  <2>6. Good(Granted(got), type, bs)
    BY <2>3, <2>4, <2>5, GrantedGood
  <2> QED
    BY <1>2, <2>6 DEF Request, got, ids
<1> QED
  BY <1>1, <1>2

(* requestAllocated(): what is granted passed the test, what stays set are *)
(* bits.                                                                   *)
LEMMA RequestAllocatedGood ==
    ASSUME NEW type, NEW rs \in Seq(ResourcesOf(type)), NEW bs
    PROVE  Good(RequestAllocated(rs, bs), type, bs)
<1> DEFINE Fits(i) ==
             /\ rs[i].id \in 0 .. getMaxRsc(rs[i].site, rs[i].type)
             /\ ~Busy(rs[i], bs \cup {RuntimeBit(rs[j]) : j \in 1 .. i - 1})
           Stuck == {i \in DOMAIN rs : rs[i] \notin Units /\ \A j \in 1 .. i : Fits(j)}
<1>0. DOMAIN rs = 1 .. Len(rs) /\ Len(rs) \in Nat
  OBVIOUS
<1>1. \A i \in DOMAIN rs : rs[i] \in Resources
  BY DEF ResourcesOf
<1>2. \A i \in DOMAIN rs : Fits(i) => rs[i].id \in Nat
  OBVIOUS
<1>3. CASE \A i \in DOMAIN rs : Fits(i)
  <2>1. \A i \in DOMAIN rs : ~Busy(rs[i], bs)
    BY <1>3 DEF Busy
  <2>2. Good(Granted(rs), type, bs)
    BY <1>2, <1>3, <2>1, GrantedGood
  <2> QED
    BY <1>3, <2>2 DEF RequestAllocated
<1>4. CASE ~\A i \in DOMAIN rs : Fits(i)
  <2>1. \A i \in Stuck : i \in DOMAIN rs /\ Fits(i)
    <3>1. \A i \in DOMAIN rs : i \in 1 .. i
      BY <1>0
    <3> HIDE DEF Fits
    <3> QED
      BY <3>1
  <2>2. {RuntimeBit(rs[i]) : i \in Stuck} \subseteq Bits
    <3> HIDE DEF Fits, Stuck
    <3> QED
      BY <1>1, <1>2, <2>1, BitType
  <2>3. Good(Failed({RuntimeBit(rs[i]) : i \in Stuck}), type, bs)
    BY <2>2, FailedGood
  <2>4. RequestAllocated(rs, bs) = Failed({RuntimeBit(rs[i]) : i \in Stuck})
    BY <1>4 DEF RequestAllocated
  <2> QED
    BY <2>3, <2>4
<1> QED
  BY <1>3, <1>4

(* Moving inside a word leaves the word.                                   *)
LEMMA Shift ==
    ASSUME NEW w \in Nat \ {0}, NEW b \in Nat, NEW j \in Nat, (b % w) + j < w
    PROVE  (b + j) \div w = b \div w /\ (b + j) % w = (b % w) + j
<1> DEFINE q == b \div w
           r == (b % w) + j
<1>1. b = q * w + (b % w) /\ b % w \in 0 .. w - 1 /\ q \in Nat
  BY DivMod
<1>2. r \in 0 .. w - 1
  BY <1>1
<1>3. b + j = q * w + r
  BY <1>1
<1> HIDE DEF q, r
<1>4. (q * w + r) \div w = q /\ (q * w + r) % w = r
  BY <1>1, <1>2, DivModUnique
<1> QED
  BY <1>3, <1>4 DEF q, r

(* A run inside a word is tested where it is.                              *)
LEMMA TestedIsOwn ==
    ASSUME NEW b \in Nat, NEW i \in Nat, NEW j \in Nat, NEW m \in Nat,
           i + j < m, (b % WORD) + m <= WORD
    PROVE  TestedBit(b + i, j) = b + i + j
<1> DEFINE c == b + i
           r == b % WORD
           rc == c % WORD
           q == c \div WORD
<1>1. WORD \in Nat \ {0} /\ r \in 0 .. WORD - 1 /\ c \in Nat
  BY GeometryAssumption, DivMod
<1>2. rc = r + i
  <2>1. (b % WORD) + i < WORD
    <3> HIDE DEF r
    <3>1. r + i < WORD
      BY <1>1 DEF r
    <3> QED
      BY <3>1 DEF r
  <2> QED
    BY <1>1, <2>1, Shift
<1>3. c = q * WORD + rc /\ rc \in 0 .. WORD - 1 /\ q \in Nat
  BY <1>1, DivMod
<1>4. r + m <= WORD
  OBVIOUS
<1> DEFINE x == rc + j
           skip == IF x < WORD THEN 0 ELSE x - WORD + 1
<1>5. TestedBit(c, j) = (q + skip) * WORD + (x % WORD)
  BY DEF TestedBit
<1> HIDE DEF c, r, rc, q
<1>6. x \in 0 .. WORD - 1
  BY <1>1, <1>2, <1>3, <1>4
<1>7. x % WORD = x
  <2> HIDE DEF x
  <2> QED
    BY <1>1, <1>6
<1>8. skip = 0
  <2> HIDE DEF x
  <2> QED
    BY <1>1, <1>6
<1> HIDE DEF skip
<1>9. TestedBit(c, j) = c + j
  BY <1>1, <1>3, <1>5, <1>7, <1>8
<1> QED
  BY <1>9 DEF c

(* requestContiguous(): if the tests are at the bits of the run, it was    *)
(* free.                                                                   *)
LEMMA RequestContiguousGood ==
    ASSUME NEW type, NEW rs \in Seq(ResourcesOf(type)), NEW bs, rs # <<>>, type \in {"pc", "combo"}
    PROVE  Good(RequestContiguous(rs, bs), type, bs)
<1> DEFINE s == rs[1].site
           t == rs[1].type
           base == getStartBit(s, t)
           static == getStaticOff(s, t)
           m == getMaxRsc(s, t)
           Begin(i) == base + i
           Tests(i, j) == {TestedBit(Begin(i), j), TestedBit(Begin(i) + static, j)}
           Inside(i, j) == \A b \in Tests(i, j) : b < BitmapSize(Site[s].type, t)
           Clear(i, j) == Inside(i, j) /\ \A b \in Tests(i, j) : <<Bitmap(s, t), b>> \notin bs
           Throws(i) == \E j \in 0 .. Len(rs) - 1 :
                           ~Inside(i, j) /\ \A k \in 0 .. j - 1 : Clear(i, k)
           Fits(i) == \A j \in 0 .. Len(rs) - 1 : Clear(i, j)
           Ends == {i \in 0 .. m - 1 :
                      /\ Fits(i) \/ Throws(i)
                      /\ \A k \in 0 .. i - 1 : ~Fits(k) /\ ~Throws(k)}
           id == CHOOSE i \in Ends : TRUE
           got == [k \in DOMAIN rs |-> Rsc(s, t, id + k - 1)]
<1>1. s \in Sites /\ t \in RscTypes /\ t = type /\ DOMAIN rs = 1 .. Len(rs) /\ Len(rs) \in Nat
  <2>1. rs[1] \in ResourcesOf(type)
    OBVIOUS
  <2> QED
    BY <2>1 DEF Resources, ResourcesOf
<1>2. base \in Nat /\ static \in Nat /\ m \in Nat
  BY <1>1, BitNumbers, MaxRscNat
<1>3. RequestContiguous(rs, bs) = IF Ends = {} THEN Failed({})
                                  ELSE IF Throws(id) THEN Thrown ELSE Granted(got)
  BY DEF RequestContiguous
<1>4. CASE Ends = {}
  <2> HIDE DEF Ends, id, got, Throws
  <2> QED
    BY <1>3, <1>4, FailedGood
<1>5. CASE Ends # {} /\ Throws(id)
  <2> HIDE DEF Ends, id, got, Throws
  <2> QED
    BY <1>3, <1>5, ThrownGood
<1>6. CASE Ends # {} /\ ~Throws(id)
  <2>1. id \in Ends
    BY <1>6
  <2>2. id \in 0 .. m - 1 /\ Fits(id)
    <3> HIDE DEF id, Throws, Fits
    <3> QED
      BY <1>6, <2>1
  <2> HIDE DEF id
  <2>3. got \in Seq(ResourcesOf(type)) /\ \A k \in DOMAIN got : got[k].id \in Nat
    <3>1. \A k \in 1 .. Len(rs) : Rsc(s, t, id + k - 1) \in ResourcesOf(type) /\ id + k - 1 \in Nat
      BY <1>1, <1>2, <2>2 DEF Rsc, Resources, ResourcesOf
    <3> QED
      BY <1>1, <3>1 DEF Rsc
  <2>4. ASSUME Sound, NEW k \in DOMAIN got, got[k] \in Units
        PROVE  ~Busy(got[k], bs)
    <3> DEFINE j == k - 1
    <3>1. k \in 1 .. Len(rs) /\ j \in 0 .. Len(rs) - 1 /\ got[k] = Rsc(s, t, id + k - 1)
      BY <1>1
    <3>2. id + j < m
      <4>1. /\ got[k].id \in 0 .. getMaxRsc(got[k].site, got[k].type) - 1
            /\ got[k].id = id + k - 1 /\ got[k].site = s /\ got[k].type = t
        BY <2>4, <3>1, UnitsType DEF Rsc
      <4> QED
        BY <1>2, <4>1
    <3>3. (base % WORD) + m <= WORD /\ ((base + static) % WORD) + m <= WORD
      <4>1. m > 0
        BY <1>2, <2>2
      <4> QED
        BY <1>1, <2>4, <4>1 DEF InOneWord, Sound
    <3>4. TestedBit(base + id, j) = base + id + j
      <4> HIDE DEF base, static, m, j
      <4>1. j \in Nat /\ id \in Nat
        BY <2>2, <3>1
      <4>2. base \in Nat /\ m \in Nat
        BY <1>2
      <4> QED
        BY ONLY <3>2, <3>3, <4>1, <4>2, TestedIsOwn
    <3>4a. base + static \in Nat
      BY <1>2
    <3>5. TestedBit((base + static) + id, j) = (base + static) + id + j
      <4> HIDE DEF base, static, m, j
      <4>1. j \in Nat /\ id \in Nat
        BY <2>2, <3>1
      <4>2. m \in Nat
        BY <1>2
      <4> QED
        BY ONLY <3>2, <3>3, <3>4a, <4>1, <4>2, TestedIsOwn
    <3>6. (base + id) + static = (base + static) + id
      BY <1>2, <2>2
    <3>7. Clear(id, j)
      BY <2>2, <3>1
    <3>8. <<Bitmap(s, t), base + id + j>> \notin bs /\ <<Bitmap(s, t), (base + static) + id + j>> \notin bs
      BY <3>4, <3>5, <3>6, <3>7
    <3>9. /\ RuntimeBit(got[k]) = <<Bitmap(s, t), base + (id + k - 1)>>
          /\ StaticBit(got[k]) = <<Bitmap(s, t), base + static + (id + k - 1)>>
      BY <3>1 DEF RuntimeBit, StaticBit, Rsc
    <3>10. base + (id + k - 1) = base + id + j /\ base + static + (id + k - 1) = (base + static) + id + j
      BY <1>1, <1>2, <2>2, <3>1
    <3> QED
      BY <3>8, <3>9, <3>10 DEF Busy
  <2> HIDE DEF got
  <2>5. Good(Granted(got), type, bs)
    BY <2>3, <2>4, GrantedGood
  <2> QED
    BY <1>3, <1>6, <2>5 DEF id
<1> QED
  BY <1>4, <1>5, <1>6

(* requestBc(): with equal numbers of channels no busy channel is masked.  *)
LEMMA RequestBcGood ==
    ASSUME NEW path \in Seq(Sites), NEW preferred \in Nat \cup {ANY}, NEW bs
    PROVE  Good(RequestBc(path, preferred, bs), "broadcast", bs)
<1> DEFINE Common == getCommonRscId(path, preferred, bs)
           refused == \/ preferred # ANY /\ preferred >= getMaxRsc(path[1], "broadcast")
                      \/ Common = {}
           id == CHOOSE i \in Common : TRUE
           got == [k \in DOMAIN path |-> Rsc(path[k], "broadcast", id)]
<1>1. RequestBc(path, preferred, bs) = IF refused THEN Failed({}) ELSE Granted(got)
  BY DEF RequestBc
<1>2. CASE refused
  BY <1>1, <1>2, FailedGood
<1>3. CASE ~refused
  <2>1. id \in Common
    BY <1>3
  <2>2. id \notin BusyChannels(path, bs) /\ id \in Nat
    <3> HIDE DEF id
    <3>1. CASE preferred = ANY
      BY <2>1, <3>1 DEF getCommonRscId
    <3>2. CASE preferred # ANY
      BY <2>1, <3>2 DEF getCommonRscId
    <3> QED
      BY <3>1, <3>2
  <2> HIDE DEF id
  <2>3. DOMAIN path = 1 .. Len(path) /\ Len(path) \in Nat /\ \A k \in DOMAIN path : path[k] \in Sites
    OBVIOUS
  <2>4. got \in Seq(ResourcesOf("broadcast")) /\ \A k \in DOMAIN got : got[k].id \in Nat
    <3>1. \A k \in 1 .. Len(path) : Rsc(path[k], "broadcast", id) \in ResourcesOf("broadcast")
      BY <2>2, <2>3 DEF Rsc, Resources, ResourcesOf, RscTypes
    <3> QED
      BY <2>2, <2>3, <3>1 DEF Rsc
  <2>5. ASSUME Sound, NEW k \in DOMAIN got, got[k] \in Units
        PROVE  ~Busy(got[k], bs)
    <3>1. k \in DOMAIN path /\ got[k] = Rsc(path[k], "broadcast", id)
      OBVIOUS
    <3>2. id \in 0 .. getMaxRsc(path[k], "broadcast") - 1
      BY <2>5, <3>1, UnitsType DEF Rsc
    <3>3. \A l \in k .. Len(path) : id < getMaxRsc(path[l], "broadcast")
      <4>1. \A l \in k .. Len(path) : l \in DOMAIN path
        BY <2>3, <3>1
      <4>2. \A l \in k .. Len(path) : getMaxRsc(path[l], "broadcast") = getMaxRsc(path[k], "broadcast")
        BY <2>3, <2>5, <3>1, <4>1 DEF UniformBroadcast, Sound
      <4>3. getMaxRsc(path[k], "broadcast") \in Nat
        BY <2>3, <3>1, MaxRscNat DEF RscTypes
      <4> QED
        BY <3>2, <4>2, <4>3
    <3> HIDE DEF got
    <3> QED
      BY <2>2, <3>1, <3>2, <3>3 DEF BusyChannels
  <2> HIDE DEF got
  <2>6. Good(Granted(got), "broadcast", bs)
    BY <2>4, <2>5, GrantedGood
  <2> QED
    BY <1>1, <1>3, <2>6
<1> QED
  BY <1>2, <1>3

(* Both modules of an AIE tile are among the sites.                        *)
LEMMA BothModulesType ==
    ASSUME NEW s \in Sites, Site[s].type = "aie"
    PROVE  Sibling(s) \in Sites /\ BothModules(s) \in Seq(Sites)
<1>1. ASSUME NEW a \in Sites, Site[a].type = "aie"
      PROVE  Sibling(a) \in Sites
  <2>1. \E x \in Sites : /\ Site[x].type = Site[a].type
                         /\ Site[x].index = Site[a].index
                         /\ Site[x].module # Site[a].module
    BY <1>1, GeometryAssumption
  <2> QED
    BY <2>1 DEF Sibling
<1>2. CoreSite(s) \in Sites /\ Site[CoreSite(s)].type = "aie"
  <2>1. CASE Site[s].module = "core"
    BY <2>1 DEF CoreSite
  <2>2. CASE Site[s].module # "core"
    <3>1. \E x \in Sites : /\ Site[x].type = Site[s].type
                           /\ Site[x].index = Site[s].index
                           /\ Site[x].module # Site[s].module
      BY GeometryAssumption
    <3>2. Sibling(s) \in Sites /\ Site[Sibling(s)].type = Site[s].type
      BY <3>1 DEF Sibling
    <3> QED
      BY <2>2, <3>2 DEF CoreSite
  <2> QED
    BY <2>1, <2>2
<1>3. Sibling(s) \in Sites /\ Sibling(CoreSite(s)) \in Sites
  BY <1>1, <1>2
<1> QED
  BY <1>2, <1>3 DEF BothModules

(* What exists in a concatenation exists in one of the parts.              *)
LEMMA ExistingOfBoth ==
    ASSUME NEW xs \in Seq(Resources), NEW ys \in Seq(Resources)
    PROVE  Existing(xs \o ys) \subseteq Existing(xs) \cup Existing(ys)
<1>1. ASSUME NEW i \in DOMAIN (xs \o ys)
      PROVE  \/ \E j \in DOMAIN xs : (xs \o ys)[i] = xs[j]
             \/ \E j \in DOMAIN ys : (xs \o ys)[i] = ys[j]
  <2>1. i \in 1 .. Len(xs) + Len(ys) /\ Len(xs) \in Nat /\ Len(ys) \in Nat
    OBVIOUS
  <2>2. CASE i <= Len(xs)
    <3>1. (xs \o ys)[i] = xs[i] /\ i \in DOMAIN xs
      BY <2>1, <2>2
    <3> QED
      BY <3>1
  <2>3. CASE i > Len(xs)
    <3>1. (xs \o ys)[i] = ys[i - Len(xs)] /\ i - Len(xs) \in DOMAIN ys
      BY <2>1, <2>3
    <3> QED
      BY <3>1
  <2> QED
    BY <2>1, <2>2, <2>3
<1> QED
  BY <1>1 DEF Existing

(* A request that also gets one more channel.                              *)
LEMMA AnotherGood ==
    ASSUME NEW type, NEW bs, NEW g, Good(g, type, bs),
           NEW s \in Sites, Site[s].type = "aie"
    PROVE  Good(Another(g, s, bs), type, bs)
<1> DEFINE bc == RequestBc(BothModules(s), ANY, bs \cup g.set)
           more == [g EXCEPT !.bcs = @ \o bc.rscs, !.set = @ \cup bc.set]
<1>1. Good(bc, "broadcast", bs \cup g.set)
  BY BothModulesType, RequestBcGood
<1>2. Another(g, s, bs) = IF g.end = "ok" /\ bc.end = "ok" THEN more ELSE Failed({})
  BY DEF Another, Both
<1> HIDE DEF bc
<1>3. CASE ~(g.end = "ok" /\ bc.end = "ok")
  BY <1>2, <1>3, FailedGood
<1>4. CASE g.end = "ok" /\ bc.end = "ok"
  <2>1. g \in Endings(type) /\ bc \in Endings("broadcast")
    BY <1>1 DEF Good
  <2>2. bc.rscs \in Seq(Resources) /\ g.bcs \in Seq(Resources)
    <3>1. ResourcesOf("broadcast") \subseteq Resources
      BY DEF ResourcesOf
    <3>2. bc.rscs \in Seq(ResourcesOf("broadcast")) /\ g.bcs \in Seq(Resources)
      BY <2>1 DEF Endings
    <3> QED
      BY <3>1, <3>2
  <2>3. /\ more.end = g.end /\ more.rscs = g.rscs
        /\ more.bcs = g.bcs \o bc.rscs /\ more.set = g.set \cup bc.set
    BY <2>1 DEF Endings
  <2>4. more \in Endings(type)
    <3>1. g.bcs \o bc.rscs \in Seq(Resources)
      BY <2>2
    <3>2. g.set \cup bc.set \subseteq Bits
      BY <2>1 DEF Endings
    <3> QED
      BY <2>1, <3>1, <3>2 DEF Endings
  <2>5. ASSUME Sound, NEW r \in Existing(more.rscs) \cup Existing(more.bcs)
        PROVE  ~Busy(r, bs) /\ RuntimeBit(r) \in more.set
    <3>1. CASE r \in Existing(g.rscs) \cup Existing(g.bcs)
      BY <1>4, <2>3, <2>5, <3>1 DEF Good
    <3>2. CASE r \in Existing(bc.rscs)
      <4>1. ~Busy(r, bs \cup g.set) /\ RuntimeBit(r) \in bc.set
        BY <1>1, <1>4, <2>5, <3>2 DEF Good
      <4> QED
        BY <2>3, <4>1 DEF Busy
    <3> QED
      BY <2>2, <2>3, <2>5, <3>1, <3>2, ExistingOfBoth
  <2>6. Good(more, type, bs)
    BY <2>4, <2>5 DEF Good
  <2> QED
    BY <1>2, <1>4, <2>6
<1> QED
  BY <1>3, <1>4

(* A request that also gets the channels for n events.                     *)
LEMMA WithChannelsGood ==
    ASSUME NEW type, NEW bs, NEW g, Good(g, type, bs), NEW n,
           NEW s \in Sites, n = 0 \/ Site[s].type = "aie"
    PROVE  Good(WithChannels(g, n, s, bs), type, bs)
<1>1. CASE n = 0
  BY <1>1 DEF WithChannels
<1>2. CASE n # 0
  <2> DEFINE one == Another(g, s, bs)
             two == Another(one, s, bs)
             three == Another(two, s, bs)
  <2>1. Good(one, type, bs)
    BY <1>2, AnotherGood
  <2> HIDE DEF one
  <2>2. Good(two, type, bs)
    BY <1>2, <2>1, AnotherGood
  <2> HIDE DEF two
  <2>3. Good(three, type, bs)
    BY <1>2, <2>2, AnotherGood
  <2>4. WithChannels(g, n, s, bs) \in {one, two, three}
    BY <1>2 DEF WithChannels, one, two
  <2> QED
    BY <2>1, <2>2, <2>3, <2>4
<1> QED
  BY <1>1, <1>2

(* Whichever request function the manager chooses.                         *)
LEMMA ManagerRequestGood ==
    ASSUME NEW class \in DOMAIN TypeOf, NEW rs \in Seq(ResourcesOf(TypeOf[class])),
           rs # <<>> \/ class = "broadcast",
           NEW preferred \in Nat \cup {ANY}, NEW bs
    PROVE  Good(ManagerRequest(class, rs, preferred, bs), TypeOf[class], bs)
<1> DEFINE g == ManagerRequest(class, rs, preferred, bs)
           path == IF rs = <<>> THEN Partition ELSE [i \in DOMAIN rs |-> rs[i].site]
<1>1. CASE class = "broadcast"
  <2>1. path \in Seq(Sites)
    <3>1. DOMAIN rs = 1 .. Len(rs) /\ Len(rs) \in Nat
      OBVIOUS
    <3>2. \A i \in 1 .. Len(rs) : rs[i].site \in Sites
      BY DEF ResourcesOf, Resources
    <3>3. [i \in DOMAIN rs |-> rs[i].site] \in Seq(Sites)
      BY <3>1, <3>2
    <3> QED
      BY <3>3, GeometryAssumption
  <2>2. g = RequestBc(path, preferred, bs) /\ TypeOf[class] = "broadcast"
    BY <1>1 DEF ManagerRequest, TypeOf
  <2> HIDE DEF path
  <2> QED
    BY <2>1, <2>2, RequestBcGood
<1>2. CASE class = "combo"
  <2>1. g = RequestContiguous(rs, bs) /\ TypeOf[class] = "combo"
    BY <1>2 DEF ManagerRequest, TypeOf
  <2> QED
    BY <1>2, <2>1, RequestContiguousGood
<1>3. CASE class \notin {"broadcast", "combo"}
  <2>1. \/ g = RequestAllocated(rs, bs)
        \/ g = Request(rs, bs)
        \/ g = RequestContiguous(rs, bs) /\ TypeOf[class] = "pc"
    BY <1>3 DEF ManagerRequest
  <2> QED
    BY <1>3, <2>1, RequestAllocatedGood, RequestGood, RequestContiguousGood
<1> QED
  BY <1>1, <1>2, <1>3

-----------------------------------------------------------------------------
(* What reserve() of an object ends with.                                  *)

(* The vRscs of the objects in use hold resources of their type.           *)
OwnType ==
    \A o \in DOMAIN Object : obj[o].rscs \in Seq(ResourcesOf(TypeOf[Object[o].class]))

(* The objects of the program and their arguments.                         *)
LEMMA Arguments ==
    ASSUME TypeOK, NEW o \in DOMAIN Object
    PROVE  /\ o \in Objects
           /\ Object[o].class \in DOMAIN TypeOf
           /\ TypeOf[Object[o].class] \in RscTypes
           /\ Object[o].site \in Sites
           /\ Object[o].size \in Nat \ {0}
           /\ Object[o].id \in Nat
           /\ Object[o].path \in Seq(Sites)
           /\ Object[o].class = "trace" =>
                 EventsFrom(Object[o], Object[o].site) = {} \/ Site[Object[o].site].type = "aie"
           /\ Object[o].ids \subseteq Nat \cup {ANY}
<1>1. program \in Programs
  BY DEF TypeOK
<1>2. Object[o].class \in DOMAIN TypeOf => TypeOf[Object[o].class] \in RscTypes
  BY DEF TypeOf, RscTypes
<1> QED
  BY <1>1, <1>2, ArgumentAssumption, ObjectAssumption DEF Object

(* What _reserve() puts into vRscs has the type of the object, and is not  *)
(* empty but for a broadcast.                                              *)
LEMMA RequestedType ==
    ASSUME TypeOK, OwnType, NEW o \in DOMAIN Object
    PROVE  /\ Requested(o) \in Seq(ResourcesOf(TypeOf[Object[o].class]))
           /\ Requested(o) # <<>> \/ Object[o].class = "broadcast"
<1> DEFINE c == Object[o]
           T == ResourcesOf(TypeOf[c.class])
           Copies(n, id) == [i \in 1 .. n |-> Rsc(c.site, TypeOf[c.class], id)]
           Whole == [i \in DOMAIN c.path |-> Rsc(c.path[i], "broadcast", ANY)]
<1>1. ASSUME NEW s \in Sites, NEW id \in Nat \cup {ANY}
      PROVE  Rsc(s, TypeOf[c.class], id) \in T
  BY Arguments DEF Rsc, ResourcesOf, Resources
<1>2. ASSUME NEW n \in Nat \ {0}, NEW id \in Nat \cup {ANY}
      PROVE  Copies(n, id) \in Seq(T) /\ Copies(n, id) # <<>>
  <2>1. Copies(n, id) \in [1 .. n -> T]
    BY <1>1, Arguments
  <2>2. Copies(n, id) \in Seq(T) /\ Len(Copies(n, id)) = n
    BY <2>1
  <2> QED
    BY <2>2
<1>3. c.class = "broadcast" => Whole \in Seq(T)
  <2>1. DOMAIN c.path = 1 .. Len(c.path) /\ Len(c.path) \in Nat /\ \A i \in DOMAIN c.path : c.path[i] \in Sites
    BY Arguments
  <2>2. c.class = "broadcast" => TypeOf[c.class] = "broadcast"
    BY DEF TypeOf
  <2>3. c.class = "broadcast" => \A i \in 1 .. Len(c.path) : Rsc(c.path[i], "broadcast", ANY) \in T
    BY <1>1, <2>1, <2>2
  <2> QED
    BY <2>1, <2>3
<1>4. obj[o].rscs \in Seq(T) /\ obj[o].preferred \in Nat \cup {ANY}
  BY Arguments DEF OwnType, TypeOK
<1>5. c.class \in {"pcevent", "pcrange", "userevent", "combo", "port", "group", "broadcast", "perf", "trace"}
  BY Arguments DEF TypeOf
<1>6. \/ \E n \in Nat \ {0}, id \in Nat \cup {ANY} : Requested(o) = obj[o].rscs \o Copies(n, id)
      \/ c.class = "broadcast" /\ Requested(o) = obj[o].rscs \o Whole
  <2> HIDE DEF Copies
  <2>0. ASSUME NEW n \in Nat \ {0}, NEW id \in Nat \cup {ANY}, Requested(o) = obj[o].rscs \o Copies(n, id)
        PROVE  \E x \in Nat \ {0}, y \in Nat \cup {ANY} : Requested(o) = obj[o].rscs \o Copies(x, y)
    BY <2>0, Zenon
  <2>1. CASE c.class \in {"pcevent", "userevent", "port", "perf"}
    <3>1. Requested(o) = obj[o].rscs \o Copies(1, obj[o].preferred)
      BY <2>1 DEF Requested, Copies
    <3>2. 1 \in Nat \ {0} /\ obj[o].preferred \in Nat \cup {ANY}
      BY <1>4
    <3> QED
      BY <2>0, <3>1, <3>2, Zenon
  <2>2. CASE c.class = "pcrange"
    <3>1. Requested(o) = obj[o].rscs \o Copies(2, obj[o].preferred)
      BY <2>2 DEF Requested, Copies
    <3>2. 2 \in Nat \ {0} /\ obj[o].preferred \in Nat \cup {ANY}
      BY <1>4
    <3> QED
      BY <2>0, <3>1, <3>2, Zenon
  <2>3. CASE c.class = "combo"
    <3>1. Requested(o) = obj[o].rscs \o Copies(c.size, 0)
      BY <2>3 DEF Requested, Copies
    <3> QED
      BY Arguments, <2>0, <3>1
  <2>4. CASE c.class = "group"
    <3>1. Requested(o) = obj[o].rscs \o Copies(1, c.id)
      BY <2>4 DEF Requested, Copies
    <3>2. 1 \in Nat \ {0} /\ c.id \in Nat \cup {ANY}
      BY Arguments
    <3> QED
      BY <2>0, <3>1, <3>2, Zenon
  <2>5. CASE c.class = "trace"
    <3>1. Requested(o) = obj[o].rscs \o Copies(1, 0)
      BY <2>5 DEF Requested, Copies
    <3>2. 1 \in Nat \ {0} /\ 0 \in Nat \cup {ANY}
      OBVIOUS
    <3> QED
      BY <2>0, <3>1, <3>2, Zenon
  <2>6. CASE c.class = "broadcast"
    BY <2>6 DEF Requested
  <2> QED
    BY <1>5, <2>1, <2>2, <2>3, <2>4, <2>5, <2>6
<1> HIDE DEF Copies, Whole, T
<1>7. CASE \E n \in Nat \ {0}, id \in Nat \cup {ANY} : Requested(o) = obj[o].rscs \o Copies(n, id)
  <2>1. PICK n \in Nat \ {0}, id \in Nat \cup {ANY} : Requested(o) = obj[o].rscs \o Copies(n, id)
    BY <1>7
  <2>2. Copies(n, id) \in Seq(T) /\ Copies(n, id) # <<>>
    BY <1>2
  <2> QED
    BY <1>4, <2>1, <2>2 DEF T
<1>8. CASE c.class = "broadcast" /\ Requested(o) = obj[o].rscs \o Whole
  BY <1>3, <1>4, <1>8 DEF T
<1> QED
  BY <1>6, <1>7, <1>8

(* A counter of the other module of the tile.                              *)
LEMMA MovedType ==
    ASSUME NEW s \in Sites, Site[s].type = "aie",
           NEW rs \in Seq(ResourcesOf("perf")), rs # <<>>
    PROVE  LET moved == [rs EXCEPT ![1].site = Sibling(s)]
           IN  moved \in Seq(ResourcesOf("perf")) /\ moved # <<>>
<1> DEFINE moved == [rs EXCEPT ![1].site = Sibling(s)]
<1>1. Sibling(s) \in Sites
  BY BothModulesType
<1>2. /\ 1 \in DOMAIN rs /\ DOMAIN rs = 1 .. Len(rs) /\ Len(rs) \in Nat
      /\ \A i \in DOMAIN rs : rs[i] \in Resources /\ rs[i].type = "perf"
  BY DEF ResourcesOf
<1>3. [rs[1] EXCEPT !.site = Sibling(s)] \in ResourcesOf("perf")
  BY <1>1, <1>2 DEF ResourcesOf, Resources
<1>4. moved = [i \in 1 .. Len(rs) |-> IF i = 1 THEN [rs[1] EXCEPT !.site = Sibling(s)] ELSE rs[i]]
  BY <1>2
<1>5. moved \in [1 .. Len(rs) -> ResourcesOf("perf")]
  BY <1>2, <1>3, <1>4 DEF ResourcesOf
<1>6. Len(rs) # 0
  BY <1>2
<1> HIDE DEF moved
<1>7. moved \in Seq(ResourcesOf("perf")) /\ Len(moved) = Len(rs)
  BY <1>2, <1>5
<1>8. moved \in Seq(ResourcesOf("perf")) /\ moved # <<>>
  BY <1>6, <1>7
<1> QED
  BY <1>8 DEF moved

(* A counter and the channels for its events.                              *)
LEMMA ReservePerfGood ==
    ASSUME NEW c, c.site \in Sites, NEW rs \in Seq(ResourcesOf("perf")), rs # <<>>,
           NEW preferred \in Nat \cup {ANY}, NEW bs
    PROVE  Good(ReservePerf(c, rs, preferred, bs), "perf", bs)
<1> DEFINE inAie == InAie(c)
           moved == [rs EXCEPT ![1].site = Sibling(c.site)]
           here == ManagerRequest("perf", rs, preferred, bs)
           there == ManagerRequest("perf", moved, preferred, bs)
           main == IF here.end = "error" /\ preferred = ANY /\ inAie /\ c.cross THEN there ELSE here
           all == WithChannels(main, NumEvents(c, main.rscs[1].site), c.site, bs)
<1>1. "perf" \in DOMAIN TypeOf /\ TypeOf["perf"] = "perf"
  BY DEF TypeOf
<1>2. Good(here, "perf", bs)
  BY <1>1, ManagerRequestGood
<1>3. inAie => Good(there, "perf", bs)
  <2>1. inAie => moved \in Seq(ResourcesOf("perf")) /\ moved # <<>>
    BY MovedType DEF InAie
  <2> HIDE DEF moved
  <2> QED
    BY <1>1, <2>1, ManagerRequestGood
<1> HIDE DEF here, there, moved
<1>4. Good(main, "perf", bs)
  BY <1>2, <1>3
<1>5. ReservePerf(c, rs, preferred, bs) = IF main.end = "ok" /\ inAie THEN all ELSE main
  BY DEF ReservePerf, PerfWithChannels, here, there, moved
<1> HIDE DEF main
<1>6. inAie => Good(all, "perf", bs)
  BY <1>4, WithChannelsGood DEF InAie
<1> HIDE DEF all
<1> QED
  BY <1>4, <1>5, <1>6

(* A trace control and the channels for its events.                        *)
LEMMA ReserveTraceGood ==
    ASSUME NEW c, c.site \in Sites, EventsFrom(c, c.site) = {} \/ Site[c.site].type = "aie",
           NEW rs \in Seq(ResourcesOf("trace")), rs # <<>>,
           NEW preferred \in Nat \cup {ANY}, NEW bs
    PROVE  Good(ReserveTrace(c, rs, preferred, bs), "trace", bs)
<1> DEFINE main == ManagerRequest("trace", rs, preferred, bs)
           all == WithChannels(main, NumEvents(c, c.site), c.site, bs)
<1>1. "trace" \in DOMAIN TypeOf /\ TypeOf["trace"] = "trace"
  BY DEF TypeOf
<1>2. Good(main, "trace", bs)
  BY <1>1, ManagerRequestGood
<1> HIDE DEF main
<1>3. NumEvents(c, c.site) = 0 \/ Site[c.site].type = "aie"
  BY FS_EmptySet DEF NumEvents
<1>4. Good(all, "trace", bs)
  BY <1>2, <1>3, WithChannelsGood
<1> HIDE DEF all
<1>5. Good(Failed(main.set), "trace", bs)
  <2>1. main.set \in SUBSET Bits
    BY <1>2 DEF Good, Endings
  <2> QED
    BY <2>1, FailedGood
<1>6. ReserveTrace(c, rs, preferred, bs) = IF main.end # "ok" THEN main
                                           ELSE IF all.end # "ok" THEN Failed(main.set) ELSE all
  BY DEF ReserveTrace, TraceWithChannels, main, all
<1> QED
  BY <1>2, <1>4, <1>5, <1>6

(* Whatever the class of the object.                                       *)
LEMMA ReservationGood ==
    ASSUME TypeOK, OwnType, NEW o \in DOMAIN Object
    PROVE  Good(Reservation(o), TypeOf[Object[o].class], bits)
<1> DEFINE c == Object[o]
           p == obj[o].preferred
<1>1. p \in Nat \cup {ANY}
  BY Arguments DEF TypeOK
<1>2. CASE c.class = "perf"
  <2>1. TypeOf[c.class] = "perf" /\ Reservation(o) = ReservePerf(c, Requested(o), p, bits)
    BY <1>2 DEF Reservation, TypeOf
  <2> QED
    BY <1>1, <1>2, <2>1, Arguments, RequestedType, ReservePerfGood
<1>3. CASE c.class = "trace"
  <2>1. TypeOf[c.class] = "trace" /\ Reservation(o) = ReserveTrace(c, Requested(o), p, bits)
    BY <1>3 DEF Reservation, TypeOf
  <2> QED
    BY <1>1, <1>3, <2>1, Arguments, RequestedType, ReserveTraceGood
<1>4. CASE c.class \notin {"perf", "trace"}
  <2>1. Reservation(o) = ManagerRequest(c.class, Requested(o), p, bits)
    BY <1>4 DEF Reservation
  <2> QED
    BY <1>1, <2>1, Arguments, RequestedType, ManagerRequestGood
<1> QED
  BY <1>2, <1>3, <1>4

-----------------------------------------------------------------------------
(* Steps of the pool.                                                      *)

Exclusive == NoTwoOwners /\ HeldMarked

PoolStep == [Pool!Next]_(Pool!vars)

(* What owners have are units.                                             *)
LEMMA HeldAreUnits ==
    ASSUME TypeOK, NEW x \in Owners
    PROVE  HeldBy(x) \subseteq Units
BY DEF HeldBy, Held, Existing, TypeOK

(* One owner gets units that were not taken, others leave the offer.       *)
LEMMA Taking ==
    ASSUME NEW x \in Owners,
           \A y \in Owners \ {x} : HeldBy(y)' = HeldBy(y),
           HeldBy(x) \subseteq HeldBy(x)',
           bits \subseteq bits',
           \A u \in HeldBy(x)' \ HeldBy(x) :
              u \in Units /\ ~Busy(u, bits) /\ RuntimeBit(u) \in bits'
    PROVE  PoolStep /\ (Exclusive => Exclusive')
<1> DEFINE owned == [y \in Owners |-> HeldBy(y)]
           closed == {u \in Units : Busy(u, bits)}
<1>1. closed \subseteq closed'
  BY DEF Busy
<1>2. (owned'[x] \ owned[x]) \cap closed = {} /\ owned'[x] \ owned[x] \subseteq closed'
  BY DEF Busy
<1>3. owned' = [owned EXCEPT ![x] = owned'[x]] /\ owned[x] \subseteq owned'[x]
  OBVIOUS
<1>4. closed' \subseteq Units
  OBVIOUS
<1>5. Pool!Take(x)
  <2> HIDE DEF owned, closed
  <2>1. /\ owned' = [owned EXCEPT ![x] = owned'[x]]
        /\ owned[x] \subseteq owned'[x]
        /\ (owned'[x] \ owned[x]) \cap closed = {}
        /\ closed \cup (owned'[x] \ owned[x]) \subseteq closed'
        /\ closed' \subseteq Units
    BY <1>1, <1>2, <1>3, <1>4
  <2> QED
    BY <2>1 DEF Pool!Take, owned, closed
<1>6. PoolStep
  BY <1>5 DEF PoolStep, Pool!Next
<1>7. ASSUME Exclusive
      PROVE  Exclusive'
  <2>1. \A y \in Owners : \A u \in HeldBy(y) : RuntimeBit(u) \in bits
    BY <1>7 DEF Exclusive, HeldMarked
  <2>2. HeldMarked'
    <3>1. ASSUME NEW y \in Owners, NEW u \in HeldBy(y)'
          PROVE  RuntimeBit(u) \in bits'
      BY <2>1, <3>1
    <3> QED
      BY <3>1 DEF HeldMarked
  <2>3. \A y \in Owners \ {x} : HeldBy(x)' \cap HeldBy(y)' = {}
    <3>1. \A y \in Owners \ {x} : HeldBy(x) \cap HeldBy(y) = {}
      BY <1>7 DEF Exclusive, NoTwoOwners
    <3>2. \A y \in Owners : \A u \in HeldBy(y) : u \notin HeldBy(x)' \ HeldBy(x)
      BY <2>1 DEF Busy
    <3> QED
      BY <3>1, <3>2
  <2>4. \A y, z \in Owners \ {x} : y # z => HeldBy(y)' \cap HeldBy(z)' = {}
    BY <1>7 DEF Exclusive, NoTwoOwners
  <2>5. NoTwoOwners'
    <3>1. ASSUME NEW y \in Owners, NEW z \in Owners, y # z
          PROVE  HeldBy(y)' \cap HeldBy(z)' = {}
      BY <2>3, <2>4, <3>1
    <3> QED
      BY <3>1 DEF NoTwoOwners
  <2> QED
    BY <2>2, <2>5 DEF Exclusive
<1> QED
  BY <1>6, <1>7

(* One owner gives up what it has, and only bits of that are cleared.      *)
LEMMA Giving ==
    ASSUME TypeOK, Exclusive, NEW x \in Owners,
           \A y \in Owners \ {x} : HeldBy(y)' = HeldBy(y),
           HeldBy(x)' = {},
           bits' \subseteq bits,
           \A b \in bits \ bits' :
              \E u \in HeldBy(x) : b \in {RuntimeBit(u), StaticBit(u)}
    PROVE  PoolStep /\ Exclusive'
<1> DEFINE owned == [y \in Owners |-> HeldBy(y)]
           closed == {u \in Units : Busy(u, bits)}
<1>1. closed' \subseteq closed
  BY DEF Busy
<1>2. ASSUME NEW v \in Units, NEW b \in bits \ bits', b \in {RuntimeBit(v), StaticBit(v)}
      PROVE  v \in HeldBy(x)
  <2>1. PICK u \in HeldBy(x) : b \in {RuntimeBit(u), StaticBit(u)}
    BY <1>2
  <2>2. u \in Units
    BY <2>1, HeldAreUnits
  <2> QED
    BY <1>2, <2>1, <2>2, BitsDistinct
<1>3. closed \ closed' \subseteq owned[x]
  BY <1>2 DEF Busy
<1>4. owned' = [owned EXCEPT ![x] = {}]
  OBVIOUS
<1>5. Pool!Give(x)
  <2> HIDE DEF owned, closed
  <2>1. /\ owned' = [owned EXCEPT ![x] = {}]
        /\ closed' \subseteq closed
        /\ closed \ closed' \subseteq owned[x]
    BY <1>1, <1>3, <1>4
  <2> QED
    BY <2>1 DEF Pool!Give, owned, closed
<1>6. PoolStep
  BY <1>5 DEF PoolStep, Pool!Next
<1>7. HeldMarked'
  <2>1. ASSUME NEW y \in Owners, NEW v \in HeldBy(y)'
        PROVE  RuntimeBit(v) \in bits'
    <3>1. y # x /\ v \in HeldBy(y) /\ v \in Units
      BY <2>1, HeldAreUnits
    <3>2. v \notin HeldBy(x) /\ RuntimeBit(v) \in bits
      BY <3>1 DEF Exclusive, NoTwoOwners, HeldMarked
    <3> QED
      BY <1>2, <3>1, <3>2
  <2> QED
    BY <2>1 DEF HeldMarked
<1>8. NoTwoOwners'
  <2>1. \A y \in Owners : HeldBy(y)' \subseteq HeldBy(y)
    OBVIOUS
  <2>2. ASSUME NEW y \in Owners, NEW z \in Owners, y # z
        PROVE  HeldBy(y)' \cap HeldBy(z)' = {}
    BY <2>1, <2>2 DEF Exclusive, NoTwoOwners
  <2> QED
    BY <2>2 DEF NoTwoOwners
<1> QED
  BY <1>6, <1>7, <1>8 DEF Exclusive

(* Nothing is taken or given.                                              *)
LEMMA Keeping ==
    ASSUME \A y \in Owners : HeldBy(y)' = HeldBy(y), bits' = bits
    PROVE  PoolStep /\ (Exclusive => Exclusive')
<1>1. [y \in Owners |-> HeldBy(y)]' = [y \in Owners |-> HeldBy(y)]
  OBVIOUS
<1>2. {u \in Units : Busy(u, bits)}' = {u \in Units : Busy(u, bits)}
  BY DEF Busy
<1>3. PoolStep
  BY <1>1, <1>2 DEF PoolStep, Pool!vars
<1>4. Exclusive => Exclusive'
  BY DEF Exclusive, NoTwoOwners, HeldMarked
<1> QED
  BY <1>3, <1>4

-----------------------------------------------------------------------------
(* The invariant and its preservation by the operations of an object.      *)

(* Two owners cannot be told apart in the bitmaps alone, and what a failed *)
(* request leaves in vRscs is asked for again: the invariant says of what  *)
(* types vRscs is, that owners are disjoint, and that their bits are set.  *)
IInv == TypeOK /\ OwnType /\ (Sound => Exclusive)

State == [preferred : Nat \cup {ANY}, reserved : BOOLEAN, prereserved : BOOLEAN,
          running : BOOLEAN, rscs : Seq(Resources), bcs : Seq(Resources), live : Nat]

(* A step of one object leaves the others what they have.                  *)
LEMMA ObjectChange ==
    ASSUME TypeOK, OwnType, NEW o \in DOMAIN Object,
           NEW s \in State, s.rscs \in Seq(ResourcesOf(TypeOf[Object[o].class])),
           obj' = [obj EXCEPT ![o] = s], bits' \subseteq Bits,
           UNCHANGED <<kept, file, program>>
    PROVE  /\ TypeOK' /\ OwnType'
           /\ o \in Owners
           /\ \A y \in Owners \ {o} : HeldBy(y)' = HeldBy(y)
           /\ HeldBy(o) = Held(o)
           /\ HeldBy(o)' = IF s.reserved THEN Existing(s.rscs) \cup Existing(s.bcs) ELSE {}
<1>1. o \in Objects /\ Manager \notin Objects
  BY Arguments, ObjectAssumption
<1>2. obj \in [Objects -> State]
  BY DEF TypeOK, State
<1>3. obj' \in [Objects -> State] /\ obj'[o] = s /\ \A p \in Objects \ {o} : obj'[p] = obj[p]
  BY <1>1, <1>2
<1>4. TypeOK'
  BY <1>3 DEF TypeOK, State
<1>5. OwnType'
  <2>1. Object' = Object
    BY DEF Object
  <2>2. ASSUME NEW p \in DOMAIN Object
        PROVE  obj'[p].rscs \in Seq(ResourcesOf(TypeOf[Object[p].class]))
    <3>1. p \in Objects
      BY Arguments
    <3> QED
      BY <1>3, <3>1 DEF OwnType
  <2>3. \A p \in DOMAIN Object' : obj'[p].rscs \in Seq(ResourcesOf(TypeOf[Object'[p].class]))
    BY <2>1, <2>2
  <2> QED
    BY <2>3 DEF OwnType
<1>6. \A y \in Owners \ {o} : HeldBy(y)' = HeldBy(y)
  BY <1>3 DEF Owners, HeldBy, Held, Existing
<1>7. HeldBy(o) = Held(o) /\ HeldBy(o)' = IF s.reserved THEN Existing(s.rscs) \cup Existing(s.bcs) ELSE {}
  BY <1>1, <1>3 DEF HeldBy, Held
<1> QED
  BY <1>1, <1>4, <1>5, <1>6, <1>7 DEF Owners

(* A step in which the object keeps what it has, and the bits stay.        *)
LEMMA QuietChange ==
    ASSUME IInv, NEW o \in DOMAIN Object,
           NEW s \in State, s.rscs = obj[o].rscs, s.bcs = obj[o].bcs, s.reserved = obj[o].reserved,
           obj' = [obj EXCEPT ![o] = s], UNCHANGED <<bits, kept, file, program>>
    PROVE  IInv' /\ PoolStep
<1>1. s.rscs \in Seq(ResourcesOf(TypeOf[Object[o].class])) /\ bits' \subseteq Bits
  BY DEF IInv, OwnType, TypeOK
<1>2. /\ TypeOK' /\ OwnType'
      /\ \A y \in Owners \ {o} : HeldBy(y)' = HeldBy(y)
      /\ HeldBy(o)' = HeldBy(o)
  BY <1>1, ObjectChange DEF IInv, Held
<1>3. PoolStep /\ (Exclusive => Exclusive')
  BY <1>2, Keeping
<1>4. Sound' <=> Sound
  BY DEF Sound, UniformBroadcast, InOneWord
<1> QED
  BY <1>2, <1>3, <1>4 DEF IInv

(* The state of an object in use.                                          *)
LEMMA StateOf ==
    ASSUME TypeOK, NEW o \in DOMAIN Object
    PROVE  o \in Objects /\ obj[o] \in State /\ obj \in [Objects -> State]
BY Arguments DEF TypeOK, State

(* setPreferredId() leaves resources alone.                                *)
LEMMA StepSetPreferredId ==
    ASSUME IInv, NEW o \in DOMAIN Object, NEW id \in Object[o].ids, NEW static \in BOOLEAN,
           SetPreferredId(o, id, static)
    PROVE  IInv' /\ PoolStep
<1> DEFINE s == [obj[o] EXCEPT !.preferred = id, !.prereserved = @ \/ (static /\ id # ANY)]
<1>1. o \in Objects /\ obj[o] \in State /\ obj \in [Objects -> State] /\ id \in Nat \cup {ANY}
  BY StateOf, Arguments DEF IInv
<1>2. s \in State /\ s.rscs = obj[o].rscs /\ s.bcs = obj[o].bcs /\ s.reserved = obj[o].reserved
  BY <1>1 DEF State
<1>3. obj' = [obj EXCEPT ![o] = s] /\ UNCHANGED <<bits, kept, file, program>>
  BY <1>1 DEF SetPreferredId, State
<1> HIDE DEF s
<1> QED
  BY <1>2, <1>3, QuietChange

(* start() leaves resources alone.                                         *)
LEMMA StepStart ==
    ASSUME IInv, NEW o \in DOMAIN Object, Start(o)
    PROVE  IInv' /\ PoolStep
<1> DEFINE s == [obj[o] EXCEPT !.running = TRUE, !.live = Len(obj[o].bcs)]
<1>1. o \in Objects /\ obj[o] \in State /\ obj \in [Objects -> State]
  BY StateOf DEF IInv
<1>2. s \in State /\ s.rscs = obj[o].rscs /\ s.bcs = obj[o].bcs /\ s.reserved = obj[o].reserved
  <2>1. Len(obj[o].bcs) \in Nat
    BY <1>1 DEF State
  <2> QED
    BY <1>1, <2>1 DEF State
<1>3. obj' = [obj EXCEPT ![o] = s] /\ UNCHANGED <<bits, kept, file, program>>
  BY <1>1 DEF Start, State
<1> HIDE DEF s
<1> QED
  BY <1>2, <1>3, QuietChange

(* So does a start() that fails,                                           *)
LEMMA StepStartFails ==
    ASSUME IInv, NEW o \in DOMAIN Object, NEW n \in 1 .. Len(obj[o].bcs), StartFails(o, n)
    PROVE  IInv' /\ PoolStep
<1> DEFINE s == [obj[o] EXCEPT !.live = n]
<1>1. o \in Objects /\ obj[o] \in State /\ obj \in [Objects -> State]
  BY StateOf DEF IInv
<1>2. s \in State /\ s.rscs = obj[o].rscs /\ s.bcs = obj[o].bcs /\ s.reserved = obj[o].reserved
  <2>1. n \in Nat
    BY <1>1 DEF State
  <2> QED
    BY <1>1, <2>1 DEF State
<1>3. obj' = [obj EXCEPT ![o] = s] /\ UNCHANGED <<bits, kept, file, program>>
  BY <1>1 DEF StartFails, State
<1> HIDE DEF s
<1> QED
  BY <1>2, <1>3, QuietChange

(* and stop().                                                             *)
LEMMA StepStop ==
    ASSUME IInv, NEW o \in DOMAIN Object, Stop(o)
    PROVE  IInv' /\ PoolStep
<1> DEFINE s == [obj[o] EXCEPT !.running = FALSE, !.live = 0]
<1>1. o \in Objects /\ obj[o] \in State /\ obj \in [Objects -> State]
  BY StateOf DEF IInv
<1>2. s \in State /\ s.rscs = obj[o].rscs /\ s.bcs = obj[o].bcs /\ s.reserved = obj[o].reserved
  BY <1>1 DEF State
<1>3. obj' = [obj EXCEPT ![o] = s] /\ UNCHANGED <<bits, kept, file, program>>
  BY <1>1 DEF Stop, State
<1> HIDE DEF s
<1> QED
  BY <1>2, <1>3, QuietChange

(* A step in which the object ends up with nothing.                        *)
LEMMA LastChange ==
    ASSUME IInv, NEW o \in DOMAIN Object,
           NEW s \in State, ~s.reserved, s.rscs \in Seq(ResourcesOf(TypeOf[Object[o].class])),
           obj' = [obj EXCEPT ![o] = s], UNCHANGED <<kept, file, program>>,
           bits' \subseteq bits,
           \A b \in bits \ bits' : \E u \in Held(o) : b \in {RuntimeBit(u), StaticBit(u)}
    PROVE  IInv' /\ (Sound => PoolStep)
<1>1. bits' \subseteq Bits
  BY DEF IInv, TypeOK
<1>2. /\ TypeOK' /\ OwnType'
      /\ o \in Owners
      /\ \A y \in Owners \ {o} : HeldBy(y)' = HeldBy(y)
      /\ HeldBy(o) = Held(o)
      /\ HeldBy(o)' = {}
  BY <1>1, ObjectChange DEF IInv
<1>3. Sound => PoolStep /\ Exclusive'
  BY <1>2, Giving DEF IInv
<1>4. Sound' <=> Sound
  BY DEF Sound, UniformBroadcast, InOneWord
<1> QED
  BY <1>2, <1>3, <1>4 DEF IInv

(* A new object has nothing.                                               *)
LEMMA FreshState ==
    ASSUME NEW T
    PROVE  Fresh \in State /\ ~Fresh.reserved /\ Fresh.rscs \in Seq(T)
BY DEF Fresh, State

(* A destroyed object has nothing; its bits stay set.                      *)
LEMMA StepDestroy ==
    ASSUME IInv, NEW o \in DOMAIN Object, Destroy(o)
    PROVE  IInv' /\ (Sound => PoolStep)
<1>1. Fresh \in State /\ ~Fresh.reserved /\ Fresh.rscs \in Seq(ResourcesOf(TypeOf[Object[o].class]))
  BY FreshState
<1>2. obj' = [obj EXCEPT ![o] = Fresh] /\ UNCHANGED <<bits, kept, file, program>>
  BY DEF Destroy
<1> QED
  BY <1>1, <1>2, LastChange

(* free(): the object has nothing, its bits stay set.                      *)
LEMMA StepFree ==
    ASSUME IInv, NEW o \in DOMAIN Object, Free(o)
    PROVE  IInv' /\ (Sound => PoolStep)
<1> DEFINE s == [obj[o] EXCEPT !.reserved = FALSE]
<1>1. o \in Objects /\ obj[o] \in State /\ obj \in [Objects -> State]
  BY StateOf DEF IInv
<1>2. s \in State /\ s.rscs = obj[o].rscs /\ ~s.reserved
  BY <1>1 DEF State
<1>3. s.rscs \in Seq(ResourcesOf(TypeOf[Object[o].class]))
  BY <1>2 DEF IInv, OwnType
<1>4. obj' = [obj EXCEPT ![o] = s] /\ UNCHANGED <<bits, kept, file, program>>
  BY <1>1 DEF Free, State
<1> HIDE DEF s
<1> QED
  BY <1>2, <1>3, <1>4, LastChange

(* What release() does to the object, and to what the others have.         *)
LEMMA ReleaseChange ==
    ASSUME IInv, NEW o \in DOMAIN Object, Release(o)
    PROVE  LET s == [Fresh EXCEPT !.preferred = obj[o].preferred]
           IN  /\ s \in State /\ ~s.reserved /\ s.rscs \in Seq(ResourcesOf(TypeOf[Object[o].class]))
               /\ obj' = [obj EXCEPT ![o] = s] /\ UNCHANGED <<kept, file, program>>
               /\ \A y \in Owners \ {o} : HeldBy(y)' = HeldBy(y)
               /\ o \in Owners /\ HeldBy(o) = Held(o)
<1> DEFINE s == [Fresh EXCEPT !.preferred = obj[o].preferred]
<1>1. o \in Objects /\ obj[o] \in State /\ obj \in [Objects -> State]
  BY StateOf DEF IInv
<1>2. s \in State /\ ~s.reserved /\ s.rscs \in Seq(ResourcesOf(TypeOf[Object[o].class]))
  <2>1. Fresh \in State /\ ~Fresh.reserved /\ Fresh.rscs \in Seq(ResourcesOf(TypeOf[Object[o].class]))
    BY FreshState
  <2>2. obj[o].preferred \in Nat \cup {ANY}
    BY <1>1 DEF State
  <2> QED
    BY <2>1, <2>2 DEF State
<1>3. obj' = [obj EXCEPT ![o] = s] /\ UNCHANGED <<kept, file, program>>
  BY DEF Release
<1>4. bits' \subseteq Bits
  BY DEF Release, IInv, TypeOK
<1> HIDE DEF s
<1>5. /\ \A y \in Owners \ {o} : HeldBy(y)' = HeldBy(y)
      /\ o \in Owners /\ HeldBy(o) = Held(o)
  BY <1>2, <1>3, <1>4, ObjectChange DEF IInv
<1> QED
  BY <1>2, <1>3, <1>5 DEF s

(* What release() gives back is part of what the object has.               *)
LEMMA StepRelease ==
    ASSUME IInv, NEW o \in DOMAIN Object, Release(o)
    PROVE  IInv' /\ (Sound => PoolStep)
<1> DEFINE s == [Fresh EXCEPT !.preferred = obj[o].preferred]
<1>1. obj[o] \in State
  BY StateOf DEF IInv
<1>2. s \in State /\ ~s.reserved /\ s.rscs \in Seq(ResourcesOf(TypeOf[Object[o].class]))
  BY ReleaseChange
<1>3. obj' = [obj EXCEPT ![o] = s] /\ UNCHANGED <<kept, file, program>>
  BY ReleaseChange
<1>4. Returned(o) \subseteq Held(o)
  <2>1. obj[o].live \in Nat /\ obj[o].bcs \in Seq(Resources)
    BY <1>1 DEF State
  <2>2. \A i \in obj[o].live + 1 .. Len(obj[o].bcs) : i \in DOMAIN obj[o].bcs
    BY <2>1
  <2> QED
    BY <2>2 DEF Release, Returned, Held, Existing
<1>5. bits' \subseteq bits
  BY DEF Release
<1>6. \A b \in bits \ bits' : \E u \in Held(o) : b \in {RuntimeBit(u), StaticBit(u)}
  BY <1>4 DEF Release
<1> HIDE DEF s
<1> QED
  BY <1>2, <1>3, <1>5, <1>6, LastChange

(* What reserve() of an object changes.                                    *)
LEMMA ReserveChange ==
    ASSUME IInv, NEW o \in DOMAIN Object, Reserve(o)
    PROVE  LET g == Reservation(o)
           IN  /\ TypeOK' /\ OwnType'
               /\ o \in Owners
               /\ \A y \in Owners \ {o} : HeldBy(y)' = HeldBy(y)
               /\ HeldBy(o) = {}
               /\ HeldBy(o)' = IF g.end = "ok" THEN Existing(g.rscs) \cup Existing(g.bcs) ELSE {}
               /\ bits' = bits \cup g.set
               /\ g.end = "ok" => obj'[o].reserved /\ obj'[o].rscs = g.rscs
<1> DEFINE g == Reservation(o)
           T == ResourcesOf(TypeOf[Object[o].class])
           rscs == CASE g.end = "ok" -> g.rscs
                     [] g.end = "error" /\ Object[o].class # "pcevent" -> <<>>
                     [] OTHER -> Requested(o)
           bcs == IF g.end = "ok" THEN g.bcs ELSE <<>>
           s == [obj[o] EXCEPT !.reserved = g.end = "ok", !.rscs = rscs, !.bcs = bcs, !.live = 0]
<1>1. o \in Objects /\ obj[o] \in State /\ obj \in [Objects -> State]
  BY StateOf DEF IInv
<1>2. Good(g, TypeOf[Object[o].class], bits)
  BY ReservationGood DEF IInv
<1>3. Requested(o) \in Seq(T)
  BY RequestedType DEF IInv
<1>4. /\ ~obj[o].reserved
      /\ bits' = bits \cup g.set
      /\ UNCHANGED <<kept, file, program>>
  BY DEF Reserve, EndReserve
<1>5. obj' = [obj EXCEPT ![o] = s]
  <2>1. obj' = [obj EXCEPT ![o].reserved = g.end = "ok", ![o].rscs = rscs, ![o].bcs = bcs, ![o].live = 0]
    BY DEF Reserve, EndReserve
  <2> HIDE DEF g, rscs, bcs
  <2> QED
    BY <1>1, <2>1 DEF State
<1> HIDE DEF g, T
<1>6. rscs \in Seq(T) /\ bcs \in Seq(Resources)
  <2>1. g.rscs \in Seq(T) /\ g.bcs \in Seq(Resources)
    BY <1>2 DEF Good, Endings, T
  <2>2. <<>> \in Seq(T) /\ <<>> \in Seq(Resources)
    OBVIOUS
  <2> QED
    BY <1>3, <2>1, <2>2
<1>7. rscs \in Seq(Resources)
  BY <1>6 DEF T, ResourcesOf
<1>8. /\ s \in State
      /\ s.rscs = rscs /\ s.bcs = bcs /\ (s.reserved <=> g.end = "ok")
  <2> HIDE DEF rscs, bcs
  <2> QED
    BY <1>1, <1>6, <1>7 DEF State
<1>9. bits' \subseteq Bits
  BY <1>2, <1>4 DEF Good, Endings, IInv, TypeOK
<1>10. /\ TypeOK' /\ OwnType'
       /\ o \in Owners
       /\ \A y \in Owners \ {o} : HeldBy(y)' = HeldBy(y)
       /\ HeldBy(o) = {}
       /\ HeldBy(o)' = IF g.end = "ok" THEN Existing(g.rscs) \cup Existing(g.bcs) ELSE {}
  <2>1. /\ TypeOK' /\ OwnType'
        /\ o \in Owners
        /\ \A y \in Owners \ {o} : HeldBy(y)' = HeldBy(y)
        /\ HeldBy(o) = Held(o)
        /\ HeldBy(o)' = IF s.reserved THEN Existing(s.rscs) \cup Existing(s.bcs) ELSE {}
    <3>1. s.rscs \in Seq(ResourcesOf(TypeOf[Object[o].class]))
      BY <1>6, <1>8 DEF T
    <3>2. TypeOK /\ OwnType
      BY DEF IInv
    <3> HIDE DEF s
    <3> QED
      BY <1>4, <1>5, <1>8, <1>9, <3>1, <3>2, ObjectChange
  <2> HIDE DEF s
  <2>2. g.end = "ok" => s.rscs = g.rscs /\ s.bcs = g.bcs
    BY <1>8
  <2>3. HeldBy(o) = {}
    BY <1>4, <2>1 DEF Held
  <2> HIDE DEF rscs, bcs
  <2> QED
    BY <1>8, <2>1, <2>2, <2>3
<1>11. g.end = "ok" => obj'[o].reserved /\ obj'[o].rscs = g.rscs
  <2>1. obj'[o] = s
    BY <1>1, <1>5
  <2> HIDE DEF s
  <2> QED
    BY <1>8, <2>1
<1> QED
  BY <1>4, <1>10, <1>11 DEF g

(* reserve() of an object: what it is granted was not taken (ReservationGood). *)
LEMMA StepReserve ==
    ASSUME IInv, NEW o \in DOMAIN Object, Reserve(o)
    PROVE  IInv' /\ (Sound => PoolStep)
<1> DEFINE g == Reservation(o)
<1>1. Good(g, TypeOf[Object[o].class], bits)
  BY ReservationGood DEF IInv
<1>2. /\ TypeOK' /\ OwnType'
      /\ o \in Owners
      /\ \A y \in Owners \ {o} : HeldBy(y)' = HeldBy(y)
      /\ HeldBy(o) = {}
      /\ HeldBy(o)' = IF g.end = "ok" THEN Existing(g.rscs) \cup Existing(g.bcs) ELSE {}
      /\ bits' = bits \cup g.set
  BY ReserveChange
<1> HIDE DEF g
<1>3. Sound => \A u \in HeldBy(o)' : u \in Units /\ ~Busy(u, bits) /\ RuntimeBit(u) \in bits'
  <2>1. \A u \in HeldBy(o)' : u \in Units
    BY <1>2 DEF Existing
  <2>2. Sound => \A u \in HeldBy(o)' : ~Busy(u, bits) /\ RuntimeBit(u) \in g.set
    BY <1>1, <1>2 DEF Good
  <2> QED
    BY <1>2, <2>1, <2>2
<1>4. Sound => PoolStep /\ (Exclusive => Exclusive')
  BY <1>2, <1>3, Taking
<1>5. Sound' <=> Sound
  BY DEF Sound, UniformBroadcast, InOneWord
<1> QED
  BY <1>2, <1>4, <1>5 DEF IInv

-----------------------------------------------------------------------------
(* The operations of the manager.                                          *)

(* A step of the manager leaves the objects what they have.                *)
LEMMA ManagerChange ==
    ASSUME IInv, UNCHANGED <<obj, file, program>>,
           bits \subseteq bits', bits' \subseteq Bits, kept \subseteq kept', kept' \subseteq Units,
           Sound => \A u \in kept' \ kept : ~Busy(u, bits) /\ RuntimeBit(u) \in bits'
    PROVE  IInv' /\ (Sound => PoolStep)
<1>1. TypeOK'
  BY DEF IInv, TypeOK
<1>2. OwnType'
  BY DEF IInv, OwnType, Object
<1>3. Manager \in Owners /\ HeldBy(Manager) = kept /\ HeldBy(Manager)' = kept'
  BY DEF Owners, HeldBy
<1>4. \A y \in Owners \ {Manager} : HeldBy(y)' = HeldBy(y)
  BY DEF HeldBy, Held
<1>5. Sound => PoolStep /\ (Exclusive => Exclusive')
  BY <1>3, <1>4, Taking
<1>6. Sound' <=> Sound
  BY DEF Sound, UniformBroadcast, InOneWord
<1> QED
  BY <1>1, <1>2, <1>5, <1>6 DEF IInv

(* The channels of the shim tiles asked for by reserveErrorHandling().     *)
LEMMA ShimIdsType == ShimIds \in Seq(ResourcesOf("broadcast"))
<1> DEFINE n == Len(ShimSites)
           m == (MaxErrorBcs - 1) * n
           At(i) == Rsc(ShimSites[((i - 1) % n) + 1], "broadcast", (i - 1) \div n + 1)
<1>1. n \in Nat /\ MaxErrorBcs - 1 \in Nat /\ \A k \in 1 .. n : ShimSites[k] \in Sites
  BY GeometryAssumption, ObjectAssumption
<1>2. m \in Nat
  <2> HIDE DEF n
  <2> QED
    BY <1>1, Products
<1>3. ASSUME NEW i \in 1 .. m
      PROVE  At(i) \in ResourcesOf("broadcast")
  <2>1. n # 0
    <3> SUFFICES ASSUME n = 0 PROVE FALSE
      OBVIOUS
    <3>1. m = 0
      BY <1>1
    <3> QED
      BY <1>3, <3>1
  <2>2. n \in Nat \ {0} /\ i - 1 \in Nat
    BY <1>1, <1>2, <1>3, <2>1
  <2> DEFINE x == i - 1
  <2> HIDE DEF n, m
  <2>3. x % n \in 0 .. n - 1 /\ x \div n \in Nat
    <3>1. x \in Nat
      BY <2>2
    <3> HIDE DEF x
    <3> QED
      BY <2>2, <3>1, DivMod
  <2>4. ShimSites[(x % n) + 1] \in Sites
    BY <1>1, <2>2, <2>3
  <2>5. x \div n + 1 \in Nat
    BY <2>3
  <2> HIDE DEF x
  <2>6. Rsc(ShimSites[(x % n) + 1], "broadcast", x \div n + 1) \in ResourcesOf("broadcast")
    BY <2>4, <2>5 DEF Rsc, ResourcesOf, Resources, RscTypes
  <2> QED
    BY <2>6 DEF x
<1>4. ShimIds = [i \in 1 .. m |-> At(i)]
  BY DEF ShimIds
<1> HIDE DEF At, m
<1> QED
  BY <1>2, <1>3, <1>4

(* reserveErrorHandling() keeps only units that were free.                 *)
LEMMA StepErrorHandling ==
    ASSUME IInv, ReserveErrorHandling
    PROVE  IInv' /\ (Sound => PoolStep)
<1> DEFINE bc == RequestBc(Partition, ErrorBcast, bits)
           shim == RequestAllocated(ShimIds, bits \cup bc.set)
<1>1. Good(bc, "broadcast", bits)
  BY GeometryAssumption, ObjectAssumption, RequestBcGood
<1>2. Good(shim, "broadcast", bits \cup bc.set)
  BY ShimIdsType, RequestAllocatedGood
<1>3. shim.end = "ok" => shim.rscs = ShimIds
  BY DEF RequestAllocated, Granted, Failed
<1>4. /\ bc.end = "ok"
      /\ bits' = bits \cup bc.set \cup shim.set
      /\ kept' = IF shim.end = "ok" THEN kept \cup Existing(bc.rscs) \cup Existing(ShimIds) ELSE kept
      /\ UNCHANGED <<obj, file, program>>
  BY DEF ReserveErrorHandling
<1> HIDE DEF bc, shim
<1>5. bits \subseteq bits' /\ bits' \subseteq Bits
  BY <1>1, <1>2, <1>4 DEF Good, Endings, IInv, TypeOK
<1>6. kept \subseteq kept' /\ kept' \subseteq Units
  BY <1>4 DEF Existing, IInv, TypeOK
<1>7. Sound => \A u \in kept' \ kept : ~Busy(u, bits) /\ RuntimeBit(u) \in bits'
  <2>1. Sound => \A u \in Existing(bc.rscs) : ~Busy(u, bits) /\ RuntimeBit(u) \in bits'
    BY <1>1, <1>4 DEF Good
  <2>2. Sound /\ shim.end = "ok" =>
          \A u \in Existing(ShimIds) : ~Busy(u, bits \cup bc.set) /\ RuntimeBit(u) \in bits'
    BY <1>2, <1>3, <1>4 DEF Good
  <2> QED
    BY <1>4, <2>1, <2>2 DEF Busy
<1> QED
  BY <1>4, <1>5, <1>6, <1>7, ManagerChange

(* reserveEcc() keeps only units that were free.                           *)
LEMMA StepEcc ==
    ASSUME IInv, ReserveEcc
    PROVE  IInv' /\ (Sound => PoolStep)
<1> DEFINE bc == RequestBc(Partition, EccBcast, bits)
<1>1. Good(bc, "broadcast", bits)
  BY GeometryAssumption, ObjectAssumption, RequestBcGood
<1>2. /\ bc.end = "ok"
      /\ \A r \in EccPerfs : ~Busy(r, bits)
      /\ bits' = bits \cup bc.set \cup {RuntimeBit(r) : r \in EccPerfs}
      /\ kept' = kept \cup Existing(bc.rscs) \cup (EccPerfs \cap Units)
      /\ UNCHANGED <<obj, file, program>>
  BY DEF ReserveEcc
<1> HIDE DEF bc
<1>3. \A r \in EccPerfs : RuntimeBit(r) \in Bits
  <2>1. \A r \in EccPerfs : r \in Resources /\ r.id \in Nat
    BY GeometryAssumption, ObjectAssumption DEF EccPerfs, Rsc, Resources, RscTypes
  <2> QED
    BY <2>1, BitType
<1>4. bits \subseteq bits' /\ bits' \subseteq Bits
  BY <1>1, <1>2, <1>3 DEF Good, Endings, IInv, TypeOK
<1>5. kept \subseteq kept' /\ kept' \subseteq Units
  BY <1>2 DEF Existing, IInv, TypeOK
<1>6. Sound => \A u \in kept' \ kept : ~Busy(u, bits) /\ RuntimeBit(u) \in bits'
  <2>1. Sound => \A u \in Existing(bc.rscs) : ~Busy(u, bits) /\ RuntimeBit(u) \in bits'
    BY <1>1, <1>2 DEF Good
  <2> QED
    BY <1>2, <2>1
<1> QED
  BY <1>2, <1>4, <1>5, <1>6, ManagerChange

(* Where a region starts and how long it is.                               *)
LEMMA RegionNumbers ==
    ASSUME NEW g \in Regions
    PROVE  RegionOffset(g) \in Nat /\ RegionSize(g) \in Nat /\ <<g[1], g[3]>> \in TileTypes \X RscTypes
<1>1. PICK s \in Sites, t \in RscTypes : g = <<Site[s].type, Site[s].module, t>>
  BY DEF Regions
<1>2. Site[s].type \in TileTypes /\ Site[s].module \in Modules
  BY <1>1, GeometryAssumption
<1>3. Tiles[g[1]] \in Nat /\ MaxRscs[g] \in Nat
  BY <1>1, <1>2, GeometryAssumption
<1>4. RegionSize(g) \in Nat
  BY <1>3, Products DEF RegionSize
<1>5. RegionOffset(g) \in Nat
  BY <1>1, <1>2, ModOffsetNat DEF RegionOffset
<1> QED
  BY <1>1, <1>2, <1>4, <1>5

(* saveAllocatedRscs() changes only the file.                              *)
LEMMA StepSave ==
    ASSUME IInv, saveAllocatedRscs
    PROVE  IInv' /\ PoolStep
<1>1. ASSUME NEW g \in Regions
      PROVE  Payload(g, bits) \subseteq Nat
  BY DEF Payload
<1>2. file' \in [Regions -> SUBSET Nat] /\ UNCHANGED <<bits, obj, kept, program>>
  BY <1>1 DEF saveAllocatedRscs
<1>3. TypeOK' /\ OwnType'
  BY <1>2 DEF IInv, TypeOK, OwnType, Object
<1>4. \A y \in Owners : HeldBy(y)' = HeldBy(y)
  BY <1>2 DEF HeldBy, Held
<1>5. PoolStep /\ (Exclusive => Exclusive')
  BY <1>2, <1>4, Keeping
<1>6. Sound' <=> Sound
  BY DEF Sound, UniformBroadcast, InOneWord
<1> QED
  BY <1>3, <1>5, <1>6 DEF IInv

(* loadStaticRscs() only sets bits.                                        *)
LEMMA StepLoad ==
    ASSUME IInv, NEW f, DOMAIN f \subseteq Regions, \A g \in DOMAIN f : f[g] \subseteq Nat,
           loadStaticRscs(f)
    PROVE  IInv' /\ (Sound => PoolStep)
<1>1. LoadedBits(f) \subseteq Bits
  <2>1. ASSUME NEW g \in DOMAIN f, NEW p \in f[g]
        PROVE  <<<<g[1], g[3]>>, ((RegionOffset(g) + RegionSize(g)) \div WORD) * WORD + p>> \in Bits
    <3> DEFINE q == (RegionOffset(g) + RegionSize(g)) \div WORD
    <3>1. /\ RegionOffset(g) + RegionSize(g) \in Nat
          /\ <<g[1], g[3]>> \in TileTypes \X RscTypes
          /\ p \in Nat
      BY <2>1, RegionNumbers
    <3>2. q \in Nat /\ WORD \in Nat
      BY <3>1, GeometryAssumption, DivMod
    <3> HIDE DEF q
    <3>3. q * WORD \in Nat
      BY <3>2, Products
    <3>4. q * WORD + p \in Nat
      BY <3>1, <3>3
    <3> QED
      BY <3>1, <3>4 DEF Bits, q
  <2> QED
    BY <2>1 DEF LoadedBits
<1>2. bits' = bits \cup LoadedBits(f) /\ UNCHANGED <<obj, kept, file, program>>
  BY DEF loadStaticRscs
<1>3. bits \subseteq bits' /\ bits' \subseteq Bits /\ kept' \subseteq Units
  BY <1>1, <1>2 DEF IInv, TypeOK
<1> QED
  BY <1>2, <1>3, ManagerChange

-----------------------------------------------------------------------------
(* Every step.                                                             *)

(* Every step preserves the invariant and is a step of the pool.           *)
LEMMA StepAny ==
    ASSUME IInv, [Next]_vars
    PROVE  IInv' /\ (Sound => PoolStep)
<1>1. CASE UNCHANGED vars
  <2>1. UNCHANGED <<bits, obj, kept, file, program>>
    BY <1>1 DEF vars
  <2>2. TypeOK' /\ OwnType'
    BY <2>1 DEF IInv, TypeOK, OwnType, Object
  <2>3. \A y \in Owners : HeldBy(y)' = HeldBy(y)
    BY <2>1 DEF HeldBy, Held
  <2>4. PoolStep /\ (Exclusive => Exclusive')
    BY <2>1, <2>3, Keeping
  <2>5. Sound' <=> Sound
    BY DEF Sound, UniformBroadcast, InOneWord
  <2> QED
    BY <2>2, <2>4, <2>5 DEF IInv
<1>2. ASSUME NEW o \in DOMAIN Object, ObjectNext(o)
      PROVE  IInv' /\ (Sound => PoolStep)
  <2>1. CASE \E id \in Object[o].ids, static \in BOOLEAN : SetPreferredId(o, id, static)
    BY <2>1, StepSetPreferredId
  <2>2. CASE Reserve(o)
    BY <2>2, StepReserve
  <2>3. CASE Release(o)
    BY <2>3, StepRelease
  <2>4. CASE Free(o)
    BY <2>4, StepFree
  <2>5. CASE Start(o)
    BY <2>5, StepStart
  <2>6. CASE \E n \in 1 .. Len(obj[o].bcs) : StartFails(o, n)
    BY <2>6, StepStartFails
  <2>7. CASE Stop(o)
    BY <2>7, StepStop
  <2>8. CASE Destroy(o)
    BY <2>8, StepDestroy
  <2> QED
    BY <1>2, <2>1, <2>2, <2>3, <2>4, <2>5, <2>6, <2>7, <2>8 DEF ObjectNext
<1>3. CASE ReserveErrorHandling \/ ReserveEcc
  BY <1>3, StepErrorHandling, StepEcc
<1>4. CASE saveAllocatedRscs
  BY <1>4, StepSave
<1>5. CASE \E f \in Metadata : loadStaticRscs(f)
  BY <1>5, MetadataAssumption, StepLoad
<1>6. CASE file # NoFile /\ loadStaticRscs(file)
  <2>1. file \in [Regions -> SUBSET Nat]
    BY <1>6 DEF IInv, TypeOK
  <2>2. DOMAIN file = Regions /\ \A g \in DOMAIN file : file[g] \subseteq Nat
    BY <2>1
  <2> QED
    BY <1>6, <2>2, StepLoad
<1> QED
  BY <1>1, <1>2, <1>3, <1>4, <1>5, <1>6 DEF Next

(* The invariant and the pool at the start.                                *)
LEMMA InitInv ==
    ASSUME Init
    PROVE  IInv /\ Pool!Init
<1>1. \A o \in Objects : obj[o] = Fresh
  BY DEF Init
<1>2. TypeOK
  <2>1. obj \in [Objects -> State]
    BY FreshState DEF Init
  <2> QED
    BY <2>1 DEF Init, TypeOK, State
<1>3. OwnType
  <2>1. ASSUME NEW o \in DOMAIN Object
        PROVE  obj[o].rscs \in Seq(ResourcesOf(TypeOf[Object[o].class]))
    <3>1. obj[o] = Fresh
      BY <1>1, <1>2, Arguments
    <3> QED
      BY <3>1, FreshState
  <2> QED
    BY <2>1 DEF OwnType
<1>4. \A y \in Owners : HeldBy(y) = {}
  BY <1>1, FreshState DEF Init, Owners, HeldBy, Held
<1>5. Exclusive
  BY <1>4 DEF Exclusive, NoTwoOwners, HeldMarked
<1>6. Pool!Init
  <2>1. {u \in Units : Busy(u, bits)} = {}
    BY DEF Init, Busy
  <2>2. [y \in Owners |-> HeldBy(y)] = [y \in Owners |-> {}]
    BY <1>4
  <2> QED
    BY <2>1, <2>2 DEF Pool!Init
<1> QED
  BY <1>2, <1>3, <1>5, <1>6 DEF IInv

(* The invariant holds in every reachable state of the resource manager.   *)
THEOREM Inductive == Spec => []IInv
<1>1. Init => IInv
  BY InitInv
<1>2. IInv /\ [Next]_vars => IInv'
  BY StepAny
<1> QED
  BY <1>1, <1>2, PTL DEF Spec

(* The variables keep their types, with any geometry and any clients: in   *)
(* particular the bitmaps hold only bits of tile types and resource types  *)
(* that exist, whatever file is loaded.                                    *)
THEOREM TypeCorrect == Spec => []TypeOK
<1>1. IInv => TypeOK
  BY DEF IInv
<1> QED
  BY <1>1, Inductive, PTL

(* If all modules have as many broadcast channels and runs are requested   *)
(* only in modules whose bits lie in one word, a unit has one owner, and   *)
(* stays marked as long as it has one.                                     *)
THEOREM OneOwner ==
    ASSUME UniformBroadcast, InOneWord
    PROVE  Spec => [](NoTwoOwners /\ HeldMarked)
<1>1. IInv => NoTwoOwners /\ HeldMarked
  BY DEF IInv, Sound, Exclusive
<1> QED
  BY <1>1, Inductive, PTL

(* Under the same conditions the manager with its clients implements the   *)
(* pool of units: each of its steps is one of the pool or a stutter.       *)
THEOREM ImplementsPool ==
    ASSUME UniformBroadcast, InOneWord
    PROVE  Spec => Implements
<1>1. Init => Pool!Init
  BY InitInv
<1>2. IInv /\ [Next]_vars => [Pool!Next]_(Pool!vars)
  BY StepAny DEF Sound, PoolStep
<1> QED
  BY <1>1, <1>2, Inductive, PTL DEF Spec, Implements, Pool!Spec

-----------------------------------------------------------------------------
(* What requests and releases leave in the bitmaps.                        *)

(* A request leaves no bit set for nobody: if it fails none is set, else   *)
(* each is that of a resource or a channel granted, and the channels exist. *)
Tidy(g) ==
    /\ g.end # "ok" => g.set = {}
    /\ g.end = "ok" =>
          /\ g.set \subseteq RuntimeBits(g.rscs) \cup RuntimeBits(g.bcs)
          /\ \A i \in DOMAIN g.bcs : g.bcs[i] \in Units

(* Requests that end without channels.                                     *)
LEMMA SimpleTidy ==
    /\ Tidy(Failed({})) /\ Tidy(Thrown)
    /\ \A rs : Tidy(Granted(rs))
BY DEF Tidy, Failed, Thrown, Granted

(* Ids in range are those of units.                                        *)
LEMMA UnitsHold ==
    ASSUME NEW s \in Sites, NEW t \in RscTypes, NEW id \in 0 .. getMaxRsc(s, t) - 1
    PROVE  Rsc(s, t, id) \in Units
<1> DEFINE these(a, b) == {Rsc(a, b, i) : i \in 0 .. getMaxRsc(a, b) - 1}
<1>1. Rsc(s, t, id) \in these(s, t)
  OBVIOUS
<1>2. Units = UNION {these(a, b) : a \in Sites, b \in RscTypes}
  BY DEF Units
<1> HIDE DEF these
<1> QED
  BY <1>1, <1>2

(* requestAllocated() leaves a bit only for an id that does not exist.     *)
LEMMA RequestAllocatedTidy ==
    ASSUME NEW type, NEW rs \in Seq(ResourcesOf(type)), NEW bs,
           \A i \in DOMAIN rs : rs[i].id # getMaxRsc(rs[i].site, rs[i].type)
    PROVE  Tidy(RequestAllocated(rs, bs))
<1> DEFINE Fits(i) ==
             /\ rs[i].id \in 0 .. getMaxRsc(rs[i].site, rs[i].type)
             /\ ~Busy(rs[i], bs \cup {RuntimeBit(rs[j]) : j \in 1 .. i - 1})
           Stuck == {i \in DOMAIN rs : rs[i] \notin Units /\ \A j \in 1 .. i : Fits(j)}
<1>1. ASSUME NEW i \in Stuck
      PROVE  FALSE
  <2>1. i \in DOMAIN rs /\ rs[i] \notin Units /\ i \in 1 .. i
    OBVIOUS
  <2>2. rs[i].id \in 0 .. getMaxRsc(rs[i].site, rs[i].type)
    BY <2>1
  <2>3. rs[i] \in Resources /\ rs[i].site \in Sites /\ rs[i].type \in RscTypes
    BY <2>1 DEF ResourcesOf, Resources
  <2>4. rs[i].id \in 0 .. getMaxRsc(rs[i].site, rs[i].type) - 1
    BY <2>1, <2>2, <2>3, MaxRscNat
  <2>5. rs[i] = Rsc(rs[i].site, rs[i].type, rs[i].id)
    BY <2>3 DEF Resources, Rsc
  <2> QED
    BY <2>1, <2>3, <2>4, <2>5, UnitsHold
<1>2. {RuntimeBit(rs[i]) : i \in Stuck} = {}
  BY <1>1
<1>3. RequestAllocated(rs, bs) = IF \A i \in DOMAIN rs : Fits(i) THEN Granted(rs)
                                 ELSE Failed({RuntimeBit(rs[i]) : i \in Stuck})
  BY DEF RequestAllocated
<1> HIDE DEF Fits, Stuck
<1> QED
  BY <1>2, <1>3, SimpleTidy

(* The other requests give back what they took.                            *)
LEMMA OthersTidy ==
    ASSUME NEW rs, NEW bs
    PROVE  /\ Tidy(Request(rs, bs))
           /\ Tidy(RequestContiguous(rs, bs))
           /\ \A preferred : Tidy(RequestBc(rs, preferred, bs))
<1>1. Tidy(Request(rs, bs))
  BY SimpleTidy DEF Request
<1>2. Tidy(RequestContiguous(rs, bs))
  BY SimpleTidy DEF RequestContiguous
<1>3. ASSUME NEW preferred
      PROVE  Tidy(RequestBc(rs, preferred, bs))
  BY SimpleTidy DEF RequestBc
<1> QED
  BY <1>1, <1>2, <1>3

(* Whichever request the manager chooses.                                  *)
LEMMA ManagerRequestTidy ==
    ASSUME NEW class \in DOMAIN TypeOf, NEW rs \in Seq(ResourcesOf(TypeOf[class])),
           NEW preferred, NEW bs,
           \/ class # "group" /\ preferred = ANY
           \/ \A i \in DOMAIN rs : rs[i].id # getMaxRsc(rs[i].site, rs[i].type)
    PROVE  Tidy(ManagerRequest(class, rs, preferred, bs))
<1> DEFINE path == IF rs = <<>> THEN Partition ELSE [i \in DOMAIN rs |-> rs[i].site]
<1>1. Tidy(RequestBc(path, preferred, bs)) /\ Tidy(RequestContiguous(rs, bs)) /\ Tidy(Request(rs, bs))
  BY OthersTidy
<1> HIDE DEF path
<1>2. class = "group" \/ preferred # ANY => Tidy(RequestAllocated(rs, bs))
  BY RequestAllocatedTidy
<1>3. CASE class = "broadcast"
  BY <1>1, <1>3 DEF ManagerRequest, path
<1>4. CASE class = "group"
  <2>1. ManagerRequest(class, rs, preferred, bs) = RequestAllocated(rs, bs)
    BY <1>4 DEF ManagerRequest, TypeOf
  <2> QED
    BY <1>2, <1>4, <2>1
<1>5. CASE class \notin {"broadcast", "group"} /\ preferred = ANY
  BY <1>1, <1>5 DEF ManagerRequest
<1>6. CASE class \notin {"broadcast", "group"} /\ preferred # ANY
  BY <1>1, <1>2, <1>6 DEF ManagerRequest
<1> QED
  BY <1>3, <1>4, <1>5, <1>6

(* A channel granted exists at every module of the path if modules have as *)
(* many channels.                                                          *)
LEMMA ChannelsExist ==
    ASSUME UniformBroadcast, NEW path \in Seq(Sites), NEW bs,
           RequestBc(path, ANY, bs).end = "ok"
    PROVE  \A i \in DOMAIN RequestBc(path, ANY, bs).rscs : RequestBc(path, ANY, bs).rscs[i] \in Units
<1> DEFINE Common == getCommonRscId(path, ANY, bs)
           id == CHOOSE i \in Common : TRUE
           got == [k \in DOMAIN path |-> Rsc(path[k], "broadcast", id)]
<1>1. RequestBc(path, ANY, bs) = IF Common = {} THEN Failed({}) ELSE Granted(got)
  BY DEF RequestBc
<1>2. Common # {}
  <2> HIDE DEF Common, got
  <2> QED BY <1>1 DEF Failed
<1>3. id \in 0 .. getMaxRsc(path[Len(path)], "broadcast") - 1
  <2>1. id \in Common
    BY <1>2
  <2> HIDE DEF id
  <2> QED BY <2>1 DEF getCommonRscId
<1>4. RequestBc(path, ANY, bs).rscs = got
  <2> HIDE DEF Common, got
  <2> QED BY <1>1, <1>2 DEF Granted
<1> HIDE DEF id
<1>5. ASSUME NEW i \in DOMAIN path
      PROVE  got[i] \in Units
  <2>1. path[i] \in Sites /\ path[Len(path)] \in Sites
    OBVIOUS
  <2>2. getMaxRsc(path[i], "broadcast") = getMaxRsc(path[Len(path)], "broadcast")
    BY <2>1 DEF UniformBroadcast
  <2>3. got[i] = Rsc(path[i], "broadcast", id) /\ "broadcast" \in RscTypes
    BY DEF RscTypes
  <2> QED
    BY <1>3, <2>1, <2>2, <2>3, UnitsHold
<1> QED
  BY <1>4, <1>5

(* The bits of a concatenation.                                            *)
LEMMA BitsOfBoth ==
    ASSUME NEW xs \in Seq(Resources), NEW ys \in Seq(Resources)
    PROVE  /\ RuntimeBits(xs) \cup RuntimeBits(ys) \subseteq RuntimeBits(xs \o ys)
           /\ (\A i \in DOMAIN xs : xs[i] \in Units) /\ (\A i \in DOMAIN ys : ys[i] \in Units)
                 => \A i \in DOMAIN (xs \o ys) : (xs \o ys)[i] \in Units
<1>1. Len(xs) \in Nat /\ Len(ys) \in Nat /\ DOMAIN (xs \o ys) = 1 .. Len(xs) + Len(ys)
      /\ DOMAIN xs = 1 .. Len(xs) /\ DOMAIN ys = 1 .. Len(ys)
  OBVIOUS
<1>2. ASSUME NEW i \in DOMAIN xs
      PROVE  i \in DOMAIN (xs \o ys) /\ (xs \o ys)[i] = xs[i]
  BY <1>1
<1>3. ASSUME NEW i \in DOMAIN ys
      PROVE  i + Len(xs) \in DOMAIN (xs \o ys) /\ (xs \o ys)[i + Len(xs)] = ys[i]
  BY <1>1
<1>4. ASSUME NEW i \in DOMAIN (xs \o ys)
      PROVE  \/ i \in DOMAIN xs /\ (xs \o ys)[i] = xs[i]
             \/ i - Len(xs) \in DOMAIN ys /\ (xs \o ys)[i] = ys[i - Len(xs)]
  BY <1>1
<1>5. RuntimeBits(xs) \subseteq RuntimeBits(xs \o ys)
  BY <1>2 DEF RuntimeBits
<1>6. RuntimeBits(ys) \subseteq RuntimeBits(xs \o ys)
  BY <1>3 DEF RuntimeBits
<1> QED
  BY <1>4, <1>5, <1>6

(* A request that also gets one more channel.                              *)
LEMMA AnotherTidy ==
    ASSUME UniformBroadcast, NEW type, NEW bs, NEW g, Good(g, type, bs), Tidy(g),
           NEW s \in Sites, Site[s].type = "aie"
    PROVE  Tidy(Another(g, s, bs))
<1> DEFINE bc == RequestBc(BothModules(s), ANY, bs \cup g.set)
           more == [g EXCEPT !.bcs = @ \o bc.rscs, !.set = @ \cup bc.set]
<1>1. Good(bc, "broadcast", bs \cup g.set) /\ Tidy(bc)
  BY BothModulesType, RequestBcGood, OthersTidy
<1>2. Another(g, s, bs) = IF g.end = "ok" /\ bc.end = "ok" THEN more ELSE Failed({})
  BY DEF Another, Both
<1>3. bc.end = "ok" => \A i \in DOMAIN bc.rscs : bc.rscs[i] \in Units
  BY BothModulesType, ChannelsExist
<1>4. bc.end = "ok" => bc.bcs = <<>>
  BY DEF RequestBc, Failed, Granted
<1> HIDE DEF bc
<1>5. CASE ~(g.end = "ok" /\ bc.end = "ok")
  BY <1>2, <1>5, SimpleTidy
<1>6. CASE g.end = "ok" /\ bc.end = "ok"
  <2>1. g \in Endings(type) /\ bc \in Endings("broadcast")
    BY <1>1 DEF Good
  <2>2. bc.rscs \in Seq(Resources) /\ g.bcs \in Seq(Resources)
    <3>1. ResourcesOf("broadcast") \subseteq Resources
      BY DEF ResourcesOf
    <3>2. bc.rscs \in Seq(ResourcesOf("broadcast")) /\ g.bcs \in Seq(Resources)
      BY <2>1 DEF Endings
    <3> QED
      BY <3>1, <3>2
  <2>3. /\ more.end = g.end /\ more.rscs = g.rscs
        /\ more.bcs = g.bcs \o bc.rscs /\ more.set = g.set \cup bc.set
    BY <2>1 DEF Endings
  <2> HIDE DEF more
  <2>4. /\ g.set \subseteq RuntimeBits(g.rscs) \cup RuntimeBits(g.bcs)
        /\ \A i \in DOMAIN g.bcs : g.bcs[i] \in Units
    BY <1>6 DEF Tidy
  <2>5. bc.set \subseteq RuntimeBits(bc.rscs)
    <3>1. bc.set \subseteq RuntimeBits(bc.rscs) \cup RuntimeBits(<<>>)
      BY <1>1, <1>4, <1>6 DEF Tidy
    <3> QED
      BY <3>1 DEF RuntimeBits
  <2>6. RuntimeBits(g.bcs) \cup RuntimeBits(bc.rscs) \subseteq RuntimeBits(more.bcs)
    BY <2>2, <2>3, BitsOfBoth
  <2>7. \A i \in DOMAIN more.bcs : more.bcs[i] \in Units
    BY <1>3, <1>6, <2>2, <2>3, <2>4, BitsOfBoth
  <2>8. Tidy(more)
    BY <1>6, <2>3, <2>4, <2>5, <2>6, <2>7 DEF Tidy
  <2> QED
    BY <1>2, <1>6, <2>8 DEF more
<1> QED
  BY <1>5, <1>6

(* A request that also gets the channels for n events.                     *)
LEMMA WithChannelsTidy ==
    ASSUME UniformBroadcast, NEW type, NEW bs, NEW g, Good(g, type, bs), Tidy(g), NEW n,
           NEW s \in Sites, n = 0 \/ Site[s].type = "aie"
    PROVE  Tidy(WithChannels(g, n, s, bs))
<1>1. CASE n = 0
  BY <1>1 DEF WithChannels
<1>2. CASE n # 0
  <2> DEFINE one == Another(g, s, bs)
             two == Another(one, s, bs)
             three == Another(two, s, bs)
  <2>1. Good(one, type, bs) /\ Tidy(one)
    BY <1>2, AnotherGood, AnotherTidy
  <2> HIDE DEF one
  <2>2. Good(two, type, bs) /\ Tidy(two)
    BY <1>2, <2>1, AnotherGood, AnotherTidy
  <2> HIDE DEF two
  <2>3. Tidy(three)
    BY <1>2, <2>2, AnotherTidy
  <2>4. WithChannels(g, n, s, bs) \in {one, two, three}
    BY <1>2 DEF WithChannels, one, two
  <2> QED
    BY <2>1, <2>2, <2>3, <2>4
<1> QED
  BY <1>1, <1>2

(* A counter and the channels for its events.                              *)
LEMMA ReservePerfTidy ==
    ASSUME UniformBroadcast, NEW c, c.site \in Sites,
           NEW rs \in Seq(ResourcesOf("perf")), rs # <<>>,
           NEW preferred \in Nat \cup {ANY}, NEW bs,
           \A i \in DOMAIN rs : rs[i].id # getMaxRsc(rs[i].site, rs[i].type)
    PROVE  Tidy(ReservePerf(c, rs, preferred, bs))
<1> DEFINE inAie == InAie(c)
           moved == [rs EXCEPT ![1].site = Sibling(c.site)]
           here == ManagerRequest("perf", rs, preferred, bs)
           there == ManagerRequest("perf", moved, preferred, bs)
           main == IF here.end = "error" /\ preferred = ANY /\ inAie /\ c.cross THEN there ELSE here
           all == WithChannels(main, NumEvents(c, main.rscs[1].site), c.site, bs)
<1>1. "perf" \in DOMAIN TypeOf /\ TypeOf["perf"] = "perf"
  BY DEF TypeOf
<1>2. Good(here, "perf", bs) /\ Tidy(here)
  BY <1>1, ManagerRequestGood, ManagerRequestTidy
<1>3. inAie => moved \in Seq(ResourcesOf("perf")) /\ moved # <<>>
  BY MovedType DEF InAie
<1>4. inAie /\ preferred = ANY => Good(there, "perf", bs) /\ Tidy(there)
  <2> HIDE DEF moved
  <2> QED
    BY <1>1, <1>3, ManagerRequestGood, ManagerRequestTidy
<1> HIDE DEF here, there, moved
<1>5. Good(main, "perf", bs) /\ Tidy(main)
  BY <1>2, <1>4
<1>6. ReservePerf(c, rs, preferred, bs) = IF main.end = "ok" /\ inAie THEN all ELSE main
  BY DEF ReservePerf, PerfWithChannels, here, there, moved
<1> HIDE DEF main
<1>7. inAie => Tidy(all)
  BY <1>5, WithChannelsTidy DEF InAie
<1> HIDE DEF all
<1> QED
  BY <1>5, <1>6, <1>7

(* What reserve() of a regular object leaves is what it is granted.        *)
LEMMA ReservationTidy ==
    ASSUME UniformBroadcast, TypeOK, OwnType, NEW o \in DOMAIN Object, Regular(o)
    PROVE  Tidy(Reservation(o))
<1> DEFINE c == Object[o]
           p == obj[o].preferred
<1>1. p \in Nat \cup {ANY}
  BY Arguments DEF TypeOK
<1>2. CASE c.class = "perf"
  <2>1. TypeOf[c.class] = "perf" /\ Reservation(o) = ReservePerf(c, Requested(o), p, bits)
    BY <1>2 DEF Reservation, TypeOf
  <2> QED
    BY <1>1, <1>2, <2>1, Arguments, RequestedType, ReservePerfTidy DEF Regular
<1>3. CASE c.class # "perf"
  <2>1. Reservation(o) = ManagerRequest(c.class, Requested(o), p, bits)
    BY <1>3 DEF Reservation, Regular
  <2> QED
    BY <1>1, <2>1, Arguments, RequestedType, ManagerRequestTidy DEF Regular
<1> QED
  BY <1>2, <1>3

(* reserve() marks no unit for nobody.                                     *)
LEMMA ReserveLeaksNothing ==
    ASSUME UniformBroadcast, IInv, NEW o \in DOMAIN Object, Reserve(o), Regular(o),
           obj[o].reserved' => \A i \in DOMAIN obj[o].rscs' : obj[o].rscs'[i] \in Units
    PROVE  Leaked' \subseteq Leaked
<1> DEFINE g == Reservation(o)
<1>1. Good(g, TypeOf[Object[o].class], bits) /\ Tidy(g)
  BY ReservationGood, ReservationTidy DEF IInv
<1>2. /\ \A y \in Owners \ {o} : HeldBy(y)' = HeldBy(y)
      /\ o \in Owners /\ HeldBy(o) = {}
      /\ HeldBy(o)' = IF g.end = "ok" THEN Existing(g.rscs) \cup Existing(g.bcs) ELSE {}
      /\ bits' = bits \cup g.set
      /\ g.end = "ok" => obj'[o].reserved /\ obj'[o].rscs = g.rscs
  BY ReserveChange
<1> HIDE DEF g
<1>3. ASSUME NEW u \in Units, RuntimeBit(u) \in g.set
      PROVE  u \in HeldBy(o)'
  <2>1. g.end = "ok" /\ RuntimeBit(u) \in RuntimeBits(g.rscs) \cup RuntimeBits(g.bcs)
    BY <1>1, <1>3 DEF Tidy
  <2>2. \A i \in DOMAIN g.rscs : g.rscs[i] \in Units
    BY <1>2, <2>1
  <2>3. \A i \in DOMAIN g.bcs : g.bcs[i] \in Units
    BY <1>1, <2>1 DEF Tidy
  <2>4. \/ \E i \in DOMAIN g.rscs : RuntimeBit(u) = RuntimeBit(g.rscs[i])
        \/ \E i \in DOMAIN g.bcs : RuntimeBit(u) = RuntimeBit(g.bcs[i])
    BY <2>1 DEF RuntimeBits
  <2>5. \/ \E i \in DOMAIN g.rscs : u = g.rscs[i]
        \/ \E i \in DOMAIN g.bcs : u = g.bcs[i]
    BY <2>2, <2>3, <2>4, BitsDistinct
  <2> QED
    BY <1>2, <2>1, <2>5 DEF Existing
<1>4. ASSUME NEW u \in Units, RuntimeBit(u) \in bits', \A y \in Owners : u \notin HeldBy(y)'
      PROVE  RuntimeBit(u) \in bits /\ \A y \in Owners : u \notin HeldBy(y)
  BY <1>2, <1>3, <1>4
<1>5. Leaked' = {u \in Units : RuntimeBit(u) \in bits' /\ \A y \in Owners : u \notin HeldBy(y)'}
  BY DEF Leaked
<1> QED
  BY <1>4, <1>5 DEF Leaked

(* release() of an object none of whose channels is started marks none.    *)
LEMMA ReleaseLeaksNothing ==
    ASSUME IInv, NEW o \in DOMAIN Object, Release(o), obj[o].live = 0
    PROVE  Leaked' \subseteq Leaked
<1> DEFINE s == [Fresh EXCEPT !.preferred = obj[o].preferred]
<1>1. /\ \A y \in Owners \ {o} : HeldBy(y)' = HeldBy(y)
      /\ o \in Owners /\ HeldBy(o) = Held(o)
  BY ReleaseChange
<1>2. Held(o) \subseteq Returned(o)
  <2>1. obj[o] \in State
    BY StateOf DEF IInv
  <2>2. DOMAIN obj[o].bcs = obj[o].live + 1 .. Len(obj[o].bcs)
    BY <2>1 DEF State
  <2>3. Existing(obj[o].bcs) = {obj[o].bcs[i] : i \in DOMAIN obj[o].bcs} \cap Units
    BY DEF Existing
  <2> QED
    BY <2>2, <2>3 DEF Held, Returned, Release
<1>3. bits' \subseteq bits /\ \A r \in Returned(o) : RuntimeBit(r) \notin bits'
  BY DEF Release
<1>4. ASSUME NEW u \in Units, RuntimeBit(u) \in bits', \A y \in Owners : u \notin HeldBy(y)'
      PROVE  RuntimeBit(u) \in bits /\ \A y \in Owners : u \notin HeldBy(y)
  BY <1>1, <1>2, <1>3, <1>4
<1>5. Leaked' = {u \in Units : RuntimeBit(u) \in bits' /\ \A y \in Owners : u \notin HeldBy(y)'}
  BY DEF Leaked
<1> QED
  BY <1>4, <1>5 DEF Leaked

(* Under the condition that modules have as many broadcast channels, no    *)
(* reserve() that fails half way and no release() leaves a unit marked for *)
(* nobody, the exceptions named in NoNewLeak aside.                        *)
THEOREM NoNewLeakHolds ==
    ASSUME UniformBroadcast
    PROVE  Spec => NoNewLeak
<1> DEFINE Step ==
      \A o \in DOMAIN Object :
          \/ /\ Reserve(o) /\ Regular(o)
             /\ obj[o].reserved' => \A i \in DOMAIN obj[o].rscs' : obj[o].rscs'[i] \in Units
          \/ Release(o) /\ obj[o].live = 0
          => Leaked' \subseteq Leaked
<1>1. IInv => Step
  BY ReserveLeaksNothing, ReleaseLeaksNothing
<1>2. IInv /\ [Next]_vars => [Step]_vars
  BY <1>1
<1> HIDE DEF Step
<1>3. Spec => [][Step]_vars
  BY <1>2, Inductive, PTL DEF Spec
<1> QED
  BY <1>3 DEF Step, NoNewLeak

-----------------------------------------------------------------------------
(* Files of resources.                                                     *)

(* Whole words are counted from their beginning.                           *)
LEMMA WholeWord ==
    ASSUME NEW a \in Nat, a % WORD = 0
    PROVE  (a \div WORD) * WORD = a /\ RoundUp(a) = a
<1>1. WORD \in Nat \ {0}
  BY GeometryAssumption
<1>2. a = (a \div WORD) * WORD /\ a \div WORD \in Nat
  BY <1>1, DivMod
<1> DEFINE q == a \div WORD
           r == WORD - 1
<1>3. r \in 0 .. WORD - 1 /\ a + WORD - 1 = q * WORD + r
  BY <1>1, <1>2
<1> HIDE DEF q, r
<1>4. q \in Nat
  BY <1>2 DEF q
<1>5. (q * WORD + r) \div WORD = q
  BY <1>1, <1>3, <1>4, DivModUnique
<1>6. RoundUp(a) = q * WORD
  BY <1>3, <1>5 DEF RoundUp
<1> QED
  BY <1>2, <1>6 DEF q

(* Sums of whole words are whole words.                                    *)
LEMMA SumWhole ==
    ASSUME NEW w \in Nat \ {0}, NEW a \in Nat, NEW b \in Nat, a % w = 0, b % w = 0
    PROVE  (a + b) % w = 0
<1> DEFINE p == a \div w
           q == b \div w
<1>1. a = p * w /\ b = q * w /\ p \in Nat /\ q \in Nat
  BY DivMod
<1> HIDE DEF p, q
<1>2. a + b = (p + q) * w + 0
  BY <1>1
<1>3. p + q \in Nat /\ 0 \in 0 .. w - 1
  BY <1>1
<1>4. ((p + q) * w + 0) % w = 0
  BY <1>3, DivModUnique
<1> QED
  BY <1>2, <1>4

(* The parts of a region.                                                  *)
LEMMA RegionParts ==
    ASSUME NEW g \in Regions
    PROVE  /\ g = <<g[1], g[2], g[3]>>
           /\ g[1] \in TileTypes /\ g[2] \in ModulesOf(g[1]) /\ g[2] \in Modules /\ g[3] \in RscTypes
           /\ RegionSize(g) \in Nat /\ RegionOffset(g) \in Nat
           /\ g[2] # "core" => RegionOffset(g) = 0
           /\ g[2] = "core" => /\ <<g[1], "mem", g[3]>> \in Regions
                               /\ RegionOffset(g) = 2 * RegionSize(<<g[1], "mem", g[3]>>)
<1>1. PICK s \in Sites : \E t \in RscTypes : g = <<Site[s].type, Site[s].module, t>>
  BY DEF Regions
<1>2. PICK t \in RscTypes : g = <<Site[s].type, Site[s].module, t>>
  BY <1>1
<1>3. /\ g = <<g[1], g[2], g[3]>> /\ g[1] = Site[s].type /\ g[2] = Site[s].module /\ g[3] = t
  BY <1>2
<1>4. g[1] \in TileTypes /\ g[2] \in ModulesOf(g[1]) /\ g[2] \in Modules /\ g[3] \in RscTypes
  BY <1>3, GeometryAssumption
<1>5. Tiles[g[1]] \in Nat /\ MaxRscs[g] \in Nat
  BY <1>3, <1>4, GeometryAssumption
<1>6. RegionSize(g) \in Nat
  BY <1>5, Products DEF RegionSize
<1>7. RegionOffset(g) \in Nat
  BY <1>4, ModOffsetNat DEF RegionOffset
<1>8. ASSUME g[2] = "core"
      PROVE  <<g[1], "mem", g[3]>> \in Regions
  <2>1. g[1] = "aie"
    BY <1>4, <1>8 DEF ModulesOf, TileTypes
  <2>2. PICK x \in Sites : Site[x].type = "aie" /\ Site[x].module # Site[s].module
    BY <1>3, <2>1, GeometryAssumption
  <2>3. Site[x].module \in ModulesOf("aie")
    BY <2>2, GeometryAssumption
  <2>4. Site[x].module = "mem"
    BY <1>3, <1>8, <2>2, <2>3 DEF ModulesOf
  <2>5. <<g[1], "mem", g[3]>> = <<Site[x].type, Site[x].module, t>>
    BY <1>3, <2>1, <2>2, <2>4
  <2> QED
    BY <2>5 DEF Regions
<1>9. ASSUME g[2] = "core"
      PROVE  RegionOffset(g) = 2 * RegionSize(<<g[1], "mem", g[3]>>)
  <2> DEFINE m == MaxRscs[<<g[1], "mem", g[3]>>]
             n == Tiles[g[1]]
  <2>1. m \in Nat /\ n \in Nat
    BY <1>4, GeometryAssumption DEF Modules
  <2>2. RegionOffset(g) = m * n * 2 /\ RegionSize(<<g[1], "mem", g[3]>>) = n * m
    BY <1>9 DEF RegionOffset, ModOffset, RegionSize
  <2> HIDE DEF m, n
  <2> QED
    BY <2>1, <2>2
<1>10. g[2] # "core" => RegionOffset(g) = 0
  BY DEF RegionOffset, ModOffset
<1> QED
  BY <1>3, <1>4, <1>6, <1>7, <1>8, <1>9, <1>10

(* Where a region of whole words begins, and its static half.              *)
LEMMA WholeRegion ==
    ASSUME NEW g \in Regions,
           \A h \in Regions : h[1] = g[1] /\ h[3] = g[3] => RegionSize(h) % WORD = 0
    PROVE  /\ (RegionOffset(g) \div WORD) * WORD = RegionOffset(g)
           /\ ((RegionOffset(g) + RegionSize(g)) \div WORD) * WORD = RegionOffset(g) + RegionSize(g)
           /\ RoundUp(RegionSize(g)) = RegionSize(g)
<1>1. RegionSize(g) \in Nat /\ RegionOffset(g) \in Nat /\ RegionSize(g) % WORD = 0
  BY RegionParts
<1>2. RegionOffset(g) % WORD = 0
  <2>1. WORD \in Nat \ {0}
    BY GeometryAssumption
  <2>2. CASE g[2] # "core"
    <3>1. RegionOffset(g) = 0
      BY <2>2, RegionParts
    <3>2. 0 % WORD = 0
      BY <2>1
    <3> QED
      BY <3>1, <3>2
  <2>3. CASE g[2] = "core"
    <3> DEFINE h == <<g[1], "mem", g[3]>>
               half == RegionSize(h)
    <3>1. h \in Regions /\ RegionOffset(g) = 2 * half
      BY <2>3, RegionParts
    <3>2. h[1] = g[1] /\ h[3] = g[3]
      OBVIOUS
    <3>3. half \in Nat /\ half % WORD = 0
      BY <3>1, <3>2, RegionParts
    <3> HIDE DEF half
    <3>4. (2 * half) % WORD = 0
      <4>1. (half + half) % WORD = 0
        BY <2>1, <3>3, SumWhole
      <4> QED
        BY <3>3, <4>1
    <3> QED
      BY <3>1, <3>4
  <2> QED
    BY <2>2, <2>3
<1>3. RegionOffset(g) + RegionSize(g) \in Nat /\ (RegionOffset(g) + RegionSize(g)) % WORD = 0
  <2>1. WORD \in Nat \ {0}
    BY GeometryAssumption
  <2> QED
    BY <1>1, <1>2, <2>1, SumWhole
<1> QED
  BY <1>1, <1>2, <1>3, WholeWord

(* The bits a region of whole words loads from the file saved.             *)
LEMMA LoadedOf ==
    ASSUME NEW g \in Regions,
           \A h \in Regions : h[1] = g[1] /\ h[3] = g[3] => RegionSize(h) % WORD = 0,
           NEW bs, NEW b
    PROVE  LET base == RegionOffset(g)
               size == RegionSize(g)
           IN  (\E p \in {q \in Payload(g, bs) : q <= size} :
                    b = <<<<g[1], g[3]>>, ((base + size) \div WORD) * WORD + p>>)
               <=> \E p \in 0 .. size - 1 : /\ <<<<g[1], g[3]>>, base + p>> \in bs
                                            /\ b = <<<<g[1], g[3]>>, base + size + p>>
<1> DEFINE base == RegionOffset(g)
           size == RegionSize(g)
<1>1. base \in Nat /\ size \in Nat
  BY RegionParts
<1>2. /\ ((base + size) \div WORD) * WORD = base + size
      /\ Payload(g, bs) = {p \in 0 .. size - 1 : <<<<g[1], g[3]>>, base + p>> \in bs}
  BY WholeRegion DEF Payload
<1>3. {q \in Payload(g, bs) : q <= size} = {p \in 0 .. size - 1 : <<<<g[1], g[3]>>, base + p>> \in bs}
  <2> HIDE DEF base, size
  <2> QED
    BY <1>1, <1>2
<1> HIDE DEF base, size
<1>4. (\E p \in {q \in Payload(g, bs) : q <= size} :
            b = <<<<g[1], g[3]>>, ((base + size) \div WORD) * WORD + p>>)
      <=> \E p \in 0 .. size - 1 : /\ <<<<g[1], g[3]>>, base + p>> \in bs
                                   /\ b = <<<<g[1], g[3]>>, base + size + p>>
  BY <1>2, <1>3
<1> QED
  BY <1>4 DEF base, size

(* The static halves of two regions of a bitmap do not overlap.            *)
LEMMA StaticHalvesApart ==
    ASSUME NEW g \in Regions, NEW h \in Regions, g[1] = h[1], g[3] = h[3],
           NEW p \in 0 .. RegionSize(g) - 1, NEW a \in 0 .. RegionSize(h) - 1,
           RegionOffset(g) + RegionSize(g) + p = RegionOffset(h) + RegionSize(h) + a
    PROVE  g = h /\ p = a
<1>1. /\ RegionSize(g) \in Nat /\ RegionOffset(g) \in Nat
      /\ RegionSize(h) \in Nat /\ RegionOffset(h) \in Nat
      /\ g = <<g[1], g[2], g[3]>> /\ h = <<h[1], h[2], h[3]>>
      /\ g[1] \in TileTypes /\ g[2] \in ModulesOf(g[1]) /\ h[2] \in ModulesOf(g[1])
  BY RegionParts
<1>2. CASE g[2] = h[2]
  BY <1>1, <1>2
<1>3. CASE g[2] # h[2]
  <2>1. g[2] = "core" \/ h[2] = "core"
    BY <1>1, <1>3 DEF ModulesOf
  <2>2. CASE g[2] = "core"
    <3>1. h[2] = "mem"
      BY <1>1, <1>3, <2>2 DEF ModulesOf, TileTypes
    <3>2. RegionOffset(g) = 2 * RegionSize(<<g[1], "mem", g[3]>>) /\ RegionOffset(h) = 0
      BY <2>2, <3>1, RegionParts
    <3>3. <<g[1], "mem", g[3]>> = h
      BY <1>1, <3>1
    <3> QED
      BY <1>1, <3>2, <3>3
  <2>3. CASE h[2] = "core"
    <3>1. g[2] = "mem"
      BY <1>1, <1>3, <2>3 DEF ModulesOf, TileTypes
    <3>2. RegionOffset(h) = 2 * RegionSize(<<h[1], "mem", h[3]>>) /\ RegionOffset(g) = 0
      BY <2>3, <3>1, RegionParts
    <3>3. <<h[1], "mem", h[3]>> = g
      BY <1>1, <3>1
    <3> QED
      BY <1>1, <3>2, <3>3
  <2> QED
    BY <2>1, <2>2, <2>3
<1> QED
  BY <1>2, <1>3

(* The region of a unit and the place of its bits in it.                   *)
LEMMA RegionOfUnit ==
    ASSUME NEW u \in Units
    PROVE  LET g == <<Site[u.site].type, Site[u.site].module, u.type>>
           IN  /\ g \in Regions
               /\ \E a \in 0 .. RegionSize(g) - 1 :
                    /\ RuntimeBit(u) = <<<<g[1], g[3]>>, RegionOffset(g) + a>>
                    /\ StaticBit(u) = <<<<g[1], g[3]>>, RegionOffset(g) + RegionSize(g) + a>>
<1> DEFINE g == <<Site[u.site].type, Site[u.site].module, u.type>>
           a == getMaxRsc(u.site, u.type) * Site[u.site].index + u.id
<1>1. g \in Regions
  BY UnitsType DEF Regions
<1>2. RegionSize(g) = Tiles[Site[u.site].type] * getMaxRsc(u.site, u.type)
  BY DEF RegionSize, getMaxRsc
<1>3. RegionOffset(g) = ModOffset(Site[u.site].type, Site[u.site].module, u.type)
  BY DEF RegionOffset
<1>4. a \in 0 .. RegionSize(g) - 1 /\ RegionSize(g) \in Nat
  BY <1>2, InRegion
<1>5. /\ Number(u, 0) = RegionOffset(g) + 0 * RegionSize(g) + a
      /\ Number(u, 1) = RegionOffset(g) + 1 * RegionSize(g) + a
  BY <1>2, <1>3, InRegion
<1>6. RegionOffset(g) \in Nat
  BY <1>1, RegionParts
<1>7. Bitmap(u.site, u.type) = <<g[1], g[3]>>
  BY DEF Bitmap
<1> HIDE DEF g, a
<1>8. Number(u, 0) = RegionOffset(g) + a /\ Number(u, 1) = RegionOffset(g) + RegionSize(g) + a
  BY <1>4, <1>5, <1>6
<1>9. /\ RuntimeBit(u) = <<<<g[1], g[3]>>, RegionOffset(g) + a>>
      /\ StaticBit(u) = <<<<g[1], g[3]>>, RegionOffset(g) + RegionSize(g) + a>>
  BY <1>7, <1>8, BitsAreNumbers
<1> QED
  BY <1>1, <1>4, <1>9 DEF g

(* A unit of a module of whole words is static after loading what was saved *)
(* exactly if it was occupied then.                                        *)
LEMMA SavedIsLoaded ==
    ASSUME NEW u \in Units, WholeWords(u.site, u.type), NEW bs,
           NEW f, f = [g \in Regions |-> Payload(g, bs)]
    PROVE  StaticBit(u) \in LoadedBits(f) <=> RuntimeBit(u) \in bs
<1> DEFINE h == <<Site[u.site].type, Site[u.site].module, u.type>>
           From(g) == {<<<<g[1], g[3]>>, ((RegionOffset(g) + RegionSize(g)) \div WORD) * WORD + p>> :
                          p \in {q \in f[g] : q <= RegionSize(g)}}
<1>1. /\ h \in Regions
      /\ \E a \in 0 .. RegionSize(h) - 1 :
            /\ RuntimeBit(u) = <<<<h[1], h[3]>>, RegionOffset(h) + a>>
            /\ StaticBit(u) = <<<<h[1], h[3]>>, RegionOffset(h) + RegionSize(h) + a>>
  BY RegionOfUnit
<1>2. \A g \in Regions : g[1] = h[1] /\ g[3] = h[3] => RegionSize(g) % WORD = 0
  BY DEF WholeWords
<1> HIDE DEF h
<1>3. PICK a \in 0 .. RegionSize(h) - 1 :
            /\ RuntimeBit(u) = <<<<h[1], h[3]>>, RegionOffset(h) + a>>
            /\ StaticBit(u) = <<<<h[1], h[3]>>, RegionOffset(h) + RegionSize(h) + a>>
  BY <1>1
<1>4. StaticBit(u) \in LoadedBits(f) <=> \E g \in Regions : StaticBit(u) \in From(g)
  BY DEF LoadedBits
<1>5. ASSUME NEW g \in Regions, g[1] = h[1], g[3] = h[3]
      PROVE  StaticBit(u) \in From(g) <=>
                \E p \in 0 .. RegionSize(g) - 1 :
                    /\ <<<<g[1], g[3]>>, RegionOffset(g) + p>> \in bs
                    /\ StaticBit(u) = <<<<g[1], g[3]>>, RegionOffset(g) + RegionSize(g) + p>>
  <2>1. f[g] = Payload(g, bs)
    OBVIOUS
  <2>2. \A k \in Regions : k[1] = g[1] /\ k[3] = g[3] => RegionSize(k) % WORD = 0
    BY <1>2, <1>5
  <2>3. StaticBit(u) \in From(g) <=>
            \E p \in {q \in Payload(g, bs) : q <= RegionSize(g)} :
                StaticBit(u) = <<<<g[1], g[3]>>, ((RegionOffset(g) + RegionSize(g)) \div WORD) * WORD + p>>
    BY <2>1
  <2> HIDE DEF From
  <2> QED
    BY <2>2, <2>3, LoadedOf
<1>6. ASSUME NEW g \in Regions, StaticBit(u) \in From(g)
      PROVE  g[1] = h[1] /\ g[3] = h[3]
  <2>1. PICK n : StaticBit(u) = <<<<g[1], g[3]>>, n>>
    BY <1>6
  <2> QED
    BY <1>3, <2>1
<1> HIDE DEF From
<1>7. ASSUME RuntimeBit(u) \in bs
      PROVE  StaticBit(u) \in From(h)
  BY <1>1, <1>3, <1>5, <1>7
<1>8. ASSUME NEW g \in Regions, StaticBit(u) \in From(g)
      PROVE  RuntimeBit(u) \in bs
  <2>1. g[1] = h[1] /\ g[3] = h[3]
    BY <1>6, <1>8
  <2>2. PICK p \in 0 .. RegionSize(g) - 1 :
            /\ <<<<g[1], g[3]>>, RegionOffset(g) + p>> \in bs
            /\ StaticBit(u) = <<<<g[1], g[3]>>, RegionOffset(g) + RegionSize(g) + p>>
    BY <1>5, <1>8, <2>1
  <2>3. RegionOffset(g) + RegionSize(g) + p = RegionOffset(h) + RegionSize(h) + a
    BY <1>3, <2>2
  <2>4. g = h /\ p = a
    BY <1>1, <2>1, <2>3, StaticHalvesApart
  <2> QED
    BY <1>3, <2>2, <2>4
<1> QED
  BY <1>1, <1>4, <1>7, <1>8

(* A file saved and loaded again marks as static what was occupied when it *)
(* was saved, whatever the geometry of the tiles and the clients do.       *)
THEOREM RoundTripHolds == Spec => RoundTrip
<1> DEFINE Step ==
      saveAllocatedRscs =>
          \A u \in Units : WholeWords(u.site, u.type) =>
              (StaticBit(u) \in LoadedBits(file') <=> RuntimeBit(u) \in bits)
<1>1. Step
  BY SavedIsLoaded DEF saveAllocatedRscs
<1>2. [Next]_vars => [Step]_vars
  BY <1>1
<1> HIDE DEF Step
<1>3. Spec => [][Step]_vars
  BY <1>2, PTL DEF Spec
<1> QED
  BY <1>3 DEF Step, RoundTrip
=============================================================================
