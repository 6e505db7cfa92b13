------------------------------- MODULE FalRsc -------------------------------
(***************************************************************************)
(* The resource manager of the FAL and the resource objects clients        *)
(* reserve, release, free, start, stop and destroy.                        *)
(*                                                                         *)
(* The manager keeps one bitmap for each tile type and resource type: for  *)
(* each module a run of run-time bits, tile after tile, and behind it a    *)
(* run of as many static bits.  A resource is taken if either bit is set.  *)
(* A bitmap is a vector of words of WORD bits (32 in the code).            *)
(*                                                                         *)
(* One action is one call of the client; the code runs each to its end     *)
(* without a lock or a wait.  Calls refused by the state of the object     *)
(* change nothing and are stuttering steps.                                *)
(***************************************************************************)
EXTENDS Integers, Sequences, FiniteSets

CONSTANTS
    WORD,        \* bits of one word of a bitmap
    Sites,       \* the modules of the tiles of the partition
    Site,        \* [Sites -> tile type, module, position among tiles of the type]
    Tiles,       \* number of tiles of each type
    MaxRscs,     \* number of resources, by <<tile type, module, resource type>>
    Partition,   \* the modules of the ungated tiles in the order of setBcAllRscs
    ShimSites,   \* the shim modules, by column
    Objects,     \* resource objects of the clients
    Programs,    \* [object: the objects used, with class, arguments of the
                 \*  constructor and preferred ids the client sets,
                 \*  protects: does it reserve for ECC and error handling,
                 \*  saves: does it save and load resources]
    Metadata,    \* resource files made by the compiler
    ErrorBcast,  \* XAIE_ERROR_BCAST_ID
    EccBcast,    \* XAIE_ECC_BCAST_ID
    EccPerf,     \* XAIE_ECC_PERFCNT_ID
    MaxErrorBcs, \* MaxErrorBcIdsRvd of the interrupt module
    MaxVRscs,    \* bound on the length of vRscs
    NoFile,      \* no file saved yet
    Manager      \* owner of what the manager reserves for itself

VARIABLES
    bits,        \* the bits set: <<bitmap, number>>
    obj,         \* state of the objects
    kept,        \* units the manager reserved for ECC and error handling
    file,        \* what saveAllocatedRscs wrote, or NoFile
    program      \* what the clients are doing, fixed

vars == <<bits, obj, kept, file, program>>

ANY == -1          \* XAIE_RSC_ID_ANY

TypeOf ==
    [pcevent |-> "pc", pcrange |-> "pc", userevent |-> "user", combo |-> "combo",
     port |-> "port", group |-> "group", broadcast |-> "broadcast",
     perf |-> "perf", trace |-> "trace"]

RscTypes == {"pc", "user", "combo", "port", "group", "broadcast", "perf", "trace"}
Modules == {"mem", "core", "pl"}

-----------------------------------------------------------------------------
(* The bitmaps.                                                            *)

Rsc(s, t, id) == [site |-> s, type |-> t, id |-> id]

getMaxRsc(s, t) == MaxRscs[<<Site[s].type, Site[s].module, t>>]

ModOffset(type, module, t) ==
    IF module = "core" THEN MaxRscs[<<type, "mem", t>>] * Tiles[type] * 2 ELSE 0

getStaticOff(s, t) == Tiles[Site[s].type] * getMaxRsc(s, t)

getStartBit(s, t) ==
    ModOffset(Site[s].type, Site[s].module, t) + getMaxRsc(s, t) * Site[s].index

Bitmap(s, t) == <<Site[s].type, t>>
RuntimeBit(r) == <<Bitmap(r.site, r.type), getStartBit(r.site, r.type) + r.id>>
StaticBit(r) ==
    <<Bitmap(r.site, r.type),
      getStartBit(r.site, r.type) + getStaticOff(r.site, r.type) + r.id>>

RuntimeBits(rs) == {RuntimeBit(rs[i]) : i \in DOMAIN rs}

(* Mutant: only the static bit is looked at.                               *)
Busy_Static(r, bs) == StaticBit(r) \in bs

Busy(r, bs) == RuntimeBit(r) \in bs \/ StaticBit(r) \in bs

(* The resources that exist; release and free accept no others.            *)
Units == UNION {{Rsc(s, t, i) : i \in 0 .. getMaxRsc(s, t) - 1} :
                    s \in Sites, t \in RscTypes}

(* Length of a bitmap in bits, with the spare word.                        *)
RoundUp(n) == ((n + WORD - 1) \div WORD) * WORD
BitmapSize(type, t) ==
    RoundUp(Tiles[type] * 2 *
              (CASE type = "aie" -> MaxRscs[<<type, "mem", t>>] + MaxRscs[<<type, "core", t>>]
                 [] type = "memtile" -> MaxRscs[<<type, "mem", t>>]
                 [] OTHER -> MaxRscs[<<type, "pl", t>>])) + WORD

-----------------------------------------------------------------------------
(* The requests.  A request on the bitmaps bs ends "ok" with resources, or *)
(* fails, or throws std::out_of_range; "set" are the bits it leaves set.   *)

Granted(rs) == [end |-> "ok", rscs |-> rs, bcs |-> <<>>, set |-> RuntimeBits(rs)]
Failed(left) == [end |-> "error", rscs |-> <<>>, bcs |-> <<>>, set |-> left]
Thrown == [end |-> "throw", rscs |-> <<>>, bcs |-> <<>>, set |-> {}]

(* The resources rs with the ids given.                                    *)
WithIds(rs, ids) == [i \in DOMAIN rs |-> [rs[i] EXCEPT !.id = ids[i]]]

(* Every request of the vector gets the lowest id free when its turn comes; *)
(* if one gets none the others are freed again.                            *)
LowestIds(rs, bs) ==
    {ids \in [DOMAIN rs -> UNION {0 .. getMaxRsc(rs[i].site, rs[i].type) - 1 : i \in DOMAIN rs}] :
        \A i \in DOMAIN rs :
            LET got == WithIds(rs, ids)
                now == bs \cup {RuntimeBit(got[j]) : j \in 1 .. i - 1}
            IN  /\ got[i] \in Units
                /\ ~Busy(got[i], now)
                /\ \A id \in 0 .. ids[i] - 1 : Busy([rs[i] EXCEPT !.id = id], now)}

Request(rs, bs) ==
    LET Found == LowestIds(rs, bs)
    IN  IF Found = {} THEN Failed({})
        ELSE Granted(WithIds(rs, CHOOSE ids \in Found : TRUE))

(* Asks for the ids in rs.  An id equal to the number of resources passes  *)
(* the test, and is not taken back when a later request of the vector fails. *)
RequestAllocated(rs, bs) ==
    LET Fits(i) ==
          /\ rs[i].id \in 0 .. getMaxRsc(rs[i].site, rs[i].type)
          /\ ~Busy(rs[i], bs \cup {RuntimeBit(rs[j]) : j \in 1 .. i - 1})
        Stuck == {i \in DOMAIN rs : rs[i] \notin Units /\ \A j \in 1 .. i : Fits(j)}
    IN  IF \A i \in DOMAIN rs : Fits(i) THEN Granted(rs)
        ELSE Failed({RuntimeBit(rs[i]) : i \in Stuck})

(* The bit tested for element j of a run that starts at bit b: the index   *)
(* moves on once for every element behind the end of the word.             *)
TestedBit(b, j) ==
    LET x == (b % WORD) + j
    IN  (b \div WORD + (IF x < WORD THEN 0 ELSE x - WORD + 1)) * WORD + (x % WORD)

(* A run starts at the lowest id from which all tests find a clear bit; it *)
(* may go on behind the last resource of the module.                       *)
RequestContiguous(rs, bs) ==
    LET s == rs[1].site
        t == rs[1].type
        Start(i) == getStartBit(s, t) + i
        Tests(i, j) == {TestedBit(Start(i), j), TestedBit(Start(i) + getStaticOff(s, t), j)}
        Inside(i, j) == \A b \in Tests(i, j) : b < BitmapSize(Site[s].type, t)
        Clear(i, j) == Inside(i, j) /\ \A b \in Tests(i, j) : <<Bitmap(s, t), b>> \notin bs
        Throws(i) == \E j \in 0 .. Len(rs) - 1 :
                        ~Inside(i, j) /\ \A k \in 0 .. j - 1 : Clear(i, k)
        Fits(i) == \A j \in 0 .. Len(rs) - 1 : Clear(i, j)
        (* Where the search ends. *)
        Ends == {i \in 0 .. getMaxRsc(s, t) - 1 :
                   /\ Fits(i) \/ Throws(i)
                   /\ \A k \in 0 .. i - 1 : ~Fits(k) /\ ~Throws(k)}
        id == CHOOSE i \in Ends : TRUE
    IN  IF Ends = {} THEN Failed({})
        ELSE IF Throws(id) THEN Thrown
        ELSE Granted([k \in DOMAIN rs |-> Rsc(s, t, id + k - 1)])

(* A channel busy at site k is remembered only as long as the sites behind *)
(* it have that channel: getCommonRscId masks what it has collected with   *)
(* the number of channels of each site.                                    *)
BusyChannels(path, bs) ==
    {id \in UNION {0 .. getMaxRsc(path[k], "broadcast") - 1 : k \in DOMAIN path} :
        \E k \in DOMAIN path :
            /\ \A l \in k .. Len(path) : id < getMaxRsc(path[l], "broadcast")
            /\ Busy(Rsc(path[k], "broadcast", id), bs)}

getCommonRscId(path, preferred, bs) ==
    IF preferred = ANY
    THEN {id \in 0 .. getMaxRsc(path[Len(path)], "broadcast") - 1 :
            /\ id \notin BusyChannels(path, bs)
            /\ \A i \in 0 .. id - 1 : i \in BusyChannels(path, bs)}
    ELSE {preferred} \ BusyChannels(path, bs)

RequestBc(path, preferred, bs) ==
    LET Common == getCommonRscId(path, preferred, bs)
    IN  IF \/ preferred # ANY /\ preferred >= getMaxRsc(path[1], "broadcast")
           \/ Common = {}
        THEN Failed({})
        ELSE LET id == CHOOSE i \in Common : TRUE
             IN  Granted([k \in DOMAIN path |-> Rsc(path[k], "broadcast", id)])

-----------------------------------------------------------------------------
(* What reserve() of an object asks the manager for.                       *)

Object == program.object

Sibling(s) == CHOOSE x \in Sites : /\ Site[x].type = Site[s].type
                                   /\ Site[x].index = Site[s].index
                                   /\ Site[x].module # Site[s].module
CoreSite(s) == IF Site[s].module = "core" THEN s ELSE Sibling(s)
BothModules(s) == <<CoreSite(s), Sibling(CoreSite(s))>>

(* vRscs as _reserve() extends it: it holds what earlier calls left in it. *)
Requested(o) ==
    LET c == Object[o]
        Copies(n, id) == [i \in 1 .. n |-> Rsc(c.site, TypeOf[c.class], id)]
        Pushed == CASE c.class \in {"pcevent", "userevent", "port", "perf"} -> Copies(1, obj[o].preferred)
                    [] c.class = "pcrange" -> Copies(2, obj[o].preferred)
                    [] c.class = "combo" -> Copies(c.size, 0)
                    [] c.class = "group" -> Copies(1, c.id)
                    [] c.class = "trace" -> Copies(1, 0)
                    [] OTHER -> [i \in DOMAIN c.path |-> Rsc(c.path[i], "broadcast", ANY)]
    IN  obj[o].rscs \o Pushed

(* The manager's choice of a request function by the type of the object.   *)
ManagerRequest(class, rs, preferred, bs) ==
    CASE class = "broadcast" ->
           RequestBc(IF rs = <<>> THEN Partition ELSE [i \in DOMAIN rs |-> rs[i].site], preferred, bs)
      [] class = "combo" -> RequestContiguous(rs, bs)
      [] class = "group" -> RequestAllocated(rs, bs)
      [] preferred # ANY /\ class \notin {"broadcast", "combo", "group"} -> RequestAllocated(rs, bs)
      [] preferred = ANY /\ TypeOf[class] = "pc" /\ Len(rs) > 1 -> RequestContiguous(rs, bs)
      [] OTHER -> Request(rs, bs)

(* What g asked for with the channel bc.                                   *)
Both(g, bc) ==
    IF g.end = "ok" /\ bc.end = "ok"
    THEN [g EXCEPT !.bcs = @ \o bc.rscs, !.set = @ \cup bc.set]
    ELSE Failed({})

(* One more broadcast channel between the modules of a tile, after g.      *)
Another(g, s, bs) == Both(g, RequestBc(BothModules(s), ANY, bs \cup g.set))

(* One channel for each of the n events that come from the other module.   *)
WithChannels(g, n, s, bs) ==
    LET one == Another(g, s, bs)
        two == Another(one, s, bs)
    IN  CASE n = 0 -> g [] n = 1 -> one [] n = 2 -> two [] OTHER -> Another(two, s, bs)

EventsFrom(c, s) == {e \in DOMAIN c.events : c.events[e] # Site[s].module}
NumEvents(c, s) == Cardinality(EventsFrom(c, s))

(* A counter of the expected module, or else of the other one of the AIE   *)
(* tile; if a channel cannot be had everything is released.                *)
InAie(c) == Site[c.site].type = "aie"
PerfWithChannels(c, main, bs) ==
    IF main.end = "ok" /\ InAie(c)
    THEN WithChannels(main, NumEvents(c, main.rscs[1].site), c.site, bs)
    ELSE main

ReservePerf(c, rs, preferred, bs) ==
    LET here == ManagerRequest("perf", rs, preferred, bs)
        there == ManagerRequest("perf", [rs EXCEPT ![1].site = Sibling(c.site)], preferred, bs)
    IN  PerfWithChannels(c,
            IF here.end = "error" /\ preferred = ANY /\ InAie(c) /\ c.cross THEN there ELSE here,
            bs)

(* A trace control; if a channel cannot be had the control stays reserved. *)
TraceWithChannels(c, main, bs) ==
    LET all == WithChannels(main, NumEvents(c, c.site), c.site, bs)
    IN  CASE main.end # "ok" -> main
          [] main.end = "ok" /\ all.end = "ok" -> all
          [] OTHER -> Failed(main.set)

ReserveTrace(c, rs, preferred, bs) ==
    TraceWithChannels(c, ManagerRequest("trace", rs, preferred, bs), bs)

Reservation(o) ==
    LET c == Object[o]
        p == obj[o].preferred
    IN  CASE c.class = "perf" -> ReservePerf(c, Requested(o), p, bits)
          [] c.class = "trace" -> ReserveTrace(c, Requested(o), p, bits)
          [] OTHER -> ManagerRequest(c.class, Requested(o), p, bits)

-----------------------------------------------------------------------------
(* The objects.  preferred, reserved, prereserved and running are the      *)
(* fields of XAieRsc, rscs is vRscs, bcs are the resources of StartBC,     *)
(* StopBC and RstBC, of which the first "live" are started.                *)

Fresh == [preferred |-> ANY, reserved |-> FALSE, prereserved |-> FALSE,
          running |-> FALSE, rscs |-> <<>>, bcs |-> <<>>, live |-> 0]

Existing(rs) == {rs[i] : i \in DOMAIN rs} \cap Units

Held(o) == IF obj[o].reserved THEN Existing(obj[o].rscs) \cup Existing(obj[o].bcs) ELSE {}
HeldBy(x) == IF x = Manager THEN kept ELSE Held(x)
Owners == Objects \cup {Manager}

Init ==
    /\ bits = {}
    /\ obj = [o \in Objects |-> Fresh]
    /\ kept = {}
    /\ file = NoFile
    /\ program \in Programs

SetPreferredId(o, id, static) ==
    /\ ~obj[o].reserved
    /\ obj' = [obj EXCEPT ![o].preferred = id,
                          ![o].prereserved = @ \/ (static /\ id # ANY)]
    /\ UNCHANGED <<bits, kept, file, program>>

(* reserve() when the manager ended with g.  A failing _reserve() empties  *)
(* vRscs, except that of XAiePCEvent and one left by an exception.         *)
EndReserve(o, g) ==
    /\ ~obj[o].reserved
    /\ Len(Requested(o)) <= MaxVRscs
    /\ bits' = bits \cup g.set
    /\ obj' = [obj EXCEPT
          ![o].reserved = g.end = "ok",
          ![o].rscs = CASE g.end = "ok" -> g.rscs
                        [] g.end = "error" /\ Object[o].class # "pcevent" -> <<>>
                        [] OTHER -> Requested(o),
          ![o].bcs = IF g.end = "ok" THEN g.bcs ELSE <<>>,
          ![o].live = 0]
    /\ UNCHANGED <<kept, file, program>>

Reserve(o) == EndReserve(o, Reservation(o))

(* Mutant: the channels are not given back.                                *)
Returned_NoChannels(o) == Existing(obj[o].rscs)

(* What release() of o gives back.  A channel that is started cannot be    *)
(* released; its object is deleted all the same.                           *)
Returned(o) == Existing(obj[o].rscs) \cup
               ({obj[o].bcs[i] : i \in obj[o].live + 1 .. Len(obj[o].bcs)} \cap Units)

Release(o) ==
    /\ obj[o].reserved
    /\ ~obj[o].running
    /\ bits' = bits \ ({RuntimeBit(r) : r \in Returned(o)} \cup
                        IF Object[o].class \in {"group", "port"} THEN {}
                        ELSE {StaticBit(r) : r \in Returned(o)})
    /\ obj' = [obj EXCEPT ![o] = [Fresh EXCEPT !.preferred = obj[o].preferred]]
    /\ UNCHANGED <<kept, file, program>>

(* No class overrides _free(): the manager is not told.                    *)
Free(o) ==
    /\ obj[o].prereserved
    /\ obj[o].reserved
    /\ ~obj[o].running
    /\ obj' = [obj EXCEPT ![o].reserved = FALSE]
    /\ UNCHANGED <<bits, kept, file, program>>

Start(o) ==
    /\ obj[o].reserved
    /\ ~obj[o].running
    /\ Object[o].class = "pcrange" => \A i \in DOMAIN obj[o].rscs : obj[o].rscs[i] \in Units
    /\ obj' = [obj EXCEPT ![o].running = TRUE, ![o].live = Len(obj[o].bcs)]
    /\ UNCHANGED <<bits, kept, file, program>>

(* A register access fails when n resources of channels are started.       *)
StartFails(o, n) ==
    /\ obj[o].reserved
    /\ ~obj[o].running
    /\ n \in {obj[o].live + 2, obj[o].live + 4, obj[o].live + 6}
    /\ n <= Len(obj[o].bcs)
    /\ obj' = [obj EXCEPT ![o].live = n]
    /\ UNCHANGED <<bits, kept, file, program>>

Stop(o) ==
    /\ obj[o].running
    /\ obj' = [obj EXCEPT ![o].running = FALSE, ![o].live = 0]
    /\ UNCHANGED <<bits, kept, file, program>>

(* The destructor of XAieRsc calls release(), free() or stop() when the    *)
(* part of the object that overrides _release(), _free() and _stop() is    *)
(* gone: the manager is not told.  Another object may be made.             *)
Destroy(o) ==
    /\ obj' = [obj EXCEPT ![o] = Fresh]
    /\ UNCHANGED <<bits, kept, file, program>>

-----------------------------------------------------------------------------
(* The operations of the manager.                                          *)

ShimIds == [i \in 1 .. (MaxErrorBcs - 1) * Len(ShimSites) |->
              Rsc(ShimSites[((i - 1) % Len(ShimSites)) + 1], "broadcast",
                  (i - 1) \div Len(ShimSites) + 1)]

(* Mutant: a failure frees the channels of the shim tiles, granted or not. *)
ReserveErrorHandling_FreesAll ==
    LET bc == RequestBc(Partition, ErrorBcast, bits)
        shim == RequestAllocated(ShimIds, bits \cup bc.set)
    IN  /\ bc.end = "ok"
        /\ bits' = IF shim.end = "ok" THEN bits \cup bc.set \cup shim.set
                   ELSE (bits \cup bc.set) \ {RuntimeBit(r) : r \in Existing(ShimIds)}
        /\ kept' = IF shim.end = "ok" THEN kept \cup Existing(bc.rscs) \cup Existing(ShimIds)
                   ELSE kept
        /\ UNCHANGED <<obj, file, program>>

(* A channel of the whole partition, and more channels of the shim tiles.  *)
(* If these cannot be had the first one stays reserved, for nobody.        *)
ReserveErrorHandling ==
    LET bc == RequestBc(Partition, ErrorBcast, bits)
        shim == RequestAllocated(ShimIds, bits \cup bc.set)
    IN  /\ bc.end = "ok"
        /\ bits' = bits \cup bc.set \cup shim.set
        /\ kept' = IF shim.end = "ok" THEN kept \cup Existing(bc.rscs) \cup Existing(ShimIds)
                   ELSE kept
        /\ UNCHANGED <<obj, file, program>>

EccPerfs == {Rsc(Partition[i], "perf", EccPerf) :
                i \in {k \in DOMAIN Partition : Site[Partition[k]].module = "core"}}

(* A channel of the whole partition and a counter of each core.  If one    *)
(* cannot be had nothing stays reserved.                                   *)
ReserveEcc ==
    LET bc == RequestBc(Partition, EccBcast, bits)
    IN  /\ bc.end = "ok"
        /\ \A r \in EccPerfs : ~Busy(r, bits)
        /\ bits' = bits \cup bc.set \cup {RuntimeBit(r) : r \in EccPerfs}
        /\ kept' = kept \cup Existing(bc.rscs) \cup (EccPerfs \cap Units)
        /\ UNCHANGED <<obj, file, program>>

Regions == {<<Site[s].type, Site[s].module, t>> : s \in Sites, t \in RscTypes}
RegionSize(g) == Tiles[g[1]] * MaxRscs[g]
RegionOffset(g) == ModOffset(g[1], g[2], g[3])

(* The run-time bits of a region, from the word it starts in, by position. *)
Payload(g, bs) ==
    {p \in 0 .. RoundUp(RegionSize(g)) - 1 :
        <<<<g[1], g[3]>>, (RegionOffset(g) \div WORD) * WORD + p>> \in bs}

saveAllocatedRscs ==
    /\ file' = [g \in Regions |-> Payload(g, bits)]
    /\ UNCHANGED <<bits, obj, kept, program>>

(* Mutant: positions are counted from the start of the region.             *)
LoadedBits_Runtime(f) ==
    UNION {{<<<<g[1], g[3]>>, (RegionOffset(g) \div WORD) * WORD + p>> :
               p \in {q \in f[g] : q <= RegionSize(g)}} : g \in DOMAIN f}

(* Positions of a file become bits counted from the word in which the      *)
(* static bits of the region start.                                        *)
LoadedBits(f) ==
    UNION {{<<<<g[1], g[3]>>, ((RegionOffset(g) + RegionSize(g)) \div WORD) * WORD + p>> :
               p \in {q \in f[g] : q <= RegionSize(g)}} : g \in DOMAIN f}

loadStaticRscs(f) ==
    /\ bits' = bits \cup LoadedBits(f)
    /\ UNCHANGED <<obj, kept, file, program>>

-----------------------------------------------------------------------------
ObjectNext(o) ==
    \/ \E id \in Object[o].ids, static \in BOOLEAN : SetPreferredId(o, id, static)
    \/ Reserve(o)
    \/ Release(o)
    \/ Free(o)
    \/ Start(o)
    \/ \E n \in 1 .. Len(obj[o].bcs) : StartFails(o, n)
    \/ Stop(o)
    \/ Destroy(o)

Next ==
    \/ \E o \in DOMAIN Object : ObjectNext(o)
    \/ program.protects /\ (ReserveErrorHandling \/ ReserveEcc)
    \/ program.saves /\ (saveAllocatedRscs \/ \E f \in Metadata : loadStaticRscs(f))
    \/ program.saves /\ file # NoFile /\ loadStaticRscs(file)

Spec == Init /\ [][Next]_vars
-----------------------------------------------------------------------------
(* Assumptions.                                                            *)

TileTypes == {"aie", "memtile", "shim"}
ModulesOf(type) == CASE type = "aie" -> {"mem", "core"}
                     [] type = "memtile" -> {"mem"}
                     [] OTHER -> {"pl"}

ASSUME GeometryAssumption ==
    /\ WORD \in Nat \ {0}
    /\ Tiles \in [TileTypes -> Nat]
    /\ MaxRscs \in [TileTypes \X Modules \X RscTypes -> Nat]
    /\ Site \in [Sites -> [type : TileTypes, module : Modules, index : Nat]]
    /\ \A s \in Sites : /\ Site[s].module \in ModulesOf(Site[s].type)
                        /\ Site[s].index < Tiles[Site[s].type]
    /\ \A s, x \in Sites : Site[s] = Site[x] => s = x
    /\ \A s \in Sites : Site[s].type = "aie" =>
          \E x \in Sites : /\ Site[x].type = "aie"
                           /\ Site[x].index = Site[s].index
                           /\ Site[x].module # Site[s].module
    /\ Partition \in Seq(Sites)
    /\ ShimSites \in Seq(Sites)

ASSUME ObjectAssumption ==
    /\ Manager \notin Objects
    /\ ErrorBcast \in Nat /\ EccBcast \in Nat /\ EccPerf \in Nat
    /\ MaxErrorBcs \in Nat \ {0}
    /\ \A p \in Programs : DOMAIN p.object \subseteq Objects

(* The arguments of the constructors.  A trace uses events of another      *)
(* module in AIE tiles only.                                               *)
ASSUME ArgumentAssumption ==
    \A p \in Programs : \A o \in DOMAIN p.object :
        LET c == p.object[o]
        IN  /\ c.class \in DOMAIN TypeOf
            /\ c.site \in Sites
            /\ c.size \in Nat \ {0}
            /\ c.id \in Nat
            /\ c.path \in Seq(Sites)
            /\ c.class = "trace" /\ EventsFrom(c, c.site) # {} => Site[c.site].type = "aie"
            /\ c.ids \subseteq Nat \cup {ANY}

ASSUME MetadataAssumption ==
    \A f \in Metadata : DOMAIN f \subseteq Regions /\ \A g \in DOMAIN f : f[g] \subseteq Nat

(* All modules have as many broadcast channels.                            *)
UniformBroadcast ==
    \A s, x \in Sites : getMaxRsc(s, "broadcast") = getMaxRsc(x, "broadcast")

(* The bits of a module lie in one word, for the types asked for in runs.  *)
InOneWord ==
    \A s \in Sites, t \in {"pc", "combo"} :
        \A b \in {getStartBit(s, t), getStartBit(s, t) + getStaticOff(s, t)} :
            getMaxRsc(s, t) > 0 => (b % WORD) + getMaxRsc(s, t) <= WORD

-----------------------------------------------------------------------------
(* Properties.                                                             *)

Resources == [site : Sites, type : RscTypes, id : Nat \cup {ANY}]
Bits == (TileTypes \X RscTypes) \X Nat

(* The types of the variables: bitmaps, objects with their vRscs and       *)
(* channels, the units kept by the manager and the file.                   *)
TypeOK ==
    /\ bits \subseteq Bits
    /\ obj \in [Objects -> [preferred : Nat \cup {ANY}, reserved : BOOLEAN,
                            prereserved : BOOLEAN, running : BOOLEAN,
                            rscs : Seq(Resources), bcs : Seq(Resources), live : Nat]]
    /\ kept \subseteq Units
    /\ file = NoFile \/ file \in [Regions -> SUBSET Nat]
    /\ program \in Programs

(* A hardware unit is not handed to two clients, whichever of the four     *)
(* kinds of request the two made (XAieRscMgr::request), however they and   *)
(* others retried, released, freed or were destroyed in between.           *)
NoTwoOwners ==
    \A x, y \in Owners : x # y => HeldBy(x) \cap HeldBy(y) = {}

(* A unit in use is marked in the run-time bitmap: no release or free of   *)
(* another client has reset a bit that stands for it.                      *)
HeldMarked ==
    \A x \in Owners : \A u \in HeldBy(x) : RuntimeBit(u) \in bits

Leaked == {u \in Units : RuntimeBit(u) \in bits /\ \A x \in Owners : u \notin HeldBy(x)}

Regular(o) ==
    /\ Object[o].class # "trace"
    /\ \A i \in DOMAIN Requested(o) :
          Requested(o)[i].id # getMaxRsc(Requested(o)[i].site, Requested(o)[i].type)

(* No unit becomes occupied for nobody when reserve() fails half way or    *)
(* release() ends, but for what the README lists: a trace control whose    *)
(* channels cannot be had, an id one too high, a run of resources that     *)
(* spills into the next module, a channel still started.                   *)
NoNewLeak ==
    [][\A o \in DOMAIN Object :
          \/ /\ Reserve(o) /\ Regular(o)
             /\ obj[o].reserved' => \A i \in DOMAIN obj[o].rscs' : obj[o].rscs'[i] \in Units
          \/ Release(o) /\ obj[o].live = 0
          => Leaked' \subseteq Leaked]_vars

WholeWords(s, t) ==
    \A g \in Regions : g[1] = Site[s].type /\ g[3] = t => RegionSize(g) % WORD = 0

(* A file saved holds, for every module whose bits fill whole words, the   *)
(* units occupied at that time, and loading it marks exactly these as      *)
(* statically allocated.                                                   *)
RoundTrip ==
    [][saveAllocatedRscs =>
          \A u \in Units : WholeWords(u.site, u.type) =>
              (StaticBit(u) \in LoadedBits(file') <=> RuntimeBit(u) \in bits)]_vars

Pool == INSTANCE FalPool WITH
            Units <- Units, Owners <- Owners,
            owned <- [x \in Owners |-> HeldBy(x)],
            closed <- {u \in Units : Busy(u, bits)}

(* The manager and its clients behave as a pool of units, each on offer,   *)
(* owned, or off offer: a reserve takes only units on offer, and only the  *)
(* owner of a unit puts it back.                                           *)
Implements == Pool!Spec
=============================================================================
