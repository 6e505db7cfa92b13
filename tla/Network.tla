------------------------------ MODULE Network ------------------------------
(* The event broadcast network of a device partition and the four users of
   it: the error interrupts (XAie_ErrorHandlingInit), the timer
   synchronisation (XAie_SyncTimer), the broadcast routes of the resource
   layer (XAieBroadcast) and the ECC scrubbing trigger of the ELF loader.

   Each of them programs blocks, broadcasts and interrupt controllers tile by
   tile; whether an event then arrives where it should, and nowhere else, is
   a question about all those registers together with the wiring of the
   array.  The wiring is not in the source: it is stated under "Wiring" from
   what the source says of it, and everything else is the code's writes.     *)
EXTENDS Integers, Sequences, SequencesExt, FiniteSets

CONSTANTS
    Instances,   \* the partitions: generation, columns, memory tile rows, core
                 \* tile rows, for each column the highest ungated row, and a
                 \* bound on the calls of a behaviour
    Channels,    \* the channels callers ask for
    Paths,       \* the tile sequences routes are asked for
    Calls        \* the calls the environment makes

VARIABLES
    inst,        \* the partition
    hw,          \* the registers of its event modules
    plan,        \* the steps the call in progress still has to make
    call,        \* the call in progress, or the last one
    rc,          \* what it returned
    reset,       \* the timers the last generated event has reset
    done         \* the calls made so far

vars == <<inst, hw, plan, call, rc, reset, done>>

----------------------------------------------------------------------------
(* Tiles, modules and events. *)

Gens == {"AIE", "AIEML", "AIE2IPU", "AIE2P", "AIE2PS", "AIE4"}
Gen == inst.gen
IsAie4 == Gen = "AIE4"
Cols == 0..(inst.cols - 1)
MemRows == 1..inst.mem
AieRows == (inst.mem + 1)..(inst.mem + inst.aie)
Rows == 0..(inst.mem + inst.aie)
Ungated(c, r) == r <= inst.up[c]

Core(c, r) == <<c, r, "core">>
Mem(c, r) == <<c, r, "mem">>
Pl(c) == <<c, 0, "pl">>
ModulesOf(c, r) ==
    IF r = 0 THEN {Pl(c)}
    ELSE IF r \in MemRows THEN {Mem(c, r)}
    ELSE IF IsAie4 THEN {Core(c, r)} ELSE {Core(c, r), Mem(c, r)}
Modules == UNION {ModulesOf(c, r) : c \in Cols, r \in Rows}

NumIds == 16
ShimIntr == 16             \* the L1 input of the shim tile's own errors
Err == <<"err", 0>>        \* the group of errors of a module
UcErr == <<"uc", 0>>
User1 == <<"user1", 0>>
Perf0 == <<"perf0", 0>>
UserGroup == <<"usergroup", 0>>
None == <<"none", 0>>
Bc(id) == <<"bc", id>>     \* an arriving broadcast is an event too

\* XAIEGBL_TILE_TYPE_SHIMNOC: the shim tiles with an interface to the NoC, and
\* so with a second-level interrupt controller.
IsNoc(c) ==
    CASE Gen \in {"AIE", "AIEML"} -> c % 4 \in {2, 3}
      [] Gen = "AIE2IPU" -> c # 0
      [] OTHER -> TRUE

\* The tiles of the partition in the order the loops visit them, and those that
\* are not clock gated.
AllLocs ==
    [i \in 1..(inst.cols * (inst.mem + inst.aie + 1)) |->
        LET n == inst.mem + inst.aie + 1 IN <<(i - 1) \div n, (i - 1) % n>>]
UngatedLocs == SelectSeq(AllLocs, LAMBDA l : Ungated(l[1], l[2]))
ShimLocs == [i \in 1..inst.cols |-> <<i - 1, 0>>]

----------------------------------------------------------------------------
(* Wiring.  A tile has a broadcast switch on its west and one on its east side
   (AIE4: one switch).  Switches pass broadcasts on to the switches above, below
   and beside them.  A shim or memory tile calls them switch A and switch B; in
   a core tile the west one belongs to the core module and the east one to the
   memory module, the other way round in the even rows of the checkerboard of
   the first generation. *)

Checkerboard == Gen = "AIE"
CoreSide(r) == IF Checkerboard /\ r % 2 = 0 THEN "E" ELSE "W"
Other(side) == IF side = "W" THEN "E" ELSE "W"
SideOf(m, sw) ==
    IF IsAie4 THEN "W"
    ELSE IF m[2] \notin AieRows THEN (IF sw = "A" THEN "W" ELSE "E")
    ELSE IF m[3] = "core" THEN CoreSide(m[2]) ELSE Other(CoreSide(m[2]))
Node(m, sw) == <<m[1], m[2], SideOf(m, sw)>>
NodesOf(m) ==
    IF m[2] \notin AieRows THEN {Node(m, "A"), Node(m, "B")} ELSE {Node(m, "A")}

Dirs == {"N", "S", "E", "W"}
\* The switch next to node n in direction d (possibly outside the partition).
Beside(n, d) ==
    CASE d = "N" -> <<n[1], n[2] + 1, n[3]>>
      [] d = "S" -> <<n[1], n[2] - 1, n[3]>>
      [] d = "E" -> IF n[3] = "W" /\ ~IsAie4 THEN <<n[1], n[2], "E">>
                    ELSE <<n[1] + 1, n[2], "W">>
      [] OTHER   -> IF n[3] = "E" THEN <<n[1], n[2], "W">>
                    ELSE <<n[1] - 1, n[2], IF IsAie4 THEN "W" ELSE "E">>
Exists(n) == n[1] \in Cols /\ n[2] \in Rows /\ Ungated(n[1], n[2])

\* A broadcast under way: the switch it has arrived at, its channel, and whether it
\* is the interrupt of a first-level controller.  Those stay in the "shim tile's
\* broadcast network" (xaie_interrupt_init.c 1559), the switches of the shim row.
At(n, id, irq) == <<n, id, irq>>

\* Switches pass a broadcast on where they do not block its channel; the first-level
\* controller keeps some of the channels of the array out of the shim row.
Passes(h, s, d) ==
    LET n == Beside(s[1], d) IN
    /\ Exists(n)
    /\ <<s[1], s[2], d>> \notin h.blk
    /\ s[3] => d \in {"E", "W"}
    /\ (n[2] = 0 /\ d = "S") => <<n[1], n[3], s[2]>> \notin h.l1blk
Forwarded(h, S) ==
    {At(Beside(x[1][1], x[2]), x[1][2], x[1][3]) :
        x \in {x \in S \X Dirs : Passes(h, x[1], x[2])}}

\* A first-level controller raises its interrupt for the enabled channels that come
\* down to it from the array.
L1Raised(h, S) ==
    {At(<<q[1], 0, q[2]>>, q[3], TRUE) : q \in
        {q \in h.l1irq : \E s \in S : /\ s[1] = <<q[1], 1, q[2]>>
                                       /\ <<q[1], q[2], s[2]>> \in h.l1en
                                       /\ <<s[1], s[2], "S">> \notin h.blk}}

\* A module broadcasts the events it is told to; an arriving broadcast counts.
Raised(h, m, e) ==
    {At(n, b[2], FALSE) : n \in NodesOf(m), b \in {b \in h.bc : b[1] = m /\ b[3] = e}}
Chained(h, S) ==
    UNION {UNION {Raised(h, m, Bc(s[2])) : s \in {t \in S : t[1] \in NodesOf(m)}} :
            m \in {b[1] : b \in {x \in h.bc : x[3][1] = "bc"}}}

\* All the switches the broadcasts in S arrive at.
RECURSIVE Flood(_, _, _)
Flood(h, seen, new) ==
    IF new = {} THEN seen
    ELSE LET next == Forwarded(h, new) \cup L1Raised(h, new) \cup Chained(h, new)
         IN Flood(h, seen \cup next, next \ seen)
Heard(h, S) == Flood(h, S, S)
Nodes(S) == {s[1] : s \in S}

\* What an error of module m sets off.
ErrorSeeds(h, m) ==
    Raised(h, m, Err) \cup
    {At(<<q[1], 0, q[2]>>, q[3], TRUE) : q \in
        {q \in h.l1irq : /\ m = Pl(q[1]) /\ q[2] = "W"
                         /\ q[1] \in h.l1ev
                         /\ <<q[1], "W", ShimIntr>> \in h.l1en}}

\* The second-level controllers that hear an error of module m, and on which of
\* their enabled channels.
L2Node(c) == <<c, 0, IF IsAie4 THEN "W" ELSE "E">>
L2Heard(h, m) ==
    LET all == {<<s[1], s[2]>> : s \in Heard(h, ErrorSeeds(h, m))} IN
    {q \in h.l2 : <<L2Node(q[1]), q[2]>> \in all}

----------------------------------------------------------------------------
(* The register writes of the events API and of the interrupt controllers. *)

EmptyHw ==
    [blk |-> {}, bc |-> {}, grp |-> {}, l1blk |-> {}, l1en |-> {}, l1irq |-> {},
     l1ev |-> {}, l2 |-> {}, halt |-> {}, tmr |-> {}, eccMem |-> {}, eccCore |-> {},
     perf |-> {}, memUse |-> {}, coreUse |-> {}]

\* XAie_EventBroadcastBlockMapDir, XAie_EventBroadcastBlockDir: the block
\* registers are write-one-to-set.
Block(h, m, sw, ids, dirs) ==
    [h EXCEPT !.blk = @ \cup {<<Node(m, sw), id, d>> : id \in ids, d \in dirs}]
\* XAie_EventBroadcastUnblockDir
Unblock(h, m, sw, ids, dirs) ==
    [h EXCEPT !.blk = @ \ {<<Node(m, sw), id, d>> : id \in ids, d \in dirs}]
\* XAie_EventBroadcast: one register per channel
Broadcast(h, m, id, e) ==
    [h EXCEPT !.bc = {b \in @ : ~(b[1] = m /\ b[2] = id)}
                     \cup (IF e = None THEN {} ELSE {<<m, id, e>>})]
\* XAie_SetTimerResetEvent
TimerResets(h, m, e) ==
    [h EXCEPT !.tmr = {t \in @ : t[1] # m} \cup (IF e = None THEN {} ELSE {<<m, e>>})]
GroupErrors(h, m) == [h EXCEPT !.grp = @ \cup {m}]
L1Enable(h, c, sides, id) == [h EXCEPT !.l1en = @ \cup {<<c, s, id>> : s \in sides}]
L1Block(h, c, ids) == [h EXCEPT !.l1blk = @ \cup {<<c, s, id>> : s \in {"W", "E"}, id \in ids}]
L1IrqSet(h, c, side, id) ==
    [h EXCEPT !.l1irq = {q \in @ : ~(q[1] = c /\ q[2] = side)} \cup {<<c, side, id>>}]
L2Mask == IF IsAie4 THEN 0..16 ELSE 0..5
L2Enable(h, c) ==
    IF IsNoc(c) THEN [h EXCEPT !.l2 = @ \cup {<<c, id>> : id \in L2Mask}] ELSE h

----------------------------------------------------------------------------
(* Error interrupts: the generations before AIE2PS, column by column. *)

\* _XAie_FindNextNoCTile finds one
HasNextNoc(c) == \E n \in Cols : n > c /\ IsNoc(n)

\* IntrCtrlL1IrqId: the channel on which a first-level controller raises its
\* interrupt in the shim row; sw is 0 for switch A and 1 for switch B.
IrqIdAie(c, sw) ==
    ((c % 4) % 3) * 2 + sw + (IF c + 3 > inst.cols THEN 2 ELSE 0)
\* Mutant: columns after the last NoC tile count like the others.
IrqIdMlNoShift(c, sw) ==
    IF IsNoc(c) THEN (IF c % 4 = 2 THEN 4 ELSE 0) + sw ELSE (c % 4) * 2 + sw
IrqIdMl(c, sw) ==
    IF IsNoc(c) THEN (IF c % 4 = 2 THEN 4 ELSE 0) + sw
    ELSE (c % 4) * 2 + sw + (IF (c \div 4) * 4 + 2 < inst.cols THEN 0 ELSE 2)
IrqIdIpu(c, sw) == IF IsNoc(c) /\ c = 1 THEN 2 + sw ELSE sw
IrqId2ps(c, sw) == sw
IrqId(c, sw) ==
    CASE Gen = "AIE" -> IrqIdAie(c, sw)
      [] Gen = "AIE2IPU" -> IrqIdIpu(c, sw)
      [] Gen = "AIE2PS" -> IrqId2ps(c, sw)
      [] OTHER -> IrqIdMl(c, sw)

\* The array part: errors run south only, in core and in memory tiles.
ArrayRouted(h, m) ==
    FoldSet(LAMBDA sw, a : Block(a, m, sw, {0}, {"N", "E", "W"}), h,
            IF m[2] \in MemRows /\ ~IsAie4 THEN {"A", "B"} ELSE {"A"})
ArrayColumn(h, c) ==
    FoldSet(LAMBDA m, a : ArrayRouted(a, m), h,
            {m \in Modules : m[1] = c /\ m[2] > 0 /\ Ungated(c, m[2])})

\* The first-level controllers take channel 0 out of the array and put it on the
\* channel of their column.
L1Ctrl(h, c) ==
    L1IrqSet(L1IrqSet(
        L1Enable(L1Enable(L1Block(h, c, {0}), c, {"W", "E"}, 0), c, {"W"}, ShimIntr),
        c, "W", IrqId(c, 0)), c, "E", IrqId(c, 1))

\* The shim row: the channels of the columns run towards the closest NoC tile
\* and end there.
ShimNoc(h, c) ==
    LET stops == IF HasNextNoc(c) THEN 0..IrqId(c, 1) ELSE 0..5 IN
    Block(L2Enable(Block(h, Pl(c), "B", stops, Dirs), c),
          Pl(c), "A", {IrqId(c, 0)}, {"N", "S", "W"})
\* Mutant: every column routes its interrupts to the east.
ShimPlEast(h, c) ==
    LET dirs == {"N", "S", "W"} IN
    Block(Block(h, Pl(c), "B", {IrqId(c, 1)}, dirs), Pl(c), "A", {IrqId(c, 0)}, dirs)
ShimPl(h, c) ==
    LET dirs == {"N", "S"} \cup (IF HasNextNoc(c) THEN {"W"} ELSE {"E"}) IN
    Block(Block(h, Pl(c), "B", {IrqId(c, 1)}, dirs), Pl(c), "A", {IrqId(c, 0)}, dirs)
InitAieColumn(h, c) ==
    LET g == L1Ctrl(ArrayColumn(h, c), c) IN
    IF IsNoc(c) THEN ShimNoc(g, c) ELSE ShimPl(g, c)

----------------------------------------------------------------------------
(* Error interrupts: AIE2PS and AIE4, tile by tile. *)

Aie2psAieTile(h, c, r) ==
    FoldSet(LAMBDA m, a : Block(ArrayRouted(a, m), m, "A", {1, 2}, Dirs), h,
            {Core(c, r), Mem(c, r)})
\* The channel map is the ids themselves or-ed together, not their bits.
MemTileMap == {0, 1}
Aie2psMemTile(h, c, r) ==
    FoldSet(LAMBDA sw, a : Block(a, Mem(c, r), sw, MemTileMap, Dirs),
            ArrayRouted(h, Mem(c, r)), {"A", "B"})
Aie2psCol0(h, c) ==
    LET user == FoldSet(LAMBDA sw, a : Block(a, Pl(c), sw, {2}, {"N", "W", "S"}), h, {"A", "B"})
    IN Block(Block(user, Pl(c), "A", {0, 1}, {"N", "W", "S"}), Pl(c), "B", {0, 1}, Dirs)
Aie2psLeadCol(h, c) ==
    LET west == FoldSet(LAMBDA sw, a : Block(a, Pl(c), sw, {0, 1}, {"N", "E", "S"}), h, {"A", "B"})
    IN Block(Block(west, Pl(c), "A", {2}, {"N", "W", "S"}), Pl(c), "B", {2}, Dirs)
Aie2psShimTile(h, c) ==
    FoldSet(LAMBDA sw, a : Block(a, Pl(c), sw, {2}, {"N", "E", "S"}),
            Block(Block(h, Pl(c), "A", {0, 1}, {"N", "W", "S"}), Pl(c), "B", {0, 1}, Dirs),
            {"A", "B"})
Aie2psL1Ctrl(h, c) ==
    LET ids == IF c = 1 THEN {2} ELSE {0, 1}
        on == FoldSet(LAMBDA id, a : L1Enable(a, c, {"W", "E"}, id), L1Block(h, c, {0, 1, 2}), ids)
    IN L1IrqSet(L1IrqSet(on, c, "W", IrqId(c, 0)), c, "E", IrqId(c, 1))
InitAie2psTile(h, c, r) ==
    IF r \in AieRows THEN Aie2psAieTile(h, c, r)
    ELSE IF r \in MemRows THEN Aie2psMemTile(h, c, r)
    ELSE LET g == L2Enable(Aie2psL1Ctrl(h, c), c) IN
         CASE c = 0 -> Aie2psCol0(g, c)
           [] c = 1 -> Aie2psLeadCol(g, c)
           [] OTHER -> Aie2psShimTile(g, c)

Aie4AieTile(h, c, r) == ArrayRouted(h, Core(c, r))
Aie4MemTile(h, c, r) == ArrayRouted(h, Mem(c, r))
Aie4ShimTile(h, c) == Block(h, Pl(c), "A", {0}, Dirs)
InitAie4Tile(h, c, r) ==
    IF r \in AieRows THEN Aie4AieTile(h, c, r)
    ELSE IF r \in MemRows THEN Aie4MemTile(h, c, r)
    ELSE Aie4ShimTile(L2Enable(h, c), c)

----------------------------------------------------------------------------
(* Error interrupts: the errors themselves, once everything is routed. *)

\* _XAie_GroupErrorInit for one tile
GroupErrorTile(h, c, r) ==
    FoldSet(LAMBDA m, a : Broadcast(GroupErrors(a, m), m, 0, Err), h, ModulesOf(c, r))
GroupErrorShim(h, c) ==
    LET g == GroupErrors(h, Pl(c)) IN
    CASE Gen = "AIE2PS" ->
            Broadcast(Broadcast(Broadcast(g, Pl(c), 0, Err), Pl(c), 1, UcErr), Pl(c), 2, User1)
      [] IsAie4 -> Broadcast(g, Pl(c), 0, Err)
      [] OTHER -> [g EXCEPT !.l1ev = @ \cup {c}]
\* The loop takes the core tiles of a column, its memory tiles, its shim tile.
GroupErrorOrder(c) ==
    SetToSortSeq({r \in Rows : Ungated(c, r)},
                 LAMBDA a, b : LET rank(r) == IF r \in AieRows THEN r
                                              ELSE 100 + r + (IF r = 0 THEN 100 ELSE 0)
                               IN rank(a) < rank(b))
HaltTile(h, c, r) == [h EXCEPT !.halt = @ \cup {<<c, r>>}]

----------------------------------------------------------------------------
(* Timer synchronisation. *)

\* _XAie_SetupBroadcastConfig for one tile
SyncBlockTile(h, c, r, id) ==
    IF r \in AieRows THEN
        IF IsAie4 THEN Block(h, Core(c, r), "A", {id}, {"W"})
        ELSE LET east == IF CoreSide(r) = "E" THEN Core(c, r) ELSE Mem(c, r)
                 west == IF CoreSide(r) = "E" THEN Mem(c, r) ELSE Core(c, r)
             IN Block(Block(h, west, "A", {id}, {"W"}), east, "A", {id}, {"E"})
    ELSE IF r # 0 THEN Block(h, Mem(c, r), "A", {id}, {"W", "E"}) ELSE h
\* Mutant: only the west is unblocked.
SyncUnblockWest(h, c, r, id) ==
    IF r = 0 THEN h
    ELSE FoldSet(LAMBDA m, a : Unblock(a, m, "A", {id}, {"W"}), h, ModulesOf(c, r))
\* _XAie_ClearBroadcastConfig for one tile
SyncUnblockTile(h, c, r, id) ==
    IF r = 0 THEN h
    ELSE FoldSet(LAMBDA m, a : Unblock(a, m, "A", {id}, {"W", "E"}), h, ModulesOf(c, r))
\* _XAie_SetupTimerConfig and _XAie_ClearTimerConfig for one tile
SyncTimerTile(h, c, r, id) ==
    FoldSet(LAMBDA m, a : TimerResets(a, m, Bc(id)), h, ModulesOf(c, r))
SyncTimerClear(h, c, r) ==
    FoldSet(LAMBDA m, a : TimerResets(a, m, None), h, ModulesOf(c, r))
\* Every shim tile answers the trigger with the channel; the first one also
\* sends the trigger round.
SyncShim(h, c, id, trigger) ==
    LET g == Broadcast(h, Pl(c), id, Bc(trigger)) IN
    IF c = 0 THEN Broadcast(g, Pl(c), trigger, Bc(trigger)) ELSE g
SyncShimClear(h, c, id) == Broadcast(h, Pl(c), id, None)
\* XAie_EventGenerate in the first shim tile: the timers it resets
TimersHit(h, trigger) ==
    LET all == Heard(h, Raised(h, Pl(0), Bc(trigger))) IN
    {t[1] : t \in {t \in h.tmr : \E n \in NodesOf(t[1]), id \in 0..(NumIds - 1) :
                                    t[2] = Bc(id) /\ At(n, id, FALSE) \in all}}

----------------------------------------------------------------------------
(* Broadcast routes of the resource layer. *)

\* The direction from tile a to a neighbour b.
Towards(a, b) ==
    CASE b[1] < a[1] -> "W" [] b[1] > a[1] -> "E" [] b[2] > a[2] -> "N" [] OTHER -> "S"
PathDirs(p, i) ==
    (IF i > 1 THEN {Towards(p[i], p[i - 1])} ELSE {})
    \cup (IF i < Len(p) THEN {Towards(p[i], p[i + 1])} ELSE {})
\* Everything is unblocked, then all but dirs is blocked.
OpenOnly(h, m, sw, id, dirs) == Block(Unblock(h, m, sw, {id}, Dirs), m, sw, {id}, Dirs \ dirs)
\* Mutant: no checkerboard
RouteTileFlat(h, p, i, id) ==
    LET c == p[i][1]
        r == p[i][2]
        dirs == PathDirs(p, i)
    IN IF IsAie4 THEN
           OpenOnly(h, CHOOSE m \in ModulesOf(c, r) : TRUE, "A", id, dirs)
       ELSE IF r \in AieRows THEN
           OpenOnly(OpenOnly(h, Core(c, r), "A", id, dirs \cup {"E"}),
                    Mem(c, r), "A", id, dirs \cup {"W"})
       ELSE LET m == CHOOSE m \in ModulesOf(c, r) : TRUE IN
           OpenOnly(OpenOnly(h, m, "A", id, dirs \cup {"E"}), m, "B", id, dirs \cup {"W"})
RouteTile(h, p, i, id) ==
    LET c == p[i][1]
        r == p[i][2]
        dirs == PathDirs(p, i)
        inner == IF r \in AieRows /\ CoreSide(r) = "E" THEN "W" ELSE "E"
    IN IF IsAie4 THEN
           OpenOnly(h, CHOOSE m \in ModulesOf(c, r) : TRUE, "A", id, dirs)
       ELSE IF r \in AieRows THEN
           OpenOnly(OpenOnly(h, Core(c, r), "A", id, dirs \cup {inner}),
                    Mem(c, r), "A", id, dirs \cup {Other(inner)})
       ELSE LET m == CHOOSE m \in ModulesOf(c, r) : TRUE IN
           OpenOnly(OpenOnly(h, m, "A", id, dirs \cup {"E"}), m, "B", id, dirs \cup {"W"})
RouteStopTile(h, c, r, id) ==
    FoldSet(LAMBDA m, a :
                LET g == Unblock(a, m, "A", {id}, Dirs) IN
                IF r = 0 THEN Unblock(g, m, "B", {id}, Dirs) ELSE g,
            h, ModulesOf(c, r))
\* setRscs accepts the path.
PathOk(p) ==
    \A i \in 1..(Len(p) - 1) :
        LET a == p[i]
            b == p[i + 1]
        IN a # b /\ IF a[2] # b[2] THEN a[1] = b[1] /\ a[2] - b[2] \in {-1, 1}
                                   ELSE a[1] - b[1] \in {-1, 1}

----------------------------------------------------------------------------
(* ECC scrubbing, switched on by the ELF loader. *)

EccGens == Gens \ {"AIE2IPU", "AIE2P", "AIE4"}
EccPerf(h, c, r) == [h EXCEPT !.perf = @ \cup {Core(c, r)}]
\* Mutant: the memory module passes the event on.
EccOnDMOpen(h, c, r) ==
    IF Mem(c, r) \in h.memUse THEN h
    ELSE LET g == Broadcast(
                      Block([h EXCEPT !.eccMem = @ \cup {Mem(c, r)}],
                            Core(c, r), "A", {6}, {"S", "W", "N"}),
                      Core(c, r), 6, Perf0)
             f == IF Core(c, r) \in h.coreUse THEN g ELSE EccPerf(g, c, r)
         IN [f EXCEPT !.memUse = @ \cup {Mem(c, r)}]
EccOnDM(h, c, r) ==
    IF Mem(c, r) \in h.memUse THEN h
    ELSE LET g == Broadcast(
                      Block(Block([h EXCEPT !.eccMem = @ \cup {Mem(c, r)}],
                                  Core(c, r), "A", {6}, {"S", "W", "N"}),
                            Mem(c, r), "A", {6}, Dirs),
                      Core(c, r), 6, Perf0)
             f == IF Core(c, r) \in h.coreUse THEN g ELSE EccPerf(g, c, r)
         IN [f EXCEPT !.memUse = @ \cup {Mem(c, r)}]
EccOnPM(h, c, r) ==
    LET g == [h EXCEPT !.eccCore = @ \cup {Core(c, r)}] IN
    IF Mem(c, r) \in h.memUse THEN g
    ELSE [EccPerf(g, c, r) EXCEPT !.coreUse = @ \cup {Core(c, r)}]
EccEvntResetPM(h, c, r) == [h EXCEPT !.eccCore = @ \ {Core(c, r)}]

----------------------------------------------------------------------------
(* The calls, as the steps they make: one per tile of each loop. *)

Step(do, l, id) == [do |-> do, c |-> l[1], r |-> l[2], id |-> id]
Over(do, locs, id) == [i \in 1..Len(locs) |-> Step(do, locs[i], id)]
FlattenPlans(s) == FoldLeft(LAMBDA a, b : a \o b, <<>>, s)

ErrInitPlan ==
    (CASE Gen = "AIE2PS" -> Over("tile2ps", UngatedLocs, 0)
       [] IsAie4 -> Over("tile4", UngatedLocs, 0)
       [] OTHER -> Over("column", ShimLocs, 0))
    \o FlattenPlans([c \in 1..inst.cols |->
            LET rows == GroupErrorOrder(c - 1) IN
            [i \in 1..Len(rows) |-> Step("group", <<c - 1, rows[i]>>, 0)]])
    \o Over("halt", SelectSeq(UngatedLocs, LAMBDA l : l[2] \in AieRows), 0)

\* The channel after the last one is refused where it is first used as one; what was
\* written before stays.  The event of that number, though, is the one which follows
\* the last broadcast: on AIE the group of user events, which the first shim tile
\* broadcasts by then, on the others none.
SyncOverrun(h, id) == IF Gen = "AIE" THEN Broadcast(h, Pl(0), id, UserGroup) ELSE h
SyncPlan(id, trigger) ==
    Over("block", UngatedLocs, id)
    \o (IF trigger >= NumIds THEN <<Step("overrun", <<0, 0>>, id)>>
        ELSE Over("shim", ShimLocs, id)
             \o Over("timer", UngatedLocs, id)
             \o <<Step("generate", <<0, 0>>, trigger)>>
             \o Over("untimer", UngatedLocs, id)
             \o Over("unblock", UngatedLocs, id)
             \o Over("unshim", ShimLocs, id))

\* The program's data may lie in the memories of neighbouring tiles.
ElfPlan(l, data) ==
    (IF Gen = "AIE" THEN <<Step("eccReset", l, 0)>> ELSE <<>>)
    \o Over("eccDM", data, 0) \o <<Step("eccPM", l, 0)>>

Apply(h, s) ==
    CASE s.do = "column"   -> InitAieColumn(h, s.c)
      [] s.do = "tile2ps"  -> InitAie2psTile(h, s.c, s.r)
      [] s.do = "tile4"    -> InitAie4Tile(h, s.c, s.r)
      [] s.do = "group"    -> IF s.r = 0 THEN GroupErrorShim(h, s.c)
                              ELSE GroupErrorTile(h, s.c, s.r)
      [] s.do = "halt"     -> HaltTile(h, s.c, s.r)
      [] s.do = "block"    -> SyncBlockTile(h, s.c, s.r, s.id)
      [] s.do = "shim"     -> SyncShim(h, s.c, s.id, call.trigger)
      [] s.do = "overrun"  -> SyncOverrun(h, s.id)
      [] s.do = "timer"    -> SyncTimerTile(h, s.c, s.r, s.id)
      [] s.do = "untimer"  -> SyncTimerClear(h, s.c, s.r)
      [] s.do = "unblock"  -> SyncUnblockTile(h, s.c, s.r, s.id)
      [] s.do = "unshim"   -> SyncShimClear(h, s.c, s.id)
      [] s.do = "eccReset" -> EccEvntResetPM(h, s.c, s.r)
      [] s.do = "eccDM"    -> EccOnDM(h, s.c, s.r)
      [] s.do = "eccPM"    -> EccOnPM(h, s.c, s.r)
      [] s.do = "unroute"  -> RouteStopTile(h, s.c, s.r, s.id)
      [] OTHER             -> h

----------------------------------------------------------------------------
(* Behaviours. *)

Idle == plan = <<>>
NoCall == [name |-> "none", id |-> 0, trigger |-> 0, path |-> <<>>]
Called(name) == \E i \in DOMAIN done : done[i].name = name
\* The routes in place: started and not stopped since.
Routes ==
    {done[i] : i \in {i \in DOMAIN done :
        /\ done[i].name = "route"
        /\ \A j \in DOMAIN done : j > i => done[j].name # "stop"}}
\* A channel nobody uses: callers reserve theirs; ECC scrubbing always uses 6.
Free(id) == (\A x \in Routes : x.id # id) /\ (id = 6 => hw.memUse = {})

Init ==
    /\ inst \in Instances
    /\ hw = EmptyHw
    /\ plan = <<>>
    /\ call = NoCall
    /\ rc = "OK"
    /\ reset = {}
    /\ done = <<>>

Begin(c, steps) ==
    /\ Idle
    /\ Len(done) < inst.calls
    /\ c.name \in Calls
    /\ call' = c
    /\ plan' = steps
    /\ done' = Append(done, c)
    /\ reset' = {}
    /\ rc' = "OK"
    /\ UNCHANGED <<inst, hw>>

\* XAie_ErrorHandlingInit "assumes the whole AIE as a single partition": there is a
\* tile to report to.
ErrorHandlingInit ==
    /\ ~Called("errors")
    /\ \E c \in Cols : IsNoc(c)
    /\ Begin([NoCall EXCEPT !.name = "errors"], ErrInitPlan)

\* XAie_SyncTimer takes the next channel for its trigger,
\* XAie_SyncTimerWithTwoBcstChannel is told one.
SyncTimer ==
    \E id, trigger \in Channels \cup {NumIds} :
        /\ id # trigger /\ id < NumIds
        /\ trigger = NumIds => id = NumIds - 1
        /\ Free(id) /\ Free(trigger)
        /\ Begin([NoCall EXCEPT !.name = "sync", !.id = id, !.trigger = trigger],
                 SyncPlan(id, trigger))

\* XAieBroadcast::start on a channel it has reserved
StartRoute ==
    \E p \in Paths, id \in Channels :
        /\ \A i \in DOMAIN p : p[i][1] \in Cols /\ p[i][2] \in Rows /\ Ungated(p[i][1], p[i][2])
        /\ Routes = {}
        /\ Free(id)
        /\ PathOk(p)
        /\ Begin([NoCall EXCEPT !.name = "route", !.id = id, !.path = p],
                 [i \in 1..Len(p) |-> Step("route", p[i], i)])

\* XAieBroadcast::stop
StopRoute ==
    \E x \in Routes :
        Begin([x EXCEPT !.name = "stop"], Over("unroute", x.path, x.id))

\* XAie_LoadElf with ECC enabled
LoadElf ==
    /\ Gen \in EccGens
    /\ \A x \in Routes : x.id # 6
    /\ \E c \in Cols, r \in AieRows : \E d \in Cols :
        /\ Ungated(c, r) /\ Ungated(d, r)
        /\ d - c \in {0, 1}
        /\ Begin([NoCall EXCEPT !.name = "elf", !.path = <<<<c, r>>, <<d, r>>>>],
                 ElfPlan(<<c, r>>, IF d = c THEN <<<<c, r>>>> ELSE <<<<d, r>>, <<c, r>>>>))

Advance ==
    LET s == Head(plan) IN
    /\ ~Idle
    /\ hw' = IF s.do = "route" THEN RouteTile(hw, call.path, s.id, call.id) ELSE Apply(hw, s)
    /\ reset' = IF s.do = "generate" THEN TimersHit(hw, s.id) ELSE reset
    /\ rc' = IF s.do = "overrun" THEN "INVALID_ARGS" ELSE rc
    /\ plan' = Tail(plan)
    /\ UNCHANGED <<inst, call, done>>

Next ==
    \/ ErrorHandlingInit
    \/ SyncTimer
    \/ StartRoute
    \/ StopRoute
    \/ LoadElf
    \/ Advance

Spec == Init /\ [][Next]_vars /\ WF_vars(Advance)

----------------------------------------------------------------------------
(* Properties. *)

\* The modules whose errors are switched on.
Armed ==
    {m \in Modules : <<m, 0, Err>> \in hw.bc \/ (m[2] = 0 /\ m[1] \in hw.l1ev)}

\* XAie_ErrorHandlingInit leaves no ungated module of the array without its errors
\* switched on and no ungated core running on after one.
ErrorsArmed ==
    (Idle /\ Called("errors")) =>
        /\ \A m \in Modules : Ungated(m[1], m[2]) => m \in Armed /\ m \in hw.grp
        /\ \A c \in Cols, r \in AieRows : Ungated(c, r) => <<c, r>> \in hw.halt

\* From the moment the errors of a module are broadcast they reach a
\* second-level interrupt controller that is enabled for them, and only the
\* closest one ("routed to the closest L2 interrupt controller",
\* xaie_interrupt_init.c 1559): the network is complete before the first error
\* is let into it, and no later call of a user of the network breaks it.
\* The errors of an AIE2PS array find no way out of it: its memory tiles block channels 0
\* and 1 to all sides, the map being made of the ids 1 and 2 (xaie_interrupt_init.c 918).
Stranded(m) == Gen = "AIE2PS" /\ m[2] > 0
\* Those of the shim tile of its column 1 are let through to column 0 and heard in both.
HeardTwice(m) == Gen = "AIE2PS" /\ m = Pl(1)
ErrorsRouted ==
    \A m \in Armed : Cardinality({q[1] : q \in L2Heard(hw, m)})
                        = (IF Stranded(m) THEN 0 ELSE IF HeardTwice(m) THEN 2 ELSE 1)

\* No error of an ungated module goes unnoticed, but for those the map of AIE2PS strands: it
\* is switched on, and it is routed to one second-level interrupt controller (to two from the
\* shim tile of AIE2PS named above).
ErrorsReported == ErrorsArmed /\ ErrorsRouted

\* The channel an error arrives on tells the column it comes from: two columns
\* that share a second-level controller never share a channel of it, but for the
\* first two of AIE2PS.
ErrorsLocated ==
    Idle => \A m, n \in Armed :
        m[1] # n[1] /\ ~HeardTwice(m) /\ ~HeardTwice(n) => L2Heard(hw, m) \cap L2Heard(hw, n) = {}

\* XAie_SyncTimer resets every timer of every ungated tile with its one event.
SyncReachesAll ==
    (Idle /\ call.name = "sync" /\ rc = "OK") =>
        reset = {m \in Modules : Ungated(m[1], m[2])}

\* What a call leaves: the first shim tile broadcasts the arrival of the trigger on its own
\* channel (xaie_timer.c 930 and 1025), which is never cleared, only the answering channel is
\* (964, 1059).
TriggerLeft(x) == <<Pl(0), x.trigger, Bc(x.trigger)>>
Syncs == {done[i] : i \in {i \in DOMAIN done : done[i].name = "sync"}}

\* A synchronisation that succeeds gives its channel back: nothing blocks it in the array and
\* no shim tile answers on it.  No timer waits for an event, and of the broadcasts of
\* broadcasts it sets up, on whatever channel, only the one named above is left.
SyncRestores ==
    (Idle /\ call.name = "sync" /\ rc = "OK") =>
        /\ \A b \in hw.blk : b[2] = call.id => \E x \in DOMAIN done :
                done[x].name \in {"route", "stop"} /\ done[x].id = call.id
        /\ \A b \in hw.bc : b[2] # call.id
        /\ {b \in hw.bc : b[3][1] = "bc"} \subseteq {TriggerLeft(x) : x \in Syncs}
        /\ hw.tmr = {}

\* XAie_SyncTimer resets every timer of every ungated tile with its one event, and when it is
\* through nothing of it is left but the broadcast of the trigger by the first shim tile.
TimersSynchronised == SyncReachesAll /\ SyncRestores

\* A route carries an event of its first tile to every module of every tile of its
\* path and to no other tile.
RouteExact ==
    Idle => \A x \in Routes : \A m \in ModulesOf(x.path[1][1], x.path[1][2]) :
        Nodes(Heard(hw, {At(n, x.id, FALSE) : n \in NodesOf(m)}))
            = UNION {UNION {NodesOf(k) : k \in ModulesOf(l[1], l[2])} : l \in Range(x.path)}

\* In the even rows of the checkerboard of AIE the core lies in the east of its tile: "core
\* Module east broadcast event interface is internally connected to memory module west"
\* (xaie_ecc.c 156) does not hold there, and the side left open leads to the next tile.
Misdirected(m) == CoreSide(m[2]) = "E"
\* Wherever data memory is scrubbed, it waits for the event and the counter of the core next
\* to it runs.  The event "is broadcasted from core module to memory module" (xaie_ecc.c 108,
\* 144): it arrives there and nowhere else, but for the rows named above, where it arrives in
\* the memory module of the next tile to the east, which keeps it if it is scrubbed too, or
\* in none.
EccHeard ==
    Idle => \A m \in hw.memUse :
        LET core == Core(m[1], m[2])
            next == Mem(m[1] + 1, m[2])
            heard == Nodes(Heard(hw, Raised(hw, core, Perf0)))
            there == IF Exists(Node(next, "A")) THEN NodesOf(next) ELSE {}
        IN /\ m \in hw.eccMem
           /\ core \in hw.perf
           /\ ~Misdirected(m) => heard = NodesOf(core) \cup NodesOf(m)
           /\ Misdirected(m) => /\ there \subseteq heard
                                /\ (there # {} => next \in hw.memUse) => heard = NodesOf(core) \cup there
=============================================================================
