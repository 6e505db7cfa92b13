----------------------------- MODULE StreamPorts -----------------------------
(***************************************************************************)
(* The ports of a stream switch (src/src/stream_switch): how many there are *)
(* of a type, the number a port has in its switch, and which slave may feed *)
(* which master. Nothing here has a state: StreamSwitch uses it.             *)
(*                                                                         *)
(* A platform is [gen, tile, app]: the device generation, the kind of tile  *)
(* and, on AIE4, whether the device belongs to one application ("single")   *)
(* or is shared and this is one of the two ("A", "B").                      *)
(***************************************************************************)
EXTENDS StreamTables, Sequences, SequencesExt, FiniteSetsExt

Generations == {"AIE", "AIEML", "AIE2IPU", "AIE2P", "AIE2PS", "AIE4", "AIE4MDS"}

IsAie4(p) == p.gen \in {"AIE4", "AIE4MDS"}

Platforms ==
  [gen : Generations \ {"AIE", "AIE4", "AIE4MDS"}, tile : {"TILE", "MEM", "SHIM"}, app : {"single"}]
  \cup [gen : {"AIE"}, tile : {"TILE", "SHIM"}, app : {"single"}]
  \cup [gen : {"AIE4", "AIE4MDS"}, tile : {"TILE", "MEM", "SHIM"}, app : {"single", "A", "B"}]

\* DevProp.DevMod[TileType].StrmSw and StrmSw32b
StrmSw ==
  [AIE     |-> [TILE |-> AieTileStrmSw, SHIM |-> AieShimStrmSw],
   AIEML   |-> [TILE |-> AieMlTileStrmSw, MEM |-> AieMlMemTileStrmSw, SHIM |-> AieMlShimStrmSw],
   AIE2IPU |-> [TILE |-> Aie2IpuTileStrmSw, MEM |-> Aie2IpuMemTileStrmSw, SHIM |-> Aie2IpuShimStrmSw],
   AIE2P   |-> [TILE |-> Aie2PTileStrmSw, MEM |-> Aie2PMemTileStrmSw, SHIM |-> Aie2PShimStrmSw],
   AIE2PS  |-> [TILE |-> Aie2PSTileStrmSw, MEM |-> Aie2PSMemTileStrmSw, SHIM |-> Aie2PSShimStrmSw],
   AIE4    |-> [TILE |-> Aie4TileStrmSw, MEM |-> Aie4MemTileStrmSw, SHIM |-> Aie4ShimStrmSw],
   AIE4MDS |-> [TILE |-> Aie4MdsTileStrmSw, MEM |-> Aie4MdsMemTileStrmSw, SHIM |-> Aie4MdsShimStrmSw]]
StrmSw32b ==
  [AIE4    |-> [TILE |-> Aie4TileStrmSw32b, MEM |-> Aie4MemTileStrmSw32b, SHIM |-> Aie4ShimStrmSw32b],
   AIE4MDS |-> [TILE |-> Aie4MdsTileStrmSw32b, MEM |-> Aie4MdsMemTileStrmSw32b,
                SHIM |-> Aie4MdsShimStrmSw32b]]

-----------------------------------------------------------------------------
(* Types of ports, in the order of the enumeration *)

PortTypes512 ==
  <<"CORE", "DMA", "CTRL", "FIFO", "SOUTH", "WEST", "NORTH", "EAST", "TRACE", "UCTRLR",
    "NORTH_CTRL", "SOUTH_CTRL", "SWITCH_32b", "DMA_CTRL", "DMA_Trace", "PL">>
PortTypes32 ==
  <<"x32B_CTRL", "x32B_TRACE", "x32B_SOUTH", "x32B_WEST", "x32B_NORTH", "x32B_EAST",
    "x32B_SWITCH_512b", "x32B_UCTRLR", "x32B_PL">>
Types32 == ToSet(PortTypes32)
Types == ToSet(PortTypes512) \cup Types32
Is32b(t) == t \in Types32

\* _GetStreamMod: a device without a 32 bit switch has a null pointer there
HasMod(p, t) == Is32b(t) => IsAie4(p)
GetStreamMod(p, t) == IF Is32b(t) THEN StrmSw32b[p.gen][p.tile] ELSE StrmSw[p.gen][p.tile]

\* MstrConfig[t].NumPorts, SlvConfig[t].NumPorts and SlvSlotConfig[t].NumPorts
NumPorts(table, t) == IF t \in DOMAIN table THEN table[t][1] ELSE 0
Config(sw, port) == IF port = "slave" THEN sw.SlvConfig ELSE sw.MstrConfig

AcrossTypes == {"EAST", "WEST", "x32B_EAST", "x32B_WEST"}

\* _GetMaxNumSsPorts; the errors it returns are 0 here, which admits no port
GetMaxNumSsPorts(p, table, t) ==
  LET n == NumPorts(table, t)
  IN  CASE ~IsAie4(p) -> n
        [] p.app # "single" ->
             IF t \in AcrossTypes \/ (p.tile = "SHIM" /\ p.app = "B" /\ t = "DMA_Trace") THEN 0
             ELSE IF p.tile = "TILE" /\ t \in {"NORTH", "SOUTH", "x32B_NORTH", "x32B_SOUTH"}
             THEN n \div 2 ELSE n
        [] OTHER ->
             IF p.tile = "TILE" \/ (p.tile = "SHIM" /\ t \in AcrossTypes \cup {"DMA_Trace"})
             THEN n ELSE 2 * n

\* _XAie_ValidatePortNumber
ValidPort(p, table, t, n) == n < GetMaxNumSsPorts(p, table, t)

-----------------------------------------------------------------------------
(* Numbers of ports *)

\* A function, in the form TLC evaluates once
Tabulated(f) == f @@ <<>>

\* XAie_StrmSwPortMap[], entry k at k + 1
PortMap(runs) ==
  FlattenSeq([i \in DOMAIN runs |->
                [k \in 1..runs[i][3] |-> <<runs[i][1], runs[i][2] + k - 1>>]])
Switches ==
  {x \in Generations \X {"TILE", "MEM", "SHIM"} \X BOOLEAN :
     IF x[3] THEN x[1] \in DOMAIN StrmSw32b ELSE x[2] \in DOMAIN StrmSw[x[1]]}
SwitchAt(x) == IF x[3] THEN StrmSw32b[x[1]][x[2]] ELSE StrmSw[x[1]][x[2]]
PortMaps ==
  Tabulated([x \in Switches |-> [slave  |-> PortMap(SwitchAt(x).SlavePortMap),
                                 master |-> PortMap(SwitchAt(x).MasterPortMap)]])

\* The registers of the ports lie type after type in the order of the port map, and after
\* them the types the map does not have: the addresses are not part of the repository.
BaseOf(sw, port, t) ==
  LET table == Config(sw, port)
      runs  == IF port = "slave" THEN sw.SlavePortMap ELSE sw.MasterPortMap
      Place(u) == IF \E i \in DOMAIN runs : runs[i][1] = u
                  THEN Min({i \in DOMAIN runs : runs[i][1] = u}) ELSE Len(runs) + 1
  IN  MapThenSumSet(LAMBDA u : NumPorts(table, u), {u \in DOMAIN table : Place(u) < Place(t)})
LegacyBases ==
  LET Bases(sw, port) == Tabulated([t \in DOMAIN Config(sw, port) |-> BaseOf(sw, port, t)])
  IN  Tabulated([x \in Switches |-> [slave  |-> Bases(SwitchAt(x), "slave"),
                                     master |-> Bases(SwitchAt(x), "master")]])
LegacyBase(p, port, t) == LegacyBases[<<p.gen, p.tile, FALSE>>][port][t]

NoIdx == 999

\* _XAie_GetPortIdxLegacy: the distance of the register from the first one, in words
GetPortIdxLegacy(p, t, n, port) == LegacyBase(p, port, t) + n

\* Mutant: one place holder for whatever belongs to the second application
PlaceHolderIdsOfSecond(p, table, t, n, port) == IF n >= NumPorts(table, t) THEN 1 ELSE 0

\* AddPlaceHolderPortPhyIds of _XAie_GetPortIdxAie4Plus
PlaceHolderIds(p, table, t, n, port) ==
  LET half == NumPorts(table, t) \div 2
      all  == NumPorts(table, t)
      vertical == <<port, t>> \in {<<"slave", "NORTH">>, <<"master", "SOUTH">>}
  IN  CASE p.tile = "TILE" -> IF vertical /\ n >= half THEN 1 ELSE 0
        [] p.tile = "MEM" ->
             IF n < all THEN 0
             ELSE IF vertical \/ <<port, t>> = <<"slave", "DMA">> THEN 1
             ELSE IF <<port, t>> = <<"slave", "SOUTH">> THEN 2 ELSE 0
        [] OTHER ->
             IF n >= all /\ port = "master" /\ t \in {"DMA", "NORTH"} THEN 1 ELSE 0

\* _XAie_GetPortIdxAie4Plus. The test of the shared device is the one of the code.
GetPortIdxAie4Plus(p, t, table, n, port) ==
  IF p.app # "single"
  THEN IF n + table[t][3] > 255 THEN (n + table[t][3]) % 256 ELSE NoIdx
  ELSE table[t][2] + n + PlaceHolderIds(p, table, t, n, port)

\* _XAie_GetPortIdx
GetPortIdx(p, sw, t, n, port) ==
  LET table == Config(sw, port)
  IN  IF ~ValidPort(p, table, t, n) THEN NoIdx
      ELSE IF IsAie4(p) THEN GetPortIdxAie4Plus(p, t, table, n, port)
      ELSE GetPortIdxLegacy(p, t, n, port)

\* XAie_StrmSwLogicalToPhysicalPort
LogicalToPhysicalPort(p, port, t, n) ==
  IF HasMod(p, t) THEN GetPortIdx(p, GetStreamMod(p, t), t, n, port) ELSE NoIdx

\* XAie_StrmSwPhysicalToLogicalPort and XAie_StrmSw32bPhysicalToLogicalPort. The map of the
\* slaves of an AIE4 shim switch ends before MaxSlavePhyPortId: what lies behind it is no port.
NoPort == <<"none", 0>>
PhysicalToLogicalPort(p, in32b, port, phy) ==
  LET x   == <<p.gen, p.tile, in32b>>
      sw  == SwitchAt(x)
      map == PortMaps[x][port]
      max == IF port = "slave" THEN sw.MaxSlavePhyPortId ELSE sw.MaxMasterPhyPortId
  IN  IF phy > max \/ phy >= Len(map) THEN NoPort ELSE map[phy + 1]

-----------------------------------------------------------------------------
(* Which slave may feed which master *)

Sides == {"SOUTH", "WEST", "NORTH", "EAST"}

\* _XAieMl_AieTile_StrmSwCheckPortValidity, _XAie2PS_AieTile_StrmSwCheckPortValidity
AieTileCheckPortValidity(s, sn, m, mn) ==
  CASE s = "TRACE"  -> m \in {"FIFO", "SOUTH"} \/ <<m, mn>> = <<"DMA", 0>>
    [] s = "CORE"   -> m # "CORE"
    [] s = "DMA"    -> m = "DMA" => sn = mn
    [] s = "CTRL"   -> m \notin {"DMA", "CTRL"}
    [] s \in Sides  -> m = s => sn = mn
    [] OTHER        -> s = "FIFO"

\* _XAieMl_MemTile_StrmSwCheckPortValidity, _XAie2PS_MemTile_StrmSwCheckPortValidity
MemTileCheckPortValidity(s, sn, m, mn) ==
  CASE s = "TRACE"  -> m = "SOUTH" \/ <<m, mn>> = <<"DMA", 5>>
    [] s = "DMA"    -> m = "DMA" => sn = mn
    [] s = "CTRL"   -> m # "CTRL" /\ (m = "DMA" => mn = 5)
    [] s \in {"SOUTH", "NORTH"} -> m \in {"SOUTH", "NORTH"} => sn = mn
    [] OTHER        -> FALSE

\* _XAieMl_ShimTile_StrmSwCheckPortValidity
ShimTileCheckPortValidity(s, sn, m, mn) ==
  CASE s = "TRACE"  -> m \in {"FIFO", "SOUTH"} \/ (m \in {"WEST", "EAST"} /\ mn = 0)
    [] s = "CTRL"   -> m # "CTRL"
    [] s \in {"WEST", "NORTH", "EAST"} -> m = s => sn = mn
    [] OTHER        -> s \in {"FIFO", "SOUTH"}

\* _XAie2PS_ShimTile_StrmSwCheckPortValidity
Aie2PSShimTileCheckPortValidity(s, sn, m, mn) ==
  CASE s = "TRACE"  -> m \in {"FIFO", "SOUTH"} \/ (m \in {"NORTH", "WEST", "EAST"} /\ mn = 0)
    [] s = "UCTRLR" -> m = s => sn = mn
    [] OTHER        -> ShimTileCheckPortValidity(s, sn, m, mn)

\* The rows and columns of the AIE4 matrices where a type begins
AieTileSlvBase  == [CORE |-> 0, DMA |-> 1, SOUTH |-> 2, WEST |-> 10, NORTH |-> 12, EAST |-> 16,
                    SOUTH_CTRL |-> 18, SWITCH_32b |-> 20]
AieTileMngrBase == [CORE |-> 0, DMA |-> 2, SOUTH |-> 4, WEST |-> 8, NORTH |-> 10, EAST |-> 18,
                    NORTH_CTRL |-> 20, CTRL |-> 22, SWITCH_32b |-> 23]
AieTileDualAppSlvBase  == [CORE |-> 0, DMA |-> 1, SOUTH |-> 2, NORTH |-> 6, SOUTH_CTRL |-> 8,
                           SWITCH_32b |-> 9]
AieTileDualAppMngrBase == [CORE |-> 0, DMA |-> 2, SOUTH |-> 4, NORTH |-> 6, NORTH_CTRL |-> 10,
                           CTRL |-> 11, SWITCH_32b |-> 12]
MemTileSlvBase  == [DMA |-> 0, SOUTH |-> 10, NORTH |-> 14, SOUTH_CTRL |-> 18, SWITCH_32b |-> 20]
MemTileMngrBase == [DMA |-> 0, SOUTH |-> 8, NORTH |-> 12, NORTH_CTRL |-> 20, CTRL |-> 22,
                    SWITCH_32b |-> 24]
MemTileDualAppSlvBase  == [DMA |-> 0, SOUTH |-> 5, NORTH |-> 7, SOUTH_CTRL |-> 9, SWITCH_32b |-> 10]
MemTileDualAppMngrBase == [DMA |-> 0, SOUTH |-> 4, NORTH |-> 6, NORTH_CTRL |-> 10, CTRL |-> 11,
                           SWITCH_32b |-> 12]
ShimTileSlvBase  == [DMA |-> 0, WEST |-> 4, NORTH |-> 6, EAST |-> 10, DMA_CTRL |-> 12,
                     SWITCH_32b |-> 14]
ShimTileMngrBase == [DMA |-> 0, DMA_Trace |-> 1, WEST |-> 3, NORTH |-> 5, EAST |-> 9,
                     NORTH_CTRL |-> 11, CTRL |-> 13, SWITCH_32b |-> 15]
ShimTileDualAppSlvBase  == [DMA |-> 0, NORTH |-> 2, DMA_CTRL |-> 4, SWITCH_32b |-> 5]
\* Mutant: the trace port has no column
ShimTileDualAppMngrBaseNoTrace ==
  [DMA |-> 0, DMA_Trace |-> 0, NORTH |-> 1, NORTH_CTRL |-> 3, CTRL |-> 4, SWITCH_32b |-> 5]
ShimTileDualAppMngrBase == [DMA |-> 0, DMA_Trace |-> 1, NORTH |-> 2, NORTH_CTRL |-> 4, CTRL |-> 5,
                            SWITCH_32b |-> 6]

AieTilePortsConectivityMatrix ==
  << <<0,0,0,1,1,1,1,1,1,1,1,1,1,1,1,1,1,1,1,1,1,0,1,1>>,
     <<1,1,1,0,1,1,1,1,1,1,1,1,1,1,1,1,1,1,1,1,1,1,1,1>>,
     <<1,1,1,1,1,0,0,0,1,1,1,1,1,1,1,1,1,1,1,1,0,0,0,1>>,
     <<1,1,1,1,0,1,0,0,1,1,1,1,1,1,1,1,1,1,1,1,0,0,0,1>>,
     <<1,1,1,1,0,0,0,0,1,1,1,1,1,1,1,1,1,1,1,1,0,0,0,1>>,
     <<1,1,1,1,0,0,0,0,1,1,1,1,1,1,1,1,1,1,1,1,0,0,0,1>>,
     <<1,1,1,1,0,0,1,0,1,1,1,1,1,1,1,1,1,1,1,1,0,0,0,1>>,
     <<1,1,1,1,0,0,0,1,1,1,1,1,1,1,1,1,1,1,1,1,0,0,0,1>>,
     <<1,1,1,1,0,0,0,0,1,1,1,1,1,1,1,1,1,1,1,1,0,0,0,1>>,
     <<1,1,1,1,0,0,0,0,1,1,1,1,1,1,1,1,1,1,1,1,0,0,0,1>>,
     <<1,1,1,1,1,1,1,1,1,0,1,1,1,1,1,1,1,1,1,1,1,1,1,1>>,
     <<1,1,1,1,1,1,1,1,0,1,1,1,1,1,1,1,1,1,1,1,1,1,1,1>>,
     <<1,1,1,1,1,1,1,1,1,1,1,0,0,0,0,0,0,0,1,1,0,0,0,1>>,
     <<1,1,1,1,1,1,1,1,1,1,0,1,0,0,0,0,0,0,1,1,0,0,0,1>>,
     <<1,1,1,1,1,1,1,1,1,1,0,0,0,0,1,0,0,0,1,1,0,0,0,1>>,
     <<1,1,1,1,1,1,1,1,1,1,0,0,0,0,0,1,0,0,1,1,0,0,0,1>>,
     <<1,1,1,1,1,1,1,1,1,1,1,1,1,1,1,1,1,1,1,0,1,1,1,1>>,
     <<1,1,1,1,1,1,1,1,1,1,1,1,1,1,1,1,1,1,0,1,1,1,1,1>>,
     <<1,0,1,0,0,0,0,0,1,1,0,0,0,0,0,0,0,0,1,1,1,0,1,1>>,
     <<0,1,0,1,0,0,0,0,0,1,0,0,0,0,0,0,0,0,0,1,1,1,1,1>>,
     <<1,1,1,1,1,1,1,1,1,1,1,1,1,1,1,1,1,1,1,1,1,1,1,0>> >>

AieTileDualAppPortsConectivityMatrix ==
  << <<0,0,0,1,1,1,1,1,1,1,1,1,1>>,
     <<1,1,1,0,1,1,1,1,1,1,1,1,1>>,
     <<1,1,1,1,1,0,1,1,1,1,0,0,1>>,
     <<1,1,1,1,0,1,1,1,1,1,0,0,1>>,
     <<1,1,1,1,0,0,1,1,1,1,0,0,1>>,
     <<1,1,1,1,0,0,1,1,1,1,0,0,1>>,
     <<1,1,1,1,1,1,1,0,0,0,0,0,1>>,
     <<1,1,1,1,1,1,0,1,0,0,0,0,1>>,
     <<1,0,1,0,0,0,0,0,0,0,1,1,1>>,
     <<1,1,1,1,1,1,1,1,1,1,1,1,0>> >>

MemTilePortsConectivityMatrix ==
  << <<1,0,0,0,0,0,0,0,1,0,0,0,1,1,1,1,1,1,1,1,0,0,0,0,1,1>>,
     <<0,1,0,0,0,0,0,0,0,1,0,0,1,1,1,1,1,1,1,1,0,0,0,0,1,1>>,
     <<0,0,1,0,0,0,0,0,1,0,0,0,1,1,1,1,1,1,1,1,0,0,0,0,1,1>>,
     <<0,0,0,1,0,0,0,0,0,1,0,0,1,1,1,1,1,1,1,1,1,0,1,0,1,1>>,
     <<0,0,0,0,0,0,0,0,1,1,1,1,1,0,0,0,0,0,0,0,1,0,1,0,1,1>>,
     <<0,0,0,0,1,0,0,0,0,0,1,0,1,1,1,1,1,1,1,1,0,0,0,0,1,1>>,
     <<0,0,0,0,0,1,0,0,0,0,0,1,1,1,1,1,1,1,1,1,0,0,0,0,1,1>>,
     <<0,0,0,0,0,0,1,0,0,0,1,0,1,1,1,1,1,1,1,1,0,0,0,0,1,1>>,
     <<0,0,0,0,0,0,0,1,0,0,0,1,1,1,1,1,1,1,1,1,0,1,0,1,1,1>>,
     <<0,0,0,0,0,0,0,0,1,1,1,1,0,0,0,0,1,0,0,0,0,1,0,1,1,1>>,
     <<1,0,1,1,0,0,0,0,1,0,0,0,1,1,1,1,1,1,1,1,0,0,0,0,1,1>>,
     <<0,1,1,1,0,0,0,0,0,1,0,0,1,1,1,1,1,1,1,1,0,0,0,0,1,1>>,
     <<0,0,0,0,1,0,1,1,0,0,1,0,1,1,1,1,1,1,1,1,0,0,0,0,1,1>>,
     <<0,0,0,0,0,1,1,1,0,0,0,1,1,1,1,1,1,1,1,1,0,0,0,0,1,1>>,
     <<1,1,1,0,0,0,0,0,1,1,1,1,1,0,0,0,0,0,0,0,0,0,0,0,1,1>>,
     <<1,1,0,1,0,0,0,0,1,1,1,1,0,1,0,0,0,0,0,0,0,0,1,0,1,1>>,
     <<1,1,0,0,1,1,1,0,1,1,1,1,0,0,0,0,1,0,0,0,0,0,0,0,1,1>>,
     <<1,1,0,0,1,1,0,1,1,1,1,1,0,0,0,0,0,1,0,0,0,0,1,1,1,1>>,
     <<0,0,0,1,0,0,0,0,0,0,0,0,0,0,0,0,0,0,0,0,1,0,1,0,1,1>>,
     <<0,0,0,0,0,0,0,1,0,0,0,0,0,0,0,0,0,0,0,0,0,1,1,1,1,1>>,
     <<1,1,1,1,1,1,1,1,1,1,1,1,1,1,1,1,1,1,1,1,1,0,1,0,0,0>>,
     <<1,1,1,1,1,1,1,1,1,1,1,1,1,1,1,1,1,1,1,1,0,1,0,1,0,0>> >>

MemTileDualAppPortsConectivityMatrix ==
  << <<1,0,0,0,1,0,1,1,1,1,0,0,1>>,
     <<0,1,0,0,0,1,1,1,1,1,0,0,1>>,
     <<0,0,1,0,1,0,1,1,1,1,0,0,1>>,
     <<0,0,0,1,0,1,1,1,1,1,1,1,1>>,
     <<0,0,0,0,1,1,1,0,0,0,1,1,1>>,
     <<1,0,1,1,1,0,1,1,1,1,0,0,1>>,
     <<0,1,1,1,0,1,1,1,1,1,0,0,1>>,
     <<1,1,1,0,1,1,1,0,0,0,0,0,1>>,
     <<1,1,0,1,1,1,0,1,0,0,0,1,1>>,
     <<0,0,0,1,0,0,0,0,0,0,1,1,1>>,
     <<1,1,1,1,1,1,1,1,1,1,1,1,0>> >>

ShimTilePortsConectivityMatrix ==
  << <<1,0,0,1,1,1,1,1,1,1,1,1,0,1,0,1,1>>,
     <<0,0,0,1,1,1,1,1,1,1,1,1,0,1,0,1,1>>,
     <<0,0,1,1,1,1,1,1,1,1,1,0,1,0,1,1,1>>,
     <<0,0,0,1,1,1,1,1,1,1,1,0,1,0,1,1,1>>,
     <<1,1,1,1,0,1,1,1,1,1,1,1,1,1,0,1,1>>,
     <<1,1,1,0,1,1,1,1,1,1,1,1,1,1,0,1,1>>,
     <<1,1,1,1,1,1,0,0,0,1,1,0,0,0,0,1,1>>,
     <<1,1,1,1,1,0,1,0,0,1,1,1,0,1,0,1,1>>,
     <<1,1,1,1,1,0,0,1,0,1,1,0,0,0,0,1,1>>,
     <<1,1,1,1,1,0,0,0,1,1,1,1,1,1,1,1,1>>,
     <<1,1,1,1,1,1,1,1,1,1,0,1,1,1,0,1,1>>,
     <<1,1,1,1,1,1,1,1,1,0,1,1,1,1,0,1,1>>,
     <<0,0,0,1,1,1,1,0,0,1,1,1,0,1,0,1,0>>,
     <<0,0,0,0,1,0,0,1,1,0,1,0,1,1,1,0,1>>,
     <<1,1,1,1,1,1,1,1,1,1,1,1,1,1,0,0,0>>,
     <<1,1,1,1,1,1,1,1,1,1,1,1,1,0,1,0,0>> >>

ShimTileDualAppPortsConectivityMatrix ==
  << <<1,0,1,1,1,1,1>>,
     <<0,0,1,1,1,1,1>>,
     <<1,1,1,0,0,0,1>>,
     <<1,1,0,1,1,1,1>>,
     <<0,0,1,1,1,1,1>>,
     <<1,1,1,1,1,1,0>> >>

\* The matrix of a kind of tile, of a device of its own or of a shared one
Matrix(tile, dual) ==
  CASE tile = "TILE" /\ ~dual ->
         [slv |-> AieTileSlvBase, mngr |-> AieTileMngrBase, at |-> AieTilePortsConectivityMatrix]
    [] tile = "TILE" /\ dual ->
         [slv |-> AieTileDualAppSlvBase, mngr |-> AieTileDualAppMngrBase,
          at |-> AieTileDualAppPortsConectivityMatrix]
    [] tile = "MEM" /\ ~dual ->
         [slv |-> MemTileSlvBase, mngr |-> MemTileMngrBase, at |-> MemTilePortsConectivityMatrix]
    [] tile = "MEM" /\ dual ->
         [slv |-> MemTileDualAppSlvBase, mngr |-> MemTileDualAppMngrBase,
          at |-> MemTileDualAppPortsConectivityMatrix]
    [] tile = "SHIM" /\ ~dual ->
         [slv |-> ShimTileSlvBase, mngr |-> ShimTileMngrBase, at |-> ShimTilePortsConectivityMatrix]
    [] OTHER ->
         [slv |-> ShimTileDualAppSlvBase, mngr |-> ShimTileDualAppMngrBase,
          at |-> ShimTileDualAppPortsConectivityMatrix]

\* _XAie4_AieTile_, _XAie4_MemTile_ and _XAie4_ShimTile_StrmSwCheckPortValidity: a type the
\* switch statement does not list is left to the number of its ports
Aie4CheckPortValidity(p, s, sn, m, mn) ==
  LET dual == p.app # "single"
      x    == Matrix(p.tile, dual)
      Refused(t) == dual /\ p.tile \in {"TILE", "SHIM"} /\ t \in {"WEST", "EAST"}
      row == x.slv[s] + sn
      col == x.mngr[m] + mn + (IF p.tile = "SHIM" /\ <<m, mn>> = <<"DMA", 1>> THEN 1 ELSE 0)
  IN  IF Refused(s) THEN FALSE
      ELSE IF s \notin DOMAIN x.slv THEN TRUE
      ELSE IF Refused(m) \/ (p.tile = "SHIM" /\ p.app = "B" /\ m = "DMA_Trace") THEN FALSE
      ELSE IF m \notin DOMAIN x.mngr THEN TRUE
      ELSE /\ row < Len(x.at)
           /\ col < Len(x.at[1])
           /\ x.at[row + 1][col + 1] = 1

\* StrmMod->PortVerify
PortVerify(p, sw, s, sn, m, mn) ==
  LET f == sw.PortVerify
  IN  CASE f \in {"_XAie_StrmSwCheckPortValidity", "_XAie4_StrmSw32bCheckPortValidity"} -> TRUE
        [] f \in {"_XAieMl_AieTile_StrmSwCheckPortValidity",
                  "_XAie2PS_AieTile_StrmSwCheckPortValidity"} ->
             AieTileCheckPortValidity(s, sn, m, mn)
        [] f \in {"_XAieMl_MemTile_StrmSwCheckPortValidity",
                  "_XAie2PS_MemTile_StrmSwCheckPortValidity"} ->
             MemTileCheckPortValidity(s, sn, m, mn)
        [] f = "_XAieMl_ShimTile_StrmSwCheckPortValidity" ->
             ShimTileCheckPortValidity(s, sn, m, mn)
        [] f = "_XAie2PS_ShimTile_StrmSwCheckPortValidity" ->
             Aie2PSShimTileCheckPortValidity(s, sn, m, mn)
        [] OTHER -> Aie4CheckPortValidity(p, s, sn, m, mn)
=============================================================================
