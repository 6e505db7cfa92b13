--------------------------- MODULE DmaQueueProofs ---------------------------
(***************************************************************************)
(* Proofs about the channels of a DMA: of every kind of tile, in either    *)
(* mode, for any descriptors on any channels that a program may name, any  *)
(* number of calls and any stalls.                                         *)
(***************************************************************************)
EXTENDS DmaQueue, SequenceTheorems, TLAPS

-----------------------------------------------------------------------------
(* What the tables say of the layouts of channels: five of them.           *)

MlGens == {"AIEML", "AIE2IPU", "AIE2P", "AIE2PS"}
Aie4Gens == {"AIE4", "AIE4MDS"}

\* a tile or a shim tile before AIE4
Small ==
  /\ ~IsAie4(k) /\ k[2] \in {"TILE", "SHIM"}
  /\ M.NumBds = 16 /\ M.NumChannels = 2 /\ M.ChIdxOffset = 8 /\ M.StartQSizeMax = 4
  /\ M.IdxOffset \in {20, 32, 48} /\ M.MaxRepeatCount \in {0, 256}
  /\ M.ChStatusOffset = (IF k[2] = "TILE" THEN 16 ELSE IF IsAie(k) THEN 4 ELSE 8)
  /\ M.BdChValidity \in {"_XAie_DmaCheckBdChValidity", "_XAieMl_DmaCheckBdChValidity"}

\* a memory tile of AIE-ML
MlMem ==
  /\ ~IsAie4(k) /\ ~IsAie(k) /\ k[2] = "MEM"
  /\ M.NumBds = 48 /\ M.NumChannels = 6 /\ M.ChIdxOffset = 8 /\ M.StartQSizeMax = 4
  /\ M.IdxOffset = 32 /\ M.MaxRepeatCount = 256 /\ M.ChStatusOffset = 32
  /\ M.BdChValidity = "_XAieMl_MemTileDmaCheckBdChValidity"

Aie4Tile ==
  /\ IsAie4(k) /\ ~IsAie(k) /\ k[2] = "TILE"
  /\ M.NumBds = 16 /\ M.NumChannels = 2 /\ M.NumMm2sChannels = 1 /\ M.ChIdxOffset = 8
  /\ M.StartQSizeMax = 16 /\ M.IdxOffset = 32 /\ M.MaxRepeatCount = 4096
  /\ M.ChStatusOffset = 16 /\ M.BdChValidity = "_XAieMl_DmaCheckBdChValidity"

Aie4Mem ==
  /\ IsAie4(k) /\ ~IsAie(k) /\ k[2] = "MEM"
  /\ M.NumBds = 16 /\ M.NumChannels = 4 /\ M.NumMm2sChannels = 5 /\ M.ChIdxOffset = 8
  /\ M.StartQSizeMax = 16 /\ M.IdxOffset = 48 /\ M.MaxRepeatCount = 4096
  /\ M.ChStatusOffset = 48 /\ M.BdChValidity = "_XAieMl_DmaCheckBdChValidity"

Aie4Shim ==
  /\ IsAie4(k) /\ ~IsAie(k) /\ k[2] = "SHIM"
  /\ M.NumBds = 16 /\ M.NumChannels = 1 /\ M.NumMm2sChannels = 2 /\ M.ChIdxOffset = 8
  /\ M.StartQSizeMax = 16 /\ M.IdxOffset = 48 /\ M.MaxRepeatCount = 4096
  /\ M.ChStatusOffset = 16 /\ M.BdChValidity = "_XAie4_ShimTileDmaCheckBdChValidity"
  /\ CtrlMm2sProp.NumBds = 8 /\ CtrlMm2sProp.NumChannels = 1
  /\ TraceS2mmProp.NumBds = 4 /\ TraceS2mmProp.NumChannels = 1

LEMMA PlatformKinds ==
    ASSUME on \in Platforms
    PROVE  /\ \/ k[1] = "AIE" /\ k[2] \in {"TILE", "SHIM"}
              \/ k[1] \in MlGens /\ k[2] \in {"TILE", "MEM", "SHIM"}
              \/ k[1] \in Aie4Gens /\ k[2] \in {"TILE", "MEM", "SHIM"}
           /\ a \in {"single", "dualA", "dualB"}
<1>1. on \in AllKinds \X {"single", "dualA", "dualB"}
  BY PlatformsAssumption
<1>2. k \in AllKinds /\ a \in {"single", "dualA", "dualB"}
  BY <1>1 DEF k, a
<1>3. PICK g \in {"AIE", "AIEML", "AIE2IPU", "AIE2P", "AIE2PS", "AIE4", "AIE4MDS"},
           t \in {"TILE", "MEM", "SHIM"} : k = <<g, t>> /\ k # <<"AIE", "MEM">>
  BY <1>2 DEF AllKinds
<1>4. k[1] = g /\ k[2] = t
  BY <1>3
<1> QED BY <1>2, <1>3, <1>4 DEF MlGens, Aie4Gens

LEMMA AieTables ==
    ASSUME k[1] = "AIE", k[2] \in {"TILE", "SHIM"}
    PROVE  Small
<1>1. CASE k[2] = "TILE"
  BY <1>1 DEF M, Mod, DevMods, AieMods, Entry, AieTileDmaMod, IsAie4, IsAie, Small
<1>2. CASE k[2] = "SHIM"
  BY <1>2 DEF M, Mod, DevMods, AieMods, Entry, AieShimDmaMod, IsAie4, IsAie, Small
<1> QED BY <1>1, <1>2

LEMMA MlTables ==
    ASSUME k[1] \in MlGens, k[2] \in {"TILE", "MEM", "SHIM"}
    PROVE  Small \/ MlMem
<1>1. CASE k[2] = "TILE"
  <2>1. M = AieMlTileDmaMod
    BY <1>1 DEF M, Mod, DevMods, AieMlMods, Aie2IpuMods, Aie2PMods, Aie2PSMods, Entry, MlGens,
       Aie2IpuTileDmaMod, Aie2PTileDmaMod, Aie2PSTileDmaMod
  <2> QED BY <1>1, <2>1 DEF AieMlTileDmaMod, IsAie4, IsAie, Small, MlGens
<1>2. CASE k[2] = "SHIM"
  <2>1. M \in {AieMlShimDmaMod, Aie2IpuShimDmaMod, Aie2PShimDmaMod, Aie2PSShimDmaMod}
    BY <1>2 DEF M, Mod, DevMods, AieMlMods, Aie2IpuMods, Aie2PMods, Aie2PSMods, Entry, MlGens
  <2>2. /\ M.NumBds = 16 /\ M.NumChannels = 2 /\ M.ChIdxOffset = 8 /\ M.StartQSizeMax = 4
        /\ M.IdxOffset \in {32, 48} /\ M.MaxRepeatCount = 256 /\ M.ChStatusOffset = 8
        /\ M.BdChValidity = "_XAieMl_DmaCheckBdChValidity"
    <3>1. CASE M = AieMlShimDmaMod
      BY <3>1 DEF AieMlShimDmaMod
    <3>2. CASE M = Aie2IpuShimDmaMod
      BY <3>2 DEF AieMlShimDmaMod, Aie2IpuShimDmaMod
    <3>3. CASE M = Aie2PShimDmaMod
      BY <3>3 DEF AieMlShimDmaMod, Aie2PShimDmaMod
    <3>4. CASE M = Aie2PSShimDmaMod
      BY <3>4 DEF AieMlShimDmaMod, Aie2PSShimDmaMod
    <3> QED BY <2>1, <3>1, <3>2, <3>3, <3>4
  <2> QED BY <1>2, <2>2 DEF IsAie4, IsAie, Small, MlGens
<1>3. CASE k[2] = "MEM"
  <2>1. M \in {AieMlMemTileDmaMod, Aie2PSMemTileDmaMod}
    BY <1>3 DEF M, Mod, DevMods, AieMlMods, Aie2IpuMods, Aie2PMods, Aie2PSMods, Entry, MlGens,
       Aie2IpuMemTileDmaMod, Aie2PMemTileDmaMod
  <2>2. /\ M.NumBds = 48 /\ M.NumChannels = 6 /\ M.ChIdxOffset = 8 /\ M.StartQSizeMax = 4
        /\ M.IdxOffset = 32 /\ M.MaxRepeatCount = 256 /\ M.ChStatusOffset = 32
        /\ M.BdChValidity = "_XAieMl_MemTileDmaCheckBdChValidity"
    <3>1. CASE M = AieMlMemTileDmaMod
      BY <3>1 DEF AieMlMemTileDmaMod
    <3>2. CASE M = Aie2PSMemTileDmaMod
      BY <3>2 DEF AieMlMemTileDmaMod, Aie2PSMemTileDmaMod
    <3> QED BY <2>1, <3>1, <3>2
  <2> QED BY <1>3, <2>2 DEF IsAie4, IsAie, MlMem, MlGens
<1> QED BY <1>1, <1>2, <1>3

LEMMA Aie4Tables ==
    ASSUME k[1] \in Aie4Gens, k[2] \in {"TILE", "MEM", "SHIM"}
    PROVE  Aie4Tile \/ Aie4Mem \/ Aie4Shim
<1>1. CASE k[2] = "TILE"
  <2>1. M = Aie4TileDmaMod
    BY <1>1 DEF M, Mod, DevMods, Aie4Mods, Aie4MdsMods, Entry, Aie4Gens, Aie4MdsTileDmaMod
  <2> QED BY <1>1, <2>1 DEF Aie4TileDmaMod, IsAie4, IsAie, Aie4Tile, Aie4Gens
<1>2. CASE k[2] = "SHIM"
  <2>1. M \in {Aie4ShimDmaMod, Aie4MdsShimDmaMod}
    BY <1>2 DEF M, Mod, DevMods, Aie4Mods, Aie4MdsMods, Entry, Aie4Gens
  <2> QED BY <1>2, <2>1 DEF Aie4ShimDmaMod, Aie4MdsShimDmaMod, IsAie4, IsAie, Aie4Shim, Aie4Gens,
          CtrlMm2sProp, TraceS2mmProp
<1>3. CASE k[2] = "MEM"
  <2>1. M \in {Aie4MemTileDmaMod, Aie4MdsMemTileDmaMod}
    BY <1>3 DEF M, Mod, DevMods, Aie4Mods, Aie4MdsMods, Entry, Aie4Gens
  <2> QED BY <1>3, <2>1 DEF Aie4MemTileDmaMod, Aie4MdsMemTileDmaMod, IsAie4, IsAie, Aie4Mem, Aie4Gens
<1> QED BY <1>1, <1>2, <1>3

LEMMA Tables ==
    ASSUME on \in Platforms
    PROVE  Small \/ MlMem \/ Aie4Tile \/ Aie4Mem \/ Aie4Shim
BY PlatformKinds, AieTables, MlTables, Aie4Tables

-----------------------------------------------------------------------------
(* Channels.                                                               *)

\* Whether channels of a direction run over both halves
Both(d) == Single /\ k[2] \in {"MEM", "SHIM"} /\ d # TRACE

LEMMA Directions ==
    ASSUME on \in Platforms
    PROVE  /\ Dirs \subseteq 0..3 /\ {S2MM, MM2S} \subseteq Dirs
           /\ Dirs # {S2MM, MM2S} => Aie4Shim /\ Dirs = 0..3
           /\ ~Aie4Shim => Dirs = {S2MM, MM2S}
<1>1. Small \/ MlMem \/ Aie4Tile \/ Aie4Mem \/ Aie4Shim
  BY Tables
<1>2. CASE Aie4Shim
  <2>1. Dirs = {0, 1, 2, 3}
    BY <1>2 DEF Aie4Shim, Dirs, S2MM, MM2S, CTRL, TRACE
  <2>2. {0, 1, 2, 3} = 0..3
    OBVIOUS
  <2> QED BY <1>2, <2>1, <2>2 DEF S2MM, MM2S
<1>3. CASE ~Aie4Shim
  <2>1. Dirs = {S2MM, MM2S}
    BY <1>1, <1>3 DEF Small, MlMem, Aie4Tile, Aie4Mem, Dirs
  <2> QED BY <1>3, <2>1 DEF S2MM, MM2S
<1> QED BY <1>2, <1>3

LEMMA Counts ==
    ASSUME on \in Platforms, NEW d \in Dirs
    PROVE  /\ HwCount(d) \in 1..6
           /\ MaxNumChannels(d) = IF Both(d) THEN 2 * HwCount(d) ELSE HwCount(d)
<1>1. Small \/ MlMem \/ Aie4Tile \/ Aie4Mem \/ Aie4Shim
  BY Tables
<1>2. CASE Small
  <2>1. HwCount(d) = 2 /\ MaxNumChannels(d) = 2
    <3>1. d # TRACE
      BY <1>2, Directions DEF Small, Aie4Shim, S2MM, MM2S, TRACE
    <3>2. HwCount(d) = M.NumChannels
      BY <1>2 DEF Small, HwCount
    <3>3. MaxNumChannels(d) = M.NumChannels
      BY <1>2, <3>1 DEF Small, MaxNumChannels
    <3> QED BY <1>2, <3>2, <3>3 DEF Small
  <2>2. ~Both(d)
    BY <1>2 DEF Small, Both, Single
  <2> QED BY <2>1, <2>2
<1>3. CASE MlMem
  <2>1. HwCount(d) = 6 /\ MaxNumChannels(d) = 6
    <3>1. d # TRACE
      BY <1>3, Directions DEF MlMem, Aie4Shim, S2MM, MM2S, TRACE
    <3>2. HwCount(d) = M.NumChannels
      BY <1>3 DEF MlMem, HwCount
    <3>3. MaxNumChannels(d) = M.NumChannels
      BY <1>3, <3>1 DEF MlMem, MaxNumChannels
    <3> QED BY <1>3, <3>2, <3>3 DEF MlMem
  <2>2. ~Both(d)
    BY <1>3 DEF MlMem, Both, Single
  <2> QED BY <2>1, <2>2
<1>4. CASE Aie4Tile
  <2>1. d = S2MM \/ d = MM2S
    BY <1>4, Directions DEF Aie4Tile, Aie4Shim
  <2>2. HwCount(d) = IF d = S2MM THEN 2 ELSE 1
    BY <1>4, <2>1 DEF Aie4Tile, HwCount, HalfChannels, S2MM, MM2S, CTRL, TRACE
  <2>3. MaxNumChannels(d) = HwCount(d)
    BY <1>4, <2>1 DEF Aie4Tile, HwCount, MaxNumChannels, MaxElement, S2MM, MM2S, TRACE
  <2>4. ~Both(d)
    BY <1>4 DEF Aie4Tile, Both
  <2> QED BY <2>2, <2>3, <2>4
<1>5. CASE Aie4Mem
  <2>1. d = S2MM \/ d = MM2S
    BY <1>5, Directions DEF Aie4Mem, Aie4Shim
  <2>2. HwCount(d) = IF d = S2MM THEN 4 ELSE 5
    BY <1>5, <2>1 DEF Aie4Mem, HwCount, HalfChannels, S2MM, MM2S, CTRL, TRACE
  <2>3. MaxNumChannels(d) = IF a = "single" THEN 2 * HwCount(d) ELSE HwCount(d)
    BY <1>5, <2>1 DEF Aie4Mem, HwCount, MaxNumChannels, MaxElement, S2MM, MM2S, TRACE
  <2>4. Both(d) <=> a = "single"
    BY <1>5, <2>1 DEF Aie4Mem, Both, Single, S2MM, MM2S, TRACE
  <2> QED BY <2>2, <2>3, <2>4
<1>6. CASE Aie4Shim
  <2>1. d = S2MM \/ d = MM2S \/ d = CTRL \/ d = TRACE
    BY Directions DEF S2MM, MM2S, CTRL, TRACE
  <2>2. HwCount(d) = IF d = MM2S THEN 2 ELSE 1
    BY <1>6, <2>1 DEF Aie4Shim, HwCount, HalfChannels, S2MM, MM2S, CTRL, TRACE
  <2>3. MaxNumChannels(d) = IF a = "single" /\ d # TRACE THEN 2 * HwCount(d) ELSE HwCount(d)
    BY <1>6, <2>1 DEF Aie4Shim, HwCount, MaxNumChannels, MaxElement
  <2>4. Both(d) <=> a = "single" /\ d # TRACE
    BY <1>6 DEF Aie4Shim, Both, Single
  <2> QED BY <2>2, <2>3, <2>4
<1> QED BY <1>1, <1>2, <1>3, <1>4, <1>5, <1>6

LEMMA HwChannel ==
    ASSUME NEW h \in HwChannels
    PROVE  /\ h = <<h[1], h[2], h[3]>> /\ h[1] \in {"A", "B"} /\ h[2] \in Dirs /\ h[3] \in 0..15
           /\ h[3] < HwCount(h[2])
           /\ h[1] = "B" => Both(h[2])
           /\ ~(a = "dualB" /\ h[2] = TRACE)
BY DEF HwChannels, Both

LEMMA HwOfIs ==
    ASSUME on \in Platforms, NEW d \in Dirs, NEW n \in Nat
    PROVE  HwOf(<<d, n>>) = IF Single /\ k[2] \in {"MEM", "SHIM"} /\ n >= HwCount(d)
                            THEN <<"B", d, n - HwCount(d)>> ELSE <<"A", d, n>>
BY DEF HwOf

\* A channel number is accepted exactly when the hardware has the channel
LEMMA ChannelExists ==
    ASSUME on \in Platforms, NEW d \in Dirs, NEW n \in Nat
    PROVE  ValidChannel(d, n) <=> HwOf(<<d, n>>) \in HwChannels
<1>1. HwCount(d) \in 1..6 /\ MaxNumChannels(d) = IF Both(d) THEN 2 * HwCount(d) ELSE HwCount(d)
  BY Counts
<1>2. d = TRACE => IsAie4(k) /\ k[2] = "SHIM"
  BY Directions DEF Aie4Shim, S2MM, MM2S, TRACE
<1>3. ValidChannel(d, n) <=> ~(a = "dualB" /\ d = TRACE) /\ n < MaxNumChannels(d)
  BY <1>1, <1>2 DEF ValidChannel
<1>4. CASE Single /\ k[2] \in {"MEM", "SHIM"} /\ n >= HwCount(d)
  <2>1. HwOf(<<d, n>>) = <<"B", d, n - HwCount(d)>>
    BY <1>4, HwOfIs
  <2>2. a # "dualB"
    BY <1>4 DEF Single
  <2>3. Both(d) <=> d # TRACE
    BY <1>4 DEF Both
  <2>4. ValidChannel(d, n) <=> d # TRACE /\ n < 2 * HwCount(d)
    BY <1>1, <1>3, <1>4, <2>2, <2>3
  <2>5. <<"B", d, n - HwCount(d)>> \in HwChannels <=> d # TRACE /\ n - HwCount(d) < HwCount(d)
    BY <1>1, <1>4, <2>2 DEF HwChannels
  <2> QED BY <1>1, <2>1, <2>4, <2>5
<1>5. CASE ~(Single /\ k[2] \in {"MEM", "SHIM"} /\ n >= HwCount(d))
  <2>1. HwOf(<<d, n>>) = <<"A", d, n>>
    BY <1>5, HwOfIs
  <2>2. n < MaxNumChannels(d) <=> n < HwCount(d)
    BY <1>1, <1>5 DEF Both
  <2>3. <<"A", d, n>> \in HwChannels <=> n < HwCount(d) /\ ~(a = "dualB" /\ d = TRACE)
    BY <1>1 DEF HwChannels
  <2> QED BY <1>3, <2>1, <2>2, <2>3
<1> QED BY <1>4, <1>5

\* Two channel numbers the hardware has are of two channels
LEMMA OneChannel ==
    ASSUME on \in Platforms, NEW d \in Dirs, NEW n \in Nat, NEW e \in Dirs, NEW m \in Nat,
           ValidChannel(d, n), ValidChannel(e, m), HwOf(<<d, n>>) = HwOf(<<e, m>>)
    PROVE  d = e /\ n = m
<1>1. HwCount(d) \in 1..6 /\ HwCount(e) \in 1..6
  BY Counts
<1>2. HwOf(<<d, n>>)[1] = HwOf(<<e, m>>)[1] /\ HwOf(<<d, n>>)[2] = HwOf(<<e, m>>)[2]
      /\ HwOf(<<d, n>>)[3] = HwOf(<<e, m>>)[3]
  OBVIOUS
<1>3. HwOf(<<d, n>>)[2] = d /\ HwOf(<<e, m>>)[2] = e
  BY DEF HwOf
<1>4. CASE Single /\ k[2] \in {"MEM", "SHIM"}
  BY <1>1, <1>2, <1>3, <1>4 DEF HwOf
<1>5. CASE ~(Single /\ k[2] \in {"MEM", "SHIM"})
  BY <1>1, <1>2, <1>3, <1>5 DEF HwOf
<1> QED BY <1>4, <1>5

-----------------------------------------------------------------------------
(* Registers of channels.                                                  *)

\* the block of the control registers of a direction
CtrlBlock(d) ==
  CASE d = S2MM -> "CTRL" [] d = MM2S -> (IF IsAie4(k) THEN "CTRLMM2S" ELSE "CTRL")
    [] d = CTRL -> "CTRLCTRL" [] d = TRACE -> "CTRLTRACE"

LEMMA CtrlBlockIs ==
    ASSUME NEW d \in 0..3
    PROVE  HwCtrlBlock[d + 1] = CtrlBlock(d)
<1>1. CASE d = 0
  BY <1>1 DEF HwCtrlBlock, CtrlBlock, S2MM, MM2S, CTRL, TRACE
<1>2. CASE d = 1
  BY <1>2 DEF HwCtrlBlock, CtrlBlock, S2MM, MM2S, CTRL, TRACE
<1>3. CASE d = 2
  BY <1>3 DEF HwCtrlBlock, CtrlBlock, S2MM, MM2S, CTRL, TRACE
<1>4. CASE d = 3
  BY <1>4 DEF HwCtrlBlock, CtrlBlock, S2MM, MM2S, CTRL, TRACE
<1> QED BY <1>1, <1>2, <1>3, <1>4

\* Where the hardware's control registers are
LEMMA HwCtrlIs ==
    ASSUME on \in Platforms, NEW s, NEW d \in Dirs, NEW m \in Nat
    PROVE  HwCtrl(<<s, d, m>>) =
             <<s, CtrlBlock(d), 8 * m + (IF d = MM2S /\ ~IsAie4(k) THEN 8 * M.NumChannels ELSE 0)>>
<1>1. d \in 0..3
  BY Directions
<1>2. HwCtrlBlock[d + 1] = CtrlBlock(d)
  BY <1>1, CtrlBlockIs
<1>3. ~IsAie4(k) => M.NumChannels \in Nat
  BY Tables DEF Small, MlMem, Aie4Tile, Aie4Mem, Aie4Shim
<1>4. 8 * (m + IF d = MM2S /\ ~IsAie4(k) THEN M.NumChannels ELSE 0)
        = 8 * m + (IF d = MM2S /\ ~IsAie4(k) THEN 8 * M.NumChannels ELSE 0)
  BY <1>3
<1> QED BY <1>2, <1>4 DEF HwCtrl

\* No two channels of the hardware have a control register in common
LEMMA HwCtrlApart ==
    ASSUME on \in Platforms, NEW g \in HwChannels, NEW h \in HwChannels, HwCtrl(g) = HwCtrl(h)
    PROVE  g = h
<1>1. /\ g = <<g[1], g[2], g[3]>> /\ g[2] \in Dirs /\ g[3] \in Nat /\ g[3] < HwCount(g[2])
      /\ h = <<h[1], h[2], h[3]>> /\ h[2] \in Dirs /\ h[3] \in Nat /\ h[3] < HwCount(h[2])
  BY HwChannel
<1>2. g[2] \in 0..3 /\ h[2] \in 0..3
  BY <1>1, Directions
<1> DEFINE Off(x) == IF x[2] = MM2S /\ ~IsAie4(k) THEN 8 * M.NumChannels ELSE 0
<1>3. HwCtrl(g) = <<g[1], CtrlBlock(g[2]), 8 * g[3] + Off(g)>>
  BY <1>1, HwCtrlIs
<1>4. HwCtrl(h) = <<h[1], CtrlBlock(h[2]), 8 * h[3] + Off(h)>>
  BY <1>1, HwCtrlIs
<1> HIDE DEF Off
<1>5. g[1] = h[1] /\ CtrlBlock(g[2]) = CtrlBlock(h[2]) /\ 8 * g[3] + Off(g) = 8 * h[3] + Off(h)
  <2>1. ASSUME NEW a1, NEW a2, NEW a3, NEW b1, NEW b2, NEW b3, <<a1, a2, a3>> = <<b1, b2, b3>>
        PROVE  a1 = b1 /\ a2 = b2 /\ a3 = b3
    BY <2>1
  <2>2. <<g[1], CtrlBlock(g[2]), 8 * g[3] + Off(g)>> = <<h[1], CtrlBlock(h[2]), 8 * h[3] + Off(h)>>
    BY <1>3, <1>4
  <2> QED BY <2>1, <2>2
<1>6. CASE IsAie4(k)
  <2>1. g[2] = h[2]
    BY <1>2, <1>5, <1>6 DEF CtrlBlock, S2MM, MM2S, CTRL, TRACE
  <2>2. Off(g) = 0 /\ Off(h) = 0
    BY <1>6 DEF Off
  <2> QED BY <1>1, <1>5, <2>1, <2>2
<1>7. CASE ~IsAie4(k)
  <2>1. M.NumChannels \in Nat
    BY <1>7, Tables DEF Small, MlMem, Aie4Tile, Aie4Mem, Aie4Shim
  <2>2. HwCount(g[2]) = M.NumChannels /\ HwCount(h[2]) = M.NumChannels
    BY <1>7 DEF HwCount
  <2>3. g[2] \in {0, 1} /\ h[2] \in {0, 1}
    BY <1>1, <1>7, Directions DEF Aie4Shim, S2MM, MM2S
  <2>4. Off(g) = 8 * (g[2] * M.NumChannels) /\ Off(h) = 8 * (h[2] * M.NumChannels)
    BY <1>7, <2>1, <2>3 DEF MM2S, Off
  <2>5. g[2] = h[2]
    <3>1. CASE g[2] = 0 /\ h[2] = 1
      BY <1>1, <1>5, <2>1, <2>2, <2>4, <3>1
    <3>2. CASE g[2] = 1 /\ h[2] = 0
      BY <1>1, <1>5, <2>1, <2>2, <2>4, <3>2
    <3> QED BY <2>3, <3>1, <3>2
  <2>6. Off(g) = Off(h) /\ Off(g) \in Nat
    BY <2>1, <2>3, <2>4, <2>5
  <2>7. g[3] = h[3]
    BY <1>1, <1>5, <2>6
  <2> QED BY <1>1, <1>5, <2>5, <2>7
<1> QED BY <1>6, <1>7

\* a channel the code accepts: its half, its direction and its number there
LEMMA ChannelParts ==
    ASSUME on \in Platforms, NEW d \in Dirs, NEW n \in Nat, ValidChannel(d, n)
    PROVE  \E s \in {"A", "B"}, m \in Nat :
             /\ HwOf(<<d, n>>) = <<s, d, m>> /\ m < HwCount(d)
             /\ Single /\ k[2] \in {"MEM", "SHIM"} => <<s, m>> = Half(n, HwCount(d))
             /\ ~(Single /\ k[2] \in {"MEM", "SHIM"}) => s = "A" /\ m = n
<1>1. HwCount(d) \in 1..6
  BY Counts
<1>2. HwOf(<<d, n>>) \in HwChannels
  BY ChannelExists
<1>3. CASE Single /\ k[2] \in {"MEM", "SHIM"} /\ n >= HwCount(d)
  <2>1. HwOf(<<d, n>>) = <<"B", d, n - HwCount(d)>>
    BY <1>3 DEF HwOf
  <2>2. n - HwCount(d) < HwCount(d) /\ n - HwCount(d) \in Nat
    BY <1>1, <1>2, <1>3, <2>1, HwChannel
  <2>3. <<"B", n - HwCount(d)>> = Half(n, HwCount(d))
    BY <1>3 DEF Half
  <2> QED BY <1>3, <2>1, <2>2, <2>3
<1>4. CASE ~(Single /\ k[2] \in {"MEM", "SHIM"} /\ n >= HwCount(d))
  <2>1. HwOf(<<d, n>>) = <<"A", d, n>>
    BY <1>4 DEF HwOf
  <2>2. n < HwCount(d)
    BY <1>1, <1>2, <2>1, HwChannel
  <2>3. Single /\ k[2] \in {"MEM", "SHIM"} => <<"A", n>> = Half(n, HwCount(d))
    BY <1>4 DEF Half
  <2> QED BY <2>1, <2>2, <2>3
<1> QED BY <1>3, <1>4

\* The control register a call reaches is that of its channel
LEMMA CtrlReached ==
    ASSUME on \in Platforms, NEW d \in Dirs, NEW n \in Nat, ValidChannel(d, n)
    PROVE  ChannelCtrlAddr(d, n) = HwCtrl(HwOf(<<d, n>>))
<1>1. PICK s \in {"A", "B"}, m \in Nat :
             /\ HwOf(<<d, n>>) = <<s, d, m>> /\ m < HwCount(d)
             /\ Single /\ k[2] \in {"MEM", "SHIM"} => <<s, m>> = Half(n, HwCount(d))
             /\ ~(Single /\ k[2] \in {"MEM", "SHIM"}) => s = "A" /\ m = n
  BY ChannelParts
<1>2. HwCtrl(<<s, d, m>>) =
        <<s, CtrlBlock(d), 8 * m + (IF d = MM2S /\ ~IsAie4(k) THEN 8 * M.NumChannels ELSE 0)>>
  BY HwCtrlIs
<1>3. M.ChIdxOffset = 8
  BY Tables DEF Small, MlMem, Aie4Tile, Aie4Mem, Aie4Shim
<1>4. d \in 0..3 /\ HwCount(d) \in 1..6
  BY Directions, Counts
<1>5. CASE ~IsAie4(k)
  <2>1. M.NumChannels \in Nat
    BY <1>5, Tables DEF Small, MlMem, Aie4Tile, Aie4Mem, Aie4Shim
  <2>2. d \in {0, 1}
    BY <1>5, Directions DEF Aie4Shim, S2MM, MM2S
  <2>3. ChannelCtrlAddr(d, n) = <<"A", "CTRL", n * 8 + d * 8 * M.NumChannels>>
    BY <1>3, <1>5 DEF ChannelCtrlAddr
  <2>4. s = "A" /\ m = n /\ CtrlBlock(d) = "CTRL"
    BY <1>1, <1>5, <2>2 DEF Single, CtrlBlock, S2MM, MM2S, CTRL, TRACE
  <2>5. n * 8 + d * 8 * M.NumChannels =
          8 * m + (IF d = MM2S /\ ~IsAie4(k) THEN 8 * M.NumChannels ELSE 0)
    BY <1>5, <2>1, <2>2, <2>4 DEF MM2S
  <2> QED BY <1>1, <1>2, <2>3, <2>4, <2>5
<1>6. CASE IsAie4(k)
  <2>1. HalfChannels(d) = HwCount(d)
    BY <1>6 DEF HwCount
  <2>2. (IF a = "single" THEN Half(n, HalfChannels(d)) ELSE <<"A", n>>) = <<s, m>>
    <3>1. CASE a = "single" /\ k[2] = "TILE"
      BY <1>1, <1>4, <1>6, <2>1, <3>1 DEF Half
    <3>2. CASE a = "single" /\ k[2] # "TILE"
      BY <1>1, <1>6, <2>1, <3>2, PlatformKinds DEF Single
    <3>3. CASE a # "single"
      BY <1>1, <3>3 DEF Single
    <3> QED BY <3>1, <3>2, <3>3
  <2>3. (CASE d = S2MM -> "CTRL" [] d = MM2S -> "CTRLMM2S"
           [] d = CTRL -> "CTRLCTRL" [] d = TRACE -> "CTRLTRACE") = CtrlBlock(d)
    BY <1>6 DEF CtrlBlock
  <2>4. ChannelCtrlAddr(d, n) = <<s, CtrlBlock(d), m * 8>>
    <3>1. Aie4ChannelCtrlAddr(d, n) = <<<<s, m>>[1], CtrlBlock(d), <<s, m>>[2] * 8>>
      BY ONLY <1>3, <2>2, <2>3 DEF Aie4ChannelCtrlAddr
    <3> QED BY <1>6, <3>1 DEF ChannelCtrlAddr
  <2>5. HwCtrl(<<s, d, m>>) = <<s, CtrlBlock(d), 8 * m>>
    BY <1>2, <1>6
  <2> QED BY <1>1, <2>4, <2>5
<1> QED BY <1>5, <1>6

LEMMA Plus4Apart ==
    ASSUME NEW x1, NEW x2, NEW x3 \in Nat, NEW y1, NEW y2, NEW y3 \in Nat,
           Plus4(<<x1, x2, x3>>) = Plus4(<<y1, y2, y3>>)
    PROVE  <<x1, x2, x3>> = <<y1, y2, y3>>
BY DEF Plus4

LEMMA HwCtrlParts ==
    ASSUME on \in Platforms, NEW h \in HwChannels
    PROVE  \E b : \E n \in Nat : HwCtrl(h) = <<h[1], b, n>>
<1>1. h = <<h[1], h[2], h[3]>> /\ h[2] \in Dirs /\ h[3] \in Nat
  BY HwChannel
<1>2. ~IsAie4(k) => M.NumChannels \in Nat
  BY Tables DEF Small, MlMem, Aie4Tile, Aie4Mem, Aie4Shim
<1> DEFINE off == 8 * h[3] + (IF h[2] = MM2S /\ ~IsAie4(k) THEN 8 * M.NumChannels ELSE 0)
<1>3. off \in Nat
  BY <1>1, <1>2
<1>4. HwCtrl(h) = <<h[1], CtrlBlock(h[2]), off>>
  BY <1>1, HwCtrlIs
<1> QED BY <1>3, <1>4

\* No two channels of the hardware have a queue register in common
LEMMA HwQueueApart ==
    ASSUME on \in Platforms, NEW g \in HwChannels, NEW h \in HwChannels, HwQueue(g) = HwQueue(h)
    PROVE  g = h
<1>1. PICK b : \E n \in Nat : HwCtrl(g) = <<g[1], b, n>>
  BY HwCtrlParts
<1>2. PICK c : \E m \in Nat : HwCtrl(h) = <<h[1], c, m>>
  BY HwCtrlParts
<1>3. HwCtrl(g) = HwCtrl(h)
  BY <1>1, <1>2, Plus4Apart DEF HwQueue
<1> QED BY <1>3, HwCtrlApart

\* The queue register a push reaches is that of its channel
LEMMA QueueReached ==
    ASSUME on \in Platforms, NEW d \in Dirs, NEW n \in Nat, ValidChannel(d, n)
    PROVE  StartQueueAddr(d, n) = HwQueue(HwOf(<<d, n>>))
BY CtrlReached DEF StartQueueAddr, HwQueue

StatusBlock(d) ==
  CASE d = S2MM -> "STATUS" [] d = MM2S -> "STATUS"
    [] d = CTRL -> "STATUSCTRL" [] d = TRACE -> "STATUSTRACE"

LEMMA StatusBlockIs ==
    ASSUME NEW d \in 0..3
    PROVE  HwStatusBlock[d + 1] = StatusBlock(d)
<1>1. CASE d = 0
  BY <1>1 DEF HwStatusBlock, StatusBlock, S2MM, MM2S, CTRL, TRACE
<1>2. CASE d = 1
  BY <1>2 DEF HwStatusBlock, StatusBlock, S2MM, MM2S, CTRL, TRACE
<1>3. CASE d = 2
  BY <1>3 DEF HwStatusBlock, StatusBlock, S2MM, MM2S, CTRL, TRACE
<1>4. CASE d = 3
  BY <1>4 DEF HwStatusBlock, StatusBlock, S2MM, MM2S, CTRL, TRACE
<1> QED BY <1>1, <1>2, <1>3, <1>4

\* The tables' offset of the MM2S registers is the hardware's, and leaves the
\* S2MM registers their room
LEMMA StatusOffset ==
    ASSUME on \in Platforms
    PROVE  /\ M.ChStatusOffset \in Nat \ {0}
           /\ ~IsAie(k) => 4 * HwCount(S2MM) <= M.ChStatusOffset
           /\ M.ChStatusOffset = CASE k[2] = "TILE" -> 16
                                   [] k[2] = "MEM"  -> IF IsAie4(k) THEN 48 ELSE 32
                                   [] k[2] = "SHIM" -> IF IsAie(k) THEN 4 ELSE IF IsAie4(k) THEN 16 ELSE 8
<1>1. Small \/ MlMem \/ Aie4Tile \/ Aie4Mem \/ Aie4Shim
  BY Tables
<1>2. CASE Small
  <2>1. HwCount(S2MM) = 2
    BY <1>2 DEF Small, HwCount
  <2>2. ~IsAie4(k) /\ k[2] # "MEM"
    BY <1>2 DEF Small
  <2>3. CASE k[2] = "TILE"
    BY <1>2, <2>1, <2>3 DEF Small
  <2>4. CASE k[2] = "SHIM"
    BY <1>2, <2>1, <2>2, <2>4 DEF Small
  <2> QED BY <1>2, <2>3, <2>4 DEF Small
<1>3. CASE MlMem
  <2>1. HwCount(S2MM) = 6
    BY <1>3 DEF MlMem, HwCount
  <2> QED BY <1>3, <2>1 DEF MlMem
<1>4. CASE Aie4Tile
  <2>1. HwCount(S2MM) = 2
    BY <1>4 DEF Aie4Tile, HwCount, HalfChannels, S2MM, MM2S, CTRL, TRACE
  <2> QED BY <1>4, <2>1 DEF Aie4Tile
<1>5. CASE Aie4Mem
  <2>1. HwCount(S2MM) = 4
    BY <1>5 DEF Aie4Mem, HwCount, HalfChannels, S2MM, MM2S, CTRL, TRACE
  <2> QED BY <1>5, <2>1 DEF Aie4Mem
<1>6. CASE Aie4Shim
  <2>1. HwCount(S2MM) = 1
    BY <1>6 DEF Aie4Shim, HwCount, HalfChannels, S2MM, MM2S, CTRL, TRACE
  <2> QED BY <1>6, <2>1 DEF Aie4Shim
<1> QED BY <1>1, <1>2, <1>3, <1>4, <1>5, <1>6

StatusOff(d, m) ==
  (IF d = MM2S THEN M.ChStatusOffset ELSE 0) + (IF IsAie(k) THEN 0 ELSE 4 * m)

\* Where the hardware's status registers are
LEMMA HwStatusIs ==
    ASSUME on \in Platforms, NEW s, NEW d \in Dirs, NEW m \in Nat
    PROVE  HwStatus(<<s, d, m>>) = <<s, StatusBlock(d), StatusOff(d, m)>>
<1>1. d \in 0..3
  BY Directions
<1>2. HwStatusBlock[d + 1] = StatusBlock(d)
  BY <1>1, StatusBlockIs
<1> DEFINE off == CASE k[2] = "TILE" -> 16
                    [] k[2] = "MEM"  -> IF IsAie4(k) THEN 48 ELSE 32
                    [] k[2] = "SHIM" -> IF IsAie(k) THEN 4 ELSE IF IsAie4(k) THEN 16 ELSE 8
<1>3. M.ChStatusOffset = off
  BY StatusOffset
<1>4. HwStatus(<<s, d, m>>) =
        <<s, HwStatusBlock[d + 1], (IF d = MM2S THEN off ELSE 0) + (IF IsAie(k) THEN 0 ELSE 4 * m)>>
  <2> DEFINE h == <<s, d, m>>
  <2>1. h[1] = s /\ h[2] = d /\ h[3] = m
    OBVIOUS
  <2>2. HwStatus(h) =
          <<h[1], HwStatusBlock[h[2] + 1],
            (IF h[2] = MM2S THEN off ELSE 0) + (IF IsAie(k) THEN 0 ELSE 4 * h[3])>>
    BY DEF HwStatus
  <2> QED BY ONLY <2>1, <2>2
<1> QED BY <1>2, <1>3, <1>4 DEF StatusOff

\* No two channels of the hardware have a status register in common, and on
\* AIE no two of one number
LEMMA HwStatusApart ==
    ASSUME on \in Platforms, NEW g \in HwChannels, NEW h \in HwChannels,
           HwStatus(g) = HwStatus(h), IsAie(k) => g[3] = h[3]
    PROVE  g = h
<1>1. /\ g = <<g[1], g[2], g[3]>> /\ g[2] \in Dirs /\ g[3] \in Nat /\ g[3] < HwCount(g[2])
      /\ h = <<h[1], h[2], h[3]>> /\ h[2] \in Dirs /\ h[3] \in Nat /\ h[3] < HwCount(h[2])
  BY HwChannel
<1>2. g[2] \in 0..3 /\ h[2] \in 0..3
  BY <1>1, Directions
<1>3. HwStatus(g) = <<g[1], StatusBlock(g[2]), StatusOff(g[2], g[3])>>
  BY <1>1, HwStatusIs
<1>4. HwStatus(h) = <<h[1], StatusBlock(h[2]), StatusOff(h[2], h[3])>>
  BY <1>1, HwStatusIs
<1>5. /\ g[1] = h[1] /\ StatusBlock(g[2]) = StatusBlock(h[2])
      /\ StatusOff(g[2], g[3]) = StatusOff(h[2], h[3])
  <2>1. ASSUME NEW a1, NEW a2, NEW a3, NEW b1, NEW b2, NEW b3, <<a1, a2, a3>> = <<b1, b2, b3>>
        PROVE  a1 = b1 /\ a2 = b2 /\ a3 = b3
    BY <2>1
  <2>2. <<g[1], StatusBlock(g[2]), StatusOff(g[2], g[3])>>
          = <<h[1], StatusBlock(h[2]), StatusOff(h[2], h[3])>>
    BY <1>3, <1>4
  <2> QED BY <2>1, <2>2
<1>6. g[2] = h[2] \/ (g[2] = S2MM /\ h[2] = MM2S) \/ (g[2] = MM2S /\ h[2] = S2MM)
  BY <1>2, <1>5 DEF StatusBlock, S2MM, MM2S, CTRL, TRACE
<1>7. /\ M.ChStatusOffset \in Nat \ {0}
      /\ ~IsAie(k) => 4 * HwCount(S2MM) <= M.ChStatusOffset
      /\ HwCount(S2MM) \in Nat
  BY StatusOffset, Counts, Directions
<1>8. CASE g[2] = h[2]
  <2>1. g[3] = h[3]
    BY <1>1, <1>5, <1>7, <1>8 DEF StatusOff
  <2> QED BY <1>1, <1>5, <1>8, <2>1
<1>9. CASE g[2] = S2MM /\ h[2] = MM2S
  BY <1>1, <1>5, <1>7, <1>9 DEF StatusOff, S2MM, MM2S
<1>10. CASE g[2] = MM2S /\ h[2] = S2MM
  BY <1>1, <1>5, <1>7, <1>10 DEF StatusOff, S2MM, MM2S
<1> QED BY <1>6, <1>8, <1>9, <1>10

\* The status register a call reads is that of its channel
LEMMA StatusReached ==
    ASSUME on \in Platforms, NEW d \in Dirs, NEW n \in Nat, ValidChannel(d, n)
    PROVE  /\ ChannelStatusAddr(d, n) = HwStatus(HwOf(<<d, n>>))
           /\ IsAie(k) => HwOf(<<d, n>>)[3] = n
<1>1. PICK s \in {"A", "B"}, m \in Nat :
             /\ HwOf(<<d, n>>) = <<s, d, m>> /\ m < HwCount(d)
             /\ Single /\ k[2] \in {"MEM", "SHIM"} => <<s, m>> = Half(n, HwCount(d))
             /\ ~(Single /\ k[2] \in {"MEM", "SHIM"}) => s = "A" /\ m = n
  BY ChannelParts
<1>2. HwStatus(<<s, d, m>>) = <<s, StatusBlock(d), StatusOff(d, m)>>
  BY HwStatusIs
<1>3. d \in 0..3 /\ HwCount(d) \in 1..6 /\ M.ChStatusOffset \in Nat
  BY Directions, Counts, StatusOffset
<1>4. IsAie(k) => ~IsAie4(k)
  BY DEF IsAie, IsAie4
<1>5. CASE ~IsAie4(k)
  <2>1. d \in {0, 1}
    BY <1>5, Directions DEF Aie4Shim, S2MM, MM2S
  <2>2. s = "A" /\ m = n /\ StatusBlock(d) = "STATUS"
    BY <1>1, <1>5, <2>1 DEF Single, StatusBlock, S2MM, MM2S, CTRL, TRACE
  <2>3. ChannelStatusAddr(d, n) =
          <<"A", "STATUS", (IF IsAie(k) THEN 0 ELSE n * 4) + d * M.ChStatusOffset>>
    BY <1>3, <1>5, <2>1 DEF ChannelStatusAddr
  <2>4. (IF IsAie(k) THEN 0 ELSE n * 4) + d * M.ChStatusOffset = StatusOff(d, n)
    BY <1>3, <2>1 DEF StatusOff, MM2S
  <2> QED BY <1>1, <1>2, <2>2, <2>3, <2>4
<1>6. CASE IsAie4(k)
  <2>1. HalfChannels(d) = HwCount(d)
    BY <1>6 DEF HwCount
  <2>2. (IF a = "single" THEN Half(n, HalfChannels(d)) ELSE <<"A", n>>) = <<s, m>>
    <3>1. CASE a = "single" /\ k[2] = "TILE"
      BY <1>1, <1>3, <1>6, <2>1, <3>1 DEF Half
    <3>2. CASE a = "single" /\ k[2] # "TILE"
      BY <1>1, <1>6, <2>1, <3>2, PlatformKinds DEF Single
    <3>3. CASE a # "single"
      BY <1>1, <3>3 DEF Single
    <3> QED BY <3>1, <3>2, <3>3
  <2>3. Aie4ChannelStatusAddr(d, n) =
          CASE d = S2MM  -> <<s, "STATUS", m * 4>>
            [] d = MM2S  -> <<s, "STATUS", M.ChStatusOffset + m * 4>>
            [] d = CTRL  -> <<s, "STATUSCTRL", m * 4>>
            [] d = TRACE -> <<s, "STATUSTRACE", m * 4>>
    <3>1. Aie4ChannelStatusAddr(d, n) =
          CASE d = S2MM  -> <<<<s, m>>[1], "STATUS", <<s, m>>[2] * 4>>
            [] d = MM2S  -> <<<<s, m>>[1], "STATUS", M.ChStatusOffset + <<s, m>>[2] * 4>>
            [] d = CTRL  -> <<<<s, m>>[1], "STATUSCTRL", <<s, m>>[2] * 4>>
            [] d = TRACE -> <<<<s, m>>[1], "STATUSTRACE", <<s, m>>[2] * 4>>
      BY ONLY <2>2 DEF Aie4ChannelStatusAddr
    <3>2. <<s, m>>[1] = s /\ <<s, m>>[2] = m
      OBVIOUS
    <3> QED BY ONLY <3>1, <3>2
  <2>4. Aie4ChannelStatusAddr(d, n) = <<s, StatusBlock(d), StatusOff(d, m)>>
    BY <1>1, <1>3, <1>4, <1>6, <2>3 DEF StatusBlock, StatusOff, S2MM, MM2S, CTRL, TRACE
  <2>5. ChannelStatusAddr(d, n) = Aie4ChannelStatusAddr(d, n)
    BY <1>4, <1>6 DEF ChannelStatusAddr
  <2> QED BY <1>1, <1>2, <1>4, <1>6, <2>4, <2>5
<1> QED BY <1>5, <1>6

-----------------------------------------------------------------------------
(* Descriptors.                                                            *)

\* what the calls on a descriptor and a push accept
BdOK(d, n, b) == (PvtPool(d) => ValidChannel(d, n)) /\ b < NumBdsGeneric(d)
PushOK(d, n, b) == ValidChannel(d, n) /\ b < NumBdsGeneric(d) /\ BdChValidity(d, b, n)

\* the half of a channel and its number there
LEMMA ChannelHalf ==
    ASSUME on \in Platforms, NEW d \in Dirs, NEW n \in Nat, ValidChannel(d, n)
    PROVE  \E s \in {"A", "B"}, m \in Nat :
             /\ HwOf(<<d, n>>) = <<s, d, m>> /\ m < HwCount(d) /\ <<s, m>> = Half(n, HwCount(d))
             /\ s = "B" => Both(d) /\ n = m + HwCount(d)
             /\ s = "A" => n = m
<1>1. PICK s \in {"A", "B"}, m \in Nat :
             /\ HwOf(<<d, n>>) = <<s, d, m>> /\ m < HwCount(d)
             /\ Single /\ k[2] \in {"MEM", "SHIM"} => <<s, m>> = Half(n, HwCount(d))
             /\ ~(Single /\ k[2] \in {"MEM", "SHIM"}) => s = "A" /\ m = n
  BY ChannelParts
<1>2. HwOf(<<d, n>>) \in HwChannels
  BY ChannelExists
<1>3. s = "B" => Both(d)
  BY <1>1, <1>2, HwChannel
<1>4. HwCount(d) \in 1..6
  BY Counts
<1>5. CASE Single /\ k[2] \in {"MEM", "SHIM"}
  <2>1. <<s, m>> = Half(n, HwCount(d))
    BY <1>1, <1>5
  <2>2. n >= HwCount(d) => s = "B" /\ m = n - HwCount(d)
    BY <2>1 DEF Half
  <2>3. ~(n >= HwCount(d)) => s = "A" /\ m = n
    BY <2>1 DEF Half
  <2> QED BY <1>1, <1>3, <1>4, <2>1, <2>2, <2>3
<1>6. CASE ~(Single /\ k[2] \in {"MEM", "SHIM"})
  <2>1. s = "A" /\ m = n
    BY <1>1, <1>6
  <2>2. <<"A", n>> = Half(n, HwCount(d))
    BY <1>1, <1>4, <2>1 DEF Half
  <2> QED BY <1>1, <2>1, <2>2
<1> QED BY <1>5, <1>6

LEMMA HwNumberIs ==
    ASSUME NEW d, NEW n, NEW b, NEW s, NEW m, HwOf(<<d, n>>) = <<s, d, m>>
    PROVE  HwNumber(<<d, n, b>>) =
             IF s = "B" /\ k[2] = "SHIM" /\ d \in {S2MM, MM2S} THEN b - 16 ELSE b
<1> DEFINE j == <<d, n, b>>
<1>1. j[1] = d /\ j[2] = n /\ j[3] = b
  OBVIOUS
<1>2. HwNumber(j) = IF HwOf(<<j[1], j[2]>>)[1] = "B" /\ k[2] = "SHIM" /\ j[1] \in {S2MM, MM2S}
                    THEN j[3] - 16 ELSE j[3]
  BY DEF HwNumber
<1>3. <<s, d, m>>[1] = s
  OBVIOUS
<1> QED BY ONLY <1>1, <1>2, <1>3, HwOf(<<d, n>>) = <<s, d, m>>

\* how many descriptors a direction has, in every layout
LEMMA BdCounts ==
    ASSUME on \in Platforms, NEW d \in Dirs
    PROVE  /\ Small \/ Aie4Tile => ~PvtPool(d) /\ NumBdsGeneric(d) = 16
           /\ MlMem => ~PvtPool(d) /\ NumBdsGeneric(d) = 48
           /\ Aie4Mem => PvtPool(d) /\ NumBdsGeneric(d) = 16
           /\ Aie4Shim /\ d \in {S2MM, MM2S} =>
                ~PvtPool(d) /\ NumBdsGeneric(d) = IF a = "single" THEN 32 ELSE 16
           /\ Aie4Shim /\ d = CTRL => PvtPool(d) /\ NumBdsGeneric(d) = 8
           /\ Aie4Shim /\ d = TRACE => PvtPool(d) /\ NumBdsGeneric(d) = 4
<1>1. ASSUME Small PROVE ~PvtPool(d) /\ NumBdsGeneric(d) = 16
  BY <1>1 DEF Small, PvtPool, NumBdsGeneric, SharedMaxNumBds
<1>2. ASSUME Aie4Tile PROVE ~PvtPool(d) /\ NumBdsGeneric(d) = 16
  BY <1>2 DEF Aie4Tile, PvtPool, NumBdsGeneric, SharedMaxNumBds, MaxElement
<1>3. ASSUME MlMem PROVE ~PvtPool(d) /\ NumBdsGeneric(d) = 48
  BY <1>3 DEF MlMem, PvtPool, NumBdsGeneric, SharedMaxNumBds
<1>4. ASSUME Aie4Mem PROVE PvtPool(d) /\ NumBdsGeneric(d) = 16
  BY <1>4 DEF Aie4Mem, PvtPool, NumBdsGeneric, PrivateMaxNumBds
<1>5. ASSUME Aie4Shim, d \in {S2MM, MM2S}
      PROVE  ~PvtPool(d) /\ NumBdsGeneric(d) = IF a = "single" THEN 32 ELSE 16
  BY <1>5 DEF Aie4Shim, PvtPool, NumBdsGeneric, SharedMaxNumBds, MaxElement, S2MM, MM2S, CTRL, TRACE
<1>6. ASSUME Aie4Shim, d = CTRL PROVE PvtPool(d) /\ NumBdsGeneric(d) = 8
  BY <1>6 DEF Aie4Shim, PvtPool, NumBdsGeneric, PrivateMaxNumBds, CTRL, TRACE
<1>7. ASSUME Aie4Shim, d = TRACE PROVE PvtPool(d) /\ NumBdsGeneric(d) = 4
  BY <1>7 DEF Aie4Shim, PvtPool, NumBdsGeneric, PrivateMaxNumBds, CTRL, TRACE
<1> QED BY <1>1, <1>2, <1>3, <1>4, <1>5, <1>6, <1>7

\* A push is accepted exactly when the channel has the descriptor
LEMMA PushExact ==
    ASSUME on \in Platforms, NEW d \in Dirs, NEW n \in Nat, NEW b \in Nat
    PROVE  PushOK(d, n, b) <=> HwHas(<<d, n, b>>)
<1>1. HwHas(<<d, n, b>>) <=>
        HwOf(<<d, n>>) \in HwChannels /\ HwNumber(<<d, n, b>>) \in HwPool(HwOf(<<d, n>>))
  BY DEF HwHas
<1>2. SUFFICES ASSUME ValidChannel(d, n)
               PROVE  b < NumBdsGeneric(d) /\ BdChValidity(d, b, n)
                        <=> HwNumber(<<d, n, b>>) \in HwPool(HwOf(<<d, n>>))
  BY <1>1, ChannelExists DEF PushOK
<1>3. PICK s \in {"A", "B"}, m \in Nat :
        /\ HwOf(<<d, n>>) = <<s, d, m>> /\ m < HwCount(d) /\ <<s, m>> = Half(n, HwCount(d))
        /\ s = "B" => Both(d) /\ n = m + HwCount(d)
        /\ s = "A" => n = m
  BY <1>2, ChannelHalf
<1>4. HwNumber(<<d, n, b>>) =
        IF s = "B" /\ k[2] = "SHIM" /\ d \in {S2MM, MM2S} THEN b - 16 ELSE b
  BY <1>3, HwNumberIs
<1>5. HwPool(<<s, d, m>>) =
        IF IsAie4(k)
        THEN CASE d = CTRL -> 0..7 [] d = TRACE -> 0..3 [] OTHER -> 0..15
        ELSE IF k[2] = "MEM" THEN (IF m % 2 = 0 THEN 0..23 ELSE 24..47) ELSE 0..15
  <2>1. <<s, d, m>>[2] = d /\ <<s, d, m>>[3] = m
    OBVIOUS
  <2> QED BY ONLY <2>1 DEF HwPool
<1>6. Small \/ MlMem \/ Aie4Tile \/ Aie4Mem \/ Aie4Shim
  BY Tables
<1>7. ~IsAie4(k) => s = "A"
  BY <1>3 DEF Both, Single
<1>8. CASE Small
  <2>1. NumBdsGeneric(d) = 16
    BY <1>8, BdCounts
  <2>2. BdChValidity(d, b, n)
    BY <1>8 DEF Small, BdChValidity
  <2>3. HwPool(<<s, d, m>>) = 0..15 /\ HwNumber(<<d, n, b>>) = b
    BY <1>4, <1>5, <1>7, <1>8 DEF Small
  <2> QED BY <1>3, <2>1, <2>2, <2>3
<1>9. CASE MlMem
  <2>1. NumBdsGeneric(d) = 48
    BY <1>9, BdCounts
  <2>2. BdChValidity(d, b, n) <=> ((b < 24) <=> (n % 2 = 0))
    BY <1>9 DEF MlMem, BdChValidity, MemTileCheckBdChValidity
  <2>3. HwPool(<<s, d, m>>) = (IF m % 2 = 0 THEN 0..23 ELSE 24..47) /\ HwNumber(<<d, n, b>>) = b
    BY <1>4, <1>5, <1>7, <1>9 DEF MlMem
  <2>4. n = m
    BY <1>3, <1>7, <1>9 DEF MlMem
  <2> QED BY <1>3, <2>1, <2>2, <2>3, <2>4
<1>10. CASE Aie4Tile
  <2>1. NumBdsGeneric(d) = 16 /\ d # CTRL /\ d # TRACE
    BY <1>10, BdCounts, Directions DEF Aie4Tile, Aie4Shim, S2MM, MM2S, CTRL, TRACE
  <2>2. BdChValidity(d, b, n)
    BY <1>10 DEF Aie4Tile, BdChValidity
  <2>3. HwPool(<<s, d, m>>) = 0..15 /\ HwNumber(<<d, n, b>>) = b
    BY <1>4, <1>5, <1>10, <2>1 DEF Aie4Tile
  <2> QED BY <1>3, <2>1, <2>2, <2>3
<1>11. CASE Aie4Mem
  <2>1. NumBdsGeneric(d) = 16 /\ d # CTRL /\ d # TRACE
    BY <1>11, BdCounts, Directions DEF Aie4Mem, Aie4Shim, S2MM, MM2S, CTRL, TRACE
  <2>2. BdChValidity(d, b, n)
    BY <1>11 DEF Aie4Mem, BdChValidity
  <2>3. HwPool(<<s, d, m>>) = 0..15 /\ HwNumber(<<d, n, b>>) = b
    BY <1>4, <1>5, <1>11, <2>1 DEF Aie4Mem
  <2> QED BY <1>3, <2>1, <2>2, <2>3
<1>12. CASE Aie4Shim /\ d = CTRL
  <2>1. NumBdsGeneric(d) = 8
    BY <1>12, BdCounts
  <2>2. BdChValidity(d, b, n)
    BY <1>12 DEF Aie4Shim, BdChValidity, ShimTileCheckBdChValidity
  <2>3. HwPool(<<s, d, m>>) = 0..7 /\ HwNumber(<<d, n, b>>) = b
    BY <1>4, <1>5, <1>12 DEF Aie4Shim, S2MM, MM2S, CTRL, TRACE
  <2> QED BY <1>3, <2>1, <2>2, <2>3
<1>13. CASE Aie4Shim /\ d = TRACE
  <2>1. NumBdsGeneric(d) = 4
    BY <1>13, BdCounts
  <2>2. BdChValidity(d, b, n)
    BY <1>13 DEF Aie4Shim, BdChValidity, ShimTileCheckBdChValidity
  <2>3. HwPool(<<s, d, m>>) = 0..3 /\ HwNumber(<<d, n, b>>) = b
    BY <1>4, <1>5, <1>13 DEF Aie4Shim, S2MM, MM2S, CTRL, TRACE
  <2> QED BY <1>3, <2>1, <2>2, <2>3
<1>14. CASE Aie4Shim /\ d \in {S2MM, MM2S}
  <2>1. NumBdsGeneric(d) = IF a = "single" THEN 32 ELSE 16
    BY <1>14, BdCounts
  <2>2. HalfChannels(d) = HwCount(d) /\ HwCount(d) \in Nat
    BY <1>14, Counts DEF Aie4Shim, HwCount
  <2>3. BdChValidity(d, b, n) <=> (b < 16 /\ n < HwCount(d)) \/ (b \in 16..31 /\ n >= HwCount(d))
    BY <1>14, <2>2 DEF Aie4Shim, BdChValidity, ShimTileCheckBdChValidity, S2MM, MM2S, CTRL, TRACE
  <2>4. HwPool(<<s, d, m>>) = 0..15 /\ HwNumber(<<d, n, b>>) = IF s = "B" THEN b - 16 ELSE b
    BY <1>4, <1>5, <1>14 DEF Aie4Shim, S2MM, MM2S, CTRL, TRACE
  <2>5. CASE s = "B"
    <3>1. a = "single" /\ n >= HwCount(d) /\ ~(n < HwCount(d))
      BY <1>3, <2>2, <2>5 DEF Both, Single
    <3> QED BY <1>3, <2>1, <2>3, <2>4, <2>5, <3>1
  <2>6. CASE s = "A"
    <3>1. n < HwCount(d) /\ ~(n >= HwCount(d))
      BY <1>3, <2>2, <2>6
    <3> QED BY <1>3, <2>1, <2>3, <2>4, <2>6, <3>1
  <2> QED BY <2>5, <2>6
<1>15. Aie4Shim => d \in {S2MM, MM2S} \/ d = CTRL \/ d = TRACE
  BY Directions DEF S2MM, MM2S, CTRL, TRACE
<1> QED BY <1>6, <1>8, <1>9, <1>10, <1>11, <1>12, <1>13, <1>14, <1>15

\* where the hardware's descriptors are
LEMMA HwBdIs ==
    ASSUME NEW s, NEW d, NEW m, NEW x
    PROVE  HwBd(<<s, d, m>>, x) =
             CASE IsAie4(k) /\ d = CTRL  -> <<s, "CTRLBD", (8 * m + x) * M.IdxOffset>>
               [] IsAie4(k) /\ d = TRACE -> <<s, "TRACEBD", (4 * m + x) * M.IdxOffset>>
               [] IsAie4(k) /\ k[2] = "MEM" /\ d \in {S2MM, MM2S} ->
                    <<s, "BD", (16 * (m + (IF d = MM2S THEN HwCount(S2MM) ELSE 0)) + x) * M.IdxOffset>>
               [] OTHER -> <<s, "BD", x * M.IdxOffset>>
<1>1. <<s, d, m>>[1] = s /\ <<s, d, m>>[2] = d /\ <<s, d, m>>[3] = m
  OBVIOUS
<1> QED BY ONLY <1>1 DEF HwBd

\* The descriptor register a call reaches, of the channels' own pools
LEMMA PvtAddrs ==
    ASSUME on \in Platforms, NEW d \in Dirs, NEW n \in Nat, NEW b \in Nat,
           NEW s, NEW m \in Nat, <<s, m>> = Half(n, HwCount(d))
    PROVE  /\ Aie4Mem => BdAddr(d, n, b) =
                <<s, "BD", ((d * 4 + m) * 16 + b) * 48>>
           /\ Aie4Shim /\ d = CTRL => BdAddr(d, n, b) = <<s, "CTRLBD", (m * 8 + b) * 48>>
           /\ Aie4Shim /\ d = TRACE => BdAddr(d, n, b) = <<"A", "TRACEBD", (n * 4 + b) * 48>>
<1>1. <<s, m>>[1] = s /\ <<s, m>>[2] = m
  OBVIOUS
<1>2. ASSUME Aie4Mem PROVE BdAddr(d, n, b) = <<s, "BD", ((d * 4 + m) * 16 + b) * 48>>
  <2>1. PvtPool(d)
    BY <1>2, BdCounts
  <2>2. BdAddr(d, n, b) = MemTileBdBaseAddr(d, n, b)
    BY <1>2, <2>1 DEF BdAddr, Aie4Mem
  <2>3. d \in {S2MM, MM2S}
    BY <1>2, Directions DEF Aie4Mem, Aie4Shim
  <2>4. (IF d = MM2S THEN M.NumMm2sChannels ELSE M.NumChannels) = HwCount(d)
    BY <1>2, <2>3 DEF Aie4Mem, HwCount, HalfChannels, S2MM, MM2S, CTRL, TRACE
  <2>5. MemTileBdBaseAddr(d, n, b) =
          <<<<s, m>>[1], "BD", ((d * M.NumChannels + <<s, m>>[2]) * M.NumBds + b) * M.IdxOffset>>
    BY ONLY <2>4, <<s, m>> = Half(n, HwCount(d)) DEF MemTileBdBaseAddr
  <2> QED BY <1>1, <1>2, <2>2, <2>5 DEF Aie4Mem
<1>3. ASSUME Aie4Shim, d = CTRL PROVE BdAddr(d, n, b) = <<s, "CTRLBD", (m * 8 + b) * 48>>
  <2>1. PvtPool(d)
    BY <1>3, BdCounts
  <2>2. BdAddr(d, n, b) = ShimPvtBdAddr(d, n, b)
    BY <1>3, <2>1 DEF BdAddr, Aie4Shim
  <2>4. CtrlMm2sProp.NumChannels = HwCount(d)
    BY <1>3 DEF Aie4Shim, HwCount, HalfChannels, S2MM, MM2S, CTRL, TRACE
  <2>5. ShimPvtBdAddr(d, n, b) =
          <<<<s, m>>[1], "CTRLBD", (<<s, m>>[2] * CtrlMm2sProp.NumBds + b) * M.IdxOffset>>
    BY ONLY <1>3, <2>4, <<s, m>> = Half(n, HwCount(d)) DEF ShimPvtBdAddr
  <2> QED BY <1>1, <1>3, <2>2, <2>5 DEF Aie4Shim
<1>4. ASSUME Aie4Shim, d = TRACE PROVE BdAddr(d, n, b) = <<"A", "TRACEBD", (n * 4 + b) * 48>>
  <2>1. PvtPool(d)
    BY <1>4, BdCounts
  <2>2. BdAddr(d, n, b) = ShimPvtBdAddr(d, n, b)
    BY <1>4, <2>1 DEF BdAddr, Aie4Shim
  <2> QED BY <1>4, <2>2 DEF ShimPvtBdAddr, Aie4Shim, CTRL, TRACE
<1> QED BY <1>2, <1>3, <1>4

\* and of the pools that every channel may use
LEMMA SharedAddrs ==
    ASSUME on \in Platforms, NEW d \in Dirs, NEW n \in Nat, NEW b \in Nat, ~PvtPool(d)
    PROVE  BdAddr(d, n, b) =
             IF Aie4Shim /\ b >= 16 THEN <<"B", "BD", (b - 16) * M.IdxOffset>>
             ELSE <<"A", "BD", b * M.IdxOffset>>
<1>1. CASE Aie4Shim
  <2>1. BdAddr(d, n, b) = ShimBdAddr(b)
    BY <1>1 DEF BdAddr, Aie4Shim
  <2>2. CASE b >= 16
    <3>1. Half(b, M.NumBds) = <<"B", b - 16>>
      BY <1>1, <2>2 DEF Half, Aie4Shim
    <3> QED BY <1>1, <2>1, <2>2, <3>1 DEF ShimBdAddr
  <2>3. CASE ~(b >= 16)
    <3>1. Half(b, M.NumBds) = <<"A", b>>
      BY <1>1, <2>3 DEF Half, Aie4Shim
    <3> QED BY <1>1, <2>1, <2>3, <3>1 DEF ShimBdAddr
  <2> QED BY <2>2, <2>3
<1>2. CASE ~Aie4Shim
  <2>1. ~(k[2] = "SHIM" /\ IsAie4(k))
    BY <1>2, Tables DEF Small, MlMem, Aie4Tile, Aie4Mem
  <2> QED BY <1>2, <2>1 DEF BdAddr, TileBdAddr
<1> QED BY <1>1, <1>2

\* The channel that takes a task fetches the register the writers of the
\* descriptor reach
LEMMA BdFetched ==
    ASSUME on \in Platforms, NEW d \in Dirs, NEW n \in Nat, NEW b \in Nat, PushOK(d, n, b)
    PROVE  BdAddr(d, n, b) = HwBd(HwOf(<<d, n>>), HwNumber(<<d, n, b>>))
<1>0. ValidChannel(d, n) /\ b < NumBdsGeneric(d) /\ BdChValidity(d, b, n)
  BY DEF PushOK
<1>1. PICK s \in {"A", "B"}, m \in Nat :
        /\ HwOf(<<d, n>>) = <<s, d, m>> /\ m < HwCount(d) /\ <<s, m>> = Half(n, HwCount(d))
        /\ s = "B" => Both(d) /\ n = m + HwCount(d)
        /\ s = "A" => n = m
  BY <1>0, ChannelHalf
<1>2. HwNumber(<<d, n, b>>) =
        IF s = "B" /\ k[2] = "SHIM" /\ d \in {S2MM, MM2S} THEN b - 16 ELSE b
  BY <1>1, HwNumberIs
<1> DEFINE x == HwNumber(<<d, n, b>>)
<1>3. HwBd(<<s, d, m>>, x) =
             CASE IsAie4(k) /\ d = CTRL  -> <<s, "CTRLBD", (8 * m + x) * M.IdxOffset>>
               [] IsAie4(k) /\ d = TRACE -> <<s, "TRACEBD", (4 * m + x) * M.IdxOffset>>
               [] IsAie4(k) /\ k[2] = "MEM" /\ d \in {S2MM, MM2S} ->
                    <<s, "BD", (16 * (m + (IF d = MM2S THEN HwCount(S2MM) ELSE 0)) + x) * M.IdxOffset>>
               [] OTHER -> <<s, "BD", x * M.IdxOffset>>
  BY HwBdIs
<1> HIDE DEF x
<1>4. Small \/ MlMem \/ Aie4Tile \/ Aie4Mem \/ Aie4Shim
  BY Tables
<1>5. ~IsAie4(k) => s = "A"
  BY <1>1 DEF Both, Single
<1>6. CASE Small \/ MlMem
  <2>1. ~IsAie4(k) /\ ~PvtPool(d) /\ ~Aie4Shim
    BY <1>6, BdCounts DEF Small, MlMem, Aie4Shim
  <2>2. BdAddr(d, n, b) = <<"A", "BD", b * M.IdxOffset>>
    BY <2>1, SharedAddrs
  <2>3. s = "A" /\ x = b
    BY <1>2, <1>5, <2>1 DEF x
  <2> QED BY <1>1, <1>3, <2>1, <2>2, <2>3 DEF x
<1>7. CASE Aie4Tile
  <2>1. ~PvtPool(d) /\ ~Aie4Shim /\ d # CTRL /\ d # TRACE /\ k[2] = "TILE"
    BY <1>7, BdCounts, Directions DEF Aie4Tile, Aie4Shim, S2MM, MM2S, CTRL, TRACE
  <2>2. BdAddr(d, n, b) = <<"A", "BD", b * M.IdxOffset>>
    BY <2>1, SharedAddrs
  <2>3. s = "A" /\ x = b
    BY <1>1, <1>2, <2>1 DEF x, Both
  <2> QED BY <1>1, <1>3, <2>1, <2>2, <2>3 DEF x
<1>8. CASE Aie4Mem
  <2>1. d \in {S2MM, MM2S} /\ d # CTRL /\ d # TRACE /\ k[2] = "MEM" /\ IsAie4(k)
    BY <1>8, Directions DEF Aie4Mem, Aie4Shim, S2MM, MM2S, CTRL, TRACE
  <2>2. BdAddr(d, n, b) = <<s, "BD", ((d * 4 + m) * 16 + b) * 48>>
    BY <1>1, <1>8, PvtAddrs
  <2>3. x = b
    BY <1>2, <2>1 DEF x
  <2>4. HwCount(S2MM) = 4 /\ M.IdxOffset = 48
    BY <1>8 DEF Aie4Mem, HwCount, HalfChannels, S2MM, MM2S, CTRL, TRACE
  <2>5. HwBd(<<s, d, m>>, x) = <<s, "BD", (16 * (m + (IF d = MM2S THEN 4 ELSE 0)) + b) * 48>>
    BY <1>3, <2>1, <2>3, <2>4
  <2>6. (16 * (m + (IF d = MM2S THEN 4 ELSE 0)) + b) = (d * 4 + m) * 16 + b
    BY <2>1 DEF S2MM, MM2S
  <2> QED BY <1>1, <2>2, <2>5, <2>6 DEF x
<1>9. CASE Aie4Shim
  <2>0. k[2] = "SHIM" /\ IsAie4(k) /\ M.IdxOffset = 48
    BY <1>9 DEF Aie4Shim
  <2>1. d \in {S2MM, MM2S} \/ d = CTRL \/ d = TRACE
    BY Directions DEF S2MM, MM2S, CTRL, TRACE
  <2>2. CASE d = CTRL
    <3>1. BdAddr(d, n, b) = <<s, "CTRLBD", (m * 8 + b) * 48>>
      BY <1>1, <1>9, <2>2, PvtAddrs
    <3>2. x = b
      BY <1>2, <2>2 DEF x, S2MM, MM2S, CTRL
    <3>3. HwBd(<<s, d, m>>, x) = <<s, "CTRLBD", (8 * m + b) * 48>>
      BY <1>3, <2>0, <2>2, <3>2 DEF S2MM, MM2S, CTRL, TRACE
    <3> QED BY <1>1, <3>1, <3>3 DEF x
  <2>3. CASE d = TRACE
    <3>1. BdAddr(d, n, b) = <<"A", "TRACEBD", (n * 4 + b) * 48>>
      BY <1>1, <1>9, <2>3, PvtAddrs
    <3>2. x = b /\ s = "A" /\ n = m
      BY <1>1, <1>2, <2>3 DEF x, Both, S2MM, MM2S, TRACE
    <3>3. HwBd(<<s, d, m>>, x) = <<s, "TRACEBD", (4 * m + b) * 48>>
      BY <1>3, <2>0, <2>3, <3>2 DEF S2MM, MM2S, CTRL, TRACE
    <3> QED BY <1>1, <3>1, <3>2, <3>3 DEF x
  <2>4. CASE d \in {S2MM, MM2S}
    <3>1. ~PvtPool(d) /\ d # CTRL /\ d # TRACE
      BY <1>9, <2>4, BdCounts DEF S2MM, MM2S, CTRL, TRACE
    <3>2. HwBd(<<s, d, m>>, x) = <<s, "BD", x * 48>>
      BY <1>3, <2>0, <3>1
    <3>3. HalfChannels(d) = HwCount(d) /\ HwCount(d) \in Nat
      BY <2>0, Counts DEF HwCount
    <3>4. (b < 16 /\ n < HwCount(d)) \/ (b \in 16..31 /\ n >= HwCount(d))
      BY <1>0, <1>9, <2>4, <3>3 DEF Aie4Shim, BdChValidity, ShimTileCheckBdChValidity, S2MM, MM2S, CTRL, TRACE
    <3>5. CASE s = "B"
      <4>1. b >= 16 /\ x = b - 16
        BY <1>1, <1>2, <2>0, <2>4, <3>3, <3>4, <3>5 DEF x
      <4>2. BdAddr(d, n, b) = <<"B", "BD", (b - 16) * 48>>
        BY <1>9, <2>0, <3>1, <4>1, SharedAddrs
      <4> QED BY <1>1, <3>2, <3>5, <4>1, <4>2 DEF x
    <3>6. CASE s = "A"
      <4>1. ~(b >= 16) /\ x = b
        BY <1>1, <1>2, <3>3, <3>4, <3>6 DEF x
      <4>2. BdAddr(d, n, b) = <<"A", "BD", b * 48>>
        BY <2>0, <3>1, <4>1, SharedAddrs
      <4> QED BY <1>1, <3>2, <3>6, <4>1, <4>2 DEF x
    <3> QED BY <3>5, <3>6
  <2> QED BY <2>1, <2>2, <2>3, <2>4
<1> QED BY <1>4, <1>6, <1>7, <1>8, <1>9

\* A write to a descriptor is one to a register of a pool
LEMMA BdReached ==
    ASSUME on \in Platforms, NEW d \in Dirs, NEW n \in Nat, NEW b \in Nat, BdOK(d, n, b)
    PROVE  \E h \in HwChannels : \E x \in HwPool(h) : HwBd(h, x) = BdAddr(d, n, b)
<1>1. ASSUME NEW e \in Dirs, NEW m \in Nat, PushOK(e, m, b), BdAddr(e, m, b) = BdAddr(d, n, b)
      PROVE  \E h \in HwChannels : \E x \in HwPool(h) : HwBd(h, x) = BdAddr(d, n, b)
  <2>1. HwHas(<<e, m, b>>)
    BY <1>1, PushExact
  <2>2. HwOf(<<e, m>>) \in HwChannels /\ HwNumber(<<e, m, b>>) \in HwPool(HwOf(<<e, m>>))
    BY <2>1 DEF HwHas
  <2>3. HwBd(HwOf(<<e, m>>), HwNumber(<<e, m, b>>)) = BdAddr(d, n, b)
    BY <1>1, BdFetched
  <2> QED BY <2>2, <2>3
<1>2. CASE PvtPool(d)
  <2>1. BdChValidity(d, b, n)
    BY <1>2, Tables, BdCounts DEF Small, MlMem, Aie4Tile, Aie4Mem, Aie4Shim, BdChValidity,
       ShimTileCheckBdChValidity, PvtPool
  <2>2. PushOK(d, n, b)
    BY <1>2, <2>1 DEF PushOK, BdOK
  <2> QED BY <1>1, <2>2
<1>3. CASE ~PvtPool(d)
  <2>1. S2MM \in Dirs /\ S2MM # TRACE /\ S2MM # CTRL
    BY Directions DEF S2MM, CTRL, TRACE
  <2>2. Small \/ MlMem \/ Aie4Tile \/ Aie4Shim
    BY <1>3, Tables, BdCounts
  <2>3. ~PvtPool(S2MM)
    BY <2>1, <2>2, BdCounts
  <2>4. b < NumBdsGeneric(S2MM)
    BY <1>3, <2>3 DEF BdOK, NumBdsGeneric
  <2>5. \A m \in Nat : BdAddr(S2MM, m, b) = BdAddr(d, n, b)
    BY <1>3, <2>1, <2>3, SharedAddrs
  <2>6. HwCount(S2MM) \in 1..6
        /\ MaxNumChannels(S2MM) = IF Both(S2MM) THEN 2 * HwCount(S2MM) ELSE HwCount(S2MM)
    BY <2>1, Counts
  <2>7. \A m \in Nat : m < MaxNumChannels(S2MM) => ValidChannel(S2MM, m)
    BY <2>1, <2>6 DEF ValidChannel
  <2>8. \E m \in Nat : m < MaxNumChannels(S2MM) /\ BdChValidity(S2MM, b, m)
    <3>1. CASE Small \/ Aie4Tile
      <4>1. BdChValidity(S2MM, b, 0)
        BY <3>1 DEF Small, Aie4Tile, BdChValidity
      <4> QED BY <2>6, <4>1
    <3>2. CASE MlMem
      <4>1. MaxNumChannels(S2MM) = 6
        BY <3>2 DEF MlMem, MaxNumChannels
      <4>2. b < 24 => BdChValidity(S2MM, b, 0)
        BY <3>2 DEF MlMem, BdChValidity, MemTileCheckBdChValidity
      <4>3. ~(b < 24) => BdChValidity(S2MM, b, 1)
        BY <3>2 DEF MlMem, BdChValidity, MemTileCheckBdChValidity
      <4> QED BY <4>1, <4>2, <4>3
    <3>3. CASE Aie4Shim
      <4>1. NumBdsGeneric(S2MM) = IF a = "single" THEN 32 ELSE 16
        BY <2>1, <3>3, BdCounts
      <4>2. HalfChannels(S2MM) = 1 /\ HwCount(S2MM) = 1
        BY <3>3 DEF Aie4Shim, HwCount, HalfChannels, S2MM, MM2S, CTRL, TRACE
      <4>3. b < 16 => BdChValidity(S2MM, b, 0)
        BY <3>3, <4>2 DEF Aie4Shim, BdChValidity, ShimTileCheckBdChValidity
      <4>4. b \in 16..31 => BdChValidity(S2MM, b, 1)
        BY <3>3, <4>2 DEF Aie4Shim, BdChValidity, ShimTileCheckBdChValidity
      <4>5. a = "single" => Both(S2MM)
        BY <2>1, <3>3 DEF Aie4Shim, Both, Single
      <4> QED BY <2>4, <2>6, <4>1, <4>2, <4>3, <4>4, <4>5
    <3> QED BY <2>2, <3>1, <3>2, <3>3
  <2>9. PICK m \in Nat : m < MaxNumChannels(S2MM) /\ BdChValidity(S2MM, b, m)
    BY <2>8
  <2>10. PushOK(S2MM, m, b)
    BY <2>4, <2>7, <2>9 DEF PushOK
  <2> QED BY <1>1, <2>1, <2>5, <2>10
<1> QED BY <1>2, <1>3

\* the control channels' pools, on a shim tile of AIE4
LEMMA CtrlPool ==
    ASSUME on \in Platforms, Aie4Shim, NEW d \in Dirs, d = CTRL, NEW n \in Nat, NEW b \in Nat,
           BdOK(d, n, b)
    PROVE  \E s \in {"A", "B"}, p \in Nat :
             /\ BdAddr(d, n, b) = <<s, "CTRLBD", (p * 8 + b) * 48>> /\ b < 8
             /\ s = "B" => n = p + 1
             /\ s = "A" => n = p
<1>1. ValidChannel(d, n) /\ b < 8
  BY BdCounts DEF BdOK
<1>2. PICK s \in {"A", "B"}, p \in Nat :
        /\ HwOf(<<d, n>>) = <<s, d, p>> /\ p < HwCount(d) /\ <<s, p>> = Half(n, HwCount(d))
        /\ s = "B" => Both(d) /\ n = p + HwCount(d)
        /\ s = "A" => n = p
  BY <1>1, ChannelHalf
<1>3. BdAddr(d, n, b) = <<s, "CTRLBD", (p * 8 + b) * 48>>
  BY <1>2, PvtAddrs
<1>4. HwCount(d) = 1
  BY DEF Aie4Shim, HwCount, HalfChannels, S2MM, MM2S, CTRL, TRACE
<1> QED BY <1>1, <1>2, <1>3, <1>4

\* and the trace channels'
LEMMA TracePool ==
    ASSUME on \in Platforms, Aie4Shim, NEW d \in Dirs, d = TRACE, NEW n \in Nat, NEW b \in Nat,
           BdOK(d, n, b)
    PROVE  BdAddr(d, n, b) = <<"A", "TRACEBD", (n * 4 + b) * 48>> /\ b < 4
<1>1. ValidChannel(d, n) /\ b < 4
  BY BdCounts DEF BdOK
<1>2. PICK s \in {"A", "B"}, p \in Nat :
        /\ HwOf(<<d, n>>) = <<s, d, p>> /\ p < HwCount(d) /\ <<s, p>> = Half(n, HwCount(d))
        /\ s = "B" => Both(d) /\ n = p + HwCount(d)
        /\ s = "A" => n = p
  BY <1>1, ChannelHalf
<1>3. BdAddr(d, n, b) = <<"A", "TRACEBD", (n * 4 + b) * 48>>
  BY <1>2, PvtAddrs
<1> QED BY <1>1, <1>3

\* the block of each
LEMMA BdBlock ==
    ASSUME on \in Platforms, Aie4Shim, NEW d \in Dirs, NEW n \in Nat, NEW b \in Nat,
           BdOK(d, n, b)
    PROVE  /\ d \in {S2MM, MM2S} => BdAddr(d, n, b)[2] = "BD"
           /\ d = CTRL => BdAddr(d, n, b)[2] = "CTRLBD"
           /\ d = TRACE => BdAddr(d, n, b)[2] = "TRACEBD"
<1>1. CASE d = CTRL
  BY <1>1, CtrlPool DEF S2MM, MM2S, CTRL, TRACE
<1>2. CASE d = TRACE
  BY <1>2, TracePool DEF S2MM, MM2S, CTRL, TRACE
<1>3. CASE d \in {S2MM, MM2S}
  <2>1. ~PvtPool(d)
    BY <1>3, BdCounts
  <2>2. BdAddr(d, n, b)[2] = "BD"
    BY <2>1, SharedAddrs
  <2> QED BY <1>3, <2>2 DEF S2MM, MM2S, CTRL, TRACE
<1> QED BY <1>1, <1>2, <1>3

\* Calls reach one register only for what is one descriptor
LEMMA BdApart ==
    ASSUME on \in Platforms, NEW d \in Dirs, NEW n \in Nat, NEW b \in Nat, BdOK(d, n, b),
           NEW e \in Dirs, NEW m \in Nat, NEW c \in Nat, BdOK(e, m, c),
           BdAddr(d, n, b) = BdAddr(e, m, c)
    PROVE  /\ b = c
           /\ <<d, n>> = <<e, m>> \/ ~(PvtPool(d) \/ PvtPool(e))
<1>1. Small \/ MlMem \/ Aie4Tile \/ Aie4Mem \/ Aie4Shim
  BY Tables
<1>2. b < NumBdsGeneric(d) /\ c < NumBdsGeneric(e)
  BY DEF BdOK
<1>3. CASE ~PvtPool(d) /\ ~PvtPool(e)
  <2> DEFINE P == Aie4Shim /\ b >= 16
             Q == Aie4Shim /\ c >= 16
  <2>1. BdAddr(d, n, b) = IF P THEN <<"B", "BD", (b - 16) * M.IdxOffset>>
                          ELSE <<"A", "BD", b * M.IdxOffset>>
    BY <1>3, SharedAddrs
  <2>2. BdAddr(e, m, c) = IF Q THEN <<"B", "BD", (c - 16) * M.IdxOffset>>
                          ELSE <<"A", "BD", c * M.IdxOffset>>
    BY <1>3, SharedAddrs
  <2>3. M.IdxOffset \in {20, 32, 48}
    BY <1>1 DEF Small, MlMem, Aie4Tile, Aie4Mem, Aie4Shim
  <2> HIDE DEF P, Q
  <2>4. CASE P /\ Q
    <3>1. <<"B", "BD", (b - 16) * M.IdxOffset>> = <<"B", "BD", (c - 16) * M.IdxOffset>>
      BY <2>1, <2>2, <2>4
    <3>2. (b - 16) * M.IdxOffset = (c - 16) * M.IdxOffset
      BY <3>1
    <3> QED BY <1>3, <2>3, <3>2
  <2>5. CASE P /\ ~Q
    <3>1. BdAddr(d, n, b)[1] = "B"
      BY <2>1, <2>5
    <3>2. BdAddr(e, m, c)[1] = "A"
      BY <2>2, <2>5
    <3> QED BY <3>1, <3>2
  <2>6. CASE ~P /\ Q
    <3>1. BdAddr(d, n, b)[1] = "A"
      BY <2>1, <2>6
    <3>2. BdAddr(e, m, c)[1] = "B"
      BY <2>2, <2>6
    <3> QED BY <3>1, <3>2
  <2>7. CASE ~P /\ ~Q
    <3>1. <<"A", "BD", b * M.IdxOffset>> = <<"A", "BD", c * M.IdxOffset>>
      BY <2>1, <2>2, <2>7
    <3>2. b * M.IdxOffset = c * M.IdxOffset
      BY <3>1
    <3> QED BY <1>3, <2>3, <3>2
  <2> QED BY <2>4, <2>5, <2>6, <2>7
<1>4. CASE PvtPool(d) \/ PvtPool(e)
  <2>1. Aie4Mem \/ Aie4Shim
    BY <1>1, <1>4, BdCounts
  <2>2. CASE Aie4Mem
    <3>1. PvtPool(d) /\ PvtPool(e) /\ b < 16 /\ c < 16
      BY <1>2, <2>2, BdCounts
    <3>2. ValidChannel(d, n) /\ ValidChannel(e, m)
      BY <3>1 DEF BdOK
    <3>3. PICK s \in {"A", "B"}, p \in Nat :
            /\ HwOf(<<d, n>>) = <<s, d, p>> /\ p < HwCount(d) /\ <<s, p>> = Half(n, HwCount(d))
            /\ s = "B" => Both(d) /\ n = p + HwCount(d)
            /\ s = "A" => n = p
      BY <3>2, ChannelHalf
    <3>4. PICK t \in {"A", "B"}, q \in Nat :
            /\ HwOf(<<e, m>>) = <<t, e, q>> /\ q < HwCount(e) /\ <<t, q>> = Half(m, HwCount(e))
            /\ t = "B" => Both(e) /\ m = q + HwCount(e)
            /\ t = "A" => m = q
      BY <3>2, ChannelHalf
    <3>5. BdAddr(d, n, b) = <<s, "BD", ((d * 4 + p) * 16 + b) * 48>>
      BY <2>2, <3>3, PvtAddrs
    <3>6. BdAddr(e, m, c) = <<t, "BD", ((e * 4 + q) * 16 + c) * 48>>
      BY <2>2, <3>4, PvtAddrs
    <3>0. <<s, "BD", ((d * 4 + p) * 16 + b) * 48>> = <<t, "BD", ((e * 4 + q) * 16 + c) * 48>>
      BY <3>5, <3>6
    <3>7. s = t /\ ((d * 4 + p) * 16 + b) * 48 = ((e * 4 + q) * 16 + c) * 48
      BY <3>0
    <3>8. d \in {0, 1} /\ e \in {0, 1}
      BY <2>2, Directions DEF Aie4Mem, Aie4Shim, S2MM, MM2S
    <3>9. HwCount(S2MM) = 4 /\ HwCount(MM2S) = 5
      BY <2>2 DEF Aie4Mem, HwCount, HalfChannels, S2MM, MM2S, CTRL, TRACE
    <3>10. b = c /\ d * 4 + p = e * 4 + q
      BY <3>1, <3>7, <3>8
    <3>11. d = e /\ p = q
      BY <3>3, <3>4, <3>8, <3>9, <3>10 DEF S2MM, MM2S
    <3>12. n = m
      BY <3>3, <3>4, <3>7, <3>11
    <3> QED BY <3>10, <3>11, <3>12
  <2>3. CASE Aie4Shim
    <3>1. /\ d \in {S2MM, MM2S} \/ d = CTRL \/ d = TRACE
          /\ e \in {S2MM, MM2S} \/ e = CTRL \/ e = TRACE
      BY Directions DEF S2MM, MM2S, CTRL, TRACE
    <3>5. /\ d \in {S2MM, MM2S} => BdAddr(d, n, b)[2] = "BD"
          /\ d = CTRL => BdAddr(d, n, b)[2] = "CTRLBD"
          /\ d = TRACE => BdAddr(d, n, b)[2] = "TRACEBD"
      BY <2>3, BdBlock
    <3>6. /\ e \in {S2MM, MM2S} => BdAddr(d, n, b)[2] = "BD"
          /\ e = CTRL => BdAddr(d, n, b)[2] = "CTRLBD"
          /\ e = TRACE => BdAddr(d, n, b)[2] = "TRACEBD"
      BY <2>3, BdBlock
    <3>11. ~(d \in {S2MM, MM2S} /\ e \in {S2MM, MM2S})
      BY <1>4, <2>3, BdCounts
    <3>12. (d = CTRL /\ e = CTRL) \/ (d = TRACE /\ e = TRACE)
      BY <3>1, <3>5, <3>6, <3>11
    <3>13. CASE d = CTRL /\ e = CTRL
      <4>1. PICK s \in {"A", "B"}, p \in Nat :
              /\ BdAddr(d, n, b) = <<s, "CTRLBD", (p * 8 + b) * 48>> /\ b < 8
              /\ s = "B" => n = p + 1
              /\ s = "A" => n = p
        BY <2>3, <3>13, CtrlPool
      <4>2. PICK t \in {"A", "B"}, q \in Nat :
              /\ BdAddr(e, m, c) = <<t, "CTRLBD", (q * 8 + c) * 48>> /\ c < 8
              /\ t = "B" => m = q + 1
              /\ t = "A" => m = q
        BY <2>3, <3>13, CtrlPool
      <4>3. <<s, "CTRLBD", (p * 8 + b) * 48>> = <<t, "CTRLBD", (q * 8 + c) * 48>>
        BY <4>1, <4>2
      <4>4. s = t /\ (p * 8 + b) * 48 = (q * 8 + c) * 48
        BY <4>3
      <4>5. p = q /\ b = c
        BY <4>1, <4>2, <4>4
      <4>6. n = m
        BY <4>1, <4>2, <4>4, <4>5
      <4> QED BY <3>13, <4>5, <4>6
    <3>14. CASE d = TRACE /\ e = TRACE
      <4>1. BdAddr(d, n, b) = <<"A", "TRACEBD", (n * 4 + b) * 48>> /\ b < 4
        BY <2>3, <3>14, TracePool
      <4>2. BdAddr(e, m, c) = <<"A", "TRACEBD", (m * 4 + c) * 48>> /\ c < 4
        BY <2>3, <3>14, TracePool
      <4>3. <<"A", "TRACEBD", (n * 4 + b) * 48>> = <<"A", "TRACEBD", (m * 4 + c) * 48>>
        BY <4>1, <4>2
      <4>4. (n * 4 + b) * 48 = (m * 4 + c) * 48
        BY <4>3
      <4>5. n = m /\ b = c
        BY <4>1, <4>2, <4>4
      <4> QED BY <3>14, <4>5
    <3> QED BY <3>12, <3>13, <3>14
  <2> QED BY <2>1, <2>2, <2>3
<1> QED BY <1>3, <1>4

-----------------------------------------------------------------------------
(* The inductive invariant.                                                *)

Contents == [len : Nat, adr : Nat]
Entries  == [bd : Int, rep : Int]
Runs     == [state : {"idle", "running"} \cup Stalls, found : Contents, meant : Contents]
TaskSet  == [job : Job \cup {0}, rep : Int]

Valid(c) == ValidChannel(c[1], c[2])

StaticInv == on \in Platforms /\ jobs \in [Job -> Dirs \X Nat \X Nat]

TypesOf(b, q, r, s, st, w) ==
  /\ \A x \in DOMAIN b : b[x] \in Contents
  /\ q \in [HwChannels -> Seq(Entries)]
  /\ r \in [HwChannels -> Runs]
  /\ s \in [Chans -> Seq(TaskSet)]
  /\ DOMAIN st = Chans
  /\ w \in [Job -> Contents]

\* a descriptor register holds what the program last gave to its descriptor
BdsOf(b, w) ==
  \A i \in Job : w[i] # NoBd =>
    /\ BdOK(D(i), Ch(i), B(i))
    /\ BdAddr(D(i), Ch(i), B(i)) \in DOMAIN b
    /\ b[BdAddr(D(i), Ch(i), B(i))] = w[i]

\* an entry of a task queue is the task the program pushed
Match(e, t) == e.rep = t.rep /\ e.bd = IF t.job = 0 THEN 0 ELSE HwNumber(jobs[t.job])

\* a task of a channel is of a written descriptor that the channel has
TaskOK(c, t, w) ==
  t.job # 0 => Chan(t.job) = c /\ PushOK(D(t.job), Ch(t.job), B(t.job)) /\ w[t.job] # NoBd

Running(r, h) == IF r[h].state = "idle" THEN 0 ELSE 1

ChannelTasks(c, q, r, s, w) ==
  LET h == HwOf(c) IN
  /\ Len(q[h]) <= HwQueueMax
  /\ Len(s[c]) = Len(q[h]) + Running(r, h)
  /\ \A n \in 1..Len(q[h]) : Match(q[h][n], s[c][n + Running(r, h)])
  /\ \A n \in 1..Len(s[c]) : TaskOK(c, s[c][n], w)

TasksOf(q, r, s, w) ==
  \A c \in Chans : IF Valid(c) THEN ChannelTasks(c, q, r, s, w) ELSE s[c] = <<>>

CtlAt(cr, x) == IF x \in DOMAIN cr THEN cr[x] ELSE NoCtl
CtlsOf(cr, st) == \A c \in Chans : Valid(c) => CtlAt(cr, HwCtrl(HwOf(c))) = st[c]

RoomOf(rm, q) == \A c \in rm : c \in Chans /\ Valid(c) /\ Len(q[HwOf(c)]) < HwQueueMax

PollOf(p) ==
  \/ p = NoPoll
  \/ /\ p.on \in {"WaitForDone", "WaitForBdTaskQueue"} /\ p.job \in Job
     /\ ValidChannel(D(p.job), Ch(p.job))

FetchOf(r) == \A h \in HwChannels : r[h].meant # NoBd => r[h].found = r[h].meant

AnswerOf(dn, s) ==
  /\ dn.val = dn.truth
  /\ dn.on = "WaitForDone" /\ dn.rc = "OK" => s[Chan(dn.job)] = <<>>

InvOf(b, cr, q, r, sy, w, s, st, rm, p, dn) ==
  /\ TypesOf(b, q, r, s, st, w)
  /\ BdsOf(b, w)
  /\ ~sy
  /\ TasksOf(q, r, s, w)
  /\ CtlsOf(cr, st)
  /\ RoomOf(rm, q)
  /\ PollOf(p)
  /\ FetchOf(r)
  /\ AnswerOf(dn, s)

IInv == StaticInv /\ InvOf(bds, ctl, queue, run, stray, written, sent, set, room, poll, done)

\* the same of the variables' next values, over one device and program
IInvNext == InvOf(bds', ctl', queue', run', stray', written', sent', set', room', poll', done')

\* What is said of a device and a program stays said of them
LEMMA Unmoved ==
    ASSUME on' = on, jobs' = jobs
    PROVE  /\ HwChannels' = HwChannels /\ Dirs' = Dirs /\ Chans' = Chans
           /\ HwQueueMax' = HwQueueMax
           /\ \A d, n : ValidChannel(d, n)' <=> ValidChannel(d, n)
           /\ \A c : HwOf(c)' = HwOf(c)
           /\ \A h : HwCtrl(h)' = HwCtrl(h)
           /\ \A j : HwNumber(j)' = HwNumber(j)
           /\ \A d, n, b : BdAddr(d, n, b)' = BdAddr(d, n, b)
           /\ \A d, n, b : BdOK(d, n, b)' <=> BdOK(d, n, b)
           /\ \A d, n, b : PushOK(d, n, b)' <=> PushOK(d, n, b)
           /\ \A i : D(i)' = D(i) /\ Ch(i)' = Ch(i) /\ B(i)' = B(i) /\ Chan(i)' = Chan(i)
<1>1. k' = k /\ a' = a /\ M' = M /\ (Single' <=> Single) /\ Dirs' = Dirs
  BY DEF k, a, M, Single, Dirs
<1>2. /\ \A d : PvtPool(d)' <=> PvtPool(d)
      /\ \A d : HalfChannels(d)' = HalfChannels(d)
      /\ \A d : MaxNumChannels(d)' = MaxNumChannels(d)
      /\ \A d : HwCount(d)' = HwCount(d)
      /\ \A d : NumBdsGeneric(d)' = NumBdsGeneric(d)
  BY <1>1 DEF PvtPool, HalfChannels, MaxNumChannels, HwCount, NumBdsGeneric, SharedMaxNumBds, PrivateMaxNumBds
<1>3. /\ \A d, n : ValidChannel(d, n)' <=> ValidChannel(d, n)
      /\ \A d, b, n : BdChValidity(d, b, n)' <=> BdChValidity(d, b, n)
  BY <1>1, <1>2 DEF ValidChannel, BdChValidity, ShimTileCheckBdChValidity, MemTileCheckBdChValidity
<1>4. HwChannels' = HwChannels /\ HwQueueMax' = HwQueueMax /\ \A c : HwOf(c)' = HwOf(c)
  BY <1>1, <1>2 DEF HwChannels, HwQueueMax, HwOf
<1>5. /\ \A h : HwCtrl(h)' = HwCtrl(h)
      /\ \A j : HwNumber(j)' = HwNumber(j)
  BY <1>1, <1>4 DEF HwCtrl, HwCtrlBlock, HwNumber
<1>6. \A d, n, b : BdAddr(d, n, b)' = BdAddr(d, n, b)
  BY <1>1, <1>2 DEF BdAddr, MemTileBdBaseAddr, ShimPvtBdAddr, ShimBdAddr, TileBdAddr
<1>7. /\ \A d, n, b : BdOK(d, n, b)' <=> BdOK(d, n, b)
      /\ \A d, n, b : PushOK(d, n, b)' <=> PushOK(d, n, b)
  BY <1>2, <1>3 DEF BdOK, PushOK
<1>8. \A i : D(i)' = D(i) /\ Ch(i)' = Ch(i) /\ B(i)' = B(i) /\ Chan(i)' = Chan(i)
  BY DEF D, Ch, B, Chan
<1>9. Chans' = Chans
  BY <1>8 DEF Chans
<1> QED BY <1>1, <1>3, <1>4, <1>5, <1>6, <1>7, <1>8, <1>9

LEMMA InvNext ==
    ASSUME IInv, on' = on, jobs' = jobs, IInvNext
    PROVE  IInv'
<1> USE Unmoved
<1>1. StaticInv'
  BY DEF IInv, StaticInv
<1>2. TypesOf(bds, queue, run, sent, set, written)'
  BY DEF IInvNext, InvOf, TypesOf
<1>3. BdsOf(bds, written)'
  BY DEF IInvNext, InvOf, BdsOf
<1>4. TasksOf(queue, run, sent, written)'
  <2>1. TasksOf(queue', run', sent', written')
    BY DEF IInvNext, InvOf
  <2>2. ASSUME NEW e, NEW t
        PROVE  Match(e, t)' <=> Match(e, t)
    BY DEF Match
  <2>3. ASSUME NEW c, NEW t
        PROVE  TaskOK(c, t, written)' <=> TaskOK(c, t, written')
    BY DEF TaskOK
  <2>4. ASSUME NEW c
        PROVE  /\ Valid(c)' <=> Valid(c)
               /\ ChannelTasks(c, queue, run, sent, written)'
                    <=> ChannelTasks(c, queue', run', sent', written')
    <3>1. Valid(c)' <=> Valid(c)
      BY DEF Valid
    <3>2. ASSUME NEW h PROVE Running(run, h)' = Running(run', h)
      BY DEF Running
    <3> QED BY <2>2, <2>3, <3>1, <3>2 DEF ChannelTasks
  <2> QED BY <2>1, <2>4 DEF TasksOf
<1>5. CtlsOf(ctl, set)'
  BY DEF IInvNext, InvOf, CtlsOf, CtlAt, Valid
<1>6. RoomOf(room, queue)'
  BY DEF IInvNext, InvOf, RoomOf, Valid
<1>7. PollOf(poll)'
  BY DEF IInvNext, InvOf, PollOf
<1>8. FetchOf(run)'
  BY DEF IInvNext, InvOf, FetchOf
<1>9. AnswerOf(done, sent)'
  BY DEF IInvNext, InvOf, AnswerOf
<1> QED BY <1>1, <1>2, <1>3, <1>4, <1>5, <1>6, <1>7, <1>8, <1>9 DEF IInv, InvOf, IInvNext

-----------------------------------------------------------------------------
(* The program's jobs and channels.                                        *)

LEMMA JobParts ==
    ASSUME StaticInv, NEW i \in Job
    PROVE  /\ D(i) \in Dirs /\ Ch(i) \in Nat /\ B(i) \in Nat /\ jobs[i] = <<D(i), Ch(i), B(i)>>
           /\ Chan(i) \in Chans /\ (Valid(Chan(i)) <=> ValidChannel(D(i), Ch(i)))
<1>1. jobs[i] \in Dirs \X Nat \X Nat
  BY DEF StaticInv
<1>2. Chan(i)[1] = D(i) /\ Chan(i)[2] = Ch(i)
  BY DEF Chan
<1> QED BY <1>1, <1>2 DEF D, Ch, B, Chans, Valid

LEMMA ChanParts ==
    ASSUME StaticInv, NEW c \in Chans
    PROVE  c = <<c[1], c[2]>> /\ c[1] \in Dirs /\ c[2] \in Nat
<1>1. PICK i \in Job : c = Chan(i)
  BY DEF Chans
<1> QED BY <1>1, JobParts DEF Chan

\* A valid channel is one of the hardware's, and of its own
LEMMA Own ==
    ASSUME StaticInv, NEW c \in Chans, Valid(c)
    PROVE  /\ HwOf(c) \in HwChannels
           /\ \A e \in Chans : Valid(e) /\ HwOf(e) = HwOf(c) => e = c
           /\ ChannelCtrlAddr(c[1], c[2]) = HwCtrl(HwOf(c))
           /\ StartQueueAddr(c[1], c[2]) = HwQueue(HwOf(c))
           /\ ChannelStatusAddr(c[1], c[2]) = HwStatus(HwOf(c))
           /\ IsAie(k) => HwOf(c)[3] = c[2]
<1>0. on \in Platforms
  BY DEF StaticInv
<1>1. c = <<c[1], c[2]>> /\ c[1] \in Dirs /\ c[2] \in Nat /\ ValidChannel(c[1], c[2])
  BY ChanParts DEF Valid
<1>2. HwOf(c) \in HwChannels
  BY <1>0, <1>1, ChannelExists
<1>3. ASSUME NEW e \in Chans, Valid(e), HwOf(e) = HwOf(c)
      PROVE  e = c
  <2>1. e = <<e[1], e[2]>> /\ e[1] \in Dirs /\ e[2] \in Nat /\ ValidChannel(e[1], e[2])
    BY <1>3, ChanParts DEF Valid
  <2>2. HwOf(<<e[1], e[2]>>) = HwOf(<<c[1], c[2]>>)
    BY <1>1, <1>3, <2>1
  <2>3. e[1] = c[1] /\ e[2] = c[2]
    BY <1>0, <1>1, <2>1, <2>2, OneChannel
  <2> QED BY <1>1, <2>1, <2>3
<1>4. HwOf(<<c[1], c[2]>>) = HwOf(c)
  BY <1>1
<1>5. ChannelCtrlAddr(c[1], c[2]) = HwCtrl(HwOf(c))
  BY <1>0, <1>1, <1>4, CtrlReached
<1>6. StartQueueAddr(c[1], c[2]) = HwQueue(HwOf(c))
  BY <1>0, <1>1, <1>4, QueueReached
<1>7. ChannelStatusAddr(c[1], c[2]) = HwStatus(HwOf(c)) /\ (IsAie(k) => HwOf(c)[3] = c[2])
  BY <1>0, <1>1, <1>4, StatusReached
<1> QED BY <1>2, <1>3, <1>5, <1>6, <1>7

LEMMA Refusals ==
    ASSUME StaticInv, NEW i \in Job
    PROVE  /\ BdRefusal(i) = "OK" <=> BdOK(D(i), Ch(i), B(i))
           /\ PushRefusal(i) = "OK" <=> PushOK(D(i), Ch(i), B(i))
           /\ ChannelRefusal(i) = "OK" <=> Valid(Chan(i))
<1>1. B(i) \in Nat /\ NumBdsGeneric(D(i)) \in Nat
  <2>1. D(i) \in Dirs /\ B(i) \in Nat
    BY JobParts
  <2>2. D(i) \in {S2MM, MM2S} \/ (Aie4Shim /\ (D(i) = CTRL \/ D(i) = TRACE))
    <3>1. CASE Aie4Shim
      <4>1. D(i) \in 0..3
        BY <2>1, Directions DEF StaticInv
      <4> QED BY <3>1, <4>1 DEF S2MM, MM2S, CTRL, TRACE
    <3>2. CASE ~Aie4Shim
      BY <2>1, <3>2, Directions DEF StaticInv
    <3> QED BY <3>1, <3>2
  <2> QED BY <2>1, <2>2, Tables, BdCounts DEF StaticInv
<1>2. BdRefusal(i) = "OK" <=> BdOK(D(i), Ch(i), B(i))
  BY <1>1 DEF BdRefusal, BdOK
<1>3. PushRefusal(i) = "OK" <=> PushOK(D(i), Ch(i), B(i))
  BY <1>1 DEF PushRefusal, PushOK
<1>4. ChannelRefusal(i) = "OK" <=> Valid(Chan(i))
  BY JobParts DEF ChannelRefusal
<1> QED BY <1>2, <1>3, <1>4

\* A call is refused exactly when the hardware has no such channel, or the
\* channel no such descriptor
LEMMA RefusesRight ==
    ASSUME StaticInv, DOMAIN queue = HwChannels
    PROVE  RefusesExactlyTheRest
<1>1. SUFFICES ASSUME NEW i \in Job
               PROVE  /\ ValidChannel(D(i), Ch(i)) <=> HwOf(Chan(i)) \in Hw
                      /\ PushRefusal(i) = "OK" <=> HwHas(jobs[i])
  BY DEF RefusesExactlyTheRest
<1>2. on \in Platforms /\ D(i) \in Dirs /\ Ch(i) \in Nat /\ B(i) \in Nat
      /\ jobs[i] = <<D(i), Ch(i), B(i)>>
  BY JobParts DEF StaticInv
<1>3. ValidChannel(D(i), Ch(i)) <=> HwOf(Chan(i)) \in Hw
  BY <1>2, ChannelExists DEF Chan, Hw
<1>4. PushOK(D(i), Ch(i), B(i)) <=> HwHas(<<D(i), Ch(i), B(i)>>)
  BY <1>2, PushExact
<1> QED BY <1>2, <1>3, <1>4, Refusals

\* The number a push gives is the descriptor's, in the channel's half
LEMMA PushedNumber ==
    ASSUME StaticInv, NEW i \in Job, PushOK(D(i), Ch(i), B(i))
    PROVE  StartBd(i) = HwNumber(jobs[i]) /\ StartBd(i) \in Int
<1>1. on \in Platforms /\ D(i) \in Dirs /\ Ch(i) \in Nat /\ B(i) \in Nat
      /\ jobs[i] = <<D(i), Ch(i), B(i)>>
  BY JobParts DEF StaticInv
<1> DEFINE d == D(i)
           n == Ch(i)
           b == B(i)
<1>2. ValidChannel(d, n) /\ BdChValidity(d, b, n)
  BY DEF PushOK
<1>3. PICK s \in {"A", "B"}, m \in Nat :
        /\ HwOf(<<d, n>>) = <<s, d, m>> /\ m < HwCount(d) /\ <<s, m>> = Half(n, HwCount(d))
        /\ s = "B" => Both(d) /\ n = m + HwCount(d)
        /\ s = "A" => n = m
  BY <1>1, <1>2, ChannelHalf
<1>4. HwNumber(<<d, n, b>>) =
        IF s = "B" /\ k[2] = "SHIM" /\ d \in {S2MM, MM2S} THEN b - 16 ELSE b
  BY <1>3, HwNumberIs
<1>5. M.NumBds \in Int
  BY <1>1, Tables DEF Small, MlMem, Aie4Tile, Aie4Mem, Aie4Shim
<1>6. CASE Single /\ k[2] = "SHIM" /\ d \in {S2MM, MM2S}
  <2>1. Aie4Shim
    BY <1>1, <1>6, Tables DEF Single, Small, MlMem, Aie4Tile, Aie4Mem
  <2>2. HalfChannels(d) = HwCount(d) /\ HwCount(d) \in Nat /\ M.NumBds = 16
    BY <1>1, <2>1, Counts DEF Aie4Shim, HwCount
  <2>3. (b < 16 /\ n < HwCount(d)) \/ (b \in 16..31 /\ n >= HwCount(d))
    BY <1>2, <1>6, <2>1, <2>2 DEF Aie4Shim, BdChValidity, ShimTileCheckBdChValidity, S2MM, MM2S, CTRL, TRACE
  <2>4. s = "B" <=> b >= 16
    BY <1>1, <1>3, <2>2, <2>3
  <2>5. StartBd(i) = IF b >= 16 THEN b - 16 ELSE b
    BY <1>6, <2>2 DEF StartBd
  <2> HIDE DEF d, n, b
  <2> QED BY <1>1, <1>4, <1>6, <2>4, <2>5 DEF d, n, b
<1>7. CASE ~(Single /\ k[2] = "SHIM" /\ d \in {S2MM, MM2S})
  <2>1. StartBd(i) = b
    BY <1>7 DEF StartBd
  <2>2. ~(s = "B" /\ k[2] = "SHIM" /\ d \in {S2MM, MM2S})
    BY <1>3, <1>7 DEF Both
  <2>3. HwNumber(<<d, n, b>>) = b
    BY <1>4, <2>2
  <2> QED BY <1>1, <2>1, <2>3
<1> QED BY <1>6, <1>7

-----------------------------------------------------------------------------
(* The calls on a descriptor.                                              *)

Still == UNCHANGED <<on, jobs, bds, ctl, queue, run, stray, written, sent, set, room, poll>>

LEMMA StillKeeps ==
    ASSUME IInv, Still, AnswerOf(done', sent)
    PROVE  IInvNext /\ on' = on /\ jobs' = jobs
BY DEF IInv, InvOf, IInvNext, Still

LEMMA NoAnswerRight ==
    ASSUME NEW s
    PROVE  AnswerOf(NoAnswer, s)
BY DEF AnswerOf, NoAnswer, NONE

LEMMA RefuseKeeps ==
    ASSUME IInv, NEW rc, Refuse(rc)
    PROVE  IInvNext /\ on' = on /\ jobs' = jobs
BY StillKeeps, NoAnswerRight DEF Refuse, Still

\* One descriptor: one register, that no other descriptor has
LEMMA OneRegister ==
    ASSUME StaticInv, NEW i \in Job, NEW j \in Job, BdOK(D(i), Ch(i), B(i))
    PROVE  /\ SameBd(i, j) => /\ BdOK(D(j), Ch(j), B(j))
                              /\ BdAddr(D(j), Ch(j), B(j)) = BdAddr(D(i), Ch(i), B(i))
           /\ BdOK(D(j), Ch(j), B(j)) /\ BdAddr(D(j), Ch(j), B(j)) = BdAddr(D(i), Ch(i), B(i))
                => SameBd(i, j)
<1>1. /\ on \in Platforms /\ D(i) \in Dirs /\ Ch(i) \in Nat /\ B(i) \in Nat
      /\ D(j) \in Dirs /\ Ch(j) \in Nat /\ B(j) \in Nat
  BY JobParts DEF StaticInv
<1>2. ASSUME SameBd(i, j)
      PROVE  /\ BdOK(D(j), Ch(j), B(j))
             /\ BdAddr(D(j), Ch(j), B(j)) = BdAddr(D(i), Ch(i), B(i))
  <2>1. CASE Chan(i) = Chan(j)
    <3>1. D(i) = D(j) /\ Ch(i) = Ch(j) /\ B(i) = B(j)
      BY <1>2, <2>1 DEF SameBd, Chan
    <3> QED BY <3>1
  <2>2. CASE Chan(i) # Chan(j)
    <3>1. B(i) = B(j) /\ ~PvtPool(D(i)) /\ ~PvtPool(D(j))
      BY <1>2, <2>2 DEF SameBd
    <3>2. BdOK(D(j), Ch(j), B(j))
      BY <3>1 DEF BdOK, NumBdsGeneric
    <3>3. BdAddr(D(j), Ch(j), B(j)) = BdAddr(D(i), Ch(i), B(i))
      BY <3>1 DEF BdAddr
    <3> QED BY <3>2, <3>3
  <2> QED BY <2>1, <2>2
<1>3. ASSUME BdOK(D(j), Ch(j), B(j)), BdAddr(D(j), Ch(j), B(j)) = BdAddr(D(i), Ch(i), B(i))
      PROVE  SameBd(i, j)
  <2>1. /\ B(i) = B(j)
        /\ <<D(i), Ch(i)>> = <<D(j), Ch(j)>> \/ ~(PvtPool(D(i)) \/ PvtPool(D(j)))
    BY <1>1, <1>3, BdApart
  <2> QED BY <2>1 DEF SameBd, Chan
<1> QED BY <1>2, <1>3

LEMMA PutBdKeeps ==
    ASSUME IInv, NEW i \in Job, BdRefusal(i) = "OK", NEW content \in Contents, content # NoBd,
           PutBd(i, content), done' = NoAnswer
    PROVE  IInvNext /\ on' = on /\ jobs' = jobs
<1> DEFINE addr == BdAddr(D(i), Ch(i), B(i))
<1>0. StaticInv /\ BdOK(D(i), Ch(i), B(i))
  BY Refusals DEF IInv
<1>1. /\ bds' = Override(bds, [x \in {addr} |-> content])
      /\ stray' = (stray \/ ~\E h \in Hw : \E n \in HwPool(h) : HwBd(h, n) = addr)
      /\ written' = [j \in Job |-> IF SameBd(i, j) THEN content ELSE written[j]]
      /\ UNCHANGED <<on, jobs, ctl, queue, run, over, sent, set, room, poll>>
  BY DEF PutBd
<1>2. /\ addr \in DOMAIN bds' /\ bds'[addr] = content
      /\ \A x \in DOMAIN bds : x \in DOMAIN bds' /\ (x # addr => bds'[x] = bds[x])
      /\ \A x \in DOMAIN bds' : x = addr \/ x \in DOMAIN bds
  BY <1>1 DEF Override
<1> HIDE DEF addr
<1>3. TypesOf(bds', queue', run', sent', set', written')
  <2>1. TypesOf(bds, queue, run, sent, set, written)
    BY DEF IInv, InvOf
  <2>2. \A x \in DOMAIN bds' : bds'[x] \in Contents
    BY <1>2, <2>1 DEF TypesOf
  <2>3. written' \in [Job -> Contents]
    BY <1>1, <2>1 DEF TypesOf
  <2> QED BY <1>1, <2>1, <2>2, <2>3 DEF TypesOf
<1>4. BdsOf(bds', written')
  <2>1. SUFFICES ASSUME NEW j \in Job, written'[j] # NoBd
                 PROVE  /\ BdOK(D(j), Ch(j), B(j))
                        /\ BdAddr(D(j), Ch(j), B(j)) \in DOMAIN bds'
                        /\ bds'[BdAddr(D(j), Ch(j), B(j))] = written'[j]
    BY DEF BdsOf
  <2>2. CASE SameBd(i, j)
    <3>1. BdOK(D(j), Ch(j), B(j)) /\ BdAddr(D(j), Ch(j), B(j)) = addr
      BY <1>0, <2>2, OneRegister DEF addr
    <3> QED BY <1>1, <1>2, <2>2, <3>1
  <2>3. CASE ~SameBd(i, j)
    <3>1. written'[j] = written[j]
      BY <1>1, <2>3
    <3>2. /\ BdOK(D(j), Ch(j), B(j))
          /\ BdAddr(D(j), Ch(j), B(j)) \in DOMAIN bds
          /\ bds[BdAddr(D(j), Ch(j), B(j))] = written[j]
      BY <2>1, <3>1 DEF IInv, InvOf, BdsOf
    <3>3. BdAddr(D(j), Ch(j), B(j)) # addr
      BY <1>0, <2>3, <3>2, OneRegister DEF addr
    <3> QED BY <1>2, <3>1, <3>2, <3>3
  <2> QED BY <2>2, <2>3
<1>5. ~stray'
  <2>1. on \in Platforms /\ D(i) \in Dirs /\ Ch(i) \in Nat /\ B(i) \in Nat
    BY <1>0, JobParts DEF StaticInv
  <2>2. \E h \in HwChannels : \E n \in HwPool(h) : HwBd(h, n) = addr
    BY <1>0, <2>1, BdReached DEF addr
  <2>3. ~stray /\ Hw = HwChannels
    BY DEF IInv, InvOf, TypesOf, Hw
  <2> QED BY <1>1, <2>2, <2>3
<1>6. TasksOf(queue', run', sent', written')
  <2>1. TasksOf(queue, run, sent, written)
    BY DEF IInv, InvOf
  <2>2. ASSUME NEW c, NEW t \in TaskSet, TaskOK(c, t, written)
        PROVE  TaskOK(c, t, written')
    <3>1. t.job # 0 => t.job \in Job
      BY DEF TaskSet
    <3> QED BY <1>1, <2>2, <3>1 DEF TaskOK
  <2>3. ASSUME NEW c \in Chans, ChannelTasks(c, queue, run, sent, written)
        PROVE  ChannelTasks(c, queue, run, sent, written')
    <3>1. sent[c] \in Seq(TaskSet)
      BY DEF IInv, InvOf, TypesOf
    <3>2. \A n \in 1..Len(sent[c]) : sent[c][n] \in TaskSet
      BY <3>1
    <3> QED BY <2>2, <2>3, <3>2 DEF ChannelTasks
  <2> QED BY <1>1, <2>1, <2>3 DEF TasksOf
<1> QED BY <1>1, <1>3, <1>4, <1>5, <1>6, NoAnswerRight DEF IInv, InvOf, IInvNext

LEMMA WriteBdKeeps ==
    ASSUME IInv, NEW i \in Job, WriteBd(i)
    PROVE  IInvNext /\ on' = on /\ jobs' = jobs
<1> DEFINE content == [len |-> i, adr |-> i]
<1>1. content \in Contents /\ content # NoBd
  <2>1. i \in Nat \ {0}
    BY BoundsAssumption DEF Job
  <2> QED BY <2>1 DEF Contents, NoBd
<1>2. \/ Refuse(BdRefusal(i))
      \/ (BdRefusal(i) = "OK" /\ PutBd(i, content) /\ done' = NoAnswer)
  BY DEF WriteBd, Answer
<1> HIDE DEF content
<1> QED BY <1>1, <1>2, RefuseKeeps, PutBdKeeps

\* A descriptor the program has written is what it wrote
LEMMA FoundIs ==
    ASSUME IInv, NEW i \in Job, written[i] # NoBd
    PROVE  Found(i) = written[i] /\ written[i] \in Contents
BY DEF IInv, InvOf, BdsOf, TypesOf, Found

LEMMA UpdateBdLenKeeps ==
    ASSUME IInv, NEW i \in Job, UpdateBdLen(i)
    PROVE  IInvNext /\ on' = on /\ jobs' = jobs
<1> DEFINE content == [Found(i) EXCEPT !.len = 10 + i]
<1>1. content \in Contents /\ content # NoBd
  <2>1. i \in Nat
    BY BoundsAssumption DEF Job
  <2>2. Found(i) \in Contents
    BY FoundIs DEF UpdateBdLen
  <2>3. content.len = 10 + i
    BY <2>2 DEF Contents
  <2> QED BY <2>1, <2>2, <2>3 DEF Contents, NoBd
<1>2. \/ Refuse(BdRefusal(i))
      \/ (BdRefusal(i) = "OK" /\ PutBd(i, content) /\ done' = NoAnswer)
  BY DEF UpdateBdLen, Answer
<1> HIDE DEF content
<1> QED BY <1>1, <1>2, RefuseKeeps, PutBdKeeps

LEMMA UpdateBdAddrKeeps ==
    ASSUME IInv, NEW i \in Job, UpdateBdAddr(i)
    PROVE  IInvNext /\ on' = on /\ jobs' = jobs
<1> DEFINE content == [Found(i) EXCEPT !.adr = 10 + i]
<1>1. content \in Contents /\ content # NoBd
  <2>1. i \in Nat
    BY BoundsAssumption DEF Job
  <2>2. Found(i) \in Contents
    BY FoundIs DEF UpdateBdAddr
  <2>3. content.adr = 10 + i
    BY <2>2 DEF Contents
  <2> QED BY <2>1, <2>2, <2>3 DEF Contents, NoBd
<1>2. \/ Refuse(BdRefusal(i))
      \/ (BdRefusal(i) = "OK" /\ PutBd(i, content) /\ done' = NoAnswer)
  BY DEF UpdateBdAddr, Answer
<1> HIDE DEF content
<1> QED BY <1>1, <1>2, RefuseKeeps, PutBdKeeps

LEMMA GetBdLenKeeps ==
    ASSUME IInv, NEW i \in Job, GetBdLen(i)
    PROVE  IInvNext /\ on' = on /\ jobs' = jobs
<1>1. CASE Refuse(BdRefusal(i))
  BY <1>1, RefuseKeeps
<1>2. CASE ~Refuse(BdRefusal(i))
  <2>1. /\ Still
        /\ done' = [on |-> "GetBdLen", job |-> i, rc |-> "OK",
                    val |-> Found(i).len, truth |-> written[i].len]
    BY <1>2 DEF GetBdLen, Still
  <2>2. Found(i) = written[i]
    BY FoundIs DEF GetBdLen
  <2>3. AnswerOf(done', sent)
    BY <2>1, <2>2 DEF AnswerOf
  <2> QED BY <2>1, <2>3, StillKeeps
<1> QED BY <1>1, <1>2

-----------------------------------------------------------------------------
(* The task queues.                                                        *)

\* u is the sequence s over S, followed by n times x
Grows(u, s, n, x, S) ==
  /\ u \in Seq(S) /\ Len(u) = Len(s) + n
  /\ \A m \in 1..Len(s) : u[m] = s[m]
  /\ \A m \in 1..(Len(s) + n) : m > Len(s) => u[m] = x

LEMMA Appended ==
    ASSUME NEW S, NEW s \in Seq(S), NEW x \in S, NEW n \in Nat
    PROVE  Grows(s \o Copies(n, x), s, n, x, S)
<1>1. Copies(n, x) \in Seq(S) /\ Len(Copies(n, x)) = n /\ \A m \in 1..n : Copies(n, x)[m] = x
  BY DEF Copies
<1> DEFINE t == Copies(n, x)
<1> HIDE DEF t
<1>2. t \in Seq(S) /\ Len(t) = n /\ \A m \in 1..n : t[m] = x
  BY <1>1 DEF t
<1>3. /\ s \o t \in Seq(S) /\ Len(s \o t) = Len(s) + n
      /\ \A m \in 1..Len(s) : (s \o t)[m] = s[m]
      /\ \A m \in 1..(Len(s) + n) : m > Len(s) => (s \o t)[m] = t[m - Len(s)]
  BY <1>2
<1>4. \A m \in 1..(Len(s) + n) : m > Len(s) => m - Len(s) \in 1..n
  OBVIOUS
<1>5. Grows(s \o t, s, n, x, S)
  BY <1>2, <1>3, <1>4 DEF Grows
<1> QED BY <1>5 DEF t

\* the entries of a queue are the last tasks of s, all but r of them
InStep(q, s, r) == Len(s) = Len(q) + r /\ \A m \in 1..Len(q) : Match(q[m], s[m + r])

\* Tasks pushed match the entries pushed, behind a queue that matches its tasks
LEMMA StillMatching ==
    ASSUME NEW q \in Seq(Entries), NEW s \in Seq(TaskSet), NEW r \in {0, 1}, InStep(q, s, r),
           NEW e \in Entries, NEW t \in TaskSet, Match(e, t), NEW n \in Nat
    PROVE  InStep(q \o Copies(n, e), s \o Copies(n, t), r)
<1>0. Len(s) = Len(q) + r /\ \A m \in 1..Len(q) : Match(q[m], s[m + r])
  BY DEF InStep
<1> DEFINE p == q \o Copies(n, e)
           u == s \o Copies(n, t)
<1>1. /\ p \in Seq(Entries) /\ Len(p) = Len(q) + n
      /\ \A m \in 1..Len(q) : p[m] = q[m]
      /\ \A m \in 1..(Len(q) + n) : m > Len(q) => p[m] = e
  <2>1. Grows(p, q, n, e, Entries)
    BY Appended
  <2> QED BY <2>1 DEF Grows
<1>2. /\ u \in Seq(TaskSet) /\ Len(u) = Len(s) + n
      /\ \A m \in 1..Len(s) : u[m] = s[m]
      /\ \A m \in 1..(Len(s) + n) : m > Len(s) => u[m] = t
  <2>1. Grows(u, s, n, t, TaskSet)
    BY Appended
  <2> QED BY <2>1 DEF Grows
<1> HIDE DEF p, u
<1>3. Len(q) \in Nat /\ Len(s) \in Nat
  OBVIOUS
<1>4. ASSUME NEW m \in 1..Len(p)
      PROVE  Match(p[m], u[m + r])
  <2>1. CASE m <= Len(q)
    <3>1. m \in 1..Len(q) /\ m + r \in 1..Len(s)
      BY <1>0, <1>3, <2>1
    <3>2. p[m] = q[m] /\ u[m + r] = s[m + r]
      BY <1>1, <1>2, <3>1
    <3> QED BY <1>0, <3>1, <3>2
  <2>2. CASE m > Len(q)
    <3>1. m \in 1..(Len(q) + n) /\ m + r \in 1..(Len(s) + n) /\ m + r > Len(s)
      BY <1>0, <1>1, <1>3, <2>2
    <3>2. p[m] = e /\ u[m + r] = t
      BY <1>1, <1>2, <2>2, <3>1
    <3> QED BY <3>2
  <2> QED BY <1>1, <1>3, <2>1, <2>2
<1>5. Len(u) = Len(p) + r
  BY <1>0, <1>1, <1>2, <1>3
<1> QED BY <1>4, <1>5 DEF p, u, InStep

LEMMA QueueLimit ==
    HwQueueMax \in {4, 16}
BY DEF HwQueueMax

LEMMA RunningIs ==
    ASSUME NEW r, NEW h
    PROVE  Running(r, h) \in {0, 1}
BY DEF Running

LEMMA EnqueueKeeps ==
    ASSUME IInv, NEW i \in Job, Valid(Chan(i)), NEW n \in Nat, NEW entry \in Entries,
           NEW task \in TaskSet, Match(entry, task), TaskOK(Chan(i), task, written),
           Enqueue(i, n, entry, task), done' = NoAnswer
    PROVE  IInvNext /\ on' = on /\ jobs' = jobs
<1> DEFINE c == Chan(i)
           h == HwOf(c)
           Fits(g) == IF Len(queue[g]) + n > HwQueueMax THEN HwQueueMax - Len(queue[g]) ELSE n
           fit == Fits(h)
<1>0. StaticInv /\ on \in Platforms /\ Hw = HwChannels /\ TypesOf(bds, queue, run, sent, set, written)
  BY DEF IInv, InvOf, StaticInv, TypesOf, Hw
<1>1. /\ h \in HwChannels /\ c \in Chans /\ HwQueue(h) = StartQueueAddr(D(i), Ch(i))
      /\ \A e \in Chans : Valid(e) /\ HwOf(e) = h => e = c
  <2>1. c \in Chans /\ c[1] = D(i) /\ c[2] = Ch(i)
    BY <1>0, JobParts DEF Chan
  <2> QED BY <1>0, <2>1, Own
<1>2. {g \in Hw : HwQueue(g) = StartQueueAddr(D(i), Ch(i))} = {h}
  BY <1>0, <1>1, HwQueueApart
<1>2a. LET hs == {g \in Hw : HwQueue(g) = StartQueueAddr(D(i), Ch(i))} IN
       /\ queue' = [g \in Hw |-> IF g \in hs THEN queue[g] \o Copies(Fits(g), entry) ELSE queue[g]]
       /\ stray' = (stray \/ hs = {})
       /\ sent' = [sent EXCEPT ![c] = @ \o Copies(IF h \in Hw THEN Fits(h) ELSE 0, task)]
       /\ room' = room \ {c}
       /\ UNCHANGED <<on, jobs, bds, ctl, run, written, set, poll>>
  BY DEF Enqueue
<1>3. /\ queue' = [g \in HwChannels |-> IF g = h THEN queue[h] \o Copies(fit, entry) ELSE queue[g]]
      /\ sent' = [sent EXCEPT ![c] = @ \o Copies(fit, task)]
      /\ ~stray'
      /\ room' = room \ {c}
      /\ UNCHANGED <<on, jobs, bds, ctl, run, written, set, poll>>
  <2>1. queue' = [g \in HwChannels |-> IF g = h THEN queue[h] \o Copies(fit, entry) ELSE queue[g]]
    <3> HIDE DEF Fits
    <3>1. queue' = [g \in Hw |-> IF g \in {h} THEN queue[g] \o Copies(Fits(g), entry) ELSE queue[g]]
      BY <1>2, <1>2a
    <3>2. \A g \in Hw : (IF g \in {h} THEN queue[g] \o Copies(Fits(g), entry) ELSE queue[g])
                       = (IF g = h THEN queue[h] \o Copies(fit, entry) ELSE queue[g])
      OBVIOUS
    <3> QED BY ONLY <1>0, <3>1, <3>2
  <2>2. ~stray'
    <3>1. ~stray
      BY DEF IInv, InvOf
    <3>2. stray' = (stray \/ {h} = {})
      BY <1>2, <1>2a
    <3>3. {h} # {}
      OBVIOUS
    <3> QED BY <3>1, <3>2, <3>3
  <2> HIDE DEF Fits
  <2> QED BY <1>0, <1>1, <1>2a, <2>1, <2>2
<1>4. ChannelTasks(c, queue, run, sent, written)
  BY <1>1 DEF IInv, InvOf, TasksOf
<1>5. /\ queue[h] \in Seq(Entries) /\ sent[c] \in Seq(TaskSet)
      /\ Len(queue[h]) \in Nat /\ Len(queue[h]) <= HwQueueMax
  BY <1>0, <1>1, <1>4 DEF TypesOf, ChannelTasks
<1>6. fit \in Nat /\ Len(queue[h]) + fit <= HwQueueMax
  <2> DEFINE l == Len(queue[h])
  <2>1. l \in Nat /\ l <= HwQueueMax /\ HwQueueMax \in Nat
    BY <1>5, QueueLimit
  <2>2. fit = IF l + n > HwQueueMax THEN HwQueueMax - l ELSE n
    OBVIOUS
  <2> HIDE DEF l, fit
  <2>3. fit \in Nat /\ l + fit <= HwQueueMax
    BY <2>1, <2>2
  <2> QED BY <2>3 DEF l
<1> HIDE DEF fit
<1> DEFINE q == queue[h] \o Copies(fit, entry)
           s == sent[c] \o Copies(fit, task)
<1>7. queue'[h] = q /\ sent'[c] = s /\ DOMAIN sent = Chans
  BY <1>0, <1>1, <1>3 DEF TypesOf
<1>8. q \in Seq(Entries) /\ Len(q) = Len(queue[h]) + fit
  <2>1. Grows(q, queue[h], fit, entry, Entries)
    BY <1>5, <1>6, Appended
  <2> QED BY <2>1 DEF Grows
<1>9. /\ s \in Seq(TaskSet) /\ Len(s) = Len(sent[c]) + fit
      /\ \A m \in 1..Len(sent[c]) : s[m] = sent[c][m]
      /\ \A m \in 1..(Len(sent[c]) + fit) : m > Len(sent[c]) => s[m] = task
  <2>1. Grows(s, sent[c], fit, task, TaskSet)
    BY <1>5, <1>6, Appended
  <2> QED BY <2>1 DEF Grows
<1>10. Len(s) = Len(q) + Running(run, h) /\ \A m \in 1..Len(q) : Match(q[m], s[m + Running(run, h)])
  <2> DEFINE r == Running(run, h)
  <2>1. r \in {0, 1}
    BY RunningIs
  <2>2. InStep(queue[h], sent[c], r)
    BY <1>4 DEF ChannelTasks, InStep
  <2> HIDE DEF r
  <2>3. InStep(q, s, r)
    BY <1>5, <1>6, <2>1, <2>2, StillMatching
  <2> QED BY <2>3 DEF r, InStep
<1> HIDE DEF q, s
<1>11. TypesOf(bds', queue', run', sent', set', written')
  <2>1. queue' \in [HwChannels -> Seq(Entries)]
    BY <1>0, <1>3, <1>7, <1>8 DEF TypesOf
  <2>2. sent' \in [Chans -> Seq(TaskSet)]
    BY <1>0, <1>3, <1>7, <1>9 DEF TypesOf
  <2> QED BY <1>0, <1>3, <2>1, <2>2 DEF TypesOf
<1>12. TasksOf(queue', run', sent', written')
  <2>1. SUFFICES ASSUME NEW e \in Chans
                 PROVE  IF Valid(e) THEN ChannelTasks(e, queue', run', sent', written')
                        ELSE sent'[e] = <<>>
    BY DEF TasksOf
  <2>2. IF Valid(e) THEN ChannelTasks(e, queue, run, sent, written) ELSE sent[e] = <<>>
    BY DEF IInv, InvOf, TasksOf
  <2>3. CASE e = c
    <3>1. \A m \in 1..Len(s) : TaskOK(c, s[m], written)
      <4>1. \A m \in 1..Len(sent[c]) : TaskOK(c, sent[c][m], written)
        BY <1>4 DEF ChannelTasks
      <4>2. SUFFICES ASSUME NEW m \in 1..Len(s) PROVE TaskOK(c, s[m], written)
        OBVIOUS
      <4>3. CASE m <= Len(sent[c])
        BY <1>5, <1>9, <4>1, <4>3
      <4>4. CASE m > Len(sent[c])
        BY <1>9, <4>4
      <4> QED BY <1>5, <1>9, <4>3, <4>4
    <3>2. Len(q) <= HwQueueMax
      BY <1>6, <1>8
    <3>3. ChannelTasks(c, queue', run', sent', written')
      BY <1>3, <1>7, <1>10, <3>1, <3>2 DEF ChannelTasks, Running
    <3> QED BY <2>3, <3>3
  <2>4. CASE e # c
    <3>1. sent'[e] = sent[e]
      BY <1>3, <1>7, <2>4
    <3>2. CASE Valid(e)
      <4>1. HwOf(e) # h /\ HwOf(e) \in HwChannels
        BY <1>0, <1>1, <2>4, <3>2, Own
      <4>2. queue'[HwOf(e)] = queue[HwOf(e)]
        BY <1>3, <4>1
      <4> QED BY <1>3, <2>2, <3>1, <3>2, <4>2 DEF ChannelTasks, Running
    <3> QED BY <2>2, <3>1, <3>2
  <2> QED BY <2>3, <2>4
<1>13. RoomOf(room', queue')
  <2>1. SUFFICES ASSUME NEW e \in room \ {c}
                 PROVE  e \in Chans /\ Valid(e) /\ Len(queue'[HwOf(e)]) < HwQueueMax
    BY <1>3 DEF RoomOf
  <2>2. e \in Chans /\ Valid(e) /\ Len(queue[HwOf(e)]) < HwQueueMax
    BY DEF IInv, InvOf, RoomOf
  <2>3. HwOf(e) # h /\ HwOf(e) \in HwChannels
    BY <1>0, <1>1, <2>2, Own
  <2> QED BY <1>3, <2>2, <2>3
<1> QED BY <1>3, <1>11, <1>12, <1>13, NoAnswerRight DEF IInv, InvOf, IInvNext

LEMMA PushBdToQueueKeeps ==
    ASSUME IInv, NEW i \in Job, NEW n \in Nat, PushBdToQueue(i, n)
    PROVE  IInvNext /\ on' = on /\ jobs' = jobs
<1>1. CASE Refuse(PushRefusal(i))
  BY <1>1, RefuseKeeps
<1>2. CASE ~Refuse(PushRefusal(i))
  <2> DEFINE entry == [bd |-> StartBd(i), rep |-> 0]
             task == [job |-> i, rep |-> 0]
  <2>1. PushRefusal(i) = "OK" /\ written[i] # NoBd /\ Enqueue(i, n, entry, task) /\ done' = NoAnswer
    BY <1>2 DEF PushBdToQueue, Answer
  <2>2. StaticInv /\ PushOK(D(i), Ch(i), B(i))
    BY <2>1, Refusals DEF IInv
  <2>3. Valid(Chan(i)) /\ StartBd(i) = HwNumber(jobs[i]) /\ StartBd(i) \in Int
    BY <2>2, JobParts, PushedNumber DEF PushOK
  <2>4. i # 0
    BY BoundsAssumption DEF Job
  <2>5. entry \in Entries /\ task \in TaskSet /\ Match(entry, task)
    BY <2>3, <2>4 DEF Entries, TaskSet, Match
  <2>6. TaskOK(Chan(i), task, written)
    BY <2>1, <2>2 DEF TaskOK
  <2> HIDE DEF entry, task
  <2> QED BY <2>1, <2>3, <2>5, <2>6, EnqueueKeeps
<1> QED BY <1>1, <1>2

LEMMA SetStartQueueKeeps ==
    ASSUME IInv, NEW i \in Job, NEW repeat \in Nat, NEW ooo \in BOOLEAN,
           SetStartQueue(i, repeat, ooo)
    PROVE  IInvNext /\ on' = on /\ jobs' = jobs
<1> DEFINE rc == IF ~({"RepeatCount", "EnTokenIssue"} \subseteq M.features) THEN "FEATURE_NOT_SUPPORTED"
                 ELSE IF ~ValidChannel(D(i), Ch(i)) THEN "INVALID_CHANNEL_NUM"
                 ELSE IF repeat < 1 \/ repeat > M.MaxRepeatCount THEN "INVALID_ARGS"
                 ELSE IF ooo THEN "OK" ELSE PushRefusal(i)
           entry == [bd |-> IF ooo THEN 0 ELSE StartBd(i), rep |-> repeat - 1]
           task == [job |-> IF ooo THEN 0 ELSE i, rep |-> repeat - 1]
<1>1. \/ Refuse(rc)
      \/ (rc = "OK" /\ written[i] # NoBd /\ Enqueue(i, 1, entry, task) /\ done' = NoAnswer)
  BY DEF SetStartQueue, Answer
<1>2. CASE Refuse(rc)
  <2> HIDE DEF rc
  <2> QED BY <1>2, RefuseKeeps
<1>3. CASE rc = "OK" /\ written[i] # NoBd /\ Enqueue(i, 1, entry, task) /\ done' = NoAnswer
  <2>1. ValidChannel(D(i), Ch(i)) /\ (ooo \/ PushRefusal(i) = "OK")
    BY <1>3
  <2>2. StaticInv /\ Valid(Chan(i)) /\ (ooo \/ PushOK(D(i), Ch(i), B(i)))
    BY <2>1, JobParts, Refusals DEF IInv
  <2>3. i # 0
    BY BoundsAssumption DEF Job
  <2>4. ooo \/ (StartBd(i) = HwNumber(jobs[i]) /\ StartBd(i) \in Int)
    BY <2>2, PushedNumber
  <2>5. entry \in Entries /\ task \in TaskSet
    BY <2>4 DEF Entries, TaskSet
  <2>6. Match(entry, task) /\ TaskOK(Chan(i), task, written)
    BY <1>3, <2>2, <2>3, <2>4 DEF Match, TaskOK
  <2> HIDE DEF rc, entry, task
  <2> QED BY <1>3, <2>2, <2>5, <2>6, EnqueueKeeps
<1> HIDE DEF rc, entry, task
<1> QED BY <1>1, <1>2, <1>3

-----------------------------------------------------------------------------
(* The control registers.                                                  *)

LEMMA OverrideIs ==
    ASSUME NEW f, NEW g, NEW x
    PROVE  CtlAt(Override(f, g), x) = IF x \in DOMAIN g THEN g[x] ELSE CtlAt(f, x)
BY DEF CtlAt, Override

LEMMA PutCtlKeeps ==
    ASSUME IInv, NEW i \in Job, Valid(Chan(i)), NEW fields, NEW whole, PutCtl(i, fields, whole)
    PROVE  CtlsOf(ctl', set') /\ ~stray' /\ DOMAIN set' = Chans
<1> DEFINE c == Chan(i)
           addr == ChannelCtrlAddr(D(i), Ch(i))
           New(old) == Override(IF whole THEN NoCtl ELSE old, fields)
<1>0. StaticInv /\ on \in Platforms /\ Hw = HwChannels /\ DOMAIN set = Chans /\ ~stray
  BY DEF IInv, InvOf, StaticInv, TypesOf, Hw
<1>1. HwOf(c) \in HwChannels /\ c \in Chans /\ HwCtrl(HwOf(c)) = addr
  <2>1. c \in Chans /\ c[1] = D(i) /\ c[2] = Ch(i)
    BY <1>0, JobParts DEF Chan
  <2> QED BY <1>0, <2>1, Own
<1>2. /\ ctl' = Override(ctl, [x \in {addr} |-> New(CtlAt(ctl, addr))])
      /\ stray' = (stray \/ \A h \in Hw : HwCtrl(h) # addr)
      /\ set' = [set EXCEPT ![c] = New(@)]
  BY DEF PutCtl, Ctl, CtlAt
<1> HIDE DEF addr, New
<1>3. ~stray'
  <2>1. ~\A h \in Hw : HwCtrl(h) # addr
    BY <1>0, <1>1
  <2> QED BY <1>0, <1>2, <2>1
<1>4. DOMAIN set' = Chans
  BY <1>0, <1>2
<1>5. ASSUME NEW e \in Chans, Valid(e)
      PROVE  CtlAt(ctl', HwCtrl(HwOf(e))) = set'[e]
  <2>1. CtlAt(ctl, HwCtrl(HwOf(e))) = set[e]
    BY <1>5 DEF IInv, InvOf, CtlsOf
  <2>2. CASE e = c
    <3>1. CtlAt(ctl', addr) = New(CtlAt(ctl, addr))
      BY <1>2, OverrideIs
    <3>2. set'[c] = New(set[c])
      BY <1>0, <1>1, <1>2
    <3> QED BY <1>1, <2>1, <2>2, <3>1, <3>2
  <2>3. CASE e # c
    <3>1. HwOf(e) # HwOf(c) /\ HwOf(e) \in HwChannels
      BY <1>0, <1>1, <1>5, <2>3, Own
    <3>2. HwCtrl(HwOf(e)) # addr
      BY <1>0, <1>1, <3>1, HwCtrlApart
    <3>3. CtlAt(ctl', HwCtrl(HwOf(e))) = CtlAt(ctl, HwCtrl(HwOf(e)))
      BY <1>2, <3>2, OverrideIs
    <3>4. set'[e] = set[e]
      BY <1>0, <1>2, <2>3
    <3> QED BY <2>1, <3>3, <3>4
  <2> QED BY <2>2, <2>3
<1> QED BY <1>3, <1>4, <1>5 DEF CtlsOf

LEMMA CtlCallKeeps ==
    ASSUME IInv, NEW i \in Job, NEW rc, rc = "OK" => Valid(Chan(i)), NEW fields, NEW whole,
           CtlCall(i, rc, fields, whole)
    PROVE  IInvNext /\ on' = on /\ jobs' = jobs
<1>1. CASE Refuse(rc)
  BY <1>1, RefuseKeeps
<1>2. CASE ~Refuse(rc)
  <2>1. /\ rc = "OK" /\ PutCtl(i, fields, whole) /\ done' = NoAnswer
        /\ UNCHANGED <<on, jobs, bds, queue, run, over, written, sent, room, poll>>
    BY <1>2 DEF CtlCall, Answer
  <2>2. CtlsOf(ctl', set') /\ ~stray' /\ DOMAIN set' = Chans
    BY <2>1, PutCtlKeeps
  <2>3. TypesOf(bds', queue', run', sent', set', written')
    BY <2>1, <2>2 DEF IInv, InvOf, TypesOf
  <2> QED BY <2>1, <2>2, <2>3, NoAnswerRight DEF IInv, InvOf, IInvNext
<1> QED BY <1>1, <1>2

LEMMA CtlCallsKeep ==
    ASSUME IInv, NEW i \in Job, NEW v,
           PauseStream(i, v) \/ PauseMem(i, v) \/ Enable(i, v) \/ WriteChannel(i) \/ WritePktType(i)
    PROVE  IInvNext /\ on' = on /\ jobs' = jobs
<1>0. /\ ChannelRefusal(i) = "OK" => Valid(Chan(i))
      /\ PauseRefusal(i) = "OK" => Valid(Chan(i))
  BY Refusals DEF IInv, PauseRefusal
<1>1. CASE PauseStream(i, v)
  BY <1>0, <1>1, CtlCallKeeps DEF PauseStream
<1>2. CASE PauseMem(i, v)
  BY <1>0, <1>2, CtlCallKeeps DEF PauseMem
<1>3. CASE Enable(i, v)
  <2>1. CASE IsAie4(k)
    BY <1>3, <2>1, RefuseKeeps DEF Enable
  <2>2. CASE ~IsAie4(k)
    BY <1>0, <1>3, <2>2, CtlCallKeeps DEF Enable, ChannelControl
  <2> QED BY <2>1, <2>2
<1>4. CASE WriteChannel(i)
  <2> DEFINE rc == IF IsAie(k) THEN "FEATURE_NOT_SUPPORTED" ELSE ChannelRefusal(i)
  <2>1. rc = "OK" => Valid(Chan(i))
    BY <1>0
  <2>2. CtlCall(i, rc, [Desc |-> i], TRUE)
    BY <1>4 DEF WriteChannel
  <2> HIDE DEF rc
  <2> QED BY <2>1, <2>2, CtlCallKeeps
<1>5. CASE WritePktType(i)
  <2> DEFINE rc == IF ~IsAie4(k) \/ k[2] = "TILE" THEN "FEATURE_NOT_SUPPORTED" ELSE ChannelRefusal(i)
  <2>1. rc = "OK" => Valid(Chan(i))
    BY <1>0
  <2>2. CtlCall(i, rc, [PktType |-> i], FALSE)
    BY <1>5 DEF WritePktType
  <2> HIDE DEF rc
  <2> QED BY <2>1, <2>2, CtlCallKeeps
<1> QED BY <1>1, <1>2, <1>3, <1>4, <1>5

-----------------------------------------------------------------------------
(* Resets.                                                                 *)

\* What becomes of the tasks when the channels hs are reset: those of the
\* program among them are cs
LEMMA ResetKeeps ==
    ASSUME IInv, NEW hs, NEW cs, \A c \in Chans : Valid(c) => (HwOf(c) \in hs <=> c \in cs),
           ResetChannels(hs),
           sent' = [c \in Chans |-> IF c \in cs THEN <<>> ELSE sent[c]],
           room' \subseteq room, DOMAIN set' = Chans, UNCHANGED <<bds, written>>
    PROVE  /\ TypesOf(bds', queue', run', sent', set', written')
           /\ TasksOf(queue', run', sent', written')
           /\ RoomOf(room', queue')
           /\ FetchOf(run')
<1>0. StaticInv /\ Hw = HwChannels /\ TypesOf(bds, queue, run, sent, set, written)
  BY DEF IInv, InvOf, TypesOf, Hw
<1>1. /\ queue' = [h \in HwChannels |-> IF h \in hs THEN <<>> ELSE queue[h]]
      /\ run' = [h \in HwChannels |-> IF h \in hs THEN Idle ELSE run[h]]
  BY <1>0 DEF ResetChannels
<1>2. <<>> \in Seq(Entries) /\ <<>> \in Seq(TaskSet) /\ Idle \in Runs
  BY DEF Runs, Contents, Idle, NoBd
<1>3. TypesOf(bds', queue', run', sent', set', written')
  <2>1. queue' \in [HwChannels -> Seq(Entries)]
    BY <1>0, <1>1, <1>2 DEF TypesOf
  <2>2. run' \in [HwChannels -> Runs]
    BY <1>0, <1>1, <1>2 DEF TypesOf
  <2>3. sent' \in [Chans -> Seq(TaskSet)]
    BY <1>0, <1>2 DEF TypesOf
  <2> QED BY <1>0, <2>1, <2>2, <2>3 DEF TypesOf
<1>4. ASSUME NEW c \in Chans
      PROVE  IF Valid(c) THEN ChannelTasks(c, queue', run', sent', written') ELSE sent'[c] = <<>>
  <2>0. IF Valid(c) THEN ChannelTasks(c, queue, run, sent, written) ELSE sent[c] = <<>>
    BY DEF IInv, InvOf, TasksOf
  <2>1. CASE Valid(c) /\ c \in cs
    <3>1. HwOf(c) \in HwChannels /\ HwOf(c) \in hs
      BY <1>0, <2>1, Own
    <3>2. queue'[HwOf(c)] = <<>> /\ run'[HwOf(c)] = Idle /\ sent'[c] = <<>>
      BY <1>1, <2>1, <3>1
    <3>3. Running(run', HwOf(c)) = 0
      BY <3>2 DEF Running, Idle
    <3>4. ChannelTasks(c, queue', run', sent', written')
      BY <3>2, <3>3, QueueLimit DEF ChannelTasks
    <3> QED BY <2>1, <3>4
  <2>2. CASE Valid(c) /\ c \notin cs
    <3>1. HwOf(c) \in HwChannels /\ HwOf(c) \notin hs
      BY <1>0, <2>2, Own
    <3>2. queue'[HwOf(c)] = queue[HwOf(c)] /\ run'[HwOf(c)] = run[HwOf(c)] /\ sent'[c] = sent[c]
      BY <1>1, <2>2, <3>1
    <3>3. ChannelTasks(c, queue', run', sent', written')
      BY <2>0, <2>2, <3>2 DEF ChannelTasks, Running
    <3> QED BY <2>2, <3>3
  <2>3. CASE ~Valid(c)
    BY <2>0, <2>3
  <2> QED BY <2>1, <2>2, <2>3
<1>5. ASSUME NEW c \in room
      PROVE  c \in Chans /\ Valid(c) /\ Len(queue'[HwOf(c)]) < HwQueueMax
  <2>1. c \in Chans /\ Valid(c) /\ Len(queue[HwOf(c)]) < HwQueueMax
    BY DEF IInv, InvOf, RoomOf
  <2>2. HwOf(c) \in HwChannels
    BY <1>0, <2>1, Own
  <2>3. queue'[HwOf(c)] = <<>> \/ queue'[HwOf(c)] = queue[HwOf(c)]
    BY <1>1, <2>2
  <2>4. Len(<<>>) < HwQueueMax
    BY QueueLimit
  <2> QED BY <2>1, <2>3, <2>4
<1>6. RoomOf(room', queue')
  BY <1>5 DEF RoomOf
<1>7. FetchOf(run')
  BY <1>1 DEF IInv, InvOf, FetchOf, Idle
<1> QED BY <1>3, <1>4, <1>6, <1>7 DEF TasksOf

LEMMA ChannelResetKeeps ==
    ASSUME IInv, NEW i \in Job, NEW v, ChannelReset(i, v)
    PROVE  IInvNext /\ on' = on /\ jobs' = jobs
<1> DEFINE c == Chan(i)
           hs == {h \in Hw : v = 1 /\ HwCtrl(h) = ChannelCtrlAddr(D(i), Ch(i))}
           cs == IF v = 1 THEN {c} ELSE {}
<1>1. CASE Refuse("INVALID_TILE") \/ Refuse("INVALID_CHANNEL_NUM")
  BY <1>1, RefuseKeeps
<1>2. CASE ~(Refuse("INVALID_TILE") \/ Refuse("INVALID_CHANNEL_NUM"))
  <2>0. StaticInv /\ on \in Platforms /\ Hw = HwChannels /\ TypesOf(bds, queue, run, sent, set, written)
    BY DEF IInv, InvOf, StaticInv, TypesOf, Hw
  <2>1. /\ ValidChannel(D(i), Ch(i)) /\ PutCtl(i, [Reset |-> v], FALSE)
        /\ ResetChannels(hs)
        /\ sent' = IF v = 1 THEN [sent EXCEPT ![c] = <<>>] ELSE sent
        /\ room' = IF v = 1 THEN room \ {c} ELSE room
        /\ done' = NoAnswer
        /\ UNCHANGED <<on, jobs, bds, written, poll>>
    BY <1>2 DEF ChannelReset, Answer
  <2>2. Valid(c) /\ c \in Chans /\ c[1] = D(i) /\ c[2] = Ch(i)
    BY <2>0, <2>1, JobParts DEF Chan
  <2>3. CtlsOf(ctl', set') /\ ~stray' /\ DOMAIN set' = Chans
    BY <2>1, <2>2, PutCtlKeeps
  <2>4. HwOf(c) \in HwChannels /\ HwCtrl(HwOf(c)) = ChannelCtrlAddr(D(i), Ch(i))
    BY <2>0, <2>2, Own
  <2>5. ASSUME NEW e \in Chans, Valid(e)
        PROVE  HwOf(e) \in hs <=> e \in cs
    <3>1. HwOf(e) \in HwChannels /\ (HwOf(e) = HwOf(c) => e = c)
      BY <2>0, <2>2, <2>5, Own
    <3>2. HwCtrl(HwOf(e)) = HwCtrl(HwOf(c)) => HwOf(e) = HwOf(c)
      BY <2>0, <2>4, <3>1, HwCtrlApart
    <3>3. HwOf(e) \in hs <=> v = 1 /\ HwCtrl(HwOf(e)) = HwCtrl(HwOf(c))
      BY <2>0, <2>4, <3>1
    <3> HIDE DEF c, hs
    <3> QED BY <3>1, <3>2, <3>3
  <2>6. sent' = [e \in Chans |-> IF e \in cs THEN <<>> ELSE sent[e]]
    <3>1. DOMAIN sent = Chans /\ sent = [e \in Chans |-> sent[e]]
      BY <2>0 DEF TypesOf
    <3> QED BY <2>1, <2>2, <3>1
  <2>7. room' \subseteq room
    BY <2>1
  <2> HIDE DEF cs, hs
  <2>8. /\ TypesOf(bds', queue', run', sent', set', written')
        /\ TasksOf(queue', run', sent', written')
        /\ RoomOf(room', queue')
        /\ FetchOf(run')
    BY <2>1, <2>3, <2>5, <2>6, <2>7, ResetKeeps
  <2> QED BY <2>1, <2>3, <2>8, NoAnswerRight DEF IInv, InvOf, IInvNext
<1> QED BY <1>1, <1>2

LEMMA ChannelResetAllKeeps ==
    ASSUME IInv, NEW v, ChannelResetAll(v)
    PROVE  IInvNext /\ on' = on /\ jobs' = jobs
<1> DEFINE hit == UNION {{ChannelCtrlAddr(d, ch) : ch \in 0..(MaxNumChannels(d) - 1)} : d \in {MM2S, S2MM}}
           Mine(c) == ValidChannel(c[1], c[2]) /\ c[1] \in {MM2S, S2MM}
           hs == {h \in Hw : v = 1 /\ HwCtrl(h) \in hit}
           cs == IF v = 1 THEN {c \in Chans : Mine(c)} ELSE {}
<1>1. CASE Refuse("INVALID_TILE")
  BY <1>1, RefuseKeeps
<1>2. CASE ~Refuse("INVALID_TILE")
  <2>0. /\ StaticInv /\ on \in Platforms /\ Hw = HwChannels /\ ~stray
        /\ TypesOf(bds, queue, run, sent, set, written)
    BY DEF IInv, InvOf, StaticInv, TypesOf, Hw
  <2>1. /\ k[2] # "SHIM"
        /\ ctl' = Override(ctl, [x \in hit |-> [Ctl(x) EXCEPT !.Reset = v]])
        /\ stray' = (stray \/ ~(hit \subseteq {HwCtrl(h) : h \in Hw}))
        /\ ResetChannels(hs)
        /\ set' = [c \in Chans |-> IF Mine(c) THEN [set[c] EXCEPT !.Reset = v] ELSE set[c]]
        /\ sent' = [c \in Chans |-> IF v = 1 /\ Mine(c) THEN <<>> ELSE sent[c]]
        /\ room' = IF v = 1 THEN {} ELSE room
        /\ done' = NoAnswer
        /\ UNCHANGED <<on, jobs, bds, written, poll>>
    BY <1>2 DEF ChannelResetAll, Answer
  <2>2. Dirs = {S2MM, MM2S} /\ TRACE \notin {S2MM, MM2S}
    BY <2>0, <2>1, Directions DEF Aie4Shim, S2MM, MM2S, TRACE
  <2>3. ASSUME NEW c \in Chans, Valid(c)
        PROVE  Mine(c) /\ HwCtrl(HwOf(c)) \in hit /\ HwOf(c) \in HwChannels
    <3>1. c[1] \in {S2MM, MM2S} /\ c[2] \in Nat /\ ValidChannel(c[1], c[2])
      BY <2>0, <2>2, <2>3, ChanParts DEF Valid
    <3>2. MaxNumChannels(c[1]) \in Nat
      BY <2>0, <2>2, <3>1, Counts
    <3>3. c[2] \in 0..(MaxNumChannels(c[1]) - 1)
      BY <3>1, <3>2 DEF ValidChannel
    <3>4. ChannelCtrlAddr(c[1], c[2]) = HwCtrl(HwOf(c)) /\ HwOf(c) \in HwChannels
      BY <2>0, <2>3, Own
    <3> QED BY <3>1, <3>3, <3>4
  <2>4. ASSUME NEW x \in hit
        PROVE  \E h \in HwChannels : HwCtrl(h) = x
    <3>1. PICK d \in {MM2S, S2MM} : x \in {ChannelCtrlAddr(d, ch) : ch \in 0..(MaxNumChannels(d) - 1)}
      BY <2>4
    <3>2. PICK ch \in 0..(MaxNumChannels(d) - 1) : x = ChannelCtrlAddr(d, ch)
      BY <3>1
    <3>3. MaxNumChannels(d) \in Nat \ {0} /\ d \in Dirs /\ d # TRACE
      BY <2>0, <2>2, Counts
    <3>4. ch \in Nat /\ ValidChannel(d, ch)
      BY <3>3 DEF ValidChannel
    <3>5. HwOf(<<d, ch>>) \in HwChannels /\ x = HwCtrl(HwOf(<<d, ch>>))
      BY <2>0, <3>2, <3>3, <3>4, ChannelExists, CtrlReached
    <3> QED BY <3>5
  <2>5. ~stray'
    <3>1. hit \subseteq {HwCtrl(h) : h \in Hw}
      BY <2>0, <2>4
    <3> HIDE DEF hit
    <3> QED BY <2>0, <2>1, <3>1
  <2>6. CtlsOf(ctl', set') /\ DOMAIN set' = Chans
    <3>1. SUFFICES ASSUME NEW c \in Chans, Valid(c)
                   PROVE  CtlAt(ctl', HwCtrl(HwOf(c))) = set'[c]
      BY <2>1 DEF CtlsOf
    <3> DEFINE x == HwCtrl(HwOf(c))
    <3>2. CtlAt(ctl, x) = set[c]
      BY <3>1 DEF IInv, InvOf, CtlsOf
    <3>3. Mine(c) /\ x \in hit
      BY <2>3, <3>1
    <3>4. set'[c] = [set[c] EXCEPT !.Reset = v]
      BY <2>1, <3>3
    <3> HIDE DEF hit, x
    <3> DEFINE g == [y \in hit |-> [Ctl(y) EXCEPT !.Reset = v]]
    <3>5. x \in DOMAIN g /\ g[x] = [Ctl(x) EXCEPT !.Reset = v]
      BY <3>3
    <3>6. ctl' = Override(ctl, g)
      BY <2>1
    <3> HIDE DEF g
    <3>7. CtlAt(ctl', x) = [Ctl(x) EXCEPT !.Reset = v]
      BY <3>5, <3>6, OverrideIs
    <3>8. Ctl(x) = set[c]
      BY <3>2 DEF Ctl, CtlAt
    <3> QED BY <3>4, <3>7, <3>8 DEF x
  <2>7. ASSUME NEW c \in Chans, Valid(c)
        PROVE  HwOf(c) \in hs <=> c \in cs
    <3>1. Mine(c) /\ HwCtrl(HwOf(c)) \in hit /\ HwOf(c) \in Hw
      BY <2>0, <2>3, <2>7
    <3> HIDE DEF hit, Mine
    <3> QED BY <3>1
  <2>8. sent' = [c \in Chans |-> IF c \in cs THEN <<>> ELSE sent[c]]
    <3> HIDE DEF Mine
    <3>1. \A c \in Chans : c \in cs <=> v = 1 /\ Mine(c)
      OBVIOUS
    <3> QED BY <2>1, <3>1
  <2>9. room' \subseteq room
    BY <2>1
  <2> HIDE DEF cs, hs, hit, Mine
  <2>10. /\ TypesOf(bds', queue', run', sent', set', written')
         /\ TasksOf(queue', run', sent', written')
         /\ RoomOf(room', queue')
         /\ FetchOf(run')
    BY <2>1, <2>6, <2>7, <2>8, <2>9, ResetKeeps
  <2> QED BY <2>1, <2>5, <2>6, <2>10, NoAnswerRight DEF IInv, InvOf, IInvNext
<1> QED BY <1>1, <1>2

-----------------------------------------------------------------------------
(* The status registers.                                                   *)

LEMMA StatusIs ==
    ASSUME IInv, NEW i \in Job, Valid(Chan(i))
    PROVE  Status(i) = Shown(HwOf(Chan(i)))
<1> DEFINE c == Chan(i)
           hs == {h \in Hw : HwStatus(h) = ChannelStatusAddr(D(i), Ch(i)) /\ (IsAie(k) => h[3] = Ch(i))}
<1>0. StaticInv /\ on \in Platforms /\ Hw = HwChannels
  BY DEF IInv, InvOf, StaticInv, TypesOf, Hw
<1>1. c \in Chans /\ c[1] = D(i) /\ c[2] = Ch(i)
  BY <1>0, JobParts DEF Chan
<1>2. /\ HwOf(c) \in HwChannels /\ HwStatus(HwOf(c)) = ChannelStatusAddr(D(i), Ch(i))
      /\ IsAie(k) => HwOf(c)[3] = Ch(i)
  BY <1>0, <1>1, Own
<1>3. hs = {HwOf(c)}
  <2>1. HwOf(c) \in hs
    BY <1>0, <1>2
  <2>2. ASSUME NEW h \in hs PROVE h = HwOf(c)
    BY <1>0, <1>2, HwStatusApart
  <2> HIDE DEF hs
  <2> QED BY <2>1, <2>2
<1>4. (CHOOSE h \in {HwOf(c)} : TRUE) = HwOf(c)
  OBVIOUS
<1>5. Status(i) = IF hs = {} THEN [TaskQSize |-> 0, TaskQOverFlow |-> FALSE, ChannelRunning |-> FALSE, Stalled |-> {}]
                  ELSE Shown(CHOOSE h \in hs : TRUE)
  BY DEF Status
<1> HIDE DEF hs
<1> QED BY <1>3, <1>4, <1>5

\* What a channel shows: the length of its queue, and whether it has a task in hand
LEMMA ShownIs ==
    ASSUME IInv, NEW h \in HwChannels
    PROVE  /\ Shown(h).TaskQSize = Len(queue[h])
           /\ Shown(h).TaskQOverFlow <=> h \in over
           /\ Busy(Shown(h)) <=> Running(run, h) = 1
<1>1. run[h].state \in {"idle", "running"} \cup Stalls
  BY DEF IInv, InvOf, TypesOf, Runs
<1>2. Stalls \subseteq StallMask /\ "idle" \notin Stalls
  BY StallsAssumption DEF StallMask
<1>3. /\ Shown(h).ChannelRunning <=> run[h].state = "running"
      /\ Shown(h).Stalled = IF run[h].state \in Stalls THEN {run[h].state} ELSE {}
  BY DEF Shown
<1>4. Busy(Shown(h)) <=> run[h].state # "idle"
  BY <1>1, <1>2, <1>3 DEF Busy
<1>5. /\ Shown(h).TaskQSize = Len(queue[h])
      /\ Shown(h).TaskQOverFlow <=> h \in over
  BY DEF Shown
<1> QED BY <1>4, <1>5 DEF Running

\* A valid channel's tasks
LEMMA TasksAre ==
    ASSUME IInv, NEW c \in Chans, Valid(c)
    PROVE  /\ HwOf(c) \in HwChannels /\ ChannelTasks(c, queue, run, sent, written)
           /\ queue[HwOf(c)] \in Seq(Entries) /\ sent[c] \in Seq(TaskSet)
           /\ Len(queue[HwOf(c)]) \in Nat /\ Len(queue[HwOf(c)]) <= HwQueueMax
           /\ Len(sent[c]) = Len(queue[HwOf(c)]) + Running(run, HwOf(c))
<1>1. HwOf(c) \in HwChannels
  BY Own DEF IInv
<1>2. queue[HwOf(c)] \in Seq(Entries) /\ sent[c] \in Seq(TaskSet)
  BY <1>1 DEF IInv, InvOf, TypesOf
<1>3. ChannelTasks(c, queue, run, sent, written)
  BY DEF IInv, InvOf, TasksOf
<1> QED BY <1>1, <1>2, <1>3 DEF ChannelTasks

LEMMA GetPendingBdCountKeeps ==
    ASSUME IInv, NEW i \in Job, GetPendingBdCount(i)
    PROVE  IInvNext /\ on' = on /\ jobs' = jobs
<1> DEFINE rc == IF ChannelRefusal(i) # "OK" THEN ChannelRefusal(i)
                 ELSE IF Status(i).TaskQSize > M.StartQSizeMax THEN "ERR" ELSE "OK"
           c == Chan(i)
           h == HwOf(c)
<1>1. \/ Refuse(rc)
      \/ /\ rc = "OK" /\ Still
         /\ done' = [on |-> "GetPending", job |-> i, rc |-> "OK",
                     val |-> PendingBd(Status(i)), truth |-> Len(sent[Chan(i)])]
  BY DEF GetPendingBdCount, Still
<1>2. CASE Refuse(rc)
  <2> HIDE DEF rc
  <2> QED BY <1>2, RefuseKeeps
<1>3. CASE /\ rc = "OK" /\ Still
           /\ done' = [on |-> "GetPending", job |-> i, rc |-> "OK",
                       val |-> PendingBd(Status(i)), truth |-> Len(sent[Chan(i)])]
  <2>1. Valid(c) /\ c \in Chans
    BY <1>3, Refusals, JobParts DEF IInv
  <2>2. h \in HwChannels /\ Len(queue[h]) \in Nat /\ Len(sent[c]) = Len(queue[h]) + Running(run, h)
    BY <2>1, TasksAre
  <2>3. Status(i) = Shown(h)
    BY <2>1, StatusIs
  <2>4. Shown(h).TaskQSize = Len(queue[h]) /\ (Busy(Shown(h)) <=> Running(run, h) = 1)
    BY <2>2, ShownIs
  <2>5. PendingBd(Shown(h)) = Len(sent[c])
    BY <2>2, <2>4, RunningIs DEF PendingBd
  <2>6. AnswerOf(done', sent)
    BY <1>3, <2>3, <2>5 DEF AnswerOf
  <2> QED BY <1>3, <2>6, StillKeeps
<1> HIDE DEF rc
<1> QED BY <1>1, <1>2, <1>3

LEMMA GetChannelStatusKeeps ==
    ASSUME IInv, NEW i \in Job, GetChannelStatus(i)
    PROVE  IInvNext /\ on' = on /\ jobs' = jobs
<1>1. CASE Refuse(ChannelRefusal(i))
  BY <1>1, RefuseKeeps
<1>2. CASE ~Refuse(ChannelRefusal(i))
  <2>1. /\ ChannelRefusal(i) = "OK" /\ Still
        /\ done' = [on |-> "GetStatus", job |-> i, rc |-> "OK",
                    val |-> Status(i).TaskQOverFlow /\ ~IsAie(k),
                    truth |-> HwOf(Chan(i)) \in over /\ ~IsAie(k)]
    BY <1>2 DEF GetChannelStatus, Still
  <2>2. Valid(Chan(i)) /\ HwOf(Chan(i)) \in HwChannels
    BY <2>1, Refusals, JobParts, Own DEF IInv
  <2>3. Status(i).TaskQOverFlow = (HwOf(Chan(i)) \in over)
    <3>1. Status(i) = Shown(HwOf(Chan(i)))
      BY <2>2, StatusIs
    <3> QED BY <3>1 DEF Shown
  <2>4. done'.val = done'.truth /\ done'.on # "WaitForDone"
    BY <2>1, <2>3
  <2>5. AnswerOf(done', sent)
    BY <2>4 DEF AnswerOf
  <2> QED BY <2>1, <2>5, StillKeeps
<1> QED BY <1>1, <1>2

LEMMA StartWaitKeeps ==
    ASSUME IInv, NEW i \in Job, NEW rc, rc = "OK" => ChannelRefusal(i) = "OK",
           NEW name \in {"WaitForDone", "WaitForBdTaskQueue"}, StartWait(name, i, rc)
    PROVE  IInvNext /\ on' = on /\ jobs' = jobs
<1>1. CASE Refuse(rc)
  BY <1>1, RefuseKeeps
<1>2. CASE ~Refuse(rc)
  <2>1. /\ rc = "OK" /\ poll' = [on |-> name, job |-> i] /\ done' = NoAnswer
        /\ UNCHANGED <<on, jobs, bds, ctl, queue, run, over, stray, written, sent, set, room>>
    BY <1>2 DEF StartWait
  <2>2. ValidChannel(D(i), Ch(i))
    BY <2>1, Refusals, JobParts DEF IInv
  <2>3. PollOf(poll')
    BY <2>1, <2>2 DEF PollOf
  <2> QED BY <2>1, <2>3, NoAnswerRight DEF IInv, InvOf, IInvNext
<1> QED BY <1>1, <1>2

LEMMA WaitsKeep ==
    ASSUME IInv, NEW i \in Job, WaitForDone(i) \/ WaitForBdTaskQueue(i)
    PROVE  IInvNext /\ on' = on /\ jobs' = jobs
<1>1. CASE WaitForDone(i)
  BY <1>1, StartWaitKeeps DEF WaitForDone
<1>2. CASE WaitForBdTaskQueue(i)
  <2> DEFINE rc == IF ChannelRefusal(i) # "OK" THEN ChannelRefusal(i)
                   ELSE IF "WaitforBdTaskQueue" \notin DOMAIN M THEN "FEATURE_NOT_SUPPORTED"
                   ELSE "OK"
  <2>1. rc = "OK" => ChannelRefusal(i) = "OK"
    OBVIOUS
  <2>2. StartWait("WaitForBdTaskQueue", i, rc)
    BY <1>2 DEF WaitForBdTaskQueue
  <2> HIDE DEF rc
  <2> QED BY <2>1, <2>2, StartWaitKeeps
<1> QED BY <1>1, <1>2

\* the highest bit of the size is set in a full queue alone
LEMMA HighBit ==
    ASSUME NEW l \in Nat, l <= HwQueueMax, (l \div TASK_Q_SIZE_MSB) % 2 = 0
    PROVE  l < HwQueueMax
<1>1. CASE IsAie4(k)
  <2>1. HwQueueMax = 16 /\ TASK_Q_SIZE_MSB = 16
    BY <1>1 DEF HwQueueMax, TASK_Q_SIZE_MSB
  <2>2. (16 \div 16) % 2 = 1
    OBVIOUS
  <2> QED BY <2>1, <2>2
<1>2. CASE ~IsAie4(k)
  <2>1. HwQueueMax = 4 /\ TASK_Q_SIZE_MSB = 4
    BY <1>2 DEF HwQueueMax, TASK_Q_SIZE_MSB
  <2>2. (4 \div 4) % 2 = 1
    OBVIOUS
  <2> QED BY <2>1, <2>2
<1> QED BY <1>1, <1>2

\* A wait that ends well saw the channel done, or its queue with room
LEMMA EndWaitKeeps ==
    ASSUME IInv, PollMatch \/ PollTimeout
    PROVE  IInvNext /\ on' = on /\ jobs' = jobs
<1> DEFINE i == poll.job
           c == Chan(i)
           h == HwOf(c)
<1>1. /\ poll # NoPoll
      /\ \/ Matches /\ EndWait("OK")
         \/ EndWait("DMA_STATUS_TIMEOUT")
  BY DEF PollMatch, PollTimeout
<1>2. /\ poll.on \in {"WaitForDone", "WaitForBdTaskQueue"} /\ i \in Job /\ ValidChannel(D(i), Ch(i))
  BY <1>1 DEF IInv, InvOf, PollOf
<1>3. Valid(c) /\ c \in Chans
  BY <1>2, JobParts DEF IInv
<1>4. /\ h \in HwChannels /\ Len(queue[h]) \in Nat /\ Len(queue[h]) <= HwQueueMax
      /\ sent[c] \in Seq(TaskSet)
      /\ Len(sent[c]) = Len(queue[h]) + Running(run, h)
  BY <1>3, TasksAre
<1>5. Status(i) = Shown(h)
  BY <1>2, <1>3, StatusIs
<1>6. Shown(h).TaskQSize = Len(queue[h]) /\ (Busy(Shown(h)) <=> Running(run, h) = 1)
  BY <1>4, ShownIs
<1>7. ASSUME NEW rc, EndWait(rc)
      PROVE  /\ done'.on = poll.on /\ done'.job = i /\ done'.rc = rc /\ done'.val = done'.truth
             /\ poll' = NoPoll
             /\ room' = IF rc = "OK" /\ poll.on = "WaitForBdTaskQueue" THEN room \cup {c} ELSE room
             /\ UNCHANGED <<on, jobs, bds, ctl, queue, run, over, stray, written, sent, set>>
  BY <1>7 DEF EndWait, NoAnswer
<1>8. ASSUME Matches, poll.on = "WaitForDone"
      PROVE  sent[c] = <<>>
  <2>1. DoneMatches(Shown(h))
    BY <1>5, <1>8 DEF Matches
  <2>2. Len(queue[h]) = 0 /\ Running(run, h) = 0
    BY <1>6, <2>1, RunningIs DEF DoneMatches
  <2>3. Len(sent[c]) = 0
    BY <1>4, <2>2
  <2> QED BY <1>4, <2>3
<1>9. ASSUME Matches, poll.on = "WaitForBdTaskQueue"
      PROVE  Len(queue[h]) < HwQueueMax
  <2>1. RoomMatches(Shown(h))
    BY <1>5, <1>9 DEF Matches
  <2>2. (Len(queue[h]) \div TASK_Q_SIZE_MSB) % 2 = 0
    BY <1>6, <2>1 DEF RoomMatches
  <2> QED BY <1>4, <2>2, HighBit
<1>10. \E rc \in {"OK", "DMA_STATUS_TIMEOUT"} : EndWait(rc) /\ (rc = "OK" => Matches)
  BY <1>1
<1>11. PICK rc \in {"OK", "DMA_STATUS_TIMEOUT"} : EndWait(rc) /\ (rc = "OK" => Matches)
  BY <1>10
<1>12. AnswerOf(done', sent')
  BY <1>7, <1>8, <1>11 DEF AnswerOf
<1>13. RoomOf(room', queue')
  <2>1. RoomOf(room, queue)
    BY DEF IInv, InvOf
  <2> QED BY <1>3, <1>7, <1>9, <1>11, <2>1 DEF RoomOf
<1>14. PollOf(poll')
  BY <1>7, <1>11 DEF PollOf
<1> QED BY <1>7, <1>11, <1>12, <1>13, <1>14 DEF IInv, InvOf, IInvNext

-----------------------------------------------------------------------------
(* The hardware.                                                           *)

\* u is the sequence s over S, without its head
Shrinks(u, s, S) ==
  /\ u \in Seq(S) /\ Len(u) = Len(s) - 1
  /\ \A m \in 1..Len(u) : u[m] = s[m + 1]

LEMMA Shrunk ==
    ASSUME NEW S, NEW s \in Seq(S), s # <<>>
    PROVE  Shrinks(Tail(s), s, S) /\ Head(s) = s[1] /\ Head(s) \in S /\ Len(s) \in Nat \ {0}
BY DEF Shrinks

\* The channel of the program that has tasks on a channel of the hardware
LEMMA TheChannel ==
    ASSUME IInv, NEW h \in HwChannels, NEW c \in ChansOf(h)
    PROVE  /\ c \in Chans /\ Valid(c) /\ HwOf(c) = h /\ sent[c] # <<>>
           /\ ChansOf(h) = {c}
<1>1. ASSUME NEW e \in ChansOf(h)
      PROVE  e \in Chans /\ Valid(e) /\ HwOf(e) = h /\ sent[e] # <<>>
  BY DEF ChansOf, IInv, InvOf, TasksOf
<1>2. ASSUME NEW e \in ChansOf(h)
      PROVE  e = c
  BY <1>1, <1>2, Own DEF IInv
<1> QED BY <1>1, <1>2

\* A task of an idle channel is of the program's, at the head of its queue
LEMMA HeadTask ==
    ASSUME IInv, NEW h \in HwChannels, queue[h] # <<>>, run[h].state = "idle",
           NEW c \in ChansOf(h)
    PROVE  /\ Head(sent[c]) \in TaskSet /\ Match(Head(queue[h]), Head(sent[c]))
           /\ TaskOK(c, Head(sent[c]), written)
<1>1. c \in Chans /\ Valid(c) /\ HwOf(c) = h /\ sent[c] # <<>>
  BY TheChannel
<1>2. /\ ChannelTasks(c, queue, run, sent, written)
      /\ queue[h] \in Seq(Entries) /\ sent[c] \in Seq(TaskSet)
  BY <1>1, TasksAre
<1>3. Running(run, h) = 0
  BY DEF Running
<1>4. /\ \A n \in 1..Len(queue[h]) : Match(queue[h][n], sent[c][n + 0])
      /\ \A n \in 1..Len(sent[c]) : TaskOK(c, sent[c][n], written)
  BY <1>1, <1>2, <1>3 DEF ChannelTasks
<1>5. /\ Head(queue[h]) = queue[h][1] /\ Len(queue[h]) \in Nat \ {0}
      /\ Head(sent[c]) = sent[c][1] /\ Len(sent[c]) \in Nat \ {0} /\ Head(sent[c]) \in TaskSet
  BY <1>1, <1>2, Shrunk
<1>6. 1 \in 1..Len(queue[h]) /\ 1 \in 1..Len(sent[c]) /\ 1 + 0 = 1
  BY <1>5
<1> QED BY <1>4, <1>5, <1>6

\* What a channel finds for a task is what the program wrote for it
LEMMA FoundForTask ==
    ASSUME IInv, NEW c \in Chans, Valid(c), NEW t \in TaskSet, TaskOK(c, t, written),
           NEW e, Match(e, t), t.job # 0
    PROVE  /\ e.bd \in HwPool(HwOf(c)) /\ HwBd(HwOf(c), e.bd) \in DOMAIN bds
           /\ bds[HwBd(HwOf(c), e.bd)] = written[t.job]
<1> DEFINE j == t.job
<1>1. j \in Job /\ Chan(j) = c /\ PushOK(D(j), Ch(j), B(j)) /\ written[j] # NoBd
  BY DEF TaskOK, TaskSet
<1>2. e.bd = HwNumber(jobs[j])
  BY DEF Match
<1> HIDE DEF j
<1>3. on \in Platforms /\ D(j) \in Dirs /\ Ch(j) \in Nat /\ B(j) \in Nat
      /\ jobs[j] = <<D(j), Ch(j), B(j)>>
  BY <1>1, JobParts DEF IInv, StaticInv
<1>4. c = <<D(j), Ch(j)>>
  BY <1>1 DEF Chan
<1>5. HwHas(<<D(j), Ch(j), B(j)>>)
  BY <1>1, <1>3, PushExact
<1>6. HwNumber(<<D(j), Ch(j), B(j)>>) \in HwPool(HwOf(<<D(j), Ch(j)>>))
  BY <1>5 DEF HwHas
<1>7. BdAddr(D(j), Ch(j), B(j)) = HwBd(HwOf(<<D(j), Ch(j)>>), HwNumber(<<D(j), Ch(j), B(j)>>))
  BY <1>1, <1>3, BdFetched
<1>8. /\ BdAddr(D(j), Ch(j), B(j)) \in DOMAIN bds
      /\ bds[BdAddr(D(j), Ch(j), B(j))] = written[j]
  BY <1>1 DEF IInv, InvOf, BdsOf
<1> QED BY <1>2, <1>3, <1>4, <1>6, <1>7, <1>8 DEF j

LEMMA StartKeeps ==
    ASSUME IInv, NEW h \in HwChannels, Start(h)
    PROVE  IInvNext /\ on' = on /\ jobs' = jobs
<1> DEFINE n == Head(queue[h]).bd
           addr == HwBd(h, n)
           task == IF ChansOf(h) = {} THEN NoTask ELSE Head(sent[CHOOSE c \in ChansOf(h) : TRUE])
           found == IF n \in HwPool(h) /\ addr \in DOMAIN bds THEN bds[addr] ELSE NoBd
           meant == IF task.job = 0 THEN NoBd ELSE written[task.job]
           now == [state |-> "running", found |-> found, meant |-> meant]
<1>0. StaticInv /\ TypesOf(bds, queue, run, sent, set, written)
  BY DEF IInv, InvOf
<1>1. /\ queue[h] # <<>> /\ run[h].state = "idle"
      /\ run' = [run EXCEPT ![h] = now]
      /\ queue' = [queue EXCEPT ![h] = Tail(@)]
      /\ sent' = sent /\ done' = NoAnswer
      /\ UNCHANGED <<on, jobs, bds, ctl, stray, written, set, room, poll>>
  BY DEF Start, HwUnchanged
<1>2. task \in TaskSet /\ (meant # NoBd => found = meant) /\ found \in Contents /\ meant \in Contents
  <2>1. NoBd \in Contents /\ NoTask \in TaskSet /\ NoTask.job = 0
    BY DEF NoBd, Contents, NoTask, TaskSet
  <2>2. found \in Contents
    BY <1>0, <2>1 DEF TypesOf
  <2>3. CASE ChansOf(h) = {}
    <3>1. task = NoTask
      BY <2>3
    <3>2. meant = NoBd
      BY <2>1, <3>1
    <3> HIDE DEF task, meant, found
    <3> QED BY <2>1, <2>2, <3>1, <3>2
  <2>4. CASE ChansOf(h) # {}
    <3>1. PICK c \in ChansOf(h) : c = CHOOSE e \in ChansOf(h) : TRUE
      BY <2>4
    <3>2. task = Head(sent[c])
      BY <2>4, <3>1
    <3>3. c \in Chans /\ Valid(c) /\ HwOf(c) = h
      BY TheChannel
    <3>4. Head(sent[c]) \in TaskSet /\ Match(Head(queue[h]), Head(sent[c])) /\ TaskOK(c, Head(sent[c]), written)
      BY <1>1, HeadTask
    <3> HIDE DEF task
    <3>5. task \in TaskSet /\ Match(Head(queue[h]), task) /\ TaskOK(c, task, written)
      BY <3>2, <3>4
    <3>6. CASE task.job = 0
      <4>1. meant = NoBd
        BY <3>6
      <4> HIDE DEF meant, found
      <4> QED BY <2>1, <2>2, <3>5, <4>1
    <3>7. CASE task.job # 0
      <4>1. n \in HwPool(h) /\ addr \in DOMAIN bds /\ bds[addr] = written[task.job]
        BY <3>3, <3>5, <3>7, FoundForTask
      <4>2. found = written[task.job] /\ meant = written[task.job]
        BY <3>7, <4>1
      <4> HIDE DEF found, meant
      <4> QED BY <2>2, <3>5, <4>2
    <3> QED BY <3>6, <3>7
  <2> QED BY <2>3, <2>4
<1> HIDE DEF task, found, meant
<1>3. now \in Runs /\ now.state = "running" /\ now.found = found /\ now.meant = meant
  BY <1>2 DEF Runs
<1> HIDE DEF now
<1>4. Shrinks(Tail(queue[h]), queue[h], Entries)
  BY <1>0, <1>1, Shrunk DEF TypesOf
<1>5. /\ queue'[h] = Tail(queue[h]) /\ run'[h] = now
      /\ \A g \in HwChannels : g # h => queue'[g] = queue[g] /\ run'[g] = run[g]
  BY <1>0, <1>1 DEF TypesOf
<1>6. TypesOf(bds', queue', run', sent', set', written')
  <2>1. queue' \in [HwChannels -> Seq(Entries)]
    BY <1>0, <1>1, <1>4 DEF TypesOf, Shrinks
  <2>2. run' \in [HwChannels -> Runs]
    BY <1>0, <1>1, <1>3 DEF TypesOf
  <2> QED BY <1>0, <1>1, <2>1, <2>2 DEF TypesOf
<1>7. ASSUME NEW c \in Chans, Valid(c)
      PROVE  ChannelTasks(c, queue', run', sent', written') /\ Len(queue'[HwOf(c)]) <= Len(queue[HwOf(c)])
  <2>0. /\ ChannelTasks(c, queue, run, sent, written) /\ HwOf(c) \in HwChannels
        /\ Len(queue[HwOf(c)]) \in Nat
    BY <1>7, TasksAre
  <2>1. CASE HwOf(c) # h
    <3>1. queue'[HwOf(c)] = queue[HwOf(c)] /\ run'[HwOf(c)] = run[HwOf(c)]
      BY <1>5, <2>0, <2>1
    <3>2. Running(run', HwOf(c)) = Running(run, HwOf(c))
      BY <3>1 DEF Running
    <3>3. ChannelTasks(c, queue', run', sent', written')
      BY <1>1, <2>0, <3>1, <3>2 DEF ChannelTasks
    <3> QED BY <2>0, <3>1, <3>3
  <2>2. CASE HwOf(c) = h
    <3>1. Running(run, h) = 0 /\ Running(run', h) = 1
      BY <1>1, <1>3, <1>5 DEF Running
    <3>2. /\ Len(queue[h]) <= HwQueueMax
          /\ Len(sent[c]) = Len(queue[h]) + 0
          /\ \A m \in 1..Len(queue[h]) : Match(queue[h][m], sent[c][m + 0])
          /\ \A m \in 1..Len(sent[c]) : TaskOK(c, sent[c][m], written)
      BY <2>0, <2>2, <3>1 DEF ChannelTasks
    <3> DEFINE q == queue[h]
               p == queue'[h]
    <3>3. /\ Len(p) = Len(q) - 1 /\ \A m \in 1..Len(p) : p[m] = q[m + 1]
      BY <1>4, <1>5 DEF Shrinks
    <3>4. q \in Seq(Entries) /\ Len(q) \in Nat
      BY <1>0 DEF TypesOf
    <3> HIDE DEF p, q
    <3>5. ASSUME NEW m \in 1..Len(p)
          PROVE  Match(p[m], sent[c][m + 1])
      <4>1. m + 1 \in 1..Len(q) /\ m + 1 + 0 = m + 1
        BY <3>3, <3>4
      <4>2. Match(q[m + 1], sent[c][m + 1])
        BY <3>2, <4>1 DEF q
      <4> QED BY <3>3, <4>2
    <3>6. Len(p) <= HwQueueMax /\ Len(p) <= Len(q) /\ Len(sent[c]) = Len(p) + 1
      <4>1. Len(q) <= HwQueueMax /\ Len(sent[c]) = Len(q) + 0
        BY <3>2 DEF q
      <4> QED BY <3>3, <3>4, <4>1, QueueLimit
    <3>7. ChannelTasks(c, queue', run', sent', written')
      BY <1>1, <2>2, <3>1, <3>2, <3>5, <3>6 DEF ChannelTasks, p
    <3> QED BY <2>2, <3>6, <3>7 DEF p, q
  <2> QED BY <2>1, <2>2
<1>8. TasksOf(queue', run', sent', written')
  BY <1>1, <1>7 DEF IInv, InvOf, TasksOf
<1>9. RoomOf(room', queue')
  <2>1. SUFFICES ASSUME NEW c \in room
                 PROVE  c \in Chans /\ Valid(c) /\ Len(queue'[HwOf(c)]) < HwQueueMax
    BY <1>1 DEF RoomOf
  <2>2. c \in Chans /\ Valid(c) /\ Len(queue[HwOf(c)]) < HwQueueMax
    BY DEF IInv, InvOf, RoomOf
  <2>3. HwOf(c) \in HwChannels /\ queue'[HwOf(c)] \in Seq(Entries) /\ queue[HwOf(c)] \in Seq(Entries)
    BY <1>0, <1>6, <2>2, Own DEF TypesOf
  <2> DEFINE l == Len(queue[HwOf(c)])
             m == Len(queue'[HwOf(c)])
  <2>4. l \in Nat /\ m \in Nat /\ m <= l /\ l < HwQueueMax
    BY <1>7, <2>2, <2>3
  <2> HIDE DEF l, m
  <2>5. m < HwQueueMax
    BY <2>4, QueueLimit
  <2> QED BY <2>2, <2>5 DEF m
<1>10. FetchOf(run')
  BY <1>2, <1>3, <1>5 DEF IInv, InvOf, FetchOf
<1> QED BY <1>1, <1>6, <1>8, <1>9, <1>10, NoAnswerRight DEF IInv, InvOf, IInvNext

\* A channel that stalls or resumes keeps its task in hand
LEMMA StallKeeps ==
    ASSUME IInv, NEW h \in HwChannels, Resume(h) \/ \E s \in Stalls : Stall(h, s)
    PROVE  IInvNext /\ on' = on /\ jobs' = jobs
<1>0. TypesOf(bds, queue, run, sent, set, written)
  BY DEF IInv, InvOf
<1>1. "idle" \notin Stalls
  BY StallsAssumption
<1>2. PICK s \in Stalls \cup {"running"} : run' = [run EXCEPT ![h].state = s]
  BY DEF Stall, Resume
<1>3. /\ run[h].state # "idle" /\ s # "idle"
      /\ done' = NoAnswer
      /\ UNCHANGED <<on, jobs, bds, ctl, queue, stray, written, sent, set, room, poll>>
  BY <1>1 DEF Stall, Resume, HwUnchanged
<1>4. run[h] \in Runs
  BY <1>0 DEF TypesOf
<1>5. /\ run'[h] \in Runs /\ run'[h].state = s
      /\ run'[h].found = run[h].found /\ run'[h].meant = run[h].meant
      /\ \A g \in HwChannels : g # h => run'[g] = run[g]
      /\ run' \in [HwChannels -> Runs]
  BY <1>0, <1>2, <1>4 DEF TypesOf, Runs
<1>6. ASSUME NEW g \in HwChannels
      PROVE  Running(run', g) = Running(run, g)
  <2>1. CASE g = h
    BY <1>3, <1>5, <2>1 DEF Running
  <2>2. CASE g # h
    BY <1>5, <2>2 DEF Running
  <2> QED BY <2>1, <2>2
<1>7. TypesOf(bds', queue', run', sent', set', written')
  BY <1>0, <1>3, <1>5 DEF TypesOf
<1>8. TasksOf(queue', run', sent', written')
  <2>1. SUFFICES ASSUME NEW c \in Chans
                 PROVE  IF Valid(c) THEN ChannelTasks(c, queue, run', sent, written)
                        ELSE sent[c] = <<>>
    BY <1>3 DEF TasksOf
  <2>2. CASE Valid(c)
    <3>1. ChannelTasks(c, queue, run, sent, written) /\ HwOf(c) \in HwChannels
      BY <2>2, TasksAre
    <3>2. Running(run', HwOf(c)) = Running(run, HwOf(c))
      BY <1>6, <3>1
    <3> QED BY <2>2, <3>1, <3>2 DEF ChannelTasks
  <2>3. CASE ~Valid(c)
    BY <2>3 DEF IInv, InvOf, TasksOf
  <2> QED BY <2>2, <2>3
<1>9. FetchOf(run')
  <2>1. FetchOf(run)
    BY DEF IInv, InvOf
  <2>2. ASSUME NEW g \in HwChannels
        PROVE  run'[g].meant # NoBd => run'[g].found = run'[g].meant
    <3>1. run'[g].found = run[g].found /\ run'[g].meant = run[g].meant
      BY <1>5
    <3> QED BY <2>1, <3>1 DEF FetchOf
  <2> QED BY <2>2 DEF FetchOf
<1> QED BY <1>3, <1>7, <1>8, <1>9, NoAnswerRight DEF IInv, InvOf, IInvNext

LEMMA CompleteKeeps ==
    ASSUME IInv, NEW h \in HwChannels, Complete(h)
    PROVE  IInvNext /\ on' = on /\ jobs' = jobs
<1>0. StaticInv /\ TypesOf(bds, queue, run, sent, set, written)
  BY DEF IInv, InvOf
<1>1. /\ run[h].state = "running"
      /\ run' = [run EXCEPT ![h] = Idle]
      /\ sent' = [c \in Chans |-> IF c \in ChansOf(h) THEN Tail(sent[c]) ELSE sent[c]]
      /\ done' = NoAnswer
      /\ UNCHANGED <<on, jobs, bds, ctl, queue, stray, written, set, room, poll>>
  BY DEF Complete, HwUnchanged
<1>2. /\ Idle \in Runs /\ Idle.state = "idle" /\ Idle.meant = NoBd
  BY DEF Idle, Runs, Contents, NoBd
<1>3. /\ run'[h] = Idle /\ \A g \in HwChannels : g # h => run'[g] = run[g]
      /\ run' \in [HwChannels -> Runs]
  BY <1>0, <1>1, <1>2 DEF TypesOf
<1>4. ASSUME NEW c \in Chans, c \in ChansOf(h)
      PROVE  Shrinks(sent'[c], sent[c], TaskSet)
  <2>1. sent[c] # <<>> /\ sent[c] \in Seq(TaskSet)
    BY <1>0, <1>4 DEF ChansOf, TypesOf
  <2>2. sent'[c] = Tail(sent[c])
    BY <1>1, <1>4
  <2> QED BY <2>1, <2>2, Shrunk
<1>5. ASSUME NEW c \in Chans, c \notin ChansOf(h)
      PROVE  sent'[c] = sent[c]
  BY <1>1, <1>5
<1>6. TypesOf(bds', queue', run', sent', set', written')
  <2>1. \A c \in Chans : sent'[c] \in Seq(TaskSet)
    BY <1>0, <1>4, <1>5 DEF TypesOf, Shrinks
  <2>2. sent' \in [Chans -> Seq(TaskSet)]
    <3>1. sent' = [c \in Chans |-> sent'[c]]
      BY <1>1
    <3> QED BY <2>1, <3>1
  <2> QED BY <1>0, <1>1, <1>3, <2>2 DEF TypesOf
<1>7. ASSUME NEW c \in Chans
      PROVE  IF Valid(c) THEN ChannelTasks(c, queue', run', sent', written') ELSE sent'[c] = <<>>
  <2>1. CASE ~Valid(c)
    <3>1. sent[c] = <<>>
      BY <2>1 DEF IInv, InvOf, TasksOf
    <3>2. c \notin ChansOf(h)
      BY <3>1 DEF ChansOf
    <3> QED BY <1>5, <2>1, <3>1, <3>2
  <2>2. CASE Valid(c) /\ HwOf(c) # h
    <3>1. ChannelTasks(c, queue, run, sent, written) /\ HwOf(c) \in HwChannels
      BY <2>2, TasksAre
    <3>2. sent'[c] = sent[c]
      BY <1>5, <2>2 DEF ChansOf
    <3>3. Running(run', HwOf(c)) = Running(run, HwOf(c))
      BY <1>3, <2>2, <3>1 DEF Running
    <3>4. ChannelTasks(c, queue', run', sent', written')
      BY <1>1, <3>1, <3>2, <3>3 DEF ChannelTasks
    <3> QED BY <2>2, <3>4
  <2>3. CASE Valid(c) /\ HwOf(c) = h
    <3> DEFINE q == queue[h]
               s == sent[c]
               u == sent'[c]
    <3>1. Running(run, h) = 1 /\ Running(run', h) = 0
      BY <1>1, <1>2, <1>3 DEF Running
    <3>2. /\ Len(q) <= HwQueueMax /\ Len(s) = Len(q) + 1
          /\ \A m \in 1..Len(q) : Match(q[m], s[m + 1])
          /\ \A m \in 1..Len(s) : TaskOK(c, s[m], written)
          /\ q \in Seq(Entries) /\ s \in Seq(TaskSet) /\ Len(q) \in Nat
      BY <2>3, <3>1, TasksAre DEF ChannelTasks
    <3>3. c \in ChansOf(h)
      <4>1. s # <<>>
        BY <3>2
      <4> QED BY <2>3, <4>1 DEF ChansOf
    <3>4. Shrinks(u, s, TaskSet)
      BY <1>4, <3>3
    <3> HIDE DEF q, s, u
    <3>5. Len(u) = Len(q)
      BY <3>2, <3>4 DEF Shrinks
    <3>6. ASSUME NEW m \in 1..Len(q)
          PROVE  Match(q[m], u[m + 0])
      <4>1. m + 0 = m /\ u[m] = s[m + 1]
        BY <3>2, <3>4, <3>5 DEF Shrinks
      <4> QED BY <3>2, <4>1
    <3>7. ASSUME NEW m \in 1..Len(u)
          PROVE  TaskOK(c, u[m], written)
      <4>1. m + 1 \in 1..Len(s) /\ u[m] = s[m + 1]
        BY <3>2, <3>4, <3>5 DEF Shrinks
      <4> QED BY <3>2, <4>1
    <3>8. Len(u) = Len(q) + 0
      BY <3>2, <3>5
    <3>9. ChannelTasks(c, queue', run', sent', written')
      BY <1>1, <2>3, <3>1, <3>2, <3>6, <3>7, <3>8 DEF ChannelTasks, q, u
    <3> QED BY <2>3, <3>9
  <2> QED BY <2>1, <2>2, <2>3
<1>8. FetchOf(run')
  <2>1. FetchOf(run)
    BY DEF IInv, InvOf
  <2> QED BY <1>2, <1>3, <2>1 DEF FetchOf
<1> QED BY <1>1, <1>6, <1>7, <1>8, NoAnswerRight DEF IInv, InvOf, IInvNext, TasksOf

-----------------------------------------------------------------------------
(* The invariant.                                                          *)

LEMMA InitHolds ==
    ASSUME Init
    PROVE  IInv
<1>1. StaticInv /\ Chans = {Chan(i) : i \in Job}
  BY DEF Init, StaticInv, Chans
<1>2. <<>> \in Seq(Entries) /\ <<>> \in Seq(TaskSet) /\ Idle \in Runs /\ NoBd \in Contents
      /\ Idle.meant = NoBd /\ Idle.state = "idle"
  BY DEF Runs, Contents, Idle, NoBd
<1>3. TypesOf(bds, queue, run, sent, set, written)
  BY <1>2 DEF Init, TypesOf
<1>4. BdsOf(bds, written)
  BY DEF Init, BdsOf
<1>5. TasksOf(queue, run, sent, written)
  <2>1. SUFFICES ASSUME NEW c \in Chans
                 PROVE  IF Valid(c) THEN ChannelTasks(c, queue, run, sent, written)
                        ELSE sent[c] = <<>>
    BY DEF TasksOf
  <2>2. sent[c] = <<>>
    BY DEF Init
  <2>3. CASE Valid(c)
    <3>1. HwOf(c) \in HwChannels
      BY <1>1, <2>3, Own
    <3>2. queue[HwOf(c)] = <<>> /\ Running(run, HwOf(c)) = 0
      BY <1>2, <3>1 DEF Init, Running
    <3>3. ChannelTasks(c, queue, run, sent, written)
      BY <2>2, <3>2, QueueLimit DEF ChannelTasks
    <3> QED BY <2>3, <3>3
  <2> QED BY <2>2, <2>3
<1>6. CtlsOf(ctl, set)
  BY DEF Init, CtlsOf, CtlAt
<1>7. RoomOf(room, queue) /\ PollOf(poll) /\ ~stray
  BY DEF Init, RoomOf, PollOf
<1>8. FetchOf(run)
  BY <1>2 DEF Init, FetchOf
<1>9. AnswerOf(done, sent)
  BY NoAnswerRight DEF Init
<1> QED BY <1>1, <1>3, <1>4, <1>5, <1>6, <1>7, <1>8, <1>9 DEF IInv, InvOf

LEMMA StepHolds ==
    ASSUME IInv, [Next]_vars
    PROVE  IInv'
<1>0. on \in Platforms /\ Hw = HwChannels
  BY DEF IInv, InvOf, StaticInv, TypesOf, Hw
<1>1. SUFFICES IInvNext /\ on' = on /\ jobs' = jobs
  BY InvNext
<1>2. ASSUME NEW i \in Job,
             WriteBd(i) \/ UpdateBdLen(i) \/ UpdateBdAddr(i) \/ GetBdLen(i)
      PROVE  IInvNext /\ on' = on /\ jobs' = jobs
  BY <1>2, WriteBdKeeps, UpdateBdLenKeeps, UpdateBdAddrKeeps, GetBdLenKeeps
<1>3. M.StartQSizeMax \in Nat /\ M.MaxRepeatCount \in Nat
  BY <1>0, Tables DEF Small, MlMem, Aie4Tile, Aie4Mem, Aie4Shim
<1>4. ASSUME NEW i \in Job, NEW n \in {1, M.StartQSizeMax + 1}, PushBdToQueue(i, n)
      PROVE  IInvNext /\ on' = on /\ jobs' = jobs
  <2>1. n \in Nat
    BY <1>3
  <2> QED BY <1>4, <2>1, PushBdToQueueKeeps
<1>5. ASSUME NEW i \in Job, NEW r \in {0, M.MaxRepeatCount, M.MaxRepeatCount + 1}, NEW o \in BOOLEAN,
             SetStartQueue(i, r, o)
      PROVE  IInvNext /\ on' = on /\ jobs' = jobs
  <2>1. r \in Nat
    BY <1>3
  <2> QED BY <1>5, <2>1, SetStartQueueKeeps
<1>6. ASSUME NEW i \in Job, NEW v \in 0..1, ChannelReset(i, v)
      PROVE  IInvNext /\ on' = on /\ jobs' = jobs
  BY <1>6, ChannelResetKeeps
<1>7. ASSUME NEW i \in Job, NEW v \in 0..1,
             PauseStream(i, v) \/ PauseMem(i, v) \/ Enable(i, v) \/ WriteChannel(i) \/ WritePktType(i)
      PROVE  IInvNext /\ on' = on /\ jobs' = jobs
  BY <1>7, CtlCallsKeep
<1>8. ASSUME NEW i \in Job, GetPendingBdCount(i) \/ GetChannelStatus(i)
      PROVE  IInvNext /\ on' = on /\ jobs' = jobs
  BY <1>8, GetPendingBdCountKeeps, GetChannelStatusKeeps
<1>9. ASSUME NEW i \in Job, WaitForDone(i) \/ WaitForBdTaskQueue(i)
      PROVE  IInvNext /\ on' = on /\ jobs' = jobs
  BY <1>9, WaitsKeep
<1>10. ASSUME NEW v \in 0..1, ChannelResetAll(v)
       PROVE  IInvNext /\ on' = on /\ jobs' = jobs
  BY <1>10, ChannelResetAllKeeps
<1>11. CASE PollMatch \/ PollTimeout
  BY <1>11, EndWaitKeeps
<1>12. ASSUME NEW h \in HwChannels,
              Start(h) \/ Resume(h) \/ Complete(h) \/ \E s \in Stalls : Stall(h, s)
       PROVE  IInvNext /\ on' = on /\ jobs' = jobs
  BY <1>12, StartKeeps, StallKeeps, CompleteKeeps
<1>13. CASE UNCHANGED vars
  BY <1>13 DEF vars, IInv, IInvNext, InvOf
<1>14. ASSUME NEW i \in Job,
          \/ WriteBd(i) \/ UpdateBdLen(i) \/ UpdateBdAddr(i) \/ GetBdLen(i)
          \/ \E n \in {1, M.StartQSizeMax + 1} : PushBdToQueue(i, n)
          \/ \E r \in {0, M.MaxRepeatCount, M.MaxRepeatCount + 1}, o \in BOOLEAN : SetStartQueue(i, r, o)
          \/ \E v \in 0..1 : ChannelReset(i, v) \/ PauseStream(i, v) \/ PauseMem(i, v) \/ Enable(i, v)
          \/ WriteChannel(i) \/ WritePktType(i)
          \/ GetPendingBdCount(i) \/ GetChannelStatus(i)
          \/ WaitForDone(i) \/ WaitForBdTaskQueue(i)
       PROVE  IInvNext /\ on' = on /\ jobs' = jobs
  <2>1. 0 \in 0..1
    OBVIOUS
  <2> QED BY <1>2, <1>4, <1>5, <1>6, <1>7, <1>8, <1>9, <1>14, <2>1
<1>15. Next \/ UNCHANGED vars
  OBVIOUS
<1>16. CASE Next
  BY <1>0, <1>10, <1>11, <1>12, <1>14, <1>16 DEF Next
<1> QED BY <1>13, <1>15, <1>16

\* what the runs check of a state
LEMMA InvSays ==
    ASSUME IInv
    PROVE  FetchesWhatWasWritten /\ CallsReachTheirChannel /\ AnswersAreTrue
<1>0. StaticInv /\ Hw = HwChannels /\ DOMAIN queue = HwChannels
  BY DEF IInv, InvOf, TypesOf, Hw
<1>1. FetchesWhatWasWritten
  BY <1>0 DEF IInv, InvOf, FetchOf, FetchesWhatWasWritten
<1>2. RefusesExactlyTheRest
  BY <1>0, RefusesRight
<1>3. TasksReachTheirChannel
  <2>1. ~stray
    BY DEF IInv, InvOf
  <2>2. ASSUME NEW c \in Chans, ValidChannel(c[1], c[2])
        PROVE  LET h == HwOf(c) IN
               /\ Len(sent[c]) = Len(queue[h]) + (IF run[h].state = "idle" THEN 0 ELSE 1)
               /\ \A n \in 1..Len(queue[h]) :
                    LET task == sent[c][n + Len(sent[c]) - Len(queue[h])] IN
                    /\ queue[h][n].rep = task.rep
                    /\ queue[h][n].bd = IF task.job = 0 THEN 0 ELSE HwNumber(jobs[task.job])
    <3> DEFINE h == HwOf(c)
               r == Running(run, h)
               q == queue[h]
               s == sent[c]
    <3>1. Valid(c)
      BY <2>2 DEF Valid
    <3>2. /\ Len(s) = Len(q) + r /\ Len(q) \in Nat /\ r \in {0, 1}
          /\ \A n \in 1..Len(q) : Match(q[n], s[n + r])
      BY <3>1, TasksAre, RunningIs DEF ChannelTasks
    <3>3. r = IF run[h].state = "idle" THEN 0 ELSE 1
      BY DEF Running
    <3> HIDE DEF h, r, q, s
    <3>4. ASSUME NEW n \in 1..Len(q)
          PROVE  Match(q[n], s[n + Len(s) - Len(q)])
      <4>1. n + Len(s) - Len(q) = n + r
        BY <3>2
      <4> QED BY <3>2, <4>1
    <3> QED BY <3>2, <3>3, <3>4 DEF Match, h, q, s
  <2> QED BY <2>1, <2>2 DEF TasksReachTheirChannel
<1>4. SettingsReachTheirChannel
  BY DEF IInv, InvOf, CtlsOf, CtlAt, Ctl, Valid, SettingsReachTheirChannel
<1>5. DoneMeansDone /\ ReadersTellTheTruth
  BY DEF IInv, InvOf, AnswerOf, DoneMeansDone, ReadersTellTheTruth
<1>6. WaitedQueueHasRoom
  BY DEF IInv, InvOf, RoomOf, WaitedQueueHasRoom
<1> QED BY <1>1, <1>2, <1>3, <1>4, <1>5, <1>6 DEF CallsReachTheirChannel, AnswersAreTrue

\* The invariant holds of every program on every device
THEOREM Invariant == Spec => []IInv
<1>1. Init => IInv
  BY InitHolds
<1>2. IInv /\ [Next]_vars => IInv'
  BY StepHolds
<1> QED BY <1>1, <1>2, PTL DEF Spec

\* A channel runs with the descriptor the program last wrote for the task it
\* pushed: for any kind of tile and mode, any descriptors and channels
THEOREM Fetched == Spec => []FetchesWhatWasWritten
<1>1. IInv => FetchesWhatWasWritten
  BY InvSays
<1> QED BY <1>1, Invariant, PTL

\* Calls reach the channel they are for and no other, are refused exactly where
\* the hardware has no such channel or descriptor, and tasks stay in their order
THEOREM Reached == Spec => []CallsReachTheirChannel
<1>1. IInv => CallsReachTheirChannel
  BY InvSays
<1> QED BY <1>1, Invariant, PTL

\* A wait that ends well found the channel done or its queue with room, and the
\* readers return what is so
THEOREM Answered == Spec => []AnswersAreTrue
<1>1. IInv => AnswersAreTrue
  BY InvSays
<1> QED BY <1>1, Invariant, PTL

=============================================================================
