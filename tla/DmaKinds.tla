------------------------------- MODULE DmaKinds -------------------------------
(***************************************************************************)
(* A kind of tile is a pair <<generation, tile>>: the descriptor and channel *)
(* tables XAie_CfgInitialize selects for it through DevProp.DevMod, and what *)
(* an application sees of its resources.                                    *)
(***************************************************************************)
EXTENDS DmaTables

AllKinds ==
  {<<g, t>> : g \in {"AIE", "AIEML", "AIE2IPU", "AIE2P", "AIE2PS", "AIE4", "AIE4MDS"},
              t \in {"TILE", "MEM", "SHIM"}} \ {<<"AIE", "MEM">>}

Entry(word, prop, mod) == [word |-> word, prop |-> prop, mod |-> mod]

AieMods == [TILE |-> Entry(AieTileDmaWord, AieTileDmaProp, AieTileDmaMod),
            SHIM |-> Entry(AieShimDmaWord, AieShimDmaProp, AieShimDmaMod)]
AieMlMods == [TILE |-> Entry(AieMlTileDmaWord, AieMlTileDmaProp, AieMlTileDmaMod),
              MEM  |-> Entry(AieMlMemTileDmaWord, AieMlMemTileDmaProp, AieMlMemTileDmaMod),
              SHIM |-> Entry(AieMlShimDmaWord, AieMlShimDmaProp, AieMlShimDmaMod)]
Aie2IpuMods == [TILE |-> Entry(Aie2IpuTileDmaWord, Aie2IpuTileDmaProp, Aie2IpuTileDmaMod),
                MEM  |-> Entry(Aie2IpuMemTileDmaWord, Aie2IpuMemTileDmaProp, Aie2IpuMemTileDmaMod),
                SHIM |-> Entry(Aie2IpuShimDmaWord, Aie2IpuShimDmaProp, Aie2IpuShimDmaMod)]
Aie2PMods == [TILE |-> Entry(Aie2PTileDmaWord, Aie2PTileDmaProp, Aie2PTileDmaMod),
              MEM  |-> Entry(Aie2PMemTileDmaWord, Aie2PMemTileDmaProp, Aie2PMemTileDmaMod),
              SHIM |-> Entry(Aie2PShimDmaWord, Aie2PShimDmaProp, Aie2PShimDmaMod)]
Aie2PSMods == [TILE |-> Entry(Aie2PSTileDmaWord, Aie2PSTileDmaProp, Aie2PSTileDmaMod),
               MEM  |-> Entry(Aie2PSMemTileDmaWord, Aie2PSMemTileDmaProp, Aie2PSMemTileDmaMod),
               SHIM |-> Entry(Aie2PSShimDmaWord, Aie2PSShimDmaProp, Aie2PSShimDmaMod)]
Aie4Mods == [TILE |-> Entry(Aie4TileDmaWord, Aie4TileDmaProp, Aie4TileDmaMod),
             MEM  |-> Entry(Aie4MemTileDmaWord, Aie4MemTileDmaProp, Aie4MemTileDmaMod),
             SHIM |-> Entry(Aie4ShimDmaWord, Aie4ShimDmaProp, Aie4ShimDmaMod)]
Aie4MdsMods == [TILE |-> Entry(Aie4MdsTileDmaWord, Aie4MdsTileDmaProp, Aie4MdsTileDmaMod),
                MEM  |-> Entry(Aie4MdsMemTileDmaWord, Aie4MdsMemTileDmaProp, Aie4MdsMemTileDmaMod),
                SHIM |-> Entry(Aie4MdsShimDmaWord, Aie4MdsShimDmaProp, Aie4MdsShimDmaMod)]

DevMods == [AIE |-> AieMods, AIEML |-> AieMlMods, AIE2IPU |-> Aie2IpuMods, AIE2P |-> Aie2PMods,
            AIE2PS |-> Aie2PSMods, AIE4 |-> Aie4Mods, AIE4MDS |-> Aie4MdsMods]

\* DevProp.DevMod[TileType].DmaMod and its BdProp, of a kind k
Word(k) == DevMods[k[1]][k[2]].word
Prop(k) == DevMods[k[1]][k[2]].prop
Mod(k)  == DevMods[k[1]][k[2]].mod

IsAie4(k) == k[1] \in {"AIE4", "AIE4MDS"}
IsAie(k)  == k[1] = "AIE"

\* LockMod->LockValUpperBound
LockValUpperBound(k) == IF IsAie(k) THEN 1 ELSE 63

\* _XAie_GetMaxElementValue: the shim and memory tiles of an AIE4 device in
\* single-app mode show the registers of both applications
MaxElement(k, a, n) ==
  IF IsAie4(k) /\ a = "single" /\ k[2] \in {"MEM", "SHIM"} THEN 2 * n ELSE n
=============================================================================
