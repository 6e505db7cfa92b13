---------------------------- MODULE StreamTables ----------------------------
(***************************************************************************)
(* The stream switch tables of src/src/global/xaie*gbl_reginit.c, one set   *)
(* for each generation and kind of tile:                                    *)
(*   ...StrmMstr, ...StrmSlv   XAie_StrmPort: type of port -> <<number of   *)
(*               ports>> and, on AIE4, the number of the first port in the  *)
(*               switch of the tile and in the switch of one application    *)
(*               (255: not part of it). A type without ports is left out;   *)
(*   ...StrmSlaveSlot   the same for the slot registers of the slave ports; *)
(*   ...PortMap  XAie_StrmSwPortMap: what each physical port is, as runs    *)
(*               <<type, first number, how many>>;                          *)
(*   ...DetMerge the arbiters with deterministic merge, ArbConfigOffset in  *)
(*               words; the positions inside the words are left out;        *)
(*   ...StrmSw, ...StrmSw32b   XAie_StrmMod, the switch itself.             *)
(* The types of the 32 bit switch, _32B_x in the code, are x32B_x here. The *)
(* numbers 65, 88, 89 and 90 are the letters the code writes for the ports  *)
(* that are place holders.                                                  *)
(***************************************************************************)
EXTENDS Naturals

-----------------------------------------------------------------------------
(* AIE: xaiegbl_reginit.c *)

AieTileStrmMstr ==
  [CORE |-> <<2>>, DMA |-> <<2>>, CTRL |-> <<1>>, FIFO |-> <<2>>, SOUTH |-> <<4>>,
   WEST |-> <<4>>, NORTH |-> <<6>>, EAST |-> <<4>>]

AieTileStrmSlv ==
  [CORE |-> <<2>>, DMA |-> <<2>>, CTRL |-> <<1>>, FIFO |-> <<2>>, SOUTH |-> <<6>>,
   WEST |-> <<4>>, NORTH |-> <<4>>, EAST |-> <<4>>, TRACE |-> <<2>>]

AieShimStrmMstr ==
  [CTRL |-> <<1>>, FIFO |-> <<2>>, SOUTH |-> <<6>>, WEST |-> <<4>>, NORTH |-> <<6>>,
   EAST |-> <<4>>]

AieShimStrmSlv ==
  [CTRL |-> <<1>>, FIFO |-> <<2>>, SOUTH |-> <<8>>, WEST |-> <<4>>, NORTH |-> <<4>>,
   EAST |-> <<4>>, TRACE |-> <<1>>]

AieShimStrmSlaveSlot == AieShimStrmSlv

AieTileStrmSlaveSlot == AieTileStrmSlv

AieTileStrmSwMasterPortMap ==
  <<<<"CORE", 0, 2>>, <<"DMA", 0, 2>>, <<"CTRL", 0, 1>>, <<"FIFO", 0, 2>>,
   <<"SOUTH", 0, 4>>, <<"WEST", 0, 4>>, <<"NORTH", 0, 6>>, <<"EAST", 0, 4>>>>

AieTileStrmSwSlavePortMap ==
  <<<<"CORE", 0, 2>>, <<"DMA", 0, 2>>, <<"CTRL", 0, 1>>, <<"FIFO", 0, 2>>,
   <<"SOUTH", 0, 6>>, <<"WEST", 0, 4>>, <<"NORTH", 0, 4>>, <<"EAST", 0, 4>>,
   <<"TRACE", 0, 2>>>>

AieShimStrmSwMasterPortMap ==
  <<<<"CTRL", 0, 1>>, <<"FIFO", 0, 2>>, <<"SOUTH", 0, 6>>, <<"WEST", 0, 4>>,
   <<"NORTH", 0, 6>>, <<"EAST", 0, 4>>>>

AieShimStrmSwSlavePortMap ==
  <<<<"CTRL", 0, 1>>, <<"FIFO", 0, 2>>, <<"SOUTH", 0, 8>>, <<"WEST", 0, 4>>,
   <<"NORTH", 0, 4>>, <<"EAST", 0, 4>>, <<"TRACE", 0, 1>>>>

AieTileStrmSw ==
  [MaxMasterPhyPortId |-> 24, MaxSlavePhyPortId |-> 26, NumSlaveSlots |-> 4,
   DetMergeFeature |-> FALSE, PortVerify |-> "_XAie_StrmSwCheckPortValidity",
   MstrConfig |-> AieTileStrmMstr, SlvConfig |-> AieTileStrmSlv,
   SlvSlotConfig |-> AieTileStrmSlaveSlot, MasterPortMap |-> AieTileStrmSwMasterPortMap,
   SlavePortMap |-> AieTileStrmSwSlavePortMap]

AieShimStrmSw ==
  [MaxMasterPhyPortId |-> 22, MaxSlavePhyPortId |-> 23, NumSlaveSlots |-> 4,
   DetMergeFeature |-> FALSE, PortVerify |-> "_XAie_StrmSwCheckPortValidity",
   MstrConfig |-> AieShimStrmMstr, SlvConfig |-> AieShimStrmSlv,
   SlvSlotConfig |-> AieShimStrmSlaveSlot, MasterPortMap |-> AieShimStrmSwMasterPortMap,
   SlavePortMap |-> AieShimStrmSwSlavePortMap]

-----------------------------------------------------------------------------
(* AIE-ML: xaiemlgbl_reginit.c *)

AieMlTileStrmMstr ==
  [CORE |-> <<1>>, DMA |-> <<2>>, CTRL |-> <<1>>, FIFO |-> <<1>>, SOUTH |-> <<4>>,
   WEST |-> <<4>>, NORTH |-> <<6>>, EAST |-> <<4>>]

AieMlTileStrmSlv ==
  [CORE |-> <<1>>, DMA |-> <<2>>, CTRL |-> <<1>>, FIFO |-> <<1>>, SOUTH |-> <<6>>,
   WEST |-> <<4>>, NORTH |-> <<4>>, EAST |-> <<4>>, TRACE |-> <<2>>]

AieMlShimStrmMstr ==
  [CTRL |-> <<1>>, FIFO |-> <<1>>, SOUTH |-> <<6>>, WEST |-> <<4>>, NORTH |-> <<6>>,
   EAST |-> <<4>>]

AieMlShimStrmSlv ==
  [CTRL |-> <<1>>, FIFO |-> <<1>>, SOUTH |-> <<8>>, WEST |-> <<4>>, NORTH |-> <<4>>,
   EAST |-> <<4>>, TRACE |-> <<2>>]

AieMlMemTileStrmMstr == [DMA |-> <<6>>, CTRL |-> <<1>>, SOUTH |-> <<4>>, NORTH |-> <<6>>]

AieMlMemTileStrmSlv ==
  [DMA |-> <<6>>, CTRL |-> <<1>>, SOUTH |-> <<6>>, NORTH |-> <<4>>, TRACE |-> <<1>>]

AieMlShimStrmSlaveSlot ==
  [CTRL |-> <<1>>, FIFO |-> <<1>>, SOUTH |-> <<8>>, WEST |-> <<4>>, NORTH |-> <<4>>,
   EAST |-> <<4>>, TRACE |-> <<1>>]

AieMlTileStrmSlaveSlot ==
  [CORE |-> <<1>>, DMA |-> <<2>>, CTRL |-> <<1>>, FIFO |-> <<1>>, SOUTH |-> <<6>>,
   WEST |-> <<4>>, NORTH |-> <<4>>, EAST |-> <<4>>, TRACE |-> <<1>>]

AieMlMemTileStrmSlaveSlot == AieMlMemTileStrmSlv

AieMlTileStrmSwMasterPortMap ==
  <<<<"CORE", 0, 1>>, <<"DMA", 0, 2>>, <<"CTRL", 0, 1>>, <<"FIFO", 0, 1>>,
   <<"SOUTH", 0, 4>>, <<"WEST", 0, 4>>, <<"NORTH", 0, 6>>, <<"EAST", 0, 4>>>>

AieMlTileStrmSwSlavePortMap ==
  <<<<"CORE", 0, 1>>, <<"DMA", 0, 2>>, <<"CTRL", 0, 1>>, <<"FIFO", 0, 1>>,
   <<"SOUTH", 0, 6>>, <<"WEST", 0, 4>>, <<"NORTH", 0, 4>>, <<"EAST", 0, 4>>,
   <<"TRACE", 0, 2>>>>

AieMlShimStrmSwMasterPortMap ==
  <<<<"CTRL", 0, 1>>, <<"FIFO", 0, 1>>, <<"SOUTH", 0, 6>>, <<"WEST", 0, 4>>,
   <<"NORTH", 0, 6>>, <<"EAST", 0, 4>>>>

AieMlShimStrmSwSlavePortMap ==
  <<<<"CTRL", 0, 1>>, <<"FIFO", 0, 1>>, <<"SOUTH", 0, 8>>, <<"WEST", 0, 4>>,
   <<"NORTH", 0, 4>>, <<"EAST", 0, 4>>, <<"TRACE", 0, 1>>>>

AieMlMemTileStrmSwMasterPortMap ==
  <<<<"DMA", 0, 6>>, <<"CTRL", 0, 1>>, <<"SOUTH", 0, 4>>, <<"NORTH", 0, 6>>>>

AieMlMemTileStrmSwSlavePortMap ==
  <<<<"DMA", 0, 6>>, <<"CTRL", 0, 1>>, <<"SOUTH", 0, 6>>, <<"NORTH", 0, 4>>,
   <<"TRACE", 0, 1>>>>

AieMlTileStrmSwDetMerge == [NumArbitors |-> 2, NumPositions |-> 4, ArbConfigOffset |-> 4]

AieMlMemTileStrmSwDetMerge ==
  [NumArbitors |-> 2, NumPositions |-> 4, ArbConfigOffset |-> 4]

AieMlShimStrmSwDetMerge == [NumArbitors |-> 2, NumPositions |-> 4, ArbConfigOffset |-> 4]

AieMlTileStrmSw ==
  [MaxMasterPhyPortId |-> 22, MaxSlavePhyPortId |-> 24, NumSlaveSlots |-> 4,
   DetMergeFeature |-> TRUE, PortVerify |-> "_XAieMl_AieTile_StrmSwCheckPortValidity",
   MstrConfig |-> AieMlTileStrmMstr, SlvConfig |-> AieMlTileStrmSlv,
   SlvSlotConfig |-> AieMlTileStrmSlaveSlot, MasterPortMap |-> AieMlTileStrmSwMasterPortMap,
   SlavePortMap |-> AieMlTileStrmSwSlavePortMap, DetMerge |-> AieMlTileStrmSwDetMerge]

AieMlShimStrmSw ==
  [MaxMasterPhyPortId |-> 21, MaxSlavePhyPortId |-> 22, NumSlaveSlots |-> 4,
   DetMergeFeature |-> TRUE, PortVerify |-> "_XAieMl_ShimTile_StrmSwCheckPortValidity",
   MstrConfig |-> AieMlShimStrmMstr, SlvConfig |-> AieMlShimStrmSlv,
   SlvSlotConfig |-> AieMlShimStrmSlaveSlot, MasterPortMap |-> AieMlShimStrmSwMasterPortMap,
   SlavePortMap |-> AieMlShimStrmSwSlavePortMap, DetMerge |-> AieMlShimStrmSwDetMerge]

AieMlMemTileStrmSw ==
  [MaxMasterPhyPortId |-> 16, MaxSlavePhyPortId |-> 17, NumSlaveSlots |-> 4,
   DetMergeFeature |-> TRUE, PortVerify |-> "_XAieMl_MemTile_StrmSwCheckPortValidity",
   MstrConfig |-> AieMlMemTileStrmMstr, SlvConfig |-> AieMlMemTileStrmSlv,
   SlvSlotConfig |-> AieMlMemTileStrmSlaveSlot,
   MasterPortMap |-> AieMlMemTileStrmSwMasterPortMap,
   SlavePortMap |-> AieMlMemTileStrmSwSlavePortMap, DetMerge |-> AieMlMemTileStrmSwDetMerge]

-----------------------------------------------------------------------------
(* AIE2IPU: xaie2ipugbl_reginit.c *)

Aie2IpuTileStrmMstr == AieMlTileStrmMstr

Aie2IpuTileStrmSlv == AieMlTileStrmSlv

Aie2IpuShimStrmMstr == AieMlShimStrmMstr

Aie2IpuShimStrmSlv == AieMlShimStrmSlv

Aie2IpuMemTileStrmMstr == AieMlMemTileStrmMstr

Aie2IpuMemTileStrmSlv == AieMlMemTileStrmSlv

Aie2IpuShimStrmSlaveSlot == AieMlShimStrmSlaveSlot

Aie2IpuTileStrmSlaveSlot == AieMlTileStrmSlaveSlot

Aie2IpuMemTileStrmSlaveSlot == AieMlMemTileStrmSlv

Aie2IpuTileStrmSwMasterPortMap == AieMlTileStrmSwMasterPortMap

Aie2IpuTileStrmSwSlavePortMap == AieMlTileStrmSwSlavePortMap

Aie2IpuShimStrmSwMasterPortMap == AieMlShimStrmSwMasterPortMap

Aie2IpuShimStrmSwSlavePortMap == AieMlShimStrmSwSlavePortMap

Aie2IpuMemTileStrmSwMasterPortMap == AieMlMemTileStrmSwMasterPortMap

Aie2IpuMemTileStrmSwSlavePortMap == AieMlMemTileStrmSwSlavePortMap

Aie2IpuTileStrmSwDetMerge ==
  [NumArbitors |-> 2, NumPositions |-> 4, ArbConfigOffset |-> 4]

Aie2IpuMemTileStrmSwDetMerge ==
  [NumArbitors |-> 2, NumPositions |-> 4, ArbConfigOffset |-> 4]

Aie2IpuShimStrmSwDetMerge ==
  [NumArbitors |-> 2, NumPositions |-> 4, ArbConfigOffset |-> 4]

Aie2IpuTileStrmSw ==
  [MaxMasterPhyPortId |-> 22, MaxSlavePhyPortId |-> 24, NumSlaveSlots |-> 4,
   DetMergeFeature |-> TRUE, PortVerify |-> "_XAieMl_AieTile_StrmSwCheckPortValidity",
   MstrConfig |-> Aie2IpuTileStrmMstr, SlvConfig |-> Aie2IpuTileStrmSlv,
   SlvSlotConfig |-> Aie2IpuTileStrmSlaveSlot,
   MasterPortMap |-> Aie2IpuTileStrmSwMasterPortMap,
   SlavePortMap |-> Aie2IpuTileStrmSwSlavePortMap, DetMerge |-> Aie2IpuTileStrmSwDetMerge]

Aie2IpuShimStrmSw ==
  [MaxMasterPhyPortId |-> 21, MaxSlavePhyPortId |-> 22, NumSlaveSlots |-> 4,
   DetMergeFeature |-> TRUE, PortVerify |-> "_XAieMl_ShimTile_StrmSwCheckPortValidity",
   MstrConfig |-> Aie2IpuShimStrmMstr, SlvConfig |-> Aie2IpuShimStrmSlv,
   SlvSlotConfig |-> Aie2IpuShimStrmSlaveSlot,
   MasterPortMap |-> Aie2IpuShimStrmSwMasterPortMap,
   SlavePortMap |-> Aie2IpuShimStrmSwSlavePortMap, DetMerge |-> Aie2IpuShimStrmSwDetMerge]

Aie2IpuMemTileStrmSw ==
  [MaxMasterPhyPortId |-> 16, MaxSlavePhyPortId |-> 17, NumSlaveSlots |-> 4,
   DetMergeFeature |-> TRUE, PortVerify |-> "_XAieMl_MemTile_StrmSwCheckPortValidity",
   MstrConfig |-> Aie2IpuMemTileStrmMstr, SlvConfig |-> Aie2IpuMemTileStrmSlv,
   SlvSlotConfig |-> Aie2IpuMemTileStrmSlaveSlot,
   MasterPortMap |-> Aie2IpuMemTileStrmSwMasterPortMap,
   SlavePortMap |-> Aie2IpuMemTileStrmSwSlavePortMap,
   DetMerge |-> Aie2IpuMemTileStrmSwDetMerge]

-----------------------------------------------------------------------------
(* AIE2P: xaie2pgbl_reginit.c *)

Aie2PTileStrmMstr == AieMlTileStrmMstr

Aie2PTileStrmSlv == AieMlTileStrmSlv

Aie2PShimStrmMstr == AieMlShimStrmMstr

Aie2PShimStrmSlv == AieMlShimStrmSlaveSlot

Aie2PMemTileStrmMstr == AieMlMemTileStrmMstr

Aie2PMemTileStrmSlv == AieMlMemTileStrmSlv

Aie2PShimStrmSlaveSlot == AieMlShimStrmSlaveSlot

Aie2PTileStrmSlaveSlot == AieMlTileStrmSlaveSlot

Aie2PMemTileStrmSlaveSlot == AieMlMemTileStrmSlv

Aie2PTileStrmSwMasterPortMap == AieMlTileStrmSwMasterPortMap

Aie2PTileStrmSwSlavePortMap == AieMlTileStrmSwSlavePortMap

Aie2PShimStrmSwMasterPortMap == AieMlShimStrmSwMasterPortMap

Aie2PShimStrmSwSlavePortMap == AieMlShimStrmSwSlavePortMap

Aie2PMemTileStrmSwMasterPortMap == AieMlMemTileStrmSwMasterPortMap

Aie2PMemTileStrmSwSlavePortMap == AieMlMemTileStrmSwSlavePortMap

Aie2PTileStrmSwDetMerge == [NumArbitors |-> 2, NumPositions |-> 4, ArbConfigOffset |-> 4]

Aie2PMemTileStrmSwDetMerge ==
  [NumArbitors |-> 2, NumPositions |-> 4, ArbConfigOffset |-> 4]

Aie2PShimStrmSwDetMerge == [NumArbitors |-> 2, NumPositions |-> 4, ArbConfigOffset |-> 4]

Aie2PTileStrmSw ==
  [MaxMasterPhyPortId |-> 22, MaxSlavePhyPortId |-> 24, NumSlaveSlots |-> 4,
   DetMergeFeature |-> TRUE, PortVerify |-> "_XAieMl_AieTile_StrmSwCheckPortValidity",
   MstrConfig |-> Aie2PTileStrmMstr, SlvConfig |-> Aie2PTileStrmSlv,
   SlvSlotConfig |-> Aie2PTileStrmSlaveSlot, MasterPortMap |-> Aie2PTileStrmSwMasterPortMap,
   SlavePortMap |-> Aie2PTileStrmSwSlavePortMap, DetMerge |-> Aie2PTileStrmSwDetMerge]

Aie2PShimStrmSw ==
  [MaxMasterPhyPortId |-> 21, MaxSlavePhyPortId |-> 22, NumSlaveSlots |-> 4,
   DetMergeFeature |-> TRUE, PortVerify |-> "_XAieMl_ShimTile_StrmSwCheckPortValidity",
   MstrConfig |-> Aie2PShimStrmMstr, SlvConfig |-> Aie2PShimStrmSlv,
   SlvSlotConfig |-> Aie2PShimStrmSlaveSlot, MasterPortMap |-> Aie2PShimStrmSwMasterPortMap,
   SlavePortMap |-> Aie2PShimStrmSwSlavePortMap, DetMerge |-> Aie2PShimStrmSwDetMerge]

Aie2PMemTileStrmSw ==
  [MaxMasterPhyPortId |-> 16, MaxSlavePhyPortId |-> 17, NumSlaveSlots |-> 4,
   DetMergeFeature |-> TRUE, PortVerify |-> "_XAieMl_MemTile_StrmSwCheckPortValidity",
   MstrConfig |-> Aie2PMemTileStrmMstr, SlvConfig |-> Aie2PMemTileStrmSlv,
   SlvSlotConfig |-> Aie2PMemTileStrmSlaveSlot,
   MasterPortMap |-> Aie2PMemTileStrmSwMasterPortMap,
   SlavePortMap |-> Aie2PMemTileStrmSwSlavePortMap, DetMerge |-> Aie2PMemTileStrmSwDetMerge]

-----------------------------------------------------------------------------
(* AIE2PS: xaie2psgbl_reginit.c *)

Aie2PSTileStrmMstr == AieMlTileStrmMstr

Aie2PSTileStrmSlv == AieMlTileStrmSlv

Aie2PSShimStrmMstr ==
  [CTRL |-> <<1>>, FIFO |-> <<1>>, SOUTH |-> <<6>>, WEST |-> <<4>>, NORTH |-> <<6>>,
   EAST |-> <<4>>, UCTRLR |-> <<1>>]

Aie2PSShimStrmSlv ==
  [CTRL |-> <<1>>, FIFO |-> <<1>>, SOUTH |-> <<8>>, WEST |-> <<4>>, NORTH |-> <<4>>,
   EAST |-> <<4>>, TRACE |-> <<2>>, UCTRLR |-> <<1>>]

Aie2PSMemTileStrmMstr == AieMlMemTileStrmMstr

Aie2PSMemTileStrmSlv == AieMlMemTileStrmSlv

Aie2PSShimStrmSlaveSlot == AieMlShimStrmSlaveSlot

Aie2PSTileStrmSlaveSlot == AieMlTileStrmSlaveSlot

Aie2PSMemTileStrmSlaveSlot == AieMlMemTileStrmSlv

Aie2PSTileStrmSwMasterPortMap == AieMlTileStrmSwMasterPortMap

Aie2PSTileStrmSwSlavePortMap == AieMlTileStrmSwSlavePortMap

Aie2PSShimStrmSwMasterPortMap == AieMlShimStrmSwMasterPortMap

Aie2PSShimStrmSwSlavePortMap == AieMlShimStrmSwSlavePortMap

Aie2PSMemTileStrmSwMasterPortMap == AieMlMemTileStrmSwMasterPortMap

Aie2PSMemTileStrmSwSlavePortMap ==
  <<<<"DMA", 0, 6>>, <<"CTRL", 0, 1>>, <<"SOUTH", 0, 4>>, <<"NORTH", 0, 6>>,
   <<"TRACE", 0, 1>>>>

Aie2PSTileStrmSwDetMerge == [NumArbitors |-> 2, NumPositions |-> 4, ArbConfigOffset |-> 4]

Aie2PSMemTileStrmSwDetMerge ==
  [NumArbitors |-> 2, NumPositions |-> 4, ArbConfigOffset |-> 4]

Aie2PSShimStrmSwDetMerge == [NumArbitors |-> 2, NumPositions |-> 4, ArbConfigOffset |-> 4]

Aie2PSTileStrmSw ==
  [MaxMasterPhyPortId |-> 22, MaxSlavePhyPortId |-> 24, NumSlaveSlots |-> 4,
   DetMergeFeature |-> TRUE, PortVerify |-> "_XAie2PS_AieTile_StrmSwCheckPortValidity",
   MstrConfig |-> Aie2PSTileStrmMstr, SlvConfig |-> Aie2PSTileStrmSlv,
   SlvSlotConfig |-> Aie2PSTileStrmSlaveSlot,
   MasterPortMap |-> Aie2PSTileStrmSwMasterPortMap,
   SlavePortMap |-> Aie2PSTileStrmSwSlavePortMap, DetMerge |-> Aie2PSTileStrmSwDetMerge]

Aie2PSShimStrmSw ==
  [MaxMasterPhyPortId |-> 21, MaxSlavePhyPortId |-> 22, NumSlaveSlots |-> 4,
   DetMergeFeature |-> TRUE, PortVerify |-> "_XAie2PS_ShimTile_StrmSwCheckPortValidity",
   MstrConfig |-> Aie2PSShimStrmMstr, SlvConfig |-> Aie2PSShimStrmSlv,
   SlvSlotConfig |-> Aie2PSShimStrmSlaveSlot,
   MasterPortMap |-> Aie2PSShimStrmSwMasterPortMap,
   SlavePortMap |-> Aie2PSShimStrmSwSlavePortMap, DetMerge |-> Aie2PSShimStrmSwDetMerge]

Aie2PSMemTileStrmSw ==
  [MaxMasterPhyPortId |-> 16, MaxSlavePhyPortId |-> 17, NumSlaveSlots |-> 4,
   DetMergeFeature |-> TRUE, PortVerify |-> "_XAie2PS_MemTile_StrmSwCheckPortValidity",
   MstrConfig |-> Aie2PSMemTileStrmMstr, SlvConfig |-> Aie2PSMemTileStrmSlv,
   SlvSlotConfig |-> Aie2PSMemTileStrmSlaveSlot,
   MasterPortMap |-> Aie2PSMemTileStrmSwMasterPortMap,
   SlavePortMap |-> Aie2PSMemTileStrmSwSlavePortMap,
   DetMerge |-> Aie2PSMemTileStrmSwDetMerge]

-----------------------------------------------------------------------------
(* AIE4: xaie4gbl_reginit.c *)

Aie4TileStrmMstr ==
  [CORE |-> <<2, 0, 0>>, DMA |-> <<2, 2, 2>>, CTRL |-> <<1, 30, 14>>, SOUTH |-> <<6, 6, 6>>,
   WEST |-> <<4, 12, 255>>, NORTH |-> <<8, 16, 9>>, EAST |-> <<4, 24, 255>>,
   NORTH_CTRL |-> <<2, 28, 13>>, SWITCH_32b |-> <<1, 31, 15>>]

Aie4TileStrmSlv ==
  [CORE |-> <<1, 0, 0>>, DMA |-> <<2, 1, 1>>, SOUTH |-> <<8, 5, 5>>,
   WEST |-> <<4, 13, 255>>, NORTH |-> <<6, 17, 9>>, EAST |-> <<4, 23, 255>>,
   SOUTH_CTRL |-> <<2, 27, 12>>, SWITCH_32b |-> <<1, 29, 13>>]

Aie4TileStrmMstr32b ==
  [x32B_SOUTH |-> <<2, 0, 0>>, x32B_WEST |-> <<1, 2, 255>>, x32B_NORTH |-> <<2, 3, 1>>,
   x32B_EAST |-> <<1, 5, 255>>, x32B_SWITCH_512b |-> <<1, 6, 2>>]

Aie4TileStrmSlv32b ==
  [x32B_CTRL |-> <<1, 0, 0>>, x32B_TRACE |-> <<2, 1, 1>>, x32B_SOUTH |-> <<2, 3, 3>>,
   x32B_WEST |-> <<1, 5, 255>>, x32B_NORTH |-> <<2, 6, 4>>, x32B_EAST |-> <<1, 8, 255>>,
   x32B_SWITCH_512b |-> <<1, 9, 5>>]

Aie4MemTileStrmMstr ==
  [DMA |-> <<4, 0, 0>>, CTRL |-> <<1, 26, 12>>, SOUTH |-> <<2, 10, 4>>,
   NORTH |-> <<4, 16, 7>>, NORTH_CTRL |-> <<1, 24, 11>>, SWITCH_32b |-> <<1, 28, 13>>]

Aie4MemTileStrmSlv ==
  [DMA |-> <<5, 0, 0>>, SOUTH |-> <<2, 14, 6>>, NORTH |-> <<2, 22, 10>>,
   SOUTH_CTRL |-> <<1, 28, 13>>, SWITCH_32b |-> <<1, 30, 14>>]

Aie4MemTileStrmMstr32b ==
  [x32B_SOUTH |-> <<1, 0, 0>>, x32B_NORTH |-> <<1, 3, 1>>, x32B_SWITCH_512b |-> <<1, 6, 2>>]

Aie4MemTileStrmSlv32b ==
  [x32B_CTRL |-> <<1, 0, 0>>, x32B_TRACE |-> <<1, 2, 1>>, x32B_SOUTH |-> <<1, 4, 2>>,
   x32B_NORTH |-> <<1, 7, 3>>, x32B_SWITCH_512b |-> <<1, 10, 4>>]

Aie4ShimStrmMstr ==
  [DMA |-> <<1, 0, 0>>, CTRL |-> <<1, 28, 6>>, WEST |-> <<2, 12, 255>>,
   NORTH |-> <<2, 16, 2>>, EAST |-> <<2, 22, 255>>, NORTH_CTRL |-> <<1, 26, 5>>,
   SWITCH_32b |-> <<1, 30, 7>>, DMA_Trace |-> <<1, 1, 1>>]

Aie4ShimStrmSlv ==
  [DMA |-> <<2, 0, 0>>, WEST |-> <<2, 14, 255>>, NORTH |-> <<2, 18, 2>>,
   EAST |-> <<2, 22, 255>>, SWITCH_32b |-> <<1, 28, 5>>, DMA_CTRL |-> <<1, 26, 4>>]

Aie4ShimStrmMstr32b ==
  [x32B_WEST |-> <<1, 2, 255>>, x32B_NORTH |-> <<1, 3, 1>>, x32B_EAST |-> <<1, 5, 255>>,
   x32B_SWITCH_512b |-> <<1, 6, 2>>, x32B_UCTRLR |-> <<1, 0, 0>>]

Aie4ShimStrmSlv32b ==
  [x32B_CTRL |-> <<1, 0, 0>>, x32B_TRACE |-> <<1, 2, 1>>, x32B_WEST |-> <<1, 6, 255>>,
   x32B_NORTH |-> <<1, 7, 3>>, x32B_EAST |-> <<1, 9, 255>>,
   x32B_SWITCH_512b |-> <<1, 10, 4>>, x32B_UCTRLR |-> <<1, 4, 2>>]

Aie4TileStrmSlaveSlot ==
  [CORE |-> <<1>>, DMA |-> <<1>>, SOUTH |-> <<8>>, WEST |-> <<2>>, NORTH |-> <<4>>,
   EAST |-> <<2>>, SOUTH_CTRL |-> <<2>>, SWITCH_32b |-> <<1>>]

Aie4TileStrmSlaveSlot32b ==
  [x32B_CTRL |-> <<1>>, x32B_TRACE |-> <<2>>, x32B_SOUTH |-> <<2>>, x32B_WEST |-> <<1>>,
   x32B_NORTH |-> <<2>>, x32B_EAST |-> <<1>>, x32B_SWITCH_512b |-> <<1>>]

Aie4MemTileStrmSlaveSlot ==
  [DMA |-> <<5>>, SOUTH |-> <<2>>, NORTH |-> <<2>>, SOUTH_CTRL |-> <<1>>,
   SWITCH_32b |-> <<1>>]

Aie4MemTileStrmSlaveSlot32b ==
  [x32B_CTRL |-> <<1>>, x32B_SOUTH |-> <<1>>, x32B_NORTH |-> <<1>>,
   x32B_SWITCH_512b |-> <<1>>]

Aie4ShimStrmSlaveSlot ==
  [DMA |-> <<2>>, WEST |-> <<1>>, NORTH |-> <<2>>, EAST |-> <<1>>, SWITCH_32b |-> <<1>>,
   DMA_CTRL |-> <<1>>]

Aie4ShimStrmSlaveSlot32b ==
  [x32B_CTRL |-> <<1>>, x32B_TRACE |-> <<1>>, x32B_WEST |-> <<1>>, x32B_NORTH |-> <<1>>,
   x32B_EAST |-> <<1>>, x32B_SWITCH_512b |-> <<1>>, x32B_UCTRLR |-> <<1>>]

Aie4TileStrmSwMasterPortMap ==
  <<<<"CORE", 0, 2>>, <<"DMA", 0, 2>>, <<"FIFO", 0, 2>>, <<"SOUTH", 0, 2>>,
   <<"SOUTH", 88, 1>>, <<"SOUTH", 2, 2>>, <<"SOUTH", 89, 1>>, <<"WEST", 0, 4>>,
   <<"NORTH", 0, 8>>, <<"EAST", 0, 4>>, <<"NORTH_CTRL", 0, 2>>, <<"CTRL", 0, 1>>,
   <<"SWITCH_32b", 0, 1>>>>

Aie4TileStrmSwSlavePortMap ==
  <<<<"CORE", 0, 1>>, <<"DMA", 0, 2>>, <<"FIFO", 0, 2>>, <<"SOUTH", 0, 8>>,
   <<"WEST", 0, 4>>, <<"NORTH", 0, 2>>, <<"NORTH", 88, 1>>, <<"NORTH", 2, 2>>,
   <<"NORTH", 89, 1>>, <<"EAST", 0, 4>>, <<"SOUTH_CTRL", 0, 2>>, <<"SWITCH_32b", 0, 1>>>>

Aie4TileStrmSwMasterPortMap32b ==
  <<<<"x32B_SOUTH", 0, 2>>, <<"x32B_WEST", 0, 1>>, <<"x32B_NORTH", 0, 2>>,
   <<"x32B_EAST", 0, 1>>, <<"x32B_SWITCH_512b", 0, 1>>>>

Aie4TileStrmSwSlavePortMap32b ==
  <<<<"x32B_CTRL", 0, 1>>, <<"x32B_TRACE", 0, 2>>, <<"x32B_SOUTH", 0, 2>>,
   <<"x32B_WEST", 0, 1>>, <<"x32B_NORTH", 0, 2>>, <<"x32B_EAST", 0, 1>>,
   <<"x32B_SWITCH_512b", 0, 1>>>>

Aie4MemTileStrmSwMasterPortMap ==
  <<<<"DMA", 0, 8>>, <<"FIFO", 0, 2>>, <<"SOUTH", 0, 2>>, <<"SOUTH", 88, 1>>,
   <<"SOUTH", 2, 2>>, <<"SOUTH", 89, 1>>, <<"NORTH", 0, 8>>, <<"NORTH_CTRL", 0, 2>>,
   <<"CTRL", 0, 2>>, <<"SWITCH_32b", 0, 2>>>>

Aie4MemTileStrmSwSlavePortMap ==
  <<<<"DMA", 0, 5>>, <<"SS_PORT_TYPE_MAX", 5, 1>>, <<"DMA", 6, 5>>,
   <<"SS_PORT_TYPE_MAX", 11, 1>>, <<"FIFO", 0, 2>>, <<"SOUTH", 0, 2>>, <<"SOUTH", 88, 2>>,
   <<"SOUTH", 2, 2>>, <<"SOUTH", 90, 1>>, <<"SOUTH", 65, 1>>, <<"NORTH", 0, 2>>,
   <<"NORTH", 88, 1>>, <<"NORTH", 2, 2>>, <<"NORTH", 89, 1>>, <<"SOUTH_CTRL", 0, 2>>,
   <<"SWITCH_32b", 0, 2>>>>

Aie4MemTileStrmSwMasterPortMap32b ==
  <<<<"x32B_SOUTH", 0, 2>>, <<"x32B_WEST", 0, 1>>, <<"x32B_NORTH", 0, 2>>,
   <<"x32B_EAST", 0, 1>>, <<"x32B_SWITCH_512b", 0, 2>>>>

Aie4MemTileStrmSwSlavePortMap32b ==
  <<<<"CTRL", 0, 2>>, <<"TRACE", 0, 2>>, <<"SOUTH", 0, 2>>, <<"WEST", 0, 1>>,
   <<"NORTH", 0, 2>>, <<"EAST", 0, 1>>, <<"x32B_SWITCH_512b", 0, 2>>>>

Aie4ShimStrmSwMasterPortMap ==
  <<<<"DMA", 0, 4>>, <<"FIFO", 0, 2>>, <<"PL", 0, 6>>, <<"WEST", 0, 4>>, <<"NORTH", 0, 2>>,
   <<"NORTH", 88, 1>>, <<"NORTH", 2, 2>>, <<"NORTH", 89, 1>>, <<"EAST", 0, 4>>,
   <<"NORTH_CTRL", 0, 2>>, <<"CTRL", 0, 2>>, <<"SWITCH_32b", 0, 2>>>>

Aie4ShimStrmSwSlavePortMap ==
  <<<<"DMA", 0, 4>>, <<"FIFO", 0, 1>>, <<"FIFO", 5, 1>>, <<"WEST", 0, 4>>,
   <<"NORTH", 0, 4>>, <<"EAST", 0, 4>>, <<"DMA_CTRL", 0, 2>>, <<"SWITCH_32b", 0, 2>>>>

Aie4ShimStrmSwMasterPortMap32b ==
  <<<<"x32B_UCTRLR", 0, 2>>, <<"x32B_WEST", 0, 1>>, <<"x32B_NORTH", 0, 2>>,
   <<"x32B_EAST", 0, 1>>, <<"x32B_SWITCH_512b", 0, 2>>, <<"x32B_PL", 0, 2>>>>

Aie4ShimStrmSwSlavePortMap32b ==
  <<<<"x32B_CTRL", 0, 2>>, <<"x32B_TRACE", 0, 2>>, <<"x32B_UCTRLR", 0, 2>>,
   <<"x32B_WEST", 0, 1>>, <<"x32B_NORTH", 0, 2>>, <<"x32B_EAST", 0, 1>>,
   <<"x32B_SWITCH_512b", 0, 2>>, <<"x32B_PL", 0, 2>>>>

Aie4TileStrmSwDetMerge == [NumArbitors |-> 2, NumPositions |-> 4, ArbConfigOffset |-> 3]

Aie4MemTileStrmSwDetMerge ==
  [NumArbitors |-> 2, NumPositions |-> 4, ArbConfigOffset |-> 3]

Aie4ShimStrmSwDetMerge == [NumArbitors |-> 2, NumPositions |-> 4, ArbConfigOffset |-> 3]

Aie4TileStrmSw ==
  [MaxMasterPhyPortId |-> 31, MaxSlavePhyPortId |-> 29, NumSlaveSlots |-> 4,
   DetMergeFeature |-> TRUE, PortVerify |-> "_XAie4_AieTile_StrmSwCheckPortValidity",
   MstrConfig |-> Aie4TileStrmMstr, SlvConfig |-> Aie4TileStrmSlv,
   SlvSlotConfig |-> Aie4TileStrmSlaveSlot, MasterPortMap |-> Aie4TileStrmSwMasterPortMap,
   SlavePortMap |-> Aie4TileStrmSwSlavePortMap, DetMerge |-> Aie4TileStrmSwDetMerge]

Aie4TileStrmSw32b ==
  [MaxMasterPhyPortId |-> 6, MaxSlavePhyPortId |-> 9, NumSlaveSlots |-> 4,
   DetMergeFeature |-> FALSE, PortVerify |-> "_XAie4_StrmSw32bCheckPortValidity",
   MstrConfig |-> Aie4TileStrmMstr32b, SlvConfig |-> Aie4TileStrmSlv32b,
   SlvSlotConfig |-> Aie4TileStrmSlaveSlot32b,
   MasterPortMap |-> Aie4TileStrmSwMasterPortMap32b,
   SlavePortMap |-> Aie4TileStrmSwSlavePortMap32b]

Aie4ShimStrmSw ==
  [MaxMasterPhyPortId |-> 31, MaxSlavePhyPortId |-> 29, NumSlaveSlots |-> 4,
   DetMergeFeature |-> TRUE, PortVerify |-> "_XAie4_ShimTile_StrmSwCheckPortValidity",
   MstrConfig |-> Aie4ShimStrmMstr, SlvConfig |-> Aie4ShimStrmSlv,
   SlvSlotConfig |-> Aie4ShimStrmSlaveSlot, MasterPortMap |-> Aie4ShimStrmSwMasterPortMap,
   SlavePortMap |-> Aie4ShimStrmSwSlavePortMap, DetMerge |-> Aie4ShimStrmSwDetMerge]

Aie4ShimStrmSw32b ==
  [MaxMasterPhyPortId |-> 9, MaxSlavePhyPortId |-> 13, NumSlaveSlots |-> 4,
   DetMergeFeature |-> FALSE, PortVerify |-> "_XAie4_StrmSw32bCheckPortValidity",
   MstrConfig |-> Aie4ShimStrmMstr32b, SlvConfig |-> Aie4ShimStrmSlv32b,
   SlvSlotConfig |-> Aie4ShimStrmSlaveSlot32b,
   MasterPortMap |-> Aie4ShimStrmSwMasterPortMap32b,
   SlavePortMap |-> Aie4ShimStrmSwSlavePortMap32b]

Aie4MemTileStrmSw ==
  [MaxMasterPhyPortId |-> 29, MaxSlavePhyPortId |-> 31, NumSlaveSlots |-> 4,
   DetMergeFeature |-> TRUE, PortVerify |-> "_XAie4_MemTile_StrmSwCheckPortValidity",
   MstrConfig |-> Aie4MemTileStrmMstr, SlvConfig |-> Aie4MemTileStrmSlv,
   SlvSlotConfig |-> Aie4MemTileStrmSlaveSlot,
   MasterPortMap |-> Aie4MemTileStrmSwMasterPortMap,
   SlavePortMap |-> Aie4MemTileStrmSwSlavePortMap, DetMerge |-> Aie4MemTileStrmSwDetMerge]

Aie4MemTileStrmSw32b ==
  [MaxMasterPhyPortId |-> 7, MaxSlavePhyPortId |-> 11, NumSlaveSlots |-> 4,
   DetMergeFeature |-> FALSE, PortVerify |-> "_XAie4_StrmSw32bCheckPortValidity",
   MstrConfig |-> Aie4MemTileStrmMstr32b, SlvConfig |-> Aie4MemTileStrmSlv32b,
   SlvSlotConfig |-> Aie4MemTileStrmSlaveSlot32b,
   MasterPortMap |-> Aie4MemTileStrmSwMasterPortMap32b,
   SlavePortMap |-> Aie4MemTileStrmSwSlavePortMap32b]

-----------------------------------------------------------------------------
(* AIE4 MDS: xaie4mdsgbl_reginit.c *)

Aie4MdsTileStrmMstr ==
  [CORE |-> <<2, 0, 0>>, DMA |-> <<2, 2, 2>>, CTRL |-> <<1, 30, 14>>, SOUTH |-> <<4, 6, 6>>,
   WEST |-> <<2, 12, 255>>, NORTH |-> <<8, 16, 9>>, EAST |-> <<2, 24, 255>>,
   NORTH_CTRL |-> <<2, 28, 13>>, SWITCH_32b |-> <<1, 31, 15>>]

Aie4MdsTileStrmSlv ==
  [CORE |-> <<1, 0, 0>>, DMA |-> <<1, 1, 1>>, SOUTH |-> <<8, 5, 5>>,
   WEST |-> <<2, 13, 255>>, NORTH |-> <<4, 17, 9>>, EAST |-> <<2, 23, 255>>,
   SOUTH_CTRL |-> <<2, 27, 12>>, SWITCH_32b |-> <<1, 29, 13>>]

Aie4MdsTileStrmMstr32b == Aie4TileStrmMstr32b

Aie4MdsTileStrmSlv32b == Aie4TileStrmSlv32b

Aie4MdsMemTileStrmMstr == Aie4MemTileStrmMstr

Aie4MdsMemTileStrmSlv == Aie4MemTileStrmSlv

Aie4MdsMemTileStrmMstr32b == Aie4MemTileStrmMstr32b

Aie4MdsMemTileStrmSlv32b == Aie4MemTileStrmSlv32b

Aie4MdsShimStrmMstr == Aie4ShimStrmMstr

Aie4MdsShimStrmSlv == Aie4ShimStrmSlv

Aie4MdsShimStrmMstr32b == Aie4ShimStrmMstr32b

Aie4MdsShimStrmSlv32b == Aie4ShimStrmSlv32b

Aie4MdsTileStrmSlaveSlot == Aie4TileStrmSlaveSlot

Aie4MdsTileStrmSlaveSlot32b == Aie4TileStrmSlaveSlot32b

Aie4MdsMemTileStrmSlaveSlot == Aie4MemTileStrmSlaveSlot

Aie4MdsMemTileStrmSlaveSlot32b == Aie4MemTileStrmSlaveSlot32b

Aie4MdsShimStrmSlaveSlot ==
  [DMA |-> <<2>>, WEST |-> <<2>>, NORTH |-> <<2>>, EAST |-> <<2>>, SWITCH_32b |-> <<1>>,
   DMA_CTRL |-> <<1>>]

Aie4MdsShimStrmSlaveSlot32b == Aie4ShimStrmSlaveSlot32b

Aie4MdsTileStrmSwMasterPortMap == Aie4TileStrmSwMasterPortMap

Aie4MdsTileStrmSwSlavePortMap == Aie4TileStrmSwSlavePortMap

Aie4MdsTileStrmSwMasterPortMap32b == Aie4TileStrmSwMasterPortMap32b

Aie4MdsTileStrmSwSlavePortMap32b == Aie4TileStrmSwSlavePortMap32b

Aie4MdsMemTileStrmSwMasterPortMap == Aie4MemTileStrmSwMasterPortMap

Aie4MdsMemTileStrmSwSlavePortMap == Aie4MemTileStrmSwSlavePortMap

Aie4MdsMemTileStrmSwMasterPortMap32b == Aie4MemTileStrmSwMasterPortMap32b

Aie4MdsMemTileStrmSwSlavePortMap32b == Aie4MemTileStrmSwSlavePortMap32b

Aie4MdsShimStrmSwMasterPortMap == Aie4ShimStrmSwMasterPortMap

Aie4MdsShimStrmSwSlavePortMap == Aie4ShimStrmSwSlavePortMap

Aie4MdsShimStrmSwMasterPortMap32b == Aie4ShimStrmSwMasterPortMap32b

Aie4MdsShimStrmSwSlavePortMap32b == Aie4ShimStrmSwSlavePortMap32b

Aie4MdsTileStrmSwDetMerge ==
  [NumArbitors |-> 2, NumPositions |-> 4, ArbConfigOffset |-> 3]

Aie4MdsMemTileStrmSwDetMerge ==
  [NumArbitors |-> 2, NumPositions |-> 4, ArbConfigOffset |-> 3]

Aie4MdsShimStrmSwDetMerge ==
  [NumArbitors |-> 2, NumPositions |-> 4, ArbConfigOffset |-> 3]

Aie4MdsTileStrmSw ==
  [MaxMasterPhyPortId |-> 31, MaxSlavePhyPortId |-> 29, NumSlaveSlots |-> 4,
   DetMergeFeature |-> TRUE, PortVerify |-> "_XAie4_AieTile_StrmSwCheckPortValidity",
   MstrConfig |-> Aie4MdsTileStrmMstr, SlvConfig |-> Aie4MdsTileStrmSlv,
   SlvSlotConfig |-> Aie4MdsTileStrmSlaveSlot,
   MasterPortMap |-> Aie4MdsTileStrmSwMasterPortMap,
   SlavePortMap |-> Aie4MdsTileStrmSwSlavePortMap, DetMerge |-> Aie4MdsTileStrmSwDetMerge]

Aie4MdsTileStrmSw32b ==
  [MaxMasterPhyPortId |-> 6, MaxSlavePhyPortId |-> 9, NumSlaveSlots |-> 4,
   DetMergeFeature |-> FALSE, PortVerify |-> "_XAie4_StrmSw32bCheckPortValidity",
   MstrConfig |-> Aie4MdsTileStrmMstr32b, SlvConfig |-> Aie4MdsTileStrmSlv32b,
   SlvSlotConfig |-> Aie4MdsTileStrmSlaveSlot32b,
   MasterPortMap |-> Aie4MdsTileStrmSwMasterPortMap32b,
   SlavePortMap |-> Aie4MdsTileStrmSwSlavePortMap32b]

Aie4MdsShimStrmSw ==
  [MaxMasterPhyPortId |-> 31, MaxSlavePhyPortId |-> 29, NumSlaveSlots |-> 4,
   DetMergeFeature |-> TRUE, PortVerify |-> "_XAie4_ShimTile_StrmSwCheckPortValidity",
   MstrConfig |-> Aie4MdsShimStrmMstr, SlvConfig |-> Aie4MdsShimStrmSlv,
   SlvSlotConfig |-> Aie4MdsShimStrmSlaveSlot,
   MasterPortMap |-> Aie4MdsShimStrmSwMasterPortMap,
   SlavePortMap |-> Aie4MdsShimStrmSwSlavePortMap, DetMerge |-> Aie4MdsShimStrmSwDetMerge]

Aie4MdsShimStrmSw32b ==
  [MaxMasterPhyPortId |-> 9, MaxSlavePhyPortId |-> 13, NumSlaveSlots |-> 4,
   DetMergeFeature |-> FALSE, PortVerify |-> "_XAie4_StrmSw32bCheckPortValidity",
   MstrConfig |-> Aie4MdsShimStrmMstr32b, SlvConfig |-> Aie4MdsShimStrmSlv32b,
   SlvSlotConfig |-> Aie4MdsShimStrmSlaveSlot32b,
   MasterPortMap |-> Aie4MdsShimStrmSwMasterPortMap32b,
   SlavePortMap |-> Aie4MdsShimStrmSwSlavePortMap32b]

Aie4MdsMemTileStrmSw ==
  [MaxMasterPhyPortId |-> 29, MaxSlavePhyPortId |-> 31, NumSlaveSlots |-> 4,
   DetMergeFeature |-> TRUE, PortVerify |-> "_XAie4_MemTile_StrmSwCheckPortValidity",
   MstrConfig |-> Aie4MdsMemTileStrmMstr, SlvConfig |-> Aie4MdsMemTileStrmSlv,
   SlvSlotConfig |-> Aie4MdsMemTileStrmSlaveSlot,
   MasterPortMap |-> Aie4MdsMemTileStrmSwMasterPortMap,
   SlavePortMap |-> Aie4MdsMemTileStrmSwSlavePortMap,
   DetMerge |-> Aie4MdsMemTileStrmSwDetMerge]

Aie4MdsMemTileStrmSw32b ==
  [MaxMasterPhyPortId |-> 7, MaxSlavePhyPortId |-> 11, NumSlaveSlots |-> 4,
   DetMergeFeature |-> FALSE, PortVerify |-> "_XAie4_StrmSw32bCheckPortValidity",
   MstrConfig |-> Aie4MdsMemTileStrmMstr32b, SlvConfig |-> Aie4MdsMemTileStrmSlv32b,
   SlvSlotConfig |-> Aie4MdsMemTileStrmSlaveSlot32b,
   MasterPortMap |-> Aie4MdsMemTileStrmSwMasterPortMap32b,
   SlavePortMap |-> Aie4MdsMemTileStrmSwSlavePortMap32b]
=============================================================================
