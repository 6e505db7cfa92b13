------------------------------ MODULE DmaTables ------------------------------
(***************************************************************************)
(* The buffer descriptor tables of src/src/global/xaie*gbl_reginit.c, one   *)
(* set for each generation and kind of tile:                                *)
(*   ...DmaWord  the fields of each word (register) of the descriptor, word *)
(*               0 first; the position inside the word comes from the       *)
(*               generated register headers, which are not part of the      *)
(*               repository, so a field keeps its name and not its bits;    *)
(*   ...DmaProp  XAie_DmaBdProp: the limits of addresses, steps and wraps;  *)
(*   ...DmaMod   XAie_DmaChProp and XAie_DmaMod: descriptors, locks,        *)
(*               channels, the features that are available and the          *)
(*               functions the generation plugs in.                         *)
(* A shim address is 48 or 57 bits wide and its low register 32. The model  *)
(* gives the low register AddrLowBits bits and keeps the width of the high  *)
(* one.                                                                     *)
(***************************************************************************)
EXTENDS Naturals

AddrLowBits == 5

-----------------------------------------------------------------------------
(* AIE: xaiegbl_reginit.c *)

AieTileDmaWord ==
  << {"BaseAddr", "LckAcqEn_A", "LckAcqUseVal_A", "LckAcqVal_A", "LckId_A", "LckRelEn_A",
      "LckRelUseVal_A", "LckRelVal_A"},
     {"BaseAddr_B", "LckAcqEn_B", "LckAcqUseVal_B", "LckAcqVal_B", "LckId_B", "LckRelEn_B",
      "LckRelUseVal_B", "LckRelVal_B"},
     {"X_Incr", "X_Offset", "X_Wrap"},
     {"Y_Incr", "Y_Offset", "Y_Wrap"},
     {"PktId", "PktType"},
     {"BuffSelect", "CurrPtr"},
     {"BufferLen", "EnDoubleBuff", "EnIntrleaved", "EnPkt", "FifoMode", "IntrleaveCnt",
      "NxtBd", "UseNxtBd", "ValidBd"} >>

AieTileDmaProp ==
  [AddrAlign |-> 4, AddrAlignShift |-> 2, AddrMax |-> 65536, LenActualOffset |-> 1]

AieTileDmaMod ==
  [NumBds |-> 16, NumLocks |-> 16, NumAddrDim |-> 2, IdxOffset |-> 32, NumChannels |-> 2,
   ChIdxOffset |-> 8, ChStatusOffset |-> 16,
   features |-> {"DoubleBuffering", "InterleaveMode", "FifoMode"}, chfeatures |-> {},
   MaxRepeatCount |-> 0, StartQSizeMax |-> 4, DmaBdInit |-> "_XAie_TileDmaInit",
   SetLock |-> "_XAie_DmaSetLock", SetIntrleave |-> "_XAie_DmaSetInterleaveEnable",
   SetMultiDim |-> "_XAie_DmaSetMultiDim", SetBdIter |-> "_XAie_DmaSetBdIteration",
   WriteBd |-> "_XAie_TileDmaWriteBd", ReadBd |-> "_XAie_TileDmaReadBd",
   PendingBd |-> "_XAie_DmaGetPendingBdCount", WaitforDone |-> "_XAie_DmaWaitForDone",
   BdChValidity |-> "_XAie_DmaCheckBdChValidity", UpdateBdLen |-> "_XAie_DmaUpdateBdLen",
   UpdateBdAddr |-> "_XAie_DmaUpdateBdAddr",
   GetChannelStatus |-> "_XAie_DmaGetChannelStatus"]

AieShimDmaWord ==
  << {"AddrLow"},
     {"BufferLen"},
     {"AddrHigh", "LckAcqEn_A", "LckAcqUseVal_A", "LckAcqVal_A", "LckId_A", "LckRelEn_A",
      "LckRelUseVal_A", "LckRelVal_A", "NxtBd", "UseNxtBd", "ValidBd"},
     {"AxCache", "AxQos", "BurstLen", "SMID", "SecureAccess"},
     {"EnPkt", "PktId", "PktType"} >>

AieShimDmaProp ==
  [AddrAlign |-> 16, AddrAlignShift |-> 0, AddrMax |-> 2^(AddrLowBits + 16),
   LenActualOffset |-> 0]

AieShimDmaMod ==
  [NumBds |-> 16, NumLocks |-> 16, NumAddrDim |-> 0, IdxOffset |-> 20, NumChannels |-> 2,
   ChIdxOffset |-> 8, ChStatusOffset |-> 4, features |-> {}, chfeatures |-> {},
   MaxRepeatCount |-> 0, StartQSizeMax |-> 4, DmaBdInit |-> "_XAie_ShimDmaInit",
   SetLock |-> "_XAie_DmaSetLock", SetBdIter |-> "_XAie_DmaSetBdIteration",
   WriteBd |-> "_XAie_ShimDmaWriteBd", ReadBd |-> "_XAie_ShimDmaReadBd",
   PendingBd |-> "_XAie_DmaGetPendingBdCount", WaitforDone |-> "_XAie_DmaWaitForDone",
   BdChValidity |-> "_XAie_DmaCheckBdChValidity",
   UpdateBdLen |-> "_XAie_ShimDmaUpdateBdLen", UpdateBdAddr |-> "_XAie_ShimDmaUpdateBdAddr",
   GetChannelStatus |-> "_XAie_DmaGetChannelStatus",
   AxiBurstLenCheck |-> "_XAie_AxiBurstLenCheck"]

-----------------------------------------------------------------------------
(* AIE-ML: xaiemlgbl_reginit.c *)

AieMlMemTileDmaWord ==
  << {"BufferLen", "EnPkt", "OutofOrderBdId", "PktId", "PktType"},
     {"BaseAddr", "D0_PadBefore", "NxtBd", "UseNxtBd"},
     {"D0_StepSize", "D0_Wrap", "TlastSuppress"},
     {"D1_PadBefore", "D1_StepSize", "D1_Wrap"},
     {"D2_PadBefore", "D2_StepSize", "D2_Wrap", "EnCompression"},
     {"D0_PadAfter", "D1_PadAfter", "D2_PadAfter", "D3_StepSize"},
     {"IterCurr", "Iter_StepSize", "Iter_Wrap"},
     {"LckAcqEn", "LckAcqId", "LckAcqVal", "LckRelId", "LckRelVal", "ValidBd"} >>

AieMlMemTileDmaProp ==
  [AddrAlign |-> 4, AddrAlignShift |-> 2, AddrMax |-> 1572864, LenActualOffset |-> 0,
   StepSizeMax |-> 2^17 - 1, WrapMax |-> 2^10 - 1, IterStepSizeMax |-> 2^17 - 1,
   IterWrapMax |-> 2^6 - 1, IterCurrMax |-> 2^6 - 1]

AieMlMemTileDmaMod ==
  [NumBds |-> 48, NumLocks |-> 192, NumAddrDim |-> 4, IdxOffset |-> 32, NumChannels |-> 6,
   ChIdxOffset |-> 8, ChStatusOffset |-> 32,
   features |-> {"Compression", "Padding", "OutofOrderBdId", "EnTokenIssue", "RepeatCount", "TlastSuppress"},
   chfeatures |-> {"FoTMode", "ControllerId", "EnCompression", "EnOutOfOrder"},
   MaxRepeatCount |-> 256, StartQSizeMax |-> 4, DmaBdInit |-> "_XAieMl_MemTileDmaInit",
   SetLock |-> "_XAieMl_DmaSetLock", SetMultiDim |-> "_XAieMl_DmaSetMultiDim",
   SetBdIter |-> "_XAieMl_DmaSetBdIteration", WriteBd |-> "_XAieMl_MemTileDmaWriteBd",
   ReadBd |-> "_XAieMl_MemTileDmaReadBd", PendingBd |-> "_XAieMl_DmaGetPendingBdCount",
   WaitforDone |-> "_XAieMl_DmaWaitForDone",
   WaitforBdTaskQueue |-> "_XAieMl_DmaWaitForBdTaskQueue",
   BdChValidity |-> "_XAieMl_MemTileDmaCheckBdChValidity",
   UpdateBdLen |-> "_XAieMl_DmaUpdateBdLen", UpdateBdAddr |-> "_XAieMl_DmaUpdateBdAddr",
   GetChannelStatus |-> "_XAieMl_DmaGetChannelStatus"]

AieMlTileDmaWord ==
  << {"BaseAddr", "BufferLen"},
     {"EnCompression", "EnPkt", "OutofOrderBdId", "PktId", "PktType"},
     {"D0_StepSize", "D1_StepSize"},
     {"D0_Wrap", "D1_Wrap", "D2_StepSize"},
     {"IterCurr", "Iter_StepSize", "Iter_Wrap"},
     {"LckAcqEn", "LckAcqId", "LckAcqVal", "LckRelId", "LckRelVal", "NxtBd", "TlastSuppress",
      "UseNxtBd", "ValidBd"} >>

AieMlTileDmaProp ==
  [AddrAlign |-> 4, AddrAlignShift |-> 2, AddrMax |-> 131072, LenActualOffset |-> 0,
   StepSizeMax |-> 2^13 - 1, WrapMax |-> 2^8 - 1, IterStepSizeMax |-> 2^13 - 1,
   IterWrapMax |-> 2^6 - 1, IterCurrMax |-> 2^6 - 1]

AieMlTileDmaMod ==
  [NumBds |-> 16, NumLocks |-> 16, NumAddrDim |-> 3, IdxOffset |-> 32, NumChannels |-> 2,
   ChIdxOffset |-> 8, ChStatusOffset |-> 16,
   features |-> {"Compression", "OutofOrderBdId", "EnTokenIssue", "RepeatCount", "TlastSuppress"},
   chfeatures |-> {"FoTMode", "ControllerId", "EnCompression", "EnOutOfOrder"},
   MaxRepeatCount |-> 256, StartQSizeMax |-> 4, DmaBdInit |-> "_XAieMl_TileDmaInit",
   SetLock |-> "_XAieMl_DmaSetLock", SetMultiDim |-> "_XAieMl_DmaSetMultiDim",
   SetBdIter |-> "_XAieMl_DmaSetBdIteration", WriteBd |-> "_XAieMl_TileDmaWriteBd",
   ReadBd |-> "_XAieMl_TileDmaReadBd", PendingBd |-> "_XAieMl_DmaGetPendingBdCount",
   WaitforDone |-> "_XAieMl_DmaWaitForDone",
   WaitforBdTaskQueue |-> "_XAieMl_DmaWaitForBdTaskQueue",
   BdChValidity |-> "_XAieMl_DmaCheckBdChValidity",
   UpdateBdLen |-> "_XAieMl_DmaUpdateBdLen", UpdateBdAddr |-> "_XAieMl_DmaUpdateBdAddr",
   GetChannelStatus |-> "_XAieMl_DmaGetChannelStatus"]

AieMlShimDmaWord ==
  << {"BufferLen"},
     {"AddrLow"},
     {"AddrHigh", "EnPkt", "OutofOrderBdId", "PktId", "PktType"},
     {"D0_StepSize", "D0_Wrap", "SecureAccess"},
     {"BurstLen", "D1_StepSize", "D1_Wrap"},
     {"AxCache", "AxQos", "D2_StepSize", "SMID"},
     {"IterCurr", "Iter_StepSize", "Iter_Wrap"},
     {"LckAcqEn", "LckAcqId", "LckAcqVal", "LckRelId", "LckRelVal", "NxtBd", "TlastSuppress",
      "UseNxtBd", "ValidBd"} >>

AieMlShimDmaProp ==
  [AddrAlign |-> 4, AddrAlignShift |-> 0, AddrMax |-> 2^(AddrLowBits + 16),
   LenActualOffset |-> 0, StepSizeMax |-> 2^20 - 1, WrapMax |-> 2^10 - 1,
   IterStepSizeMax |-> 2^20 - 1, IterWrapMax |-> 2^6 - 1, IterCurrMax |-> 2^6 - 1]

AieMlShimDmaMod ==
  [NumBds |-> 16, NumLocks |-> 16, NumAddrDim |-> 3, IdxOffset |-> 32, NumChannels |-> 2,
   ChIdxOffset |-> 8, ChStatusOffset |-> 8,
   features |-> {"OutofOrderBdId", "EnTokenIssue", "RepeatCount", "TlastSuppress"},
   chfeatures |-> {"FoTMode", "ControllerId", "EnCompression", "EnOutOfOrder"},
   MaxRepeatCount |-> 256, StartQSizeMax |-> 4, DmaBdInit |-> "_XAieMl_ShimDmaInit",
   SetLock |-> "_XAieMl_DmaSetLock", SetMultiDim |-> "_XAieMl_DmaSetMultiDim",
   SetBdIter |-> "_XAieMl_DmaSetBdIteration", WriteBd |-> "_XAieMl_ShimDmaWriteBd",
   ReadBd |-> "_XAieMl_ShimDmaReadBd", PendingBd |-> "_XAieMl_DmaGetPendingBdCount",
   WaitforDone |-> "_XAieMl_DmaWaitForDone",
   WaitforBdTaskQueue |-> "_XAieMl_DmaWaitForBdTaskQueue",
   BdChValidity |-> "_XAieMl_DmaCheckBdChValidity",
   UpdateBdLen |-> "_XAieMl_ShimDmaUpdateBdLen",
   UpdateBdAddr |-> "_XAieMl_ShimDmaUpdateBdAddr",
   GetChannelStatus |-> "_XAieMl_DmaGetChannelStatus",
   AxiBurstLenCheck |-> "_XAieMl_AxiBurstLenCheck"]

-----------------------------------------------------------------------------
(* AIE2IPU: xaie2ipugbl_reginit.c *)

Aie2IpuMemTileDmaWord == AieMlMemTileDmaWord

Aie2IpuMemTileDmaProp == AieMlMemTileDmaProp

Aie2IpuMemTileDmaMod == AieMlMemTileDmaMod

Aie2IpuTileDmaWord == AieMlTileDmaWord

Aie2IpuTileDmaProp == AieMlTileDmaProp

Aie2IpuTileDmaMod == AieMlTileDmaMod

Aie2IpuShimDmaWord == AieMlShimDmaWord

Aie2IpuShimDmaProp == AieMlShimDmaProp

Aie2IpuShimDmaMod ==
  [AieMlShimDmaMod EXCEPT !.AxiBurstLenCheck = "_XAie_AxiBurstLenCheck"]

-----------------------------------------------------------------------------
(* AIE2P: xaie2pgbl_reginit.c *)

Aie2PMemTileDmaWord == AieMlMemTileDmaWord

Aie2PMemTileDmaProp == AieMlMemTileDmaProp

Aie2PMemTileDmaMod == AieMlMemTileDmaMod

Aie2PTileDmaWord == AieMlTileDmaWord

Aie2PTileDmaProp == AieMlTileDmaProp

Aie2PTileDmaMod == AieMlTileDmaMod

Aie2PShimDmaWord == AieMlShimDmaWord

Aie2PShimDmaProp == AieMlShimDmaProp

Aie2PShimDmaMod ==
  [AieMlShimDmaMod EXCEPT !.AxiBurstLenCheck = "_XAie2P_AxiBurstLenCheck"]

-----------------------------------------------------------------------------
(* AIE2PS: xaie2psgbl_reginit.c *)

Aie2PSMemTileDmaWord ==
  << {"BufferLen", "EnPkt", "OutofOrderBdId", "PktId", "PktType"},
     {"BaseAddr", "D0_PadBefore", "NxtBd", "UseNxtBd"},
     {"D0_StepSize", "D0_Wrap", "D1_PadBeforeHigh", "D2_PadBeforeHigh", "StepSize_Zero",
      "TlastSuppress"},
     {"D1_PadBefore", "D1_StepSize", "D1_Wrap"},
     {"D2_PadBefore", "D2_StepSize", "D2_Wrap", "EnCompression"},
     {"D0_PadAfter", "D1_PadAfter", "D2_PadAfter", "D3_StepSize"},
     {"D1_PadAfterHigh", "D2_PadAfterHigh", "IterCurr", "Iter_StepSize", "Iter_Wrap"},
     {"LckAcqEn", "LckAcqId", "LckAcqVal", "LckRelId", "LckRelVal", "ValidBd"} >>

Aie2PSMemTileDmaProp == AieMlMemTileDmaProp

Aie2PSMemTileDmaMod ==
  [AieMlMemTileDmaMod EXCEPT !.SetMultiDim = "_XAie2PS_DmaSetMultiDim",
                             !.WriteBd = "_XAie2PS_MemTileDmaWriteBd"]

Aie2PSTileDmaWord == AieMlTileDmaWord

Aie2PSTileDmaProp == AieMlTileDmaProp

Aie2PSTileDmaMod == AieMlTileDmaMod

Aie2PSShimDmaWord ==
  << {"BufferLen"},
     {"AddrLow"},
     {"AddrHigh", "EnPkt", "OutofOrderBdId", "PktId", "PktType"},
     {"D0_StepSize", "D0_Wrap", "SecureAccess"},
     {"BurstLen", "D1_StepSize", "D1_Wrap"},
     {"AxCache", "AxQos", "D2_StepSize"},
     {"IterCurr", "Iter_StepSize", "Iter_Wrap"},
     {"LckAcqEn", "LckAcqId", "LckAcqVal", "LckRelId", "LckRelVal", "NxtBd", "TlastSuppress",
      "UseNxtBd", "ValidBd"},
     {} >>

Aie2PSShimDmaProp == AieMlShimDmaProp

Aie2PSShimDmaMod ==
  [AieMlShimDmaMod EXCEPT !.IdxOffset = 48,
                          !.WriteBd = "_XAie2PS_ShimDmaWriteBd",
                          !.ReadBd = "_XAie2PS_ShimDmaReadBd",
                          !.UpdateBdAddr = "_XAie2PS_ShimDmaUpdateBdAddr",
                          !.AxiBurstLenCheck = "_XAie2PS_AxiBurstLenCheck"]

-----------------------------------------------------------------------------
(* AIE4: xaie4gbl_reginit.c *)

Aie4MemTileDmaWord ==
  << {"BaseAddr"},
     {"BufferLen", "LckAcqVal"},
     {"LckAcqEn", "LckAcqId", "LckRelId", "LckRelVal"},
     {"D1_StepSize"},
     {"D2_StepSize"},
     {"D3_StepSize"},
     {"Iter_StepSize", "TlastSuppress"},
     {"D0_PadAfter", "D0_PadBefore", "EnPkt", "IterCurr", "PktId"},
     {"D1_PadAfter", "D1_PadBefore", "D2_PadAfter", "D2_PadBefore"},
     {"D0_Wrap", "D1_Wrap", "OutofOrderBdId"},
     {"D2_Wrap", "Iter_Wrap", "NxtBd", "UseNxtBd"} >>

Aie4MemTileDmaProp ==
  [AddrAlign |-> 4, AddrAlignShift |-> 2, AddrMax |-> 58720256, LenActualOffset |-> 0,
   StepSizeMax |-> 2^23 - 1, WrapMax |-> 2^12 - 1, IterStepSizeMax |-> 2^23 - 1,
   IterWrapMax |-> 2^8 - 1, IterCurrMax |-> 2^8 - 1]

Aie4MemTileDmaMod ==
  [NumBds |-> 16, NumLocks |-> 960, NumAddrDim |-> 4, IdxOffset |-> 48, NumChannels |-> 4,
   NumMm2sChannels |-> 5, ChIdxOffset |-> 8, ChStatusOffset |-> 48,
   features |-> {"Padding", "OutofOrderBdId", "EnTokenIssue", "RepeatCount", "TlastSuppress"},
   chfeatures |-> {"FoTMode", "ControllerId", "EnOutOfOrder"}, MaxRepeatCount |-> 4096,
   StartQSizeMax |-> 16, DmaBdInit |-> "_XAie4_MemTileDmaInit",
   SetLock |-> "_XAie4_DmaSetLock", SetMultiDim |-> "_XAie4_DmaSetMultiDim",
   SetBdIter |-> "_XAie4_DmaSetBdIteration",
   WriteBdPvtBuffPool |-> "_XAie4_MemTileDmaWriteBdPvtBuffPool",
   ReadBdPvtBuffPool |-> "_XAie4_MemTileDmaReadBdPvtBuffPool",
   PendingBd |-> "_XAie4_DmaGetPendingBdCount", WaitforDone |-> "_XAie4_DmaWaitForDone",
   WaitforBdTaskQueue |-> "_XAie4_DmaWaitForBdTaskQueue",
   BdChValidity |-> "_XAieMl_DmaCheckBdChValidity",
   UpdateBdLenPvtBuffPool |-> "_XAie4_MemTileDmaUpdateBdLenPvtBuffPool",
   UpdateBdAddrPvtBuffPool |-> "_XAie4_MemTileDmaUpdateBdAddrPvtBuffPool",
   GetBdLenPvtBuffPool |-> "_XAie4_MemTileDmaGetBdLenPvtBuffPool",
   GetChannelStatus |-> "_XAie4_DmaGetChannelStatus"]

Aie4TileDmaWord ==
  << {"BaseAddr", "BufferLen"},
     {"EnPkt", "OutofOrderBdId", "PktId", "PktType"},
     {"D1_StepSize"},
     {"D0_Wrap", "D2_StepSize", "IterCurr"},
     {"D1_Wrap", "Iter_StepSize", "Iter_Wrap"},
     {"LckAcqEn", "LckAcqId", "LckAcqVal", "LckRelId", "LckRelVal", "NxtBd", "TlastSuppress",
      "UseNxtBd"} >>

Aie4TileDmaProp ==
  [AddrAlign |-> 4, AddrAlignShift |-> 2, AddrMax |-> 262144, LenActualOffset |-> 0,
   StepSizeMax |-> 2^15 - 1, WrapMax |-> 2^9 - 1, IterStepSizeMax |-> 2^14 - 1,
   IterWrapMax |-> 2^6 - 1, IterCurrMax |-> 2^6 - 1]

Aie4TileDmaMod ==
  [NumBds |-> 16, NumLocks |-> 64, NumAddrDim |-> 3, IdxOffset |-> 32, NumChannels |-> 2,
   NumMm2sChannels |-> 1, ChIdxOffset |-> 8, ChStatusOffset |-> 16,
   features |-> {"OutofOrderBdId", "EnTokenIssue", "RepeatCount", "TlastSuppress"},
   chfeatures |-> {"FoTMode", "ControllerId", "EnOutOfOrder"}, MaxRepeatCount |-> 4096,
   StartQSizeMax |-> 16, DmaBdInit |-> "_XAie4_TileDmaInit",
   SetLock |-> "_XAieMl_DmaSetLock", SetMultiDim |-> "_XAie4_DmaSetMultiDim",
   SetBdIter |-> "_XAie4_DmaSetBdIteration", WriteBd |-> "_XAie4_TileDmaWriteBd",
   ReadBd |-> "_XAie4_TileDmaReadBd", PendingBd |-> "_XAie4_DmaGetPendingBdCount",
   WaitforDone |-> "_XAie4_DmaWaitForDone",
   WaitforBdTaskQueue |-> "_XAie4_DmaWaitForBdTaskQueue",
   BdChValidity |-> "_XAieMl_DmaCheckBdChValidity",
   UpdateBdLen |-> "_XAie4_TileDmaUpdateBdLen",
   UpdateBdAddr |-> "_XAie4_TileDmaUpdateBdAddr", GetBdLen |-> "_XAie4_TileDmaGetBdLen",
   GetChannelStatus |-> "_XAie4_DmaGetChannelStatus"]

Aie4ShimDmaWord ==
  << {"AddrHigh", "AxUser", "KeyIdx"},
     {"AddrLow"},
     {"BufferLen"},
     {"BurstLen", "D1_Wrap", "D2_Wrap", "LckAcqEn", "LckAcqId"},
     {"D0_Wrap", "LckAcqVal", "LckRelId", "LckRelVal"},
     {"AxQos", "D1_StepSize", "EnPkt", "NxtBd", "UseNxtBd"},
     {"D2_StepSize", "DataReuse", "EnCompression", "IterCurr", "TlastSuppress"},
     {"AxCache", "Iter_StepSize", "Iter_Wrap"},
     {"D3_StepSize", "IOCoherence", "OutofOrderBdId", "PktId"} >>

CtrlMm2sProp  == [NumBds |-> 8, NumChannels |-> 1]
TraceS2mmProp == [NumBds |-> 4, NumChannels |-> 1]

Aie4ShimDmaProp ==
  [AddrAlign |-> 4, AddrAlignShift |-> 0, AddrMax |-> 2^(AddrLowBits + 25),
   LenActualOffset |-> 0, StepSizeMax |-> 2^22 - 1, WrapMax |-> 2^12 - 1,
   IterStepSizeMax |-> 2^22 - 1, IterWrapMax |-> 2^6 - 1, IterCurrMax |-> 2^8 - 1]

Aie4ShimDmaMod ==
  [NumBds |-> 16, NumLocks |-> 32, NumAddrDim |-> 4, IdxOffset |-> 48, NumChannels |-> 1,
   NumMm2sChannels |-> 2, ChIdxOffset |-> 8, ChStatusOffset |-> 16,
   features |-> {"Compression", "OutofOrderBdId", "EnTokenIssue", "RepeatCount", "TlastSuppress"},
   chfeatures |-> {"FoTMode", "ControllerId", "EnCompression", "EnOutOfOrder"},
   MaxRepeatCount |-> 4096, StartQSizeMax |-> 16, DmaBdInit |-> "_XAie4_ShimDmaInit",
   SetLock |-> "_XAieMl_DmaSetLock", SetMultiDim |-> "_XAie4_DmaSetMultiDim",
   SetBdIter |-> "_XAie4_DmaSetBdIteration", WriteBd |-> "_XAie4_ShimDmaWriteBd",
   ReadBd |-> "_XAie4_ShimDmaReadBd",
   WriteBdPvtBuffPool |-> "_XAie4_ShimDmaWriteBdPvtBuffPool",
   ReadBdPvtBuffPool |-> "_XAie4_ShimDmaReadBdPvtBuffPool",
   PendingBd |-> "_XAie4_DmaGetPendingBdCount", WaitforDone |-> "_XAie4_DmaWaitForDone",
   WaitforBdTaskQueue |-> "_XAie4_DmaWaitForBdTaskQueue",
   BdChValidity |-> "_XAie4_ShimTileDmaCheckBdChValidity",
   UpdateBdLen |-> "_XAie4_ShimTileDmaUpdateBdLen",
   UpdateBdAddr |-> "_XAie4_ShimTileDmaUpdateBdAddr",
   UpdateBdLenPvtBuffPool |-> "_XAie4_ShimTileDmaUpdateBdLenPvtBuffPool",
   UpdateBdAddrPvtBuffPool |-> "_XAie4_ShimTileDmaUpdateBdAddrPvtBuffPool",
   GetBdLen |-> "_XAie4_ShimTileDmaGetBdLen",
   GetBdLenPvtBuffPool |-> "_XAie4_ShimTileDmaGetBdLenPvtBuffPool",
   GetChannelStatus |-> "_XAie4_DmaGetChannelStatus",
   AxiBurstLenCheck |-> "_XAie4_AxiBurstLenCheck"]

-----------------------------------------------------------------------------
(* AIE4 MDS: xaie4mdsgbl_reginit.c *)

Aie4MdsMemTileDmaWord == Aie4MemTileDmaWord

Aie4MdsMemTileDmaProp == Aie4MemTileDmaProp

Aie4MdsMemTileDmaMod ==
  [Aie4MemTileDmaMod EXCEPT !.SetLock = "_XAieMl_DmaSetLock"]

Aie4MdsTileDmaWord == Aie4TileDmaWord

Aie4MdsTileDmaProp ==
  [Aie4TileDmaProp EXCEPT !.IterStepSizeMax = 2^15 - 1]

Aie4MdsTileDmaMod == Aie4TileDmaMod

Aie4MdsShimDmaWord == Aie4ShimDmaWord

Aie4MdsShimDmaProp == [Aie4ShimDmaProp EXCEPT !.IterCurrMax = 2^6 - 1]

Aie4MdsShimDmaMod ==
  [Aie4ShimDmaMod EXCEPT !.SetLock = "_XAie4_DmaSetLock"]
=============================================================================
