-------------------------------- MODULE DmaBd --------------------------------
(***************************************************************************)
(* The life of one DMA buffer descriptor (src/src/dma): a program fills a   *)
(* software descriptor (XAie_DmaDesc) with the setters, XAie_DmaWriteBd     *)
(* turns it into register words, XAie_DmaUpdateBdLen and UpdateBdAddr       *)
(* patch the words, XAie_DmaGetBdLen and XAie_DmaReadBd read them back.     *)
(* Seven generations and three kinds of tile have layouts of their own; the *)
(* functions are those their tables (DmaTables) plug in.                    *)
(*                                                                          *)
(* A word is a record of the fields written to it.  XAie_SetField keeps     *)
(* v % 2^width; the widths are in the generated register headers, which are *)
(* not in the repository, so a field with a limit in the tables or in the   *)
(* code gets the width of that limit and any other field WideField values.  *)
(* _XAie_CheckPrecisionExceeds only refuses a value that would leave the    *)
(* 32-bit word, which no value within the limits does.                      *)
(***************************************************************************)
EXTENDS DmaKinds, Integers, Sequences, TLC

CONSTANTS Kinds,     \* the <<generation, tile>> pairs to check
          MaxCalls   \* bound on the number of calls

VARIABLES kind,   \* the generation and the kind of the tile
          app,    \* DevInst->AppMode: "single", or "dualA" for either of two applications
          pvt,    \* the channel has a private pool of descriptors (AIE4)
          desc,   \* XAie_DmaDesc
          bd,     \* the registers of the buffer descriptor, word by word
          last,   \* the last call: its name, result and argument
          calls

vars == <<kind, app, pvt, desc, bd, last, calls>>

ASSUME KindsAssumption == Kinds \subseteq AllKinds
ASSUME MaxCallsAssumption == MaxCalls \in Nat

-----------------------------------------------------------------------------
(* The software descriptor.                                                *)

NoLock == [AcqId |-> 0, RelId |-> 0, AcqEn |-> 0, RelEn |-> 0, AcqVal |-> 0, RelVal |-> 0,
           AcqValEn |-> 0, RelValEn |-> 0]

\* memset(DmaDesc, 0): tile type 0 is the AIE tile
Cleared ==
  [IsReady |-> 0, TileType |-> "TILE",
   PktEn |-> 0, PktType |-> 0, PktId |-> 0, OutofOrderBdId |-> 0,
   NxtBd |-> 0, UseNxtBd |-> 0, ValidBd |-> 0, Address |-> 0, Length |-> 0,
   Lock |-> NoLock, Lock_2 |-> NoLock, Address_2 |-> 0, EnDoubleBuff |-> 0, FifoMode |-> 0,
   EnCompression |-> 0, TlastSuppress |-> 0,
   SMID |-> 0, BurstLen |-> 0, AxQos |-> 0, AxCache |-> 0, SecureAccess |-> 0,
   AxUser |-> 0, IOCoherence |-> 0, KeyIdx |-> 0, DataReuse |-> 0,
   X_Incr |-> 0, X_Wrap |-> 0, X_Offset |-> 0, Y_Incr |-> 0, Y_Wrap |-> 0, Y_Offset |-> 0,
   IntrleaveBufSelect |-> 0, IntrleaveCount |-> 0, CurrPtr |-> 0, EnInterleaved |-> 0,
   IterCurr |-> 0, IterWrap |-> 0, IterStep |-> 0,
   StepSize |-> [i \in 0..3 |-> 0], Wrap |-> [i \in 0..3 |-> 0],
   Before |-> [i \in 0..2 |-> 0], After |-> [i \in 0..2 |-> 0]]

AieTileDmaInit(d) ==
  [d EXCEPT !.X_Wrap = 255, !.X_Offset = 1, !.Y_Incr = 255, !.Y_Wrap = 255, !.Y_Offset = 256]

DefaultSteps(d, dims) ==
  [d EXCEPT !.IterWrap = 1, !.IterStep = 1,
            !.StepSize = [i \in 0..3 |-> IF i < dims THEN 1 ELSE 0]]
AieMlDmaInit(d, tile) == DefaultSteps(d, IF tile = "MEM" THEN 4 ELSE 3)
Aie4DmaInit(d, tile)  == DefaultSteps(d, IF tile = "TILE" THEN 3 ELSE 4)

\* DmaMod->DmaBdInit
DmaBdInit(k, d) ==
  CASE Mod(k).DmaBdInit = "_XAie_TileDmaInit" -> AieTileDmaInit(d)
    [] Mod(k).DmaBdInit = "_XAie_ShimDmaInit" -> d
    [] IsAie4(k) -> Aie4DmaInit(d, k[2])
    [] OTHER -> AieMlDmaInit(d, k[2])

DmaDescInit(k) == [DmaBdInit(k, Cleared) EXCEPT !.IsReady = 1, !.TileType = k[2]]

-----------------------------------------------------------------------------
(* The writers: the words a descriptor is turned into, word 0 first.       *)

AddrLow(d)  == d.Address % 2^AddrLowBits
AddrHigh(d) == d.Address \div 2^AddrLowBits

\* a negative lock value is written as its low seven bits
LockVal(v) == IF v < 0 THEN v % 128 ELSE v

AieShimBdWords(d) ==
  << [AddrLow |-> AddrLow(d)],
     [BufferLen |-> d.Length],
     [AddrHigh |-> AddrHigh(d), UseNxtBd |-> d.UseNxtBd, NxtBd |-> d.NxtBd, ValidBd |-> d.ValidBd,
      LckId_A |-> d.Lock.AcqId, LckRelEn_A |-> d.Lock.RelEn, LckRelVal_A |-> LockVal(d.Lock.RelVal),
      LckRelUseVal_A |-> d.Lock.RelValEn, LckAcqEn_A |-> d.Lock.AcqEn,
      LckAcqVal_A |-> LockVal(d.Lock.AcqVal), LckAcqUseVal_A |-> d.Lock.AcqValEn],
     [SMID |-> d.SMID, BurstLen |-> d.BurstLen, AxQos |-> d.AxQos,
      SecureAccess |-> d.SecureAccess, AxCache |-> d.AxCache],
     [PktId |-> d.PktId, PktType |-> d.PktType, EnPkt |-> d.PktEn] >>

\* the two locks and the two base addresses of a tile's double buffer
AieTileBdLocks(d) ==
  << [LckId_A |-> d.Lock.AcqId, LckRelEn_A |-> d.Lock.RelEn, LckRelVal_A |-> LockVal(d.Lock.RelVal),
      LckRelUseVal_A |-> d.Lock.RelValEn, LckAcqEn_A |-> d.Lock.AcqEn,
      LckAcqVal_A |-> LockVal(d.Lock.AcqVal), LckAcqUseVal_A |-> d.Lock.AcqValEn,
      BaseAddr |-> d.Address],
     [LckId_B |-> d.Lock_2.AcqId, LckRelEn_B |-> d.Lock_2.RelEn, LckRelVal_B |-> d.Lock_2.RelVal,
      LckRelUseVal_B |-> d.Lock_2.RelValEn, LckAcqEn_B |-> d.Lock_2.AcqEn,
      LckAcqVal_B |-> d.Lock_2.AcqVal, LckAcqUseVal_B |-> d.Lock_2.AcqValEn,
      BaseAddr_B |-> d.Address_2] >>

AieTileBdRest(d) ==
  << [X_Incr |-> d.X_Incr, X_Wrap |-> d.X_Wrap, X_Offset |-> d.X_Offset],
     [Y_Incr |-> d.Y_Incr, Y_Wrap |-> d.Y_Wrap, Y_Offset |-> d.Y_Offset],
     [PktId |-> d.PktId, PktType |-> d.PktType],
     [BuffSelect |-> d.IntrleaveBufSelect, CurrPtr |-> d.CurrPtr],
     [ValidBd |-> d.ValidBd, UseNxtBd |-> d.UseNxtBd, NxtBd |-> d.NxtBd, BufferLen |-> d.Length,
      EnDoubleBuff |-> d.EnDoubleBuff, FifoMode |-> d.FifoMode, EnPkt |-> d.PktEn,
      EnIntrleaved |-> d.EnInterleaved,
      IntrleaveCnt |-> IF d.IntrleaveCount > 0 THEN d.IntrleaveCount - 1 ELSE 0] >>

AieTileBdWords(d) == AieTileBdLocks(d) \o AieTileBdRest(d)

PktWord(d) == [EnPkt |-> d.PktEn, PktType |-> d.PktType, PktId |-> d.PktId,
               OutofOrderBdId |-> d.OutofOrderBdId]
IterWord(d) == [IterCurr |-> d.IterCurr, Iter_Wrap |-> d.IterWrap - 1,
                Iter_StepSize |-> d.IterStep - 1]
LockWord(d) == [LckRelVal |-> LockVal(d.Lock.RelVal), LckRelId |-> d.Lock.RelId,
                LckAcqId |-> d.Lock.AcqId, LckAcqVal |-> LockVal(d.Lock.AcqVal),
                LckAcqEn |-> d.Lock.AcqEn]
NextWord(d) == [UseNxtBd |-> d.UseNxtBd, NxtBd |-> d.NxtBd]

AieMlMemBdLow(d) ==
  << PktWord(d) @@ [BufferLen |-> d.Length],
     NextWord(d) @@ [D0_PadBefore |-> d.Before[0], BaseAddr |-> d.Address],
     [D0_Wrap |-> d.Wrap[0], D0_StepSize |-> d.StepSize[0] - 1, TlastSuppress |-> d.TlastSuppress],
     [D1_PadBefore |-> d.Before[1], D1_Wrap |-> d.Wrap[1], D1_StepSize |-> d.StepSize[1] - 1] >>

AieMlMemBdHigh(d) ==
  << [D2_PadBefore |-> d.Before[2], D2_Wrap |-> d.Wrap[2], D2_StepSize |-> d.StepSize[2] - 1,
      EnCompression |-> d.EnCompression],
     [D2_PadAfter |-> d.After[2], D1_PadAfter |-> d.After[1], D0_PadAfter |-> d.After[0],
      D3_StepSize |-> d.StepSize[3] - 1],
     IterWord(d),
     LockWord(d) @@ [ValidBd |-> d.ValidBd] >>

AieMlMemBdWords(d) == AieMlMemBdLow(d) \o AieMlMemBdHigh(d)

AieMlTileBdLow(d) ==
  << [BaseAddr |-> d.Address, BufferLen |-> d.Length],
     PktWord(d) @@ [EnCompression |-> d.EnCompression],
     [D1_StepSize |-> d.StepSize[1] - 1, D0_StepSize |-> d.StepSize[0] - 1] >>

AieMlTileBdHigh(d) ==
  << [D1_Wrap |-> d.Wrap[1], D0_Wrap |-> d.Wrap[0], D2_StepSize |-> d.StepSize[2] - 1],
     IterWord(d),
     LockWord(d) @@ NextWord(d) @@ [ValidBd |-> d.ValidBd, TlastSuppress |-> d.TlastSuppress] >>

AieMlTileBdWords(d) == AieMlTileBdLow(d) \o AieMlTileBdHigh(d)

AieMlShimBdLow(d) ==
  << [BufferLen |-> d.Length],
     [AddrLow |-> AddrLow(d)],
     PktWord(d) @@ [AddrHigh |-> AddrHigh(d)],
     [D0_Wrap |-> d.Wrap[0], D0_StepSize |-> d.StepSize[0] - 1, SecureAccess |-> d.SecureAccess],
     [D1_Wrap |-> d.Wrap[1], D1_StepSize |-> d.StepSize[1] - 1, BurstLen |-> d.BurstLen] >>

AieMlShimBdHigh(d) ==
  << [SMID |-> d.SMID, AxQos |-> d.AxQos, AxCache |-> d.AxCache,
      D2_StepSize |-> d.StepSize[2] - 1],
     IterWord(d),
     LockWord(d) @@ NextWord(d) @@ [ValidBd |-> d.ValidBd, TlastSuppress |-> d.TlastSuppress] >>

AieMlShimBdWords(d) == AieMlShimBdLow(d) \o AieMlShimBdHigh(d)

\* AIE2PS: six bits of padding for each dimension and a step of zero in the last
Aie2PSMemBdWords(d) ==
  [AieMlMemBdWords(d) EXCEPT
     ![3] = @ @@ [StepSize_Zero |-> IF d.StepSize[3] > 0 THEN 0 ELSE 1,
                  D2_PadBeforeHigh |-> d.Before[2] \div 2^4, D1_PadBeforeHigh |-> d.Before[1] \div 2^5],
     ![7] = @ @@ [D2_PadAfterHigh |-> d.After[2] \div 2^4, D1_PadAfterHigh |-> d.After[1] \div 2^5]]

\* AIE2PS: the table has no AddrExtHigh, so nothing is stored in word 8, and it
\* gives SMID the position of another register, so no descriptor here uses it
Aie2PSShimBdWords(d) ==
  Append([AieMlShimBdWords(d) EXCEPT ![6] = [f \in DOMAIN @ \ {"SMID"} |-> @[f]]], <<>>)

Aie4TileBdWords(d) ==
  << [BaseAddr |-> d.Address, BufferLen |-> d.Length],
     PktWord(d),
     [D1_StepSize |-> d.StepSize[1]],
     [IterCurr |-> d.IterCurr, D0_Wrap |-> d.Wrap[0], D2_StepSize |-> d.StepSize[2]],
     [D1_Wrap |-> d.Wrap[1], Iter_Wrap |-> d.IterWrap - 1, Iter_StepSize |-> d.IterStep],
     LockWord(d) @@ NextWord(d) @@ [TlastSuppress |-> d.TlastSuppress] >>

Aie4MemBdLow(d) ==
  << [BaseAddr |-> d.Address],
     [LckAcqVal |-> LockVal(d.Lock.AcqVal), BufferLen |-> d.Length],
     [LckAcqId |-> d.Lock.AcqId, LckRelVal |-> LockVal(d.Lock.RelVal), LckRelId |-> d.Lock.RelId,
      LckAcqEn |-> d.Lock.AcqEn],
     [D1_StepSize |-> d.StepSize[1]],
     [D2_StepSize |-> d.StepSize[2]],
     [D3_StepSize |-> d.StepSize[3]] >>

\* Mutant: the out-of-order descriptor is put in the word of the next one.
Aie4MemBdHighOooInNext(d) ==
  << [TlastSuppress |-> d.TlastSuppress, Iter_StepSize |-> d.IterStep],
     [IterCurr |-> d.IterCurr, EnPkt |-> d.PktEn, PktId |-> d.PktId,
      D0_PadAfter |-> d.After[0], D0_PadBefore |-> d.Before[0]],
     [D2_PadAfter |-> d.After[2], D2_PadBefore |-> d.Before[2],
      D1_PadAfter |-> d.After[1], D1_PadBefore |-> d.Before[1]],
     [D1_Wrap |-> d.Wrap[1], D0_Wrap |-> d.Wrap[0]],
     NextWord(d) @@ [D2_Wrap |-> d.Wrap[2], Iter_Wrap |-> d.IterWrap - 1,
                     OutofOrderBdId |-> d.OutofOrderBdId] >>

Aie4MemBdHigh(d) ==
  << [TlastSuppress |-> d.TlastSuppress, Iter_StepSize |-> d.IterStep],
     [IterCurr |-> d.IterCurr, EnPkt |-> d.PktEn, PktId |-> d.PktId,
      D0_PadAfter |-> d.After[0], D0_PadBefore |-> d.Before[0]],
     [D2_PadAfter |-> d.After[2], D2_PadBefore |-> d.Before[2],
      D1_PadAfter |-> d.After[1], D1_PadBefore |-> d.Before[1]],
     [D1_Wrap |-> d.Wrap[1], D0_Wrap |-> d.Wrap[0], OutofOrderBdId |-> d.OutofOrderBdId],
     NextWord(d) @@ [D2_Wrap |-> d.Wrap[2], Iter_Wrap |-> d.IterWrap - 1] >>

Aie4MemBdWords(d) == Aie4MemBdLow(d) \o Aie4MemBdHigh(d)

Aie4ShimBdLow(d) ==
  << [AxUser |-> d.AxUser, KeyIdx |-> d.KeyIdx, AddrHigh |-> AddrHigh(d)],
     [AddrLow |-> AddrLow(d)],
     [BufferLen |-> d.Length],
     [LckAcqId |-> d.Lock.AcqId, LckAcqEn |-> d.Lock.AcqEn, BurstLen |-> d.BurstLen,
      D1_Wrap |-> d.Wrap[1], D2_Wrap |-> d.Wrap[2]] >>

Aie4ShimBdHigh(d) ==
  << [D0_Wrap |-> d.Wrap[0], LckRelVal |-> LockVal(d.Lock.RelVal), LckRelId |-> d.Lock.RelId,
      LckAcqVal |-> LockVal(d.Lock.AcqVal)],
     NextWord(d) @@ [EnPkt |-> d.PktEn, AxQos |-> d.AxQos, D1_StepSize |-> d.StepSize[1]],
     [EnCompression |-> d.EnCompression, TlastSuppress |-> d.TlastSuppress,
      IterCurr |-> d.IterCurr, DataReuse |-> d.DataReuse, D2_StepSize |-> d.StepSize[2]],
     [AxCache |-> d.AxCache, Iter_Wrap |-> d.IterWrap - 1, Iter_StepSize |-> d.IterStep],
     [D3_StepSize |-> d.StepSize[3], IOCoherence |-> d.IOCoherence,
      OutofOrderBdId |-> d.OutofOrderBdId, PktId |-> d.PktId] >>

Aie4ShimBdWords(d) == Aie4ShimBdLow(d) \o Aie4ShimBdHigh(d)

\* in single-app mode the writer turns the next descriptor of the second half
\* into its number within that half, in the caller's descriptor too
Aie4ShimNxtBd(k, a, d) ==
  IF a = "single" /\ d.NxtBd >= Mod(k).NumBds THEN [d EXCEPT !.NxtBd = @ - Mod(k).NumBds] ELSE d

\* DmaMod->WriteBd (WriteBdPvtBuffPool), before the fields are cut to their width
BdWords(k, d) ==
  CASE k = <<"AIE", "SHIM">> -> AieShimBdWords(d)
    [] k = <<"AIE", "TILE">> -> AieTileBdWords(d)
    [] IsAie4(k) /\ k[2] = "TILE" -> Aie4TileBdWords(d)
    [] IsAie4(k) /\ k[2] = "MEM"  -> Aie4MemBdWords(d)
    [] IsAie4(k) /\ k[2] = "SHIM" -> Aie4ShimBdWords(d)
    [] k = <<"AIE2PS", "MEM">>  -> Aie2PSMemBdWords(d)
    [] k = <<"AIE2PS", "SHIM">> -> Aie2PSShimBdWords(d)
    [] OTHER -> CASE k[2] = "TILE" -> AieMlTileBdWords(d)
                  [] k[2] = "MEM"  -> AieMlMemBdWords(d)
                  [] k[2] = "SHIM" -> AieMlShimBdWords(d)

WideField == 2^24
StepFields == {"D0_StepSize", "D1_StepSize", "D2_StepSize", "D3_StepSize"}
WrapFields == {"D0_Wrap", "D1_Wrap", "D2_Wrap"}
PadFields  == {"D0_PadBefore", "D1_PadBefore", "D2_PadBefore", "D0_PadAfter", "D1_PadAfter", "D2_PadAfter"}
LockFields == {"LckAcqVal", "LckRelVal", "LckAcqVal_A", "LckRelVal_A", "LckAcqVal_B", "LckRelVal_B"}

\* the padding that fits a field: 6, 5 and 4 bits before AIE4, where it is 8
PadSize(k, f) ==
  CASE IsAie4(k) -> 2^8
    [] f \in {"D0_PadBefore", "D0_PadAfter"} -> 2^6
    [] f \in {"D1_PadBefore", "D1_PadAfter"} -> 2^5
    [] OTHER -> 2^4

\* the least power of two that is not below n
PowerFrom(n) == 2^(CHOOSE b \in 0..30 : n <= 2^b /\ (b = 0 \/ 2^(b - 1) < n))

\* the number of values a field of a word holds
FieldSize(k, f) ==
  LET p == Prop(k) IN
  CASE f \in {"BaseAddr", "BaseAddr_B"} -> PowerFrom(p.AddrMax \div 2^p.AddrAlignShift)
    [] f = "AddrLow"  -> 2^AddrLowBits
    [] f = "AddrHigh" -> p.AddrMax \div 2^AddrLowBits
    [] f \in StepFields -> p.StepSizeMax + 1
    [] f \in WrapFields -> p.WrapMax + 1
    [] f = "Iter_StepSize" -> p.IterStepSizeMax + 1
    [] f = "Iter_Wrap" -> p.IterWrapMax + 1
    [] f = "IterCurr" -> p.IterCurrMax + 1
    [] f \in PadFields -> PadSize(k, f)
    [] f \in {"D1_PadBeforeHigh", "D1_PadAfterHigh", "StepSize_Zero"} -> 2
    [] f \in {"D2_PadBeforeHigh", "D2_PadAfterHigh"} -> 4
    [] f \in LockFields -> 128
    [] f \in {"X_Incr", "X_Wrap", "Y_Incr", "Y_Wrap", "IntrleaveCnt"} -> 256
    [] OTHER -> WideField

\* XAie_SetField on every field of every word
Cut(k, words) ==
  [i \in DOMAIN words |-> [f \in DOMAIN words[i] |-> words[i][f] % FieldSize(k, f)]]

\* the words a write leaves in the registers; a private descriptor of an AIE4
\* shim tile has no word 4
Written(k, p, old, d) ==
  LET new == Cut(k, BdWords(k, d)) IN
  IF p /\ k[2] = "SHIM" THEN [new EXCEPT ![5] = old[5]] ELSE new

\* the padding a descriptor of a memory tile may ask for
PadMax(k, i) ==
  CASE IsAie4(k) -> 255
    [] k[1] = "AIE2PS" -> 63
    [] OTHER -> 63 \div 2^i

PaddingResult(k, d) ==
  LET TooWide(i)  == d.After[i] > PadMax(k, i) \/ d.Before[i] > PadMax(k, i)
      NoWrap(i)   == d.Wrap[i] = 0
      Higher(i)   == \E j \in i+1..2 : d.After[j] # 0 \/ d.Before[j] # 0
      Bad(i)      == TooWide(i) \/ (NoWrap(i) /\ (d.After[i] # 0 \/ Higher(i)))
      First       == CHOOSE i \in 0..2 : Bad(i) /\ \A j \in 0..i-1 : ~Bad(j)
  IN IF k[2] # "MEM" \/ \A i \in 0..2 : ~Bad(i) THEN "OK"
     ELSE IF TooWide(First) \/ d.After[First] # 0 THEN "INVALID_DMA_DESC" ELSE "ERR"

-----------------------------------------------------------------------------
(* The readers: the descriptor that is filled from the words w.            *)

JoinAddr(low, high) == low + high * 2^AddrLowBits

AieLock(w, x) ==
  [AcqId |-> w["LckId_" \o x], RelId |-> 0, AcqEn |-> w["LckAcqEn_" \o x], RelEn |-> w["LckRelEn_" \o x],
   AcqVal |-> w["LckAcqVal_" \o x], RelVal |-> w["LckRelVal_" \o x],
   AcqValEn |-> w["LckAcqUseVal_" \o x], RelValEn |-> w["LckRelUseVal_" \o x]]

AieShimReadBd(w) ==
  [Cleared EXCEPT
     !.Address = JoinAddr(w[1].AddrLow, w[3].AddrHigh), !.Length = w[2].BufferLen,
     !.UseNxtBd = w[3].UseNxtBd, !.NxtBd = w[3].NxtBd, !.ValidBd = w[3].ValidBd,
     !.Lock = AieLock(w[3], "A"),
     !.SMID = w[4].SMID, !.BurstLen = w[4].BurstLen, !.AxQos = w[4].AxQos,
     !.SecureAccess = w[4].SecureAccess, !.AxCache = w[4].AxCache,
     !.PktId = w[5].PktId, !.PktType = w[5].PktType, !.PktEn = w[5].EnPkt]

\* the value to acquire the second lock with is not stored in the descriptor
AieTileReadLocks(w) ==
  [Cleared EXCEPT
     !.Lock = AieLock(w[1], "A"), !.Address = w[1].BaseAddr,
     !.Lock_2 = [AieLock(w[2], "B") EXCEPT !.AcqVal = 0], !.Address_2 = w[2].BaseAddr_B]

\* the wrap of the second dimension is read into that of the first
AieTileReadBd(w) ==
  [AieTileReadLocks(w) EXCEPT
     !.X_Incr = w[3].X_Incr, !.X_Offset = w[3].X_Offset,
     !.Y_Incr = w[4].Y_Incr, !.X_Wrap = w[4].Y_Wrap, !.Y_Offset = w[4].Y_Offset,
     !.PktId = w[5].PktId, !.PktType = w[5].PktType,
     !.IntrleaveBufSelect = w[6].BuffSelect, !.CurrPtr = w[6].CurrPtr,
     !.ValidBd = w[7].ValidBd, !.UseNxtBd = w[7].UseNxtBd, !.NxtBd = w[7].NxtBd,
     !.Length = w[7].BufferLen, !.EnDoubleBuff = w[7].EnDoubleBuff, !.FifoMode = w[7].FifoMode,
     !.PktEn = w[7].EnPkt, !.EnInterleaved = w[7].EnIntrleaved,
     !.IntrleaveCount = (w[7].IntrleaveCnt + 1) % 256]

ReadPkt(d, w) == [d EXCEPT !.PktEn = w.EnPkt, !.PktType = w.PktType, !.PktId = w.PktId,
                           !.OutofOrderBdId = w.OutofOrderBdId]
\* Mutant: the wrap is read as it is in the register.
ReadIterRaw(d, w, step) == [d EXCEPT !.IterCurr = w.IterCurr, !.IterWrap = w.Iter_Wrap,
                                     !.IterStep = w.Iter_StepSize + step]
ReadIter(d, w, step) == [d EXCEPT !.IterCurr = w.IterCurr, !.IterWrap = w.Iter_Wrap + 1,
                                  !.IterStep = w.Iter_StepSize + step]
ReadLock(d, w) ==
  [d EXCEPT !.Lock = [NoLock EXCEPT !.RelVal = w.LckRelVal, !.RelId = w.LckRelId, !.AcqId = w.LckAcqId,
                                    !.AcqVal = w.LckAcqVal, !.AcqEn = w.LckAcqEn]]
ReadNext(d, w) == [d EXCEPT !.UseNxtBd = w.UseNxtBd, !.NxtBd = w.NxtBd]

AieMlMemReadLow(w) ==
  [ReadNext(ReadPkt(Cleared, w[1]), w[2]) EXCEPT
     !.Length = w[1].BufferLen, !.Address = w[2].BaseAddr, !.Before[0] = w[2].D0_PadBefore,
     !.Wrap[0] = w[3].D0_Wrap, !.StepSize[0] = w[3].D0_StepSize + 1, !.TlastSuppress = w[3].TlastSuppress,
     !.Before[1] = w[4].D1_PadBefore, !.Wrap[1] = w[4].D1_Wrap, !.StepSize[1] = w[4].D1_StepSize + 1]

AieMlMemReadBd(w) ==
  [ReadIter(ReadLock(AieMlMemReadLow(w), w[8]), w[7], 1) EXCEPT
     !.Before[2] = w[5].D2_PadBefore, !.Wrap[2] = w[5].D2_Wrap, !.StepSize[2] = w[5].D2_StepSize + 1,
     !.EnCompression = w[5].EnCompression,
     !.After = (0 :> w[6].D0_PadAfter) @@ (1 :> w[6].D1_PadAfter) @@ (2 :> w[6].D2_PadAfter),
     !.StepSize[3] = w[6].D3_StepSize + 1, !.ValidBd = w[8].ValidBd]

AieMlTileReadLow(w) ==
  [ReadPkt(Cleared, w[2]) EXCEPT
     !.Address = w[1].BaseAddr, !.Length = w[1].BufferLen, !.EnCompression = w[2].EnCompression,
     !.StepSize[1] = w[3].D1_StepSize + 1, !.StepSize[0] = w[3].D0_StepSize + 1]

AieMlTileReadBd(w) ==
  [ReadIter(ReadNext(ReadLock(AieMlTileReadLow(w), w[6]), w[6]), w[5], 1) EXCEPT
     !.Wrap[1] = w[4].D1_Wrap, !.Wrap[0] = w[4].D0_Wrap, !.StepSize[2] = w[4].D2_StepSize + 1,
     !.ValidBd = w[6].ValidBd, !.TlastSuppress = w[6].TlastSuppress]

AieMlShimReadLow(w) ==
  [ReadPkt(Cleared, w[3]) EXCEPT
     !.Length = w[1].BufferLen, !.Address = JoinAddr(w[2].AddrLow, w[3].AddrHigh),
     !.Wrap[0] = w[4].D0_Wrap, !.StepSize[0] = w[4].D0_StepSize + 1, !.SecureAccess = w[4].SecureAccess,
     !.Wrap[1] = w[5].D1_Wrap, !.StepSize[1] = w[5].D1_StepSize + 1, !.BurstLen = w[5].BurstLen]

AieMlShimReadBd(w) ==
  [ReadIter(ReadNext(ReadLock(AieMlShimReadLow(w), w[8]), w[8]), w[7], 1) EXCEPT
     !.SMID = w[6].SMID, !.AxQos = w[6].AxQos, !.AxCache = w[6].AxCache,
     !.StepSize[2] = w[6].D2_StepSize + 1,
     !.ValidBd = w[8].ValidBd, !.TlastSuppress = w[8].TlastSuppress]

Aie2PSShimReadBd(w) == AieMlShimReadBd([w EXCEPT ![6] = @ @@ [SMID |-> 0]])

Aie4TileReadBd(w) ==
  [ReadIter(ReadNext(ReadLock(ReadPkt(Cleared, w[2]), w[6]), w[6]),
            w[5] @@ [IterCurr |-> w[4].IterCurr], 1) EXCEPT
     !.Address = w[1].BaseAddr, !.Length = w[1].BufferLen,
     !.StepSize[1] = w[3].D1_StepSize + 1, !.Wrap[0] = w[4].D0_Wrap,
     !.StepSize[2] = w[4].D2_StepSize + 1, !.Wrap[1] = w[5].D1_Wrap,
     !.TlastSuppress = w[6].TlastSuppress]

\* lock ids have 16 bits and reach 959 here; the reader keeps the lower eight
Aie4MemReadLock(d, w) == [ReadLock(d, w) EXCEPT !.Lock.AcqId = @ % 256, !.Lock.RelId = @ % 256]

Aie4MemReadLow(w) ==
  [Aie4MemReadLock(Cleared, w[2] @@ w[3]) EXCEPT
     !.Address = w[1].BaseAddr, !.Length = w[2].BufferLen,
     !.StepSize[1] = w[4].D1_StepSize, !.StepSize[2] = w[5].D2_StepSize, !.StepSize[3] = w[6].D3_StepSize]

\* the padding of dimensions 1 and 2 is taken from words 4 and 5, which hold
\* steps: what is read there is some part g of a step
Aie4MemReadHigh(w, g) ==
  [ReadNext(ReadIter(Aie4MemReadLow(w), w[8] @@ w[7] @@ w[11], 0), w[11]) EXCEPT
     !.TlastSuppress = w[7].TlastSuppress, !.PktEn = w[8].EnPkt, !.PktId = w[8].PktId,
     !.After  = (0 :> w[8].D0_PadAfter) @@ (1 :> g) @@ (2 :> g),
     !.Before = (0 :> w[8].D0_PadBefore) @@ (1 :> g) @@ (2 :> g),
     !.Wrap[1] = w[10].D1_Wrap, !.Wrap[0] = w[10].D0_Wrap, !.Wrap[2] = w[11].D2_Wrap,
     !.OutofOrderBdId = w[10].OutofOrderBdId]

Aie4ShimReadLow(w) ==
  [ReadLock(Cleared, w[4] @@ w[5]) EXCEPT
     !.AxUser = w[1].AxUser, !.KeyIdx = w[1].KeyIdx,
     !.Address = JoinAddr(w[2].AddrLow, w[1].AddrHigh), !.Length = w[3].BufferLen,
     !.BurstLen = w[4].BurstLen, !.Wrap[1] = w[4].D1_Wrap, !.Wrap[2] = w[4].D2_Wrap,
     !.Wrap[0] = w[5].D0_Wrap]

Aie4ShimReadHigh(w) ==
  [ReadNext(ReadIter(Aie4ShimReadLow(w), w[7] @@ w[8], 1), w[6]) EXCEPT
     !.PktEn = w[6].EnPkt, !.AxQos = w[6].AxQos, !.StepSize[1] = w[6].D1_StepSize + 1,
     !.EnCompression = w[7].EnCompression, !.TlastSuppress = w[7].TlastSuppress,
     !.DataReuse = w[7].DataReuse, !.StepSize[2] = w[7].D2_StepSize + 1,
     !.AxCache = w[8].AxCache, !.StepSize[3] = w[9].D3_StepSize + 1,
     !.IOCoherence = w[9].IOCoherence, !.OutofOrderBdId = w[9].OutofOrderBdId, !.PktId = w[9].PktId]

\* DmaMod->ReadBd (ReadBdPvtBuffPool); AIE2PS reads a memory tile as AIE-ML does
BdRead(k, w, g) ==
  CASE k = <<"AIE", "SHIM">> -> AieShimReadBd(w)
    [] k = <<"AIE", "TILE">> -> AieTileReadBd(w)
    [] IsAie4(k) /\ k[2] = "TILE" -> Aie4TileReadBd(w)
    [] IsAie4(k) /\ k[2] = "MEM"  -> Aie4MemReadHigh(w, g)
    [] IsAie4(k) /\ k[2] = "SHIM" -> Aie4ShimReadHigh(w)
    [] k = <<"AIE2PS", "SHIM">> -> Aie2PSShimReadBd(w)
    [] OTHER -> CASE k[2] = "TILE" -> AieMlTileReadBd(w)
                  [] k[2] = "MEM"  -> AieMlMemReadBd(w)
                  [] k[2] = "SHIM" -> AieMlShimReadBd(w)

-----------------------------------------------------------------------------
(* The calls that fill the descriptor.  A call the code refuses leaves it   *)
(* as it is; every one is refused once IsReady is cleared.                 *)

Features == Mod(kind).features

\* the inputs of the calls
Addrs == LET p == Prop(kind) IN {p.AddrAlign, p.AddrAlign + 1, p.AddrMax - p.AddrAlign, p.AddrMax}
Lens  == {4, 20}
LockPair(i, j, a, r) == [AcqId |-> i, RelId |-> j, AcqVal |-> a, RelVal |-> r]
Locks == {LockPair(0, 0, 1, -1), LockPair(1, 1, -1, 1), LockPair(448, 449, 3, 1), LockPair(0, 0, 64, 0),
          LockPair(Mod(kind).NumLocks, Mod(kind).NumLocks, 1, 1)}

Setter(ok, new) ==
  /\ calls < MaxCalls
  /\ desc.IsReady = 1
  /\ ok
  /\ desc' = new
  /\ last' = [op |-> "Set", rc |-> "OK", arg |-> 0]
  /\ calls' = calls + 1
  /\ UNCHANGED <<kind, app, pvt, bd>>

\* _XAie_DmaSetLock: a value of -1 leaves the value of the descriptor as it is
LockAie(lock, l, acqEn, relEn) ==
  [lock EXCEPT !.AcqId = l.AcqId, !.RelId = l.RelId, !.AcqEn = acqEn, !.RelEn = relEn,
               !.AcqValEn = IF l.AcqVal # -1 THEN 1 ELSE @, !.AcqVal = IF l.AcqVal # -1 THEN l.AcqVal ELSE @,
               !.RelValEn = IF l.RelVal # -1 THEN 1 ELSE @, !.RelVal = IF l.RelVal # -1 THEN l.RelVal ELSE @]
LockAieOK(l) ==
  /\ l.AcqId = l.RelId /\ l.AcqId < Mod(kind).NumLocks
  /\ l.AcqVal <= LockValUpperBound(kind) /\ l.RelVal <= LockValUpperBound(kind)

\* _XAieMl_DmaSetLock; _XAie4_DmaSetLock gives an application of its own the
\* memory tile's locks 448 to 479
LockMl(l, acqEn, relEn) ==
  [NoLock EXCEPT !.AcqId = l.AcqId, !.RelId = l.RelId, !.AcqEn = acqEn, !.RelEn = relEn,
                 !.AcqVal = l.AcqVal, !.RelVal = l.RelVal]
LockMlOK(l) ==
  /\ l.AcqId < Mod(kind).NumLocks
  /\ l.AcqVal <= LockValUpperBound(kind) /\ l.RelVal <= LockValUpperBound(kind)
LockAie4OK(l) ==
  /\ IF kind[2] = "MEM" /\ app # "single" THEN l.AcqId \in 448..479 ELSE l.AcqId < Mod(kind).NumLocks
  /\ l.AcqVal <= LockValUpperBound(kind) /\ l.RelVal <= LockValUpperBound(kind)

DmaLockConfig ==
  \E l \in Locks, en \in {<<1, 1>>, <<0, 1>>} :
    CASE Mod(kind).SetLock = "_XAie_DmaSetLock" ->
           Setter(LockAieOK(l), [desc EXCEPT !.Lock = LockAie([@ EXCEPT !.AcqValEn = 0, !.RelValEn = 0], l, en[1], en[2])])
      [] Mod(kind).SetLock = "_XAieMl_DmaSetLock" ->
           Setter(LockMlOK(l), [desc EXCEPT !.Lock = LockMl(l, en[1], en[2])])
      [] Mod(kind).SetLock = "_XAie4_DmaSetLock" ->
           Setter(LockAie4OK(l), [desc EXCEPT !.Lock = LockMl(l, en[1], en[2])])

DmaSetPkt == Setter(TRUE, [desc EXCEPT !.PktEn = 1, !.PktId = 5, !.PktType = 3])

DmaSetOutofOrderBdId ==
  Setter("OutofOrderBdId" \in Features, [desc EXCEPT !.OutofOrderBdId = 7])

Aligned(a) == a % Prop(kind).AddrAlign = 0
Word32(a)  == a \div 2^Prop(kind).AddrAlignShift
\* the transfer length in words, less one on the AIE tile
Words(len) == len \div 4 - Prop(kind).LenActualOffset

DmaSetDoubleBuffer ==
  \E a \in Addrs, l \in Locks :
    Setter(/\ "DoubleBuffering" \in Features
           /\ Aligned(a) /\ a + desc.Length <= Prop(kind).AddrMax
           /\ l.AcqId <= Mod(kind).NumLocks /\ l.AcqId = l.RelId,
           [desc EXCEPT !.Address_2 = Word32(a), !.EnDoubleBuff = 1, !.Lock_2 = LockAie(@, l, 1, 1)])

At(d, a, len) == [d EXCEPT !.Address = Word32(a), !.Length = Words(len)]

DmaSetAddrLen ==
  \E a \in Addrs, len \in Lens :
    Setter(Aligned(a) /\ a + len <= Prop(kind).AddrMax, At(desc, a, len))

\* a memory object of 16 bytes at the end of the range: its offset, not its
\* address, is held against the limit
DmaSetAddrOffsetLen ==
  \E offset \in {0, 4, 16}, len \in Lens :
    LET base == Prop(kind).AddrMax - 16 IN
    Setter(/\ offset < 16 /\ offset + len <= 16
           /\ Aligned(base + offset) /\ offset + len <= Prop(kind).AddrMax,
           At(desc, base + offset, len))

\* the tensors: dimensions like <<2, 3>> up to a last one at a limit
Dim(step, wrap) == [StepSize |-> step, Wrap |-> wrap]
Tensors ==
  LET p == Prop(kind) IN
  {[i \in 0..n-1 |-> IF i = n - 1 THEN d ELSE Dim(2, 3)] :
     n \in 1..4, d \in {Dim(0, 0), Dim(1, p.WrapMax), Dim(p.StepSizeMax, 2),
                        Dim(p.StepSizeMax + 1, 2), Dim(2, p.WrapMax + 1), Dim(2, p.WrapMax + 2)}}
AieTensors ==
  {[i \in 0..1 |-> [Offset |-> o, Incr |-> n, Wrap |-> w]] : o \in {0, 8}, n \in {1, 4}, w \in {0, 256}}

MultiDimAie(d, t) ==
  [d EXCEPT !.X_Offset = t[0].Offset, !.X_Wrap = (t[0].Wrap - 1) % 256, !.X_Incr = (t[0].Incr - 1) % 256,
            !.Y_Offset = t[1].Offset, !.Y_Wrap = (t[1].Wrap - 1) % 256, !.Y_Incr = (t[1].Incr - 1) % 256]

\* DmaMod->SetMultiDim refuses a dimension; AIE2PS takes a step of zero in the
\* last dimension, AIE4 does not look at dimension 0
MultiDimOK(t) ==
  LET p == Prop(kind)
      Small(i, n) == t[i].StepSize <= p.StepSizeMax + n /\ t[i].Wrap <= p.WrapMax + n
  IN CASE Mod(kind).SetMultiDim = "_XAieMl_DmaSetMultiDim" ->
            \A i \in DOMAIN t : t[i].StepSize > 0 /\ Small(i, 1)
       [] Mod(kind).SetMultiDim = "_XAie2PS_DmaSetMultiDim" ->
            \A i \in DOMAIN t : (t[i].StepSize > 0 \/ i = 3) /\ Small(i, 1)
       [] Mod(kind).SetMultiDim = "_XAie4_DmaSetMultiDim" -> \A i \in DOMAIN t \ {0} : Small(i, 0)

MultiDim(d, t) ==
  [d EXCEPT !.StepSize = [i \in 0..3 |-> IF i \in DOMAIN t THEN t[i].StepSize ELSE @[i]],
            !.Wrap     = [i \in 0..3 |-> IF i \in DOMAIN t THEN t[i].Wrap ELSE @[i]]]

\* the address and the length are stored before the dimensions are looked at
DmaSetMultiDimAddr ==
  \E a \in {Prop(kind).AddrAlign, Prop(kind).AddrAlign + 1} :
    IF IsAie(kind)
    THEN \E t \in AieTensors :
           Setter(Aligned(a) /\ 2 <= Mod(kind).NumAddrDim, MultiDimAie(At(desc, a, 20), t))
    ELSE \E t \in Tensors :
           Setter(Aligned(a) /\ \A i \in DOMAIN t : i < Mod(kind).NumAddrDim,
                  IF MultiDimOK(t) THEN MultiDim(At(desc, a, 20), t) ELSE At(desc, a, 20))

\* an iteration step of zero, which the AIE-ML writer turns into -1, is left out
DmaSetBdIteration ==
  ~IsAie(kind) /\
  LET p    == Prop(kind)
      step == p.IterStepSizeMax + (IF IsAie4(kind) THEN 0 ELSE 1)
  IN \E it \in {<<2, 1, 0>>, <<2, 0, 0>>, <<step, p.IterWrapMax + 1, p.IterCurrMax>>, <<step + 1, 1, 0>>,
                 <<1, p.IterWrapMax + 2, 0>>, <<1, 1, p.IterCurrMax + 1>>} :
       Setter(it[1] <= step /\ it[2] \in 1..p.IterWrapMax + 1 /\ it[3] <= p.IterCurrMax,
              [desc EXCEPT !.IterStep = it[1], !.IterWrap = it[2], !.IterCurr = it[3]])

DmaEnableCompression == Setter("Compression" \in Features, [desc EXCEPT !.EnCompression = 1])
DmaConfigFifoMode    == Setter("FifoMode" \in Features, [desc EXCEPT !.FifoMode = 2])

\* XAie_DmaSetNextBdGeneric: the descriptors of a private pool are numbered
\* within the pool, those that are shared within both applications
SharedBds  == MaxElement(kind, app, Mod(kind).NumBds)
PrivateBds == Mod(kind).NumBds
DmaSetNextBd ==
  \E n \in {1, Mod(kind).NumBds, 2 * Mod(kind).NumBds}, en \in {0, 1} :
    Setter(n < (IF pvt THEN PrivateBds ELSE SharedBds), [desc EXCEPT !.NxtBd = n, !.UseNxtBd = en])

DmaEnableBd  == Setter(TRUE, [desc EXCEPT !.ValidBd = 1])
DmaDisableBd == Setter(TRUE, [desc EXCEPT !.ValidBd = 0])

\* DmaMod->AxiBurstLenCheck
BurstLens ==
  [_XAie_AxiBurstLenCheck |-> <<4, 8, 16>>, _XAieMl_AxiBurstLenCheck |-> <<4, 8, 16, 32>>,
   _XAie2P_AxiBurstLenCheck |-> <<4, 8, 16, 32>>, _XAie2PS_AxiBurstLenCheck |-> <<4, 8, 16, 32>>,
   _XAie4_AxiBurstLenCheck |-> <<1, 2, 4, 8>>]
DmaSetAxi ==
  /\ kind[2] = "SHIM"
  /\ \E n \in DOMAIN BurstLens[Mod(kind).AxiBurstLenCheck] :
    Setter(TRUE,
           [desc EXCEPT !.BurstLen = n - 1, !.SMID = IF kind[1] = "AIE2PS" THEN 0 ELSE 2,
                        !.AxQos = 1, !.AxCache = 3, !.SecureAccess = 1])
DmaSetAxi_AxUser ==
  Setter(kind[2] = "SHIM" /\ IsAie4(kind),
         [desc EXCEPT !.AxUser = 2, !.IOCoherence = 1, !.KeyIdx = 3, !.DataReuse = 1])

DmaSetInterleaveEnable ==
  \E n \in {0, 1, 255} :
    Setter("InterleaveMode" \in Features,
           [desc EXCEPT !.EnInterleaved = 1, !.IntrleaveBufSelect = 1, !.IntrleaveCount = n, !.CurrPtr = 9])

\* the dimensions the caller does not name get no padding
PadPairs == {<<<<1>>, <<63>>>>, <<<<63, 31, 15>>, <<1, 1, 1>>>>, <<<<63, 63, 63>>, <<0, 63, 63>>>>,
             <<<<0, 1>>, <<0, 0>>>>, <<<<255, 2, 3>>, <<4, 255, 6>>>>}
DmaSetPadding ==
  \E p \in PadPairs :
    Setter("Padding" \in Features,
           [desc EXCEPT !.Before = [i \in 0..2 |-> IF i < Len(p[1]) THEN p[1][i + 1] ELSE 0],
                        !.After  = [i \in 0..2 |-> IF i < Len(p[2]) THEN p[2][i + 1] ELSE 0]])
DmaSetZeroPadding ==
  \E dim \in 0..2 :
    \/ Setter("Padding" \in Features /\ ~IsAie4(kind), [desc EXCEPT !.Before[dim] = 6])
    \/ Setter("Padding" \in Features /\ ~IsAie4(kind), [desc EXCEPT !.After[dim] = 6])

DmaTlastEnable  == Setter("TlastSuppress" \in Features, [desc EXCEPT !.TlastSuppress = 0])
DmaTlastDisable == Setter("TlastSuppress" \in Features, [desc EXCEPT !.TlastSuppress = 1])

-----------------------------------------------------------------------------
(* The calls that reach the registers; the variants for a private pool and *)
(* the generic ones only choose the registers.                              *)

Call(op, rc, arg) ==
  calls < MaxCalls /\ calls' = calls + 1 /\ last' = [op |-> op, rc |-> rc, arg |-> arg]

\* IF the padding is refused nothing is written
DmaWriteBd ==
  /\ desc.IsReady = 1 /\ desc.TileType = kind[2]
  /\ PaddingResult(kind, desc) = "OK"
  /\ Call("WriteBd", "OK", 0)
  /\ desc' = IF IsAie4(kind) /\ kind[2] = "SHIM" THEN Aie4ShimNxtBd(kind, app, desc) ELSE desc
  /\ bd' = Written(kind, pvt, bd, desc')
  /\ UNCHANGED <<kind, app, pvt>>

\* the descriptor is cleared before it is filled: it is no longer ready, and
\* says it is one of an AIE tile
DmaReadBd ==
  /\ desc.TileType = kind[2]
  /\ Call("ReadBd", "OK", 0)
  /\ \E g \in {0, 1} : desc' = BdRead(kind, bd, g)
  /\ UNCHANGED <<kind, app, pvt, bd>>

SetField(w, f, v) == [w EXCEPT ![f] = v % FieldSize(kind, f)]

\* Mutant: the whole word is written, not the bits of the length.
UpdateBdLenWord(len) ==
  bd' = [i \in DOMAIN bd |->
           IF "BufferLen" \in DOMAIN bd[i]
           THEN [f \in DOMAIN bd[i] |-> IF f = "BufferLen" THEN len ELSE 0] ELSE bd[i]]
UpdateBdLen(len) ==
  bd' = [i \in DOMAIN bd |-> IF "BufferLen" \in DOMAIN bd[i] THEN SetField(bd[i], "BufferLen", len) ELSE bd[i]]
DmaUpdateBdLen ==
  \E len \in Lens :
    Call("UpdateBdLen", "OK", len) /\ UpdateBdLen(Words(len)) /\ UNCHANGED <<kind, app, pvt, desc>>

\* DmaMod->UpdateBdAddr of an AIE tile and of a memory tile
UpdateBdAddr(a) ==
  bd' = [i \in DOMAIN bd |-> IF "BaseAddr" \in DOMAIN bd[i] THEN SetField(bd[i], "BaseAddr", a) ELSE bd[i]]

\* of a shim tile: the high half is a masked write
ShimUpdateBdAddr(a) ==
  bd' = [i \in DOMAIN bd |->
           CASE "AddrLow" \in DOMAIN bd[i]  -> SetField(bd[i], "AddrLow", a)
             [] "AddrHigh" \in DOMAIN bd[i] -> SetField(bd[i], "AddrHigh", a \div 2^AddrLowBits)
             [] OTHER -> bd[i]]
Aie2PSShimUpdateBdAddr(a) == ShimUpdateBdAddr(a)

\* AIE4 writes the whole word of the high half
Aie4ShimUpdateBdAddr(a) ==
  bd' = [i \in DOMAIN bd |->
           CASE "AddrLow" \in DOMAIN bd[i]  -> SetField(bd[i], "AddrLow", a)
             [] "AddrHigh" \in DOMAIN bd[i] ->
                  [f \in DOMAIN bd[i] |-> IF f = "AddrHigh" THEN a \div 2^AddrLowBits ELSE 0]
             [] OTHER -> bd[i]]

\* AIE puts the low bits of the address where the high ones belong
AieShimUpdateBdAddr(a) ==
  bd' = [i \in DOMAIN bd |->
           CASE "AddrLow" \in DOMAIN bd[i]  -> SetField(bd[i], "AddrLow", a)
             [] "AddrHigh" \in DOMAIN bd[i] -> SetField(bd[i], "AddrHigh", a % 2^AddrLowBits)
             [] OTHER -> bd[i]]

DmaUpdateBdAddr ==
  \E a \in Addrs :
    /\ Aligned(a) /\ a <= Prop(kind).AddrMax
    /\ Call("UpdateBdAddr", "OK", a)
    /\ CASE kind[2] # "SHIM" -> UpdateBdAddr(Word32(a))
         [] kind = <<"AIE", "SHIM">> -> AieShimUpdateBdAddr(a)
         [] IsAie4(kind) /\ kind[2] = "SHIM" -> Aie4ShimUpdateBdAddr(a)
         [] kind = <<"AIE2PS", "SHIM">> -> Aie2PSShimUpdateBdAddr(a)
         [] OTHER -> ShimUpdateBdAddr(a)
    /\ UNCHANGED <<kind, app, pvt, desc>>

FieldOf(w, f) == LET i == CHOOSE i \in DOMAIN w : f \in DOMAIN w[i] IN w[i][f]

\* XAie_DmaGetBdLen: before AIE4 a descriptor that is not valid has no length
BdLen ==
  IF ~IsAie4(kind) /\ FieldOf(bd, "ValidBd") # 1 THEN 0
  ELSE 4 * (FieldOf(bd, "BufferLen") + Prop(kind).LenActualOffset)
DmaGetBdLen == Call("GetBdLen", "OK", BdLen) /\ UNCHANGED <<kind, app, pvt, desc, bd>>

-----------------------------------------------------------------------------
Init ==
  /\ kind \in Kinds
  /\ app \in IF IsAie4(kind) /\ kind[2] # "TILE" THEN {"single", "dualA"} ELSE {"single"}
  /\ pvt \in IF IsAie4(kind) /\ kind[2] = "MEM" THEN {TRUE}
             ELSE IF IsAie4(kind) /\ kind[2] = "SHIM" THEN BOOLEAN ELSE {FALSE}
  /\ desc = DmaDescInit(kind)
  /\ bd = [i \in DOMAIN Word(kind) |-> [f \in Word(kind)[i] |-> 0]]
  /\ last = [op |-> "None", rc |-> "OK", arg |-> 0]
  /\ calls = 0

Next ==
  \/ DmaLockConfig \/ DmaSetPkt \/ DmaSetOutofOrderBdId \/ DmaSetDoubleBuffer
  \/ DmaSetAddrLen \/ DmaSetAddrOffsetLen \/ DmaSetMultiDimAddr \/ DmaSetBdIteration
  \/ DmaEnableCompression \/ DmaConfigFifoMode \/ DmaSetNextBd \/ DmaEnableBd \/ DmaDisableBd
  \/ DmaSetAxi \/ DmaSetAxi_AxUser \/ DmaSetInterleaveEnable \/ DmaSetPadding \/ DmaSetZeroPadding
  \/ DmaTlastEnable \/ DmaTlastDisable
  \/ DmaWriteBd \/ DmaReadBd \/ DmaUpdateBdLen \/ DmaUpdateBdAddr \/ DmaGetBdLen

Spec == Init /\ [][Next]_vars

-----------------------------------------------------------------------------
(* Properties.                                                             *)

\* Every word holds the fields that the generation's register table puts in
\* it: a writer that moves a field to another word overwrites a neighbour
\* (_XAie*DmaWriteBd against the BdProp tables).
FieldsInTheirRegister == \A i \in DOMAIN bd \cup DOMAIN Word(kind) : DOMAIN bd[i] = Word(kind)[i]

\* the registers hold the descriptor as it is
InSync == desc.IsReady = 1 /\ bd = Written(kind, pvt, bd, desc)

Register ==
  [PktEn |-> "EnPkt", PktType |-> "PktType", PktId |-> "PktId", OutofOrderBdId |-> "OutofOrderBdId",
   NxtBd |-> "NxtBd", UseNxtBd |-> "UseNxtBd", ValidBd |-> "ValidBd", Length |-> "BufferLen",
   Address_2 |-> "BaseAddr_B", EnDoubleBuff |-> "EnDoubleBuff", FifoMode |-> "FifoMode",
   EnCompression |-> "EnCompression", TlastSuppress |-> "TlastSuppress", SMID |-> "SMID",
   BurstLen |-> "BurstLen", AxQos |-> "AxQos", AxCache |-> "AxCache", SecureAccess |-> "SecureAccess",
   AxUser |-> "AxUser", IOCoherence |-> "IOCoherence", KeyIdx |-> "KeyIdx", DataReuse |-> "DataReuse",
   X_Incr |-> "X_Incr", X_Wrap |-> "X_Wrap", X_Offset |-> "X_Offset", Y_Incr |-> "Y_Incr",
   Y_Wrap |-> "Y_Wrap", Y_Offset |-> "Y_Offset", IntrleaveBufSelect |-> "BuffSelect",
   IntrleaveCount |-> "IntrleaveCnt", CurrPtr |-> "CurrPtr", EnInterleaved |-> "EnIntrleaved",
   IterCurr |-> "IterCurr", IterWrap |-> "Iter_Wrap", IterStep |-> "Iter_StepSize"]
DimNames == [i \in 0..3 |-> <<"D0", "D1", "D2", "D3">>[i + 1]]

\* the fields in the words of the descriptor; a private one has no word 4
Stored == UNION {Word(kind)[i] : i \in DOMAIN bd \ (IF pvt /\ kind[2] = "SHIM" THEN {5} ELSE {})}

\* what the readers are known to lose: AIE reads the wrap of the second
\* dimension into the first, and no value to acquire the second lock with; AIE4 adds one to steps that are written as they are
LostInReading ==
  CASE kind = <<"AIE", "TILE">> -> {"X_Wrap", "Y_Wrap"}
    [] IsAie4(kind) /\ kind[2] # "MEM" -> {"IterStep"}
    [] OTHER -> {}
StepsRead == ~(IsAie4(kind) /\ kind[2] # "MEM")
\* a count of zero comes back as one
Interleaves == desc.IntrleaveCount > 0
\* XAie_DmaSetDoubleBuffer holds the length in words that is set at the time
\* against the limit in bytes, and so accepts the limit as an address
SecondFits == desc.Address_2 < FieldSize(kind, "BaseAddr_B")
\* AIE-ML takes a wrap one above the field, which is stored as zero
WrapFits(i) == desc.Wrap[i] <= Prop(kind).WrapMax
\* AIE4 reads the padding of dimensions 1 and 2 from other words, AIE2PS leaves
\* out its high bits
PadFits(i) ==
  i = 0 \/ (~IsAie4(kind) /\ desc.Before[i] < PadSize(kind, DimNames[i] \o "_PadBefore")
                          /\ desc.After[i] < PadSize(kind, DimNames[i] \o "_PadAfter"))

\* AIE4's memory tile cuts lock ids to 8 bits: lock 448 comes back as 192
IdFits(id) == IsAie4(kind) /\ kind[2] = "MEM" => id < 256

LockReadBack(l, m) ==
  /\ IdFits(l.AcqId) => l.AcqId = m.AcqId
  /\ l.AcqEn = m.AcqEn
  /\ l.AcqVal >= 0 /\ ("LckAcqVal" \in Stored \/ IsAie(kind)) => l.AcqVal = m.AcqVal
  /\ l.RelVal >= 0 /\ ("LckRelVal" \in Stored \/ IsAie(kind)) => l.RelVal = m.RelVal
  /\ "LckRelId" \in Stored /\ IdFits(l.RelId) => l.RelId = m.RelId
  /\ IsAie(kind) => /\ l.RelEn = m.RelEn
                    /\ l.AcqValEn = m.AcqValEn /\ l.RelValEn = m.RelValEn

DescReadBack(d, e) ==
  /\ d.Address = e.Address
  /\ \A f \in DOMAIN Register \ LostInReading :
       /\ Register[f] \in Stored
       /\ f = "IntrleaveCount" => Interleaves
       /\ f = "Address_2" => SecondFits
       => d[f] = e[f]
  /\ \A i \in 0..3 :
       /\ StepsRead /\ DimNames[i] \o "_StepSize" \in Stored /\ d.StepSize[i] > 0 => d.StepSize[i] = e.StepSize[i]
       /\ DimNames[i] \o "_Wrap" \in Stored /\ WrapFits(i) => d.Wrap[i] = e.Wrap[i]
       /\ DimNames[i] \o "_PadAfter" \in Stored /\ PadFits(i) =>
            d.Before[i] = e.Before[i] /\ d.After[i] = e.After[i]
  /\ LockReadBack(d.Lock, e.Lock)
  /\ kind = <<"AIE", "TILE">> => LockReadBack(d.Lock_2, [e.Lock_2 EXCEPT !.AcqVal = d.Lock_2.AcqVal])

\* XAie_DmaReadBd gives back the descriptor that was written, and
\* XAie_DmaGetBdLen its length, up to what the readers are known to lose: each
\* field is cut, moved and joined in two functions of a hundred lines that
\* nothing but the tables connects, and every generation has its own.
ReadBack ==
  last.op \in {"WriteBd", "GetBdLen"} /\ InSync =>
    /\ \A g \in {0, 1} : DescReadBack(desc, BdRead(kind, bd, g))
    /\ last.op = "GetBdLen" /\ (desc.ValidBd = 1 \/ IsAie4(kind)) =>
         last.arg = 4 * (desc.Length + Prop(kind).LenActualOffset)

\* the updates that leave something else than a write of the same descriptor:
\* AIE's and AIE4's shim tiles, and an address at the limit, which only the
\* update accepts
UpdateDiffers(a) ==
  \/ kind[2] = "SHIM" /\ (IsAie(kind) \/ IsAie4(kind))
  \/ a = Prop(kind).AddrMax

\* Updating the length or the address of a written descriptor leaves the words
\* that writing the descriptor with that length or address would
\* (XAie_DmaUpdateBdLen and XAie_DmaUpdateBdAddr against XAie_DmaWriteBd): an
\* update is a second, partial writer with its own masks and shifts.
UpdateAgreesWithWrite ==
  [][/\ last'.op = "UpdateBdLen" /\ calls' # calls /\ InSync =>
          bd' = Written(kind, pvt, bd, [desc EXCEPT !.Length = Words(last'.arg)])
     /\ last'.op = "UpdateBdAddr" /\ calls' # calls /\ ~UpdateDiffers(last'.arg) /\ InSync =>
          bd' = Written(kind, pvt, bd, [desc EXCEPT !.Address = Word32(last'.arg)])]_vars

=============================================================================
