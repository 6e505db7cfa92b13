------------------------------ MODULE MCDmaBd ------------------------------
(* Every generation and kind of tile with a table or a function of its own: *)
(* the others have the tables of AIE-ML, word for word.                     *)
EXTENDS DmaBd

ASSUME SameTables ==
  /\ Aie2IpuMods.TILE = AieMlMods.TILE /\ Aie2IpuMods.MEM = AieMlMods.MEM
  /\ Aie2PMods.TILE = AieMlMods.TILE /\ Aie2PMods.MEM = AieMlMods.MEM
  /\ Aie2PSMods.TILE = AieMlMods.TILE

MCKinds ==
  {"AIE", "AIEML", "AIE2IPU", "AIE2P", "AIE2PS", "AIE4", "AIE4MDS"} \X {"SHIM"}
  \cup {"AIE", "AIEML", "AIE4", "AIE4MDS"} \X {"TILE"}
  \cup {"AIEML", "AIE2PS", "AIE4", "AIE4MDS"} \X {"MEM"}
=============================================================================
