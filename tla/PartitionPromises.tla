------------------------- MODULE PartitionPromises -------------------------
(***************************************************************************)
(* Proofs about what calls promise of a partition: what initialization,    *)
(* teardown and tile requests leave behind when they report success, for   *)
(* every device, partition, option and request.                            *)
(*                                                                         *)
(* A promise is a fact about the registers or the bitmap.  The plan of its *)
(* call has a step that brings the fact about and none behind it that ends *)
(* it (PartitionProofs: Leads); as steps are done the rest of the plan     *)
(* keeps leading to the fact, and an empty plan is one that has led to it. *)
(***************************************************************************)
EXTENDS PartitionProofs, WellFoundedInduction

----------------------------------------------------------------------------
(* What calls promise: what a step that succeeds does to the registers.     *)

\* Nothing was lost and nothing refused, up to and including the step.
Fine == call'.lost = {} /\ call'.rc = "ok"

\* The kinds of steps that write a register.
Writers == [clk |-> {"clk", "tile", "columns"}, up |-> {"rst", "tile"}, rst |-> {"rst"},
            shim |-> {"shim"}, iso |-> {"iso", "rst"}, axi |-> {"axi"}, nsu |-> {"nsu"},
            irq |-> {"irq"}, nmu |-> {"nmu"}, mem |-> {"zero", "clear"}, uc |-> {"uc"},
            split |-> {"split"}, inter |-> {"inter", "interloc", "rst"}, app |-> {"app"},
            npi |-> {"npi"}]
Regs == ColumnRegs \cup {"npi"}
Untouched(reg) == Now.do \notin Writers[reg] => hw'[reg] = hw[reg]

LEMMA FineStep ==
    ASSUME TypeOK, ~Idle, Fine
    PROVE  /\ ~Noticed /\ ~Unnoticed
           /\ Fail({}) => Now.do \notin {"nmu", "tile", "interloc"}
           /\ \A kinds : Fail(kinds) => kinds = {}
<1>1. Now \in Planned(gen, inst, call.op) /\ call.rc \in {"ok", "error"}
  BY NowOK DEF Plan, TypeOK, CallOK
<1>2. Now.do \in {"nmu", "tile", "interloc"} => Now.fail \notin {"drop", "goOn"}
  BY <1>1 DEF Planned, StepsIn
<1>3. \A kinds : Fail(kinds) => /\ call'.lost = call.lost \cup kinds
                                /\ Now.fail \notin {"drop", "goOn"} => call'.rc = "error"
  BY DEF Fail, TypeOK, CallOK
<1>4. Unnoticed => Now.do \in call'.lost
  BY DEF Unnoticed, TypeOK, CallOK
<1> QED BY <1>2, <1>3, <1>4 DEF Noticed, Fine

\* A step of each kind, done.
LEMMA ColumnsFine ==
    ASSUME TypeOK, ColumnsStep, Fine
    PROVE  Succeed /\ hw' = Written(hw, Now.do, Now.arg, PartCols) /\ UNCHANGED <<gen, inst, used>>
<1>1. ~Idle
  BY DEF ColumnsStep, Doing
<1>2. ~Noticed
  BY <1>1, FineStep
<1>3. ColumnLoop = PartCols
  BY DEF ColumnLoop, PartCols, FirstCol, LastCol
<1> QED BY <1>2, <1>3 DEF ColumnsStep

LEMMA WrittenRegs ==
    ASSUME NEW h, HwOK(h), NEW r \in PerColumn, NEW v, NEW cs,
           r = "rst" => v \in BOOLEAN
    PROVE  \A reg \in Regs : r \notin Writers[reg] => Written(h, r, v, cs)[reg] = h[reg]
<1> DEFINE w == Written(h, r, v, cs)
<1>0. DOMAIN h = Regs \cup {"prot", "locked"}
  BY DEF HwOK, Regs
<1>1. CASE r = "clk"
  <2>1. w = [h EXCEPT !.clk = Put(@, cs, v)]
    BY <1>1 DEF Written, ClkWritten
  <2> HIDE DEF w
  <2>2. \A reg \in Regs \ {"clk"} : w[reg] = h[reg]
    BY <1>0, <2>1
  <2>3. r \in Writers["clk"]
    BY <1>1 DEF Writers
  <2> QED BY <2>2, <2>3 DEF w
<1>2. CASE r = "rst"
  <2>1. w = IF v THEN AfterReset(h, cs) ELSE [h EXCEPT !.rst = Put(@, cs, FALSE)]
    BY <1>2 DEF Written, RstWritten
  <2> HIDE DEF w
  <2>2. \A reg \in Regs \ {"rst", "up", "iso", "inter"} : w[reg] = h[reg]
    <3>1. \A reg \in Regs \ {"rst", "up", "iso", "inter"} : AfterReset(h, cs)[reg] = h[reg]
      BY <1>0 DEF AfterReset
    <3>2. \A reg \in Regs \ {"rst", "up", "iso", "inter"} : [h EXCEPT !.rst = Put(@, cs, FALSE)][reg] = h[reg]
      BY <1>0
    <3> QED BY <1>2, <2>1, <3>1, <3>2
  <2>3. r \in Writers["rst"] /\ r \in Writers["up"] /\ r \in Writers["iso"] /\ r \in Writers["inter"]
    BY <1>2 DEF Writers
  <2> QED BY <2>2, <2>3 DEF w
<1>3. CASE r \in {"shim", "nsu", "irq", "iso", "axi", "uc", "split", "inter"}
  <2>1. \E x : w = [h EXCEPT ![r] = x]
    BY <1>3 DEF Written, ShimWritten, NsuWritten, IrqWritten, IsoWritten, AxiWritten, UcWritten,
                SplitWritten, InterWritten
  <2> HIDE DEF w
  <2>2. \A reg \in Regs \ {r} : w[reg] = h[reg]
    BY <1>0, <2>1
  <2>3. r \in Writers[r]
    BY <1>3 DEF Writers
  <2> QED BY <2>2, <2>3 DEF w
<1>4. CASE r = "zero"
  <2>1. w = [h EXCEPT !.mem = Put(@, cs, "zero")]
    BY <1>4 DEF Written, ZeroWritten
  <2> HIDE DEF w
  <2>2. \A reg \in Regs \ {"mem"} : w[reg] = h[reg]
    BY <1>0, <2>1
  <2>3. r \in Writers["mem"]
    BY <1>4 DEF Writers
  <2> QED BY <2>2, <2>3 DEF w
<1> QED BY <1>1, <1>2, <1>3, <1>4 DEF PerColumn

LEMMA StepUntouched ==
    ASSUME TypeOK, CallStep, Fine
    PROVE  /\ ~Idle /\ Succeed /\ UNCHANGED <<gen, inst>> /\ Now.do # "unsupported"
           /\ \A reg \in Regs : Untouched(reg)
           /\ Now.do \notin {"mark", "unmark", "tile", "columns"} => used' = used
<1>0. ~Idle /\ UNCHANGED <<gen, inst>> /\ HwOK(hw)
  BY CallMoves DEF TypeOK
<1>1. ~Noticed /\ ~Unnoticed /\ (\A kinds : Fail(kinds) => kinds = {})
      /\ (Fail({}) => Now.do \notin {"nmu", "tile", "interloc"})
  BY <1>0, FineStep
<1>2. DOMAIN hw = Regs \cup {"prot", "locked"}
  BY <1>0 DEF HwOK, Regs
<1> DEFINE Goal == /\ Succeed /\ Now.do # "unsupported"
                   /\ \A reg \in Regs : Untouched(reg)
                   /\ Now.do \notin {"mark", "unmark", "tile", "columns"} => used' = used
<1> SUFFICES Goal
  BY <1>0
<1>3. ASSUME Succeed, Now.do # "unsupported", hw' = hw,
             Now.do \notin {"mark", "unmark", "tile", "columns"} => used' = used
      PROVE Goal
  BY <1>3 DEF Untouched
<1>4. CASE ProtStep
  <2>1. Now.do = "prot" /\ Succeed /\ used' = used
        /\ hw' = NpiSetLock([hw EXCEPT !.prot = Now.arg], TRUE)
    BY <1>1, <1>4 DEF ProtStep, NpiStep, Doing
  <2>2. \A reg \in Regs : hw'[reg] = hw[reg]
    BY <1>2, <2>1 DEF NpiSetLock, Regs, ColumnRegs
  <2> QED BY <2>1, <2>2 DEF Untouched
<1>5. CASE ShimResetStep
  <2>1. Now.do = "npi" /\ Succeed /\ used' = used
        /\ hw' = NpiSetLock([hw EXCEPT !.npi = Now.arg], TRUE)
    BY <1>1, <1>5 DEF ShimResetStep, NpiStep, Doing
  <2>2. \A reg \in Regs \ {"npi"} : hw'[reg] = hw[reg]
    BY <1>2, <2>1 DEF NpiSetLock, Regs, ColumnRegs
  <2>3. Now.do \in Writers["npi"]
    BY <2>1 DEF Writers
  <2> QED BY <2>1, <2>2, <2>3 DEF Untouched
<1>6. CASE ColumnsStep
  <2>1. Succeed /\ hw' = Written(hw, Now.do, Now.arg, PartCols) /\ used' = used
        /\ Now.do \in PerColumn
    BY <1>6, ColumnsFine DEF ColumnsStep, Doing
  <2>2. Now \in StepSet
    BY <1>0, NowOK
  <2>3. Now.do = "rst" => Now.arg \in BOOLEAN
    BY <2>2 DEF StepSet
  <2>4. \A reg \in Regs : Now.do \notin Writers[reg] => hw'[reg] = hw[reg]
    BY <1>0, <2>1, <2>3, WrittenRegs
  <2> QED BY <2>1, <2>4 DEF Untouched, PerColumn
<1>7. CASE NmuStep
  <2>1. Now.do = "nmu" /\ Succeed /\ used' = used /\ hw' = [hw EXCEPT !.nmu[Now.arg] = TRUE]
    BY <1>1, <1>7 DEF NmuStep, Doing
  <2>2. \A reg \in Regs \ {"nmu"} : hw'[reg] = hw[reg]
    BY <1>2, <2>1 DEF Regs, ColumnRegs
  <2>3. Now.do \in Writers["nmu"]
    BY <2>1 DEF Writers
  <2> QED BY <2>1, <2>2, <2>3 DEF Untouched
<1>8. CASE AppStep
  <2>1. ~Fail({"app"})
    BY <1>1
  <2>2. Now.do = "app" /\ Succeed /\ used' = used /\ \E x : hw' = [hw EXCEPT !.app = x]
    <3>1. Now.do = "app" /\ Succeed /\ used' = used
          /\ \E x : hw' = [hw EXCEPT !.app[FirstCol] = x]
      BY <1>1, <1>8, <2>1 DEF AppStep, Doing
    <3>2. PICK x : hw' = [hw EXCEPT !.app[FirstCol] = x]
      BY <3>1
    <3>3. hw' = [hw EXCEPT !.app = [hw.app EXCEPT ![FirstCol] = x]]
      BY <3>2
    <3> QED BY <3>1, <3>3
  <2>3. \A reg \in Regs \ {"app"} : hw'[reg] = hw[reg]
    BY <1>2, <2>2 DEF Regs, ColumnRegs
  <2> QED BY <2>2, <2>3 DEF Untouched, Writers
<1>9. CASE Mark \/ Unmark
  <2>1. Now.do \in {"mark", "unmark"} /\ Succeed /\ hw' = hw
    BY <1>9 DEF Mark, Unmark, Doing
  <2> QED BY <1>3, <2>1
<1>10. CASE AieTileStep
  <2> DEFINE asked == AieClocks(hw, FirstCol + Now.arg[1], Now.arg[2], TopInUse(Now.arg[1]))
  <2>1. Now.do = "tile" /\ Succeed /\ (hw' = hw \/ hw' = asked)
    BY <1>1, <1>10 DEF AieTileStep, Doing
  <2>2. \A reg \in Regs \ {"clk", "up"} : asked[reg] = hw[reg]
    BY <1>2 DEF AieClocks, Regs, ColumnRegs
  <2> HIDE DEF asked
  <2>3. Now.do \in Writers["clk"] /\ Now.do \in Writers["up"]
    BY <2>1 DEF Writers
  <2> QED BY <2>1, <2>2, <2>3 DEF Untouched
<1>11. CASE MlTileStep \/ Aie4TileStep
  <2>1. Now.do = "tile" /\ Succeed
        /\ (hw' = hw \/ hw' = [hw EXCEPT !.clk[FirstCol + Now.arg[1]] = TRUE])
    BY <1>1, <1>11 DEF MlTileStep, Aie4TileStep, ColumnRequest, Doing
  <2>2. \A reg \in Regs \ {"clk"} : hw'[reg] = hw[reg]
    BY <1>2, <2>1 DEF Regs, ColumnRegs
  <2>3. Now.do \in Writers["clk"]
    BY <2>1 DEF Writers
  <2> QED BY <2>1, <2>2, <2>3 DEF Untouched
<1>12. CASE InvalidTile
  BY <1>1, <1>12 DEF InvalidTile, Doing
<1>13. CASE ColumnClkStep
  <2>1. Now.do = "columns" /\ Succeed /\ \E x : hw' = [hw EXCEPT !.clk = x]
    BY <1>1, <1>13 DEF ColumnClkStep, Doing, ClkWritten
  <2>2. \A reg \in Regs \ {"clk"} : hw'[reg] = hw[reg]
    BY <1>2, <2>1 DEF Regs, ColumnRegs
  <2>3. Now.do \in Writers["clk"]
    BY <2>1 DEF Writers
  <2> QED BY <2>1, <2>2, <2>3 DEF Untouched
<1>14. CASE InterlocStep
  <2>1. Now.do = "interloc" /\ Succeed /\ used' = used
        /\ (hw' = hw \/ \E c, v : hw' = [hw EXCEPT !.inter[c] = v])
    BY <1>1, <1>14 DEF InterlocStep, Doing
  <2>2. \A reg \in Regs \ {"inter"} : hw'[reg] = hw[reg]
    BY <1>2, <2>1 DEF Regs, ColumnRegs
  <2>3. Now.do \in Writers["inter"]
    BY <2>1 DEF Writers
  <2> QED BY <2>1, <2>2, <2>3 DEF Untouched
<1>15. CASE ClearStep
  <2>1. Now.do = "clear" /\ Succeed /\ used' = used /\ \E x : hw' = [hw EXCEPT !.mem = x]
    BY <1>15 DEF ClearStep, Doing
  <2>2. \A reg \in Regs \ {"mem"} : hw'[reg] = hw[reg]
    BY <1>2, <2>1 DEF Regs, ColumnRegs
  <2>3. Now.do \in Writers["mem"]
    BY <2>1 DEF Writers
  <2> QED BY <2>1, <2>2, <2>3 DEF Untouched
<1>16. CASE Unsupported
  <2>1. Fail({"unsupported"})
    BY <1>16 DEF Unsupported
  <2> QED BY <1>1, <2>1
<1>17. CASE InterRefused
  <2>1. Fail({"inter"})
    BY <1>17 DEF InterRefused
  <2> QED BY <1>1, <2>1
<1> HIDE DEF Goal
<1> QED BY <1>4, <1>5, <1>6, <1>7, <1>8, <1>9, <1>10, <1>11, <1>12, <1>13, <1>14, <1>15, <1>16, <1>17 DEF CallStep

\* The action of a kind of steps.
LEMMA StepKinds ==
    ASSUME CallStep
    PROVE  /\ Now.do \in PerColumn \ {"inter"} => ColumnsStep
           /\ Now.do = "npi" => ShimResetStep
           /\ Now.do = "nmu" => NmuStep
           /\ Now.do = "mark" => Mark
           /\ Now.do = "unmark" => Unmark
           /\ Now.do = "tile" => AieTileStep \/ MlTileStep \/ Aie4TileStep \/ InvalidTile
           /\ Now.do = "columns" => ColumnClkStep
           /\ Now.do = "clear" => ClearStep
<1>1. /\ ProtStep => Now.do = "prot"
      /\ ShimResetStep => Now.do = "npi"
      /\ ColumnsStep => Now.do \in PerColumn
      /\ InterRefused => Now.do = "inter"
      /\ NmuStep => Now.do = "nmu"
      /\ AppStep => Now.do = "app"
  BY DEF ProtStep, ShimResetStep, ColumnsStep, InterRefused, NmuStep, AppStep, Doing
<1>2. /\ Mark => Now.do = "mark"
      /\ Unmark => Now.do = "unmark"
      /\ AieTileStep => Now.do = "tile"
      /\ MlTileStep => Now.do = "tile"
      /\ Aie4TileStep => Now.do = "tile"
      /\ InvalidTile => Now.do = "tile"
  BY DEF Mark, Unmark, AieTileStep, MlTileStep, Aie4TileStep, InvalidTile, Doing
<1>3. /\ ColumnClkStep => Now.do = "columns"
      /\ InterlocStep => Now.do = "interloc"
      /\ ClearStep => Now.do = "clear"
      /\ Unsupported => Now.do = "unsupported"
  BY DEF ColumnClkStep, InterlocStep, ClearStep, Unsupported, Doing
<1> QED BY <1>1, <1>2, <1>3 DEF CallStep, PerColumn

\* What is written to the columns of the partition.
LEMMA ColumnValues ==
    ASSUME TypeOK, CallStep, Fine, NEW c \in PartCols
    PROVE  /\ Now.do = "clk" => hw'.clk[c] = Now.arg
           /\ Now.do = "rst" => hw'.rst[c] = Now.arg
           /\ Now.do = "rst" /\ Now.arg = TRUE => hw'.up[c] = AllUp /\ hw'.iso[c] = {}
           /\ Now.do = "rst" /\ Now.arg = FALSE => hw'.up[c] = hw.up[c] /\ hw'.iso[c] = hw.iso[c]
           /\ Now.do = "shim" => hw'.shim[c] = Now.arg
           /\ Now.do = "nsu" /\ IsShimNoc(c) => hw'.nsu[c] = Now.arg
           /\ Now.do = "irq" /\ IsShimNoc(c) => hw'.irq[c] = Now.arg
           /\ Now.do = "iso" => hw'.iso[c] = Isolation(c, Now.arg)
           /\ Now.do = "zero" => hw'.mem[c] = "zero"
<1>1. DOMAIN hw = Regs \cup {"prot", "locked"} /\ c \in Cols /\ Now \in StepSet
  BY StepUntouched, NowOK, PartColsOK DEF TypeOK, HwOK, Regs
<1>2. Now.do \in PerColumn \ {"inter"} => hw' = Written(hw, Now.do, Now.arg, PartCols)
  BY StepKinds, ColumnsFine
<1>3. Now.do = "clk" => hw'.clk[c] = Now.arg
  BY <1>1, <1>2 DEF PerColumn, Written, ClkWritten, Put, Regs, ColumnRegs
<1>4. ASSUME Now.do = "rst"
      PROVE  /\ hw'.rst[c] = Now.arg
             /\ Now.arg = TRUE => hw'.up[c] = AllUp /\ hw'.iso[c] = {}
             /\ Now.arg = FALSE => hw'.up[c] = hw.up[c] /\ hw'.iso[c] = hw.iso[c]
  <2>1. hw' = RstWritten(hw, Now.arg, PartCols) /\ Now.arg \in BOOLEAN
    BY <1>1, <1>2, <1>4 DEF Written, PerColumn, StepSet
  <2>2. CASE Now.arg = TRUE
    <3>1. hw' = AfterReset(hw, PartCols)
      BY <2>1, <2>2 DEF RstWritten
    <3> QED BY <1>1, <2>2, <3>1 DEF AfterReset, Put, Regs, ColumnRegs
  <2>3. CASE Now.arg = FALSE
    <3>1. hw' = [hw EXCEPT !.rst = Put(@, PartCols, FALSE)]
      BY <2>1, <2>3 DEF RstWritten
    <3> QED BY <1>1, <2>3, <3>1 DEF Put, Regs, ColumnRegs
  <2> QED BY <2>1, <2>2, <2>3
<1>5. Now.do = "shim" => hw'.shim[c] = Now.arg
  BY <1>1, <1>2 DEF PerColumn, Written, ShimWritten, Put, Regs, ColumnRegs
<1>6. Now.do = "nsu" /\ IsShimNoc(c) => hw'.nsu[c] = Now.arg
  BY <1>1, <1>2 DEF PerColumn, Written, NsuWritten, NocCols, Put, Regs, ColumnRegs
<1>7. Now.do = "irq" /\ IsShimNoc(c) => hw'.irq[c] = Now.arg
  BY <1>1, <1>2 DEF PerColumn, Written, IrqWritten, NocCols, Put, Regs, ColumnRegs
<1>8. Now.do = "iso" => hw'.iso[c] = Isolation(c, Now.arg)
  BY <1>1, <1>2 DEF PerColumn, Written, IsoWritten, Regs, ColumnRegs
<1>9. Now.do = "zero" => hw'.mem[c] = "zero"
  BY <1>1, <1>2 DEF PerColumn, Written, ZeroWritten, Put, Regs, ColumnRegs
<1> QED BY <1>3, <1>4, <1>5, <1>6, <1>7, <1>8, <1>9

LEMMA OtherValues ==
    ASSUME TypeOK, CallStep, Fine
    PROVE  /\ Now.do = "npi" => hw'.npi = Now.arg
           /\ Now.do = "nmu" => /\ \A c \in Cols : hw.nmu[c] = TRUE => hw'.nmu[c] = TRUE
                                /\ Now.arg \in Cols => hw'.nmu[Now.arg] = TRUE
           /\ Now.do = "clear" => \A c \in PartCols : hw.mem[c] = "zero" => hw'.mem[c] = "zero"
<1>1. DOMAIN hw = Regs \cup {"prot", "locked"} /\ DOMAIN hw.nmu = Cols /\ DOMAIN hw.mem = Cols
      /\ ~Idle /\ PartCols \subseteq Cols
  BY StepUntouched, PartColsOK DEF TypeOK, HwOK, Regs, ColumnRegs
<1>2. ~Noticed /\ ~Unnoticed /\ (Fail({}) => Now.do # "nmu")
  BY <1>1, FineStep
<1>3. Now.do = "npi" => hw'.npi = Now.arg
  BY <1>1, <1>2, StepKinds DEF ShimResetStep, NpiStep, NpiSetLock, Regs, ColumnRegs
<1>4. ASSUME Now.do = "nmu"
      PROVE  /\ \A c \in Cols : hw.nmu[c] = TRUE => hw'.nmu[c] = TRUE
             /\ Now.arg \in Cols => hw'.nmu[Now.arg] = TRUE
  <2>1. hw' = [hw EXCEPT !.nmu[Now.arg] = TRUE]
    BY <1>2, <1>4, StepKinds DEF NmuStep
  <2>2. hw'.nmu = [hw.nmu EXCEPT ![Now.arg] = TRUE]
    BY <1>1, <2>1 DEF Regs, ColumnRegs
  <2> QED BY <1>1, <2>2
<1>5. ASSUME Now.do = "clear"
      PROVE  \A c \in PartCols : hw.mem[c] = "zero" => hw'.mem[c] = "zero"
  <2>1. ClearStep
    BY <1>5, StepKinds
  <2>2. \A c \in Cols : hw'.mem[c] = "zero" \/ hw'.mem[c] = hw.mem[c]
    BY <1>1, <2>1 DEF ClearStep, Regs, ColumnRegs
  <2> QED BY <1>1, <2>2
<1> QED BY <1>3, <1>4, <1>5

----------------------------------------------------------------------------
(* The facts a call promises, the steps that establish and that end them.   *)

On(do, v) == {s \in StepSet : s.do = do /\ s.arg = v}
Of(kinds) == {s \in StepSet : s.do \in kinds}
Void == Of({"unsupported"})

RstOff == \A c \in PartCols : hw.rst[c] = FALSE
ShimOff == \A c \in PartCols : hw.shim[c] = FALSE
NpiOff == hw.npi = FALSE
IsoClear == \A c \in PartCols : hw.iso[c] = {}
Bordered == \A c \in PartCols : BorderSet(hw.iso[c], c)
NsuOn == \A c \in PartCols : IsShimNoc(c) => hw.nsu[c] = TRUE
IrqOn == \A c \in PartCols : IsShimNoc(c) => hw.irq[c] = TRUE
MemZero == \A c \in PartCols : hw.mem[c] = "zero"
ClocksOff == \A c \in PartCols : hw.clk[c] = FALSE
NmuOn(k) == k \in PartCols => hw.nmu[k] = TRUE

\* A step brings about a fact when it is in "good" and keeps it when not in "bad".
Moves(fact, after, good, bad) ==
    /\ Now \in good => after
    /\ fact /\ Now \notin bad => after

LEMMA FactsMove ==
    ASSUME TypeOK, CallStep, Fine
    PROVE  /\ Moves(RstOff, RstOff', On("rst", FALSE), On("rst", TRUE))
           /\ Moves(ShimOff, ShimOff', On("shim", FALSE), On("shim", TRUE))
           /\ Moves(NpiOff, NpiOff', On("npi", FALSE), On("npi", TRUE))
           /\ Moves(IsoClear, IsoClear', On("rst", TRUE), Of({"iso"}))
           /\ Moves(NsuOn, NsuOn', On("nsu", TRUE), On("nsu", FALSE))
           /\ Moves(IrqOn, IrqOn', On("irq", TRUE), On("irq", FALSE))
           /\ Moves(MemZero, MemZero', Of({"zero"}), {})
           /\ Moves(ClocksOff, ClocksOff', On("clk", FALSE),
                    On("clk", TRUE) \cup Of({"tile", "columns"}))
<1>1. /\ gen' = gen /\ PartCols' = PartCols /\ Now \in StepSet /\ PartCols \subseteq Cols
      /\ \A c : IsShimNoc(c)' = IsShimNoc(c)
  <2>1. gen' = gen /\ inst' = inst /\ Now \in StepSet
    BY StepUntouched, NowOK
  <2>2. PartCols' = PartCols
    BY <2>1 DEF PartCols
  <2>3. \A c : IsShimNoc(c)' = IsShimNoc(c)
    BY <2>1 DEF IsShimNoc
  <2> QED BY <2>1, <2>2, <2>3, PartColsOK DEF TypeOK
<1>2. \A reg \in Regs : Untouched(reg)
  BY StepUntouched
<1>3. Now.do \in {"clk", "rst", "shim", "nsu", "irq", "npi"} => Now.arg \in BOOLEAN
  BY <1>1 DEF StepSet
<1>4. \A c \in PartCols :
           /\ Now.do = "clk" => hw'.clk[c] = Now.arg
           /\ Now.do = "rst" => hw'.rst[c] = Now.arg
           /\ Now.do = "rst" /\ Now.arg = TRUE => hw'.iso[c] = {}
           /\ Now.do = "rst" /\ Now.arg = FALSE => hw'.iso[c] = hw.iso[c]
           /\ Now.do = "shim" => hw'.shim[c] = Now.arg
           /\ Now.do = "nsu" /\ IsShimNoc(c) => hw'.nsu[c] = Now.arg
           /\ Now.do = "irq" /\ IsShimNoc(c) => hw'.irq[c] = Now.arg
           /\ Now.do = "zero" => hw'.mem[c] = "zero"
  BY ColumnValues
<1>5. Moves(RstOff, RstOff', On("rst", FALSE), On("rst", TRUE))
  <2>1. Now.do # "rst" => hw'.rst = hw.rst
    BY <1>2 DEF Untouched, Writers, Regs, ColumnRegs
  <2> QED BY <1>1, <1>3, <1>4, <2>1 DEF Moves, RstOff, On
<1>6. Moves(ShimOff, ShimOff', On("shim", FALSE), On("shim", TRUE))
  <2>1. Now.do # "shim" => hw'.shim = hw.shim
    BY <1>2 DEF Untouched, Writers, Regs, ColumnRegs
  <2> QED BY <1>1, <1>3, <1>4, <2>1 DEF Moves, ShimOff, On
<1>7. Moves(NpiOff, NpiOff', On("npi", FALSE), On("npi", TRUE))
  <2>1. Now.do # "npi" => hw'.npi = hw.npi
    BY <1>2 DEF Untouched, Writers, Regs
  <2> QED BY <1>1, <1>3, OtherValues, <2>1 DEF Moves, NpiOff, On
<1>8. Moves(IsoClear, IsoClear', On("rst", TRUE), Of({"iso"}))
  <2>1. Now.do \notin {"iso", "rst"} => hw'.iso = hw.iso
    BY <1>2 DEF Untouched, Writers, Regs, ColumnRegs
  <2> QED BY <1>1, <1>3, <1>4, <2>1 DEF Moves, IsoClear, On, Of
<1>9. Moves(NsuOn, NsuOn', On("nsu", TRUE), On("nsu", FALSE))
  <2>1. Now.do # "nsu" => hw'.nsu = hw.nsu
    BY <1>2 DEF Untouched, Writers, Regs, ColumnRegs
  <2> QED BY <1>1, <1>3, <1>4, <2>1 DEF Moves, NsuOn, On
<1>10. Moves(IrqOn, IrqOn', On("irq", TRUE), On("irq", FALSE))
  <2>1. Now.do # "irq" => hw'.irq = hw.irq
    BY <1>2 DEF Untouched, Writers, Regs, ColumnRegs
  <2> QED BY <1>1, <1>3, <1>4, <2>1 DEF Moves, IrqOn, On
<1>11. Moves(MemZero, MemZero', Of({"zero"}), {})
  <2>1. Now.do \notin {"zero", "clear"} => hw'.mem = hw.mem
    BY <1>2 DEF Untouched, Writers, Regs, ColumnRegs
  <2> QED BY <1>1, <1>4, OtherValues, <2>1 DEF Moves, MemZero, Of
<1>12. Moves(ClocksOff, ClocksOff', On("clk", FALSE), On("clk", TRUE) \cup Of({"tile", "columns"}))
  <2>1. Now.do \notin {"clk", "tile", "columns"} => hw'.clk = hw.clk
    BY <1>2 DEF Untouched, Writers, Regs, ColumnRegs
  <2> QED BY <1>1, <1>3, <1>4, <2>1 DEF Moves, ClocksOff, On, Of
<1> QED BY <1>5, <1>6, <1>7, <1>8, <1>9, <1>10, <1>11, <1>12

\* Isolation leaves the columns in between as they are on AIE.
InnerClear == \A c \in PartCols \ {FirstCol, LastCol} : hw.iso[c] = {}
Isolates == On("iso", {"init"})
Unborders == (Of({"iso"}) \ Isolates) \cup On("rst", TRUE)

LEMMA BordersMove ==
    ASSUME TypeOK, CallStep, Fine
    PROVE  /\ Moves(InnerClear, InnerClear', On("rst", TRUE), Of({"iso"}))
           /\ inst.app = "single" /\ (gen = "AIE" /\ Now \in Isolates => InnerClear)
              => Moves(Bordered, Bordered', Isolates, Unborders)
<1>1. gen' = gen /\ inst' = inst /\ PartCols' = PartCols /\ FirstCol' = FirstCol /\ LastCol' = LastCol
  <2>1. gen' = gen /\ inst' = inst
    BY StepUntouched
  <2> QED BY <2>1 DEF PartCols, FirstCol, LastCol
<1>2. Now.do \notin {"iso", "rst"} => hw'.iso = hw.iso
  BY StepUntouched DEF Untouched, Writers, Regs, ColumnRegs
<1>3. Now \in StepSet /\ (Now.do = "rst" => Now.arg \in BOOLEAN)
  <2>1. Now \in StepSet
    BY StepUntouched, NowOK
  <2> QED BY <2>1 DEF StepSet
<1>4. \A c \in PartCols :
           /\ Now.do = "rst" /\ Now.arg = TRUE => hw'.iso[c] = {}
           /\ Now.do = "rst" /\ Now.arg = FALSE => hw'.iso[c] = hw.iso[c]
           /\ Now.do = "iso" => hw'.iso[c] = Isolation(c, Now.arg)
  BY ColumnValues
<1>5. Moves(InnerClear, InnerClear', On("rst", TRUE), Of({"iso"}))
  BY <1>1, <1>2, <1>3, <1>4 DEF Moves, InnerClear, On, Of
<1>6. ASSUME inst.app = "single", gen = "AIE" /\ Now \in Isolates => InnerClear
      PROVE  Moves(Bordered, Bordered', Isolates, Unborders)
  <2>2. Bordered' = \A c \in PartCols : BorderSet(hw'.iso[c], c)
    BY <1>1 DEF Bordered, BorderSet
  <2>3. ASSUME Now \in Isolates, NEW c \in PartCols PROVE BorderSet(hw'.iso[c], c)
    <3>1. hw'.iso[c] = Isolation(c, {"init"})
      BY <1>4, <2>3 DEF Isolates, On
    <3>2. BorderSet(IsolationMl(c, {"init"}), c) /\ BorderSet(EdgeDirs(c, TRUE, TRUE), c)
      BY DEF BorderSet, IsolationMl, EdgeDirs, Mask
    <3>3. CASE gen = "AIE"
      <4>1. Isolation(c, {"init"}) = IsolationAie(c, {"init"})
        BY <3>3 DEF Isolation
      <4>2. CASE c \notin {FirstCol, LastCol}
        <5>1. InnerClear
          BY <1>6, <2>3, <3>3
        <5> QED BY <3>1, <4>1, <4>2, <5>1 DEF IsolationAie, InnerClear, BorderSet
      <4>3. CASE c \in {FirstCol, LastCol}
        BY <3>1, <3>2, <4>1, <4>3 DEF IsolationAie
      <4> QED BY <4>2, <4>3
    <3>4. CASE gen = "AIE4"
      BY <1>6, <3>1, <3>2, <3>4 DEF Isolation, IsolationAie4
    <3>5. CASE gen \notin {"AIE", "AIE4"}
      BY <3>1, <3>2, <3>5 DEF Isolation
    <3> QED BY <3>3, <3>4, <3>5
  <2>4. ASSUME Bordered, Now \notin Isolates, Now \notin Unborders, NEW c \in PartCols
        PROVE  hw'.iso[c] = hw.iso[c]
    BY <1>2, <1>3, <1>4, <2>4 DEF Unborders, On, Of
  <2> QED BY <2>2, <2>3, <2>4 DEF Moves, Bordered
<1> QED BY <1>5, <1>6

LEMMA NmuMoves ==
    ASSUME TypeOK, CallStep, Fine, NEW k \in {0, 1}
    PROVE  Moves(NmuOn(k), NmuOn(k)', On("nmu", k), {})
<1>1. PartCols' = PartCols /\ PartCols \subseteq Cols
  BY StepUntouched, PartColsOK DEF TypeOK, PartCols
<1>2. Now.do # "nmu" => hw'.nmu = hw.nmu
  BY StepUntouched DEF Untouched, Writers, Regs, ColumnRegs
<1>3. Now.do = "nmu" => /\ \A c \in Cols : hw.nmu[c] = TRUE => hw'.nmu[c] = TRUE
                        /\ Now.arg \in Cols => hw'.nmu[Now.arg] = TRUE
  BY OtherValues
<1> QED BY <1>1, <1>2, <1>3 DEF Moves, NmuOn, On

LEMMA ClocksMove ==
    ASSUME TypeOK, CallStep, Fine PROVE Moves(ClocksOn, ClocksOn', Ungates, Gates)
<1>1. Succeed /\ ~Idle /\ Moved
  BY StepUntouched, CallMoves
<1>2. ~Turned /\ ~LostNoticed /\ ~LostUnnoticed
  <2>1. \A kinds : Fail(kinds) => kinds = {}
    BY <1>1, FineStep
  <2>2. Fail({}) => Now.do \notin {"nmu", "tile", "interloc"}
    BY <1>1, FineStep
  <2>3. LostUnnoticed => Now.do \in call'.lost
    BY DEF LostUnnoticed, TypeOK, CallOK
  <2> QED BY <2>1, <2>2, <2>3 DEF Turned, LostNoticed, Fine
<1> QED BY <1>1, <1>2 DEF Moved, Done, Moves

----------------------------------------------------------------------------
(* The promises, kept by the steps.                                         *)

\* The plan in progress leads to the fact.
Promises(fact, good, bad) ==
    Leads(call.plan, SureIf(fact), "sure", good \cup Void, bad, {})

LEMMA LeadKept ==
    ASSUME TypeOK, CallStep, Fine, NEW fact, NEW after, NEW y \in Sureness,
           NEW good, NEW bad, NEW must,
           Leads(call.plan, SureIf(fact), y, good \cup Void, bad, must),
           Moves(fact, after, good, bad)
    PROVE  Leads(call'.plan, SureIf(after), y, good \cup Void, bad, must)
<1>1. /\ call.plan \in Seq(Plan) /\ call.plan # <<>> /\ Now = call.plan[1]
      /\ call'.plan = Tail(call.plan) /\ Now \notin Void
  <2>1. ~Idle /\ Succeed /\ Now.do # "unsupported"
    BY StepUntouched
  <2>2. call'.plan = Tail(call.plan)
    BY <2>1 DEF Succeed, TypeOK, CallOK
  <2> QED BY <2>1, <2>2, NowOK DEF Void, Of
<1>2. SureIf(fact) \in Sureness /\ SureIf(after) \in Sureness
  BY SureIfIn
<1>3. /\ Now \in good \cup Void => SureIf(after) = "sure"
      /\ SureIf(fact) = "sure" /\ Now \notin bad => SureIf(after) = "sure"
  BY <1>1 DEF Moves, SureIf
<1> DEFINE all == good \cup Void
<1>4. Leads(call.plan, SureIf(fact), y, all, bad, must) /\ (Now \in all => SureIf(after) = "sure")
  BY <1>3
<1> HIDE DEF all
<1>5. Leads(Tail(call.plan), SureIf(after), y, all, bad, must)
  BY <1>1, <1>2, <1>3, <1>4, LeadsTail DEF Sureness
<1> QED BY <1>1, <1>5 DEF all

\* What each call is for.
Begins(op, flag) == call.op = "teardown" \/ (call.op = op /\ HasFlag(flag))
Resets == Begins("init", "COLUMN_RST") /\ gen # "AIE4"
ShimResets == Begins("init", "SHIM_RST")
Zeroizes == Begins("init", "ZEROIZEMEM")
Bordering == call.op = "init" /\ HasFlag("ISOLATE") /\ HasFlag("COLUMN_RST") /\ inst.app = "single"

Kept1 ==
    /\ Resets => Promises(RstOff, On("rst", FALSE), On("rst", TRUE))
    /\ ShimResets /\ HasShimReset => Promises(ShimOff, On("shim", FALSE), On("shim", TRUE))
    /\ ShimResets /\ gen # "AIE4" => Promises(NpiOff, On("npi", FALSE), On("npi", TRUE))
    /\ Zeroizes => Promises(MemZero, Of({"zero"}), {})
TeardownKept ==
    call.op = "teardown" =>
        /\ gen # "AIE4" => Promises(IsoClear, On("rst", TRUE), Of({"iso"}))
        /\ Promises(ClocksOff, On("clk", FALSE), On("clk", TRUE) \cup Of({"tile", "columns"}))
InitKept ==
    call.op = "init" =>
        /\ HasFlag("BLOCK_NOCAXIMMERR") => Promises(NsuOn, On("nsu", TRUE), On("nsu", FALSE))
        /\ Promises(IrqOn, On("irq", TRUE), On("irq", FALSE))
        /\ gen # "AIE" /\ call.arg.tiles = <<>> => Promises(ClocksOn, Ungates, Gates)
        /\ gen = "AIE2PS" /\ HasFlag("SHIM_RST") /\ FirstCol = 0 =>
              \A k \in {0, 1} : Promises(NmuOn(k), On("nmu", k), {})
BordersKept ==
    Bordering =>
        /\ Promises(Bordered, Isolates, Unborders)
        /\ gen = "AIE" => Leads(call.plan, SureIf(InnerClear), "unsure", On("rst", TRUE) \cup Void,
                                Of({"iso"}), Isolates)
SetUp == Kept1 /\ TeardownKept /\ InitKept /\ BordersKept
SetUpInv == call.rc = "ok" /\ Clean => SetUp

LEMMA StepSetUp ==
    ASSUME TypeOK, CallStep, Fine, SetUp PROVE SetUp'
<1>1. /\ gen' = gen /\ inst' = inst /\ call'.op = call.op /\ call'.arg = call.arg
  <2>1. Succeed
    BY StepUntouched
  <2> QED BY <2>1, StepUntouched DEF Succeed, TypeOK, CallOK
<1>2. /\ Resets' = Resets /\ ShimResets' = ShimResets /\ Zeroizes' = Zeroizes
      /\ Bordering' = Bordering /\ HasShimReset' = HasShimReset /\ FirstCol' = FirstCol
      /\ \A flag : HasFlag(flag)' = HasFlag(flag)
  BY <1>1 DEF Resets, ShimResets, Zeroizes, Bordering, Begins, HasFlag, HasShimReset, FirstCol
<1>3. ASSUME NEW fact, NEW after, NEW good, NEW bad, Promises(fact, good, bad),
             Moves(fact, after, good, bad)
      PROVE  Leads(call'.plan, SureIf(after), "sure", good \cup Void, bad, {})
  BY <1>3, LeadKept DEF Promises, Sureness
<1>4. Kept1'
  <2>1. Resets => Leads(call'.plan, SureIf(RstOff'), "sure", On("rst", FALSE) \cup Void, On("rst", TRUE), {})
    BY <1>3, FactsMove DEF SetUp, Kept1
  <2>2. ShimResets /\ HasShimReset =>
            Leads(call'.plan, SureIf(ShimOff'), "sure", On("shim", FALSE) \cup Void, On("shim", TRUE), {})
    BY <1>3, FactsMove DEF SetUp, Kept1
  <2>3. ShimResets /\ gen # "AIE4" =>
            Leads(call'.plan, SureIf(NpiOff'), "sure", On("npi", FALSE) \cup Void, On("npi", TRUE), {})
    BY <1>3, FactsMove DEF SetUp, Kept1
  <2>4. Zeroizes => Leads(call'.plan, SureIf(MemZero'), "sure", Of({"zero"}) \cup Void, {}, {})
    BY <1>3, FactsMove DEF SetUp, Kept1
  <2> QED BY <1>1, <1>2, <2>1, <2>2, <2>3, <2>4 DEF Kept1, Promises, SureIf
<1>5. TeardownKept'
  <2>1. call.op = "teardown" /\ gen # "AIE4" =>
            Leads(call'.plan, SureIf(IsoClear'), "sure", On("rst", TRUE) \cup Void, Of({"iso"}), {})
    BY <1>3, FactsMove DEF SetUp, TeardownKept
  <2>2. call.op = "teardown" =>
            Leads(call'.plan, SureIf(ClocksOff'), "sure", On("clk", FALSE) \cup Void,
                  On("clk", TRUE) \cup Of({"tile", "columns"}), {})
    BY <1>3, FactsMove DEF SetUp, TeardownKept
  <2> QED BY <1>1, <2>1, <2>2 DEF TeardownKept, Promises, SureIf
<1>6. InitKept'
  <2>1. call.op = "init" /\ HasFlag("BLOCK_NOCAXIMMERR") =>
            Leads(call'.plan, SureIf(NsuOn'), "sure", On("nsu", TRUE) \cup Void, On("nsu", FALSE), {})
    BY <1>3, FactsMove DEF SetUp, InitKept
  <2>2. call.op = "init" =>
            Leads(call'.plan, SureIf(IrqOn'), "sure", On("irq", TRUE) \cup Void, On("irq", FALSE), {})
    BY <1>3, FactsMove DEF SetUp, InitKept
  <2>3. call.op = "init" /\ gen # "AIE" /\ call.arg.tiles = <<>> =>
            Leads(call'.plan, SureIf(ClocksOn'), "sure", Ungates \cup Void, Gates, {})
    BY <1>3, ClocksMove DEF SetUp, InitKept
  <2>4. ASSUME call.op = "init", gen = "AIE2PS", HasFlag("SHIM_RST"), FirstCol = 0, NEW k \in {0, 1}
        PROVE  Leads(call'.plan, SureIf(NmuOn(k)'), "sure", On("nmu", k) \cup Void, {}, {})
    <3>1. Promises(NmuOn(k), On("nmu", k), {})
      BY <2>4 DEF SetUp, InitKept
    <3>2. Moves(NmuOn(k), NmuOn(k)', On("nmu", k), {})
      BY NmuMoves
    <3> QED BY <1>3, <3>1, <3>2
  <2> QED BY <1>1, <1>2, <2>1, <2>2, <2>3, <2>4 DEF InitKept, Promises, SureIf
<1>7. BordersKept'
  <2> SUFFICES ASSUME Bordering PROVE BordersKept'
    BY <1>2 DEF BordersKept
  <2>1. /\ Promises(Bordered, Isolates, Unborders)
        /\ gen = "AIE" => Leads(call.plan, SureIf(InnerClear), "unsure", On("rst", TRUE) \cup Void,
                                Of({"iso"}), Isolates)
    BY DEF SetUp, BordersKept
  <2>2. gen = "AIE" /\ Now \in Isolates => InnerClear
    <3> SUFFICES ASSUME gen = "AIE", Now \in Isolates PROVE InnerClear
      OBVIOUS
    <3>1. ~Idle
      BY StepUntouched
    <3>2. SureIf(InnerClear) = "sure"
      BY <2>1, <3>1, SureFirst
    <3> QED BY <3>2 DEF SureIf
  <2>3. inst.app = "single"
    BY DEF Bordering
  <2>4. Moves(Bordered, Bordered', Isolates, Unborders)
        /\ Moves(InnerClear, InnerClear', On("rst", TRUE), Of({"iso"}))
    BY <2>2, <2>3, BordersMove
  <2>5. Leads(call'.plan, SureIf(Bordered'), "sure", Isolates \cup Void, Unborders, {})
    BY <1>3, <2>1, <2>4
  <2>6. gen = "AIE" => Leads(call'.plan, SureIf(InnerClear'), "unsure", On("rst", TRUE) \cup Void,
                             Of({"iso"}), Isolates)
    BY <2>1, <2>4, LeadKept DEF Sureness
  <2> QED BY <1>1, <2>5, <2>6 DEF BordersKept, Promises, SureIf
<1> QED BY <1>4, <1>5, <1>6, <1>7 DEF SetUp

----------------------------------------------------------------------------
(* The promises of the plans.                                               *)

LEMMA StepOn ==
    ASSUME NEW do, NEW v, NEW fail, Step(do, v, fail) \in StepSet
    PROVE  /\ Step(do, v, fail) \in On(do, v)
           /\ \A w : v # w => Step(do, v, fail) \notin On(do, w)
           /\ \A kinds : do \in kinds => Step(do, v, fail) \in Of(kinds)
           /\ \A kinds : do \notin kinds => Step(do, v, fail) \notin Of(kinds)
BY StepFields DEF On, Of

\* What a plan brings about whatever held before.
Establishes(p, good, bad) == Leads(p, "unsure", "sure", good, bad, {})

LEMMA InFront ==
    ASSUME NEW S, NEW a \in Seq(S), NEW b \in Seq(S), NEW good, NEW bad,
           Establishes(b, good, bad)
    PROVE  Establishes(a \o b, good, bad)
<1> DEFINE must == {}
<1>1. \A s \in S : s \notin must
  OBVIOUS
<1>2. Leads(b, "unsure", "sure", good, bad, must)
  BY DEF Establishes
<1> HIDE DEF must
<1>3. Leads(a, "unsure", "unsure", good, bad, must)
  BY <1>1, LeadsUnsure DEF Sureness
<1>4. Leads(a \o b, "unsure", "sure", good, bad, must)
  BY <1>2, <1>3, LeadsConcat DEF Sureness
<1> QED BY <1>4 DEF must, Establishes

LEMMA Behind ==
    ASSUME NEW S, NEW a \in Seq(S), NEW b \in Seq(S), NEW T, b \in Seq(T), NEW good, NEW bad,
           \A s \in T : s \notin bad, Establishes(a, good, bad)
    PROVE  Establishes(a \o b, good, bad)
<1> DEFINE must == {}
<1>1. Leads(a, "unsure", "sure", good, bad, must) /\ \A s \in T : s \notin must
  BY DEF Establishes
<1> HIDE DEF must
<1>2. Leads(b, "sure", "sure", good, bad, must)
  BY <1>1, LeadsQuiet DEF Sureness
<1>3. Leads(a \o b, "unsure", "sure", good, bad, must)
  BY <1>1, <1>2, LeadsConcat DEF Sureness
<1> QED BY <1>3 DEF must, Establishes

\* The facts by their names: the steps that bring them about, those that end
\* them, and the kinds of the latter.
Facts == {"rst", "shim", "npi", "clear", "nsu", "irq", "mem", "off", "nmu0", "nmu1", "border"}
Good == [rst |-> On("rst", FALSE), shim |-> On("shim", FALSE), npi |-> On("npi", FALSE),
         clear |-> On("rst", TRUE), nsu |-> On("nsu", TRUE), irq |-> On("irq", TRUE),
         mem |-> Of({"zero"}), off |-> On("clk", FALSE), nmu0 |-> On("nmu", 0),
         nmu1 |-> On("nmu", 1), border |-> Isolates]
Bad == [rst |-> On("rst", TRUE), shim |-> On("shim", TRUE), npi |-> On("npi", TRUE),
        clear |-> Of({"iso"}), nsu |-> On("nsu", FALSE), irq |-> On("irq", FALSE),
        mem |-> {}, off |-> On("clk", TRUE) \cup Of({"tile", "columns"}), nmu0 |-> {},
        nmu1 |-> {}, border |-> Unborders]
Enders == [rst |-> {"rst"}, shim |-> {"shim"}, npi |-> {"npi"}, clear |-> {"iso"},
           nsu |-> {"nsu"}, irq |-> {"irq"}, mem |-> {}, off |-> {"clk", "tile", "columns"},
           nmu0 |-> {}, nmu1 |-> {}, border |-> {"iso", "rst"}]

LEMMA EndersAre == \A f \in Facts : Bad[f] \subseteq Of(Enders[f])
BY DEF Facts, Bad, Enders, On, Of, Unborders, Isolates

\* A piece of a plan: of these kinds, and bringing about those of the facts
\* that are wanted.
Piece(p, kinds, facts, wants) ==
    /\ p \in Seq(Of(kinds))
    /\ \A f \in facts \cap wants : f \in Facts => Establishes(p, Good[f], Bad[f])

LEMMA OfMore == ASSUME NEW K, NEW L, K \subseteq L PROVE Of(K) \subseteq Of(L)
BY DEF Of

LEMMA Joined ==
    ASSUME NEW a, NEW K, NEW F, NEW wants, Piece(a, K, F, wants),
           NEW b, NEW L, NEW G, Piece(b, L, G, wants),
           NEW M, K \subseteq M, L \subseteq M,
           NEW H, \A f \in H : f \in G \/ (f \in F /\ Enders[f] \cap L = {})
    PROVE  Piece(a \o b, M, H, wants)
<1>1. a \in Seq(Of(M)) /\ b \in Seq(Of(M)) /\ b \in Seq(Of(L))
  BY OfMore, SubIn DEF Piece
<1>2. a \o b \in Seq(Of(M))
  BY <1>1, ConcatIn
<1>3. ASSUME NEW f \in H \cap wants, f \in Facts PROVE Establishes(a \o b, Good[f], Bad[f])
  <2>1. CASE f \in G
    <3>1. Establishes(b, Good[f], Bad[f])
      BY <1>3, <2>1 DEF Piece
    <3> QED BY <1>1, <3>1, InFront
  <2>2. CASE f \in F /\ Enders[f] \cap L = {}
    <3>1. Establishes(a, Good[f], Bad[f])
      BY <1>3, <2>2 DEF Piece
    <3>2. \A s \in Of(L) : s \notin Bad[f]
      BY <1>3, <2>2, EndersAre DEF Of
    <3> QED BY <1>1, <3>1, <3>2, Behind
  <2> QED BY <1>3, <2>1, <2>2
<1> QED BY <1>2, <1>3 DEF Piece

LEMMA EmptyPiece == ASSUME NEW K, NEW wants PROVE Piece(<<>>, K, {}, wants)
BY DEF Piece

\* A piece that is there when what it brings about is wanted.
LEMMA WhenPiece ==
    ASSUME NEW cond, NEW p, NEW K, NEW F, NEW wants, cond => Piece(p, K, F, wants),
           ~cond => F \cap wants = {}
    PROVE  Piece(When(cond, p), K, F, wants)
BY DEF When, Piece

LEMMA StepPiece ==
    ASSUME NEW do, NEW v, NEW fail, Step(do, v, fail) \in StepSet, NEW wants,
           NEW F, F \subseteq Facts,
           \A f \in F : Step(do, v, fail) \in Good[f] /\ Step(do, v, fail) \notin Bad[f]
    PROVE  Piece(<<Step(do, v, fail)>>, {do}, F, wants)
<1> DEFINE s == Step(do, v, fail)
<1>1. s \in Of({do}) /\ s \in StepSet
  BY StepOn
<1>2. \A f \in F : s \in Good[f] /\ s \notin Bad[f]
  OBVIOUS
<1> HIDE DEF s
<1>3. ASSUME NEW f \in F PROVE Establishes(<<s>>, Good[f], Bad[f])
  <2>1. s \in Good[f] /\ s \notin Bad[f]
    BY <1>2, <1>3
  <2> DEFINE good == Good[f]
             bad == Bad[f]
  <2> HIDE DEF good, bad
  <2>2. Leads(<<s>>, "unsure", "sure", good, bad, {})
    BY <1>1, <2>1, LeadsStep DEF Sureness, good, bad
  <2> QED BY <2>2 DEF Establishes, good, bad
<1>4. <<s>> \in Seq(Of({do}))
  BY <1>1, OneIn
<1> QED BY <1>3, <1>4 DEF Piece, s

\* The single steps.
LEMMA Singles ==
    ASSUME NEW fail \in FailKinds, NEW wants
    PROVE  /\ Piece(<<Step("clk", FALSE, fail)>>, {"clk"}, {"off"}, wants)
           /\ Piece(<<Step("clk", TRUE, fail)>>, {"clk"}, {}, wants)
           /\ Piece(<<Step("rst", TRUE, fail)>>, {"rst"}, {"clear"}, wants)
           /\ Piece(<<Step("rst", FALSE, fail)>>, {"rst"}, {"rst"}, wants)
           /\ Piece(<<Step("shim", TRUE, fail)>>, {"shim"}, {}, wants)
           /\ Piece(<<Step("shim", FALSE, fail)>>, {"shim"}, {"shim"}, wants)
           /\ Piece(<<Step("npi", TRUE, fail)>>, {"npi"}, {}, wants)
           /\ Piece(<<Step("npi", FALSE, fail)>>, {"npi"}, {"npi"}, wants)
           /\ Piece(<<Step("nsu", TRUE, fail)>>, {"nsu"}, {"nsu"}, wants)
           /\ Piece(<<Step("irq", TRUE, fail)>>, {"irq"}, {"irq"}, wants)
           /\ Piece(<<Step("zero", TRUE, fail)>>, {"zero"}, {"mem"}, wants)
           /\ Piece(<<Step("nmu", 0, fail)>>, {"nmu"}, {"nmu0"}, wants)
           /\ Piece(<<Step("nmu", 1, fail)>>, {"nmu"}, {"nmu1"}, wants)
           /\ Piece(<<Step("iso", {"init"}, fail)>>, {"iso"}, {"border"}, wants)
           /\ \A do \in {"uc", "split"} : Piece(<<Step(do, TRUE, fail)>>, {do}, {}, wants)
           /\ \A v \in SUBSET Borders : Piece(<<Step("iso", v, fail)>>, {"iso"}, {}, wants)
           /\ \A v \in Nat : Piece(<<Step("inter", v, fail)>>, {"inter"}, {}, wants)
           /\ \A v \in Locations : Piece(<<Step("app", v, fail)>>, {"app"}, {}, wants)
           /\ \A do \in {"prot", "mark", "unmark"}, v \in SUBSET Int :
                 Piece(<<Step(do, v, fail)>>, {do}, {}, wants)
<1>1. /\ \A do \in {"clk", "rst", "shim", "nsu", "irq", "zero", "uc", "split", "npi"},
            v \in BOOLEAN : Step(do, v, fail) \in StepSet
      /\ \A do \in {"prot", "mark", "unmark"}, v \in SUBSET Int : Step(do, v, fail) \in StepSet
      /\ \A v \in SUBSET Borders : Step("iso", v, fail) \in StepSet
      /\ \A v \in Nat : Step("inter", v, fail) \in StepSet
      /\ \A v \in {0, 1} : Step("nmu", v, fail) \in StepSet
      /\ \A v \in Locations : Step("app", v, fail) \in StepSet
  BY StepTypes
<1>2. ASSUME NEW do, NEW v, Step(do, v, fail) \in StepSet
      PROVE  Piece(<<Step(do, v, fail)>>, {do}, {}, wants)
  <2>1. {} \subseteq Facts /\ \A f \in {} : Step(do, v, fail) \in Good[f] /\ Step(do, v, fail) \notin Bad[f]
    OBVIOUS
  <2> QED BY <1>2, <2>1, StepPiece
<1>3. ASSUME NEW do, NEW v, NEW f \in Facts, Step(do, v, fail) \in StepSet,
             Step(do, v, fail) \in Good[f], Step(do, v, fail) \notin Bad[f]
      PROVE  Piece(<<Step(do, v, fail)>>, {do}, {f}, wants)
  BY <1>3, StepPiece
<1>4. \A do, v : Step(do, v, fail).do = do /\ Step(do, v, fail).arg = v
  BY StepFields
<1>5. Facts = {"rst", "shim", "npi", "clear", "nsu", "irq", "mem", "off", "nmu0", "nmu1", "border"}
  BY DEF Facts
<1>6. /\ Piece(<<Step("clk", FALSE, fail)>>, {"clk"}, {"off"}, wants)
      /\ Piece(<<Step("rst", TRUE, fail)>>, {"rst"}, {"clear"}, wants)
      /\ Piece(<<Step("rst", FALSE, fail)>>, {"rst"}, {"rst"}, wants)
  <2>1. Step("clk", FALSE, fail) \in Good["off"] /\ Step("clk", FALSE, fail) \notin Bad["off"]
    BY <1>1, StepOn DEF Good, Bad
  <2>2. Step("rst", TRUE, fail) \in Good["clear"] /\ Step("rst", TRUE, fail) \notin Bad["clear"]
    BY <1>1, StepOn DEF Good, Bad
  <2>3. Step("rst", FALSE, fail) \in Good["rst"] /\ Step("rst", FALSE, fail) \notin Bad["rst"]
    BY <1>1, StepOn DEF Good, Bad
  <2> QED BY <1>1, <1>3, <1>5, <2>1, <2>2, <2>3
<1>7. /\ Piece(<<Step("shim", FALSE, fail)>>, {"shim"}, {"shim"}, wants)
      /\ Piece(<<Step("npi", FALSE, fail)>>, {"npi"}, {"npi"}, wants)
  <2>1. Step("shim", FALSE, fail) \in Good["shim"] /\ Step("shim", FALSE, fail) \notin Bad["shim"]
    BY <1>1, StepOn DEF Good, Bad
  <2>2. Step("npi", FALSE, fail) \in Good["npi"] /\ Step("npi", FALSE, fail) \notin Bad["npi"]
    BY <1>1, StepOn DEF Good, Bad
  <2> QED BY <1>1, <1>3, <1>5, <2>1, <2>2
<1>8. /\ Piece(<<Step("nsu", TRUE, fail)>>, {"nsu"}, {"nsu"}, wants)
      /\ Piece(<<Step("irq", TRUE, fail)>>, {"irq"}, {"irq"}, wants)
      /\ Piece(<<Step("zero", TRUE, fail)>>, {"zero"}, {"mem"}, wants)
  <2>1. Step("nsu", TRUE, fail) \in Good["nsu"] /\ Step("nsu", TRUE, fail) \notin Bad["nsu"]
    BY <1>1, <1>4 DEF Good, Bad, On, Of
  <2>2. Step("irq", TRUE, fail) \in Good["irq"] /\ Step("irq", TRUE, fail) \notin Bad["irq"]
    BY <1>1, <1>4 DEF Good, Bad, On, Of
  <2>3. Step("zero", TRUE, fail) \in Good["mem"] /\ Step("zero", TRUE, fail) \notin Bad["mem"]
    BY <1>1, <1>4 DEF Good, Bad, On, Of
  <2> QED BY <1>1, <1>3, <1>5, <2>1, <2>2, <2>3
<1>9. /\ Piece(<<Step("nmu", 0, fail)>>, {"nmu"}, {"nmu0"}, wants)
      /\ Piece(<<Step("nmu", 1, fail)>>, {"nmu"}, {"nmu1"}, wants)
  <2>1. Step("nmu", 0, fail) \in Good["nmu0"] /\ Step("nmu", 0, fail) \notin Bad["nmu0"]
    BY <1>1, <1>4 DEF Good, Bad, On, Of
  <2>2. Step("nmu", 1, fail) \in Good["nmu1"] /\ Step("nmu", 1, fail) \notin Bad["nmu1"]
    BY <1>1, <1>4 DEF Good, Bad, On, Of
  <2> QED BY <1>1, <1>3, <1>5, <2>1, <2>2
<1>10. Piece(<<Step("iso", {"init"}, fail)>>, {"iso"}, {"border"}, wants)
  <2>1. Step("iso", {"init"}, fail) \in StepSet
    BY <1>1 DEF Borders
  <2>2. Step("iso", {"init"}, fail) \in Good["border"] /\ Step("iso", {"init"}, fail) \notin Bad["border"]
    BY <1>4, <2>1 DEF Good, Bad, On, Of, Isolates, Unborders
  <2> QED BY <1>3, <1>5, <2>1, <2>2
<1> QED BY <1>1, <1>2, <1>6, <1>7, <1>8, <1>9, <1>10

\* The resets.  What a generation cannot reset is not wanted.
Wantable(wants) == /\ gen = "AIE4" => wants \cap {"rst", "clear", "npi"} = {}
                   /\ ~HasShimReset => "shim" \notin wants

LEMMA ResetPieces ==
    ASSUME NEW fail \in FailKinds, NEW wants, Wantable(wants)
    PROVE  /\ Piece(ColumnReset(fail), {"clk", "rst"}, {"rst", "clear"}, wants)
           /\ Piece(RstPartShims(fail), {"shim", "npi"}, {"shim", "npi"}, wants)
           /\ Piece(ClockAfterRst(fail), {"clk"}, {}, wants)
<1>1. Piece(ColumnReset(fail), {"clk", "rst"}, {"rst", "clear"}, wants)
  <2> DEFINE a == Step("clk", FALSE, fail)
             b == Step("rst", TRUE, fail)
             c == Step("clk", TRUE, fail)
             d == Step("rst", FALSE, fail)
  <2>1. /\ Piece(<<a>>, {"clk"}, {"off"}, wants) /\ Piece(<<b>>, {"rst"}, {"clear"}, wants)
        /\ Piece(<<c>>, {"clk"}, {}, wants) /\ Piece(<<d>>, {"rst"}, {"rst"}, wants)
    BY Singles
  <2> HIDE DEF a, b, c, d
  <2>2. Piece(<<a>> \o <<b>>, {"clk", "rst"}, {"clear"}, wants)
    BY <2>1, Joined
  <2>3. Piece(<<a, b>> \o <<c>>, {"clk", "rst"}, {"clear"}, wants)
    <3>1. Enders["clear"] \cap {"clk"} = {}
      BY DEF Enders
    <3> DEFINE p == <<a, b>>
    <3>2. Piece(p, {"clk", "rst"}, {"clear"}, wants)
      BY <2>2, OneAndOne
    <3> HIDE DEF p
    <3>3. Piece(p \o <<c>>, {"clk", "rst"}, {"clear"}, wants)
      BY <2>1, <3>1, <3>2, Joined
    <3> QED BY <3>3 DEF p
  <2>4. Piece(<<a, b, c>> \o <<d>>, {"clk", "rst"}, {"rst", "clear"}, wants)
    <3>1. Enders["clear"] \cap {"rst"} = {}
      BY DEF Enders
    <3> DEFINE p == <<a, b, c>>
    <3>2. Piece(p, {"clk", "rst"}, {"clear"}, wants)
      BY <2>3, TwoAndOne
    <3> HIDE DEF p
    <3>3. Piece(p \o <<d>>, {"clk", "rst"}, {"rst", "clear"}, wants)
      BY <2>1, <3>1, <3>2, Joined
    <3> QED BY <3>3 DEF p
  <2>5. ColumnReset(fail) = <<a, b, c>> \o <<d>>
    BY ThreeAndOne DEF ColumnReset, Write, a, b, c, d
  <2> QED BY <2>4, <2>5
<1>2. Piece(RstPartShims(fail), {"shim", "npi"}, {"shim", "npi"}, wants)
  <2> DEFINE a == <<Step("shim", TRUE, fail)>>
             b == <<Step("npi", TRUE, fail)>>
             c == <<Step("npi", FALSE, fail)>>
             d == <<Step("shim", FALSE, fail)>>
  <2>1. /\ Piece(a, {"shim"}, {}, wants) /\ Piece(b, {"npi"}, {}, wants)
        /\ Piece(c, {"npi"}, {"npi"}, wants) /\ Piece(d, {"shim"}, {"shim"}, wants)
    BY Singles
  <2> DEFINE A == When(HasShimReset, a)
             B == When(gen # "AIE4", b \o c)
             D == When(HasShimReset, d)
  <2>2. RstPartShims(fail) = (A \o B) \o D
    <3>1. <<Step("npi", TRUE, fail), Step("npi", FALSE, fail)>> = b \o c
      BY OneAndOne
    <3> HIDE DEF b, c
    <3> QED BY <3>1 DEF RstPartShims, Write, NpiShimReset
  <2> HIDE DEF a, b, c, d
  <2>3. Piece(b \o c, {"npi"}, {"npi"}, wants)
    BY <2>1, Joined
  <2>4. Piece(A, {"shim"}, {}, wants) /\ Piece(B, {"npi"}, {"npi"}, wants)
        /\ Piece(D, {"shim"}, {"shim"}, wants)
    <3> DEFINE p == b \o c
    <3>1. Piece(p, {"npi"}, {"npi"}, wants)
      BY <2>3
    <3> HIDE DEF p
    <3>2. /\ ~(gen # "AIE4") => {"npi"} \cap wants = {}
          /\ ~HasShimReset => {"shim"} \cap wants = {}
      BY DEF Wantable
    <3>3. Piece(When(gen # "AIE4", p), {"npi"}, {"npi"}, wants)
      BY <3>1, <3>2, WhenPiece
    <3> QED BY <2>1, <3>2, <3>3, WhenPiece DEF p
  <2> HIDE DEF A, B, D
  <2>5. Piece(A \o B, {"shim", "npi"}, {"npi"}, wants)
    BY <2>4, Joined
  <2>6. Enders["npi"] \cap {"shim"} = {}
    BY DEF Enders
  <2> DEFINE p == A \o B
  <2>7. Piece(p, {"shim", "npi"}, {"npi"}, wants)
    BY <2>5
  <2> HIDE DEF p
  <2>8. Piece(p \o D, {"shim", "npi"}, {"shim", "npi"}, wants)
    BY <2>4, <2>6, <2>7, Joined
  <2> QED BY <2>2, <2>8 DEF p
<1>3. Piece(ClockAfterRst(fail), {"clk"}, {}, wants)
  BY Singles, WhenPiece DEF ClockAfterRst, Write
<1> QED BY <1>1, <1>2, <1>3

\* Teardown.
TeardownWants ==
    {f \in Facts : /\ f \in {"rst", "clear", "npi"} => gen # "AIE4"
                   /\ f = "shim" => HasShimReset}

LEMMA TeardownPieces ==
    ASSUME InstOK(inst)
    PROVE  Piece(TeardownPart, {"prot", "clk", "rst", "shim", "npi", "zero", "inter"},
                 {"rst", "clear", "shim", "npi", "mem", "off"}, TeardownWants)
<1> DEFINE W == TeardownWants
           cond == gen # "AIE4"
           open == <<Open("return")>>
           col == When(cond, ColumnReset("close"))
           shims == RstPartShims("close")
           clock == ClockAfterRst("close")
           zero == <<Step("zero", TRUE, "close")>>
           inter == <<Step("inter", 1, "close")>>
           gate == <<Step("clk", FALSE, "close")>>
           shut == <<Close("return")>>
<1>1. Wantable(W) /\ (~cond => {"rst", "clear"} \cap W = {})
  <2>1. \A f \in W : /\ f \in {"rst", "clear", "npi"} => gen # "AIE4"
                     /\ f = "shim" => HasShimReset
    BY DEF TeardownWants
  <2> HIDE DEF W
  <2> QED BY <2>1 DEF Wantable
<1>2. "close" \in FailKinds /\ "return" \in FailKinds
  BY DEF FailKinds
<1>3. TeardownPart = open \o col \o shims \o clock \o (zero \o inter \o (gate \o shut))
  <2> DEFINE z == Step("zero", TRUE, "close")
             i == Step("inter", 1, "close")
             g == Step("clk", FALSE, "close")
             s == Close("return")
  <2>1. TeardownPart = open \o col \o shims \o clock \o <<z, i, g, s>>
    BY DEF TeardownPart, Write
  <2> HIDE DEF z, i, g, s
  <2>2. <<z, i, g, s>> = <<z, i>> \o <<g, s>>
    BY TwoAndTwo
  <2>3. <<z, i>> = <<z>> \o <<i>> /\ <<g, s>> = <<g>> \o <<s>>
    BY OneAndOne
  <2> QED BY <2>1, <2>2, <2>3 DEF z, i, g, s
<1>4. /\ Piece(zero, {"zero"}, {"mem"}, W) /\ Piece(inter, {"inter"}, {}, W)
      /\ Piece(gate, {"clk"}, {"off"}, W)
  BY <1>2, Singles
<1>5. Piece(open, {"prot"}, {}, W) /\ Piece(shut, {"prot"}, {}, W)
  <2>1. (IF gen = "AIE" THEN ProtColsAie ELSE ProtColsMl) \in SUBSET Int /\ {} \in SUBSET Int
    BY PartColsOK DEF ProtColsAie, ProtColsMl
  <2> QED BY <1>2, <2>1, Singles DEF Open, Close
<1>6. /\ Piece(col, {"clk", "rst"}, {"rst", "clear"}, W)
      /\ Piece(shims, {"shim", "npi"}, {"shim", "npi"}, W) /\ Piece(clock, {"clk"}, {}, W)
  BY <1>1, <1>2, ResetPieces, WhenPiece
<1> HIDE DEF W, cond, open, col, shims, clock, zero, inter, gate, shut
<1> DEFINE K == {"prot", "clk", "rst", "shim", "npi", "zero", "inter"}
<1>7. Piece(open \o col, K, {"rst", "clear"}, W)
  BY <1>5, <1>6, Joined
<1> DEFINE p1 == open \o col
           p2 == p1 \o shims
           p3 == p2 \o clock
           q1 == zero \o inter
           q2 == gate \o shut
           q3 == q1 \o q2
<1> HIDE DEF p1
<1>8. Piece(p2, K, {"rst", "clear", "shim", "npi"}, W)
  <2>1. \A f \in {"rst", "clear"} : Enders[f] \cap {"shim", "npi"} = {}
    BY DEF Enders
  <2> QED BY <1>6, <1>7, <2>1, Joined DEF p1
<1> HIDE DEF p2
<1>9. Piece(p3, K, {"rst", "clear", "shim", "npi"}, W)
  <2>1. \A f \in {"rst", "clear", "shim", "npi"} : Enders[f] \cap {"clk"} = {}
    BY DEF Enders
  <2> QED BY <1>6, <1>8, <2>1, Joined
<1>10. Piece(q1, {"zero", "inter"}, {"mem"}, W)
  <2>1. Enders["mem"] \cap {"inter"} = {}
    BY DEF Enders
  <2> QED BY <1>4, <2>1, Joined
<1>11. Piece(q2, {"clk", "prot"}, {"off"}, W)
  <2>1. Enders["off"] \cap {"prot"} = {}
    BY DEF Enders
  <2> QED BY <1>4, <1>5, <2>1, Joined
<1> HIDE DEF p3, q1, q2
<1>12. Piece(q3, {"zero", "inter", "clk", "prot"}, {"mem", "off"}, W)
  <2>1. Enders["mem"] \cap {"clk", "prot"} = {}
    BY DEF Enders
  <2> QED BY <1>10, <1>11, <2>1, Joined
<1> HIDE DEF q3
<1>13. Piece(p3 \o q3, K, {"rst", "clear", "shim", "npi", "mem", "off"}, W)
  <2>1. \A f \in {"rst", "clear", "shim", "npi"} : Enders[f] \cap {"zero", "inter", "clk", "prot"} = {}
    BY DEF Enders
  <2> QED BY <1>9, <1>12, <2>1, Joined
<1> QED BY <1>3, <1>13 DEF p3, p2, p1, q3, q2, q1, W

\* Initialization.
InitWants(o) ==
    {f \in Facts : /\ f \in {"rst", "clear"} => Has(o, "COLUMN_RST") /\ gen # "AIE4"
                   /\ f = "shim" => Has(o, "SHIM_RST") /\ HasShimReset
                   /\ f = "npi" => Has(o, "SHIM_RST") /\ gen # "AIE4"
                   /\ f \in {"nmu0", "nmu1"} =>
                         Has(o, "SHIM_RST") /\ gen = "AIE2PS" /\ inst.start = 0
                   /\ f = "nsu" => Has(o, "BLOCK_NOCAXIMMERR")
                   /\ f = "mem" => Has(o, "ZEROIZEMEM")
                   /\ f = "border" => Has(o, "ISOLATE")}

LEMMA ProtPieces ==
    ASSUME InstOK(inst), NEW fail \in FailKinds, NEW wants
    PROVE  /\ Piece(<<Open(fail)>>, {"prot"}, {}, wants)
           /\ Piece(<<Close(fail)>>, {"prot"}, {}, wants)
<1>1. (IF gen = "AIE" THEN ProtColsAie ELSE ProtColsMl) \in SUBSET Int /\ {} \in SUBSET Int
  BY PartColsOK DEF ProtColsAie, ProtColsMl
<1> QED BY <1>1, Singles DEF Open, Close

LEMMA InitResetPieces ==
    ASSUME InstOK(inst), NEW o \in Options
    PROVE  Piece(InitReset(o), {"prot", "app", "clk", "rst", "shim", "npi", "nmu", "nsu"},
                 {"rst", "clear", "shim", "npi", "nmu0", "nmu1", "nsu"}, InitWants(o))
<1> DEFINE W == InitWants(o)
           K == {"prot", "app", "clk", "rst", "shim", "npi", "nmu", "nsu"}
           open == <<Open("return")>>
           app == When(DualApp /\ o.app # "single", <<Step("app", o.tiles, "return")>>)
           cond == Has(o, "COLUMN_RST") /\ gen # "AIE4"
           col == When(cond, ColumnReset("close"))
           asked == Has(o, "SHIM_RST")
           shim == When(asked, RstPartShims("close"))
           global == Has(o, "SHIM_RST") /\ gen = "AIE2PS" /\ inst.start = 0
           n0 == <<Step("nmu", 0, "close")>>
           n1 == <<Step("nmu", 1, "close")>>
           nmus == n0 \o n1
           nmu == When(global, nmus)
           block == Has(o, "BLOCK_NOCAXIMMERR")
           nsu == When(block, <<Step("nsu", TRUE, "close")>>)
           clock == ClockAfterRst("close")
<1>1. \A f \in W : /\ f \in {"rst", "clear"} => cond
                   /\ f \in {"shim", "npi"} => asked
                   /\ f = "shim" => HasShimReset
                   /\ f = "npi" => gen # "AIE4"
                   /\ f \in {"nmu0", "nmu1"} => global
                   /\ f = "nsu" => block
  BY DEF InitWants
<1> HIDE DEF W
<1>2. Wantable(W)
  BY <1>1 DEF Wantable
<1>3. /\ ~cond => {"rst", "clear"} \cap W = {}
      /\ ~asked => {"shim", "npi"} \cap W = {}
      /\ ~global => {"nmu0", "nmu1"} \cap W = {}
      /\ ~block => {"nsu"} \cap W = {}
  BY <1>1
<1>4. InitReset(o) = open \o app \o col \o shim \o nmu \o nsu \o clock
  <2>1. <<Step("nmu", 0, "close"), Step("nmu", 1, "close")>> = nmus
    BY OneAndOne
  <2> HIDE DEF nmus
  <2> QED BY <2>1 DEF InitReset, Write
<1> HIDE DEF cond, asked, global, block
<1>5. "close" \in FailKinds /\ "return" \in FailKinds /\ o.tiles \in Locations
  BY DEF FailKinds, Options
<1>6. Piece(open, {"prot"}, {}, W)
  BY <1>5, ProtPieces
<1>7. Piece(app, {"app"}, {}, W)
  BY <1>5, Singles, WhenPiece
<1>8. /\ Piece(col, {"clk", "rst"}, {"rst", "clear"}, W)
      /\ Piece(shim, {"shim", "npi"}, {"shim", "npi"}, W)
      /\ Piece(clock, {"clk"}, {}, W)
  BY <1>2, <1>3, <1>5, ResetPieces, WhenPiece
<1>9. Piece(nmu, {"nmu"}, {"nmu0", "nmu1"}, W)
  <2>1. Piece(n0, {"nmu"}, {"nmu0"}, W) /\ Piece(n1, {"nmu"}, {"nmu1"}, W)
    BY <1>5, Singles
  <2>2. Enders["nmu0"] \cap {"nmu"} = {}
    BY DEF Enders
  <2> HIDE DEF n0, n1
  <2>3. Piece(nmus, {"nmu"}, {"nmu0", "nmu1"}, W)
    BY <2>1, <2>2, Joined
  <2> HIDE DEF nmus
  <2> QED BY <1>3, <2>3, WhenPiece
<1>10. Piece(nsu, {"nsu"}, {"nsu"}, W)
  BY <1>3, <1>5, Singles, WhenPiece
<1> HIDE DEF open, app, col, shim, nmu, nsu, clock
<1> DEFINE p1 == open \o app
           p2 == p1 \o col
           p3 == p2 \o shim
           p4 == p3 \o nmu
           p5 == p4 \o nsu
           p6 == p5 \o clock
<1>11. Piece(p1, K, {}, W)
  BY <1>6, <1>7, Joined
<1> HIDE DEF p1
<1>12. Piece(p2, K, {"rst", "clear"}, W)
  BY <1>8, <1>11, Joined
<1> HIDE DEF p2
<1>13. Piece(p3, K, {"rst", "clear", "shim", "npi"}, W)
  <2>1. \A f \in {"rst", "clear"} : Enders[f] \cap {"shim", "npi"} = {}
    BY DEF Enders
  <2> QED BY <1>8, <1>12, <2>1, Joined
<1> HIDE DEF p3
<1>14. Piece(p4, K, {"rst", "clear", "shim", "npi", "nmu0", "nmu1"}, W)
  <2>1. \A f \in {"rst", "clear", "shim", "npi"} : Enders[f] \cap {"nmu"} = {}
    BY DEF Enders
  <2> QED BY <1>9, <1>13, <2>1, Joined
<1> HIDE DEF p4
<1>15. Piece(p5, K, {"rst", "clear", "shim", "npi", "nmu0", "nmu1", "nsu"}, W)
  <2>1. \A f \in {"rst", "clear", "shim", "npi", "nmu0", "nmu1"} : Enders[f] \cap {"nsu"} = {}
    BY DEF Enders
  <2> QED BY <1>10, <1>14, <2>1, Joined
<1> HIDE DEF p5
<1>16. Piece(p6, K, {"rst", "clear", "shim", "npi", "nmu0", "nmu1", "nsu"}, W)
  <2>1. \A f \in {"rst", "clear", "shim", "npi", "nmu0", "nmu1", "nsu"} : Enders[f] \cap {"clk"} = {}
    BY DEF Enders
  <2> QED BY <1>8, <1>15, <2>1, Joined
<1> QED BY <1>4, <1>16 DEF p6, p5, p4, p3, p2, p1, W

\* The request that ends it.
Requesting == {"clk", "unmark", "mark", "tile"}

LEMMA RequestKinds ==
    ASSUME InstOK(inst), NEW req \in Locations \cup {All}, NEW fail \in Reporting
    PROVE  RequestSteps(req, fail) \in Seq(Of(Requesting))
<1> DEFINE tile(t) == Step("tile", t, fail)
           tiles == [i \in DOMAIN req |-> tile(req[i])]
           mark == <<Step("mark", AllBits, fail)>>
           on == <<Write("clk", TRUE, fail)>>
           off == <<Write("clk", FALSE, fail), Step("unmark", AllBits, fail)>>
<1>1. /\ Step("mark", AllBits, fail) \in StepSet /\ Step("unmark", AllBits, fail) \in StepSet
      /\ Write("clk", TRUE, fail) \in StepSet /\ Write("clk", FALSE, fail) \in StepSet
      /\ \A v \in Nat \X Nat : tile(v) \in StepSet
  BY AllBitsOK, StepTypes DEF Write, Reporting
<1>2. /\ Step("mark", AllBits, fail) \in Of(Requesting)
      /\ Step("unmark", AllBits, fail) \in Of(Requesting)
      /\ Write("clk", TRUE, fail) \in Of(Requesting) /\ Write("clk", FALSE, fail) \in Of(Requesting)
      /\ \A v \in Nat \X Nat : tile(v) \in Of(Requesting)
  <2>1. \A do \in Requesting : \A v : Step(do, v, fail) \in StepSet => Step(do, v, fail) \in Of(Requesting)
    BY StepOn
  <2>2. {"mark", "unmark", "clk", "tile"} \subseteq Requesting
    BY DEF Requesting
  <2> QED BY <1>1, <2>1, <2>2 DEF Write
<1>3. mark \in Seq(Of(Requesting)) /\ on \in Seq(Of(Requesting)) /\ off \in Seq(Of(Requesting))
  BY <1>2, OneIn, TwoIn
<1>4. CASE req = All
  <2>1. ClockAfterRst(fail) \in Seq(Of(Requesting))
    BY <1>3, WhenIn DEF ClockAfterRst
  <2>2. (IF gen = "AIE" THEN on ELSE ClockAfterRst(fail)) \in Seq(Of(Requesting))
    BY <1>3, <2>1
  <2> HIDE DEF mark, on
  <2>3. mark \o (IF gen = "AIE" THEN on ELSE ClockAfterRst(fail)) \in Seq(Of(Requesting))
    BY <1>3, <2>2, ConcatIn
  <2> QED BY <1>4, <2>3 DEF RequestSteps, mark, on
<1>5. CASE req # All
  <2>1. tiles \in Seq(Of(Requesting))
    <3>1. req \in Seq(Nat \X Nat)
      BY <1>5 DEF Locations
    <3>2. \A i \in DOMAIN req : req[i] \in Nat \X Nat
      BY <3>1
    <3>3. DOMAIN req = 1..Len(req) /\ Len(req) \in Nat
      BY <3>1
    <3> HIDE DEF tile
    <3>4. \A i \in DOMAIN req : tile(req[i]) \in Of(Requesting)
      BY <1>2, <3>2 DEF tile
    <3> QED BY <3>3, <3>4, IsASeq
  <2>2. When(gen # "AIE", off) \in Seq(Of(Requesting))
    BY <1>3, WhenIn
  <2>3. RequestSteps(req, fail) = When(gen # "AIE", off) \o tiles
    BY <1>5 DEF RequestSteps
  <2> HIDE DEF off, tiles
  <2> QED BY <2>1, <2>2, <2>3, ConcatIn
<1> QED BY <1>4, <1>5

LEMMA RequestPieces ==
    ASSUME InstOK(inst), NEW req \in Locations \cup {All}, NEW nested \in BOOLEAN, NEW wants
    PROVE  Piece(RequestTiles(req, nested), Requesting \cup {"prot"}, {}, wants)
<1> DEFINE outer == IF nested THEN "close" ELSE "return"
           inner == IF nested THEN "closes" ELSE "close"
           K == Requesting \cup {"prot"}
<1>1. outer \in Reporting /\ inner \in Reporting /\ "drop" \in FailKinds /\ outer \in FailKinds
  BY DEF Reporting, FailKinds
<1>2. RequestTiles(req, nested) =
         IF gen = "AIE" THEN RequestSteps(req, outer)
         ELSE <<Open(outer)>> \o RequestSteps(req, inner) \o <<Close("drop")>>
  BY DEF RequestTiles
<1> HIDE DEF outer, inner
<1>3. /\ RequestSteps(req, outer) \in Seq(Of(Requesting))
      /\ RequestSteps(req, inner) \in Seq(Of(Requesting))
  BY <1>1, RequestKinds
<1>4. /\ <<Open(outer)>> \in Seq(Of({"prot"})) /\ <<Close("drop")>> \in Seq(Of({"prot"}))
  BY <1>1, ProtPieces DEF Piece
<1>5. Of(Requesting) \subseteq Of(K) /\ Of({"prot"}) \subseteq Of(K)
  BY OfMore
<1> HIDE DEF K
<1>6. /\ RequestSteps(req, outer) \in Seq(Of(K)) /\ RequestSteps(req, inner) \in Seq(Of(K))
      /\ <<Open(outer)>> \in Seq(Of(K)) /\ <<Close("drop")>> \in Seq(Of(K))
  BY <1>3, <1>4, <1>5, SubIn
<1>7. <<Open(outer)>> \o RequestSteps(req, inner) \o <<Close("drop")>> \in Seq(Of(K))
  BY <1>6, ConcatIn
<1>8. RequestTiles(req, nested) \in Seq(Of(K))
  BY <1>2, <1>6, <1>7
<1> QED BY <1>8 DEF Piece, K

\* On AIE the isolation counts on the columns in between, clear since the reset.
InnerLeads(p, x, y) == Leads(p, x, y, On("rst", TRUE), Of({"iso"}), Isolates)

LEMMA InnerQuiet ==
    ASSUME NEW a, NEW K, NEW F, NEW wants, Piece(a, K, F, wants), "iso" \notin K, NEW x \in Sureness
    PROVE  InnerLeads(a, x, x)
<1>1. a \in Seq(Of(K)) /\ \A s \in Of(K) : s \notin Of({"iso"}) /\ s \notin Isolates
  BY DEF Piece, Of, Isolates, On
<1> QED BY <1>1, LeadsQuiet DEF InnerLeads

LEMMA InnerJoined ==
    ASSUME NEW a, NEW K, NEW F, NEW wants, Piece(a, K, F, wants),
           NEW b, NEW L, NEW G, Piece(b, L, G, wants), "iso" \notin L,
           NEW x \in Sureness, InnerLeads(a, x, "unsure")
    PROVE  InnerLeads(a \o b, x, "unsure")
<1>1. a \in Seq(StepSet) /\ b \in Seq(StepSet)
  <2>1. Of(K) \subseteq StepSet /\ Of(L) \subseteq StepSet
    BY DEF Of
  <2> QED BY <2>1, SubIn DEF Piece
<1>2. InnerLeads(b, "unsure", "unsure")
  BY InnerQuiet DEF Sureness
<1> QED BY <1>1, <1>2, LeadsConcat DEF InnerLeads, Sureness

SetupKinds == {"split", "iso", "zero", "uc", "inter", "irq", "clk", "unmark", "mark", "tile", "prot"}

LEMMA InitSetupPieces ==
    ASSUME InstOK(inst), NEW o \in Options
    PROVE  /\ Piece(InitSetup(o), SetupKinds, {"border", "mem", "irq"}, InitWants(o))
           /\ InnerLeads(InitSetup(o), "sure", "unsure")
<1> DEFINE W == InitWants(o)
           K == SetupKinds
           two == Has(o, "L2_SPLIT") /\ DualApp /\ o.app # "single"
           split == When(two, <<Step("split", TRUE, "close")>>)
           flags == IF Has(o, "ISOLATE") THEN {"init"} ELSE {}
           iso == <<Step("iso", flags, "goOn")>>
           clear == Has(o, "ZEROIZEMEM")
           zero == When(clear, <<Step("zero", TRUE, "close")>>)
           uc == When(Has(o, "UC_MEM_PRIV") /\ gen = "AIE4", <<Step("uc", TRUE, "close")>>)
           inter == When(Interleaves(o), <<Step("inter", o.inter, "close")>>)
           irq == <<Step("irq", TRUE, "return")>>
           off == <<Step("clk", FALSE, "close")>>
           unmark == <<Step("unmark", AllBits, "close")>>
           gates == off \o unmark
           gate == When(gen = "AIE", gates)
           tiles == When(HasTiles(o), RequestTiles(o.tiles, TRUE))
           shut == <<Close("return")>>
<1>1. \A f \in W : /\ f = "mem" => clear
                   /\ f = "border" => Has(o, "ISOLATE")
  BY DEF InitWants
<1> HIDE DEF W
<1>2. ~clear => {"mem"} \cap W = {}
  BY <1>1
<1>3. InitSetup(o) = split \o iso \o zero \o uc \o inter \o irq \o gate \o tiles \o shut
  <2>1. <<Step("clk", FALSE, "close"), Step("unmark", AllBits, "close")>> = gates
    BY OneAndOne
  <2> HIDE DEF gates
  <2>2. flags = IF Has(o, "ISOLATE") THEN {"init"} ELSE {}
    OBVIOUS
  <2> HIDE DEF flags
  <2> QED BY <2>1, <2>2 DEF InitSetup, Write
<1> HIDE DEF clear, two
<1>4. /\ "close" \in FailKinds /\ "return" \in FailKinds /\ "goOn" \in FailKinds
      /\ o.tiles \in Locations /\ o.inter \in Nat /\ AllBits \in SUBSET Int
  BY AllBitsOK DEF FailKinds, Options
<1>5. Piece(split, {"split"}, {}, W) /\ Piece(uc, {"uc"}, {}, W)
  BY <1>4, Singles, WhenPiece
<1>6. Piece(iso, {"iso"}, {"border"}, W)
  <2>1. CASE Has(o, "ISOLATE")
    BY <1>4, <2>1, Singles
  <2>2. CASE ~Has(o, "ISOLATE")
    <3>1. Piece(<<Step("iso", {}, "goOn")>>, {"iso"}, {}, W)
      BY <1>4, Singles DEF Borders
    <3>2. {"border"} \cap W = {}
      BY <1>1, <2>2
    <3> QED BY <2>2, <3>1, <3>2 DEF Piece
  <2> QED BY <2>1, <2>2
<1>7. /\ Piece(zero, {"zero"}, {"mem"}, W)
      /\ Piece(inter, {"inter"}, {}, W) /\ Piece(irq, {"irq"}, {"irq"}, W)
  BY <1>2, <1>4, Singles, WhenPiece
<1>8. Piece(gate, {"clk", "unmark"}, {}, W)
  <2>1. Piece(off, {"clk"}, {"off"}, W) /\ Piece(unmark, {"unmark"}, {}, W)
    BY <1>4, Singles
  <2> HIDE DEF off, unmark
  <2>2. Piece(gates, {"clk", "unmark"}, {}, W)
    BY <2>1, Joined
  <2> HIDE DEF gates
  <2> QED BY <2>2, WhenPiece
<1>9. Piece(tiles, {"clk", "unmark", "mark", "tile", "prot"}, {}, W)
  <2>1. Piece(RequestTiles(o.tiles, TRUE), Requesting \cup {"prot"}, {}, W)
    BY <1>4, RequestPieces
  <2>2. Requesting \cup {"prot"} = {"clk", "unmark", "mark", "tile", "prot"}
    BY DEF Requesting
  <2> QED BY <2>1, <2>2, WhenPiece
<1>10. Piece(shut, {"prot"}, {}, W)
  BY <1>4, ProtPieces
<1>11. InnerLeads(iso, "sure", "unsure")
  <2>1. Step("iso", flags, "goOn") \in StepSet
    BY <1>4, StepTypes DEF Borders
  <2> DEFINE s == Step("iso", flags, "goOn")
  <2> HIDE DEF s
  <2>2. InnerLeads(<<s>>, "sure", "unsure")
    BY <2>1, LeadsStep DEF InnerLeads, Sureness, s
  <2> QED BY <2>2 DEF s
<1> HIDE DEF split, iso, zero, uc, inter, irq, gate, tiles, shut
<1> DEFINE p1 == split \o iso
           p2 == p1 \o zero
           p3 == p2 \o uc
           p4 == p3 \o inter
           p5 == p4 \o irq
           p6 == p5 \o gate
           p7 == p6 \o tiles
           p8 == p7 \o shut
<1>12. Piece(p1, K, {"border"}, W) /\ InnerLeads(p1, "sure", "unsure")
  <2>1. Piece(p1, K, {"border"}, W)
    BY <1>5, <1>6, Joined DEF SetupKinds
  <2>2. InnerLeads(split, "sure", "sure")
    BY <1>5, InnerQuiet DEF Sureness
  <2>3. split \in Seq(StepSet) /\ iso \in Seq(StepSet)
    <3>1. Of({"split"}) \subseteq StepSet /\ Of({"iso"}) \subseteq StepSet
      BY DEF Of
    <3> QED BY <1>5, <1>6, <3>1, SubIn DEF Piece
  <2> QED BY <1>11, <2>1, <2>2, <2>3, LeadsConcat DEF InnerLeads, Sureness
<1> HIDE DEF p1
<1>13. Piece(p2, K, {"border", "mem"}, W) /\ InnerLeads(p2, "sure", "unsure")
  <2>1. Enders["border"] \cap {"zero"} = {}
    BY DEF Enders
  <2>2. Piece(p2, K, {"border", "mem"}, W)
    BY <1>7, <1>12, <2>1, Joined DEF SetupKinds
  <2> QED BY <1>7, <1>12, <2>2, InnerJoined DEF Sureness
<1> HIDE DEF p2
<1>14. Piece(p3, K, {"border", "mem"}, W) /\ InnerLeads(p3, "sure", "unsure")
  <2>1. Enders["border"] \cap {"uc"} = {} /\ Enders["mem"] \cap {"uc"} = {}
    BY DEF Enders
  <2>2. Piece(p3, K, {"border", "mem"}, W)
    BY <1>5, <1>13, <2>1, Joined DEF SetupKinds
  <2> QED BY <1>5, <1>13, <2>2, InnerJoined DEF Sureness
<1> HIDE DEF p3
<1>15. Piece(p4, K, {"border", "mem"}, W) /\ InnerLeads(p4, "sure", "unsure")
  <2>1. Enders["border"] \cap {"inter"} = {} /\ Enders["mem"] \cap {"inter"} = {}
    BY DEF Enders
  <2>2. Piece(p4, K, {"border", "mem"}, W)
    BY <1>7, <1>14, <2>1, Joined DEF SetupKinds
  <2> QED BY <1>7, <1>14, <2>2, InnerJoined DEF Sureness
<1> HIDE DEF p4
<1>16. Piece(p5, K, {"border", "mem", "irq"}, W) /\ InnerLeads(p5, "sure", "unsure")
  <2>1. Enders["border"] \cap {"irq"} = {} /\ Enders["mem"] \cap {"irq"} = {}
    BY DEF Enders
  <2>2. Piece(p5, K, {"border", "mem", "irq"}, W)
    BY <1>7, <1>15, <2>1, Joined DEF SetupKinds
  <2> QED BY <1>7, <1>15, <2>2, InnerJoined DEF Sureness
<1> HIDE DEF p5
<1>17. Piece(p6, K, {"border", "mem", "irq"}, W) /\ InnerLeads(p6, "sure", "unsure")
  <2>1. \A f \in {"border", "mem", "irq"} : Enders[f] \cap {"clk", "unmark"} = {}
    BY DEF Enders
  <2>2. Piece(p6, K, {"border", "mem", "irq"}, W)
    BY <1>8, <1>16, <2>1, Joined DEF SetupKinds
  <2> QED BY <1>8, <1>16, <2>2, InnerJoined DEF Sureness
<1> HIDE DEF p6
<1>18. Piece(p7, K, {"border", "mem", "irq"}, W) /\ InnerLeads(p7, "sure", "unsure")
  <2>1. \A f \in {"border", "mem", "irq"} :
           Enders[f] \cap {"clk", "unmark", "mark", "tile", "prot"} = {}
    BY DEF Enders
  <2>2. Piece(p7, K, {"border", "mem", "irq"}, W)
    BY <1>9, <1>17, <2>1, Joined DEF SetupKinds
  <2> QED BY <1>9, <1>17, <2>2, InnerJoined DEF Sureness
<1> HIDE DEF p7
<1>19. Piece(p8, K, {"border", "mem", "irq"}, W) /\ InnerLeads(p8, "sure", "unsure")
  <2>1. \A f \in {"border", "mem", "irq"} : Enders[f] \cap {"prot"} = {}
    BY DEF Enders
  <2>2. Piece(p8, K, {"border", "mem", "irq"}, W)
    BY <1>10, <1>18, <2>1, Joined DEF SetupKinds
  <2> QED BY <1>10, <1>18, <2>2, InnerJoined DEF Sureness
<1>20. InitSetup(o) = p8
  BY <1>3 DEF p8, p7, p6, p5, p4, p3, p2, p1
<1> QED BY <1>19, <1>20 DEF W

LEMMA InitPieces ==
    ASSUME InstOK(inst), NEW o \in Options
    PROVE  /\ \A f \in {"rst", "shim", "npi", "nmu0", "nmu1", "nsu", "border", "mem", "irq"} :
                 f \in InitWants(o) => Establishes(InitPart(o), Good[f], Bad[f])
           /\ "clear" \in InitWants(o) => InnerLeads(InitPart(o), "unsure", "unsure")
<1> DEFINE W == InitWants(o)
           a == InitReset(o)
           b == InitSetup(o)
           K == {"prot", "app", "clk", "rst", "shim", "npi", "nmu", "nsu"}
           F == {"rst", "clear", "shim", "npi", "nmu0", "nmu1", "nsu"}
           L == SetupKinds
           G == {"border", "mem", "irq"}
           H == {"rst", "shim", "npi", "nmu0", "nmu1", "nsu", "border", "mem", "irq"}
<1>1. Piece(a, K, F, W) /\ Piece(b, L, G, W) /\ InnerLeads(b, "sure", "unsure")
  BY InitResetPieces, InitSetupPieces
<1>2. InitPart(o) = a \o b
  BY DEF InitPart
<1> HIDE DEF W, a, b
<1>3. \A f \in H : f \in G \/ (f \in F /\ Enders[f] \cap L = {})
  BY DEF Enders, SetupKinds
<1>4. H \subseteq Facts /\ "iso" \notin K /\ "clear" \in F /\ "clear" \in Facts
  BY DEF Facts
<1>5. Good["clear"] = On("rst", TRUE) /\ Bad["clear"] = Of({"iso"})
  BY DEF Good, Bad
<1> HIDE DEF K, F, L, G, H
<1> DEFINE M == K \cup L
<1>6. Piece(a \o b, M, H, W)
  <2>1. K \subseteq M /\ L \subseteq M
    OBVIOUS
  <2> HIDE DEF M
  <2> QED BY <1>1, <1>3, <2>1, Joined
<1>7. ASSUME "clear" \in W PROVE InnerLeads(a \o b, "unsure", "unsure")
  <2>1. Establishes(a, On("rst", TRUE), Of({"iso"}))
    BY <1>1, <1>4, <1>5, <1>7 DEF Piece
  <2>2. \A s \in Of(K) : s \notin Isolates
    BY <1>4 DEF Of, Isolates, On
  <2>3. a \in Seq(Of(K)) /\ Len(a) \in Nat /\ \A i \in 1..Len(a) : a[i] \in Of(K)
    BY <1>1 DEF Piece
  <2>4. InnerLeads(a, "unsure", "sure")
    BY <2>1, <2>2, <2>3 DEF InnerLeads, Establishes, Leads
  <2>5. a \in Seq(StepSet) /\ b \in Seq(StepSet)
    <3>1. Of(K) \subseteq StepSet /\ Of(L) \subseteq StepSet
      BY DEF Of
    <3> QED BY <1>1, <3>1, SubIn DEF Piece
  <2> QED BY <1>1, <2>4, <2>5, LeadsConcat DEF InnerLeads, Sureness
<1> QED BY <1>2, <1>4, <1>6, <1>7 DEF Piece, H, W

----------------------------------------------------------------------------
(* The promises at the beginning and at the end of a call.                  *)

\* The refused mode brings about everything that can be asked of its plan.
LEMMA PromiseMade ==
    ASSUME NEW plan, NEW x \in Sureness, NEW good, NEW bad, bad \cap Void = {},
           plan = Refused \/ Establishes(plan, good, bad)
    PROVE  Leads(plan, x, "sure", good \cup Void, bad, {})
<1> DEFINE all == good \cup Void
<1>1. CASE plan = Refused
  <2> DEFINE s == Step("unsupported", "", "return")
  <2>1. s \in Void
    BY StepTypes, StepOn DEF Void, FailKinds
  <2>2. Void \subseteq StepSet
    BY DEF Void, Of
  <2>3. s \in all /\ s \notin bad /\ s \in StepSet
    BY <2>1, <2>2
  <2> HIDE DEF s, all
  <2>4. Leads(<<s>>, x, "sure", all, bad, {})
    BY <2>3, LeadsStep DEF Sureness
  <2> QED BY <1>1, <2>4 DEF Refused, s, all
<1>2. CASE Establishes(plan, good, bad)
  <2>1. Leads(plan, "unsure", "sure", good, bad, {})
    BY <1>2 DEF Establishes
  <2>2. good \subseteq all
    OBVIOUS
  <2> HIDE DEF all
  <2>3. Leads(plan, x, "sure", all, bad, {})
    BY <2>1, <2>2 DEF Leads, SureAt, Sureness
  <2> QED BY <2>3 DEF all
<1> QED BY <1>1, <1>2

LEMMA PromiseKept ==
    ASSUME Idle, NEW fact, NEW good, NEW bad, Promises(fact, good, bad) PROVE fact
<1>1. Leads(<<>>, SureIf(fact), "sure", good \cup Void, bad, {})
  BY DEF Promises, Idle
<1>2. SureAt(<<>>, SureIf(fact), Len(<<>>) + 1, good \cup Void, bad)
  BY <1>1 DEF Leads
<1>3. SureIf(fact) = "sure"
  BY <1>2 DEF SureAt
<1> QED BY <1>3 DEF SureIf

LEMMA BadApart == \A f \in Facts : Bad[f] \cap Void = {}
<1>1. \A f \in Facts : "unsupported" \notin Enders[f]
  BY DEF Facts, Enders
<1> QED BY <1>1, EndersAre DEF Void, Of

\* Teardown.
LEMMA TeardownSetUp == ASSUME TypeOK, PartitionTeardown PROVE SetUp'
<1>1. /\ call'.op = "teardown" /\ call'.plan = TeardownPart /\ gen' = gen /\ inst' = inst
      /\ (HasShimReset' <=> HasShimReset)
  BY DEF PartitionTeardown, Begin, HasShimReset
<1> DEFINE W == TeardownWants
<1>2. \A f \in {"rst", "clear", "shim", "npi", "mem", "off"} :
         f \in W => Establishes(TeardownPart, Good[f], Bad[f])
  BY TeardownPieces DEF Piece, TypeOK, Facts
<1>3. ASSUME NEW f \in {"rst", "clear", "shim", "npi", "mem", "off"}, f \in W, NEW fact
      PROVE  Leads(call'.plan, SureIf(fact), "sure", Good[f] \cup Void, Bad[f], {})
  <2>1. f \in Facts
    BY DEF Facts
  <2> QED BY <1>1, <1>2, <1>3, <2>1, BadApart, SureIfIn, PromiseMade
<1>4. /\ gen # "AIE4" => {"rst", "clear", "npi"} \subseteq W
      /\ HasShimReset => "shim" \in W
      /\ {"mem", "off"} \subseteq W
  BY DEF TeardownWants, Facts
<1> HIDE DEF W
<1>5. Kept1'
  <2>1. gen # "AIE4" => Leads(call'.plan, SureIf(RstOff'), "sure", On("rst", FALSE) \cup Void, On("rst", TRUE), {})
    BY <1>3, <1>4 DEF Good, Bad
  <2>2. HasShimReset => Leads(call'.plan, SureIf(ShimOff'), "sure", On("shim", FALSE) \cup Void, On("shim", TRUE), {})
    BY <1>3, <1>4 DEF Good, Bad
  <2>3. gen # "AIE4" => Leads(call'.plan, SureIf(NpiOff'), "sure", On("npi", FALSE) \cup Void, On("npi", TRUE), {})
    BY <1>3, <1>4 DEF Good, Bad
  <2>4. Leads(call'.plan, SureIf(MemZero'), "sure", Of({"zero"}) \cup Void, {}, {})
    BY <1>3, <1>4 DEF Good, Bad
  <2> QED BY <1>1, <2>1, <2>2, <2>3, <2>4 DEF Kept1, Promises, SureIf, Resets
<1>6. TeardownKept'
  <2>1. gen # "AIE4" => Leads(call'.plan, SureIf(IsoClear'), "sure", On("rst", TRUE) \cup Void, Of({"iso"}), {})
    BY <1>3, <1>4 DEF Good, Bad
  <2>2. Leads(call'.plan, SureIf(ClocksOff'), "sure", On("clk", FALSE) \cup Void,
              On("clk", TRUE) \cup Of({"tile", "columns"}), {})
    BY <1>3, <1>4 DEF Good, Bad
  <2> QED BY <1>1, <2>1, <2>2 DEF TeardownKept, Promises, SureIf
<1>7. InitKept' /\ BordersKept'
  BY <1>1 DEF InitKept, BordersKept, Bordering
<1> QED BY <1>5, <1>6, <1>7 DEF SetUp

\* Initialization.
LEMMA InitSetUp == ASSUME TypeOK, NEW o \in InitOpts, PartitionInitialize(o) PROVE SetUp'
<1> DEFINE plan == IF BadMode(o) THEN Refused ELSE InitPart(o)
           W == InitWants(o)
<1>1. /\ call'.op = "init" /\ call'.plan = plan /\ call'.arg = o /\ gen' = gen
      /\ inst'.start = inst.start /\ inst'.cols = inst.cols
      /\ (HasShimReset' <=> HasShimReset) /\ FirstCol' = FirstCol /\ FirstCol = inst.start
      /\ o \in Options
  BY SizesOK DEF PartitionInitialize, Begin, HasShimReset, FirstCol, TypeOK, InstOK, Options
<1>2. \A flag : HasFlag(flag)' <=> Has(o, flag)
  BY <1>1 DEF HasFlag, Has
<1> DEFINE H == {"rst", "shim", "npi", "nmu0", "nmu1", "nsu", "border", "mem", "irq"}
<1>3. /\ \A f \in H : f \in W => Establishes(InitPart(o), Good[f], Bad[f])
      /\ "clear" \in W => InnerLeads(InitPart(o), "unsure", "unsure")
  BY <1>1, InitPieces DEF TypeOK
<1>4. /\ Has(o, "COLUMN_RST") /\ gen # "AIE4" => "rst" \in W /\ "clear" \in W
      /\ Has(o, "SHIM_RST") /\ HasShimReset => "shim" \in W
      /\ Has(o, "SHIM_RST") /\ gen # "AIE4" => "npi" \in W
      /\ Has(o, "SHIM_RST") /\ gen = "AIE2PS" /\ inst.start = 0 => "nmu0" \in W /\ "nmu1" \in W
      /\ Has(o, "BLOCK_NOCAXIMMERR") => "nsu" \in W
      /\ Has(o, "ZEROIZEMEM") => "mem" \in W
      /\ Has(o, "ISOLATE") => "border" \in W
      /\ "irq" \in W
  BY DEF InitWants, Facts
<1>5. plan = Refused \/ plan = InitPart(o)
  OBVIOUS
<1> HIDE DEF W, plan
<1>6. ASSUME NEW f \in H, f \in W, NEW fact
      PROVE  Leads(call'.plan, SureIf(fact), "sure", Good[f] \cup Void, Bad[f], {})
  <2>1. f \in Facts
    BY DEF Facts
  <2>2. plan = Refused \/ Establishes(plan, Good[f], Bad[f])
    BY <1>3, <1>5, <1>6
  <2> QED BY <1>1, <2>1, <2>2, BadApart, SureIfIn, PromiseMade
<1> HIDE DEF H
<1>h. {"rst", "shim", "npi", "nmu0", "nmu1", "nsu", "border", "mem", "irq"} \subseteq H
  BY DEF H
<1>7. Kept1'
  <2>1. Has(o, "COLUMN_RST") /\ gen # "AIE4" =>
           Leads(call'.plan, SureIf(RstOff'), "sure", On("rst", FALSE) \cup Void, On("rst", TRUE), {})
    BY <1>h, <1>6, <1>4 DEF Good, Bad
  <2>2. Has(o, "SHIM_RST") /\ HasShimReset =>
           Leads(call'.plan, SureIf(ShimOff'), "sure", On("shim", FALSE) \cup Void, On("shim", TRUE), {})
    BY <1>h, <1>6, <1>4 DEF Good, Bad
  <2>3. Has(o, "SHIM_RST") /\ gen # "AIE4" =>
           Leads(call'.plan, SureIf(NpiOff'), "sure", On("npi", FALSE) \cup Void, On("npi", TRUE), {})
    BY <1>h, <1>6, <1>4 DEF Good, Bad
  <2>4. Has(o, "ZEROIZEMEM") =>
           Leads(call'.plan, SureIf(MemZero'), "sure", Of({"zero"}) \cup Void, {}, {})
    BY <1>h, <1>6, <1>4 DEF Good, Bad
  <2>5. /\ Resets' => Has(o, "COLUMN_RST") /\ gen # "AIE4"
        /\ ShimResets' => Has(o, "SHIM_RST")
        /\ Zeroizes' => Has(o, "ZEROIZEMEM")
    BY <1>1, <1>2 DEF Resets, ShimResets, Zeroizes, Begins
  <2> QED BY <1>1, <2>1, <2>2, <2>3, <2>4, <2>5 DEF Kept1, Promises, SureIf
<1>8. TeardownKept'
  BY <1>1 DEF TeardownKept
<1>9. InitKept'
  <2>1. Has(o, "BLOCK_NOCAXIMMERR") =>
           Leads(call'.plan, SureIf(NsuOn'), "sure", On("nsu", TRUE) \cup Void, On("nsu", FALSE), {})
    BY <1>h, <1>6, <1>4 DEF Good, Bad
  <2>2. Leads(call'.plan, SureIf(IrqOn'), "sure", On("irq", TRUE) \cup Void, On("irq", FALSE), {})
    BY <1>h, <1>6, <1>4 DEF Good, Bad
  <2>3. ASSUME gen # "AIE", o.tiles = <<>>
        PROVE  Leads(call'.plan, SureIf(ClocksOn'), "sure", Ungates \cup Void, Gates, {})
    <3>1. Ordered(InitPart(o), "unsure", "sure")
      BY <1>1, <2>3, InitPartOrdered DEF TypeOK, HasTiles
    <3>2. Establishes(InitPart(o), Ungates, Gates)
      BY <3>1 DEF Ordered, ClocksLead, Establishes, Leads
    <3>3. Gates \cap Void = {}
      BY DEF Gates, Void, Of
    <3> QED BY <1>1, <1>5, <3>2, <3>3, SureIfIn, PromiseMade
  <2>4. ASSUME gen = "AIE2PS", Has(o, "SHIM_RST"), inst.start = 0, NEW k \in {0, 1}
        PROVE  Leads(call'.plan, SureIf(NmuOn(k)'), "sure", On("nmu", k) \cup Void, {}, {})
    <3>1. CASE k = 0
      BY <1>h, <1>6, <1>4, <2>4, <3>1 DEF Good, Bad
    <3>2. CASE k = 1
      BY <1>h, <1>6, <1>4, <2>4, <3>2 DEF Good, Bad
    <3> QED BY <3>1, <3>2
  <2> QED BY <1>1, <1>2, <2>1, <2>2, <2>3, <2>4 DEF InitKept, Promises, SureIf
<1>10. BordersKept'
  <2> SUFFICES ASSUME Bordering' PROVE BordersKept'
    BY DEF BordersKept
  <2>1. Has(o, "ISOLATE") /\ Has(o, "COLUMN_RST")
    BY <1>2 DEF Bordering
  <2>2. Leads(call'.plan, SureIf(Bordered'), "sure", Isolates \cup Void, Unborders, {})
    BY <1>h, <1>6, <1>4, <2>1 DEF Good, Bad
  <2>3. ASSUME gen = "AIE"
        PROVE  Leads(call'.plan, SureIf(InnerClear'), "unsure", On("rst", TRUE) \cup Void, Of({"iso"}), Isolates)
    <3> DEFINE all == On("rst", TRUE) \cup Void
               x == SureIf(InnerClear')
    <3>0. x \in Sureness /\ On("rst", TRUE) \subseteq all
      BY SureIfIn
    <3>1. ~BadMode(o)
      BY <2>3 DEF BadMode, DualApp
    <3>2. call'.plan = InitPart(o)
      BY <1>1, <3>1 DEF plan
    <3>3. InnerLeads(InitPart(o), "unsure", "unsure")
      BY <1>3, <1>4, <2>1, <2>3
    <3> HIDE DEF all, x
    <3>4. Leads(call'.plan, x, "unsure", all, Of({"iso"}), Isolates)
      BY <3>0, <3>2, <3>3 DEF InnerLeads, Leads, SureAt, Sureness
    <3> QED BY <3>4 DEF all, x
  <2> QED BY <1>1, <2>2, <2>3 DEF BordersKept, Promises, SureIf
<1> QED BY <1>7, <1>8, <1>9, <1>10 DEF SetUp

----------------------------------------------------------------------------
(* The registers a generation does not have are never written.              *)

Seldom == {"shim", "npi", "rst"}
Released == [c \in Cols |-> FALSE]
QuietHw ==
    /\ ~HasShimReset => hw["shim"] = Released
    /\ gen = "AIE4" => hw["npi"] = FALSE /\ hw["rst"] = Released

LEMMA StepSeldom ==
    ASSUME TypeOK, CallStep
    PROVE  \A reg \in Seldom : Now.do # reg => hw'[reg] = hw[reg]
<1>0. ~Idle /\ HwOK(hw) /\ DOMAIN hw = Regs \cup {"prot", "locked"} /\ Now \in StepSet
  BY CallMoves, NowOK DEF TypeOK, HwOK, Regs
<1> DEFINE Goal == \A reg \in Seldom : Now.do # reg => hw'[reg] = hw[reg]
<1> SUFFICES Goal
  OBVIOUS
<1>1. ASSUME hw' = hw PROVE Goal
  BY <1>1
<1>2. ASSUME NEW h, \A reg \in Seldom : Now.do # reg => h[reg] = hw[reg], DOMAIN h = DOMAIN hw,
             NEW lock, hw' = NpiSetLock(h, lock)
      PROVE  Goal
  BY <1>0, <1>2 DEF NpiSetLock, Seldom, Regs, ColumnRegs
<1>3. CASE ProtStep
  <2> DEFINE h == [hw EXCEPT !.prot = Now.arg]
  <2>1. /\ \A reg \in Seldom : h[reg] = hw[reg]
        /\ DOMAIN h = DOMAIN hw
    BY <1>0 DEF Seldom, Regs, ColumnRegs
  <2>2. \E lock : hw' = NpiSetLock(h, lock) \/ hw' = NpiSetLock(hw, lock)
    BY <1>3 DEF ProtStep, NpiStep
  <2> HIDE DEF h, Goal
  <2> QED BY <1>2, <2>1, <2>2
<1>4. CASE ShimResetStep
  <2> DEFINE h == [hw EXCEPT !.npi = Now.arg]
  <2>1. /\ \A reg \in Seldom : Now.do # reg => h[reg] = hw[reg]
        /\ DOMAIN h = DOMAIN hw
    BY <1>0, <1>4 DEF Seldom, Regs, ColumnRegs, ShimResetStep, Doing
  <2>2. \E lock : hw' = NpiSetLock(h, lock) \/ hw' = NpiSetLock(hw, lock)
    BY <1>4 DEF ShimResetStep, NpiStep
  <2> HIDE DEF h, Goal
  <2> QED BY <1>2, <2>1, <2>2
<1>5. CASE ColumnsStep
  <2>1. Now.do \in PerColumn /\ \E cs : hw' = Written(hw, Now.do, Now.arg, cs)
    BY <1>5 DEF ColumnsStep, Doing
  <2>2. PICK cs : hw' = Written(hw, Now.do, Now.arg, cs)
    BY <2>1
  <2>3. Now.do = "rst" => Now.arg \in BOOLEAN
    BY <1>0 DEF StepSet
  <2>4. \A reg \in Regs : Now.do \notin Writers[reg] => hw'[reg] = hw[reg]
    BY <1>0, <2>1, <2>2, <2>3, WrittenRegs
  <2>5. Writers["shim"] = {"shim"} /\ Writers["npi"] = {"npi"} /\ Writers["rst"] = {"rst"}
    BY DEF Writers
  <2>6. Seldom \subseteq Regs
    BY DEF Seldom, Regs, ColumnRegs
  <2> QED BY <2>4, <2>5, <2>6 DEF Seldom
<1>6. CASE NmuStep
  <2>1. hw' = hw \/ hw' = [hw EXCEPT !.nmu[Now.arg] = TRUE]
    BY <1>6 DEF NmuStep
  <2> QED BY <1>0, <2>1 DEF Seldom, Regs, ColumnRegs
<1>7. CASE AppStep
  <2>1. \E x : hw' = [hw EXCEPT !.app[FirstCol] = x]
    BY <1>7 DEF AppStep
  <2> QED BY <1>0, <2>1 DEF Seldom, Regs, ColumnRegs
<1>8. CASE Mark \/ Unmark \/ InvalidTile \/ Unsupported
  BY <1>1, <1>8 DEF Mark, Unmark, InvalidTile, Unsupported
<1>9. CASE AieTileStep
  <2> DEFINE asked == AieClocks(hw, FirstCol + Now.arg[1], Now.arg[2], TopInUse(Now.arg[1]))
             c == FirstCol + Now.arg[1]
  <2>1. \/ hw' = hw
        \/ hw' = asked
        \/ hw' = [asked EXCEPT !.clk[c] = hw.clk[c]]
        \/ \E v : hw' = [asked EXCEPT !.up[c] = v]
    BY <1>9 DEF AieTileStep
  <2>2. DOMAIN asked = DOMAIN hw /\ \A reg \in Seldom : asked[reg] = hw[reg]
    BY <1>0 DEF AieClocks, Seldom, Regs, ColumnRegs
  <2> HIDE DEF asked, c
  <2> QED BY <1>0, <2>1, <2>2 DEF Seldom, Regs, ColumnRegs
<1>10. CASE MlTileStep \/ Aie4TileStep
  <2>1. hw' = hw \/ hw' = [hw EXCEPT !.clk[FirstCol + Now.arg[1]] = TRUE]
    BY <1>10 DEF MlTileStep, Aie4TileStep, ColumnRequest
  <2> QED BY <1>0, <2>1 DEF Seldom, Regs, ColumnRegs
<1>11. CASE ColumnClkStep
  <2>1. \E x : hw' = [hw EXCEPT !.clk = x]
    BY <1>11 DEF ColumnClkStep, ClkWritten
  <2> QED BY <1>0, <2>1 DEF Seldom, Regs, ColumnRegs
<1>12. CASE InterlocStep
  <2>1. hw' = hw \/ \E c, v : hw' = [hw EXCEPT !.inter[c] = v]
    BY <1>12 DEF InterlocStep
  <2> QED BY <1>0, <2>1 DEF Seldom, Regs, ColumnRegs
<1>13. CASE ClearStep
  <2>1. \E x : hw' = [hw EXCEPT !.mem = x]
    BY <1>13 DEF ClearStep
  <2> QED BY <1>0, <2>1 DEF Seldom, Regs, ColumnRegs
<1>14. CASE InterRefused
  <2>1. hw' = hw \/ \E x : hw' = [hw EXCEPT !.inter = x]
    BY <1>14 DEF InterRefused, SkewWritten, InterWritten
  <2> QED BY <1>0, <2>1 DEF Seldom, Regs, ColumnRegs
<1> HIDE DEF Goal
<1> QED BY <1>3, <1>4, <1>5, <1>6, <1>7, <1>8, <1>9, <1>10, <1>11, <1>12, <1>13, <1>14 DEF CallStep

LEMMA QuietKept == TypeOK /\ QuietHw /\ [Next]_vars => QuietHw'
<1> SUFFICES ASSUME TypeOK, QuietHw, [Next]_vars PROVE QuietHw'
  OBVIOUS
<1>1. gen' = gen /\ \A reg \in Seldom : hw'[reg] = hw[reg]
         \/ (CallStep /\ Now.do = reg)
  <2>1. CASE \E part \in Parts : CfgInitialize(part)
    BY <2>1 DEF CfgInitialize
  <2>2. CASE \E op \in Ops, arg \in Args : \E plan \in Seq(Planned(gen, inst, op)) : Begun(op, arg, plan)
    BY <2>2 DEF Begun, Begin
  <2>3. CASE Run
    BY <2>3 DEF Run, TypeOK, HwOK, ColumnRegs, Seldom
  <2>4. CASE CallStep
    BY <2>4, StepSeldom, CallMoves
  <2>5. CASE UNCHANGED vars
    BY <2>5 DEF vars
  <2> QED BY <2>1, <2>2, <2>3, <2>4, <2>5, NextIs
<1>2. CallStep => /\ Now.do = "shim" => HasShimReset
                  /\ Now.do \in {"npi", "rst"} => gen # "AIE4"
  <2> SUFFICES ASSUME CallStep PROVE /\ Now.do = "shim" => HasShimReset
                                     /\ Now.do \in {"npi", "rst"} => gen # "AIE4"
    OBVIOUS
  <2>1. Now \in Planned(gen, inst, call.op)
    BY CallMoves, NowOK DEF Plan
  <2> QED BY <2>1 DEF Planned, StepsIn, HasShimReset
<1>3. {"shim", "npi", "rst"} \subseteq Seldom
  BY DEF Seldom
<1> QED BY <1>1, <1>2, <1>3 DEF QuietHw, HasShimReset

----------------------------------------------------------------------------
(* The promises hold from call to call.                                     *)

LEMMA SetUpKept == TypeOK /\ SetUpInv /\ [Next]_vars => SetUpInv'
<1> SUFFICES ASSUME TypeOK, SetUpInv, [Next]_vars, (call.rc = "ok" /\ Clean)' PROVE SetUp'
  BY DEF SetUpInv
<1>0. ASSUME call'.op \notin {"init", "teardown"} PROVE SetUp'
  BY <1>0 DEF SetUp, Kept1, TeardownKept, InitKept, BordersKept, Resets, ShimResets, Zeroizes,
              Bordering, Begins
<1>1. CASE Client
  <2>1. CASE \E part \in Parts : CfgInitialize(part)
    <3>1. call'.op = "none"
      BY <2>1 DEF CfgInitialize, TypeOK, CallOK
    <3> QED BY <1>0, <3>1
  <2>2. CASE \E o \in InitOpts : PartitionInitialize(o)
    BY <2>2, InitSetUp
  <2>3. CASE PartitionTeardown
    BY <2>3, TeardownSetUp
  <2>4. ASSUME NEW op, NEW arg, NEW plan, Begin(op, arg, plan), op \notin {"init", "teardown"}
        PROVE  SetUp'
    <3>1. call'.op = op
      BY <2>4 DEF Begin
    <3> QED BY <1>0, <2>4, <3>1
  <2>5. CASE \E o \in InitOpts, parent \in Parts : SoftPartitionInitialize(o, parent)
    BY <2>4, <2>5 DEF SoftPartitionInitialize
  <2>6. CASE \E req \in Requests : PmRequestTiles(req)
    <3>1. \E arg, plan : Begin("request", arg, plan)
      BY <2>6 DEF PmRequestTiles
    <3> QED BY <2>4, <3>1
  <2>7. CASE \E req \in ColumnReqs : PmSetColumnClk(req)
    BY <2>4, <2>7 DEF PmSetColumnClk
  <2>8. CASE ResetPartition \/ ClearPartitionMems
    <3>1. (\E arg, plan : Begin("reset", arg, plan)) \/ (\E arg, plan : Begin("clear", arg, plan))
      BY <2>8 DEF ResetPartition, ClearPartitionMems
    <3> QED BY <2>4, <3>1
  <2>9. CASE \E req \in Requests, mode \in {0, 2} : req # All /\ ConfigMemInterleavingLoc(req, mode)
    BY <2>4, <2>9 DEF ConfigMemInterleavingLoc
  <2>10. CASE \E flags \in {{}, {"init"}, {"west"}} : SetAxiMMIsolation(flags)
    BY <2>4, <2>10 DEF SetAxiMMIsolation
  <2> QED BY <1>1, <2>1, <2>2, <2>3, <2>5, <2>6, <2>7, <2>8, <2>9, <2>10 DEF Client
<1>2. CASE Run
  <2>1. call'.op = "none"
    BY <1>2 DEF Run, TypeOK, CallOK
  <2> QED BY <1>0, <2>1
<1>3. CASE CallStep
  <2>1. Fine
    BY DEF Fine, Clean
  <2>2. Succeed
    BY <1>3, <2>1, StepUntouched
  <2>3. call.rc = "ok" /\ Clean
    BY <2>1, <2>2 DEF Succeed, Fine, Clean, TypeOK, CallOK
  <2> QED BY <1>3, <2>1, <2>3, StepSetUp DEF SetUpInv
<1>4. CASE UNCHANGED vars
  <2>1. call' = call /\ gen' = gen /\ inst' = inst /\ hw' = hw
    BY <1>4 DEF vars
  <2>2. SetUp
    BY <2>1 DEF SetUpInv, Clean
  <2>3. SetUp' = SetUp
    BY <2>1 DEF SetUp, Kept1, TeardownKept, InitKept, BordersKept, Resets, ShimResets, Zeroizes,
              Bordering, Begins, HasFlag, HasShimReset, FirstCol, LastCol, PartCols, Promises, SureIf,
              RstOff, ShimOff, NpiOff, IsoClear, Bordered, BorderSet, NsuOn, IrqOn, IsShimNoc, MemZero, ClocksOff,
              NmuOn, InnerClear, ClocksOn
  <2> QED BY <2>2, <2>3
<1> QED BY <1>1, <1>2, <1>3, <1>4 DEF Next, CallStep

LEMMA InitPromises == Init => SetUpInv /\ QuietHw
<1> SUFFICES ASSUME Init PROVE SetUpInv /\ QuietHw
  OBVIOUS
<1>1. call.op = "none"
  BY DEF Init
<1>2. SetUp
  BY <1>1 DEF SetUp, Kept1, TeardownKept, InitKept, BordersKept, Resets, ShimResets, Zeroizes,
              Bordering, Begins
<1>3. QuietHw
  BY DEF Init, QuietHw, Released
<1> QED BY <1>2, <1>3 DEF SetUpInv

LEMMA Promised == ASSUME TypeOK, SetUpInv, QuietHw PROVE AsPromised /\ TornDown
<1>1. ASSUME NEW ops, Ended(ops), Clean PROVE SetUp /\ Idle
  BY <1>1 DEF Ended, SetUpInv
<1>2. ASSUME Idle, NEW fact, NEW good, NEW bad, Promises(fact, good, bad) PROVE fact
  BY <1>2, PromiseKept
<1>3. PartCols \subseteq Cols
  BY PartColsOK DEF TypeOK
<1>4. TornDown
  <2> SUFFICES ASSUME Ended({"teardown"}), Clean, NEW c \in PartCols
               PROVE  /\ ~hw.clk[c] /\ ~hw.rst[c] /\ ~hw.shim[c] /\ hw.mem[c] = "zero"
                      /\ gen # "AIE4" => hw.iso[c] = {}
    BY DEF TornDown
  <2>1. SetUp /\ Idle /\ call.op = "teardown"
    BY <1>1 DEF Ended
  <2>2. hw.clk[c] = FALSE
    BY <1>2, <2>1 DEF SetUp, TeardownKept, ClocksOff
  <2>3. hw.rst[c] = FALSE
    <3>1. CASE gen = "AIE4"
      BY <1>3, <3>1 DEF QuietHw, Released
    <3>2. CASE gen # "AIE4"
      BY <1>2, <2>1, <3>2 DEF SetUp, Kept1, Resets, Begins, RstOff
    <3> QED BY <3>1, <3>2
  <2>4. hw.shim[c] = FALSE
    <3>1. CASE ~HasShimReset
      BY <1>3, <3>1 DEF QuietHw, Released
    <3>2. CASE HasShimReset
      BY <1>2, <2>1, <3>2 DEF SetUp, Kept1, ShimResets, Begins, ShimOff
    <3> QED BY <3>1, <3>2
  <2>5. hw.mem[c] = "zero"
    BY <1>2, <2>1 DEF SetUp, Kept1, Zeroizes, Begins, MemZero
  <2>6. gen # "AIE4" => hw.iso[c] = {}
    BY <1>2, <2>1 DEF SetUp, TeardownKept, IsoClear
  <2> QED BY <2>2, <2>3, <2>4, <2>5, <2>6
<1>5. AsPromised
  <2> SUFFICES ASSUME Ended({"init"}), Clean, NEW c \in PartCols
               PROVE  /\ HasFlag("COLUMN_RST") /\ gen # "AIE4" => ~hw.rst[c]
                      /\ HasFlag("SHIM_RST") => ~hw.shim[c] /\ ~hw.npi
                      /\ HasFlag("ISOLATE") /\ HasFlag("COLUMN_RST") /\ inst.app = "single"
                         => BorderSet(hw.iso[c], c)
                      /\ HasFlag("BLOCK_NOCAXIMMERR") /\ IsShimNoc(c) => hw.nsu[c]
                      /\ IsShimNoc(c) => hw.irq[c]
                      /\ HasFlag("ZEROIZEMEM") => hw.mem[c] = "zero"
                      /\ gen # "AIE" /\ call.arg.tiles = <<>> => ColumnClocked(c)
                      /\ gen = "AIE2PS" /\ HasFlag("SHIM_RST") /\ FirstCol = 0 /\ c < 2 => hw.nmu[c]
    BY DEF AsPromised
  <2>1. SetUp /\ Idle /\ call.op = "init"
    BY <1>1 DEF Ended
  <2>2. HasFlag("COLUMN_RST") /\ gen # "AIE4" => hw.rst[c] = FALSE
    BY <1>2, <2>1 DEF SetUp, Kept1, Resets, Begins, RstOff
  <2>3. HasFlag("SHIM_RST") => hw.shim[c] = FALSE
    <3>1. CASE ~HasShimReset
      BY <1>3, <3>1 DEF QuietHw, Released
    <3>2. CASE HasShimReset
      BY <1>2, <2>1, <3>2 DEF SetUp, Kept1, ShimResets, Begins, ShimOff
    <3> QED BY <3>1, <3>2
  <2>4. HasFlag("SHIM_RST") => hw.npi = FALSE
    <3>1. CASE gen = "AIE4"
      BY <3>1 DEF QuietHw
    <3>2. CASE gen # "AIE4"
      BY <1>2, <2>1, <3>2 DEF SetUp, Kept1, ShimResets, Begins, NpiOff
    <3> QED BY <3>1, <3>2
  <2>5. HasFlag("ISOLATE") /\ HasFlag("COLUMN_RST") /\ inst.app = "single" => BorderSet(hw.iso[c], c)
    BY <1>2, <2>1 DEF SetUp, BordersKept, Bordering, Bordered
  <2>6. HasFlag("BLOCK_NOCAXIMMERR") /\ IsShimNoc(c) => hw.nsu[c] = TRUE
    BY <1>2, <2>1 DEF SetUp, InitKept, NsuOn
  <2>7. IsShimNoc(c) => hw.irq[c] = TRUE
    BY <1>2, <2>1 DEF SetUp, InitKept, IrqOn
  <2>8. HasFlag("ZEROIZEMEM") => hw.mem[c] = "zero"
    BY <1>2, <2>1 DEF SetUp, Kept1, Zeroizes, Begins, MemZero
  <2>9. gen # "AIE" /\ call.arg.tiles = <<>> => ColumnClocked(c)
    <3> SUFFICES ASSUME gen # "AIE", call.arg.tiles = <<>> PROVE ColumnClocked(c)
      OBVIOUS
    <3>1. ClocksOn
      BY <1>2, <2>1 DEF SetUp, InitKept
    <3> QED BY <3>1 DEF ClocksOn, ColumnClocked, Clocked
  <2>10. gen = "AIE2PS" /\ HasFlag("SHIM_RST") /\ FirstCol = 0 /\ c < 2 => hw.nmu[c] = TRUE
    <3> SUFFICES ASSUME gen = "AIE2PS", HasFlag("SHIM_RST"), FirstCol = 0, c < 2 PROVE hw.nmu[c] = TRUE
      OBVIOUS
    <3>1. c \in {0, 1}
      BY <1>3, SizesOK DEF Cols
    <3>2. Promises(NmuOn(c), On("nmu", c), {})
      BY <2>1, <3>1 DEF SetUp, InitKept
    <3>3. NmuOn(c)
      BY <1>2, <2>1, <3>2
    <3> QED BY <3>3 DEF NmuOn
  <2> QED BY <2>2, <2>3, <2>4, <2>5, <2>6, <2>7, <2>8, <2>9, <2>10
<1> QED BY <1>4, <1>5

LEMMA LargestIs ==
    ASSUME NEW n \in Nat, NEW S, S \subseteq 0..n, S # {}
    PROVE  Max(S) \in S /\ \A y \in S : Max(S) >= y
<1> DEFINE T == {t \in Nat : \E x \in S : t = n - x}
           R == {ss \in Nat \X Nat : ss[1] < ss[2]}
<1>0. R = OpToRel(<, Nat)
  BY DEF OpToRel
<1>1. T \subseteq Nat /\ T # {}
  <2>1. PICK x \in S : TRUE
    OBVIOUS
  <2>2. n - x \in T
    BY <2>1
  <2> QED BY <2>2
<1> HIDE DEF R
<1>2. PICK t \in T : \A u \in T : ~(<<u, t>> \in R)
  BY <1>0, <1>1, WFMin, NatLessThanWellFounded
<1>3. \A u \in T : t <= u
  <2>1. ASSUME NEW u \in Nat, NEW v \in Nat, u < v PROVE <<u, v>> \in R
    BY <2>1 DEF R
  <2>2. \A u \in T : ~(u < t)
    BY <1>1, <1>2, <2>1
  <2> QED BY <1>1, <2>2
<1>4. PICK x \in S : t = n - x
  BY <1>2
<1>5. \A y \in S : x >= y
  BY <1>3, <1>4
<1> QED BY <1>5 DEF Max

----------------------------------------------------------------------------
(* The bits of the tiles of a partition.                                    *)

LEMMA RowsApart ==
    ASSUME NEW n \in Nat, NEW a \in Nat, NEW b \in Nat, a < b PROVE a * n + n <= b * n
<1>1. b * n = a * n + (b - a) * n
  OBVIOUS
<1>2. (b - a) * n >= n
  <2>1. PICK k \in Nat : b - a = k + 1
    <3>1. b - a - 1 \in Nat
      OBVIOUS
    <3> QED BY <3>1
  <2>2. (k + 1) * n = k * n + n /\ k * n \in Nat
    OBVIOUS
  <2> QED BY <2>1, <2>2
<1> QED BY <1>1, <1>2

LEMMA TileBits ==
    ASSUME TypeOK, NEW col \in RelCols, NEW row \in 1..(NumRows - 1)
    PROVE  /\ TileBit(col, row) \in AllBits
           /\ \A n \in 1..(NumRows - 1) : row <= n => TileBit(col, row) \in Bits(TileBit(col, 1), n)
           /\ \A d \in RelCols, n \in 1..(NumRows - 1) :
                 TileBit(col, row) \in Bits(TileBit(d, 1), n) => d = col /\ row <= n
<1> DEFINE n == NumRows - 1
           a == inst.start
<1>0. n \in Nat /\ a \in Nat /\ inst.cols \in Nat /\ RelCols \subseteq Nat /\ NumRows = n + 1
      /\ row \in Nat /\ 1 <= row /\ row <= n /\ col < inst.cols
  BY SizesOK DEF TypeOK, InstOK, Cols, RelCols
<1>1. \A d \in RelCols, r \in Nat : TileBit(d, r) = (d + a) * n + r - 1
  BY DEF TileBit
<1>2. AllBits = TileBit(0, 1)..(TileBit(0, 1) + n * inst.cols - 1)
  BY DEF AllBits, Bits
<1>3. 0 \in RelCols
  BY <1>0 DEF RelCols
<1> HIDE DEF n, a
<1>4. TileBit(col, row) \in AllBits
  <2>1. TileBit(0, 1) = a * n
    BY <1>0, <1>1, <1>3
  <2>2. TileBit(col, row) = a * n + col * n + row - 1
    BY <1>0, <1>1
  <2>3. col * n + n <= inst.cols * n
    BY <1>0, RowsApart
  <2>4. n * inst.cols = inst.cols * n /\ col * n \in Nat /\ a * n \in Nat
    BY <1>0
  <2> DEFINE x == a * n
             y == col * n
             z == inst.cols * n
             w == n * inst.cols
  <2>5. /\ x \in Nat /\ y \in Nat /\ z \in Nat /\ w = z /\ TileBit(0, 1) = x
        /\ TileBit(col, row) = x + y + row - 1 /\ y + n <= z
        /\ AllBits = TileBit(0, 1)..(TileBit(0, 1) + w - 1)
    BY <1>0, <1>2, <2>1, <2>2, <2>3, <2>4
  <2> HIDE DEF x, y, z, w
  <2> QED BY <1>0, <2>5
<1>5. ASSUME NEW m \in 1..n, row <= m PROVE TileBit(col, row) \in Bits(TileBit(col, 1), m)
  <2> DEFINE x == (col + a) * n
  <2>1. x \in Int /\ TileBit(col, row) = x + row - 1 /\ TileBit(col, 1) = x
    BY <1>0, <1>1
  <2> HIDE DEF x
  <2> QED BY <1>0, <1>5, <2>1 DEF Bits
<1>6. ASSUME NEW d \in RelCols, NEW m \in 1..n, TileBit(col, row) \in Bits(TileBit(d, 1), m)
      PROVE  d = col /\ row <= m
  <2> DEFINE c1 == col + a
             d1 == d + a
             x == c1 * n
             y == d1 * n
  <2>1. /\ x \in Int /\ TileBit(col, row) = x + row - 1
        /\ y \in Int /\ TileBit(d, 1) = y /\ c1 \in Nat /\ d1 \in Nat
    BY <1>0, <1>1
  <2>2. (c1 < d1 => x + n <= y) /\ (d1 < c1 => y + n <= x) /\ (c1 = d1 => x = y)
    BY <1>0, <2>1, RowsApart
  <2>3. c1 = d1 => col = d
    BY <1>0
  <2> HIDE DEF c1, d1, x, y
  <2>4. x + row - 1 >= y /\ x + row - 1 <= y + m - 1
    BY <1>0, <1>6, <2>1 DEF Bits
  <2>5. ~(c1 < d1) /\ ~(d1 < c1)
    BY <1>0, <2>1, <2>2, <2>4
  <2>6. c1 = d1
    BY <2>1, <2>5
  <2> QED BY <1>0, <2>1, <2>2, <2>3, <2>4, <2>6
<1> QED BY <1>4, <1>5, <1>6 DEF n

\* A request of a tile, done.
LEMMA TileFine ==
    ASSUME TypeOK, CallStep, Fine, Now.do = "tile"
    PROVE  LET col == Now.arg[1]
               row == Now.arg[2]
           IN /\ col \in RelCols /\ row \in 0..(NumRows - 1)
              /\ gen = "AIE" /\ row = 0 => UNCHANGED <<used, hw>>
              /\ gen = "AIE" /\ row # 0 => /\ used' = used \cup Bits(TileBit(col, 1), row)
                                           /\ hw' = AieClocks(hw, FirstCol + col, row, TopInUse(col))
              /\ gen # "AIE" => \/ UNCHANGED <<used, hw>> /\ (row = 0 \/ TileBit(col, 1) \in used)
                                \/ /\ hw' = [hw EXCEPT !.clk[FirstCol + col] = TRUE]
                                   /\ used' = used \cup ColumnBits(col)
<1>1. ~Idle
  BY StepUntouched
<1>2. ~Noticed /\ ~Unnoticed /\ ~Fail({})
  BY <1>1, FineStep
<1>3. AieTileStep \/ MlTileStep \/ Aie4TileStep
  BY <1>2, StepKinds DEF InvalidTile
<1>4. Now.arg[1] \in Nat /\ Now.arg[2] \in Nat
  <2>1. Now.arg \in Nat \X Nat
    BY <1>1, ArgsOK DEF Doing
  <2> QED BY <2>1
<1>5. Now.arg[1] \in RelCols /\ Now.arg[2] \in 0..(NumRows - 1)
  <2>1. InPart(Now.arg)
    BY <1>3 DEF AieTileStep, MlTileStep, Aie4TileStep
  <2> QED BY <1>4, <2>1, SizesOK DEF InPart, RelCols, TypeOK, InstOK
<1>6. gen = "AIE" => AieTileStep
  BY <1>3 DEF MlTileStep, Aie4TileStep
<1>7. gen # "AIE" => MlTileStep \/ Aie4TileStep
  BY <1>3 DEF AieTileStep
<1>8. CASE gen = "AIE"
  BY <1>2, <1>5, <1>6, <1>8 DEF AieTileStep
<1>9. CASE gen # "AIE"
  BY <1>2, <1>5, <1>7, <1>9 DEF MlTileStep, Aie4TileStep, ColumnRequest
<1> QED BY <1>8, <1>9

----------------------------------------------------------------------------
(* What a request of tiles promises: the facts.                             *)

Tiles == Of({"tile"})
UnmarkAll == On("unmark", AllBits)
\* A column whose bits say so is clocked.
BitsMeanOn == \A col \in RelCols : TileBit(col, 1) \in used => hw.clk[FirstCol + col] = TRUE
BadBits == On("clk", FALSE) \cup Of({"mark", "columns"})
\* The column of a tile is clocked.
ColOn(t) == t[1] \in RelCols /\ hw.clk[FirstCol + t[1]] = TRUE
BadOn == On("clk", FALSE) \cup Of({"columns"})
\* No column is clocked that was not asked for.
OnlyAsked == \A col \in RelCols : hw.clk[FirstCol + col] # FALSE => Asked(col)
BadOnly == On("clk", TRUE) \cup Of({"columns"}) \cup {s \in Tiles : ~Asked(s.arg[1])}
\* Every tile of the partition passes the clock on; the bits agree with the
\* clocks; a tile is in use.
UpAll == \A c \in PartCols : hw.up[c] = AllUp
Fits == \A col \in RelCols : InStep(col)
BadFits == Of({"clk", "rst", "mark", "columns"}) \cup (Of({"unmark"}) \ UnmarkAll)
RowUsed(t) == t[1] \in RelCols /\ t[2] \in 1..(NumRows - 1) /\ TileBit(t[1], t[2]) \in used
BadRow == Of({"unmark", "columns"})

\* A step of a call keeps the partition and the request.
LEMMA StepSame ==
    ASSUME TypeOK, CallStep, Fine
    PROVE  /\ RelCols' = RelCols /\ PartCols' = PartCols /\ FirstCol' = FirstCol /\ gen' = gen
           /\ \A col, row : TileBit(col, row)' = TileBit(col, row)
           /\ \A col : Asked(col)' = Asked(col)
           /\ Now \in StepSet
           /\ \A col \in RelCols : FirstCol + col \in PartCols /\ FirstCol + col \in Cols
           /\ \A col, d \in RelCols : FirstCol + col = FirstCol + d => col = d
           /\ used \subseteq Int
<1>1. gen' = gen /\ inst' = inst /\ call'.arg = call.arg /\ ~Idle
  <2>1. Succeed
    BY StepUntouched
  <2> QED BY <2>1, StepUntouched DEF Succeed, TypeOK, CallOK
<1>2. inst.start \in Int /\ inst.cols \in Int
  BY DEF TypeOK, InstOK, Cols
<1>3. \A col \in RelCols : FirstCol + col \in PartCols
  BY <1>2 DEF RelCols, FirstCol, PartCols
<1>4. \A col, d \in RelCols : FirstCol + col = FirstCol + d => col = d
  BY <1>2 DEF RelCols, FirstCol
<1>5. PartCols \subseteq Cols
  BY PartColsOK DEF TypeOK
<1>6. Now \in StepSet
  BY <1>1, NowOK
<1>7. \A col, row : TileBit(col, row)' = TileBit(col, row)
  BY <1>1 DEF TileBit
<1> QED BY <1>1, <1>3, <1>4, <1>5, <1>6, <1>7 DEF RelCols, PartCols, FirstCol, Asked, TypeOK

\* The clocks of the columns and the bits after a step.
LEMMA ClksAfter ==
    ASSUME TypeOK, CallStep, Fine, NEW col \in RelCols
    PROVE  /\ Now.do \notin {"clk", "tile", "columns"} => hw'.clk = hw.clk
           /\ Now \in On("clk", TRUE) => hw'.clk[FirstCol + col] = TRUE
           /\ Now \in On("clk", FALSE) => hw'.clk[FirstCol + col] = FALSE
           /\ Now.do = "clk" => Now \in On("clk", TRUE) \/ Now \in On("clk", FALSE)
           /\ Now.do = "unmark" => used' = used \ Now.arg
           /\ Now.do \notin {"mark", "unmark", "tile", "columns"} => used' = used
           /\ Now.do \notin {"rst", "tile"} => hw'.up = hw.up
<1>1. Now \in StepSet /\ FirstCol + col \in PartCols
  BY StepSame
<1>2. Now.do = "clk" => Now.arg \in BOOLEAN
  BY <1>1 DEF StepSet
<1>3. Now.do \notin {"clk", "tile", "columns"} => hw'.clk = hw.clk
  BY StepUntouched DEF Untouched, Writers, Regs, ColumnRegs
<1>4. Now.do \notin {"rst", "tile"} => hw'.up = hw.up
  BY StepUntouched DEF Untouched, Writers, Regs, ColumnRegs
<1>5. Now.do = "clk" => hw'.clk[FirstCol + col] = Now.arg
  BY <1>1, ColumnValues
<1>6. Now.do = "unmark" => used' = used \ Now.arg
  BY StepKinds DEF Unmark
<1>7. Now.do \notin {"mark", "unmark", "tile", "columns"} => used' = used
  BY StepUntouched
<1> QED BY <1>1, <1>2, <1>3, <1>4, <1>5, <1>6, <1>7 DEF On

\* Requests of all but AIE: whole columns.
LEMMA ColumnTiles ==
    ASSUME TypeOK, CallStep, Fine, gen # "AIE", Now \in Tiles, NEW col \in RelCols
    PROVE  /\ Now.arg[1] \in RelCols
           /\ hw.clk[FirstCol + col] = TRUE => hw'.clk[FirstCol + col] = TRUE
           /\ hw'.clk[FirstCol + col] # hw.clk[FirstCol + col] => col = Now.arg[1]
           /\ TileBit(col, 1) \in used' => TileBit(col, 1) \in used \/ hw'.clk[FirstCol + col] = TRUE
           /\ BitsMeanOn /\ Now.arg[2] # 0 /\ col = Now.arg[1] => hw'.clk[FirstCol + col] = TRUE
<1> DEFINE d == Now.arg[1]
           row == Now.arg[2]
           c == FirstCol + col
<1>1. Now.do = "tile" /\ d \in RelCols
  BY TileFine DEF Tiles, Of
<1>2. \/ UNCHANGED <<used, hw>> /\ (row = 0 \/ TileBit(d, 1) \in used)
      \/ /\ hw' = [hw EXCEPT !.clk[FirstCol + d] = TRUE]
         /\ used' = used \cup ColumnBits(d)
  BY <1>1, TileFine
<1>3. c \in Cols /\ (c = FirstCol + d => col = d)
  BY <1>1, StepSame
<1>4. DOMAIN hw = Regs \cup {"prot", "locked"} /\ DOMAIN hw.clk = Cols
  BY DEF TypeOK, HwOK, Regs, ColumnRegs
<1>5. CASE UNCHANGED <<used, hw>> /\ (row = 0 \/ TileBit(d, 1) \in used)
  BY <1>1, <1>5 DEF BitsMeanOn
<1>6. CASE /\ hw' = [hw EXCEPT !.clk[FirstCol + d] = TRUE]
           /\ used' = used \cup ColumnBits(d)
  <2>1. hw'.clk = [hw.clk EXCEPT ![FirstCol + d] = TRUE]
    BY <1>4, <1>6 DEF Regs, ColumnRegs
  <2>2. hw'.clk[c] = IF c = FirstCol + d THEN TRUE ELSE hw.clk[c]
    BY <1>3, <1>4, <2>1
  <2>3. TileBit(col, 1) \in ColumnBits(d) => d = col
    <3>1. ColumnBits(d) = Bits(TileBit(d, 1), NumRows - 1) /\ 1 \in 1..(NumRows - 1)
          /\ NumRows - 1 \in 1..(NumRows - 1)
      BY SizesOK DEF ColumnBits
    <3> QED BY <1>1, <3>1, TileBits
  <2>4. used' = used \cup ColumnBits(d)
    BY <1>6
  <2> HIDE DEF c
  <2>5. TileBit(col, 1) \in used' => TileBit(col, 1) \in used \/ d = col
    BY <2>3, <2>4
  <2>6. d = col => c = FirstCol + d
    BY DEF c
  <2> QED BY <1>1, <1>3, <2>2, <2>5, <2>6 DEF c
<1> QED BY <1>2, <1>5, <1>6

LEMMA BitsMove ==
    ASSUME TypeOK, CallStep, Fine, gen # "AIE"
    PROVE  Moves(BitsMeanOn, BitsMeanOn', UnmarkAll, BadBits)
<1>1. BitsMeanOn' <=> \A col \in RelCols : TileBit(col, 1) \in used' => hw'.clk[FirstCol + col] = TRUE
  BY StepSame DEF BitsMeanOn
<1>2. ASSUME Now \in UnmarkAll PROVE BitsMeanOn'
  <2>1. used' = used \ AllBits
    <3>1. RelCols # {}
      BY SizesOK DEF RelCols, TypeOK, InstOK
    <3> QED BY <1>2, <3>1, ClksAfter DEF UnmarkAll, On
  <2>2. \A col \in RelCols : TileBit(col, 1) \in AllBits
    <3>1. 1 \in 1..(NumRows - 1)
      BY SizesOK
    <3> QED BY <3>1, TileBits
  <2> QED BY <1>1, <2>1, <2>2
<1>3. ASSUME BitsMeanOn, Now \notin BadBits, NEW col \in RelCols, TileBit(col, 1) \in used'
      PROVE  hw'.clk[FirstCol + col] = TRUE
  <2>1. Now.do \notin {"mark", "columns"} /\ Now \notin On("clk", FALSE)
    BY <1>3, StepSame DEF BadBits, Of
  <2>2. CASE Now.do = "tile"
    <3>1. Now \in Tiles
      BY <2>2, StepSame DEF Tiles, Of
    <3> QED BY <1>3, <3>1, ColumnTiles DEF BitsMeanOn
  <2>3. CASE Now.do # "tile"
    <3>1. TileBit(col, 1) \in used
      BY <1>3, <2>1, <2>3, ClksAfter
    <3> QED BY <1>3, <2>1, <2>3, <3>1, ClksAfter DEF BitsMeanOn
  <2> QED BY <2>2, <2>3
<1> QED BY <1>1, <1>2, <1>3 DEF Moves

LEMMA ColMoves ==
    ASSUME TypeOK, CallStep, Fine, gen # "AIE", NEW t, t[2] # 0, Now \in Tiles => BitsMeanOn
    PROVE  Moves(ColOn(t), ColOn(t)', On("tile", t), BadOn)
<1>1. ColOn(t)' <=> t[1] \in RelCols /\ hw'.clk[FirstCol + t[1]] = TRUE
  BY StepSame DEF ColOn
<1>2. ASSUME Now \in On("tile", t) PROVE ColOn(t)'
  <2>1. Now \in Tiles /\ Now.arg = t
    BY <1>2 DEF On, Of, Tiles
  <2>2. t[1] \in RelCols
    BY <2>1, TileFine DEF Tiles, Of
  <2> QED BY <1>1, <2>1, <2>2, ColumnTiles
<1>3. ASSUME ColOn(t), Now \notin BadOn PROVE ColOn(t)'
  <2>1. Now.do # "columns" /\ Now \notin On("clk", FALSE) /\ t[1] \in RelCols
    BY <1>3, StepSame DEF BadOn, Of, ColOn
  <2>2. CASE Now.do = "tile"
    <3>1. Now \in Tiles
      BY <2>2, StepSame DEF Tiles, Of
    <3> QED BY <1>1, <1>3, <2>1, <3>1, ColumnTiles DEF ColOn
  <2>3. CASE Now.do # "tile"
    BY <1>1, <1>3, <2>1, <2>3, ClksAfter DEF ColOn
  <2> QED BY <2>2, <2>3
<1> QED BY <1>2, <1>3 DEF Moves

LEMMA OnlyMoves ==
    ASSUME TypeOK, CallStep, Fine, gen # "AIE"
    PROVE  Moves(OnlyAsked, OnlyAsked', On("clk", FALSE), BadOnly)
<1>1. OnlyAsked' <=> \A col \in RelCols : hw'.clk[FirstCol + col] # FALSE => Asked(col)
  BY StepSame DEF OnlyAsked
<1>2. ASSUME Now \in On("clk", FALSE) PROVE OnlyAsked'
  BY <1>1, <1>2, ClksAfter
<1>3. ASSUME OnlyAsked, Now \notin BadOnly, NEW col \in RelCols, hw'.clk[FirstCol + col] # FALSE
      PROVE  Asked(col)
  <2>1. Now.do # "columns" /\ Now \notin On("clk", TRUE)
    BY <1>3, StepSame DEF BadOnly, Of
  <2>2. CASE Now.do = "tile"
    <3>1. Now \in Tiles
      BY <2>2, StepSame DEF Tiles, Of
    <3>2. Asked(Now.arg[1])
      BY <1>3, <3>1 DEF BadOnly
    <3> QED BY <1>3, <3>1, <3>2, ColumnTiles DEF OnlyAsked
  <2>3. CASE Now.do # "tile"
    BY <1>3, <2>1, <2>3, ClksAfter DEF OnlyAsked
  <2> QED BY <2>2, <2>3
<1> QED BY <1>1, <1>2, <1>3 DEF Moves

\* AIE: tile by tile.
LEMMA UpMoves ==
    ASSUME TypeOK, CallStep, Fine PROVE Moves(UpAll, UpAll', On("rst", TRUE), Tiles)
<1>1. UpAll' <=> \A c \in PartCols : hw'.up[c] = AllUp
  BY StepSame DEF UpAll, AllUp
<1>2. Now.do = "rst" => Now \in On("rst", TRUE) \/ Now.arg = FALSE
  BY StepSame DEF StepSet, On
<1>3. ASSUME Now \in On("rst", TRUE) PROVE UpAll'
  BY <1>1, <1>3, ColumnValues DEF On
<1>4. ASSUME UpAll, Now \notin Tiles PROVE UpAll'
  <2>1. Now.do # "tile"
    BY <1>4, StepSame DEF Tiles, Of
  <2>2. Now.do # "rst" => hw'.up = hw.up
    BY <2>1, StepUntouched DEF Untouched, Writers, Regs, ColumnRegs
  <2>3. \A c \in PartCols : Now.do = "rst" /\ Now.arg = FALSE => hw'.up[c] = hw.up[c]
    BY ColumnValues
  <2> QED BY <1>1, <1>2, <1>3, <1>4, <2>2, <2>3 DEF UpAll
<1> QED BY <1>3, <1>4 DEF Moves

\* The uppermost of the tiles whose bits are in u.
Uppermost(u, col) == Max({0} \cup {row \in 1..(NumRows - 1) : TileBit(col, row) \in u})

LEMMA UppermostIs ==
    ASSUME NEW u, NEW col
    PROVE  /\ Uppermost(u, col) \in 0..(NumRows - 1)
           /\ Uppermost(u, col) # 0 => TileBit(col, Uppermost(u, col)) \in u
           /\ \A row \in 1..(NumRows - 1) : TileBit(col, row) \in u => row <= Uppermost(u, col)
<1> DEFINE S == {0} \cup {row \in 1..(NumRows - 1) : TileBit(col, row) \in u}
<1>1. NumRows - 1 \in Nat
  BY SizesOK
<1>2. S \subseteq 0..(NumRows - 1) /\ S # {}
  BY <1>1
<1>3. Max(S) \in S /\ \A y \in S : Max(S) >= y
  BY <1>1, <1>2, LargestIs
<1>4. Uppermost(u, col) = Max(S)
  BY DEF Uppermost
<1> QED BY <1>1, <1>2, <1>3, <1>4

LEMMA FitsAre ==
    ASSUME TypeOK, CallStep, Fine, gen = "AIE"
    PROVE  /\ \A col : TopInUse(col) = Uppermost(used, col)
           /\ Fits <=> \A col \in RelCols :
                 IF Uppermost(used, col) = 0 THEN hw.up[FirstCol + col] = AllUp
                 ELSE /\ hw.clk[FirstCol + col]
                      /\ 1..(Uppermost(used, col) - 1) \subseteq hw.up[FirstCol + col]
           /\ Fits' <=> \A col \in RelCols :
                 IF Uppermost(used', col) = 0 THEN hw'.up[FirstCol + col] = AllUp
                 ELSE /\ hw'.clk[FirstCol + col]
                      /\ 1..(Uppermost(used', col) - 1) \subseteq hw'.up[FirstCol + col]
<1>1. \A col : TopInUse(col) = Uppermost(used, col)
  BY DEF TopInUse, Uppermost
<1>2. ASSUME NEW col PROVE TopInUse(col)' = Uppermost(used', col)
  BY StepSame DEF TopInUse, Uppermost
<1>3. RelCols' = RelCols /\ FirstCol' = FirstCol /\ gen' = gen /\ AllUp' = AllUp
  BY StepSame DEF AllUp
<1> QED BY <1>1, <1>2, <1>3 DEF Fits, InStep

\* One column of the tile's request.
LEMMA TileFits ==
    ASSUME TypeOK, CallStep, Fine, gen = "AIE", Now \in Tiles, Fits PROVE Fits'
<1> DEFINE d == Now.arg[1]
           row == Now.arg[2]
           top == Uppermost(used, d)
<1>1. /\ d \in RelCols /\ row \in 0..(NumRows - 1)
      /\ row = 0 => UNCHANGED <<used, hw>>
      /\ row # 0 => /\ used' = used \cup Bits(TileBit(d, 1), row)
                    /\ hw' = AieClocks(hw, FirstCol + d, row, top)
  BY TileFine, FitsAre DEF Tiles, Of
<1>2. CASE row = 0
  <2>1. used' = used /\ hw' = hw
    BY <1>1, <1>2
  <2> HIDE DEF d, row, top
  <2> QED BY <2>1, FitsAre
<1>3. CASE row # 0
  <2> DEFINE c == FirstCol + d
             bits == Bits(TileBit(d, 1), row)
  <2>0. NumRows \in Nat /\ NumRows >= 3 /\ row \in 1..(NumRows - 1) /\ top \in 0..(NumRows - 1)
    BY <1>1, <1>3, SizesOK, UppermostIs
  <2>1. used' = used \cup bits /\ hw' = AieClocks(hw, c, row, top) /\ c \in Cols
    BY <1>1, <1>3, StepSame
  <2>2. \A col \in RelCols, r \in 1..(NumRows - 1) :
            TileBit(col, r) \in bits <=> col = d /\ r <= row
    BY <1>1, <2>0, TileBits
  <2>3. DOMAIN hw = Regs \cup {"prot", "locked"} /\ DOMAIN hw.clk = Cols /\ DOMAIN hw.up = Cols
    BY DEF TypeOK, HwOK, Regs, ColumnRegs
  <2>4. \A col \in RelCols : FirstCol + col \in Cols /\ (FirstCol + col = c => col = d)
    BY <1>1, StepSame
  <2>5. /\ \A e \in Cols \ {c} : hw'.clk[e] = hw.clk[e] /\ hw'.up[e] = hw.up[e]
        /\ top = 0 => hw'.clk[c] = TRUE /\ hw'.up[c] = hw.up[c] \ (row..(NumRows - 2))
        /\ top # 0 => hw'.clk[c] = hw.clk[c] /\ hw'.up[c] = hw.up[c] \cup top..(row - 1)
    <3>1. CASE top = 0
      <4>1. hw' = [hw EXCEPT !.clk[c] = TRUE, !.up[c] = @ \ (row..(NumRows - 2))]
        BY <2>1, <3>1 DEF AieClocks
      <4> DEFINE X == row..(NumRows - 2)
      <4> HIDE DEF c, row, top, X
      <4>2. hw' = [hw EXCEPT !.clk = [hw.clk EXCEPT ![c] = TRUE], !.up = [hw.up EXCEPT ![c] = hw.up[c] \ X]]
        BY <2>3, <4>1 DEF Regs, ColumnRegs, X
      <4>3. hw'.clk = [hw.clk EXCEPT ![c] = TRUE] /\ hw'.up = [hw.up EXCEPT ![c] = hw.up[c] \ X]
        BY <2>3, <4>2 DEF Regs, ColumnRegs
      <4> QED BY <2>1, <2>3, <3>1, <4>3 DEF X
    <3>2. CASE top # 0
      <4>1. hw' = [hw EXCEPT !.up[c] = @ \cup top..(row - 1)]
        BY <2>1, <3>2 DEF AieClocks
      <4> HIDE DEF c, row, top
      <4> QED BY <2>1, <2>3, <3>2, <4>1 DEF Regs, ColumnRegs
    <3> QED BY <3>1, <3>2
  <2> HIDE DEF row, bits, d, c
  <2>6. ASSUME NEW col \in RelCols
        PROVE  IF Uppermost(used', col) = 0 THEN hw'.up[FirstCol + col] = AllUp
               ELSE /\ hw'.clk[FirstCol + col]
                    /\ 1..(Uppermost(used', col) - 1) \subseteq hw'.up[FirstCol + col]
    <3>1. IF Uppermost(used, col) = 0 THEN hw.up[FirstCol + col] = AllUp
          ELSE /\ hw.clk[FirstCol + col]
               /\ 1..(Uppermost(used, col) - 1) \subseteq hw.up[FirstCol + col]
      BY FitsAre
    <3>2. CASE col # d
      <4>1. \A r \in 1..(NumRows - 1) : TileBit(col, r) \in used' <=> TileBit(col, r) \in used
        BY <2>1, <2>2, <3>2
      <4>2. Uppermost(used', col) = Uppermost(used, col)
        BY <4>1 DEF Uppermost
      <4> QED BY <2>4, <2>5, <3>1, <3>2, <4>2
    <3>3. CASE col = d
      <4> DEFINE new == Uppermost(used', d)
      <4>1. /\ new \in 0..(NumRows - 1)
            /\ new # 0 => TileBit(d, new) \in used'
            /\ \A r \in 1..(NumRows - 1) : TileBit(d, r) \in used' => r <= new
        BY UppermostIs
      <4>2. \A r \in 1..(NumRows - 1) : TileBit(d, r) \in used => r <= top
        BY UppermostIs
      <4>3. d \in RelCols /\ FirstCol + d = c
        BY <1>1 DEF c, d
      <4> HIDE DEF new, top
      <4>4. \A r \in 1..(NumRows - 1) : TileBit(d, r) \in used' <=> TileBit(d, r) \in used \/ r <= row
        BY <2>1, <2>2, <4>3
      <4>5. new >= row /\ new # 0
        BY <2>0, <4>1, <4>4
      <4>6. new <= top \/ new <= row
        BY <2>0, <4>1, <4>2, <4>4, <4>5
      <4>7. IF top = 0 THEN hw.up[c] = AllUp ELSE hw.clk[c] /\ 1..(top - 1) \subseteq hw.up[c]
        BY <3>1, <3>3, <4>3 DEF top
      <4>8. hw'.clk[c] /\ 1..(new - 1) \subseteq hw'.up[c]
        <5>1. CASE top = 0
          <6>1. hw'.clk[c] = TRUE /\ hw'.up[c] = AllUp \ (row..(NumRows - 2)) /\ new = row
            BY <2>0, <2>5, <4>1, <4>5, <4>6, <4>7, <5>1
          <6>2. 1..(row - 1) \subseteq AllUp \ (row..(NumRows - 2))
            BY <2>0 DEF AllUp
          <6> QED BY <6>1, <6>2
        <5>2. CASE top # 0
          <6>1. hw'.clk[c] /\ hw'.up[c] = hw.up[c] \cup top..(row - 1) /\ 1..(top - 1) \subseteq hw.up[c]
            BY <2>5, <4>7, <5>2
          <6>2. 1..(new - 1) \subseteq (1..(top - 1)) \cup top..(row - 1)
            BY <2>0, <4>1, <4>6
          <6> QED BY <6>1, <6>2
        <5> QED BY <5>1, <5>2
      <4> QED BY <3>3, <4>3, <4>5, <4>8 DEF new
    <3> QED BY <3>2, <3>3
  <2> QED BY <2>6, FitsAre
<1> QED BY <1>2, <1>3

LEMMA FitsMove ==
    ASSUME TypeOK, CallStep, Fine, gen = "AIE", Now \in UnmarkAll => UpAll
    PROVE  Moves(Fits, Fits', UnmarkAll, BadFits)
<1>0. RelCols # {} /\ Now \in StepSet
  BY SizesOK, StepSame DEF RelCols, TypeOK, InstOK
<1>1. ASSUME Now \in UnmarkAll PROVE Fits'
  <2>1. used' = used \ AllBits /\ hw'.up = hw.up
    BY <1>0, <1>1, ClksAfter DEF UnmarkAll, On
  <2>2. \A col \in RelCols, r \in 1..(NumRows - 1) : TileBit(col, r) \notin used'
    BY <2>1, TileBits
  <2>3. \A col \in RelCols : Uppermost(used', col) = 0
    BY <2>2, UppermostIs
  <2>4. \A col \in RelCols : hw.up[FirstCol + col] = AllUp
    BY <1>1, StepSame DEF UpAll
  <2> QED BY <2>1, <2>3, <2>4, FitsAre
<1>2. ASSUME Fits, Now \notin BadFits, Now \notin UnmarkAll PROVE Fits'
  <2>1. Now.do \notin {"clk", "rst", "mark", "columns", "unmark"}
    BY <1>0, <1>2 DEF BadFits, Of
  <2>2. CASE Now.do = "tile"
    BY <1>0, <1>2, <2>2, TileFits DEF Tiles, Of
  <2>3. CASE Now.do # "tile"
    <3>1. used' = used /\ hw'.clk = hw.clk /\ hw'.up = hw.up
      BY <1>0, <2>1, <2>3, ClksAfter
    <3> QED BY <1>2, <3>1, FitsAre
  <2> QED BY <2>2, <2>3
<1> QED BY <1>1, <1>2 DEF Moves

LEMMA RowMoves ==
    ASSUME TypeOK, CallStep, Fine, gen = "AIE", NEW t, t[2] # 0
    PROVE  Moves(RowUsed(t), RowUsed(t)', On("tile", t), BadRow)
<1>1. RowUsed(t)' <=> t[1] \in RelCols /\ t[2] \in 1..(NumRows - 1) /\ TileBit(t[1], t[2]) \in used'
  <2>1. TileBit(t[1], t[2])' = TileBit(t[1], t[2]) /\ RelCols' = RelCols
    BY StepSame
  <2> QED BY <2>1 DEF RowUsed
<1>0. RelCols # {} /\ Now \in StepSet /\ NumRows \in Nat
  BY SizesOK, StepSame DEF RelCols, TypeOK, InstOK
<1>2. Now.do = "tile" => /\ Now.arg[1] \in RelCols /\ Now.arg[2] \in 0..(NumRows - 1)
                         /\ Now.arg[2] = 0 => used' = used
                         /\ Now.arg[2] # 0 => used' = used \cup Bits(TileBit(Now.arg[1], 1), Now.arg[2])
  BY TileFine
<1>3. ASSUME Now \in On("tile", t) PROVE RowUsed(t)'
  <2>1. /\ t[1] \in RelCols /\ t[2] \in 1..(NumRows - 1)
        /\ used' = used \cup Bits(TileBit(t[1], 1), t[2])
    BY <1>0, <1>2, <1>3 DEF On
  <2>2. TileBit(t[1], t[2]) \in Bits(TileBit(t[1], 1), t[2])
    <3> DEFINE a == t[1]
               b == t[2]
    <3>1. a \in RelCols /\ b \in 1..(NumRows - 1) /\ b <= b
      BY <1>0, <2>1
    <3> HIDE DEF a, b
    <3>2. TileBit(a, b) \in Bits(TileBit(a, 1), b)
      BY <3>1, TileBits
    <3> QED BY <3>2 DEF a, b
  <2> QED BY <1>1, <2>1, <2>2
<1>4. ASSUME RowUsed(t), Now \notin BadRow PROVE RowUsed(t)'
  <2>1. Now.do \notin {"unmark", "columns"}
    BY <1>0, <1>4 DEF BadRow, Of
  <2>2. used \subseteq used'
    <3>1. CASE Now.do = "tile"
      BY <1>2, <3>1
    <3>2. CASE Now.do = "mark"
      BY <3>2, StepKinds DEF Mark
    <3>3. CASE Now.do \notin {"tile", "mark"}
      BY <1>0, <2>1, <3>3, ClksAfter
    <3> QED BY <3>1, <3>2, <3>3
  <2> QED BY <1>1, <1>4, <2>2 DEF RowUsed
<1> QED BY <1>3, <1>4 DEF Moves

----------------------------------------------------------------------------
(* What a request of tiles promises: the plans.                             *)

TileSteps(req, fail) == [i \in DOMAIN req |-> Step("tile", req[i], fail)]
Gating(fail) == <<Step("clk", FALSE, fail)>> \o <<Step("unmark", AllBits, fail)>>
Named(req) == {req[i] : i \in DOMAIN req}
TilesOf(req) == {s \in Tiles : s.arg \in Named(req)}

LEMMA TileStepsOn ==
    ASSUME NEW req \in Locations, NEW fail \in FailKinds
    PROVE  /\ TileSteps(req, fail) \in Seq(TilesOf(req))
           /\ \A t \in Named(req) : \A bad : bad \cap Tiles = {} =>
                 Establishes(TileSteps(req, fail), On("tile", t), bad)
<1> DEFINE m == TileSteps(req, fail)
<1>1. DOMAIN req = 1..Len(req) /\ Len(req) \in Nat /\ \A i \in 1..Len(req) : req[i] \in Nat \X Nat
  BY DEF Locations
<1>2. ASSUME NEW t \in Nat \X Nat
      PROVE  Step("tile", t, fail) \in Tiles /\ Step("tile", t, fail) \in On("tile", t)
             /\ Step("tile", t, fail).arg = t
  <2>1. Step("tile", t, fail) \in StepSet
    BY StepTypes
  <2> QED BY <2>1, StepOn, StepFields DEF Tiles
<1>3. \A i \in 1..Len(req) : m[i] \in TilesOf(req) /\ m[i] \in On("tile", req[i]) /\ m[i] \in Tiles
  BY <1>1, <1>2 DEF TileSteps, TilesOf, Named
<1>4. m \in Seq(TilesOf(req)) /\ Len(m) = Len(req)
  <2>1. m = [i \in 1..Len(req) |-> m[i]]
    BY <1>1 DEF TileSteps
  <2> HIDE DEF m
  <2> QED BY <1>1, <1>3, <2>1, IsASeq
<1> HIDE DEF m
<1>5. ASSUME NEW t \in Named(req), NEW bad, bad \cap Tiles = {}
      PROVE  Establishes(m, On("tile", t), bad)
  <2>1. PICK i \in 1..Len(req) : req[i] = t
    BY <1>1 DEF Named
  <2>2. \A k \in 1..Len(m) : m[k] \notin bad
    BY <1>3, <1>4, <1>5
  <2>3. m[i] \in On("tile", t) /\ i \in 1..(Len(m) + 1 - 1)
    BY <1>1, <1>3, <1>4, <2>1
  <2> DEFINE good == On("tile", t)
  <2> HIDE DEF good
  <2>4. Leads(m, "unsure", "sure", good, bad, {})
    BY <1>1, <1>4, <2>2, <2>3 DEF Leads, SureAt, good
  <2> QED BY <2>4 DEF Establishes, good
<1> QED BY <1>4, <1>5 DEF m

LEMMA GatingOn ==
    ASSUME InstOK(inst), NEW fail \in FailKinds
    PROVE  /\ Step("clk", FALSE, fail) \in On("clk", FALSE)
           /\ Step("unmark", AllBits, fail) \in UnmarkAll
           /\ Gating(fail) \in Seq(Of({"clk", "unmark"}))
<1>1. Step("clk", FALSE, fail) \in StepSet /\ Step("unmark", AllBits, fail) \in StepSet
  BY AllBitsOK, StepTypes
<1>2. Step("clk", FALSE, fail) \in Of({"clk", "unmark"}) /\ Step("unmark", AllBits, fail) \in Of({"clk", "unmark"})
  BY <1>1, StepOn
<1>3. Gating(fail) \in Seq(Of({"clk", "unmark"}))
  BY <1>2, OneIn, ConcatIn DEF Gating
<1> QED BY <1>1, <1>3, StepOn DEF UnmarkAll

\* A plan that gates the columns, clears their bits and then asks for tiles.
Shaped(plan, req, pre) ==
    \E f1, f2 \in FailKinds : \E post \in Seq(Of({"prot"})) :
        plan = pre \o (Gating(f1) \o (TileSteps(req, f2) \o post))

\* The pieces are sequences of steps.
LEMMA ShapedPieces ==
    ASSUME InstOK(inst), NEW K, NEW pre \in Seq(Of(K)), NEW req \in Locations,
           NEW f1 \in FailKinds, NEW f2 \in FailKinds, NEW post \in Seq(Of({"prot"}))
    PROVE  /\ pre \in Seq(StepSet) /\ Gating(f1) \in Seq(StepSet)
           /\ TileSteps(req, f2) \in Seq(StepSet) /\ post \in Seq(StepSet)
           /\ TileSteps(req, f2) \o post \in Seq(StepSet)
           /\ Gating(f1) \o (TileSteps(req, f2) \o post) \in Seq(StepSet)
           /\ TileSteps(req, f2) \in Seq(Tiles)
           /\ TileSteps(req, f2) \o post \in Seq(TilesOf(req) \cup Of({"prot"}))
<1>1. \A L : Of(L) \subseteq StepSet
  BY DEF Of
<1>2. TilesOf(req) \subseteq Tiles /\ Tiles \subseteq StepSet
  BY DEF TilesOf, Tiles, Of
<1>3. TileSteps(req, f2) \in Seq(TilesOf(req)) /\ Gating(f1) \in Seq(Of({"clk", "unmark"}))
  BY TileStepsOn, GatingOn
<1>4. /\ pre \in Seq(StepSet) /\ Gating(f1) \in Seq(StepSet)
      /\ TileSteps(req, f2) \in Seq(StepSet) /\ post \in Seq(StepSet)
      /\ TileSteps(req, f2) \in Seq(Tiles)
      /\ TileSteps(req, f2) \in Seq(TilesOf(req) \cup Of({"prot"}))
      /\ post \in Seq(TilesOf(req) \cup Of({"prot"}))
  <2>1. TilesOf(req) \subseteq StepSet
    BY <1>2
  <2> DEFINE T == TilesOf(req) \cup Of({"prot"})
  <2>2. TilesOf(req) \subseteq T /\ Of({"prot"}) \subseteq T
    OBVIOUS
  <2> HIDE DEF T
  <2>3. TileSteps(req, f2) \in Seq(T) /\ post \in Seq(T)
    BY <1>3, <2>2, SubIn
  <2> QED BY <1>1, <1>2, <1>3, <2>1, <2>3, SubIn DEF T
<1> QED BY <1>4, ConcatIn

\* What a plan of this shape brings about with the gating, and with a tile.
LEMMA ShapedGates ==
    ASSUME InstOK(inst), NEW K, NEW pre \in Seq(Of(K)), NEW req \in Locations, NEW plan,
           Shaped(plan, req, pre), NEW good, NEW bad,
           \A fail \in FailKinds : Establishes(Gating(fail), good, bad),
           \A s \in TilesOf(req) : s \notin bad, \A s \in Of({"prot"}) : s \notin bad
    PROVE  Establishes(plan, good, bad)
<1>1. PICK f1 \in FailKinds, f2 \in FailKinds, post \in Seq(Of({"prot"})) :
         plan = pre \o (Gating(f1) \o (TileSteps(req, f2) \o post))
  BY DEF Shaped
<1> DEFINE g == Gating(f1)
           tail == TileSteps(req, f2) \o post
           T == TilesOf(req) \cup Of({"prot"})
<1>2. /\ pre \in Seq(StepSet) /\ g \in Seq(StepSet) /\ tail \in Seq(StepSet)
      /\ g \o tail \in Seq(StepSet) /\ tail \in Seq(T)
  BY ShapedPieces
<1>3. \A s \in T : s \notin bad
  OBVIOUS
<1>4. Establishes(g, good, bad)
  OBVIOUS
<1>5. plan = pre \o (g \o tail)
  BY <1>1
<1> HIDE DEF g, tail, T
<1>6. Establishes(g \o tail, good, bad)
  BY <1>2, <1>3, <1>4, Behind
<1> QED BY <1>2, <1>5, <1>6, InFront

LEMMA ShapedTiles ==
    ASSUME InstOK(inst), NEW K, NEW pre \in Seq(Of(K)), NEW req \in Locations, NEW plan,
           Shaped(plan, req, pre), NEW t \in Named(req), NEW bad,
           bad \cap Tiles = {}, \A s \in Of({"prot"}) : s \notin bad
    PROVE  Establishes(plan, On("tile", t), bad)
<1>1. PICK f1 \in FailKinds, f2 \in FailKinds, post \in Seq(Of({"prot"})) :
         plan = pre \o (Gating(f1) \o (TileSteps(req, f2) \o post))
  BY DEF Shaped
<1> DEFINE g == Gating(f1)
           m == TileSteps(req, f2)
           good == On("tile", t)
           P == Of({"prot"})
<1>2. /\ pre \in Seq(StepSet) /\ g \in Seq(StepSet) /\ m \in Seq(StepSet) /\ post \in Seq(StepSet)
      /\ m \o post \in Seq(StepSet) /\ g \o (m \o post) \in Seq(StepSet) /\ post \in Seq(P)
  BY ShapedPieces
<1>3. Establishes(m, good, bad)
  BY TileStepsOn
<1>4. plan = pre \o (g \o (m \o post)) /\ \A s \in P : s \notin bad
  BY <1>1
<1> HIDE DEF g, m, good, P
<1>5. Establishes(m \o post, good, bad)
  BY <1>2, <1>3, <1>4, Behind
<1> DEFINE tail == m \o post
<1>6. Establishes(tail, good, bad) /\ tail \in Seq(StepSet) /\ plan = pre \o (g \o tail)
      /\ g \o tail \in Seq(StepSet)
  BY <1>2, <1>4, <1>5
<1> HIDE DEF tail
<1>7. Establishes(g \o tail, good, bad)
  BY <1>2, <1>6, InFront
<1>8. Establishes(plan, good, bad)
  BY <1>2, <1>6, <1>7, InFront
<1> QED BY <1>8 DEF good

\* The gating.
LEMMA GatingEstablishes ==
    ASSUME InstOK(inst), NEW fail \in FailKinds
    PROVE  /\ \A good, bad : UnmarkAll \subseteq good /\ UnmarkAll \cap bad = {}
                => Establishes(Gating(fail), good, bad)
           /\ \A bad : On("clk", FALSE) \cap bad = {} /\ UnmarkAll \cap bad = {}
                => Establishes(Gating(fail), On("clk", FALSE), bad)
<1> DEFINE a == Step("clk", FALSE, fail)
           b == Step("unmark", AllBits, fail)
<1>1. a \in On("clk", FALSE) /\ b \in UnmarkAll /\ Gating(fail) = <<a>> \o <<b>>
  BY GatingOn DEF Gating
<1>2. a \in StepSet /\ b \in StepSet
  BY <1>1 DEF On, UnmarkAll
<1> HIDE DEF a, b
<1>3. ASSUME NEW good, NEW bad, UnmarkAll \subseteq good, UnmarkAll \cap bad = {}
      PROVE  Establishes(Gating(fail), good, bad)
  <2>1. b \in good /\ b \notin bad
    BY <1>1, <1>3
  <2>2. Establishes(<<b>>, good, bad)
    BY <1>2, <2>1, LeadsStep DEF Establishes, Sureness
  <2> QED BY <1>1, <1>2, <2>2, OneIn, InFront
<1>4. ASSUME NEW bad, On("clk", FALSE) \cap bad = {}, UnmarkAll \cap bad = {}
      PROVE  Establishes(Gating(fail), On("clk", FALSE), bad)
  <2> DEFINE good == On("clk", FALSE)
  <2>1. a \in good /\ a \notin bad /\ b \notin bad
    BY <1>1, <1>4
  <2> HIDE DEF good
  <2>2. Establishes(<<a>>, good, bad)
    BY <1>2, <2>1, LeadsStep DEF Establishes, Sureness
  <2> DEFINE T == {b}
  <2>3. <<b>> \in Seq(T) /\ <<b>> \in Seq(StepSet) /\ <<a>> \in Seq(StepSet)
    BY <1>2, OneIn
  <2>4. \A s \in T : s \notin bad
    BY <2>1
  <2> DEFINE p == <<a>>
             q == <<b>>
  <2>5. p \in Seq(StepSet) /\ q \in Seq(StepSet) /\ q \in Seq(T) /\ Establishes(p, good, bad)
    BY <2>2, <2>3
  <2> HIDE DEF T, p, q
  <2>6. Establishes(p \o q, good, bad)
    BY <2>4, <2>5, Behind
  <2> QED BY <1>1, <2>6 DEF good, p, q
<1> QED BY <1>3, <1>4

\* Tiles of columns that a request does not name.
Strays(req) == On("clk", TRUE) \cup Of({"columns"})
               \cup {s \in Tiles : ~\E i \in DOMAIN req : req[i][1] = s.arg[1]}

\* A plan of this shape, of whole columns.
MlMade(plan, req) ==
    /\ \A x \in Sureness : Leads(plan, x, "unsure", UnmarkAll \cup Void, BadBits, Tiles)
    /\ \A t \in Named(req) : Establishes(plan, On("tile", t), BadOn)
    /\ Establishes(plan, On("clk", FALSE), Strays(req))

LEMMA ShapedMl ==
    ASSUME InstOK(inst), NEW K, "tile" \notin K, NEW pre \in Seq(Of(K)), NEW req \in Locations,
           NEW plan, Shaped(plan, req, pre)
    PROVE  MlMade(plan, req)
<1>1. ASSUME NEW x \in Sureness
      PROVE  Leads(plan, x, "unsure", UnmarkAll \cup Void, BadBits, Tiles)
  <2>1. PICK f1 \in FailKinds, f2 \in FailKinds, post \in Seq(Of({"prot"})) :
           plan = pre \o (Gating(f1) \o (TileSteps(req, f2) \o post))
    BY DEF Shaped
  <2> DEFINE g == Gating(f1)
             m == TileSteps(req, f2)
             good == UnmarkAll \cup Void
             P == Of({"prot"})
  <2>2. /\ pre \in Seq(StepSet) /\ g \in Seq(StepSet) /\ m \in Seq(StepSet) /\ post \in Seq(StepSet)
        /\ m \o post \in Seq(StepSet) /\ g \o (m \o post) \in Seq(StepSet) /\ post \in Seq(P)
        /\ m \in Seq(Tiles)
    BY ShapedPieces
  <2>3. UnmarkAll \subseteq good /\ UnmarkAll \cap BadBits = {}
    BY DEF UnmarkAll, BadBits, On, Of
  <2>4. Leads(g, "unsure", "sure", good, BadBits, Tiles)
    <3>1. Establishes(g, good, BadBits)
      BY <2>3, GatingEstablishes
    <3>2. g \in Seq(Of({"clk", "unmark"})) /\ \A s \in Of({"clk", "unmark"}) : s \notin Tiles
      BY GatingOn DEF Tiles, Of
    <3>3. Len(g) \in Nat /\ \A i \in 1..Len(g) : g[i] \notin Tiles
      BY <3>2
    <3> HIDE DEF g, good
    <3> QED BY <3>1, <3>3 DEF Establishes, Leads
  <2>5. (\A s \in Tiles : s \notin BadBits) /\ (\A s \in P : s \notin Tiles)
        /\ (\A s \in Of(K) : s \notin Tiles)
    BY DEF Tiles, BadBits, Of, On
  <2> HIDE DEF g, m, good, P
  <2>6. Leads(m, "sure", "sure", good, BadBits, Tiles)
    BY <2>2, <2>5, LeadsQuiet DEF Sureness
  <2>7. Leads(post, "sure", "unsure", good, BadBits, Tiles)
    BY <2>2, <2>5, LeadsUnsure DEF Sureness
  <2>8. Leads(pre, x, "unsure", good, BadBits, Tiles)
    BY <2>5, LeadsUnsure DEF Sureness
  <2>9. Leads(m \o post, "sure", "unsure", good, BadBits, Tiles)
    BY <2>2, <2>6, <2>7, LeadsConcat DEF Sureness
  <2> DEFINE tail == m \o post
  <2>10. /\ tail \in Seq(StepSet) /\ g \o tail \in Seq(StepSet) /\ plan = pre \o (g \o tail)
         /\ Leads(tail, "sure", "unsure", good, BadBits, Tiles)
    BY <2>1, <2>2, <2>9 DEF g, m
  <2> HIDE DEF tail
  <2>11. Leads(g \o tail, "unsure", "unsure", good, BadBits, Tiles)
    BY <2>2, <2>4, <2>10, LeadsConcat DEF Sureness
  <2>12. Leads(plan, x, "unsure", good, BadBits, Tiles)
    BY <2>2, <2>8, <2>10, <2>11, LeadsConcat DEF Sureness
  <2> QED BY <2>12 DEF good
<1>2. ASSUME NEW t \in Named(req) PROVE Establishes(plan, On("tile", t), BadOn)
  <2>1. BadOn \cap Tiles = {} /\ \A s \in Of({"prot"}) : s \notin BadOn
    BY DEF BadOn, Tiles, On, Of
  <2> QED BY <2>1, ShapedTiles
<1>3. Establishes(plan, On("clk", FALSE), Strays(req))
  <2>1. On("clk", FALSE) \cap Strays(req) = {} /\ UnmarkAll \cap Strays(req) = {}
        /\ \A s \in Of({"prot"}) : s \notin Strays(req)
    BY DEF Strays, Tiles, UnmarkAll, On, Of
  <2>2. \A s \in TilesOf(req) : s \notin Strays(req)
    <3>1. ASSUME NEW s \in TilesOf(req) PROVE s \in Tiles /\ \E i \in DOMAIN req : req[i] = s.arg
      BY DEF TilesOf, Named
    <3>2. \A s \in Tiles : s \notin On("clk", TRUE) /\ s \notin Of({"columns"})
      BY DEF Tiles, On, Of
    <3> QED BY <3>1, <3>2 DEF Strays
  <2>3. \A fail \in FailKinds : Establishes(Gating(fail), On("clk", FALSE), Strays(req))
    BY <2>1, GatingEstablishes
  <2> DEFINE bad == Strays(req)
             good == On("clk", FALSE)
  <2>4. /\ \A fail \in FailKinds : Establishes(Gating(fail), good, bad)
        /\ \A s \in TilesOf(req) : s \notin bad
        /\ \A s \in Of({"prot"}) : s \notin bad
    BY <2>1, <2>2, <2>3
  <2> HIDE DEF bad, good
  <2>5. Establishes(plan, good, bad)
    BY <2>4, ShapedGates
  <2> QED BY <2>5 DEF good, bad
<1> QED BY <1>1, <1>2, <1>3 DEF MlMade

\* Of AIE: an initialization, and a request of a call of its own.
AieMade(plan, req, fits) ==
    /\ \A x \in Sureness : Leads(plan, x, "unsure", On("rst", TRUE) \cup Void, Tiles, UnmarkAll)
    /\ Leads(plan, fits, "sure", UnmarkAll \cup Void, BadFits, {})
    /\ \A t \in Named(req) : Establishes(plan, On("tile", t), BadRow)

LEMMA ShapedAie ==
    ASSUME InstOK(inst), NEW K, K \cap {"tile", "unmark"} = {}, NEW pre \in Seq(Of(K)),
           NEW req \in Locations, NEW plan, Shaped(plan, req, pre),
           Establishes(pre, On("rst", TRUE), {}), NEW fits \in Sureness
    PROVE  AieMade(plan, req, fits)
<1>1. ASSUME NEW x \in Sureness
      PROVE  Leads(plan, x, "unsure", On("rst", TRUE) \cup Void, Tiles, UnmarkAll)
  <2>1. PICK f1 \in FailKinds, f2 \in FailKinds, post \in Seq(Of({"prot"})) :
           plan = pre \o (Gating(f1) \o (TileSteps(req, f2) \o post))
    BY DEF Shaped
  <2> DEFINE g == Gating(f1)
             tail == TileSteps(req, f2) \o post
             good == On("rst", TRUE) \cup Void
             T == TilesOf(req) \cup Of({"prot"})
             must == UnmarkAll
  <2>2. /\ pre \in Seq(StepSet) /\ g \in Seq(StepSet) /\ tail \in Seq(StepSet)
        /\ g \o tail \in Seq(StepSet) /\ tail \in Seq(T)
    BY ShapedPieces
  <2>3. On("rst", TRUE) \subseteq good /\ plan = pre \o (g \o tail)
        /\ g \in Seq(Of({"clk", "unmark"}))
    BY <2>1, GatingOn
  <2>4. (\A s \in Of({"clk", "unmark"}) : s \notin Tiles) /\ (\A s \in T : s \notin must)
        /\ (\A s \in Of(K) : s \notin Tiles /\ s \notin must)
    BY DEF Tiles, TilesOf, UnmarkAll, Of, On
  <2> HIDE DEF g, tail, good, T, must
  <2>5. Leads(pre, x, "sure", good, Tiles, must)
    <3>1. Leads(pre, "unsure", "sure", On("rst", TRUE), {}, {})
      BY DEF Establishes
    <3>2. Len(pre) \in Nat /\ \A i \in 1..Len(pre) : pre[i] \notin Tiles /\ pre[i] \notin must
      BY <2>4
    <3> DEFINE r == On("rst", TRUE)
    <3>3. Leads(pre, "unsure", "sure", r, {}, {}) /\ r \subseteq good
      BY <2>3, <3>1
    <3> HIDE DEF r
    <3> QED BY <3>2, <3>3 DEF Leads, SureAt, Sureness
  <2>6. Leads(g, "sure", "sure", good, Tiles, must)
    BY <2>3, <2>4, LeadsQuiet DEF Sureness
  <2>7. Leads(tail, "sure", "unsure", good, Tiles, must)
    BY <2>2, <2>4, LeadsUnsure DEF Sureness
  <2>8. Leads(g \o tail, "sure", "unsure", good, Tiles, must)
    BY <2>2, <2>6, <2>7, LeadsConcat DEF Sureness
  <2>9. Leads(plan, x, "unsure", good, Tiles, must)
    BY <2>2, <2>3, <2>5, <2>8, LeadsConcat DEF Sureness
  <2> QED BY <2>9 DEF good, must
<1>2. Leads(plan, fits, "sure", UnmarkAll \cup Void, BadFits, {})
  <2> DEFINE good == UnmarkAll \cup Void
             bad == BadFits
  <2>1. UnmarkAll \subseteq good /\ UnmarkAll \cap bad = {}
        /\ (\A s \in TilesOf(req) : s \notin bad) /\ (\A s \in Of({"prot"}) : s \notin bad)
    BY DEF UnmarkAll, BadFits, TilesOf, Tiles, On, Of
  <2>2. \A fail \in FailKinds : Establishes(Gating(fail), good, bad)
    BY <2>1, GatingEstablishes
  <2> HIDE DEF good, bad
  <2>3. Establishes(plan, good, bad)
    BY <2>1, <2>2, ShapedGates
  <2>4. Leads(plan, fits, "sure", good, bad, {})
    BY <2>3 DEF Establishes, Leads, SureAt, Sureness
  <2> QED BY <2>4 DEF good, bad
<1>3. ASSUME NEW t \in Named(req) PROVE Establishes(plan, On("tile", t), BadRow)
  <2>1. BadRow \cap Tiles = {} /\ \A s \in Of({"prot"}) : s \notin BadRow
    BY DEF BadRow, Tiles, Of
  <2> QED BY <2>1, ShapedTiles
<1> QED BY <1>1, <1>2, <1>3 DEF AieMade

LEMMA TilesAie ==
    ASSUME NEW req \in Locations, NEW fail \in FailKinds
    PROVE  AieMade(TileSteps(req, fail), req, "sure")
<1> DEFINE m == TileSteps(req, fail)
           good == UnmarkAll \cup Void
           rst == On("rst", TRUE) \cup Void
           must == UnmarkAll
           bad == BadFits
<1>1. m \in Seq(Tiles)
  <2>1. TilesOf(req) \subseteq Tiles
    BY DEF TilesOf
  <2> QED BY <2>1, TileStepsOn, SubIn
<1>2. \A s \in Tiles : s \notin must /\ s \notin bad /\ s \notin BadRow
  BY DEF Tiles, UnmarkAll, BadFits, BadRow, On, Of
<1>3. \A t \in Named(req) : Establishes(m, On("tile", t), BadRow)
  BY <1>2, TileStepsOn
<1> HIDE DEF m, good, rst, must, bad
<1>4. \A x \in Sureness : Leads(m, x, "unsure", rst, Tiles, must)
  BY <1>1, <1>2, LeadsUnsure
<1>5. Leads(m, "sure", "sure", good, bad, {})
  BY <1>1, <1>2, LeadsQuiet DEF Sureness
<1> QED BY <1>3, <1>4, <1>5 DEF AieMade, m, good, rst, must, bad

----------------------------------------------------------------------------
(* What a request of tiles promises: the shape of its plans.                *)

LEMMA RequestStepsAre ==
    ASSUME NEW req \in Locations, req # All, NEW fail \in FailKinds
    PROVE  /\ gen # "AIE" => RequestSteps(req, fail) = Gating(fail) \o TileSteps(req, fail)
           /\ gen = "AIE" => RequestSteps(req, fail) = TileSteps(req, fail)
<1> DEFINE m == TileSteps(req, fail)
           g == <<Write("clk", FALSE, fail), Step("unmark", AllBits, fail)>>
<1>1. RequestSteps(req, fail) = When(gen # "AIE", g) \o m
  BY DEF RequestSteps, TileSteps
<1>2. g = Gating(fail)
  BY OneAndOne DEF Gating, Write
<1>3. m \in Seq(TilesOf(req))
  BY TileStepsOn
<1> HIDE DEF m, g
<1>4. <<>> \o m = m
  BY <1>3
<1> QED BY <1>1, <1>2, <1>4 DEF When, m

\* Regrouping.
Regroups(a, b, c) == a \o b \o c = a \o (b \o c)

LEMMA Regrouped ==
    ASSUME NEW a \in Seq(StepSet), NEW b \in Seq(StepSet), NEW c \in Seq(StepSet)
    PROVE  Regroups(a, b, c)
BY ConcatAssociative DEF Regroups

LEMMA RequestShaped ==
    ASSUME InstOK(inst), gen # "AIE", NEW req \in Locations, req # All, NEW nested \in BOOLEAN
    PROVE  LET outer == IF nested THEN "close" ELSE "return"
               inner == IF nested THEN "closes" ELSE "close"
           IN /\ outer \in FailKinds /\ inner \in FailKinds
              /\ RequestTiles(req, nested)
                 = <<Open(outer)>> \o (Gating(inner) \o (TileSteps(req, inner) \o <<Close("drop")>>))
<1> DEFINE outer == IF nested THEN "close" ELSE "return"
           inner == IF nested THEN "closes" ELSE "close"
           o == <<Open(outer)>>
           g == Gating(inner)
           m == TileSteps(req, inner)
           s == <<Close("drop")>>
<1>1. outer \in FailKinds /\ inner \in FailKinds /\ "drop" \in FailKinds
  BY DEF FailKinds
<1>2. RequestTiles(req, nested) = o \o RequestSteps(req, inner) \o s
  BY DEF RequestTiles
<1> HIDE DEF outer, inner
<1>3. RequestSteps(req, inner) = g \o m
  BY <1>1, RequestStepsAre
<1>4. o \in Seq(Of({"prot"})) /\ s \in Seq(Of({"prot"}))
  BY <1>1, ProtPieces DEF Piece
<1>5. o \in Seq(StepSet) /\ s \in Seq(StepSet) /\ g \in Seq(StepSet) /\ m \in Seq(StepSet)
  BY <1>1, <1>4, ShapedPieces
<1> HIDE DEF o, g, m, s
<1>6. o \o (g \o m) \o s = o \o (g \o (m \o s))
  <2> DEFINE gm == g \o m
  <2>1. gm \in Seq(StepSet)
    BY <1>5, ConcatIn
  <2> HIDE DEF gm
  <2>2. Regroups(o, gm, s) /\ Regroups(g, m, s)
    BY <1>5, <2>1, Regrouped
  <2> QED BY <2>2 DEF Regroups, gm
<1>7. RequestTiles(req, nested) = o \o (g \o (m \o s))
  BY <1>2, <1>3, <1>6
<1> QED BY <1>1, <1>7 DEF o, g, m, s, outer, inner

\* What an initialization does before it asks for its tiles.
SetupHead(o) ==
    When(Has(o, "L2_SPLIT") /\ DualApp /\ o.app # "single", <<Write("split", TRUE, "close")>>)
    \o <<Write("iso", IF Has(o, "ISOLATE") THEN {"init"} ELSE {}, "goOn")>>
    \o When(Has(o, "ZEROIZEMEM"), <<Write("zero", TRUE, "close")>>)
    \o When(Has(o, "UC_MEM_PRIV") /\ gen = "AIE4", <<Write("uc", TRUE, "close")>>)
    \o When(Interleaves(o), <<Write("inter", o.inter, "close")>>)
    \o <<Write("irq", TRUE, "return")>>
HeadKinds == {"split", "iso", "zero", "uc", "inter", "irq"}
BeforeKinds == {"prot", "app", "clk", "rst", "shim", "npi", "nmu", "nsu",
                "split", "iso", "zero", "uc", "inter", "irq"}

LEMMA SetupHeadIn ==
    ASSUME NEW o \in Options PROVE SetupHead(o) \in Seq(Of(HeadKinds))
<1> DEFINE K == HeadKinds
           T == Of(K)
           split == When(Has(o, "L2_SPLIT") /\ DualApp /\ o.app # "single", <<Write("split", TRUE, "close")>>)
           flags == IF Has(o, "ISOLATE") THEN {"init"} ELSE {}
           iso == <<Write("iso", flags, "goOn")>>
           zero == When(Has(o, "ZEROIZEMEM"), <<Write("zero", TRUE, "close")>>)
           uc == When(Has(o, "UC_MEM_PRIV") /\ gen = "AIE4", <<Write("uc", TRUE, "close")>>)
           inter == When(Interleaves(o), <<Write("inter", o.inter, "close")>>)
           irq == <<Write("irq", TRUE, "return")>>
<1>1. /\ "close" \in FailKinds /\ "return" \in FailKinds /\ "goOn" \in FailKinds
      /\ o.inter \in Nat /\ flags \in SUBSET Borders
  BY DEF FailKinds, Options, Borders
<1>2. SetupHead(o) = split \o iso \o zero \o uc \o inter \o irq
  BY DEF SetupHead
<1> HIDE DEF flags
<1>3. /\ Step("split", TRUE, "close") \in StepSet /\ Step("iso", flags, "goOn") \in StepSet
      /\ Step("zero", TRUE, "close") \in StepSet /\ Step("uc", TRUE, "close") \in StepSet
      /\ Step("inter", o.inter, "close") \in StepSet /\ Step("irq", TRUE, "return") \in StepSet
  BY <1>1, StepTypes
<1>4. {"split", "iso", "zero", "uc", "inter", "irq"} \subseteq K
  BY DEF HeadKinds
<1> HIDE DEF K
<1>5. /\ Write("split", TRUE, "close") \in T /\ Write("iso", flags, "goOn") \in T
      /\ Write("zero", TRUE, "close") \in T /\ Write("uc", TRUE, "close") \in T
      /\ Write("inter", o.inter, "close") \in T /\ Write("irq", TRUE, "return") \in T
  BY <1>3, <1>4, StepOn DEF Write
<1> HIDE DEF T
<1>6. /\ split \in Seq(T) /\ iso \in Seq(T) /\ zero \in Seq(T) /\ uc \in Seq(T)
      /\ inter \in Seq(T) /\ irq \in Seq(T)
  BY <1>5, OneIn, WhenIn
<1> HIDE DEF split, iso, zero, uc, inter, irq
<1>7. split \o iso \o zero \o uc \o inter \o irq \in Seq(T)
  BY <1>6, ConcatIn
<1> QED BY <1>2, <1>7 DEF T, K

\* An initialization that asks for tiles has this shape too.
LEMMA InitShaped ==
    ASSUME InstOK(inst), NEW o \in Options, HasTiles(o), o.tiles # All
    PROVE  \E pre \in Seq(Of(BeforeKinds)) :
              /\ Shaped(InitPart(o), o.tiles, pre)
              /\ "clear" \in InitWants(o) => Establishes(pre, On("rst", TRUE), {})
<1> DEFINE req == o.tiles
           first == InitReset(o)
           head == SetupHead(o)
           gate == When(gen = "AIE", <<Step("clk", FALSE, "close"), Step("unmark", AllBits, "close")>>)
           tiles == RequestTiles(req, TRUE)
           shut == <<Close("return")>>
           P == Of({"prot"})
           B == Of(BeforeKinds)
<1>1. InitPart(o) = first \o (head \o gate \o tiles \o shut)
  <2>1. When(HasTiles(o), tiles) = tiles
    BY DEF When
  <2>2. InitSetup(o) = head \o gate \o When(HasTiles(o), tiles) \o shut
    <3> DEFINE flags == IF Has(o, "ISOLATE") THEN {"init"} ELSE {}
               gates == <<Step("clk", FALSE, "close"), Step("unmark", AllBits, "close")>>
               noc == <<Write("irq", TRUE, "return")>>
    <3>1. flags = IF Has(o, "ISOLATE") THEN {"init"} ELSE {}
      OBVIOUS
    <3>2. gates = <<Write("clk", FALSE, "close"), Step("unmark", AllBits, "close")>>
      BY DEF Write
    <3> HIDE DEF flags, tiles, gates
    <3> QED BY <3>1, <3>2 DEF InitSetup, SetupHead, tiles, gates
  <2> HIDE DEF tiles, gate, shut, head, first
  <2> QED BY <2>1, <2>2 DEF InitPart, first
<1>2. req \in Locations /\ req # All /\ "close" \in FailKinds /\ "closes" \in FailKinds
      /\ "return" \in FailKinds /\ "drop" \in FailKinds
  BY DEF Options, FailKinds
<1>3. Establishes(first, On("rst", TRUE), Of({"iso"})) \/ "clear" \notin InitWants(o)
  <2>1. "clear" \in Facts /\ Good["clear"] = On("rst", TRUE) /\ Bad["clear"] = Of({"iso"})
    BY DEF Facts, Good, Bad
  <2> QED BY <2>1, InitResetPieces DEF Piece
<1>4. first \in Seq(B) /\ head \in Seq(B) /\ Of({"prot"}) \subseteq B /\ B \subseteq StepSet
  <2> DEFINE R == {"prot", "app", "clk", "rst", "shim", "npi", "nmu", "nsu"}
  <2>1. first \in Seq(Of(R)) /\ head \in Seq(Of(HeadKinds))
    BY InitResetPieces, SetupHeadIn DEF Piece
  <2>2. Of(R) \subseteq B /\ Of(HeadKinds) \subseteq B /\ Of({"prot"}) \subseteq B
    BY OfMore DEF BeforeKinds, HeadKinds
  <2>3. B \subseteq StepSet
    BY DEF Of
  <2> HIDE DEF first, head, B, R
  <2> QED BY <2>1, <2>2, <2>3, SubIn
<1>5. shut \in Seq(P) /\ <<Open("close")>> \in Seq(P) /\ <<Close("drop")>> \in Seq(P)
  BY <1>2, ProtPieces DEF Piece
<1>6. \A f1, f2 \in FailKinds : /\ Gating(f1) \in Seq(StepSet) /\ TileSteps(req, f2) \in Seq(StepSet)
  BY <1>2, <1>5, ShapedPieces
<1>7. P \subseteq StepSet
  BY DEF Of
<1> HIDE DEF first, head, P, B, shut
<1>8. first \in Seq(StepSet) /\ head \in Seq(StepSet) /\ shut \in Seq(StepSet)
  BY <1>4, <1>5, <1>7, SubIn
<1>9. ASSUME NEW pre, pre = first \/ (\E b \in Seq(StepSet) : pre = first \o b), "clear" \in InitWants(o)
      PROVE  Establishes(pre, On("rst", TRUE), {})
  <2> DEFINE good == On("rst", TRUE)
             bad == Of({"iso"})
  <2>1. Establishes(first, good, bad)
    BY <1>3, <1>9
  <2> HIDE DEF good, bad
  <2>2. Establishes(first, good, {})
    BY <2>1 DEF Establishes, Leads, SureAt, Sureness
  <2>3. ASSUME NEW b \in Seq(StepSet) PROVE Establishes(first \o b, good, {})
    BY <1>8, <2>2, Behind
  <2> QED BY <1>9, <2>2, <2>3 DEF good
<1>10. CASE gen = "AIE"
  <2> DEFINE pre == first \o head
             g == Gating("close")
             m == TileSteps(req, "close")
  <2>1. gate = g /\ tiles = m
    BY <1>2, <1>10, OneAndOne, RequestStepsAre DEF RequestTiles, Gating, When
  <2>2. g \in Seq(StepSet) /\ m \in Seq(StepSet) /\ pre \in Seq(B)
    BY <1>2, <1>4, <1>6, ConcatIn
  <2> HIDE DEF g, m, gate, tiles
  <2>3. head \o g \o m \o shut = head \o (g \o (m \o shut))
    <3> DEFINE hg == head \o g
               ms == m \o shut
    <3>1. hg \in Seq(StepSet) /\ ms \in Seq(StepSet)
      BY <1>8, <2>2, ConcatIn
    <3> HIDE DEF hg, ms
    <3>2. Regroups(hg, m, shut) /\ Regroups(head, g, ms)
      BY <1>8, <2>2, <3>1, Regrouped
    <3> QED BY <3>2 DEF Regroups, hg, ms
  <2> DEFINE rest == g \o (m \o shut)
  <2>4. InitPart(o) = first \o (head \o rest) /\ rest \in Seq(StepSet)
    <3>1. rest \in Seq(StepSet)
      BY <1>8, <2>2, ConcatIn
    <3> QED BY <1>1, <2>1, <2>3, <3>1
  <2> HIDE DEF rest
  <2>5. InitPart(o) = pre \o rest
    <3>1. Regroups(first, head, rest)
      BY <1>8, <2>4, Regrouped
    <3> QED BY <2>4, <3>1 DEF Regroups
  <2>6. InitPart(o) = pre \o (Gating("close") \o (TileSteps(req, "close") \o shut))
    BY <2>5 DEF rest, g, m
  <2>7. Shaped(InitPart(o), req, pre)
    BY <1>2, <1>5, <2>6 DEF Shaped, P
  <2>8. "clear" \in InitWants(o) => Establishes(pre, On("rst", TRUE), {})
    BY <1>8, <1>9
  <2> HIDE DEF pre
  <2> QED BY <2>2, <2>7, <2>8 DEF B
<1>11. CASE gen # "AIE"
  <2> DEFINE open == <<Open("close")>>
             drop == <<Close("drop")>>
             g == Gating("closes")
             m == TileSteps(req, "closes")
             fh == first \o head
             pre == fh \o open
             post == drop \o shut
             mid == g \o (m \o drop)
  <2>1. gate = <<>> /\ tiles = open \o mid
    BY <1>2, <1>11, RequestShaped DEF When
  <2>2. /\ g \in Seq(StepSet) /\ m \in Seq(StepSet) /\ open \in Seq(StepSet) /\ drop \in Seq(StepSet)
        /\ open \in Seq(B)
    BY <1>2, <1>4, <1>5, <1>6, <1>7, SubIn DEF P
  <2>3. drop \in Seq(P)
    BY <1>5
  <2> HIDE DEF g, m, open, drop, gate, tiles
  <2>4. post \in Seq(P) /\ post \in Seq(StepSet) /\ fh \in Seq(B) /\ fh \in Seq(StepSet) /\ pre \in Seq(B)
        /\ mid \in Seq(StepSet)
    BY <1>4, <1>5, <1>8, <2>2, <2>3, ConcatIn
  <2>5. mid \o shut = g \o (m \o post)
    <3> DEFINE md == m \o drop
    <3>1. md \in Seq(StepSet)
      BY <2>2, ConcatIn
    <3> HIDE DEF md
    <3>2. Regroups(m, drop, shut) /\ Regroups(g, md, shut)
      BY <1>8, <2>2, <3>1, Regrouped
    <3> QED BY <3>2 DEF Regroups, md
  <2> HIDE DEF mid, post
  <2>6. head \o gate = head
    BY <1>8, <2>1
  <2>7. InitPart(o) = first \o (head \o (open \o mid) \o shut)
    BY <1>1, <2>1, <2>6
  <2>8. head \o (open \o mid) \o shut = head \o (open \o (mid \o shut))
    <3> DEFINE om == open \o mid
    <3>1. om \in Seq(StepSet)
      BY <2>2, <2>4, ConcatIn
    <3> HIDE DEF om
    <3>2. Regroups(open, mid, shut) /\ Regroups(head, om, shut)
      BY <1>8, <2>2, <2>4, <3>1, Regrouped
    <3> QED BY <3>2 DEF Regroups, om
  <2> DEFINE rest == mid \o shut
  <2>9. rest \in Seq(StepSet) /\ InitPart(o) = first \o (head \o (open \o rest))
    BY <1>8, <2>4, <2>7, <2>8, ConcatIn
  <2>10. rest = g \o (m \o post)
    BY <2>5
  <2> HIDE DEF rest
  <2>11. InitPart(o) = pre \o rest
    <3> DEFINE or == open \o rest
    <3>1. or \in Seq(StepSet)
      BY <2>2, <2>9, ConcatIn
    <3> HIDE DEF or
    <3>2. Regroups(first, head, or)
      BY <1>8, <3>1, Regrouped
    <3> HIDE DEF fh
    <3>3. Regroups(fh, open, rest)
      BY <2>2, <2>4, <2>9, Regrouped
    <3> QED BY <2>9, <3>2, <3>3 DEF Regroups, or, fh
  <2>12. InitPart(o) = pre \o (Gating("closes") \o (TileSteps(req, "closes") \o post))
    BY <2>10, <2>11 DEF g, m
  <2> HIDE DEF pre
  <2>13. Shaped(InitPart(o), req, pre)
    BY <1>2, <2>4, <2>12 DEF Shaped, P
  <2>14. "clear" \in InitWants(o) => Establishes(pre, On("rst", TRUE), {})
    <3> DEFINE b == head \o open
    <3>1. b \in Seq(StepSet)
      BY <1>8, <2>2, ConcatIn
    <3>2. pre = first \o b
      <4>1. Regroups(first, head, open)
        BY <1>8, <2>2, Regrouped
      <4> QED BY <4>1 DEF Regroups, pre, fh
    <3> HIDE DEF b
    <3> QED BY <1>9, <3>1, <3>2
  <2> QED BY <2>4, <2>13, <2>14 DEF B
<1> QED BY <1>10, <1>11

----------------------------------------------------------------------------
(* What a request of tiles promises: kept by the steps.                     *)

Granting == call.op \in {"init", "request"} /\ call.arg.tiles \notin {All, <<>>}
CountsOn == IF call.op = "init" THEN HasFlag("COLUMN_RST") ELSE call.fit

MlGrants ==
    /\ Leads(call.plan, SureIf(BitsMeanOn), "unsure", UnmarkAll \cup Void, BadBits, Tiles)
    /\ \A t \in Named(call.arg.tiles) : t[2] # 0 => Promises(ColOn(t), On("tile", t), BadOn)
    /\ Promises(OnlyAsked, On("clk", FALSE), BadOnly)
AieGrants ==
    /\ Leads(call.plan, SureIf(UpAll), "unsure", On("rst", TRUE) \cup Void, Tiles, UnmarkAll)
    /\ Promises(Fits, UnmarkAll, BadFits)
    /\ \A t \in Named(call.arg.tiles) : t[2] # 0 => Promises(RowUsed(t), On("tile", t), BadRow)
Grants ==
    Granting => /\ gen # "AIE" => MlGrants
                /\ gen = "AIE" /\ CountsOn => AieGrants
GrantInv == call.rc = "ok" /\ Clean => Grants

LEMMA StepGrants ==
    ASSUME TypeOK, CallStep, Fine, Grants PROVE Grants'
<1>1. /\ gen' = gen /\ inst' = inst /\ call'.op = call.op /\ call'.arg = call.arg
      /\ call'.fit = call.fit /\ ~Idle
  <2>1. Succeed /\ ~Idle
    BY StepUntouched
  <2> QED BY <2>1, StepUntouched DEF Succeed, TypeOK, CallOK
<1>2. /\ Granting' = Granting /\ CountsOn' = CountsOn
      /\ AllBits' = AllBits /\ UnmarkAll' = UnmarkAll /\ BadFits' = BadFits /\ BadOnly' = BadOnly
  <2>1. AllBits' = AllBits
    BY <1>1 DEF AllBits, TileBit
  <2>2. UnmarkAll' = UnmarkAll
    BY <2>1 DEF UnmarkAll
  <2>3. \A col : Asked(col)' = Asked(col)
    BY StepSame
  <2>4. BadOnly' = BadOnly
    BY <2>3 DEF BadOnly
  <2> QED BY <1>1, <2>1, <2>2, <2>4 DEF Granting, CountsOn, HasFlag, BadFits
<1>3. ASSUME NEW fact, NEW after, NEW good, NEW bad, Promises(fact, good, bad),
             Moves(fact, after, good, bad)
      PROVE  Leads(call'.plan, SureIf(after), "sure", good \cup Void, bad, {})
  BY <1>3, LeadKept DEF Promises, Sureness
<1>4. ASSUME Granting, gen # "AIE" PROVE MlGrants'
  <2>1. MlGrants
    BY <1>4 DEF Grants
  <2>2. Now \in Tiles => BitsMeanOn
    <3> SUFFICES ASSUME Now \in Tiles PROVE BitsMeanOn
      OBVIOUS
    <3>1. SureIf(BitsMeanOn) = "sure"
      BY <1>1, <2>1, SureFirst DEF MlGrants
    <3> QED BY <3>1 DEF SureIf
  <2>3. Leads(call'.plan, SureIf(BitsMeanOn'), "unsure", UnmarkAll \cup Void, BadBits, Tiles)
    BY <1>4, <2>1, BitsMove, LeadKept DEF MlGrants, Sureness
  <2>4. ASSUME NEW t \in Named(call.arg.tiles), t[2] # 0
        PROVE  Leads(call'.plan, SureIf(ColOn(t)'), "sure", On("tile", t) \cup Void, BadOn, {})
    <3>1. Promises(ColOn(t), On("tile", t), BadOn)
      BY <2>1, <2>4 DEF MlGrants
    <3>2. Moves(ColOn(t), ColOn(t)', On("tile", t), BadOn)
      BY <1>4, <2>2, <2>4, ColMoves
    <3> QED BY <1>3, <3>1, <3>2
  <2>5. Leads(call'.plan, SureIf(OnlyAsked'), "sure", On("clk", FALSE) \cup Void, BadOnly, {})
    BY <1>3, <1>4, <2>1, OnlyMoves DEF MlGrants
  <2> QED BY <1>1, <1>2, <2>3, <2>4, <2>5 DEF MlGrants, Promises, SureIf
<1>5. ASSUME Granting, gen = "AIE", CountsOn PROVE AieGrants'
  <2>1. AieGrants
    BY <1>5 DEF Grants
  <2>2. Now \in UnmarkAll => UpAll
    <3> SUFFICES ASSUME Now \in UnmarkAll PROVE UpAll
      OBVIOUS
    <3>1. SureIf(UpAll) = "sure"
      BY <1>1, <2>1, SureFirst DEF AieGrants
    <3> QED BY <3>1 DEF SureIf
  <2>3. Leads(call'.plan, SureIf(UpAll'), "unsure", On("rst", TRUE) \cup Void, Tiles, UnmarkAll)
    BY <2>1, UpMoves, LeadKept DEF AieGrants, Sureness
  <2>4. Leads(call'.plan, SureIf(Fits'), "sure", UnmarkAll \cup Void, BadFits, {})
    <3>1. Moves(Fits, Fits', UnmarkAll, BadFits)
      BY <1>5, <2>2, FitsMove
    <3> QED BY <1>3, <2>1, <3>1 DEF AieGrants
  <2>5. ASSUME NEW t \in Named(call.arg.tiles), t[2] # 0
        PROVE  Leads(call'.plan, SureIf(RowUsed(t)'), "sure", On("tile", t) \cup Void, BadRow, {})
    <3>1. Promises(RowUsed(t), On("tile", t), BadRow)
      BY <2>1, <2>5 DEF AieGrants
    <3>2. Moves(RowUsed(t), RowUsed(t)', On("tile", t), BadRow)
      BY <1>5, <2>5, RowMoves
    <3> QED BY <1>3, <3>1, <3>2
  <2> QED BY <1>1, <1>2, <2>3, <2>4, <2>5 DEF AieGrants, Promises, SureIf
<1> QED BY <1>1, <1>2, <1>4, <1>5 DEF Grants

----------------------------------------------------------------------------
(* What a request of tiles promises: at the beginning and at the end.       *)

LEMMA BitsSame ==
    ASSUME inst'.start = inst.start, inst'.cols = inst.cols
    PROVE  AllBits' = AllBits /\ UnmarkAll' = UnmarkAll /\ BadFits' = BadFits
<1>1. AllBits' = AllBits
  BY DEF AllBits, TileBit
<1>2. UnmarkAll' = UnmarkAll
  BY <1>1 DEF UnmarkAll
<1> QED BY <1>1, <1>2 DEF BadFits

LEMMA RefusedQuiet ==
    ASSUME NEW x \in Sureness, NEW good, NEW bad
    PROVE  Leads(Refused, x, "unsure", good, bad, Tiles)
<1> DEFINE s == Step("unsupported", "", "return")
<1>1. s \in Void
  BY StepTypes, StepOn DEF Void, FailKinds
<1>2. s \notin Tiles /\ s \in StepSet
  BY <1>1 DEF Void, Tiles, Of
<1> HIDE DEF s
<1>3. Leads(<<s>>, x, "unsure", good, bad, Tiles)
  BY <1>2, LeadsStep DEF Sureness
<1> QED BY <1>3 DEF Refused, s

LEMMA MlBegun ==
    ASSUME inst'.start = inst.start, inst'.cols = inst.cols, NEW req, call'.arg.tiles = req,
           call'.plan = Refused \/ MlMade(call'.plan, req)
    PROVE  MlGrants'
<1> DEFINE plan == call'.plan
<1>1. UnmarkAll' = UnmarkAll
  BY BitsSame
<1>2. BadOnly' = Strays(req)
  <2>1. \A col : Asked(col)' <=> \E i \in DOMAIN req : req[i][1] = col
    BY DEF Asked
  <2> QED BY <2>1 DEF BadOnly, Strays
<1>3. Leads(plan, SureIf(BitsMeanOn'), "unsure", UnmarkAll \cup Void, BadBits, Tiles)
  <2>1. SureIf(BitsMeanOn') \in Sureness
    BY SureIfIn
  <2> DEFINE x == SureIf(BitsMeanOn')
             good == UnmarkAll \cup Void
  <2>2. x \in Sureness /\ (MlMade(plan, req) => Leads(plan, x, "unsure", good, BadBits, Tiles))
    BY <2>1 DEF MlMade
  <2> HIDE DEF x, good
  <2>3. Leads(plan, x, "unsure", good, BadBits, Tiles)
    BY <2>2, RefusedQuiet
  <2> QED BY <2>3 DEF x, good
<1>4. ASSUME NEW t \in Named(req)
      PROVE  Leads(plan, SureIf(ColOn(t)'), "sure", On("tile", t) \cup Void, BadOn, {})
  <2>1. BadOn \cap Void = {}
    BY DEF BadOn, Void, On, Of
  <2> DEFINE x == SureIf(ColOn(t)')
             good == On("tile", t)
  <2>2. x \in Sureness /\ (plan = Refused \/ Establishes(plan, good, BadOn))
    BY SureIfIn DEF MlMade
  <2> HIDE DEF x, good, plan
  <2>3. Leads(plan, x, "sure", good \cup Void, BadOn, {})
    BY <2>1, <2>2, PromiseMade
  <2> QED BY <2>3 DEF x, good
<1>5. Leads(plan, SureIf(OnlyAsked'), "sure", On("clk", FALSE) \cup Void, Strays(req), {})
  <2>1. Strays(req) \cap Void = {}
    BY DEF Strays, Void, Tiles, On, Of
  <2> DEFINE x == SureIf(OnlyAsked')
             good == On("clk", FALSE)
             bad == Strays(req)
  <2>2. x \in Sureness /\ (plan = Refused \/ Establishes(plan, good, bad))
    BY SureIfIn DEF MlMade
  <2> HIDE DEF x, good, plan, bad
  <2>3. Leads(plan, x, "sure", good \cup Void, bad, {})
    BY <2>1, <2>2, PromiseMade DEF bad
  <2> QED BY <2>3 DEF x, good, bad
<1> QED BY <1>1, <1>2, <1>3, <1>4, <1>5 DEF MlGrants, Promises, SureIf

LEMMA AieBegun ==
    ASSUME inst'.start = inst.start, inst'.cols = inst.cols, NEW req, call'.arg.tiles = req,
           AieMade(call'.plan, req, SureIf(Fits'))
    PROVE  AieGrants'
<1> DEFINE plan == call'.plan
<1>1. UnmarkAll' = UnmarkAll /\ BadFits' = BadFits
  BY BitsSame
<1>2. Leads(plan, SureIf(UpAll'), "unsure", On("rst", TRUE) \cup Void, Tiles, UnmarkAll)
  BY SureIfIn DEF AieMade
<1>3. Leads(plan, SureIf(Fits'), "sure", UnmarkAll \cup Void, BadFits, {})
  BY DEF AieMade
<1>4. ASSUME NEW t \in Named(req)
      PROVE  Leads(plan, SureIf(RowUsed(t)'), "sure", On("tile", t) \cup Void, BadRow, {})
  <2>1. BadRow \cap Void = {}
    BY DEF BadRow, Void, Of
  <2> DEFINE x == SureIf(RowUsed(t)')
             good == On("tile", t)
  <2>2. x \in Sureness /\ Establishes(plan, good, BadRow)
    BY SureIfIn DEF AieMade
  <2> HIDE DEF x, good, plan
  <2>3. Leads(plan, x, "sure", good \cup Void, BadRow, {})
    BY <2>1, <2>2, PromiseMade
  <2> QED BY <2>3 DEF x, good
<1> QED BY <1>1, <1>2, <1>3, <1>4 DEF AieGrants, Promises, SureIf

LEMMA InitGrants == ASSUME TypeOK, NEW o \in InitOpts, PartitionInitialize(o) PROVE Grants'
<1> DEFINE plan == IF BadMode(o) THEN Refused ELSE InitPart(o)
<1>1. /\ call'.op = "init" /\ call'.plan = plan /\ call'.arg = o /\ gen' = gen
      /\ inst'.start = inst.start /\ inst'.cols = inst.cols /\ o \in Options
  BY SizesOK DEF PartitionInitialize, Begin, TypeOK, InstOK, Options
<1> SUFFICES ASSUME Granting' PROVE /\ gen # "AIE" => MlGrants'
                                    /\ gen = "AIE" /\ CountsOn' => AieGrants'
  BY <1>1 DEF Grants
<1>2. HasTiles(o) /\ o.tiles # All /\ o.tiles \in Locations /\ InstOK(inst)
  BY <1>1 DEF Granting, HasTiles, Options, TypeOK
<1>3. PICK pre \in Seq(Of(BeforeKinds)) :
         /\ Shaped(InitPart(o), o.tiles, pre)
         /\ "clear" \in InitWants(o) => Establishes(pre, On("rst", TRUE), {})
  BY <1>1, <1>2, InitShaped
<1>4. ASSUME gen # "AIE" PROVE MlGrants'
  <2>1. "tile" \notin BeforeKinds
    BY DEF BeforeKinds
  <2>2. MlMade(InitPart(o), o.tiles)
    BY <1>2, <1>3, <2>1, ShapedMl
  <2>3. plan = Refused \/ MlMade(plan, o.tiles)
    BY <2>2
  <2> HIDE DEF plan
  <2> QED BY <1>1, <2>3, MlBegun
<1>5. ASSUME gen = "AIE", CountsOn' PROVE AieGrants'
  <2>1. "clear" \in InitWants(o)
    BY <1>1, <1>5 DEF CountsOn, HasFlag, InitWants, Has, Facts
  <2>2. plan = InitPart(o)
    BY <1>5 DEF BadMode, DualApp
  <2>3. BeforeKinds \cap {"tile", "unmark"} = {}
    BY DEF BeforeKinds
  <2>4. SureIf(Fits') \in Sureness
    BY SureIfIn
  <2>5. AieMade(InitPart(o), o.tiles, SureIf(Fits'))
    BY <1>2, <1>3, <2>1, <2>3, <2>4, ShapedAie
  <2> QED BY <1>1, <2>2, <2>5, AieBegun
<1> QED BY <1>4, <1>5

LEMMA RequestGrants == ASSUME TypeOK, NEW req \in Requests, PmRequestTiles(req) PROVE Grants'
<1>1. /\ call'.op = "request" /\ call'.plan = RequestTiles(req, FALSE)
      /\ call'.arg = [NoOpts EXCEPT !.tiles = req] /\ call'.fit = (\A col \in RelCols : InStep(col))
      /\ gen' = gen /\ inst' = inst /\ used' = used /\ hw' = hw
  BY DEF PmRequestTiles, Begin
<1>2. call'.arg.tiles = req
  BY <1>1 DEF NoOpts
<1> SUFFICES ASSUME Granting' PROVE /\ gen # "AIE" => MlGrants'
                                    /\ gen = "AIE" /\ CountsOn' => AieGrants'
  BY <1>1 DEF Grants
<1>3. req \in Locations /\ req # All /\ InstOK(inst) /\ "return" \in FailKinds
  BY <1>2, SizesOK DEF Granting, TypeOK, FailKinds
<1>4. ASSUME gen # "AIE" PROVE MlGrants'
  <2> DEFINE pre == <<Open("return")>>
             post == <<Close("drop")>>
  <2>1. /\ "close" \in FailKinds
        /\ RequestTiles(req, FALSE) = pre \o (Gating("close") \o (TileSteps(req, "close") \o post))
    BY <1>3, <1>4, RequestShaped
  <2>2. pre \in Seq(Of({"prot"})) /\ post \in Seq(Of({"prot"}))
    BY <1>3, ProtPieces DEF Piece, FailKinds
  <2> HIDE DEF pre, post
  <2>3. Shaped(RequestTiles(req, FALSE), req, pre)
    BY <2>1, <2>2 DEF Shaped
  <2>4. MlMade(RequestTiles(req, FALSE), req)
    BY <1>3, <2>2, <2>3, ShapedMl
  <2> QED BY <1>1, <1>2, <2>4, MlBegun
<1>5. ASSUME gen = "AIE", CountsOn' PROVE AieGrants'
  <2>1. RequestTiles(req, FALSE) = TileSteps(req, "return")
    BY <1>3, <1>5, RequestStepsAre DEF RequestTiles
  <2>2. AieMade(call'.plan, req, "sure")
    <3>1. AieMade(TileSteps(req, "return"), req, "sure")
      BY <1>3, TilesAie
    <3>2. call'.plan = TileSteps(req, "return")
      BY <1>1, <2>1
    <3> QED BY <3>1, <3>2
  <2>3. Fits'
    <3>1. Fits
      BY <1>1, <1>5 DEF CountsOn, Fits
    <3>2. Fits' = Fits
      BY <1>1 DEF Fits, InStep, TopInUse, TileBit, RelCols, FirstCol, AllUp
    <3> QED BY <3>1, <3>2
  <2>4. SureIf(Fits') = "sure"
    BY <2>3 DEF SureIf
  <2> QED BY <1>1, <1>2, <2>2, <2>4, AieBegun
<1> QED BY <1>4, <1>5

LEMMA GrantKept == TypeOK /\ GrantInv /\ [Next]_vars => GrantInv'
<1> SUFFICES ASSUME TypeOK, GrantInv, [Next]_vars, (call.rc = "ok" /\ Clean)' PROVE Grants'
  BY DEF GrantInv
<1>0. ASSUME call'.op \notin {"init", "request"} PROVE Grants'
  BY <1>0 DEF Grants, Granting
<1>1. CASE Client
  <2>1. CASE \E part \in Parts : CfgInitialize(part)
    <3>1. call'.op = "none"
      BY <2>1 DEF CfgInitialize, TypeOK, CallOK
    <3> QED BY <1>0, <3>1
  <2>2. CASE \E o \in InitOpts : PartitionInitialize(o)
    BY <2>2, InitGrants
  <2>3. CASE \E req \in Requests : PmRequestTiles(req)
    BY <2>3, RequestGrants
  <2>4. ASSUME NEW op, NEW arg, NEW plan, Begin(op, arg, plan), op \notin {"init", "request"}
        PROVE  Grants'
    <3>1. call'.op = op
      BY <2>4 DEF Begin
    <3> QED BY <1>0, <2>4, <3>1
  <2>5. CASE \E o \in InitOpts, parent \in Parts : SoftPartitionInitialize(o, parent)
    BY <2>4, <2>5 DEF SoftPartitionInitialize
  <2>6. CASE PartitionTeardown
    BY <2>4, <2>6 DEF PartitionTeardown
  <2>7. CASE \E req \in ColumnReqs : PmSetColumnClk(req)
    BY <2>4, <2>7 DEF PmSetColumnClk
  <2>8. CASE ResetPartition \/ ClearPartitionMems
    <3>1. (\E arg, plan : Begin("reset", arg, plan)) \/ (\E arg, plan : Begin("clear", arg, plan))
      BY <2>8 DEF ResetPartition, ClearPartitionMems
    <3> QED BY <2>4, <3>1
  <2>9. CASE \E req \in Requests, mode \in {0, 2} : req # All /\ ConfigMemInterleavingLoc(req, mode)
    BY <2>4, <2>9 DEF ConfigMemInterleavingLoc
  <2>10. CASE \E flags \in {{}, {"init"}, {"west"}} : SetAxiMMIsolation(flags)
    BY <2>4, <2>10 DEF SetAxiMMIsolation
  <2> QED BY <1>1, <2>1, <2>2, <2>3, <2>5, <2>6, <2>7, <2>8, <2>9, <2>10 DEF Client
<1>2. CASE Run
  <2>1. call'.op = "none"
    BY <1>2 DEF Run, TypeOK, CallOK
  <2> QED BY <1>0, <2>1
<1>3. CASE CallStep
  <2>1. Fine
    BY DEF Fine, Clean
  <2>2. Succeed
    BY <1>3, <2>1, StepUntouched
  <2>3. call.rc = "ok" /\ Clean
    BY <2>1, <2>2 DEF Succeed, Fine, Clean, TypeOK, CallOK
  <2> QED BY <1>3, <2>1, <2>3, StepGrants DEF GrantInv
<1>4. CASE UNCHANGED vars
  <2>1. call' = call /\ gen' = gen /\ inst' = inst /\ hw' = hw /\ used' = used
    BY <1>4 DEF vars
  <2>2. Grants
    BY <2>1 DEF GrantInv, Clean
  <2>3. BitsMeanOn' = BitsMeanOn /\ UpAll' = UpAll /\ Fits' = Fits /\ OnlyAsked' = OnlyAsked
        /\ UnmarkAll' = UnmarkAll /\ BadFits' = BadFits /\ BadOnly' = BadOnly
    BY <2>1 DEF BitsMeanOn, UpAll, Fits, OnlyAsked, UnmarkAll, BadFits, BadOnly, AllBits, TileBit, RelCols,
                FirstCol, PartCols, AllUp, InStep, TopInUse, Asked
  <2>4. ASSUME NEW t PROVE ColOn(t)' = ColOn(t) /\ RowUsed(t)' = RowUsed(t)
    BY <2>1 DEF ColOn, RowUsed, RelCols, FirstCol, TileBit
  <2>5. MlGrants' = MlGrants
    BY <2>1, <2>3, <2>4 DEF MlGrants, Promises, SureIf
  <2>6. AieGrants' = AieGrants
    BY <2>1, <2>3, <2>4 DEF AieGrants, Promises, SureIf
  <2>7. Granting' = Granting /\ CountsOn' = CountsOn
    BY <2>1 DEF Granting, CountsOn, HasFlag
  <2> QED BY <2>1, <2>2, <2>5, <2>6, <2>7 DEF Grants
<1> QED BY <1>1, <1>2, <1>3, <1>4 DEF Next, CallStep

LEMMA GrantsFirst == Init => GrantInv
<1> SUFFICES ASSUME Init PROVE GrantInv
  OBVIOUS
<1>1. call.op = "none"
  BY DEF Init
<1> QED BY <1>1 DEF GrantInv, Grants, Granting

LEMMA Granted == ASSUME TypeOK, GrantInv PROVE RequestGranted
<1> SUFFICES ASSUME Ended({"init", "request"}), Clean, call.arg.tiles \notin {All, <<>>},
                    gen = "AIE" => CountsOn, NEW col \in RelCols
             PROVE  /\ \A row \in AskedRows(col) \ {0} : Clocked(FirstCol + col, row)
                    /\ gen # "AIE" => (hw.clk[FirstCol + col] => Asked(col))
  BY DEF RequestGranted, CountsOn
<1>1. Idle /\ Granting /\ Grants
  BY DEF Ended, Granting, GrantInv
<1>2. ASSUME NEW fact, NEW good, NEW bad, Promises(fact, good, bad) PROVE fact
  BY <1>1, <1>2, PromiseKept
<1>3. ASSUME NEW row \in AskedRows(col) \ {0}
      PROVE  \E t \in Named(call.arg.tiles) : t[1] = col /\ t[2] = row /\ t[2] # 0
  BY <1>3 DEF AskedRows, Named
<1>4. HwOK(hw) /\ FirstCol + col \in Cols
  <2>1. FirstCol + col \in PartCols
    BY DEF TypeOK, InstOK, Cols, RelCols, FirstCol, PartCols
  <2> QED BY <2>1, PartColsOK DEF TypeOK
<1>5. CASE gen # "AIE"
  <2>1. MlGrants
    BY <1>1, <1>5 DEF Grants
  <2>2. ASSUME NEW row \in AskedRows(col) \ {0} PROVE Clocked(FirstCol + col, row)
    <3>1. PICK t \in Named(call.arg.tiles) : t[1] = col /\ t[2] # 0
      BY <1>3
    <3>2. Promises(ColOn(t), On("tile", t), BadOn)
      BY <2>1, <3>1 DEF MlGrants
    <3>3. ColOn(t)
      BY <1>2, <3>2
    <3> QED BY <1>5, <3>1, <3>3 DEF ColOn, Clocked
  <2>3. OnlyAsked
    <3> DEFINE good == On("clk", FALSE)
    <3>1. Promises(OnlyAsked, good, BadOnly)
      BY <2>1 DEF MlGrants
    <3> HIDE DEF good
    <3> QED BY <1>2, <3>1
  <2>4. hw.clk[FirstCol + col] => Asked(col)
    <3>1. hw.clk[FirstCol + col] # FALSE => Asked(col)
      BY <2>3 DEF OnlyAsked
    <3>2. hw.clk[FirstCol + col] => hw.clk[FirstCol + col] # FALSE
      OBVIOUS
    <3> QED BY <3>1, <3>2
  <2> QED BY <1>5, <2>2, <2>4
<1>6. CASE gen = "AIE"
  <2>1. AieGrants
    BY <1>1, <1>6 DEF Grants
  <2>2. Fits
    BY <1>2, <2>1 DEF AieGrants
  <2>3. ASSUME NEW row \in AskedRows(col) \ {0} PROVE Clocked(FirstCol + col, row)
    <3>1. PICK t \in Named(call.arg.tiles) : t[1] = col /\ t[2] = row /\ t[2] # 0
      BY <1>3
    <3>2. Promises(RowUsed(t), On("tile", t), BadRow)
      BY <2>1, <3>1 DEF AieGrants
    <3>3. row \in 1..(NumRows - 1) /\ TileBit(col, row) \in used
      <4>1. RowUsed(t)
        BY <1>2, <3>2
      <4> QED BY <3>1, <4>1 DEF RowUsed
    <3> DEFINE top == Uppermost(used, col)
    <3>4. row <= top /\ top \in 0..(NumRows - 1) /\ TopInUse(col) = top
      BY <3>3, UppermostIs DEF TopInUse, Uppermost
    <3>5. top # 0
      BY <3>3, <3>4, SizesOK
    <3>6. hw.clk[FirstCol + col] /\ 1..(TopInUse(col) - 1) \subseteq hw.up[FirstCol + col]
      BY <1>6, <2>2, <3>4, <3>5 DEF Fits, InStep
    <3> HIDE DEF top
    <3>7. \A r \in 1..(row - 1) : r \in hw.up[FirstCol + col]
      <4>1. 1..(row - 1) \subseteq 1..(TopInUse(col) - 1)
        BY <3>3, <3>4, SizesOK
      <4> QED BY <3>6, <4>1
    <3> QED BY <3>6, <3>7 DEF Clocked
  <2> QED BY <1>6, <2>3
<1> QED BY <1>5, <1>6

----------------------------------------------------------------------------
(* Theorem.                                                                 *)

PromisesInv == IInv /\ SetUpInv /\ QuietHw /\ GrantInv

LEMMA PromisesInvariant == Spec => []PromisesInv
<1>1. Init => SetUpInv /\ QuietHw /\ GrantInv
  BY InitPromises, GrantsFirst
<1>2. IInv /\ SetUpInv /\ QuietHw /\ GrantInv /\ [Next]_vars => (SetUpInv /\ QuietHw /\ GrantInv)'
  BY SetUpKept, QuietKept, GrantKept DEF IInv
<1> QED BY <1>1, <1>2, Invariant, PTL DEF Spec, PromisesInv

\* Initialization, teardown and tile requests that report success, with no access
\* lost unnoticed, did what they are for: resets released, borders isolated,
\* interrupts routed, memories zero, nothing left on behind a teardown, every tile
\* of a request clocked and, but on AIE, no column on that was not asked for.
THEOREM CallsKeepTheirPromiseHolds == Spec => []CallsKeepTheirPromise
<1>1. PromisesInv => CallsKeepTheirPromise
  BY Promised, Granted DEF PromisesInv, IInv, CallsKeepTheirPromise
<1> QED BY <1>1, PromisesInvariant, PTL

=============================================================================
