------------------------------ MODULE Partition ------------------------------
(***************************************************************************)
(* Partitions of the array: the privileged operations                      *)
(* (io_backend/privilege/xaie_io_privilege.c) that set up, tear down and   *)
(* clock a partition, over the NPI registers (npi/), the clock, reset and  *)
(* isolation registers of each device generation (device/, pm/) and the    *)
(* bitmap of tiles in use (common/xaie_helper.c).                          *)
(*                                                                         *)
(* A handler is a straight line of steps with early returns.  The model    *)
(* unfolds it into a plan: a sequence of steps, each with what the handler *)
(* does when the step fails.  Any access may fail (MaxFaults of them in a  *)
(* behaviour), a loop over the columns at any of them.                     *)
(***************************************************************************)
EXTENDS Integers, FiniteSetsExt, SequencesExt

CONSTANTS
    Gens,       \* device generations
    DevCols,    \* columns of the device
    NumRows,    \* rows of the device, the shim row included
    Parts,      \* partitions: records of the first column and the number
    InitOpts,   \* initialization options: [flags, inter, app, tiles]
    Requests,   \* tile requests: a sequence of locations, or All
    ColumnReqs, \* column clock requests: [start, cols, enable]
    Calls,      \* the kinds of call the client uses
    MaxCalls,   \* bound on the number of calls
    MaxFaults   \* bound on the number of failing accesses

Cols == 0..(DevCols - 1)
Rows == 0..(NumRows - 1)

\* A request names locations, or none for all the tiles.
Locations == Seq(Nat \X Nat)
All == <<<<-1, -1>>>>

\* The application modes of AIE4 and a number that is none of them.
AppModes == {"single", "A", "B", "invalid"}

ASSUME SizesOK ==
    /\ Gens \subseteq {"AIE", "AIEML", "AIE2P", "AIE2PS", "AIE4"}
    /\ {DevCols, NumRows, MaxCalls, MaxFaults} \subseteq Nat
    /\ NumRows >= 3
    /\ Parts \subseteq [start : Cols, cols : 1..DevCols]
    /\ \A p \in Parts : p.start + p.cols <= DevCols
    /\ InitOpts \subseteq [flags : SUBSET STRING, inter : Nat, app : AppModes, tiles : Locations]
    /\ Requests \subseteq Locations \cup {All}
    /\ ColumnReqs \subseteq [start : Nat, cols : Nat, enable : BOOLEAN]

VARIABLES
    gen,    \* the generation of the device
    inst,   \* the device instance: its partition and application mode
    used,   \* TilesInUse, the positions of the bits set; shared by instances
    hw,     \* the registers of the device
    call,   \* the call in progress
    faults, \* number of failed accesses so far
    calls   \* number of calls so far
vars == <<gen, inst, used, hw, call, faults, calls>>

MemTileRowStart == 1
AieTileRowStart == IF gen = "AIE" THEN 1 ELSE 2
AieTileNumRows == NumRows - AieTileRowStart
DualApp == gen = "AIE4"

\* The columns of the partition; locations are relative to the first of them.
PartCols == inst.start..(inst.start + inst.cols - 1)
FirstCol == inst.start
LastCol == inst.start + inst.cols - 1

\* GetTTypefromLoc of the shim row, in absolute columns.
ShimNocAie(c) == c % 4 \in {2, 3}
ShimNocMl(c) == c % 4 \in {2, 3}
IsShimNoc(c) == CASE gen = "AIE" -> ShimNocAie(c) [] gen = "AIEML" -> ShimNocMl(c) [] OTHER -> TRUE

----------------------------------------------------------------------------
(* The bitmap of tiles in use.                                             *)

TileBit(col, row) == (col + inst.start) * (NumRows - 1) + row - 1
Bits(first, num) == first..(first + num - 1)
ColumnBits(col) == Bits(TileBit(col, 1), NumRows - 1)
AllBits == Bits(TileBit(0, 1), (NumRows - 1) * inst.cols)
RelCols == 0..(inst.cols - 1)

\* _XAie_PmIsTileRequested: the bit is that of a partition at column 0.
IsTileRequested(col, row) == row = 0 \/ col * (NumRows - 1) + row - 1 \in used

\* _XAie_ResetInUseBitMaps of a partition: its loop runs over absolute columns,
\* to which the bit position adds the first column again, and starts one bit
\* low; a first bit of -1 wraps around and the loop is not entered.
ResetBits(part) ==
    LET low(c) == (c + part.start) * (NumRows - 1) - 1
        cleared(c) == IF low(c) < 0 THEN {} ELSE Bits(low(c), NumRows)
    IN UNION {cleared(c) : c \in part.start..(part.start + part.cols - 1)}

----------------------------------------------------------------------------
(* Registers.                                                              *)

\* A tile above the shim row is clocked by the clock buffer of its column and,
\* on AIE, by each of the tiles below it.
Clocked(c, row) ==
    hw.clk[c] /\ (gen = "AIE" => \A r \in 1..(row - 1) : r \in hw.up[c])
ColumnClocked(c) == \A r \in Rows \ {0} : Clocked(c, r)

AllUp == 1..(NumRows - 2)
NoApp == [r \in Rows |-> "none"]

\* A register with v written in the columns of cs.
Put(f, cs, v) == [c \in Cols |-> IF c \in cs THEN v ELSE f[c]]

\* What asserting the reset of a column does to the registers of its tiles.
AfterReset(h, cs) ==
    [h EXCEPT !.rst = Put(@, cs, TRUE), !.up = Put(@, cs, AllUp),
              !.iso = Put(@, cs, {}), !.inter = Put(@, cs, 0)]

\* The directions the isolation of column c blocks.
Mask(on, dir) == IF on THEN {dir} ELSE {}
EdgeDirs(c, west, east) ==
    Mask(c = FirstCol /\ west, "west") \cup Mask(c = LastCol /\ east, "east")

\* SetPartIsolationAfterRst of a column; flags is the set of the borders named,
\* or {"init"} for both.  AIE leaves the columns in between as they are when it
\* isolates both; AIE4 looks at no flag.
IsolationMl(c, flags) ==
    EdgeDirs(c, flags \cap {"init", "west"} # {}, flags \cap {"init", "east"} # {})
IsolationAie(c, flags) ==
    IF flags = {"init"} /\ c \notin {FirstCol, LastCol} THEN hw.iso[c]
    ELSE IsolationMl(c, flags)
IsolationAie4(c) ==
    IF inst.app = "single" THEN EdgeDirs(c, TRUE, TRUE) ELSE {"west", "east"}
Isolation(c, flags) ==
    CASE gen = "AIE" -> IsolationAie(c, flags)
      [] gen = "AIE4" -> IsolationAie4(c)
      [] OTHER -> IsolationMl(c, flags)

\* _XAie2PS_SetAxiMMIsolation of a column.
AxiIsolation(c, flags) ==
    EdgeDirs(c, flags \cap {"init", "west"} # {}, flags \cap {"init", "east"} # {})

\* The registers of the columns cs, one operator per writer.
NocCols(cs) == {c \in cs : IsShimNoc(c)}
ClkWritten(h, v, cs) == [h EXCEPT !.clk = Put(@, cs, v)]
RstWritten(h, v, cs) == IF v THEN AfterReset(h, cs) ELSE [h EXCEPT !.rst = Put(@, cs, FALSE)]
ShimWritten(h, v, cs) == [h EXCEPT !.shim = Put(@, cs, v)]
NsuWritten(h, v, cs) == [h EXCEPT !.nsu = Put(@, NocCols(cs), v)]
IrqWritten(h, v, cs) == [h EXCEPT !.irq = Put(@, NocCols(cs), v)]
IsoWritten(h, v, cs) ==
    [h EXCEPT !.iso = [c \in Cols |-> IF c \in cs THEN Isolation(c, v) ELSE @[c]]]
AxiWritten(h, v, cs) ==
    [h EXCEPT !.axi = [c \in Cols |-> IF c \in cs THEN AxiIsolation(c, v) ELSE @[c]]]
ZeroWritten(h, cs) == [h EXCEPT !.mem = Put(@, cs, "zero")]
UcWritten(h, v, cs) == [h EXCEPT !.uc = Put(@, cs, v)]
SplitWritten(h, v, cs) == [h EXCEPT !.split = Put(@, cs, v)]
InterWritten(h, v, cs) == [h EXCEPT !.inter = Put(@, cs, v)]

Written(h, r, v, cs) ==
    CASE r = "clk" -> ClkWritten(h, v, cs)
      [] r = "rst" -> RstWritten(h, v, cs)
      [] r = "shim" -> ShimWritten(h, v, cs)
      [] r = "nsu" -> NsuWritten(h, v, cs)
      [] r = "irq" -> IrqWritten(h, v, cs)
      [] r = "iso" -> IsoWritten(h, v, cs)
      [] r = "axi" -> AxiWritten(h, v, cs)
      [] r = "zero" -> ZeroWritten(h, cs)
      [] r = "uc" -> UcWritten(h, v, cs)
      [] r = "split" -> SplitWritten(h, v, cs)
      [] r = "inter" -> InterWritten(h, v, cs)

\* Writes to these registers reach the tiles above the shim row.
InTiles == {"iso", "zero", "split", "inter"}

\* _XAieMl_SetPartColShimReset, and _XAieMl_SetPartColClockAfterRst and
\* _XAie_SetPartColClockAfterRst when enabling.
HasShimReset == gen \in {"AIE", "AIE4"}
ClocksAfterRst == gen # "AIE"

(* Dual applications share the one column of an AIE4 partition: App A owns   *)
(* the n tiles of its request above the memory tiles.                        *)
AieTilesOf(tiles) == Len(tiles) - (1 + AieTileRowStart - MemTileRowStart)
AppAMost(tiles) == AieTilesOf(tiles) + AieTileRowStart - 1
\* The number is unsigned: too few tiles are too many.
TooManyTiles(tiles) == AieTilesOf(tiles) < 0 \/ AieTilesOf(tiles) >= AieTileNumRows

\* _XAie4_SetAppBTiles: the number of the tiles is taken from the absolute row.
AppBRows(top) ==
    LET AppBTiles == AieTileNumRows - top
    IN {top + 1} \cup {top + 1 + i : i \in 1..(AppBTiles - 1)}

\* _XAie4_SetDualAppModePrivileged of one location.
AppOf(app, tiles, row) ==
    LET top == AppAMost(tiles)
    IN CASE row < AieTileRowStart -> [app EXCEPT ![row] = "dual"]
         [] row = top -> [r \in Rows |-> IF r = top THEN "A top"
                              ELSE IF r = top + 1 THEN "B bottom"
                              ELSE IF r \in AppBRows(top) THEN "B" ELSE app[r]]
         [] row \in AieTileRowStart..(top - 1) -> [app EXCEPT ![row] = "A"]
         [] OTHER -> app

----------------------------------------------------------------------------
(* Plans.                                                                  *)

\* A step, and what the handler does when it fails: "return" an error, "close"
\* the protected registers and return it, "goOn" after closing them, or "drop"
\* the error.  "closes" is the close of a handler within a handler.
Step(do, arg, fail) == [do |-> do, arg |-> arg, fail |-> fail]
Write(r, v, fail) == Step(r, v, fail)
When(cond, steps) == IF cond THEN steps ELSE <<>>

\* The NPI register of the protected registers names the columns, but on AIE.
ProtColsAie == Cols
ProtColsMl == PartCols
Open(fail) == Step("prot", IF gen = "AIE" THEN ProtColsAie ELSE ProtColsMl, fail)
Close(fail) == Step("prot", {}, fail)
NpiShimReset(v, fail) == Step("npi", v, fail)

\* Gate, assert, ungate, release.
ColumnReset(fail) ==
    <<Write("clk", FALSE, fail), Write("rst", TRUE, fail),
      Write("clk", TRUE, fail), Write("rst", FALSE, fail)>>

\* _XAie_PrivilegeRstPartShims.
RstPartShims(fail) ==
    When(HasShimReset, <<Write("shim", TRUE, fail)>>)
    \o When(gen # "AIE4", <<NpiShimReset(TRUE, fail), NpiShimReset(FALSE, fail)>>)
    \o When(HasShimReset, <<Write("shim", FALSE, fail)>>)

\* Mutant: the clocks are not turned on again.
NoClockAfterRst(fail) == <<>>

\* SetPartColClockAfterRst(XAIE_ENABLE).
ClockAfterRst(fail) == When(ClocksAfterRst, <<Write("clk", TRUE, fail)>>)

\* RequestTiles of the generation.  AIE gates and ungates tile by tile and looks
\* at no error; the others set the clocks of whole columns.
RequestSteps(req, fail) ==
    LET tile(t) == Step("tile", t, fail)
        all == <<Step("mark", AllBits, fail)>>
    IN IF req = All
       THEN all \o (IF gen = "AIE" THEN <<Write("clk", TRUE, fail)>> ELSE ClockAfterRst(fail))
       ELSE When(gen # "AIE", <<Write("clk", FALSE, fail), Step("unmark", AllBits, fail)>>)
            \o [i \in DOMAIN req |-> tile(req[i])]

\* _XAie_PrivilegeRequestTiles; nested is for the call that ends InitPart.
RequestTiles(req, nested) ==
    LET outer == IF nested THEN "close" ELSE "return"
        inner == IF nested THEN "closes" ELSE "close"
    IN IF gen = "AIE" THEN RequestSteps(req, outer)
       ELSE <<Open(outer)>> \o RequestSteps(req, inner) \o <<Close("drop")>>

Has(o, flag) == flag \in o.flags
\* AIEML and AIE2PS are left out, AIE has no memory tile to configure.
Interleaves(o) == gen \notin {"AIE", "AIEML", "AIE2PS"} /\ o.inter # 1
HasTiles(o) == o.tiles # <<>>

\* _XAie_PrivilegeInitPart after its checks; the first lines and the rest.
InitReset(o) ==
    <<Open("return")>>
    \o When(DualApp /\ o.app # "single", <<Step("app", o.tiles, "return")>>)
    \o When(Has(o, "COLUMN_RST") /\ gen # "AIE4", ColumnReset("close"))
    \o When(Has(o, "SHIM_RST"), RstPartShims("close"))
    \o When(Has(o, "SHIM_RST") /\ gen = "AIE2PS" /\ inst.start = 0,
            <<Step("nmu", 0, "close"), Step("nmu", 1, "close")>>)
    \o When(Has(o, "BLOCK_NOCAXIMMERR"), <<Write("nsu", TRUE, "close")>>)
    \o ClockAfterRst("close")

InitSetup(o) ==
    When(Has(o, "L2_SPLIT") /\ DualApp /\ o.app # "single", <<Write("split", TRUE, "close")>>)
    \o <<Write("iso", IF Has(o, "ISOLATE") THEN {"init"} ELSE {}, "goOn")>>
    \o When(Has(o, "ZEROIZEMEM"), <<Write("zero", TRUE, "close")>>)
    \o When(Has(o, "UC_MEM_PRIV") /\ gen = "AIE4", <<Write("uc", TRUE, "close")>>)
    \o When(Interleaves(o), <<Write("inter", o.inter, "close")>>)
    \o <<Write("irq", TRUE, "return")>>
    \o When(gen = "AIE", <<Write("clk", FALSE, "close"), Step("unmark", AllBits, "close")>>)
    \o When(HasTiles(o), RequestTiles(o.tiles, TRUE))
    \o <<Close("return")>>

InitPart(o) == InitReset(o) \o InitSetup(o)

\* Mutant: the failed zeroisation returns with the registers open.
TeardownOpen ==
    <<Open("return")>> \o When(gen # "AIE4", ColumnReset("close"))
    \o RstPartShims("close") \o ClockAfterRst("close")
    \o <<Write("zero", TRUE, "return"), Write("inter", 1, "close"),
         Write("clk", FALSE, "close"), Close("return")>>

\* _XAie_PrivilegeTeardownPart; the bitmap is left as it is.
TeardownPart ==
    <<Open("return")>> \o When(gen # "AIE4", ColumnReset("close"))
    \o RstPartShims("close") \o ClockAfterRst("close")
    \o <<Write("zero", TRUE, "close"), Write("inter", 1, "close"),
         Write("clk", FALSE, "close"), Close("return")>>

\* XAie_SoftPartitionInitialize in a device partition: no borders but those of
\* the device partition.  On AIE the isolation is set with the clocks turned on
\* once more.
SoftPart(o, parent) ==
    LET flags == Mask(parent.start = FirstCol, "west")
                 \cup Mask(parent.start + parent.cols - 1 = LastCol, "east")
        iso(fail) == <<Write("iso", flags, fail)>>
    IN InitPart([o EXCEPT !.flags = @ \ {"ISOLATE"}, !.tiles = <<>>])
       \o (IF gen # "AIE" THEN iso("return")
           ELSE <<Write("clk", TRUE, "drop"), Step("mark", AllBits, "drop")>> \o iso("drop")
                \o <<Write("clk", FALSE, "last"), Step("unmark", AllBits, "drop")>>)

\* XAie_ResetPartition, of which only the clocks are looked at; the protected
\* registers it opens are those of a partition at column 0.
ResetPart ==
    LET cols == IF gen = "AIE" THEN Cols ELSE 0..(inst.cols - 1)
        open == Step("prot", cols, "drop")
        shims == IF gen = "AIE"
                 THEN <<Write("shim", TRUE, "drop"), NpiShimReset(TRUE, "drop"),
                        NpiShimReset(FALSE, "drop"), Write("shim", FALSE, "drop")>>
                 ELSE <<open, NpiShimReset(TRUE, "drop"), NpiShimReset(FALSE, "drop"), Close("drop")>>
    IN <<Write("clk", FALSE, "return"), Write("rst", TRUE, "drop"), Write("clk", TRUE, "return")>>
       \o shims \o <<open, Write("nsu", TRUE, "drop"), Close("drop"), Write("clk", FALSE, "return")>>

\* _XAie_PrivilegeSetColumnClk: only AIEML gets further.
SetColumnClk(req) ==
    When(gen # "AIE", <<Open("return")>>)
    \o (IF gen = "AIEML" THEN <<Step("columns", req, "close"), Close("drop")>>
        ELSE <<Step("unsupported", "", "return")>>)

\* _XAie_PrivilegeConfigMemInterleavingLoc and XAie_PrivilegeSetAxiMMIsolation.
InterleaveLocs(locs, mode) ==
    LET one(t) == Step("interloc", <<t, mode>>, "close")
    IN <<Open("return")>> \o [i \in DOMAIN locs |-> one(locs[i])] \o <<Close("return")>>
AxiMMIsolation(flags) ==
    <<Open("return")>> \o When(gen = "AIE2PS", <<Write("axi", flags, "return")>>)
    \o <<Close("return")>>

----------------------------------------------------------------------------
(* Calls of the client.                                                    *)

NoOpts == [flags |-> {}, inter |-> 1, app |-> "single", tiles |-> <<>>]
Idle == call.plan = <<>>

\* The bits of an AIE column agree with its clocks: the tiles below the
\* uppermost tile in use pass the clock on, and a column out of use has kept or
\* been given back its reset values.
TopInUse(col) ==
    Max({0} \cup {row \in 1..(NumRows - 1) : TileBit(col, row) \in used})
InStep(col) ==
    gen = "AIE" =>
        IF TopInUse(col) = 0 THEN hw.up[FirstCol + col] = AllUp
        ELSE /\ hw.clk[FirstCol + col]
             /\ 1..(TopInUse(col) - 1) \subseteq hw.up[FirstCol + col]

\* The protected registers are closed and the NPI is locked.
Shut == hw.prot = {} /\ hw.locked

\* The call of op with plan; "arg" is what it was called with; "fit" and "shut"
\* are what held when it was.
Begin(op, arg, plan) ==
    /\ Idle /\ calls < MaxCalls
    /\ op \in Calls
    /\ call' = [op |-> op, arg |-> arg, plan |-> plan, rc |-> "ok", lost |-> {},
                fit |-> \A col \in RelCols : InStep(col), shut |-> Shut]
    /\ calls' = calls + 1
    /\ UNCHANGED <<gen, used, hw, faults>>

Init ==
    /\ gen \in Gens
    /\ inst \in {[start |-> p.start, cols |-> p.cols, app |-> "single"] : p \in Parts}
    /\ used = {}
    /\ hw = [clk |-> [c \in Cols |-> FALSE], up |-> [c \in Cols |-> AllUp],
             rst |-> [c \in Cols |-> FALSE], shim |-> [c \in Cols |-> FALSE],
             npi |-> FALSE, iso |-> [c \in Cols |-> {}], axi |-> [c \in Cols |-> {}],
             nsu |-> [c \in Cols |-> FALSE], irq |-> [c \in Cols |-> FALSE],
             nmu |-> [c \in Cols |-> FALSE], mem |-> [c \in Cols |-> "data"],
             uc |-> [c \in Cols |-> FALSE], split |-> [c \in Cols |-> FALSE],
             inter |-> [c \in Cols |-> 0], app |-> [c \in Cols |-> NoApp],
             prot |-> {}, locked |-> TRUE]
    /\ call = [op |-> "none", arg |-> NoOpts, plan |-> <<>>, rc |-> "ok", lost |-> {},
               fit |-> TRUE, shut |-> TRUE]
    /\ faults = 0 /\ calls = 0

\* XAie_CfgInitialize of a device instance for part.
CfgInitialize(part) ==
    /\ Idle /\ <<part.start, part.cols>> # <<inst.start, inst.cols>>
    /\ calls < MaxCalls
    /\ inst' = [start |-> part.start, cols |-> part.cols, app |-> "single"]
    /\ used' = used \ ResetBits(part)
    /\ call' = [call EXCEPT !.op = "none"]
    /\ calls' = calls + 1
    /\ UNCHANGED <<gen, hw, faults>>

\* _XAie_PrivilegeInitPart: the application mode is looked at first.
BadMode(o) == DualApp /\ (o.app \in {"B", "invalid"} \/ (inst.cols # 1 /\ o.app # "single"))
Refused == <<Step("unsupported", "", "return")>>
Mode(o) == IF BadMode(o) THEN inst.app
           ELSE IF DualApp THEN (IF inst.cols = 1 THEN o.app ELSE inst.app) ELSE "single"

PartitionInitialize(o) ==
    /\ Begin("init", o, IF BadMode(o) THEN Refused ELSE InitPart(o))
    /\ inst' = [inst EXCEPT !.app = Mode(o)]

SoftPartitionInitialize(o, parent) ==
    LET soft == [o EXCEPT !.flags = @ \ {"ISOLATE"}, !.tiles = <<>>]
    IN /\ inst.start \in parent.start..(parent.start + parent.cols - 1)
       /\ LastCol <= parent.start + parent.cols - 1
       /\ Begin("soft", soft, IF BadMode(o) THEN Refused ELSE SoftPart(o, parent))
       /\ inst' = [inst EXCEPT !.app = Mode(o)]

PartitionTeardown == Begin("teardown", NoOpts, TeardownPart) /\ UNCHANGED inst

\* XAie_PmRequestTiles checks the locations; it, XAie_PmSetColumnClk and
\* XAie_ResetPartition refuse AIE4 in the default build.
InPart(t) == t[1] < inst.cols /\ t[2] < NumRows
PmRequestTiles(req) ==
    /\ gen # "AIE4"
    /\ req # All => \A i \in DOMAIN req : InPart(req[i])
    /\ Begin("request", [NoOpts EXCEPT !.tiles = req], RequestTiles(req, FALSE))
    /\ UNCHANGED inst

PmSetColumnClk(req) ==
    /\ gen # "AIE4"
    /\ req.start \in PartCols /\ req.start + req.cols - 1 <= LastCol
    \* the column written, FirstCol + req.start, is not modelled outside the device
    /\ FirstCol + req.start + req.cols - 1 < DevCols
    /\ Begin("columns", NoOpts, SetColumnClk(req))
    /\ UNCHANGED inst

ResetPartition == gen # "AIE4" /\ Begin("reset", NoOpts, ResetPart) /\ UNCHANGED inst

ClearPartitionMems ==
    Begin("clear", NoOpts, <<Step("clear", "", "drop")>>) /\ UNCHANGED inst

\* XAie_ConfigMemInterleaving refuses tiles of the other kinds.
IsMemTile(t) == t[2] \in MemTileRowStart..(AieTileRowStart - 1)
Interleaved(t) == IsMemTile(t) \/ (gen = "AIE4" /\ t[2] >= AieTileRowStart)
ConfigMemInterleavingLoc(locs, mode) ==
    /\ \A i \in DOMAIN locs : InPart(locs[i]) /\ Interleaved(locs[i])
    /\ Begin("interloc", NoOpts, InterleaveLocs(locs, mode))
    /\ UNCHANGED inst

SetAxiMMIsolation(flags) ==
    Begin("axi", NoOpts, AxiMMIsolation(flags)) /\ UNCHANGED inst

----------------------------------------------------------------------------
(* Steps of a call.                                                        *)

Now == Head(call.plan)
Doing(kinds) == ~Idle /\ Now.do \in kinds

\* The plan after the step succeeded, or failed.
Succeed == call' = [call EXCEPT !.plan = Tail(@)]
AfterFailure(plan, how) ==
    CASE how = "return" -> <<>>
      [] how = "close" -> <<Close("drop")>>
      [] how = "closes" -> <<Close("drop"), Close("drop")>>
      [] how = "goOn" -> <<Close("drop")>> \o Tail(plan)
      [] how \in {"drop", "last"} -> Tail(plan)
Fail(kinds) ==
    call' = [call EXCEPT !.plan = AfterFailure(@, Now.fail), !.lost = @ \cup kinds,
                         !.rc = IF Now.fail \in {"drop", "goOn"} THEN @ ELSE "error"]

\* An access is lost; its handler notices it, or does not.
Fault == faults < MaxFaults /\ faults' = faults + 1
Noticed == Fault /\ Fail({Now.do})
Unnoticed == Fault /\ call' = [call EXCEPT !.plan = Tail(@), !.lost = @ \cup {Now.do}]

\* _XAie_NpiSetProtectedRegEnable and _XAie_NpiWritePcsr under _XAie_NpiSetLock:
\* the unlock, the write, the poll or the lock that follows may be lost.
NpiSetLock(h, lock) == [h EXCEPT !.locked = lock]
NpiStep(done) ==
    /\ \/ Succeed /\ hw' = NpiSetLock(done, TRUE) /\ UNCHANGED faults
       \/ Noticed /\ hw' \in {NpiSetLock(hw, FALSE), NpiSetLock(done, TRUE)}
       \/ Unnoticed /\ hw' \in {NpiSetLock(done, FALSE), NpiSetLock(hw, TRUE)}
    /\ UNCHANGED <<gen, inst, used, calls>>
ShimResetStep == Doing({"npi"}) /\ NpiStep([hw EXCEPT !.npi = Now.arg])

\* Of the write of the protected registers alone the error is looked at.
ProtStep ==
    /\ Doing({"prot"})
    /\ \/ NpiStep([hw EXCEPT !.prot = Now.arg])
       \/ Noticed /\ hw' = NpiSetLock(hw, TRUE) /\ UNCHANGED <<gen, inst, used, calls>>

\* Mutant: the loop runs one column too far.
ColumnLoopTooFar == FirstCol..(LastCol + 1)

\* _XAie_PrivilegeConfigMemInterleaving refuses modes above 1, or for the memory
\* tiles of AIE4 above 2, when it comes to the first tile of the kind: there mode
\* 2 is written to the memory tile of the first column.
ModeRefused == Now.do = "inter" /\ Now.arg > 1
SkewWritten(h) == IF gen = "AIE4" /\ Now.arg = 2 THEN InterWritten(h, 2, {FirstCol}) ELSE h
InterRefused ==
    /\ Doing({"inter"}) /\ ModeRefused
    /\ Fail({"inter"}) /\ hw' = SkewWritten(hw)
    /\ UNCHANGED <<gen, inst, used, faults, calls>>

\* A loop over the columns; a lost access ends it after k of them.
ColumnLoop == FirstCol..LastCol
PerColumn == {"clk", "rst", "shim", "nsu", "iso", "axi", "zero", "uc", "split", "inter", "irq"}
ColumnsStep ==
    /\ Doing(PerColumn) /\ ~ModeRefused
    /\ \/ Succeed /\ hw' = Written(hw, Now.do, Now.arg, ColumnLoop) /\ UNCHANGED faults
       \/ /\ Noticed
          /\ \E k \in 0..(inst.cols - 1) :
                hw' = Written(hw, Now.do, Now.arg, FirstCol..(FirstCol + k - 1))
    /\ UNCHANGED <<gen, inst, used, calls>>

\* The NMU switches of columns 0 and 1: a tile type outside of the partition is
\* an error whatever happens.
NmuStep ==
    /\ Doing({"nmu"})
    /\ \/ Now.arg < inst.cols /\ Succeed /\ hw' = [hw EXCEPT !.nmu[Now.arg] = TRUE]
          /\ UNCHANGED faults
       \/ Now.arg >= inst.cols /\ Fail({}) /\ UNCHANGED <<hw, faults>>
       \/ Noticed /\ UNCHANGED hw
    /\ UNCHANGED <<gen, inst, used, calls>>

\* _XAie4_SetDualAppModePrivileged: location by location, the number of tiles
\* being looked at with the first tile above the memory tiles.
AppStep ==
    LET tiles == Now.arg
        checked == {i \in DOMAIN tiles : tiles[i][2] >= AieTileRowStart}
        bad == tiles = <<>> \/ (checked # {} /\ TooManyTiles(tiles))
        most == IF bad /\ checked # {} THEN Min(checked) - 1 ELSE Len(tiles)
        written(k) == [hw EXCEPT !.app[FirstCol] =
                          FoldLeft(LAMBDA app, row : AppOf(app, tiles, row), @, [i \in 1..k |-> tiles[i][2]])]
    IN /\ Doing({"app"})
       /\ \/ bad /\ Fail({"app"}) /\ hw' = written(most) /\ UNCHANGED faults
          \/ ~bad /\ Succeed /\ hw' = written(most) /\ UNCHANGED faults
          \/ Noticed /\ \E k \in 0..(most - 1) : hw' = written(k)
       /\ UNCHANGED <<gen, inst, used, calls>>

Mark ==
    /\ Doing({"mark"})
    /\ used' = used \cup Now.arg
    /\ Succeed /\ UNCHANGED <<gen, inst, hw, faults, calls>>
Unmark ==
    /\ Doing({"unmark"})
    /\ used' = used \ Now.arg
    /\ Succeed /\ UNCHANGED <<gen, inst, hw, faults, calls>>

\* Mutant: gating ends one row too low.
AieClocksLow(h, c, row, top) ==
    IF top = 0 THEN [h EXCEPT !.clk[c] = TRUE, !.up[c] = @ \ ((row - 1)..(NumRows - 2))]
    ELSE [h EXCEPT !.up[c] = @ \cup top..(row - 1)]

\* One location of _XAie_RequestTiles: the rows up to it are ungated from the
\* uppermost tile in use, or the column is turned on and the rows above gated.
AieClocks(h, c, row, top) ==
    IF top = 0 THEN [h EXCEPT !.clk[c] = TRUE, !.up[c] = @ \ (row..(NumRows - 2))]
    ELSE [h EXCEPT !.up[c] = @ \cup top..(row - 1)]

AieTileStep ==
    LET col == Now.arg[1]
        row == Now.arg[2]
        c == FirstCol + col
        asked == AieClocks(hw, c, row, TopInUse(col))
    IN /\ gen = "AIE" /\ Doing({"tile"}) /\ InPart(Now.arg)
       /\ IF row = 0 THEN Succeed /\ UNCHANGED <<used, hw, faults>>
          ELSE /\ used' = used \cup Bits(TileBit(col, 1), row)
               /\ \/ Succeed /\ hw' = asked /\ UNCHANGED faults
                  \/ /\ Unnoticed
                     /\ \/ hw' = [asked EXCEPT !.clk[c] = hw.clk[c]]
                        \/ \E r \in AllUp : hw' = [asked EXCEPT !.up[c] =
                              IF r \in hw.up[c] THEN @ \cup {r} ELSE @ \ {r}]
       /\ UNCHANGED <<gen, inst, calls>>

\* One location of _XAieMl_RequestTiles; _XAie4_RequestTiles does not skip the
\* shim row.
ColumnRequest(skip) ==
    LET col == Now.arg[1]
    IN /\ \/ skip /\ Succeed /\ UNCHANGED <<used, hw, faults>>
          \/ /\ ~skip /\ Succeed /\ UNCHANGED faults
             /\ hw' = [hw EXCEPT !.clk[FirstCol + col] = TRUE]
             /\ used' = used \cup ColumnBits(col)
          \/ ~skip /\ Noticed /\ UNCHANGED <<used, hw>>
       /\ UNCHANGED <<gen, inst, calls>>

MlTileStep ==
    /\ gen \notin {"AIE", "AIE4"} /\ Doing({"tile"}) /\ InPart(Now.arg)
    /\ ColumnRequest(Now.arg[2] = 0 \/ TileBit(Now.arg[1], 1) \in used)
Aie4TileStep ==
    /\ gen = "AIE4" /\ Doing({"tile"}) /\ InPart(Now.arg)
    /\ ColumnRequest(TileBit(Now.arg[1], 1) \in used)

InvalidTile ==
    /\ Doing({"tile"}) /\ ~InPart(Now.arg)
    /\ Fail({}) /\ UNCHANGED <<gen, inst, used, hw, faults, calls>>

\* _XAieMl_SetColumnClk: the columns are absolute in the checks and relative in
\* the accesses; as many bits as the number of the last one are set or cleared,
\* but for a first bit of -1, which wraps around and the loop is not entered.
ColumnClkStep ==
    LET req == Now.arg
        c == FirstCol + req.start
        low == TileBit(req.start, 0)
        bits == IF low < 0 THEN {} ELSE Bits(low, TileBit(req.start + req.cols, 0))
    IN /\ Doing({"columns"})
       /\ \/ /\ Succeed /\ UNCHANGED faults
             /\ hw' = ClkWritten(hw, req.enable, c..(c + req.cols - 1))
             /\ used' = IF req.enable THEN used \cup bits ELSE used \ bits
          \/ /\ Noticed /\ UNCHANGED used
             /\ \E k \in 0..(req.cols - 1) :
                   hw' = ClkWritten(hw, req.enable, c..(c + k - 1))
       /\ UNCHANGED <<gen, inst, calls>>

\* On AIE4 the modes of the two kinds of tile differ.
InterlocStep ==
    LET tile == Now.arg[1]
        mode == Now.arg[2]
        most == IF gen = "AIE4" /\ IsMemTile(tile) THEN 2 ELSE 1
    IN /\ Doing({"interloc"})
       /\ \/ mode > most /\ Fail({}) /\ UNCHANGED <<hw, faults>>
          \/ mode <= most /\ Succeed /\ UNCHANGED faults
             /\ hw' = IF IsMemTile(tile) THEN [hw EXCEPT !.inter[FirstCol + tile[1]] = mode] ELSE hw
          \/ mode <= most /\ Noticed /\ UNCHANGED hw
       /\ UNCHANGED <<gen, inst, used, calls>>

\* XAie_ClearPartitionMems, which reports nothing; a column counts as cleared
\* when its requested tiles are.
Cleared(col) == \A row \in Rows : TileBit(col, row) \in used => IsTileRequested(col, row)
ClearStep ==
    /\ Doing({"clear"})
    /\ hw' = [hw EXCEPT !.mem = [c \in Cols |->
                 IF c \in PartCols /\ TopInUse(c - FirstCol) # 0 /\ Cleared(c - FirstCol)
                 THEN "zero" ELSE @[c]]]
    /\ Succeed /\ UNCHANGED <<gen, inst, used, faults, calls>>

Unsupported ==
    /\ Doing({"unsupported"})
    /\ Fail({"unsupported"}) /\ UNCHANGED <<gen, inst, used, hw, faults, calls>>

\* External: a program runs in the tiles that are clocked.
Run ==
    /\ Idle
    /\ \E c \in PartCols : hw.clk[c] /\ hw.mem[c] # "data"
    /\ hw' = [hw EXCEPT !.mem = [c \in Cols |->
                  IF c \in PartCols /\ hw.clk[c] THEN "data" ELSE @[c]]]
    /\ call' = [call EXCEPT !.op = "none"]
    /\ UNCHANGED <<gen, inst, used, faults, calls>>

Client ==
    \/ \E part \in Parts : CfgInitialize(part)
    \/ \E o \in InitOpts : PartitionInitialize(o)
    \/ \E o \in InitOpts, parent \in Parts : SoftPartitionInitialize(o, parent)
    \/ PartitionTeardown
    \/ \E req \in Requests : PmRequestTiles(req)
    \/ \E req \in ColumnReqs : PmSetColumnClk(req)
    \/ ResetPartition
    \/ ClearPartitionMems
    \/ \E req \in Requests, mode \in {0, 2} : req # All /\ ConfigMemInterleavingLoc(req, mode)
    \/ \E flags \in {{}, {"init"}, {"west"}} : SetAxiMMIsolation(flags)

Next ==
    \/ Client \/ Run
    \/ ProtStep \/ ShimResetStep \/ ColumnsStep \/ InterRefused \/ NmuStep \/ AppStep
    \/ Mark \/ Unmark \/ AieTileStep \/ MlTileStep \/ Aie4TileStep \/ InvalidTile
    \/ ColumnClkStep \/ InterlocStep \/ ClearStep \/ Unsupported

Spec == Init /\ [][Next]_vars

----------------------------------------------------------------------------
(* Properties.                                                             *)

\* A call of op came to its end without an error.
Ended(ops) == Idle /\ call.op \in ops /\ call.rc = "ok"
Clean == call.lost = {}
HasFlag(flag) == flag \in call.arg.flags
BorderSet(dirs, c) == ("west" \in dirs <=> c = FirstCol) /\ ("east" \in dirs <=> c = LastCol)

\* However a call ends, and wherever it failed, the protected registers are
\* closed and the NPI is locked behind it: the error paths of InitPart,
\* RequestTiles and Teardown close once for every time they opened.  Left out
\* are the paths that return as they are: the NPI itself, the L2 interrupt, the
\* application mode, AXI-MM isolation and the unsupported column clock.
LeftOpen == {"prot", "npi", "irq", "app", "axi", "unsupported"}
ClosedAtReturn == Idle /\ call.shut /\ call.lost \cap LeftOpen = {} => Shut

\* The rows above the shim row the next step touches, in every column.
TouchedRows ==
    CASE Now.do \in {"iso", "zero"} -> Rows \ {0}
      [] Now.do = "split" -> MemTileRowStart..(AieTileRowStart - 1)
      [] Now.do = "inter" ->
            IF gen = "AIE4" THEN Rows \ {0} ELSE MemTileRowStart..(AieTileRowStart - 1)

\* No handler touches a tile of a gated column: isolation, zeroisation and the
\* memory modes come after the clocks are turned on and before they are turned
\* off.  AIE counts on the clocks its column reset leaves behind, so its
\* initialization is asked for with one.
NoGatedAccess ==
    Doing(InTiles) /\ Clean
        /\ (gen = "AIE" /\ call.op \in {"init", "soft"} => HasFlag("COLUMN_RST"))
    => \A c \in PartCols, row \in TouchedRows : Clocked(c, row)

\* What a successful initialization promises of every column: resets released,
\* the partition's borders and nothing else isolated when that is asked, the NoC
\* errors blocked and the interrupts routed, memories zero, clocks on.
AsPromised ==
    Ended({"init"}) /\ Clean => \A c \in PartCols :
        /\ HasFlag("COLUMN_RST") /\ gen # "AIE4" => ~hw.rst[c]
        /\ HasFlag("SHIM_RST") => ~hw.shim[c] /\ ~hw.npi
        /\ HasFlag("ISOLATE") /\ HasFlag("COLUMN_RST") /\ inst.app = "single"
           => BorderSet(hw.iso[c], c)
        /\ HasFlag("BLOCK_NOCAXIMMERR") /\ IsShimNoc(c) => hw.nsu[c]
        /\ IsShimNoc(c) => hw.irq[c]
        /\ HasFlag("ZEROIZEMEM") => hw.mem[c] = "zero"
        /\ gen # "AIE" /\ call.arg.tiles = <<>> => ColumnClocked(c)
        /\ gen = "AIE2PS" /\ HasFlag("SHIM_RST") /\ FirstCol = 0 /\ c < 2 => hw.nmu[c]

\* After a successful teardown nothing of the partition is left: no clock, no
\* reset, no data, and no isolation but on AIE4, which has no column reset.
TornDown ==
    Ended({"teardown"}) /\ Clean => \A c \in PartCols :
        /\ ~hw.clk[c] /\ ~hw.rst[c] /\ ~hw.shim[c] /\ hw.mem[c] = "zero"
        /\ gen # "AIE4" => hw.iso[c] = {}

\* After a successful request every tile of it is clocked, whatever was requested
\* before; but for AIE no column is on that was not asked for.  AIE trusts the
\* bitmap about its clocks: a request counts on the two agreeing when the call
\* began, an initialization on its column reset, for it clears the bitmap and
\* gates the columns but leaves gated the tiles that were.
Asked(col) == \E i \in DOMAIN call.arg.tiles : call.arg.tiles[i][1] = col
AskedRows(col) == {call.arg.tiles[i][2] : i \in {j \in DOMAIN call.arg.tiles :
                                                    call.arg.tiles[j][1] = col}}
RequestGranted ==
    Ended({"init", "request"}) /\ Clean /\ call.arg.tiles \notin {All, <<>>}
        /\ (gen = "AIE" => IF call.op = "init" THEN HasFlag("COLUMN_RST") ELSE call.fit)
    => \A col \in RelCols :
        /\ \A row \in AskedRows(col) \ {0} : Clocked(FirstCol + col, row)
        /\ gen # "AIE" => (hw.clk[FirstCol + col] => Asked(col))

\* Initialization, tile requests and teardown that report success did what they are for.
CallsKeepTheirPromise == AsPromised /\ TornDown /\ RequestGranted

\* A step changes nothing outside of the partition but the global NPI registers.
\* XAie_PmSetColumnClk, which takes absolute columns for relative ones, does.
ColumnRegs == {"clk", "up", "rst", "shim", "iso", "axi", "nsu", "irq", "nmu", "mem", "uc",
               "split", "inter", "app"}
Others == [r \in ColumnRegs |-> [c \in Cols \ PartCols |-> hw[r][c]]]
OthersUntouched == [][call.op # "columns" => (inst' = inst => Others' = Others)]_vars

\* A failing access is reported by the call that made it: "@return XAIE_OK on
\* success, error code on failure".  A failed isolation is not.
FailureReported == Ended({"init", "teardown"}) => call.lost \subseteq {"prot", "npi", "tile"}

=============================================================================
