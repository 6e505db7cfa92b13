---------------------------- MODULE MCPartition ----------------------------
(* Instances of Partition for TLC. *)
EXTENDS Partition

AllGens == {"AIE", "AIEML", "AIE2PS", "AIE4"}
MlOnly == {"AIEML"}
Part(start, cols) == [start |-> start, cols |-> cols]
TwoParts == {Part(0, 2), Part(2, 1)}

Opt(flags, inter, app, tiles) == [flags |-> flags, inter |-> inter, app |-> app, tiles |-> tiles]
AllFlags == {"COLUMN_RST", "SHIM_RST", "BLOCK_NOCAXIMMERR", "ISOLATE", "ZEROIZEMEM",
             "UC_MEM_PRIV", "L2_SPLIT"}
Opts == {Opt(AllFlags, 1, "single", <<>>),
         Opt({"COLUMN_RST", "SHIM_RST"}, 0, "single", <<<<0, 2>>>>),
         Opt({"SHIM_RST"}, 1, "single", <<<<0, 2>>>>),
         Opt({"ISOLATE"}, 2, "single", <<<<3, 1>>>>),
         Opt({"L2_SPLIT"}, 0, "A", <<<<0, 0>>, <<0, 1>>, <<0, 2>>>>)}
Reqs == {All, <<<<0, 1>>>>, <<<<0, 2>>>>, <<<<0, 0>>, <<0, 3>>>>, <<<<1, 1>>, <<0, 3>>, <<1, 3>>>>}
ColReqs == {[start |-> 1, cols |-> 1, enable |-> TRUE], [start |-> 0, cols |-> 2, enable |-> FALSE]}
AllCalls == {"init", "soft", "teardown", "request", "columns", "reset", "clear", "interloc", "axi"}
=============================================================================
