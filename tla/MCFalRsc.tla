----------------------------- MODULE MCFalRsc -----------------------------
(***************************************************************************)
(* Instances of FalRsc for TLC: two AIE tiles and two shim tiles, words of *)
(* eight bits.                                                             *)
(***************************************************************************)
EXTENDS FalRsc

MCSites == {"m0", "c0", "m1", "c1", "s0", "s1"}
MCSite ==
    [s \in MCSites |->
        CASE s = "m0" -> [type |-> "aie", module |-> "mem", index |-> 0]
          [] s = "c0" -> [type |-> "aie", module |-> "core", index |-> 0]
          [] s = "m1" -> [type |-> "aie", module |-> "mem", index |-> 1]
          [] s = "c1" -> [type |-> "aie", module |-> "core", index |-> 1]
          [] s = "s0" -> [type |-> "shim", module |-> "pl", index |-> 0]
          [] s = "s1" -> [type |-> "shim", module |-> "pl", index |-> 1]]
MCTiles == [aie |-> 2, shim |-> 2, memtile |-> 0]

(* Four broadcast channels for each module; each other type of resource in *)
(* the modules where the clients below ask for it.                         *)
SameNumbers ==
    [g \in {"aie", "memtile", "shim"} \X {"mem", "core", "pl"} \X
           {"pc", "user", "combo", "port", "group", "broadcast", "perf", "trace"} |->
        CASE g[3] = "broadcast" -> 4
          [] g[3] = "pc" -> IF g[2] = "core" THEN 4 ELSE 0
          [] g[3] = "perf" -> IF g[1] = "shim" THEN 0 ELSE IF g[2] = "core" THEN 2 ELSE 1
          [] g[3] = "combo" -> IF g[2] = "mem" THEN 4 ELSE 0
          [] g[3] = "trace" -> IF g[2] = "mem" THEN 1 ELSE 0
          [] g[3] = "user" -> IF g[2] = "mem" THEN 2 ELSE 0
          [] g[3] = "port" -> IF g[2] = "core" THEN 2 ELSE 0
          [] g[3] = "group" -> IF g[2] = "pl" THEN 2 ELSE 0]
MCPartition == <<"s0", "m0", "c0", "s1", "m1", "c1">>
MCShimSites == <<"s0", "s1">>

Single(class, site) == [class |-> class, site |-> site, size |-> 1, id |-> 0,
                        path |-> <<>>, events |-> <<>>, cross |-> FALSE, ids |-> {}]

Program(objects, protects, saves) ==
    [object |-> objects, protects |-> protects, saves |-> saves]

Of(class, site, size) == [Single(class, site) EXCEPT !.size = size]
Bc(path) == [Single("broadcast", "s0") EXCEPT !.path = path]
Counter(site, events) ==
    [Single("perf", site) EXCEPT !.events = events, !.cross = TRUE]

Prefer(x, ids) == [x EXCEPT !.ids = ids]

(* Clients that work at the same time and need the same units.             *)
MCPrograms ==
    {Program([a |-> Prefer(Single("pcevent", "c0"), {4}), b |-> Single("pcrange", "c0")],
             FALSE, FALSE),
     Program([a |-> Of("combo", "m0", 2), b |-> Of("combo", "m0", 3), c |-> Of("combo", "m1", 3)],
             FALSE, FALSE),
     Program([a |-> Single("userevent", "m1"), b |-> Prefer(Single("port", "c1"), {0})],
             FALSE, FALSE),
     Program([a |-> Bc(<<"c1", "m1">>)], FALSE, TRUE),
     Program([a |-> Single("group", "s0"), b |-> Single("group", "s0")], FALSE, TRUE),
     Program([a |-> Prefer(Bc(<<"c0", "m0", "s0">>), {1}), b |-> Single("perf", "c0")], TRUE, FALSE),
     Program([a |-> Bc(<<>>), b |-> Prefer(Bc(<<"c0", "m0">>), {3})], FALSE, FALSE),
     Program([a |-> Counter("c0", <<"mem", "mem", "mem">>), b |-> Counter("c0", <<"core", "mem">>),
              c |-> Single("perf", "m0")], FALSE, FALSE),
     Program([a |-> Counter("c0", <<"core", "core">>), b |-> Bc(<<"c0", "m0">>),
              c |-> [Single("trace", "m0") EXCEPT !.events = <<"core", "core">>]], FALSE, FALSE)}

(* A file in which the compiler allocated the first unit of each module.   *)
MCMetadata == {[g \in Regions |-> IF RegionSize(g) > 0 THEN {0} ELSE {}]}
=============================================================================
