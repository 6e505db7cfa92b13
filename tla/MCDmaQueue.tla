------------------------------ MODULE MCDmaQueue ------------------------------
(* The layouts of channels: a tile of AIE-ML differs from its shim tile in  *)
(* the base of its status registers alone, the generations between AIE-ML   *)
(* and AIE2PS have the channels of AIE-ML, the variants of AIE4 those of    *)
(* AIE4, and a tile of AIE4 has no second half.                             *)
EXTENDS DmaQueue

MCPlatforms ==
  ({<<"AIE", "TILE">>, <<"AIE", "SHIM">>, <<"AIEML", "SHIM">>, <<"AIEML", "MEM">>,
    <<"AIE4", "TILE">>, <<"AIE4", "SHIM">>, <<"AIE4", "MEM">>} \X {"single"})
  \cup {<<<<"AIE4", "SHIM">>, "dualB">>}

\* numbers at the edges of the halves, of the pools and of the tables
Edges(n) == {n - 1, n, 2 * n - 1, 2 * n}
Channels(d) == Edges(HwCount(d)) \cup (IF IsAie4(k) /\ k[2] = "MEM" THEN {} ELSE {0})
Descriptors(d) == IF k[2] = "MEM" /\ ~IsAie4(k) THEN {23, 24, 47, 48}
                  ELSE IF PvtPool(d) THEN {PrivateMaxNumBds(d) - 1, PrivateMaxNumBds(d)}
                  ELSE Edges(M.NumBds)

\* two jobs the hardware has and that differ in one place at most, or one that
\* it has not
JobPairs ==
  LET all == UNION {{d} \X Channels(d) \X Descriptors(d) : d \in Dirs}
      good == {j \in all : HwHas(j)}
      rank(j) == 4 * (50 * j[2] + j[3]) + j[1]
      near(j1, j2) == \E n \in 1..3 : \A m \in (1..3) \ {n} : j1[m] = j2[m]
  IN {<<j1, j2>> \in good \X good : rank(j1) < rank(j2) /\ near(j1, j2)}
     \cup {<<j, j>> : j \in all \ good}

\* A program with such jobs
MCInit == on \in Platforms /\ jobs \in JobPairs /\ Init
MCSpec == MCInit /\ [][Next]_vars
=============================================================================
