----------------------------- MODULE MCNetwork -----------------------------
(* Instances of Network for TLC. *)
EXTENDS Network

Inst(gen, mem, aie, up, calls) ==
    [gen |-> gen, cols |-> Len(up), calls |-> calls, mem |-> mem, aie |-> aie, up |-> [c \in 0..(Len(up) - 1) |-> up[c + 1]]]

\* Six columns have a NoC tile with one to the right of it, one without, and
\* columns on either side of both.
Wide == {Inst("AIE", 0, 2, <<2, 2, 2, 2, 2, 2>>, 2),
         Inst("AIE", 0, 2, <<1, 2, 0, 2, 1, 2>>, 2),
         Inst("AIEML", 1, 1, <<2, 2, 2, 2, 2>>, 2),
         Inst("AIEML", 1, 1, <<2, 2, 2, 2, 2, 2, 2>>, 2),
         Inst("AIEML", 1, 1, <<2, 0, 2, 2, 0, 0, 2>>, 2),
         Inst("AIE2IPU", 1, 1, <<2, 2, 2, 2, 2>>, 2),
         Inst("AIE2P", 1, 1, <<2, 2, 2, 2>>, 2),
         Inst("AIE4", 1, 1, <<2, 2, 2>>, 2),
         Inst("AIE2PS", 1, 1, <<2, 0, 2>>, 2)}
Narrow == {Inst("AIE", 0, 3, <<3, 3>>, 3),
           Inst("AIEML", 1, 1, <<2, 2>>, 3),
           Inst("AIE4", 1, 1, <<2, 2>>, 3)}

\* Straight and bent paths through shim, memory and core tiles.
Routed == {<<<<0, 0>>, <<0, 1>>, <<0, 2>>>>, <<<<0, 1>>, <<1, 1>>, <<1, 0>>>>,
           <<<<1, 2>>, <<0, 2>>, <<0, 1>>>>, <<<<0, 0>>, <<1, 0>>>>}
All == Wide \cup Narrow
=============================================================================
