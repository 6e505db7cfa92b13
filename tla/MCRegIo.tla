------------------------------- MODULE MCRegIo -------------------------------
(* Instances of RegIo for TLC.                                               *)
EXTENDS RegIo, TLC

(* Addresses of arrays and threads are interchangeable.                      *)
Symmetry == Permutations(Arrays) \cup Permutations(Threads)
=============================================================================
