--------------------------- MODULE MCControlCode ---------------------------
(* Small instances of ControlCode. *)
EXTENDS ControlCode

\* Two words, and the one that is also HASH_INVALID.
MCValues == {1, 2, NoHash}
MCBlocks == {<<1>>, <<2, 1, 1>>}
=============================================================================
