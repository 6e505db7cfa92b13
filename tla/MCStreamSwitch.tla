---------------------------- MODULE MCStreamSwitch ----------------------------
(* Instances of StreamSwitch for TLC. *)
EXTENDS StreamSwitch

\* One device of each way to number and to address ports: legacy without and with arbiters,
\* with its own tables, and the two of AIE4. The other two share the tables of AIEML.
Programmed == {"AIE", "AIEML", "AIE2PS", "AIE4", "AIE4MDS"}
=============================================================================
