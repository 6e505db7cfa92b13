------------------------------ MODULE FalPool ------------------------------
(***************************************************************************)
(* What the resource manager of the FAL promises its clients: a hardware   *)
(* unit (a performance counter of a module, a broadcast channel of a tile, *)
(* ...) is given only while it is on offer, is off offer from then on, and *)
(* comes back only through the client that has it.  A unit may be taken    *)
(* off offer for other reasons (it is allocated at compile time, or lost); *)
(* it is then nobody's.                                                    *)
(***************************************************************************)
CONSTANTS Units, Owners

VARIABLES
    owned,    \* [Owners -> SUBSET Units]: the units a client has been given
    closed    \* the units that are not on offer

vars == <<owned, closed>>

Init ==
    /\ owned = [o \in Owners |-> {}]
    /\ closed = {}

(* A client is given units; these, and maybe others, leave the offer.      *)
Take(o) ==
    /\ owned' = [owned EXCEPT ![o] = owned'[o]]
    /\ owned[o] \subseteq owned'[o]
    /\ (owned'[o] \ owned[o]) \cap closed = {}
    /\ closed \cup (owned'[o] \ owned[o]) \subseteq closed'
    /\ closed' \subseteq Units

(* A client stops using what it has; nothing else returns to the offer.    *)
Give(o) ==
    /\ owned' = [owned EXCEPT ![o] = {}]
    /\ closed' \subseteq closed
    /\ closed \ closed' \subseteq owned[o]

Next == \E o \in Owners : Take(o) \/ Give(o)

Spec == Init /\ [][Next]_vars
=============================================================================
