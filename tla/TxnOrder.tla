------------------------------ MODULE TxnOrder ------------------------------
(***************************************************************************)
(* What transaction mode promises to one thread: its register accesses are *)
(* numbered in the order the driver accepted them, and the backend         *)
(* performs them in that order, each once and as it was asked for.         *)
(* Accepted accesses may wait; an access performed at once overtakes none; *)
(* waiting ones may be given up together.  An exported transaction may     *)
(* replay accesses any number of times.                                    *)
(***************************************************************************)
EXTENDS Naturals

CONSTANTS Threads, Kinds

VARIABLES
    pend,       \* thread -> the accepted accesses that wait, with their numbers
    issued,     \* thread -> number of accesses accepted
    out         \* thread -> the last access performed

Performed(id, ask, did, own) == [id |-> id, ask |-> ask, did |-> did, own |-> own]

Init ==
    /\ pend = [t \in Threads |-> {}]
    /\ issued = [t \in Threads |-> 0]
    /\ out = [t \in Threads |-> Performed(0, "none", "none", TRUE)]

Accept(t, kind) ==
    /\ issued' = [issued EXCEPT ![t] = @ + 1]
    /\ pend' = [pend EXCEPT ![t] = @ \cup {[id |-> issued[t] + 1, ask |-> kind]}]
    /\ UNCHANGED out

(* The oldest access that waits is performed.                               *)
Perform(t) ==
    /\ \E a \in pend[t] :
         /\ \A b \in pend[t] : a.id <= b.id
         /\ out' = [out EXCEPT ![t] = Performed(a.id, a.ask, a.ask, TRUE)]
         /\ pend' = [pend EXCEPT ![t] = @ \ {a}]
    /\ UNCHANGED issued

PerformAtOnce(t, kind) ==
    /\ pend[t] = {}
    /\ issued' = [issued EXCEPT ![t] = @ + 1]
    /\ out' = [out EXCEPT ![t] = Performed(issued[t] + 1, kind, kind, TRUE)]
    /\ UNCHANGED pend

GiveUp(t) ==
    /\ pend' = [pend EXCEPT ![t] = {}]
    /\ UNCHANGED <<issued, out>>

(* Thread t replays an access thread u was granted.                         *)
Replay(t, u, id, kind) ==
    /\ id \in 1..issued[u]
    /\ out' = [out EXCEPT ![t] = Performed(id, kind, kind, FALSE)]
    /\ UNCHANGED <<pend, issued>>

(* Closing the device gives up everything that waits.                       *)
GiveUpAll ==
    /\ pend' = [t \in Threads |-> {}]
    /\ UNCHANGED <<issued, out>>

Next ==
    \/ GiveUpAll
    \/ \E t \in Threads :
         \/ Perform(t) \/ GiveUp(t)
         \/ \E kind \in Kinds :
              \/ Accept(t, kind) \/ PerformAtOnce(t, kind)
              \/ \E u \in Threads : \E id \in 1..issued[u] : Replay(t, u, id, kind)

Spec == Init /\ [][Next]_<<pend, issued, out>>
=============================================================================
