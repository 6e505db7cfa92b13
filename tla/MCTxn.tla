-------------------------------- MODULE MCTxn --------------------------------
(* Instances of Txn for TLC.                                                 *)
EXTENDS Txn, TLC

CONSTANTS t1, t2    \* the threads

(* Backends whose GetTid is pthread_self: one id per thread.                 *)
UniqueTid == [t \in Threads |-> t]

(* Run `order': the one thread makes every call whose execution is not       *)
(* refused.                                                                  *)
OrderCalls ==
    [t \in Threads |->
       {"Cfg", "Start", "Write32", "MaskWrite32", "MaskPoll", "BlockWrite32",
        "BlockSet32", "Read32", "RunOp", "RequestOp", "PayloadOp", "Submit",
        "Clear", "Finish"}]

(* Run `threads': t1 buffers payloads, submits, exports and discards; t2     *)
(* uses and frees what t1 exports, beside a transaction of its own with      *)
(* commands the executor refuses.                                            *)
ThreadsCalls ==
    (t1 :> {"Start", "BlockWrite32", "AddOp", "Submit", "Export", "Clear", "Finish"})
    @@ (t2 :> {"Start", "ControlOp", "PmLoad", "Submit", "Free"})

(* Instance addresses and payload addresses are interchangeable.             *)
Symmetry == Permutations(Insts) \cup Permutations(Payloads)

(* Run `threads' reads no `out', nor does a guard: states that differ in it  *)
(* alone behave alike.                                                       *)
WithoutOut == <<TxnList, inst, heap, fl, arraySize, pmActive, ready, fault, issued>>
=============================================================================
