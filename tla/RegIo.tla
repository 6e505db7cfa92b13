------------------------------- MODULE RegIo -------------------------------
(***************************************************************************)
(* The public register accesses of xaie_helper.c and the instruction       *)
(* buffer of xaie_instbuf.c.  An access goes to one of three places: to    *)
(* transaction mode as soon as any thread has an open transaction, to the  *)
(* instruction buffer while it records, or to the device.  What a          *)
(* transaction does inside is Txn's; here it is a queue of accesses.       *)
(***************************************************************************)
EXTENDS Naturals, Sequences, FiniteSets

CONSTANTS
    Threads,        \* threads that share the device instance
    Arrays,         \* addresses of arrays of recorded operations
    NULL,
    InitialSlots,   \* XAIE_INSTBUF_INITIAL_ENTRY_COUNT
    MaxSlots,       \* XAIE_INSTBUF_MAX_ENTRY_COUNT
    StartCol,       \* first column of the partition in the array
    NumCols,        \* columns of the partition
    ColWords,       \* words of a column, 2^ColShift bytes
    Offs,           \* register offsets asked for, in words
    Sizes,          \* sizes of blocks asked for, in words
    Kinds,          \* kinds of accesses the clients make
    MaxAccesses,    \* bound on the accesses accepted
    MaxHeld,        \* bound on the exports a client holds
    AllocMayFail

Writes == {"Write32", "MaskWrite32"}
Polls == {"MaskPoll", "MaskPollBusy"}
Blocks == {"BlockWrite32", "BlockSet32"}
AllKinds == Writes \cup Polls \cup Blocks \cup {"Read32", "RunOp", "CmdWrite"}
(* The accesses that have a record in the instruction buffer.               *)
Recorded == Writes \cup {"Read32"}

ASSUME RegIoAssumption ==
    /\ InitialSlots \in Nat \ {0} /\ MaxSlots \in Nat /\ InitialSlots <= MaxSlots
    /\ StartCol \in Nat /\ NumCols \in Nat \ {0} /\ ColWords \in Nat \ {0}
    /\ Offs \subseteq Nat /\ Sizes \subseteq Nat
    /\ Kinds \subseteq AllKinds
    /\ MaxAccesses \in Nat /\ MaxHeld \in Nat
    /\ AllocMayFail \in BOOLEAN
    /\ NULL \notin Arrays

VARIABLES
    ready,      \* DevInst->IsReady
    txn,        \* thread -> its open transaction
    buf,        \* DevInst->InstBufPriv
    heap,       \* array -> its slots, none when it is not allocated
    held,       \* what exports have handed to the client and not got back
    issued,     \* number of accesses accepted
    log,        \* accesses the backend has performed
    session,    \* accesses recorded since the last start or clear
    gone        \* numbers of the accesses given up with their container

vars == <<ready, txn, buf, heap, held, issued, log, session, gone>>

NoTxn == [open |-> FALSE, auto |-> FALSE, cmds |-> <<>>]
(* InstBufPriv = NULL, and a container as calloc leaves it.                 *)
NoBuf == [made |-> FALSE, ops |-> NULL, count |-> 0, recording |-> FALSE]
EmptyBuf == [NoBuf EXCEPT !.made = TRUE]

(* The content of a slot that holds no record.                              *)
Blank == [id |-> 0, kind |-> "none", off |-> 0, size |-> 0]
Blanks(n) == [k \in 1..n |-> Blank]

Init ==
    /\ ready = TRUE
    /\ txn = [t \in Threads |-> NoTxn]
    /\ buf = NoBuf
    /\ heap = [a \in Arrays |-> <<>>]
    /\ held = {}
    /\ issued = 0
    /\ log = <<>>
    /\ session = <<>>
    /\ gone = {}

----------------------------------------------------------------------------
(* Which accesses are accepted.                                             *)

(* _XAie_ValidateRegOff: the offset lies in a column of the partition.      *)
ValidRegOff(off) == off < NumCols * ColWords

(* _XAie_ValidateBlockRegOff: the end is that of the partition's columns    *)
(* counted from the start of the array.                                     *)
ValidBlock(off, size) ==
    /\ ValidRegOff(off)
    /\ size # 0
    /\ size <= (StartCol + NumCols) * ColWords - off

(* The accesses a call of this kind may ask for and that pass the checks    *)
(* made before it is known where they go; commands and operations of the    *)
(* backend are not checked.                                                 *)
Accepted(kind) ==
    LET access(off, size) == [id |-> issued + 1, kind |-> kind, off |-> off, size |-> size] IN
    CASE kind \in Blocks ->
           {access(p[1], p[2]) : p \in {q \in Offs \X Sizes : ValidBlock(q[1], q[2])}}
      [] kind \in Recorded \cup Polls -> {access(off, 1) : off \in {o \in Offs : ValidRegOff(o)}}
      [] OTHER -> {access(0, 1)}

MayAccess == ready /\ issued < MaxAccesses

(* DevInst->TxnList.Next # NULL.                                            *)
SomeTxn == \E t \in Threads : txn[t].open

(* Mutant: a container is taken for a session.                              *)
IsRecording_AnyBuf == buf.made

(* _XAie_IsInstBufRecording.                                                *)
IsRecording == buf.made /\ buf.recording

----------------------------------------------------------------------------
(* The array of recorded operations.                                        *)

Capacity == IF buf.ops = NULL THEN 0 ELSE Len(heap[buf.ops])

Room(ops, mem) == [ops |-> ops, mem |-> mem]

(* realloc: the array grows in place or moves, its slots are kept and the   *)
(* new ones are undefined.                                                  *)
Grown(n) ==
    LET kept == IF buf.ops = NULL THEN <<>> ELSE heap[buf.ops]
        slots == kept \o Blanks(n - Len(kept))
        free == {a \in Arrays : heap[a] = <<>>}
        freed == [a \in Arrays |-> IF a = buf.ops THEN <<>> ELSE heap[a]] IN
    {Room(a, [freed EXCEPT ![a] = slots]) : a \in free \cup ({buf.ops} \ {NULL})}

(* Mutant: room for the operations there are, not for the one to come.      *)
Ensured_OneLess(min) ==
    IF Capacity >= min - 1 /\ Capacity > 0 THEN {Room(buf.ops, heap)} ELSE Grown(min)

(* _XAie_EnsureInstBufCapacity: the rooms it may leave, {} when it can only *)
(* fail, which leaves everything as it is.  Asked for one slot more than    *)
(* there are, or for the first ones, it doubles the capacity at most once.  *)
Ensured(min) ==
    IF min > MaxSlots THEN {}
    ELSE IF Capacity >= min THEN {Room(buf.ops, heap)}
    ELSE IF Capacity = 0 THEN Grown(InitialSlots)
    ELSE Grown(IF 2 * Capacity > MaxSlots THEN MaxSlots ELSE 2 * Capacity)

(* _XAie_AppendInstBuf, when it returns XAIE_OK.  One that is called while  *)
(* nothing records takes the operation and keeps no record of it.           *)
AppendInstBuf(access) ==
    IF ~buf.recording
    THEN UNCHANGED <<buf, heap, session>>
    ELSE \E r \in Ensured(buf.count + 1) :
           /\ heap' = [r.mem EXCEPT ![r.ops][buf.count + 1] = access]
           /\ buf' = [buf EXCEPT !.ops = r.ops, !.count = @ + 1]
           /\ session' = Append(session, access)

----------------------------------------------------------------------------
(* The accesses.                                                            *)

Perform(accesses) ==
    /\ log' = log \o accesses
    /\ issued' = issued + 1

(* Neither a transaction nor a session takes it: Backend->Ops.              *)
ToDevice(t) ==
    /\ MayAccess /\ ~SomeTxn
    /\ \E kind \in Kinds : \E access \in Accepted(kind) :
         /\ ~(kind \in Recorded /\ IsRecording)
         /\ Perform(<<access>>)
    /\ UNCHANGED <<ready, txn, buf, heap, held, session, gone>>

(* _XAie_Write32InstBuf, _XAie_MaskWrite32InstBuf, _XAie_Read32InstBuf.     *)
(* A call that fails for want of room changes nothing.                      *)
ToInstBuf(t) ==
    /\ MayAccess /\ ~SomeTxn /\ IsRecording
    /\ \E kind \in Kinds \cap Recorded : \E access \in Accepted(kind) :
         AppendInstBuf(access)
    /\ issued' = issued + 1
    /\ UNCHANGED <<ready, txn, held, log, gone>>

MustFlush(t) == txn[t].auto /\ txn[t].cmds # <<>>

(* The transaction's commands are flushed, if there are any, and the access *)
(* is performed: what the XAie_Txn_ functions do with it at once.           *)
NotHeldBack(t, kind) ==
    \/ ~txn[t].open /\ kind # "CmdWrite"
    \/ txn[t].open /\ kind \in Blocks /\ txn[t].auto
    \/ txn[t].open /\ kind \in Polls /\ MustFlush(t)
    \/ txn[t].open /\ kind \in {"Read32", "RunOp"} /\ (MustFlush(t) \/ txn[t].cmds = <<>>)

(* Some thread has a transaction: a thread that has none itself, or whose   *)
(* access cannot wait, has it performed, recording or not.                  *)
PastTransaction(t) ==
    /\ MayAccess /\ SomeTxn
    /\ \E kind \in Kinds : \E access \in Accepted(kind) :
         /\ NotHeldBack(t, kind)
         /\ Perform(Append(txn[t].cmds, access))
    /\ txn' = [txn EXCEPT ![t].cmds = <<>>]
    /\ UNCHANGED <<ready, buf, heap, held, session, gone>>

(* The access waits in the thread's transaction.                            *)
IntoTransaction(t) ==
    /\ MayAccess /\ txn[t].open
    /\ \E kind \in Kinds \cap (Writes \cup Polls \cup Blocks) : \E access \in Accepted(kind) :
         /\ ~NotHeldBack(t, kind)
         /\ txn' = [txn EXCEPT ![t].cmds = Append(@, access)]
    /\ issued' = issued + 1
    /\ UNCHANGED <<ready, buf, heap, held, log, session, gone>>

(* XAie_CmdWrite while some thread has a transaction: accepted, not done.   *)
IgnoredCommand(t) ==
    /\ MayAccess /\ SomeTxn
    /\ "CmdWrite" \in Kinds
    /\ issued' = issued + 1
    /\ gone' = gone \cup {issued + 1}
    /\ UNCHANGED <<ready, txn, buf, heap, held, log, session>>

----------------------------------------------------------------------------
(* Transactions, as far as they matter here.                                *)

Ids(accesses) == {accesses[k].id : k \in DOMAIN accesses}

(* XAie_StartTransaction.                                                   *)
StartTransaction(t) ==
    /\ ready /\ ~txn[t].open
    /\ \E auto \in BOOLEAN : txn' = [txn EXCEPT ![t] = [NoTxn EXCEPT !.open = TRUE, !.auto = auto]]
    /\ UNCHANGED <<ready, buf, heap, held, issued, log, session, gone>>

(* XAie_SubmitTransaction, for the thread's own.                            *)
SubmitTransaction(t) ==
    /\ ready /\ txn[t].open
    /\ log' = log \o txn[t].cmds
    /\ txn' = [txn EXCEPT ![t] = NoTxn]
    /\ UNCHANGED <<ready, buf, heap, held, issued, session, gone>>

(* XAie_ClearTransaction: the commands go, the transaction stays open.      *)
ClearTransaction(t) ==
    /\ ready /\ txn[t].open /\ txn[t].cmds # <<>>
    /\ gone' = gone \cup Ids(txn[t].cmds)
    /\ txn' = [txn EXCEPT ![t].cmds = <<>>]
    /\ UNCHANGED <<ready, buf, heap, held, issued, log, session>>

----------------------------------------------------------------------------
(* Sessions of the instruction buffer.                                      *)

GiveUpSession ==
    /\ gone' = gone \cup Ids(session)
    /\ session' = <<>>

(* XAie_StartInstBuf.                                                       *)
StartInstBuf ==
    /\ ready
    /\ \E r \in (IF buf.ops = NULL THEN Ensured(InitialSlots) ELSE {Room(buf.ops, heap)}) :
         /\ heap' = [r.mem EXCEPT ![r.ops] = Blanks(Len(@))]
         /\ buf' = [made |-> TRUE, ops |-> r.ops, count |-> 0, recording |-> TRUE]
    /\ GiveUpSession
    /\ UNCHANGED <<ready, txn, held, issued, log>>

(* XAie_StartInstBuf that finds no memory for the array: the container it   *)
(* has made stays.                                                          *)
StartInstBufFails ==
    /\ ready /\ AllocMayFail /\ buf = NoBuf
    /\ buf' = EmptyBuf
    /\ UNCHANGED <<ready, txn, heap, held, issued, log, session, gone>>

(* XAie_ClearInstBuf: what was recorded goes, the session goes on.          *)
ClearInstBuf ==
    /\ ready /\ buf.made
    /\ heap' = [a \in Arrays |-> IF a = buf.ops THEN Blanks(Len(heap[a])) ELSE heap[a]]
    /\ buf' = [buf EXCEPT !.count = 0]
    /\ GiveUpSession
    /\ UNCHANGED <<ready, txn, held, issued, log>>

Export == [ops |-> buf.ops, count |-> buf.count, session |-> session]

(* XAie_ExportInstBuf: the array is the client's, the session is over.      *)
(* Without an array it hands over NULL and zero.                            *)
ExportInstBuf ==
    /\ ready /\ buf.made /\ Cardinality(held) < MaxHeld
    /\ held' = IF buf.ops = NULL THEN held ELSE held \cup {Export}
    /\ buf' = EmptyBuf
    /\ session' = <<>>
    /\ UNCHANGED <<ready, txn, heap, issued, log, gone>>

(* XAie_FreeExportedInstBuf, by a client that frees each export once.       *)
FreeExportedInstBuf ==
    \E e \in held :
      /\ held' = held \ {e}
      /\ heap' = [heap EXCEPT ![e.ops] = <<>>]
      /\ gone' = gone \cup Ids(e.session)
      /\ UNCHANGED <<ready, txn, buf, issued, log, session>>

(* Mutant: the container is given up with the array in it.                  *)
FinishInstBuf_LoseOps == buf' = NoBuf /\ UNCHANGED heap

(* _XAie_FinishInstBuf.                                                     *)
FinishInstBuf ==
    /\ buf' = NoBuf
    /\ heap' = [a \in Arrays |-> IF a = buf.ops THEN <<>> ELSE heap[a]]

(* XAie_Finish: transactions and the instruction buffer go, unsubmitted.    *)
Finish ==
    /\ ready
    /\ ready' = FALSE
    /\ FinishInstBuf
    /\ session' = <<>>
    /\ txn' = [t \in Threads |-> NoTxn]
    /\ gone' = gone \cup Ids(session) \cup UNION {Ids(txn[t].cmds) : t \in Threads}
    /\ UNCHANGED <<held, issued, log>>

Next ==
    \/ \E t \in Threads :
         \/ ToDevice(t) \/ ToInstBuf(t) \/ PastTransaction(t) \/ IntoTransaction(t)
         \/ IgnoredCommand(t)
         \/ StartTransaction(t) \/ SubmitTransaction(t) \/ ClearTransaction(t)
    \/ StartInstBuf \/ StartInstBufFails \/ ClearInstBuf \/ ExportInstBuf
    \/ FreeExportedInstBuf \/ Finish

Spec == Init /\ [][Next]_vars

----------------------------------------------------------------------------
(* Properties.                                                              *)

Captured(a, n) == SubSeq(heap[a], 1, n)

(* Where the access with this number is.                                    *)
Places(id) ==
    LET at(name, accesses) == {<<name, k>> : k \in {j \in DOMAIN accesses : accesses[j].id = id}} IN
    at("device", log)
      \cup (UNION {at(t, txn[t].cmds) : t \in Threads})
      \cup (IF buf.ops = NULL THEN {} ELSE at(NULL, Captured(buf.ops, buf.count)))
      \cup (UNION {at(e.ops, Captured(e.ops, e.count)) : e \in held})
      \cup {<<"gone", k>> : k \in gone \cap {id}}

(* An access the driver accepted is in exactly one place: performed by the  *)
(* device, waiting in a transaction, recorded in the driver's array or in   *)
(* an exported one, or given up together with what held it.  None is lost   *)
(* between transactions, sessions and the device, and none is performed and *)
(* recorded.                                                                *)
EachAccessInOnePlace == \A id \in 1..issued : Cardinality(Places(id)) = 1

(* What records has an array, which holds what was recorded since the last  *)
(* start or clear, in order, in slots it has; an exported array holds its   *)
(* session for as long as the client keeps it, whatever is recorded         *)
(* afterwards.                                                              *)
CaptureIsTheSession ==
    /\ buf.recording => buf.ops # NULL
    /\ buf.ops # NULL => /\ buf.count <= Len(heap[buf.ops])
                         /\ Len(heap[buf.ops]) <= MaxSlots
                         /\ Captured(buf.ops, buf.count) = session
    /\ \A e \in held : Captured(e.ops, e.count) = e.session

(* An array belongs to the driver or to the client, not to both, and no     *)
(* allocated array belongs to nobody, also after a failed start and after   *)
(* the device was closed.                                                   *)
ArraysOwnedOnce ==
    LET driver == {buf.ops} \ {NULL}
        client == {e.ops : e \in held} IN
    /\ driver \cap client = {}
    /\ Cardinality(client) = Cardinality(held)
    /\ {a \in Arrays : heap[a] # <<>>} = driver \cup client
=============================================================================
