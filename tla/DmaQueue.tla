------------------------------- MODULE DmaQueue -------------------------------
(***************************************************************************)
(* The channels of a DMA (src/src/dma): the program writes descriptors into *)
(* the pool of a channel, pushes descriptor numbers to its task queue, sets *)
(* its control register, and reads or polls its status register, while the  *)
(* channel fetches and runs the tasks on its own.                           *)
(*                                                                          *)
(* The program names a channel <<direction, number>> and a descriptor by    *)
(* its number; the code turns both into register addresses.  An address is  *)
(* <<application space, block, offset>>: the base of a block comes from the *)
(* generated register headers, which are not in the repository, and keeps   *)
(* its name.  An AIE4 device in single-app mode shows the registers of two  *)
(* applications, so its numbers run over both; each half has channels,      *)
(* queues and pools of its own, numbered from 0.                            *)
(*                                                                          *)
(* The hardware is the second process.  Which registers belong to which     *)
(* channel is stated on its own (Hw...), from the layout the tables name.   *)
(***************************************************************************)
EXTENDS DmaKinds, Integers, Sequences

CONSTANTS Platforms,   \* the <<kind of tile, application mode>> of the device
          NumJobs,     \* how many <<direction, channel, descriptor>> the program uses
          Stalls,      \* what a channel may stall on
          MaxCalls     \* bound on the number of calls of the program

VARIABLES on,      \* <<kind of tile, application mode>>
          jobs,    \* the <<direction, channel, descriptor>> the program uses
          bds,     \* descriptor registers: address -> contents, where written
          ctl,     \* control registers: address -> fields
          queue,   \* hardware channel -> the descriptor numbers in its task queue
          run,     \* hardware channel -> what it is doing
          over,    \* hardware channels whose queue has overflowed
          stray,   \* a write reached no register of the channels
          \* the program's view, from its calls alone
          written, \* job -> contents last given to its descriptor
          sent,    \* channel -> tasks it had room for and has not finished, oldest first
          set,     \* channel -> control fields as last set for it
          room,    \* channels whose queue was waited for and not pushed to since
          poll,    \* the wait in progress
          done,    \* the last call: its name, job, result, value and the true value
          ncalls

vars == <<on, jobs, bds, ctl, queue, run, over, stray, written, sent, set, room, poll, done, ncalls>>

ASSUME PlatformsAssumption ==
  Platforms \subseteq AllKinds \X {"single", "dualA", "dualB"}
ASSUME StallsAssumption == Stalls \subseteq {"LockAcq", "LockRel", "StreamStarve", "TCT"}
ASSUME BoundsAssumption == NumJobs \in Nat \ {0} /\ MaxCalls \in Nat

k == on[1]
a == on[2]
M == Mod(k)

NONE == "none"
NoBd == [len |-> 0, adr |-> 0]   \* never written
NoPoll == [on |-> NONE, job |-> 1]
NoAnswer == [on |-> NONE, job |-> 1, rc |-> "OK", val |-> 0, truth |-> 0]

\* the directions, in the order of XAie_DmaDirection
S2MM == 0
MM2S == 1
CTRL == 2      \* DMA_MM2S_CTRL, shim of AIE4
TRACE == 3     \* DMA_S2MM_TRACE, shim of AIE4

\* the directions the hardware of a kind of tile has
Dirs == IF IsAie4(k) /\ k[2] = "SHIM" THEN {S2MM, MM2S, CTRL, TRACE} ELSE {S2MM, MM2S}

Single    == IsAie4(k) /\ a = "single"

-----------------------------------------------------------------------------
(* Limits of the calls.                                                    *)

\* _XAie_DmaTileAndChannelDirSupportsPvtBuffPoolBds
PvtPool(d) == IsAie4(k) /\ (k[2] = "MEM" \/ (k[2] = "SHIM" /\ d \in {CTRL, TRACE}))

SharedMaxNumBds == IF IsAie4(k) THEN MaxElement(k, a, M.NumBds) ELSE M.NumBds

PrivateMaxNumBds(d) ==
  IF ~IsAie4(k) \/ ~PvtPool(d) THEN 0
  ELSE IF k[2] = "MEM" THEN M.NumBds
  ELSE IF d = CTRL THEN CtrlMm2sProp.NumBds ELSE TraceS2mmProp.NumBds

\* XAie_DmaGetNumBdsGeneric
NumBdsGeneric(d) == IF PvtPool(d) THEN PrivateMaxNumBds(d) ELSE SharedMaxNumBds

\* channels of a direction, in one half of an AIE4 tile
HalfChannels(d) ==
  CASE d = S2MM -> M.NumChannels
    [] d = MM2S -> M.NumMm2sChannels
    [] d = CTRL -> CtrlMm2sProp.NumChannels
    [] d = TRACE -> TraceS2mmProp.NumChannels

\* _XAie_DmaGetMaxNumChannels
MaxNumChannels(d) ==
  IF ~IsAie4(k) THEN M.NumChannels
  ELSE IF d = TRACE THEN HalfChannels(d) ELSE MaxElement(k, a, HalfChannels(d))

\* _XAie_DmaValidateChannelNumber
ValidChannel(d, ch) ==
  /\ MaxNumChannels(d) # 0
  /\ ~(IsAie4(k) /\ k[2] = "SHIM" /\ d = TRACE /\ a = "dualB")
  /\ ch < MaxNumChannels(d)

\* DmaMod->BdChValidity
MemTileCheckBdChValidity(bd, ch) == (bd < 24) = (ch % 2 = 0)

ShimTileCheckBdChValidity(d, bd, ch) ==
  \/ d \in {CTRL, TRACE}
  \/ bd < 16 /\ ch < HalfChannels(d)
  \/ bd \in 16..31 /\ ch >= HalfChannels(d)

BdChValidity(d, bd, ch) ==
  CASE M.BdChValidity = "_XAieMl_MemTileDmaCheckBdChValidity" -> MemTileCheckBdChValidity(bd, ch)
    [] M.BdChValidity = "_XAie4_ShimTileDmaCheckBdChValidity" -> ShimTileCheckBdChValidity(d, bd, ch)
    [] OTHER -> TRUE

-----------------------------------------------------------------------------
(* Addresses, as the code computes them.                                   *)

\* the second application's half of a register space
Half(n, max) == IF n >= max THEN <<"B", n - max>> ELSE <<"A", n>>

\* descriptors every channel may use
TileBdAddr(bd) == <<"A", "BD", bd * M.IdxOffset>>

\* _XAie4_ShimDmaWriteBd
ShimBdAddr(bd) ==
  LET h == Half(bd, M.NumBds) IN <<h[1], "BD", h[2] * M.IdxOffset>>

\* _XAie4_ShimDmaWriteBdPvtBuffPool
ShimPvtBdAddr(d, ch, bd) ==
  IF d = CTRL
  THEN LET h == Half(ch, CtrlMm2sProp.NumChannels)
       IN <<h[1], "CTRLBD", (h[2] * CtrlMm2sProp.NumBds + bd) * M.IdxOffset>>
  ELSE <<"A", "TRACEBD", (ch * TraceS2mmProp.NumBds + bd) * M.IdxOffset>>

\* mutant: the halves of both directions are taken to have as many channels
MemTileBdBaseAddrOneSize(d, ch, bd) ==
  LET h == Half(ch, M.NumChannels)
  IN <<h[1], "BD", ((d * M.NumChannels + h[2]) * M.NumBds + bd) * M.IdxOffset>>

\* _XAie4_GetMemTileBdBaseAddr
MemTileBdBaseAddr(d, ch, bd) ==
  LET h == Half(ch, IF d = MM2S THEN M.NumMm2sChannels ELSE M.NumChannels)
  IN <<h[1], "BD", ((d * M.NumChannels + h[2]) * M.NumBds + bd) * M.IdxOffset>>

\* the descriptor a call of the Generic family reaches: the functions that
\* write it, patch it and read it compute the same address, each on its own
BdAddr(d, ch, bd) ==
  IF PvtPool(d)
  THEN IF k[2] = "MEM" THEN MemTileBdBaseAddr(d, ch, bd) ELSE ShimPvtBdAddr(d, ch, bd)
  ELSE IF k[2] = "SHIM" /\ IsAie4(k) THEN ShimBdAddr(bd) ELSE TileBdAddr(bd)

\* mutant: the MM2S channels of the second half are counted like its S2MM channels
Aie4ChannelCtrlAddrOneSize(d, ch) ==
  LET h == IF a = "single" THEN Half(ch, M.NumChannels) ELSE <<"A", ch>>
      block == CASE d = S2MM -> "CTRL" [] d = MM2S -> "CTRLMM2S"
                 [] d = CTRL -> "CTRLCTRL" [] d = TRACE -> "CTRLTRACE"
  IN <<h[1], block, h[2] * M.ChIdxOffset>>

\* _XAie4_DmaGetChannelCtrlAddr
Aie4ChannelCtrlAddr(d, ch) ==
  LET h == IF a = "single" THEN Half(ch, HalfChannels(d)) ELSE <<"A", ch>>
      block == CASE d = S2MM -> "CTRL" [] d = MM2S -> "CTRLMM2S"
                 [] d = CTRL -> "CTRLCTRL" [] d = TRACE -> "CTRLTRACE"
  IN <<h[1], block, h[2] * M.ChIdxOffset>>

ChannelCtrlAddr(d, ch) ==
  IF IsAie4(k) THEN Aie4ChannelCtrlAddr(d, ch)
  ELSE <<"A", "CTRL", ch * M.ChIdxOffset + d * M.ChIdxOffset * M.NumChannels>>

Plus4(addr) == <<addr[1], addr[2], addr[3] + 4>>

\* the queue register follows the control register: StartBd.Idx is 1, and
\* StartQueueBase the register after ChCtrlBase
StartQueueAddr(d, ch) == Plus4(ChannelCtrlAddr(d, ch))

\* _XAie4_DmaGetChannelStatusAddr
Aie4ChannelStatusAddr(d, ch) ==
  LET h == IF a = "single" THEN Half(ch, HalfChannels(d)) ELSE <<"A", ch>>
  IN CASE d = S2MM  -> <<h[1], "STATUS", h[2] * 4>>
       [] d = MM2S  -> <<h[1], "STATUS", M.ChStatusOffset + h[2] * 4>>
       [] d = CTRL  -> <<h[1], "STATUSCTRL", h[2] * 4>>
       [] d = TRACE -> <<h[1], "STATUSTRACE", h[2] * 4>>

\* one status register for each direction of an AIE tile, and for each channel
\* of any other
ChannelStatusAddr(d, ch) ==
  CASE IsAie(k)  -> <<"A", "STATUS", d * M.ChStatusOffset>>
    [] IsAie4(k) -> Aie4ChannelStatusAddr(d, ch)
    [] OTHER     -> <<"A", "STATUS", ch * 4 + d * M.ChStatusOffset>>

-----------------------------------------------------------------------------
(* The hardware's own layout.                                              *)

HwCount(d) == IF IsAie4(k) THEN HalfChannels(d) ELSE M.NumChannels

\* a second half is visible only in single-app mode, on the memory and shim
\* tiles, and has no trace channel; the second of two applications has none
HwChannels ==
  {h \in {"A", "B"} \X Dirs \X (0..15) :
     /\ h[3] < HwCount(h[2])
     /\ h[1] = "B" => Single /\ k[2] \in {"MEM", "SHIM"} /\ h[2] # TRACE
     /\ ~(a = "dualB" /\ h[2] = TRACE)}

HwCtrlBlock == <<"CTRL", IF IsAie4(k) THEN "CTRLMM2S" ELSE "CTRL", "CTRLCTRL", "CTRLTRACE">>
HwStatusBlock == <<"STATUS", "STATUS", "STATUSCTRL", "STATUSTRACE">>

\* control and queue registers alternate: the S2MM channels first, then the
\* MM2S channels, which AIE4 keeps in a block of their own
HwCtrl(h) ==
  <<h[1], HwCtrlBlock[h[2] + 1],
    8 * (h[3] + IF h[2] = MM2S /\ ~IsAie4(k) THEN M.NumChannels ELSE 0)>>
HwQueue(h) == Plus4(HwCtrl(h))

\* status registers: AIE packs the channels of a direction into one word
HwStatus(h) ==
  LET mm2s == CASE k[2] = "TILE" -> 16
                [] k[2] = "MEM"  -> IF IsAie4(k) THEN 48 ELSE 32
                [] k[2] = "SHIM" -> IF IsAie(k) THEN 4 ELSE IF IsAie4(k) THEN 16 ELSE 8
  IN <<h[1], HwStatusBlock[h[2] + 1],
       (IF h[2] = MM2S THEN mm2s ELSE 0) + (IF IsAie(k) THEN 0 ELSE 4 * h[3])>>

\* the numbers a channel may find in its queue, and the registers it fetches
HwPool(h) ==
  IF IsAie4(k)
  THEN CASE h[2] = CTRL -> 0..7 [] h[2] = TRACE -> 0..3 [] OTHER -> 0..15
  ELSE IF k[2] = "MEM" THEN (IF h[3] % 2 = 0 THEN 0..23 ELSE 24..47) ELSE 0..15

HwBd(h, n) ==
  LET poolOf == h[3] + (IF h[2] = MM2S THEN HwCount(S2MM) ELSE 0)
  IN CASE IsAie4(k) /\ h[2] = CTRL  -> <<h[1], "CTRLBD", (8 * h[3] + n) * M.IdxOffset>>
       [] IsAie4(k) /\ h[2] = TRACE -> <<h[1], "TRACEBD", (4 * h[3] + n) * M.IdxOffset>>
       [] IsAie4(k) /\ k[2] = "MEM" /\ h[2] \in {S2MM, MM2S} -> <<h[1], "BD", (16 * poolOf + n) * M.IdxOffset>>
       [] OTHER -> <<h[1], "BD", n * M.IdxOffset>>

\* the channel and the descriptor number a job means: the numbers of a
\* single-app device count through both halves
HwOf(c) ==
  IF Single /\ k[2] \in {"MEM", "SHIM"} /\ c[2] >= HwCount(c[1])
  THEN <<"B", c[1], c[2] - HwCount(c[1])>> ELSE <<"A", c[1], c[2]>>

-----------------------------------------------------------------------------
(* State.                                                                  *)

Job == 1..NumJobs
D(i)  == jobs[i][1]
Ch(i) == jobs[i][2]
B(i)  == jobs[i][3]

\* the channel of a job as the program names it, and those it uses
Chan(i) == <<D(i), Ch(i)>>
Chans == {Chan(i) : i \in Job}

\* two jobs are of one descriptor
SameBd(i, j) == /\ B(i) = B(j)
                /\ Chan(i) = Chan(j) \/ ~(PvtPool(D(i)) \/ PvtPool(D(j)))

\* the fields of the control register; all are zero after reset
NoCtl == [Reset |-> 0, Enable |-> 0, PauseStream |-> 0, PauseMem |-> 0, Desc |-> 0, PktType |-> 0]
Ctl(addr) == IF addr \in DOMAIN ctl THEN ctl[addr] ELSE NoCtl

Idle == [state |-> "idle", found |-> NoBd, meant |-> NoBd]

HwNumber(j) ==
  IF HwOf(<<j[1], j[2]>>)[1] = "B" /\ k[2] = "SHIM" /\ j[1] \in {S2MM, MM2S} THEN j[3] - 16 ELSE j[3]

\* the hardware has the channel of a job, and the channel its descriptor
HwHas(j) ==
  LET h == HwOf(<<j[1], j[2]>>) IN h \in HwChannels /\ HwNumber(j) \in HwPool(h)

Init ==
  /\ on \in Platforms
  /\ jobs \in [Job -> Dirs \X Nat \X Nat]
  /\ bds = <<>> /\ ctl = <<>>
  /\ queue = [h \in HwChannels |-> <<>>]
  /\ run = [h \in HwChannels |-> Idle]
  /\ over = {} /\ stray = FALSE
  /\ written = [i \in Job |-> NoBd]
  /\ sent = [c \in Chans |-> <<>>]
  /\ set = [c \in Chans |-> NoCtl]
  /\ room = {}
  /\ poll = NoPoll
  /\ done = NoAnswer
  /\ ncalls = 0

-----------------------------------------------------------------------------
(* The calls.                                                              *)

Hw == DOMAIN queue   \* HwChannels

\* one call of the program, which waits for none
Call == ncalls < MaxCalls /\ poll.on = NONE
Accept == ncalls' = ncalls + 1

\* a call that returns XAIE_OK and no value
Answer == Accept /\ done' = NoAnswer

\* a refused call returns its error and changes nothing
Refuse(rc) ==
  /\ rc # "OK" /\ done' = NoAnswer
  /\ UNCHANGED <<on, jobs, bds, ctl, queue, run, over, stray, written, sent, set, room, poll, ncalls>>

\* checks of the calls on a descriptor
BdRefusal(i) ==
  IF PvtPool(D(i)) /\ ~ValidChannel(D(i), Ch(i)) THEN "INVALID_CHANNEL_NUM"
  ELSE IF B(i) >= NumBdsGeneric(D(i)) THEN "INVALID_BD_NUM"
  ELSE "OK"

\* f after the writes of g
Override(f, g) == [x \in DOMAIN f \cup DOMAIN g |-> IF x \in DOMAIN g THEN g[x] ELSE f[x]]

\* a register write to a descriptor
PutBd(i, content) ==
  LET addr == BdAddr(D(i), Ch(i), B(i)) IN
  /\ bds' = Override(bds, [x \in {addr} |-> content])
  /\ stray' = (stray \/ ~\E h \in Hw : \E n \in HwPool(h) : HwBd(h, n) = addr)
  /\ written' = [j \in Job |-> IF SameBd(i, j) THEN content ELSE written[j]]
  /\ UNCHANGED <<on, jobs, ctl, queue, run, over, sent, set, room, poll>>

\* XAie_DmaWriteBdGeneric
WriteBd(i) ==
  /\ Call
  /\ IF BdRefusal(i) # "OK" THEN Refuse(BdRefusal(i))
     ELSE PutBd(i, [len |-> i, adr |-> i]) /\ Answer

\* XAie_DmaUpdateBdLenGeneric and XAie_DmaUpdateBdAddrGeneric, on a descriptor
\* the program has written
Found(i) == bds[BdAddr(D(i), Ch(i), B(i))]

UpdateBdLen(i) ==
  /\ Call /\ written[i] # NoBd
  /\ IF BdRefusal(i) # "OK" THEN Refuse(BdRefusal(i))
     ELSE PutBd(i, [Found(i) EXCEPT !.len = 10 + i]) /\ Answer

UpdateBdAddr(i) ==
  /\ Call /\ written[i] # NoBd
  /\ IF BdRefusal(i) # "OK" THEN Refuse(BdRefusal(i))
     ELSE PutBd(i, [Found(i) EXCEPT !.adr = 10 + i]) /\ Answer

GetBdLen(i) ==
  /\ Call /\ written[i] # NoBd
  /\ IF BdRefusal(i) # "OK" THEN Refuse(BdRefusal(i))
     ELSE /\ Accept
          /\ done' = [on |-> "GetBdLen", job |-> i, rc |-> "OK",
                      val |-> Found(i).len, truth |-> written[i].len]
          /\ UNCHANGED <<on, jobs, bds, ctl, queue, run, over, stray, written, sent, set, room, poll>>

\* checks of a push, in their order
PushRefusal(i) ==
  IF ~ValidChannel(D(i), Ch(i)) THEN "INVALID_CHANNEL_NUM"
  ELSE IF B(i) >= NumBdsGeneric(D(i)) THEN "INVALID_BD_NUM"
  ELSE IF ~BdChValidity(D(i), B(i), Ch(i)) THEN "INVALID_ARGS"
  ELSE "OK"

\* the number in the half of the channel
StartBd(i) ==
  IF Single /\ k[2] = "SHIM" /\ D(i) \in {S2MM, MM2S} /\ B(i) >= M.NumBds
  THEN B(i) - M.NumBds ELSE B(i)

Copies(n, x) == [m \in 1..n |-> x]
HwQueueMax == IF IsAie4(k) THEN 16 ELSE 4

\* n writes of a queue register: a full queue drops the task and says so
Enqueue(i, n, entry, task) ==
  LET addr == StartQueueAddr(D(i), Ch(i))
      hs == {h \in Hw : HwQueue(h) = addr}
      fits(h) == IF Len(queue[h]) + n > HwQueueMax THEN HwQueueMax - Len(queue[h]) ELSE n
      meant == HwOf(Chan(i))
  IN /\ queue' = [h \in Hw |->
                    IF h \in hs THEN queue[h] \o Copies(fits(h), entry) ELSE queue[h]]
     /\ over' = over \cup {h \in hs : fits(h) < n}
     /\ stray' = (stray \/ hs = {})
     /\ sent' = [sent EXCEPT ![Chan(i)] = @ \o Copies(IF meant \in Hw THEN fits(meant) ELSE 0, task)]
     /\ room' = room \ {Chan(i)}
     /\ UNCHANGED <<on, jobs, bds, ctl, run, written, set, poll>>

\* XAie_DmaChannelPushBdToQueue, n times in a row; a program does not push to a
\* channel it holds in reset, nor a descriptor it never wrote; one queue at most
\* overflows at a time
PushBdToQueue(i, n) ==
  /\ Call /\ set[Chan(i)].Reset = 0 /\ (n > 1 => over = {})
  /\ IF PushRefusal(i) # "OK" THEN Refuse(PushRefusal(i))
     ELSE /\ written[i] # NoBd
          /\ Enqueue(i, n, [bd |-> StartBd(i), rep |-> 0], [job |-> i, rep |-> 0])
          /\ Answer

\* XAie_DmaChannelSetStartQueueGeneric: an out-of-order task names no descriptor
SetStartQueue(i, repeat, ooo) ==
  LET rc == IF ~({"RepeatCount", "EnTokenIssue"} \subseteq M.features) THEN "FEATURE_NOT_SUPPORTED"
            ELSE IF ~ValidChannel(D(i), Ch(i)) THEN "INVALID_CHANNEL_NUM"
            ELSE IF repeat < 1 \/ repeat > M.MaxRepeatCount THEN "INVALID_ARGS"
            ELSE IF ooo THEN "OK" ELSE PushRefusal(i)
  IN /\ Call /\ set[Chan(i)].Reset = 0
     /\ IF rc # "OK" THEN Refuse(rc)
        ELSE /\ written[i] # NoBd
             /\ Enqueue(i, 1, [bd |-> IF ooo THEN 0 ELSE StartBd(i), rep |-> repeat - 1],
                        [job |-> IF ooo THEN 0 ELSE i, rep |-> repeat - 1])
             /\ Answer

\* a write of the control register: what of it is not given is kept, unless the
\* whole word is written
PutCtl(i, fields, whole) ==
  LET addr == ChannelCtrlAddr(D(i), Ch(i))
      new(old) == Override(IF whole THEN NoCtl ELSE old, fields)
  IN /\ ctl' = Override(ctl, [x \in {addr} |-> new(Ctl(addr))])
     /\ stray' = (stray \/ \A h \in Hw : HwCtrl(h) # addr)
     /\ set' = [set EXCEPT ![Chan(i)] = new(@)]

\* the channels whose control register was just written with reset asserted
ResetChannels(hs) ==
  /\ queue' = [h \in Hw |-> IF h \in hs THEN <<>> ELSE queue[h]]
  /\ run' = [h \in Hw |-> IF h \in hs THEN Idle ELSE run[h]]
  /\ over' = over \ hs

\* XAie_DmaChannelReset
ChannelReset(i, v) ==
  /\ Call
  /\ IF k[2] = "SHIM" THEN Refuse("INVALID_TILE")
     ELSE IF ~ValidChannel(D(i), Ch(i)) THEN Refuse("INVALID_CHANNEL_NUM")
     ELSE /\ PutCtl(i, [Reset |-> v], FALSE)
          /\ LET addr == ChannelCtrlAddr(D(i), Ch(i))
             IN ResetChannels({h \in Hw : v = 1 /\ HwCtrl(h) = addr})
          /\ sent' = IF v = 1 THEN [sent EXCEPT ![Chan(i)] = <<>>] ELSE sent
          /\ room' = IF v = 1 THEN room \ {Chan(i)} ELSE room
          /\ Answer
          /\ UNCHANGED <<on, jobs, bds, written, poll>>

\* XAie_DmaChannelResetAll: the MM2S and then the S2MM channels; a shim tile is
\* refused by the first
ChannelResetAll(v) ==
  LET hit == UNION {{ChannelCtrlAddr(d, ch) : ch \in 0..(MaxNumChannels(d) - 1)} : d \in {MM2S, S2MM}}
      mine(c) == ValidChannel(c[1], c[2]) /\ c[1] \in {MM2S, S2MM}
  IN /\ Call
     /\ IF k[2] = "SHIM" THEN Refuse("INVALID_TILE")
        ELSE /\ ctl' = Override(ctl, [x \in hit |-> [Ctl(x) EXCEPT !.Reset = v]])
             /\ stray' = (stray \/ ~(hit \subseteq {HwCtrl(h) : h \in Hw}))
             /\ ResetChannels({h \in Hw : v = 1 /\ HwCtrl(h) \in hit})
             /\ set' = [c \in Chans |-> IF mine(c) THEN [set[c] EXCEPT !.Reset = v] ELSE set[c]]
             /\ sent' = [c \in Chans |-> IF v = 1 /\ mine(c) THEN <<>> ELSE sent[c]]
             /\ room' = IF v = 1 THEN {} ELSE room
             /\ Answer
             /\ UNCHANGED <<on, jobs, bds, written, poll>>

CtlCall(i, rc, fields, whole) ==
  /\ Call
  /\ IF rc # "OK" THEN Refuse(rc)
     ELSE /\ PutCtl(i, fields, whole)
          /\ Answer
          /\ UNCHANGED <<on, jobs, bds, queue, run, over, written, sent, room, poll>>

ChannelRefusal(i) == IF ValidChannel(D(i), Ch(i)) THEN "OK" ELSE "INVALID_CHANNEL_NUM"

PauseRefusal(i) ==
  IF ~IsAie(k) THEN "ERR" ELSE IF k[2] # "SHIM" THEN "INVALID_TILE" ELSE ChannelRefusal(i)

\* XAie_DmaChannelPauseStream and XAie_DmaChannelPauseMem
PauseStream(i, v) == CtlCall(i, PauseRefusal(i), [PauseStream |-> v], FALSE)
PauseMem(i, v) == CtlCall(i, PauseRefusal(i), [PauseMem |-> v], FALSE)

\* XAie_DmaChannelEnable and XAie_DmaChannelDisable; only AIE has the field, and
\* the mask of AIE-ML is empty
ChannelControl(i, v) ==
  CtlCall(i, ChannelRefusal(i), IF IsAie(k) THEN [Enable |-> v] ELSE <<>>, FALSE)
Enable(i, v) ==
  IF IsAie4(k) THEN Call /\ Refuse("NOT_SUPPORTED") ELSE ChannelControl(i, v)

\* XAie_DmaWriteChannel, with a channel descriptor that sets what the channel has
WriteChannel(i) ==
  CtlCall(i,
          IF IsAie(k) THEN "FEATURE_NOT_SUPPORTED" ELSE ChannelRefusal(i), [Desc |-> i], TRUE)

\* XAie_DmaChannelWritePktType
WritePktType(i) ==
  CtlCall(i,
          IF ~IsAie4(k) \/ k[2] = "TILE" THEN "FEATURE_NOT_SUPPORTED" ELSE ChannelRefusal(i),
          [PktType |-> i], FALSE)

-----------------------------------------------------------------------------
(* The status register.                                                    *)

Shown(h) ==
  [TaskQSize |-> Len(queue[h]), TaskQOverFlow |-> h \in over,
   ChannelRunning |-> run[h].state = "running",
   Stalled |-> IF run[h].state \in Stalls THEN {run[h].state} ELSE {}]

\* what a read of the status register of a job's channel gives: the register of
\* an AIE tile holds a field for each channel
Status(i) ==
  LET addr == ChannelStatusAddr(D(i), Ch(i))
      hs == {h \in Hw : HwStatus(h) = addr /\ (IsAie(k) => h[3] = Ch(i))}
  IN IF hs = {} THEN [TaskQSize |-> 0, TaskQOverFlow |-> FALSE, ChannelRunning |-> FALSE, Stalled |-> {}]
     ELSE Shown(CHOOSE h \in hs : TRUE)

\* mutant: a stall is left out of the mask
StallMaskNoLockRel == {"LockAcq", "StreamStarve", "TCT"}

\* the stalls a status is masked with; AIE has one field for all
StallMask == {"LockAcq", "LockRel", "StreamStarve", "TCT"}
Busy(st) == st.ChannelRunning \/ st.Stalled \cap StallMask # {}

\* XAie_DmaGetPendingBdCount
PendingBd(st) == st.TaskQSize + (IF Busy(st) THEN 1 ELSE 0)

GetPendingBdCount(i) ==
  LET rc == IF ChannelRefusal(i) # "OK" THEN ChannelRefusal(i)
            ELSE IF Status(i).TaskQSize > M.StartQSizeMax THEN "ERR" ELSE "OK"
  IN /\ Call
     /\ IF rc # "OK" THEN Refuse(rc)
        ELSE /\ Accept
             /\ done' = [on |-> "GetPending", job |-> i, rc |-> "OK",
                         val |-> PendingBd(Status(i)), truth |-> Len(sent[Chan(i)])]
             /\ UNCHANGED <<on, jobs, bds, ctl, queue, run, over, stray, written, sent, set, room, poll>>

\* XAie_DmaGetChannelStatus: the overflow flag, where the register has it
GetChannelStatus(i) ==
  /\ Call
  /\ IF ChannelRefusal(i) # "OK" THEN Refuse(ChannelRefusal(i))
     ELSE /\ Accept
          /\ done' = [on |-> "GetStatus", job |-> i, rc |-> "OK",
                      val |-> Status(i).TaskQOverFlow /\ ~IsAie(k),
                      truth |-> HwOf(Chan(i)) \in over /\ ~IsAie(k)]
          /\ UNCHANGED <<on, jobs, bds, ctl, queue, run, over, stray, written, sent, set, room, poll>>

StartWait(name, i, rc) ==
  /\ Call
  /\ IF rc # "OK" THEN Refuse(rc)
     ELSE /\ Accept
          /\ poll' = [on |-> name, job |-> i]
          /\ UNCHANGED <<on, jobs, bds, ctl, queue, run, over, stray, written, sent, set, room>>
          /\ done' = NoAnswer

\* XAie_DmaWaitForDone and XAie_DmaWaitForDoneBusy
WaitForDone(i) == StartWait("WaitForDone", i, ChannelRefusal(i))

\* XAie_DmaWaitForBdTaskQueue and XAie_DmaWaitForBdTaskQueueBusy
WaitForBdTaskQueue(i) ==
  StartWait("WaitForBdTaskQueue", i,
            IF ChannelRefusal(i) # "OK" THEN ChannelRefusal(i)
            ELSE IF "WaitforBdTaskQueue" \notin DOMAIN M THEN "FEATURE_NOT_SUPPORTED"
            ELSE "OK")

\* one read of the poll
DoneMatches(st) == st.TaskQSize = 0 /\ ~Busy(st)

\* the highest bit of the size, which starts at bit 20 of the status register:
\* bit 24 on AIE4, bit 22 elsewhere
TASK_Q_SIZE_MSB == IF IsAie4(k) THEN 16 ELSE 4
RoomMatches(st) == (st.TaskQSize \div TASK_Q_SIZE_MSB) % 2 = 0

Matches == IF poll.on = "WaitForDone" THEN DoneMatches(Status(poll.job)) ELSE RoomMatches(Status(poll.job))

EndWait(rc) ==
  /\ done' = [NoAnswer EXCEPT !.on = poll.on, !.job = poll.job, !.rc = rc]
  /\ poll' = NoPoll
  /\ room' = IF rc = "OK" /\ poll.on = "WaitForBdTaskQueue" THEN room \cup {Chan(poll.job)} ELSE room
  /\ UNCHANGED <<on, jobs, bds, ctl, queue, run, over, stray, written, sent, set, ncalls>>

PollMatch   == poll # NoPoll /\ Matches /\ EndWait("OK")
PollTimeout == poll # NoPoll /\ ~Matches /\ EndWait("DMA_STATUS_TIMEOUT")

-----------------------------------------------------------------------------
(* The hardware.                                                           *)

HwUnchanged == done' = NoAnswer /\ UNCHANGED <<on, jobs, bds, ctl, over, stray, written, set, room, poll, ncalls>>

\* the channels of the program that this is and that have tasks
ChansOf(h) == {c \in Chans : HwOf(c) = h /\ sent[c] # <<>>}
NoTask == [job |-> 0, rep |-> 0]

\* a channel that may run takes the next task and fetches its descriptor;
\* "meant" is what the program wrote for the task it pushed
Start(h) ==
  /\ queue[h] # <<>> /\ run[h].state = "idle"
  /\ Ctl(HwCtrl(h)).Reset = 0 /\ (IsAie(k) => Ctl(HwCtrl(h)).Enable = 1)
  /\ LET n == Head(queue[h]).bd
         addr == HwBd(h, n)
         task == IF ChansOf(h) = {} THEN NoTask ELSE Head(sent[CHOOSE c \in ChansOf(h) : TRUE])
     IN run' = [run EXCEPT ![h] =
                  [state |-> "running",
                   found |-> IF n \in HwPool(h) /\ addr \in DOMAIN bds THEN bds[addr] ELSE NoBd,
                   meant |-> IF task.job = 0 THEN NoBd ELSE written[task.job]]]
  /\ queue' = [queue EXCEPT ![h] = Tail(@)]
  /\ UNCHANGED sent /\ HwUnchanged

\* a stall matters to the reads of the status; MaxBehind bounds the tasks that
\* wait behind one
MaxBehind == 1

Stall(h, s) ==
  /\ run[h].state = "running" /\ Len(queue[h]) <= MaxBehind
  /\ run' = [run EXCEPT ![h].state = s]
  /\ UNCHANGED <<queue, sent>> /\ HwUnchanged

Resume(h) ==
  /\ run[h].state \in Stalls
  /\ run' = [run EXCEPT ![h].state = "running"]
  /\ UNCHANGED <<queue, sent>> /\ HwUnchanged

Complete(h) ==
  /\ run[h].state = "running"
  /\ run' = [run EXCEPT ![h] = Idle]
  /\ sent' = [c \in Chans |-> IF c \in ChansOf(h) THEN Tail(sent[c]) ELSE sent[c]]
  /\ UNCHANGED queue /\ HwUnchanged

-----------------------------------------------------------------------------
Next ==
  \/ \E i \in Job :
       \/ WriteBd(i) \/ UpdateBdLen(i) \/ UpdateBdAddr(i) \/ GetBdLen(i)
       \/ \E n \in {1, M.StartQSizeMax + 1} : PushBdToQueue(i, n)
       \/ \E r \in {0, M.MaxRepeatCount, M.MaxRepeatCount + 1}, o \in BOOLEAN : SetStartQueue(i, r, o)
       \/ \E v \in 0..1 : ChannelReset(i, v) \/ PauseStream(i, v) \/ PauseMem(i, v) \/ Enable(i, v)
       \/ WriteChannel(i) \/ WritePktType(i)
       \/ GetPendingBdCount(i) \/ GetChannelStatus(i)
       \/ WaitForDone(i) \/ WaitForBdTaskQueue(i)
  \/ \E v \in 0..1 : ChannelResetAll(v)
  \/ PollMatch \/ PollTimeout
  \/ \E h \in Hw :
       Start(h) \/ Resume(h) \/ Complete(h) \/ \E s \in Stalls : Stall(h, s)

Spec == Init /\ [][Next]_vars

-----------------------------------------------------------------------------
(* Properties.                                                             *)

\* A channel runs with the descriptor the program last wrote for the task it
\* pushed: the register address the writers compute from (direction, channel,
\* number), the number the push puts into the queue and the pool the channel
\* fetches from agree, for both halves of a device and every pool
FetchesWhatWasWritten ==
  \A h \in Hw : run[h].meant # NoBd => run[h].found = run[h].meant

\* The tasks of a channel, queued or running, are those the program pushed to it
\* while it had room and that have not finished, in its order; no call writes to
\* a register of another channel or of none
TasksReachTheirChannel ==
  /\ ~stray
  /\ \A c \in Chans : ValidChannel(c[1], c[2]) =>
       LET h == HwOf(c) IN
       /\ Len(sent[c]) = Len(queue[h]) + (IF run[h].state = "idle" THEN 0 ELSE 1)
       /\ \A n \in 1..Len(queue[h]) :
            LET task == sent[c][n + Len(sent[c]) - Len(queue[h])] IN
            /\ queue[h][n].rep = task.rep
            /\ queue[h][n].bd = IF task.job = 0 THEN 0 ELSE HwNumber(jobs[task.job])

\* The control register of a channel holds what the calls for that channel made
\* of it, whatever is done to other channels
SettingsReachTheirChannel ==
  \A c \in Chans : ValidChannel(c[1], c[2]) => Ctl(HwCtrl(HwOf(c))) = set[c]

\* A call is refused for its channel or descriptor number exactly when the
\* hardware has no such channel, or the channel no such descriptor
RefusesExactlyTheRest ==
  \A i \in Job :
    /\ ValidChannel(D(i), Ch(i)) <=> HwOf(Chan(i)) \in Hw
    /\ PushRefusal(i) = "OK" <=> HwHas(jobs[i])

\* Every call for a channel reaches that channel and no other: it is refused exactly when there
\* is none, and its tasks and its settings arrive.
CallsReachTheirChannel ==
  RefusesExactlyTheRest /\ TasksReachTheirChannel /\ SettingsReachTheirChannel

\* XAie_DmaWaitForDone returns XAIE_OK only when no task of the channel is queued,
\* running or stalled
DoneMeansDone ==
  done.on = "WaitForDone" /\ done.rc = "OK" =>
    sent[Chan(done.job)] = <<>>

\* After XAie_DmaWaitForBdTaskQueue returned XAIE_OK, one push to that channel
\* finds room in the queue
WaitedQueueHasRoom ==
  \A c \in room : Len(queue[HwOf(c)]) < HwQueueMax

\* What the readers return is true when they return: the count of pending tasks,
\* the overflow flag, the length of a descriptor
ReadersTellTheTruth ==
  done.val = done.truth

\* What a wait or a reader answers is so.
AnswersAreTrue == DoneMeansDone /\ WaitedQueueHasRoom /\ ReadersTellTheTruth
=============================================================================
