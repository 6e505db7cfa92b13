----------------------------- MODULE StreamSwitch -----------------------------
(***************************************************************************)
(* The stream switch of one tile as the driver programs it (xaie_ss.c): the *)
(* circuits, the packet switched ports with their slots, the arbiters that  *)
(* merge in a fixed order, and the clearing of all registers.               *)
(*                                                                         *)
(* regs holds the registers that are not zero. A register is named by       *)
(* <<kind, is32b, bank, type, position, slot>>: on a memory or shim tile of *)
(* AIE4 each application has a bank of registers and a type of ports its    *)
(* own place in it; everywhere else the ports of a kind lie one after the   *)
(* other and only the position counts. What has been asked for is kept in   *)
(* asked, by port and not by register: the properties compare the two.      *)
(***************************************************************************)
EXTENDS StreamPorts

CONSTANTS
  CallGenerations,     \* the generations whose switches are programmed
  MaxCalls             \* accepted calls before the clearing

ASSUME CallGenerations \subseteq Generations
ASSUME MaxCalls \in Nat

VARIABLES
  plat,      \* the platform
  regs,      \* register -> value, the registers that are not zero
  asked,     \* what was asked for last, of each port, slot and arbiter
  named,     \* the ports and arbiters that the accepted calls named
  calls,     \* accepted calls
  refused,   \* the first call, when it was refused
  cleared    \* TRUE after XAie_StrmSwRegisterClear

vars == <<plat, regs, asked, named, calls, refused, cleared>>

NoCall == [op |-> "none"]

Init ==
  /\ plat \in Platforms
  /\ regs = [r \in {} |-> 0]
  /\ asked = [a \in {} |-> 0]
  /\ named = {}
  /\ calls = 0
  /\ refused = NoCall
  /\ cleared = FALSE

-----------------------------------------------------------------------------
(* Registers *)

Without(f, keys) == [k \in DOMAIN f \ keys |-> f[k]]

\* XAie_Write32: a register that becomes zero is no longer kept
Write(f, r, v, zero) == IF v = zero THEN Without(f, {r}) ELSE (r :> v) @@ f

\* _XAie_IsTileResourceInSharedAddrSpace
InSharedAddrSpace == IsAie4(plat) /\ plat.app = "single" /\ plat.tile \in {"MEM", "SHIM"}

\* Mutant: the masters to the south have no place holder
PlaceHolderNorthOnly(port, t, n) ==
  IF /\ IsAie4(plat) /\ plat.tile = "TILE" /\ plat.app = "single"
     /\ <<port, t>> = <<"slave", "NORTH">>
     /\ n >= NumPorts(Config(GetStreamMod(plat, t), port), t) \div 2
  THEN 1 ELSE 0

\* AddPlaceHolderPort
PlaceHolder(port, t, n) ==
  IF /\ IsAie4(plat) /\ plat.tile = "TILE" /\ plat.app = "single"
     /\ <<port, t>> \in {<<"slave", "NORTH">>, <<"master", "SOUTH">>}
     /\ n >= NumPorts(Config(GetStreamMod(plat, t), port), t) \div 2
  THEN 1 ELSE 0

\* Whether the ports of a type have a place of their own, one for each application
Banked(p) == IsAie4(p) /\ p.tile # "TILE"

\* PortBaseAddr of a type, as the position of its first register
PortBase(p, port, t) ==
  IF IsAie4(p) THEN Config(GetStreamMod(p, t), port)[t][2] ELSE LegacyBase(p, port, t)

\* The address of a port, of kind "master", "slave" or "slot". A type that the table of the
\* slots does not have has base address 0 there, the start of the tile.
PortReg(kind, port, t, n, slot) ==
  LET sw   == GetStreamMod(plat, t)
      num  == NumPorts(Config(sw, port), t)
      bank == IF Banked(plat) /\ n >= num THEN "B" ELSE "A"
      m    == IF bank = "B" THEN n - num ELSE n + PlaceHolder(port, t, n)
  IN  IF kind = "slot" /\ t \notin DOMAIN sw.SlvSlotConfig
      THEN <<"tile", FALSE, bank, "", m, slot>>
      ELSE IF Banked(plat) THEN <<kind, Is32b(t), bank, t, m, slot>>
      ELSE <<kind, Is32b(t), "A", "", PortBase(plat, port, t) + m, slot>>

SwitchOf(t) == GetStreamMod(plat, t)
Valid(port, t, n) == HasMod(plat, t) /\ ValidPort(plat, Config(SwitchOf(t), port), t, n)

Off == [en |-> 0, pkt |-> 0, drop |-> 0, config |-> 0]

\* _XAie_StrmConfigSlv and _StrmConfigMstr: the values, zero when the port is disabled
StrmConfigSlv(en, pkt) == IF en = 0 THEN Off ELSE [Off EXCEPT !.en = 1, !.pkt = pkt]
StrmConfigMstr(en, pkt, config) ==
  IF en = 0 THEN Off
  ELSE [en |-> 1, pkt |-> pkt, drop |-> config \div 128, config |-> config % 128]

-----------------------------------------------------------------------------
(* The calls *)

\* The numbers of a type that calls use: the first, the last, and the first behind a place
\* holder or of the second application
Numbers(p, port, t) ==
  LET table == Config(GetStreamMod(p, t), port)
      max   == GetMaxNumSsPorts(p, table, t)
      all   == NumPorts(table, t)
  IN  {n \in {0, max - 1} \cup (IF IsAie4(p) THEN {all \div 2 - 1, all \div 2, all} ELSE {}) :
         0 <= n /\ n < max}
PortsToCall ==
  LET Some(p, port) ==
        UNION {{<<port, t, n>> : n \in Numbers(p, port, t)} :
                 t \in {u \in Types : HasMod(p, u)}}
  IN  Tabulated([p \in Platforms |-> [slave |-> Some(p, "slave"), master |-> Some(p, "master")]])
Ports(port) == PortsToCall[plat][port]

\* The first call names any ports; a later one shares a port or arbiter with those before it
Related(things) == calls = 0 \/ things \cap named # {}

Callable ==
  /\ plat.gen \in CallGenerations
  /\ calls < MaxCalls
  /\ ~cleared
  /\ refused = NoCall

Accepted(things) ==
  /\ Related(things)
  /\ calls' = calls + 1
  /\ named' = named \cup things
  /\ UNCHANGED <<plat, refused, cleared>>

Refused(call) ==
  /\ calls = 0
  /\ refused' = call
  /\ UNCHANGED <<plat, regs, asked, named, calls, cleared>>

\* asked without some things, or with one of them anew
Dropped(things) == Without(asked, things)

\* _XAie_StreamSwitchConfigureCct: what has to hold before anything is written
CctAllowed(s, m) ==
  LET sw == SwitchOf(m[2])
  IN  /\ Is32b(s[2]) = Is32b(m[2])
      /\ GetPortIdx(plat, sw, s[2], s[3], "slave") # NoIdx
      /\ PortVerify(plat, sw, s[2], s[3], m[2], m[3])
      /\ Valid("master", m[2], m[3])

\* ... and the two writes, the master's and then the slave's
CctWritten(s, m, en) ==
  LET idx == GetPortIdx(plat, SwitchOf(m[2]), s[2], s[3], "slave")
      r1  == Write(regs, PortReg("master", "master", m[2], m[3], 0), StrmConfigMstr(en, 0, idx), Off)
  IN  Write(r1, PortReg("slave", "slave", s[2], s[3], 0), StrmConfigSlv(en, 0), Off)

\* XAie_StrmConnCctEnable
StrmConnCctEnable ==
  /\ Callable
  /\ \E s \in Ports("slave"), m \in Ports("master") :
       \/ /\ Accepted({s, m})
          /\ CctAllowed(s, m)
          /\ regs' = CctWritten(s, m, 1)
          /\ asked' = (m :> [circuit |-> TRUE, from |-> s]) @@ (s :> [circuit |-> TRUE]) @@ asked
       \/ /\ Refused([op |-> "StrmConnCctEnable", slave |-> s, master |-> m])
          /\ ~CctAllowed(s, m)

\* XAie_StrmConnCctDisable
StrmConnCctDisable ==
  /\ Callable /\ calls > 0
  /\ \E s \in Ports("slave"), m \in Ports("master") :
       /\ Accepted({s, m})
       /\ CctAllowed(s, m)
       /\ regs' = CctWritten(s, m, 0)
       /\ asked' = Dropped({s, m})

\* XAie_StrmPktSwSlavePortEnable and XAie_StrmPktSwSlavePortDisable
StrmPktSwSlavePortEnable ==
  /\ Callable
  /\ \E s \in Ports("slave") :
       /\ Accepted({s})
       /\ regs' = Write(regs, PortReg("slave", "slave", s[2], s[3], 0), StrmConfigSlv(1, 1), Off)
       /\ asked' = (s :> [circuit |-> FALSE]) @@ asked

StrmPktSwSlavePortDisable ==
  /\ Callable /\ calls > 0
  /\ \E s \in Ports("slave") :
       /\ Accepted({s})
       /\ regs' = Write(regs, PortReg("slave", "slave", s[2], s[3], 0), StrmConfigSlv(0, 0), Off)
       /\ asked' = Dropped({s})

PktConfigs == {[drop |-> 0, arbitor |-> 7, mselEn |-> 1], [drop |-> 1, arbitor |-> 0, mselEn |-> 8]}

\* XAie_StrmPktSwMstrPortEnable
PktSwConfig(c) == 128 * c.drop + c.arbitor + 8 * c.mselEn
StrmPktSwMstrPortEnable ==
  /\ Callable
  /\ \E m \in Ports("master"), c \in PktConfigs :
       /\ Accepted({m})
       /\ regs' = Write(regs, PortReg("master", "master", m[2], m[3], 0),
                        StrmConfigMstr(1, 1, PktSwConfig(c)), Off)
       /\ asked' = (m :> [circuit |-> FALSE, pkt |-> c]) @@ asked

\* XAie_StrmPktSwMstrPortDisable
StrmPktSwMstrPortDisable ==
  /\ Callable /\ calls > 0
  /\ \E m \in Ports("master") :
       /\ Accepted({m})
       /\ regs' = Write(regs, PortReg("master", "master", m[2], m[3], 0), StrmConfigMstr(0, 0, 0), Off)
       /\ asked' = Dropped({m})

\* _XAie_StrmSlaveSlotConfig; an entry stands for the packet, the mask, the select and the arbiter
Slots == {0, 3}
Entry == [en |-> 1]
NoEntry == [en |-> 0]
SlotWritten(s, slot, v) == Write(regs, PortReg("slot", "slave", s[2], s[3], slot), v, NoEntry)
ValidSlot(s, slot) == slot < SwitchOf(s[2]).NumSlaveSlots

\* XAie_StrmPktSwSlaveSlotEnable and XAie_StrmPktSwSlaveSlotDisable
StrmPktSwSlaveSlotEnable ==
  /\ Callable
  /\ \E s \in Ports("slave"), slot \in Slots :
       /\ ValidSlot(s, slot)
       /\ Accepted({s})
       /\ regs' = SlotWritten(s, slot, Entry)
       /\ asked' = (<<"slot", s[2], s[3], slot>> :> Entry) @@ asked

StrmPktSwSlaveSlotDisable ==
  /\ Callable /\ calls > 0
  /\ \E s \in Ports("slave"), slot \in Slots :
       /\ ValidSlot(s, slot)
       /\ Accepted({s})
       /\ regs' = SlotWritten(s, slot, NoEntry)
       /\ asked' = Dropped({<<"slot", s[2], s[3], slot>>})

\* StrmMod->DetMergeFeature of the 512 bit switch, and its arbiters
DetMergeFeature == SwitchOf("DMA").DetMergeFeature
DetMerge == SwitchOf("DMA").DetMerge
MaxArbitors == IF InSharedAddrSpace THEN 2 * DetMerge.NumArbitors ELSE DetMerge.NumArbitors

\* The register of an arbiter: its first word and the bank it is in. The number of arbiters is
\* itself accepted as a number, and no arbiter of the second bank has it.
MergeReg(arb, word, field) ==
  LET other == arb > DetMerge.NumArbitors
      a     == IF other THEN arb - DetMerge.NumArbitors ELSE arb
  IN  <<"merge", FALSE, IF other THEN "B" ELSE "A", "", a * DetMerge.ArbConfigOffset + word, field>>

Arbitors ==
  {a \in {0, DetMerge.NumArbitors - 1, DetMerge.NumArbitors, DetMerge.NumArbitors + 1,
          2 * DetMerge.NumArbitors} : a <= MaxArbitors}
PktCount == 5
MergePorts == {s \in Ports("slave") : s[2] \in {"DMA", "SOUTH", "NORTH"}}

\* XAie_StrmSwDeterministicMergeConfig: a masked write of half a word
StrmSwDeterministicMergeConfig ==
  /\ Callable /\ DetMergeFeature
  /\ \E arb \in Arbitors, s \in MergePorts, position \in 0..(DetMerge.NumPositions - 1) :
       LET idx == GetPortIdx(plat, SwitchOf(s[2]), s[2], s[3], "slave")
       IN  /\ Accepted({<<"arbitor", arb>>, s})
           /\ idx # NoIdx
           /\ regs' = Write(regs, MergeReg(arb, IF position > 1 THEN 1 ELSE 0, position % 2),
                            <<idx, PktCount>>, <<0, 0>>)
           /\ asked' = (<<"position", arb, position>> :> s) @@ asked

\* XAie_StrmSwDeterministicMergeEnable and XAie_StrmSwDeterministicMergeDisable
StrmSwDeterministicMergeEnable ==
  /\ Callable /\ DetMergeFeature
  /\ \E arb \in Arbitors :
       /\ Accepted({<<"arbitor", arb>>})
       /\ regs' = Write(regs, MergeReg(arb, 2, 0), 1, 0)
       /\ asked' = (<<"arbitor", arb>> :> TRUE) @@ asked

StrmSwDeterministicMergeDisable ==
  /\ Callable /\ DetMergeFeature /\ calls > 0
  /\ \E arb \in Arbitors :
       /\ Accepted({<<"arbitor", arb>>})
       /\ regs' = Write(regs, MergeReg(arb, 2, 0), 0, 0)
       /\ asked' = Dropped({<<"arbitor", arb>>})

-----------------------------------------------------------------------------
(* Clearing *)

\* The types _XAie_StrmSwRegisterClear goes through: it stops before the last one
ClearedTypes == Types \ {"PL", "x32B_PL"}
NotInBankB(p) ==
  {"CTRL", "x32B_TRACE"}
  \cup IF p.tile = "SHIM" THEN {"EAST", "WEST", "x32B_EAST", "x32B_WEST", "DMA_Trace"} ELSE {}

\* Mutant: one block, straight through the place holder
ClearedThroughPlaceHolder(p, port, t, num) == 0..(num - 1)

\* _XAie_StrmSwRegisterClear for the ports of one type of one table: the positions that a
\* block of num registers from the first one covers, in two blocks around the place holder
ClearedPositions(p, port, t, num) ==
  IF /\ IsAie4(p) /\ p.tile = "TILE" /\ p.app = "single"
     /\ <<port, t>> \in {<<"slave", "NORTH">>, <<"master", "SOUTH">>}
  THEN 0..(num \div 2 - 1) \cup (num \div 2 + 1)..(2 * (num \div 2))
  ELSE 0..(num - 1)
ClearedOfType(p, kind, port, table, t) ==
  LET slots == IF kind = "slot" THEN 0..3 ELSE {0}
      at    == ClearedPositions(p, port, t, NumPorts(table, t))
      banks == IF p.app = "single" /\ t \notin NotInBankB(p) THEN {"A", "B"} ELSE {"A"}
  IN  IF Banked(p) THEN {<<kind, Is32b(t), b, t, k, slot>> : b \in banks, k \in at, slot \in slots}
      ELSE {<<kind, Is32b(t), "A", "", PortBase(p, port, t) + k, slot>> : k \in at, slot \in slots}
ClearedOf(p, kind, port, table) ==
  UNION {ClearedOfType(p, kind, port, table, t) : t \in DOMAIN table \cap ClearedTypes}

\* _XAie_StrmSwDeterministicMergeRegisterClear: three words for an arbiter
ClearedMerges(p) ==
  {<<"merge", FALSE, b, "", w, f>> :
     b \in IF Banked(p) /\ p.app = "single" THEN {"A", "B"} ELSE {"A"},
     w \in 0..(3 * StrmSw[p.gen][p.tile].DetMerge.NumArbitors - 1), f \in 0..1}

\* The registers XAie_StrmSwRegisterClear sets to zero. It reads the table of the arbiters
\* untested: AIE has none.
ClearedRegs ==
  LET Tables(p, sw) == ClearedOf(p, "master", "master", sw.MstrConfig)
                       \cup ClearedOf(p, "slave", "slave", sw.SlvConfig)
                       \cup ClearedOf(p, "slot", "slave", sw.SlvSlotConfig)
  IN  Tabulated([p \in {x \in Platforms : x.gen # "AIE"} |->
                   Tables(p, StrmSw[p.gen][p.tile]) \cup ClearedMerges(p)
                   \cup IF IsAie4(p) THEN Tables(p, StrmSw32b[p.gen][p.tile]) ELSE {}])

\* XAie_StrmSwRegisterClear
StrmSwRegisterClear ==
  /\ calls > 0 /\ ~cleared /\ plat \in DOMAIN ClearedRegs
  /\ regs' = Without(regs, ClearedRegs[plat])
  /\ cleared' = TRUE
  /\ UNCHANGED <<plat, asked, named, calls, refused>>

Next ==
  \/ StrmConnCctEnable \/ StrmConnCctDisable
  \/ StrmPktSwSlavePortEnable \/ StrmPktSwSlavePortDisable
  \/ StrmPktSwMstrPortEnable \/ StrmPktSwMstrPortDisable
  \/ StrmPktSwSlaveSlotEnable \/ StrmPktSwSlaveSlotDisable
  \/ StrmSwDeterministicMergeConfig
  \/ StrmSwDeterministicMergeEnable \/ StrmSwDeterministicMergeDisable
  \/ StrmSwRegisterClear

Spec == Init /\ [][Next]_vars
-----------------------------------------------------------------------------
(* Properties *)

\* The ports whose number and whose entry in the port map differ
Misnumbered(p) ==
  LET some(port, types, ns) == {<<port, t, n>> : t \in types, n \in ns}
      shim == <<p.gen, p.tile>>
  IN  (CASE shim \in {"AIEML", "AIE2IPU"} \X {"SHIM"} -> some("slave", {"TRACE"}, {1})
         [] shim = <<"AIE2PS", "SHIM">> ->
              some("slave", {"TRACE"}, {1}) \cup some("slave", {"UCTRLR"}, {0})
              \cup some("master", {"UCTRLR"}, {0})
         [] shim = <<"AIE2PS", "MEM">> ->
              some("slave", {"SOUTH"}, {4, 5}) \cup some("slave", {"NORTH"}, 0..3)
         [] shim = <<"AIE4", "TILE">> ->
              some("slave", {"NORTH"}, {2, 4, 5}) \cup some("master", {"SOUTH"}, {2, 4, 5})
         [] IsAie4(p) /\ p.tile = "SHIM" ->
              some("slave", {"WEST", "EAST", "SWITCH_32b", "DMA_CTRL"}, {0, 1})
              \cup some("slave", {"NORTH"}, 0..3)
              \cup some("master", {"DMA"}, {1}) \cup some("master", {"DMA_Trace"}, {0})
         [] IsAie4(p) /\ p.tile = "MEM" ->
              some("slave", {"DMA"}, 5..9)
              \cup some("slave", {"x32B_SOUTH", "x32B_NORTH", "x32B_CTRL", "x32B_TRACE"}, {0, 1})
         [] OTHER -> {})

\* A port is found again under its number: what XAie_StrmSwLogicalToPhysicalPort computes from
\* the base of a type, the place holders and the two applications, and what
\* XAie_StrmSwPhysicalToLogicalPort reads in the port map, are each other's inverse for every
\* port of every device that is not shared, but for the ports of Misnumbered, all of which
\* disagree.
PortNumbersAgree ==
  calls = 0 /\ refused = NoCall /\ plat.app = "single" =>
    \A port \in {"slave", "master"}, t \in Types :
      HasMod(plat, t) =>
        \A n \in 0..(GetMaxNumSsPorts(plat, Config(SwitchOf(t), port), t) - 1) :
          LET phy == LogicalToPhysicalPort(plat, port, t, n)
          IN  (PhysicalToLogicalPort(plat, Is32b(t), port, phy) = <<t, n>>)
                <=> (<<port, t, n>> \notin Misnumbered(plat))

\* The port whose register is r, by the port map or by the bank of the application
PortAt(port, r) ==
  LET sw == SwitchOf(IF r[2] THEN "x32B_CTRL" ELSE "DMA")
      l  == IF Banked(plat)
            THEN <<r[4], r[5] + (IF r[3] = "B" THEN NumPorts(Config(sw, port), r[4]) ELSE 0)>>
            ELSE PhysicalToLogicalPort(plat, r[2], port, r[5])
  IN  <<port, l[1], l[2]>>

MasterDoes(q, v) ==
  LET a   == asked[q]
      cfg == v.drop * 128 + v.config
  IN  IF a.circuit
      THEN v.pkt = 0 /\ PhysicalToLogicalPort(plat, Is32b(q[2]), "slave", cfg) = <<a.from[2], a.from[3]>>
      ELSE /\ v.pkt = 1
           /\ a.pkt = [drop |-> v.drop, arbitor |-> v.config % 8, mselEn |-> v.config \div 8]

\* The switch does what was asked for, port for port: read through the port map, a master is
\* enabled exactly when it was asked for, takes what the slave of its circuit brings or has the
\* arbiter, the selects and the header treatment of its packets; a slave is enabled, for packets
\* or for a circuit, exactly as it was asked for; a slot has an entry exactly when one was
\* enabled. No call disturbs what another port was given, which takes two registers of two
\* calls to fall together.
SwitchDoesWhatWasAsked ==
  ~cleared /\ named \cap Misnumbered(plat) = {} =>
    LET at(kind)  == {r \in DOMAIN regs : r[1] = kind}
        of(kind)  == {q \in DOMAIN asked : q[1] = kind}
        listed(q) == q[2] \in DOMAIN SwitchOf(q[2]).SlvSlotConfig
    IN  /\ {PortAt("master", r) : r \in at("master")} = of("master")
        /\ {PortAt("slave", r) : r \in at("slave")} = of("slave")
        /\ {[PortAt("slave", r) EXCEPT ![1] = "slot"] \o <<r[6]>> : r \in at("slot")}
             = {q \in of("slot") : listed(q)}
        /\ \A r \in at("master") : MasterDoes(PortAt("master", r), regs[r])
        /\ \A r \in at("slave") : asked[PortAt("slave", r)].circuit <=> regs[r].pkt = 0

\* The arbiters merge what was asked for: read as three words for each arbiter, the position of
\* an arbiter holds the slave configured last for it and an arbiter merges exactly when it was
\* enabled last. The number of arbiters is accepted as an arbiter too (> for >=), and what is
\* configured for it lies behind the registers of the bank: those two numbers are left out.
MergesDoWhatWasAsked ==
  ~cleared /\ named \cap Misnumbered(plat) = {} /\ DetMergeFeature =>
    LET num  == DetMerge.NumArbitors
        off  == DetMerge.ArbConfigOffset
        real == {r \in DOMAIN regs : r[1] = "merge" /\ r[5] < num * off}
        arb(r) == r[5] \div off + (IF r[3] = "B" THEN num ELSE 0)
        word(r) == r[5] % off
        edge == {num, 2 * num}
    IN  /\ {<<arb(r), 2 * word(r) + r[6]>> : r \in {x \in real : word(x) < 2}}
             = {<<q[2], q[3]>> : q \in {x \in DOMAIN asked : x[1] = "position" /\ x[2] \notin edge}}
        /\ {arb(r) : r \in {x \in real : word(x) = 2}}
             = {q[2] : q \in {x \in DOMAIN asked : x[1] = "arbitor" /\ x[2] \notin edge}}
        /\ \A r \in {x \in real : word(x) < 2} :
             LET s == asked[<<"position", arb(r), 2 * word(r) + r[6]>>]
             IN  /\ PhysicalToLogicalPort(plat, FALSE, "slave", regs[r][1]) = <<s[2], s[3]>>
                 /\ regs[r][2] = PktCount

\* A circuit is refused only when the switch has no such ports or cannot connect them; on a
\* shared device every circuit is, since _XAie_GetPortIdxAie4Plus takes a port number that fits
\* in a byte for one that does not (xaie_ss.c 235).
CircuitsRefusedRightly ==
  refused # NoCall /\ plat.app = "single" =>
    LET s == refused.slave
        m == refused.master
    IN  ~(/\ Is32b(s[2]) = Is32b(m[2])
          /\ Valid("slave", s[2], s[3]) /\ Valid("master", m[2], m[3])
          /\ PortVerify(plat, SwitchOf(m[2]), s[2], s[3], m[2], m[3]))

\* What was asked for is what the switch does: its ports and slots, its arbiters, and the calls
\* it turned down.
DoesWhatWasAsked == SwitchDoesWhatWasAsked /\ MergesDoWhatWasAsked /\ CircuitsRefusedRightly

\* What the clearing misses: the second application's CTRL masters and 32 bit TRACE slaves, the
\* slots of the ports behind those the table of the slots lists (and, of AIE4's core tile, those
\* its smaller table places around another place holder), what was written for a type that
\* table lacks, and the last words of the arbiters where an arbiter has four words, not three.
Uncleared(r) ==
  \/ r[1] = "tile"
  \/ r[1] = "merge" /\ r[5] >= 3 * DetMerge.NumArbitors
  \/ r[1] \in {"master", "slave", "slot"} /\ r[3] = "B" /\ r[4] \in {"CTRL", "x32B_TRACE"}
  \/ /\ r[1] = "slot"
     /\ \E q \in DOMAIN asked :
          /\ q[1] = "slot"
          /\ PortReg("slot", "slave", q[2], q[3], q[4]) = r
          /\ \/ q[3] % NumPorts(SwitchOf(q[2]).SlvConfig, q[2])
                  >= NumPorts(SwitchOf(q[2]).SlvSlotConfig, q[2])
             \/ plat.gen = "AIE4" /\ plat.tile = "TILE" /\ q[2] = "NORTH" /\ q[3] >= 2

\* XAie_StrmSwRegisterClear leaves nothing of what was programmed, whatever calls came before,
\* but for the registers of Uncleared.
ClearLeavesOnlyThese == cleared => \A r \in DOMAIN regs : Uncleared(r)

\* All ports of the 512 bit switch
PortsOf(port) ==
  UNION {{<<port, t, n>> : n \in 0..(GetMaxNumSsPorts(plat, Config(SwitchOf(t), port), t) - 1)} :
           t \in Types \ Types32}

\* A port of a shared device as the device of its own numbers it
AsSingle(port, t, n) ==
  LET num == NumPorts(Config(SwitchOf(t), port), t)
  IN  IF plat.app = "A" \/ t \in {"CORE", "DMA_Trace"} THEN n
      ELSE IF plat.tile # "TILE" THEN n + num
      ELSE IF t \in {"NORTH", "SOUTH"} THEN n + num \div 2 ELSE n

\* Ports the matrix of a shared core tile has no row or column for, though the tile has them: the
\* second control ports of either side, and on AIE4 whatever the smaller tile of the matrix lacks
Unlisted(q) ==
  plat.tile = "TILE"
    /\ (plat.gen = "AIE4" \/ (q[2] \in {"NORTH_CTRL", "SOUTH_CTRL"} /\ q[3] = 1))

\* The two halves of a shared switch are the halves of the whole one: the matrix of a shared
\* device allows a connection exactly when the matrix of a device of its own allows it between
\* the same ports, for every port the matrix has room for.
HalvesMatchTheWhole ==
  calls = 0 /\ refused = NoCall /\ plat.app # "single" =>
    \A s \in PortsOf("slave"), m \in PortsOf("master") :
      ~Unlisted(s) /\ ~Unlisted(m) =>
        LET whole == [plat EXCEPT !.app = "single"]
        IN  Aie4CheckPortValidity(plat, s[2], s[3], m[2], m[3])
              <=> Aie4CheckPortValidity(whole, s[2], AsSingle("slave", s[2], s[3]),
                                        m[2], AsSingle("master", m[2], m[3]))

=============================================================================
