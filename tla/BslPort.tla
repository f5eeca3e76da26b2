------------------------------ MODULE BslPort ------------------------------
(***************************************************************************)
(* The control registers of a card (bsl_setPortMode, bsl_setPortActive,    *)
(* bsl_setLatency, bsl_setControlCommand and what they call in             *)
(* bsl_device.c).  Every process maps the same registers, and the library  *)
(* takes no lock: each read and each write of a register is a step.  A     *)
(* register is named by its address, 16#140 * port + offset, as            *)
(* OFFSET_REGISTER_PORT makes it, and its value is the set of its bits     *)
(* that are on.                                                            *)
(***************************************************************************)
EXTENDS Integers, FiniteSets

CONSTANTS
  Procs,     \* processes that call the library: daemon, extension, tools
  NPorts,    \* ports of a card (four in the code)
  Requests,  \* Requests[c]: the calls c makes, of the form Request below
  Limit,     \* tries of a reset after the first (10)
  MaxCount,  \* bound of the counters FSCRn
  Crashes    \* the operations in which a process may die

Ports == 0 .. NPorts - 1
Bits == 0 .. 3

(* 0 and 1 of EnumPortOpMode; latency, sequence and signature are bits 1   *)
(* to 3 of PMSR; Stop, Start, Pause and SingleStep are 1 to 4.             *)
Checks == 1 .. 3
Stop == {0}
Start == {1}
Pause == {0, 1}
SingleStep == {2}
StartBit == 1
PortselBit == 2

Request ==
  [op : {"mode", "active"}, port : Ports, val : {{}, {0}}]
  \cup [op : {"latency"}, port : Ports, val : SUBSET Checks]
  \cup [op : {"command"}, port : Ports, val : {Stop, Start, Pause, SingleStep}, sel : BOOLEAN]
  \cup [op : {"network"}, port : Ports, val : {<<m, a, i>> : m, a, i \in SUBSET Bits}]
  \cup [op : {"reset"}, port : Ports]

ASSUME PortAssumption ==
  /\ NPorts \in Nat \ {0} /\ Limit \in Nat /\ MaxCount \in Nat \ {0}
  /\ Requests \in [Procs -> SUBSET Request]
  /\ Crashes \subseteq {"mode", "active", "latency", "command", "network", "reset"}

VARIABLES
  reg,     \* the registers, by address
  sent,    \* sent[p]: FSCR of port p, frames sent
  call,    \* what each process is doing
  quiet,   \* history: has no frame been sent since the call began?
  stray    \* history: did a process die with the reset on, and nobody since end one?

vars == <<reg, sent, call, quiet, stray>>

SRCR  == \h044
WMCR  == \h05A
CNTR  == \h0C0
PECR  == \h0C4
PMSR  == \h0C6
NMSR  == \h0D0
MASR  == \h0D2
IPSR  == \h0D4

PerPort == {WMCR, CNTR, PECR, PMSR, NMSR, MASR, IPSR}

Port(p) == \h140 * p  \* OFFSET_REGISTER_PORT
Addresses == {SRCR} \cup {Port(p) + r : p \in Ports, r \in PerPort}
Started(p) == StartBit \in reg[Port(p) + CNTR]

First(r) ==
  CASE r.op = "latency" -> "readpmsr"
    [] r.op = "command" -> "readwmcr"
    [] r.op = "reset"   -> "look"
    [] OTHER            -> r.op

NoCall == [pc |-> "idle", ask |-> [op |-> "none", port |-> 0],
           val |-> {}, at |-> 0, left |-> Limit, loop |-> FALSE]
Idle(c) == call[c].pc = "idle"
At(c, pc) == call[c].pc = pc
Ask(c) == call[c].ask
Own(c, r) == Port(Ask(c).port) + r

Calls ==
  [pc : {"mode", "active", "readpmsr", "pmsr", "readwmcr", "wmcr", "cntr",
         "network", "masr", "ipsr", "look", "on", "off", "check"},
   ask : UNION {Requests[c] : c \in Procs},
   val : SUBSET Bits, at : Ports, left : 0 .. Limit, loop : BOOLEAN]

TypeOK ==
  /\ reg \in [Addresses -> SUBSET Bits]
  /\ sent \in [Ports -> 0 .. MaxCount]
  /\ call \in [Procs -> Calls \cup {NoCall}]
  /\ \A c \in Procs : ~Idle(c) => Ask(c) \in Requests[c]
  /\ quiet \in [Procs -> BOOLEAN]
  /\ stray \in BOOLEAN

Init ==
  /\ reg = [a \in Addresses |-> {}]
  /\ sent = [p \in Ports |-> 0]
  /\ call = [c \in Procs |-> NoCall]
  /\ quiet = [c \in Procs |-> TRUE]
  /\ stray = FALSE

-----------------------------------------------------------------------------
Goto(c, pc) == call' = [call EXCEPT ![c].pc = pc]
Return(c) == call' = [call EXCEPT ![c] = NoCall]
Write(a, v) == reg' = [reg EXCEPT ![a] = v]

Begin(c, r) ==
  /\ Idle(c)
  /\ call' = [call EXCEPT ![c] = [NoCall EXCEPT !.pc = First(r), !.ask = r]]
  /\ quiet' = [quiet EXCEPT ![c] = TRUE]
  /\ UNCHANGED <<reg, sent, stray>>

(* bsl_device_setPortMode overwrites the register. *)
SetPortMode(c) ==
  /\ At(c, "mode")
  /\ Write(Own(c, PMSR), Ask(c).val)
  /\ Return(c)
  /\ UNCHANGED <<sent, quiet, stray>>

SetPortActive(c) ==
  /\ At(c, "active")
  /\ Write(Own(c, PECR), Ask(c).val)
  /\ Return(c)
  /\ UNCHANGED <<sent, quiet, stray>>

(* ReadPmsr as it would be without the offset of the port. *)
ReadPmsr_PortZero(c) ==
  /\ At(c, "readpmsr")
  /\ call' = [call EXCEPT ![c].pc = "pmsr", ![c].val = reg[PMSR]]
  /\ UNCHANGED <<reg, sent, quiet, stray>>

(* bsl_device_setLatency: read, change three bits, write. *)
ReadPmsr(c) ==
  /\ At(c, "readpmsr")
  /\ call' = [call EXCEPT ![c].pc = "pmsr", ![c].val = reg[Own(c, PMSR)]]
  /\ UNCHANGED <<reg, sent, quiet, stray>>

SetLatency(c) ==
  /\ At(c, "pmsr")
  /\ Write(Own(c, PMSR), (call[c].val \ Checks) \cup Ask(c).val)
  /\ Return(c)
  /\ UNCHANGED <<sent, quiet, stray>>

(* bsl_device_setControlCommand, the four traffic commands: bit 2 of WMCR, *)
(* by reading and writing, then CNTR.                                      *)
ReadWmcr(c) ==
  /\ At(c, "readwmcr")
  /\ call' = [call EXCEPT ![c].pc = "wmcr", ![c].val = reg[Own(c, WMCR)]]
  /\ UNCHANGED <<reg, sent, quiet, stray>>

WriteWmcr(c) ==
  /\ At(c, "wmcr")
  /\ Write(Own(c, WMCR),
           IF Ask(c).sel THEN call[c].val \cup {PortselBit} ELSE call[c].val \ {PortselBit})
  /\ Goto(c, "cntr")
  /\ UNCHANGED <<sent, quiet, stray>>

WriteCntr(c) ==
  /\ At(c, "cntr")
  /\ Write(Own(c, CNTR), Ask(c).val)
  /\ Return(c)
  /\ UNCHANGED <<sent, quiet, stray>>

(* CommandNetworkMode: NMSR, MASR and IPSR in this order. *)
WriteNmsr(c) ==
  /\ At(c, "network")
  /\ Write(Own(c, NMSR), Ask(c).val[1])
  /\ Goto(c, "masr")
  /\ UNCHANGED <<sent, quiet, stray>>

WriteMasr(c) ==
  /\ At(c, "masr")
  /\ Write(Own(c, MASR), Ask(c).val[2])
  /\ Goto(c, "ipsr")
  /\ UNCHANGED <<sent, quiet, stray>>

WriteIpsr(c) ==
  /\ At(c, "ipsr")
  /\ Write(Own(c, IPSR), Ask(c).val[3])
  /\ Return(c)
  /\ UNCHANGED <<sent, quiet, stray>>

-----------------------------------------------------------------------------
(* CommandResetStats.  CNTR of the ports is read until one is started:     *)
(* then there is one pulse of SRCR; otherwise there is a pulse, again      *)
(* while a counter is not 0 and tries are left.                            *)
Look(c) ==
  /\ At(c, "look")
  /\ LET p == call[c].at
     IN call' = [call EXCEPT ![c] =
          IF Started(p) THEN [@ EXCEPT !.pc = "on"]
          ELSE IF p = NPorts - 1 THEN [@ EXCEPT !.pc = "on", !.loop = TRUE]
          ELSE [@ EXCEPT !.at = p + 1]]
  /\ UNCHANGED <<reg, sent, quiet, stray>>

PulseOn(c) ==
  /\ At(c, "on")
  /\ Write(SRCR, {0})
  /\ Goto(c, "off")
  /\ UNCHANGED <<sent, quiet, stray>>

(* PulseOff as it would be if the limit were tested before SRCR is written. *)
PulseOff_Early(c) ==
  /\ At(c, "off")
  /\ IF call[c].loop /\ call[c].left = 0
     THEN Return(c) /\ UNCHANGED <<reg, stray>>
     ELSE /\ Write(SRCR, {})
          /\ stray' = FALSE
          /\ IF call[c].loop
             THEN call' = [call EXCEPT ![c].pc = "check", ![c].at = 0, ![c].left = @ - 1]
             ELSE Return(c)
  /\ UNCHANGED <<sent, quiet>>

(* PulseOff as it would be if the limit were not counted down. *)
PulseOff_Forever(c) ==
  /\ At(c, "off")
  /\ Write(SRCR, {})
  /\ stray' = FALSE
  /\ IF call[c].loop
     THEN call' = [call EXCEPT ![c].pc = "check", ![c].at = 0]
     ELSE Return(c)
  /\ UNCHANGED <<sent, quiet>>

(* PulseOff as it would be if the limit were counted down and not tested. *)
PulseOff_NoTest(c) ==
  /\ At(c, "off")
  /\ Write(SRCR, {})
  /\ stray' = FALSE
  /\ IF call[c].loop
     THEN call' = [call EXCEPT ![c].pc = "check", ![c].at = 0, ![c].left = @ - 1]
     ELSE Return(c)
  /\ UNCHANGED <<sent, quiet>>

(* After the second's sleep; limit-- == 0 leaves the loop. *)
PulseOff(c) ==
  /\ At(c, "off")
  /\ Write(SRCR, {})
  /\ stray' = FALSE
  /\ IF call[c].loop /\ call[c].left # 0
     THEN call' = [call EXCEPT ![c].pc = "check", ![c].at = 0, ![c].left = @ - 1]
     ELSE Return(c)
  /\ UNCHANGED <<sent, quiet>>

(* Check as it would be if the last counter were not in the condition. *)
Check_NotLast(c) ==
  /\ At(c, "check")
  /\ LET p == call[c].at
     IN call' = [call EXCEPT ![c] =
          IF sent[p] # 0 /\ p # NPorts - 1 THEN [@ EXCEPT !.pc = "on"]
          ELSE IF p = NPorts - 1 THEN NoCall
          ELSE [@ EXCEPT !.at = p + 1]]
  /\ UNCHANGED <<reg, sent, quiet, stray>>

Check(c) ==
  /\ At(c, "check")
  /\ LET p == call[c].at
     IN call' = [call EXCEPT ![c] =
          IF sent[p] # 0 THEN [@ EXCEPT !.pc = "on"]
          ELSE IF p = NPorts - 1 THEN NoCall
          ELSE [@ EXCEPT !.at = p + 1]]
  /\ UNCHANGED <<reg, sent, quiet, stray>>

-----------------------------------------------------------------------------
(* The FPGA (external) sends a frame of a port that is started or stepped, *)
(* and clears a counter while the reset is on, now, later or not at all.   *)
Send(p) ==
  /\ reg[Port(p) + CNTR] \in {Start, SingleStep}
  /\ sent[p] < MaxCount
  /\ sent' = [sent EXCEPT ![p] = @ + 1]
  /\ quiet' = [c \in Procs |-> FALSE]
  /\ UNCHANGED <<reg, call, stray>>

Clear(p) ==
  /\ reg[SRCR] # {}
  /\ sent' = [sent EXCEPT ![p] = 0]
  /\ UNCHANGED <<reg, call, quiet, stray>>

(* Dying while the counters are read leaves what a return leaves. *)
Crash(c) ==
  /\ ~Idle(c) /\ ~At(c, "check")
  /\ Ask(c).op \in Crashes
  /\ Return(c)
  /\ stray' = (stray \/ At(c, "off"))
  /\ UNCHANGED <<reg, sent, quiet>>

CallStep(c) ==
  \/ SetPortMode(c) \/ SetPortActive(c) \/ ReadPmsr(c) \/ SetLatency(c)
  \/ ReadWmcr(c) \/ WriteWmcr(c) \/ WriteCntr(c)
  \/ WriteNmsr(c) \/ WriteMasr(c) \/ WriteIpsr(c)
  \/ Look(c) \/ PulseOn(c) \/ PulseOff(c) \/ Check(c)

Next ==
  \/ \E c \in Procs : CallStep(c) \/ Crash(c) \/ \E r \in Requests[c] : Begin(c, r)
  \/ \E p \in Ports : Send(p) \/ Clear(p)

Spec == Init /\ [][Next]_vars

(* Processes are scheduled; nobody has to call, and the FPGA owes nothing. *)
FairSpec == Spec /\ \A c \in Procs : WF_vars(CallStep(c))

-----------------------------------------------------------------------------
(* Port settings are changed as if each call happened at one moment, when  *)
(* each register is written by one process: the read-modify-write of PMSR  *)
(* loses nothing and reaches no other port, and an identity is complete    *)
(* when its call returns.                                                  *)
Naming(p) == {c \in Procs : call[c].pc \in {"masr", "ipsr"} /\ Ask(c).port = p}
Settings ==
  [p \in Ports |->
     [mode     |-> reg[Port(p) + PMSR] \ Checks,
      checks   |-> reg[Port(p) + PMSR] \cap Checks,
      active   |-> reg[Port(p) + PECR],
      command  |-> reg[Port(p) + CNTR],
      identity |-> IF Naming(p) = {}
                   THEN <<reg[Port(p) + NMSR], reg[Port(p) + MASR], reg[Port(p) + IPSR]>>
                   ELSE Ask(CHOOSE c \in Naming(p) : TRUE).val]]

Told == {r \in UNION {Requests[c] : c \in Procs} : r.op # "reset"}
Abstract == INSTANCE BslPortSpec WITH Calls <- Told, settings <- Settings
ImplementsSettings == Abstract!Spec

(* A reset that ended because it read every counter as 0 has cleared them, *)
(* when no frame was sent since it began.                                  *)
ReadZeros(c) == At(c, "check") /\ call'[c].pc = "idle" /\ sent' = sent
ResetClears ==
  [][\A c \in Procs : ReadZeros(c) /\ quiet[c] => \A p \in Ports : sent[p] = 0]_vars

(* The reset of the counters is on only in the pulse of a process, or      *)
(* after one has died in its pulse; any later reset switches it off.       *)
NoStrayReset == reg[SRCR] # {} => stray \/ \E c \in Procs : At(c, "off")

(* A command returns, the reset of the counters too, whatever the FPGA     *)
(* does with the counters and whether or not traffic starts meanwhile.     *)
CommandReturns == \A c \in Procs : ~Idle(c) ~> Idle(c)
=============================================================================
