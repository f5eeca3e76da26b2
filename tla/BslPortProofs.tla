--------------------------- MODULE BslPortProofs ---------------------------
(***************************************************************************)
(* For any number of processes and ports, any limit and any bound of the   *)
(* counters: the reset of the counters is not left on (NoStrayReset), and  *)
(* a reset that has read zeros has cleared (ResetClears).  When each       *)
(* register is written by one process (OneWriter), the calls of all        *)
(* processes together change the settings as BslPortSpec says.             *)
(***************************************************************************)
EXTENDS BslPort, TLAPS

-----------------------------------------------------------------------------
(* The operation that a place in the code belongs to. *)
Op(pc) ==
  CASE pc \in {"readpmsr", "pmsr"} -> "latency"
    [] pc \in {"readwmcr", "wmcr", "cntr"} -> "command"
    [] pc \in {"network", "masr", "ipsr"} -> "network"
    [] pc \in {"look", "on", "off", "check"} -> "reset"
    [] OTHER -> pc
PlaceIsOfCall == \A c \in Procs : ~Idle(c) => Ask(c).op = Op(call[c].pc)

(* The counters that a process has read as 0 are 0 while nothing is sent. *)
ReadsHold ==
  \A c \in Procs : At(c, "check") /\ quiet[c] => \A p \in Ports : p < call[c].at => sent[p] = 0

PortInv == TypeOK /\ PlaceIsOfCall /\ NoStrayReset /\ ReadsHold

-----------------------------------------------------------------------------
(* Lemmas *)

LEMMA RequestShape ==
  ASSUME NEW r \in Request
  PROVE  /\ r.op \in {"mode", "active", "latency", "command", "network", "reset"}
         /\ r.port \in Ports
         /\ r.op \in {"mode", "active"} => r.val \in {{}, {0}}
         /\ r.op = "latency" => r.val \in SUBSET Checks
         /\ r.op = "command" => r.val \in {Stop, Start, Pause, SingleStep}
         /\ r.op = "network" => r.val \in {<<m, a, i>> : m, a, i \in SUBSET Bits}
BY DEF Request

(* Where a call begins. *)
LEMMA FirstPlace ==
  ASSUME NEW r \in Request
  PROVE  /\ First(r) \in {"mode", "active", "readpmsr", "readwmcr", "network", "look"}
         /\ r.op = Op(First(r))
BY RequestShape DEF First, Op

LEMMA AskShape ==
  ASSUME TypeOK, NEW c \in Procs, ~Idle(c)
  PROVE  /\ call[c] \in Calls /\ Ask(c) \in Requests[c] /\ Ask(c) \in Request
         /\ Ask(c).port \in Ports
<1>1. call[c] \in Calls
  BY DEF TypeOK, Idle, NoCall
<1>2. Ask(c) \in Requests[c] /\ Requests[c] \subseteq Request
  BY PortAssumption DEF TypeOK
<1> QED
  BY <1>1, <1>2, RequestShape

(* What is written in a register. *)
LEMMA ValueShape ==
  ASSUME TypeOK, PlaceIsOfCall, NEW c \in Procs, ~Idle(c)
  PROVE  /\ At(c, "mode") \/ At(c, "active") => Ask(c).val \in {{}, {0}}
         /\ At(c, "pmsr") => Ask(c).val \in SUBSET Checks
         /\ At(c, "cntr") => Ask(c).val \in SUBSET Bits
         /\ call[c].pc \in {"network", "masr", "ipsr"} =>
              Ask(c).val \in {<<m, a, i>> : m, a, i \in SUBSET Bits}
<1>1. Ask(c) \in Request /\ Ask(c).op = Op(call[c].pc)
  BY AskShape DEF PlaceIsOfCall
<1>2. \A v \in {Stop, Start, Pause, SingleStep} : v \in SUBSET Bits
  BY DEF Stop, Start, Pause, SingleStep, Bits
<1> QED
  BY <1>1, <1>2, RequestShape DEF Op, At

(* Registers of different ports, and of different kinds, are different. *)
LEMMA AddressesApart ==
  ASSUME NEW p \in Ports, NEW q \in Ports, NEW r \in PerPort, NEW s \in PerPort
  PROVE  /\ Port(p) + r \in Addresses
         /\ Port(p) + r = Port(q) + s => p = q /\ r = s
         /\ Port(p) + r # SRCR
<1>1. p \in Nat /\ q \in Nat
  BY DEF Ports
<1>2. r \in 90 .. 212 /\ s \in 90 .. 212
  BY DEF PerPort, WMCR, CNTR, PECR, PMSR, NMSR, MASR, IPSR
<1>3. Port(p) = 320 * p /\ Port(q) = 320 * q /\ SRCR = 68
  BY DEF Port, SRCR
<1>4. p < q => Port(p) + r < Port(q) + s
  BY <1>1, <1>2, <1>3
<1>5. q < p => Port(q) + s < Port(p) + r
  BY <1>1, <1>2, <1>3
<1>6. Port(p) + r = Port(q) + s => p = q
  BY <1>1, <1>2, <1>3, <1>4, <1>5
<1>7. p = q /\ Port(p) + r = Port(q) + s => r = s
  BY <1>1, <1>2, <1>3
<1>8. Port(p) + r # SRCR
  BY <1>1, <1>2, <1>3
<1>9. Port(p) + r \in Addresses
  BY DEF Addresses
<1> QED
  BY <1>6, <1>7, <1>8, <1>9

(* What becomes of the calls: an update of one, or the return of one. *)
LEMMA CallsStay ==
  ASSUME TypeOK, NEW c \in Procs, NEW v, call' = [call EXCEPT ![c] = v]
  PROVE  call'[c] = v /\ \A d \in Procs \ {c} : call'[d] = call[d]
BY DEF TypeOK

(* The call of c goes on at another place of the same operation. *)
GoesOn(c) ==
  /\ ~Idle(c)
  /\ call'[c] \in Calls /\ Ask(c)' = Ask(c) /\ Op(call'[c].pc) = Ask(c).op

CallsFollow(c) ==
  /\ call' \in [Procs -> Calls \cup {NoCall}]
  /\ \A d \in Procs \ {c} : call'[d] = call[d]
  /\ call'[c] = NoCall \/ GoesOn(c)

LEMMA FollowingKeeps ==
  ASSUME TypeOK, PlaceIsOfCall, NEW c \in Procs, CallsFollow(c)
  PROVE  /\ \A d \in Procs : ~Idle(d)' => Ask(d)' \in Requests[d]
         /\ PlaceIsOfCall'
<1>1. \A d \in Procs \ {c} : (Idle(d)' <=> Idle(d)) /\ Ask(d)' = Ask(d) /\ call'[d].pc = call[d].pc
  BY DEF CallsFollow, Idle, Ask
<1>2. Idle(c)' \/ (~Idle(c) /\ Ask(c)' = Ask(c) /\ Op(call'[c].pc) = Ask(c).op)
  BY DEF CallsFollow, GoesOn, Idle, NoCall
<1> QED
  BY <1>1, <1>2 DEF TypeOK, PlaceIsOfCall

LEMMA ReturnFollows ==
  ASSUME TypeOK, NEW c \in Procs, Return(c)
  PROVE  CallsFollow(c)
BY CallsStay DEF TypeOK, Return, CallsFollow

LEMMA GotoFollows ==
  ASSUME TypeOK, PlaceIsOfCall, NEW c \in Procs, ~Idle(c), NEW pc, Goto(c, pc),
         pc \in {"cntr", "masr", "ipsr", "off"}, Op(pc) = Op(call[c].pc)
  PROVE  CallsFollow(c) /\ call'[c] = [call[c] EXCEPT !.pc = pc]
<1>1. call[c] \in Calls
  BY AskShape
<1>2. call'[c] = [call[c] EXCEPT !.pc = pc] /\ \A d \in Procs \ {c} : call'[d] = call[d]
  BY DEF TypeOK, Goto
<1>3. call'[c] \in Calls /\ call'[c].ask = call[c].ask /\ call'[c].pc = pc
  BY <1>1, <1>2 DEF Calls
<1>4. call' \in [Procs -> Calls \cup {NoCall}]
  BY <1>3 DEF TypeOK, Goto
<1> QED
  BY <1>2, <1>3, <1>4 DEF CallsFollow, GoesOn, Ask, PlaceIsOfCall

LEMMA WriteType ==
  ASSUME TypeOK, NEW a, NEW v \in SUBSET Bits, Write(a, v)
  PROVE  reg' \in [Addresses -> SUBSET Bits]
BY DEF TypeOK, Write

-----------------------------------------------------------------------------
(* What each step of a call does to the calls. *)
LEMMA StepFollows ==
  ASSUME TypeOK, PlaceIsOfCall, NEW c \in Procs, CallStep(c) \/ Crash(c)
  PROVE  CallsFollow(c)
<1> DEFINE k == call[c]
<1>0. /\ call[c].pc # "idle" => ~Idle(c)
      /\ ~Idle(c) => call[c] \in Calls /\ Ask(c).op = Op(call[c].pc)
  BY AskShape DEF Idle, PlaceIsOfCall
<1>a. \A pc, v : call' = [call EXCEPT ![c].pc = pc, ![c].val = v] =>
        /\ call'[c] = [call[c] EXCEPT !.pc = pc, !.val = v]
        /\ \A d \in Procs \ {c} : call'[d] = call[d]
  BY DEF TypeOK
<1>b. ASSUME call'[c] \in Calls \cup {NoCall}, \A d \in Procs \ {c} : call'[d] = call[d],
             NEW w, call' = [call EXCEPT ![c] = w]
      PROVE  call' \in [Procs -> Calls \cup {NoCall}]
  BY <1>b DEF TypeOK
<1>1. ASSUME SetPortMode(c) \/ SetPortActive(c) \/ SetLatency(c) \/ WriteCntr(c) \/ WriteIpsr(c)
             \/ Crash(c)
      PROVE  CallsFollow(c)
  BY <1>1, ReturnFollows
     DEF SetPortMode, SetPortActive, SetLatency, WriteCntr, WriteIpsr, Crash
<1>2. ASSUME ReadPmsr(c) PROVE CallsFollow(c)
  <2>1. At(c, "readpmsr") /\ call' = [call EXCEPT ![c].pc = "pmsr", ![c].val = reg[Own(c, PMSR)]]
    BY <1>2 DEF ReadPmsr
  <2>2. ~Idle(c) /\ k \in Calls /\ Ask(c).op = "latency"
    BY <2>1, <1>0 DEF At, Op
  <2>3. reg[Own(c, PMSR)] \in SUBSET Bits
    BY <2>2, AskShape, AddressesApart DEF Own, PerPort, TypeOK
  <2>4. call'[c] = [k EXCEPT !.pc = "pmsr", !.val = reg[Own(c, PMSR)]]
    BY <2>1, <1>a
  <2>5. call'[c] \in Calls /\ call'[c].ask = k.ask /\ call'[c].pc = "pmsr"
    BY <2>2, <2>3, <2>4 DEF Calls
  <2>6. call' \in [Procs -> Calls \cup {NoCall}]
    BY <2>1, <2>5 DEF TypeOK
  <2> QED
    BY <2>1, <2>2, <2>5, <2>6, <1>a DEF CallsFollow, GoesOn, Ask, Op
<1>3. ASSUME ReadWmcr(c) PROVE CallsFollow(c)
  <2>1. At(c, "readwmcr") /\ call' = [call EXCEPT ![c].pc = "wmcr", ![c].val = reg[Own(c, WMCR)]]
    BY <1>3 DEF ReadWmcr
  <2>2. ~Idle(c) /\ k \in Calls /\ Ask(c).op = "command"
    BY <2>1, <1>0 DEF At, Op
  <2>3. reg[Own(c, WMCR)] \in SUBSET Bits
    BY <2>2, AskShape, AddressesApart DEF Own, PerPort, TypeOK
  <2>4. call'[c] = [k EXCEPT !.pc = "wmcr", !.val = reg[Own(c, WMCR)]]
    BY <2>1, <1>a
  <2>5. call'[c] \in Calls /\ call'[c].ask = k.ask /\ call'[c].pc = "wmcr"
    BY <2>2, <2>3, <2>4 DEF Calls
  <2>6. call' \in [Procs -> Calls \cup {NoCall}]
    BY <2>1, <2>5 DEF TypeOK
  <2> QED
    BY <2>1, <2>2, <2>5, <2>6, <1>a DEF CallsFollow, GoesOn, Ask, Op
<1>4. ASSUME WriteWmcr(c) \/ WriteNmsr(c) \/ WriteMasr(c) \/ PulseOn(c) PROVE CallsFollow(c)
  <2>1. ~Idle(c)
    BY <1>4 DEF WriteWmcr, WriteNmsr, WriteMasr, PulseOn, At, Idle
  <2> QED
    BY <1>4, <2>1, GotoFollows DEF WriteWmcr, WriteNmsr, WriteMasr, PulseOn, At, Op
<1>5. ASSUME Look(c) \/ PulseOff(c) \/ Check(c) PROVE CallsFollow(c)
  <2>1. ~Idle(c) /\ k \in Calls /\ Ask(c).op = "reset"
    BY <1>5, <1>0 DEF Look, PulseOff, Check, At, Op
  <2>2. PICK w : call' = [call EXCEPT ![c] = w] /\ call'[c] = w /\
         \/ w = NoCall
         \/ w \in {[k EXCEPT !.pc = "on"], [k EXCEPT !.pc = "on", !.loop = TRUE]}
         \/ k.at # NPorts - 1 /\ w = [k EXCEPT !.at = k.at + 1]
         \/ k.left # 0 /\ w = [k EXCEPT !.pc = "check", !.at = 0, !.left = k.left - 1]
    <3>1. CASE Look(c)
      <4> DEFINE w == IF Started(k.at) THEN [k EXCEPT !.pc = "on"]
                      ELSE IF k.at = NPorts - 1 THEN [k EXCEPT !.pc = "on", !.loop = TRUE]
                      ELSE [k EXCEPT !.at = k.at + 1]
      <4>1. call' = [call EXCEPT ![c] = w]
        BY <3>1 DEF Look, TypeOK
      <4>2. call'[c] = w
        BY <4>1, CallsStay
      <4> QED
        BY <4>1, <4>2
    <3>2. CASE PulseOff(c)
      <4> DEFINE w == IF k.loop /\ k.left # 0
                      THEN [k EXCEPT !.pc = "check", !.at = 0, !.left = k.left - 1] ELSE NoCall
      <4>1. call' = [call EXCEPT ![c] = w]
        BY <3>2 DEF PulseOff, Return, TypeOK
      <4>2. call'[c] = w
        BY <4>1, CallsStay
      <4> QED
        BY <4>1, <4>2
    <3>3. CASE Check(c)
      <4> DEFINE w == IF sent[k.at] # 0 THEN [k EXCEPT !.pc = "on"]
                      ELSE IF k.at = NPorts - 1 THEN NoCall
                      ELSE [k EXCEPT !.at = k.at + 1]
      <4>1. call' = [call EXCEPT ![c] = w]
        BY <3>3 DEF Check, TypeOK
      <4>2. call'[c] = w
        BY <4>1, CallsStay
      <4> QED
        BY <4>1, <4>2
    <3> QED
      BY <1>5, <3>1, <3>2, <3>3
  <2>3. k.at \in Ports /\ k.left \in 0 .. Limit /\ 0 \in Ports /\ NPorts \in Nat /\ Limit \in Nat
    BY <2>1, PortAssumption DEF Calls, Ports
  <2>4. /\ k.at # NPorts - 1 => k.at + 1 \in Ports
        /\ k.left # 0 => k.left - 1 \in 0 .. Limit
    BY <2>3 DEF Ports
  <2>5. w = NoCall \/ (w \in Calls /\ w.ask = k.ask /\ Op(w.pc) = "reset")
    <3>1. (w.ask = k.ask /\ w.pc \in {k.pc, "on", "check"}) \/ w = NoCall
      BY <2>1, <2>2 DEF Calls
    <3>2. w = NoCall \/ w \in Calls
      BY <2>1, <2>2, <2>3, <2>4 DEF Calls
    <3>3. Op(k.pc) = "reset" /\ Op("on") = "reset" /\ Op("check") = "reset"
      BY <1>5 DEF Look, PulseOff, Check, At, Op
    <3> QED
      BY <3>1, <3>2, <3>3
  <2>6. call' \in [Procs -> Calls \cup {NoCall}] /\ \A d \in Procs \ {c} : call'[d] = call[d]
    BY <2>2, <2>5, CallsStay DEF TypeOK
  <2> QED
    BY <2>1, <2>2, <2>5, <2>6 DEF CallsFollow, GoesOn, Ask
<1> QED
  BY <1>1, <1>2, <1>3, <1>4, <1>5 DEF CallStep

LEMMA BeginFollows ==
  ASSUME TypeOK, PlaceIsOfCall, NEW c \in Procs, NEW r \in Requests[c], Begin(c, r)
  PROVE  /\ call' \in [Procs -> Calls \cup {NoCall}]
         /\ \A d \in Procs : ~Idle(d)' => Ask(d)' \in Requests[d]
         /\ PlaceIsOfCall'
         /\ call'[c].pc \notin {"check", "off"} /\ \A d \in Procs \ {c} : call'[d] = call[d]
<1> DEFINE w == [NoCall EXCEPT !.pc = First(r), !.ask = r]
<1>1. r \in Request /\ r \in UNION {Requests[d] : d \in Procs}
  BY PortAssumption
<1>2. w \in [pc : {First(r)}, ask : {r}, val : {{}}, at : {0}, left : {Limit}, loop : {FALSE}]
  BY DEF NoCall
<1>3. call'[c] = w /\ \A d \in Procs \ {c} : call'[d] = call[d]
  BY DEF Begin, TypeOK
<1>4. call' = [call EXCEPT ![c] = w]
  BY DEF Begin
<1> HIDE DEF w
<1>5. 0 \in Ports /\ Limit \in 0 .. Limit
  BY PortAssumption DEF Ports
<1>6. First(r) \in {"mode", "active", "readpmsr", "readwmcr", "network", "look"} /\ r.op = Op(First(r))
  BY <1>1, FirstPlace
<1>7. w \in Calls
  BY <1>1, <1>2, <1>5, <1>6 DEF Calls
<1>8. call' \in [Procs -> Calls \cup {NoCall}]
  BY <1>7, <1>4 DEF TypeOK
<1>9. \A d \in Procs \ {c} : (Idle(d)' <=> Idle(d)) /\ Ask(d)' = Ask(d) /\ call'[d].pc = call[d].pc
  BY <1>3 DEF Idle, Ask
<1>10. Ask(c)' = r /\ call'[c].pc = First(r)
  BY <1>2, <1>3 DEF Ask
<1>11. \A d \in Procs : ~Idle(d)' => Ask(d)' \in Requests[d]
  BY <1>9, <1>10 DEF TypeOK
<1>12. PlaceIsOfCall'
  BY <1>6, <1>9, <1>10 DEF PlaceIsOfCall
<1> QED
  BY <1>6, <1>3, <1>10, <1>11, <1>12, <1>8

LEMMA TypeStep == TypeOK /\ PlaceIsOfCall /\ [Next]_vars => TypeOK' /\ PlaceIsOfCall'
<1> SUFFICES ASSUME TypeOK, PlaceIsOfCall, [Next]_vars PROVE TypeOK' /\ PlaceIsOfCall'
  OBVIOUS
<1> DEFINE CallsType == call \in [Procs -> Calls \cup {NoCall}] /\ \A c \in Procs : ~Idle(c) => Ask(c) \in Requests[c]
<1>1. ASSUME NEW c \in Procs, CallStep(c) \/ Crash(c) PROVE TypeOK' /\ PlaceIsOfCall'
  <2>1. CallsType' /\ PlaceIsOfCall'
    BY <1>1, StepFollows, FollowingKeeps DEF CallsFollow
  <2>2. reg' \in [Addresses -> SUBSET Bits]
    <3>1. CASE UNCHANGED reg
      BY <3>1 DEF TypeOK
    <3>2. CASE SetPortMode(c) \/ SetPortActive(c)
      <4>1. ~Idle(c) /\ Ask(c).val \in {{}, {0}}
        BY <3>2, ValueShape DEF SetPortMode, SetPortActive, At, Idle
      <4>2. Ask(c).val \in SUBSET Bits
        BY <4>1 DEF Bits
      <4> QED
        BY <3>2, <4>2, WriteType DEF SetPortMode, SetPortActive
    <3>3. CASE SetLatency(c)
      <4>1. ~Idle(c) /\ Ask(c).val \in SUBSET Checks /\ call[c].val \in SUBSET Bits
        BY <3>3, ValueShape, AskShape DEF SetLatency, At, Idle, Calls
      <4>2. (call[c].val \ Checks) \cup Ask(c).val \in SUBSET Bits
        BY <4>1 DEF Bits, Checks
      <4> QED
        BY <3>3, <4>2, WriteType DEF SetLatency
    <3>4. CASE WriteWmcr(c)
      <4>1. ~Idle(c) /\ call[c].val \in SUBSET Bits
        BY <3>4, AskShape DEF WriteWmcr, At, Idle, Calls
      <4>2. call[c].val \cup {PortselBit} \in SUBSET Bits /\ call[c].val \ {PortselBit} \in SUBSET Bits
        BY <4>1 DEF Bits, PortselBit
      <4> QED
        BY <3>4, <4>2, WriteType DEF WriteWmcr
    <3>5. CASE WriteCntr(c)
      <4>1. ~Idle(c) /\ Ask(c).val \in SUBSET Bits
        BY <3>5, ValueShape DEF WriteCntr, At, Idle
      <4> QED
        BY <3>5, <4>1, WriteType DEF WriteCntr
    <3>6. CASE WriteNmsr(c) \/ WriteMasr(c) \/ WriteIpsr(c)
      <4>1. ~Idle(c) /\ Ask(c).val \in {<<m, a, i>> : m, a, i \in SUBSET Bits}
        BY <3>6, ValueShape DEF WriteNmsr, WriteMasr, WriteIpsr, At, Idle
      <4>2. \A i \in 1 .. 3 : Ask(c).val[i] \in SUBSET Bits
        BY <4>1
      <4> QED
        BY <3>6, <4>2, WriteType DEF WriteNmsr, WriteMasr, WriteIpsr
    <3>7. CASE PulseOn(c) \/ PulseOff(c)
      <4>1. {0} \in SUBSET Bits /\ {} \in SUBSET Bits
        BY DEF Bits
      <4> QED
        BY <3>7, <4>1, WriteType DEF PulseOn, PulseOff
    <3> QED
      BY <1>1, <3>1, <3>2, <3>3, <3>4, <3>5, <3>6, <3>7
         DEF CallStep, Crash, ReadPmsr, ReadWmcr, Look, Check
  <2>3. sent' = sent /\ quiet' = quiet /\ stray' \in BOOLEAN
    BY <1>1 DEF CallStep, Crash, SetPortMode, SetPortActive, ReadPmsr, SetLatency, ReadWmcr,
         WriteWmcr, WriteCntr, WriteNmsr, WriteMasr, WriteIpsr, Look, PulseOn, PulseOff, Check,
         TypeOK, At
  <2> QED
    BY <2>1, <2>2, <2>3 DEF TypeOK
<1>2. ASSUME NEW c \in Procs, NEW r \in Requests[c], Begin(c, r) PROVE TypeOK' /\ PlaceIsOfCall'
  <2>1. CallsType' /\ PlaceIsOfCall'
    BY <1>2, BeginFollows
  <2>2. reg' = reg /\ sent' = sent /\ stray' = stray /\ quiet' \in [Procs -> BOOLEAN]
    BY <1>2 DEF Begin, TypeOK
  <2> QED
    BY <2>1, <2>2 DEF TypeOK
<1>3. ASSUME NEW p \in Ports, Send(p) \/ Clear(p) PROVE TypeOK' /\ PlaceIsOfCall'
  <2>1. sent' \in [Ports -> 0 .. MaxCount] /\ quiet' \in [Procs -> BOOLEAN]
    <3>1. MaxCount \in Nat
      BY PortAssumption
    <3>2. sent[p] < MaxCount => sent[p] + 1 \in 0 .. MaxCount
      BY <3>1 DEF TypeOK
    <3>3. \A v \in 0 .. MaxCount : [sent EXCEPT ![p] = v] \in [Ports -> 0 .. MaxCount]
      BY DEF TypeOK
    <3>4. 0 \in 0 .. MaxCount
      BY <3>1
    <3>5. sent' \in [Ports -> 0 .. MaxCount]
      BY <1>3, <3>2, <3>3, <3>4 DEF Send, Clear
    <3>6. quiet' \in [Procs -> BOOLEAN]
      BY <1>3 DEF Send, Clear, TypeOK
    <3> QED
      BY <3>5, <3>6
  <2>2. reg' = reg /\ call' = call /\ stray' = stray
    BY <1>3 DEF Send, Clear
  <2>3. PlaceIsOfCall'
    BY <2>2 DEF PlaceIsOfCall, Idle, Ask
  <2> QED
    BY <2>1, <2>2, <2>3 DEF TypeOK, Idle, Ask
<1>4. CASE UNCHANGED vars
  BY <1>4 DEF vars, TypeOK, PlaceIsOfCall, Idle, Ask
<1> QED
  BY <1>1, <1>2, <1>3, <1>4 DEF Next

-----------------------------------------------------------------------------
(* The reset of the counters *)

LEMMA ResetStep ==
  TypeOK /\ PlaceIsOfCall /\ NoStrayReset /\ [Next]_vars => NoStrayReset'
<1> SUFFICES ASSUME TypeOK, PlaceIsOfCall, NoStrayReset, [Next]_vars, reg'[SRCR] # {}
             PROVE  stray' \/ \E c \in Procs : At(c, "off")'
  BY DEF NoStrayReset
<1> DEFINE Goal == stray' \/ \E c \in Procs : At(c, "off")'
<1>1. ASSUME NEW c \in Procs, CallStep(c) \/ Crash(c) PROVE Goal
  <2>1. \A d \in Procs \ {c} : call'[d] = call[d]
    BY <1>1, StepFollows DEF CallsFollow
  <2>2. ASSUME reg'[SRCR] = reg[SRCR], stray' = stray, ~At(c, "off") PROVE Goal
    BY <2>1, <2>2 DEF NoStrayReset, At
  <2>3. CASE PulseOn(c)
    <3>1. ~Idle(c) /\ Op(call[c].pc) = Op("off")
      BY <2>3 DEF PulseOn, At, Idle, Op
    <3>2. call'[c] = [call[c] EXCEPT !.pc = "off"] /\ call[c] \in Calls
      BY <2>3, <3>1, GotoFollows, AskShape DEF PulseOn
    <3>3. call'[c].pc = "off"
      BY <3>2 DEF Calls
    <3> QED
      BY <3>3 DEF At
  <2>4. CASE PulseOff(c)
    <3>1. reg'[SRCR] = {}
      BY <2>4 DEF PulseOff, Write, TypeOK, Addresses
    <3> QED
      BY <3>1
  <2>5. CASE Crash(c)
    <3>1. At(c, "off") => stray'
      BY <2>5 DEF Crash
    <3>2. ~At(c, "off") => stray' = stray /\ reg' = reg
      BY <2>5 DEF Crash, TypeOK
    <3> QED
      BY <2>2, <3>1, <3>2
  <2>6. CASE ReadPmsr(c) \/ ReadWmcr(c) \/ Look(c) \/ Check(c)
    BY <2>2, <2>6 DEF ReadPmsr, ReadWmcr, Look, Check, At
  <2>7. CASE \/ SetPortMode(c) \/ SetPortActive(c) \/ SetLatency(c) \/ WriteWmcr(c)
             \/ WriteCntr(c) \/ WriteNmsr(c) \/ WriteMasr(c) \/ WriteIpsr(c)
    <3>1. ~Idle(c) /\ ~At(c, "off") /\ stray' = stray
      BY <2>7 DEF SetPortMode, SetPortActive, SetLatency, WriteWmcr, WriteCntr, WriteNmsr,
                  WriteMasr, WriteIpsr, At, Idle
    <3>2. \A r \in PerPort : Own(c, r) # SRCR
      BY <3>1, AskShape, AddressesApart DEF Own
    <3>3. \E r \in PerPort : \E v : Write(Own(c, r), v)
      BY <2>7 DEF SetPortMode, SetPortActive, SetLatency, WriteWmcr, WriteCntr, WriteNmsr,
                  WriteMasr, WriteIpsr, PerPort
    <3>4. reg'[SRCR] = reg[SRCR]
      BY <3>2, <3>3 DEF Write, TypeOK, Addresses
    <3> QED
      BY <2>2, <3>1, <3>4
  <2> QED
    BY <1>1, <2>3, <2>4, <2>5, <2>6, <2>7 DEF CallStep
<1>2. ASSUME NEW c \in Procs, NEW r \in Requests[c], Begin(c, r) PROVE Goal
  <2>1. ~At(c, "off") /\ (\A d \in Procs \ {c} : call'[d] = call[d]) /\ reg' = reg /\ stray' = stray
    BY <1>2, BeginFollows DEF Begin, Idle, At
  <2> QED
    BY <2>1 DEF NoStrayReset, At
<1>3. CASE UNCHANGED <<reg, call, stray>>
  BY <1>3 DEF NoStrayReset, At
<1> QED
  BY <1>1, <1>2, <1>3 DEF Next, vars, Send, Clear

LEMMA ReadsStep ==
  TypeOK /\ PlaceIsOfCall /\ ReadsHold /\ [Next]_vars => ReadsHold'
<1> SUFFICES ASSUME TypeOK, PlaceIsOfCall, ReadsHold, [Next]_vars PROVE ReadsHold'
  OBVIOUS
<1>1. ASSUME NEW c \in Procs, CallStep(c) \/ Crash(c) PROVE ReadsHold'
  <2>1. \A d \in Procs \ {c} : call'[d] = call[d]
    BY <1>1, StepFollows DEF CallsFollow
  <2>2. sent' = sent /\ quiet' = quiet
    BY <1>1 DEF CallStep, Crash, SetPortMode, SetPortActive, ReadPmsr, SetLatency, ReadWmcr,
         WriteWmcr, WriteCntr, WriteNmsr, WriteMasr, WriteIpsr, Look, PulseOn, PulseOff, Check
  <2>3. ASSUME call'[c].pc # "check" PROVE ReadsHold'
    BY <2>1, <2>2, <2>3 DEF ReadsHold, At
  <2>4. CASE PulseOff(c)
    <3>1. call'[c] = NoCall \/ call'[c].at = 0
      <4>1. call[c] \in Calls
        BY <2>4, AskShape DEF PulseOff, At, Idle
      <4>2. CASE call[c].loop /\ call[c].left # 0
        <5>1. call'[c] = [call[c] EXCEPT !.pc = "check", !.at = 0, !.left = call[c].left - 1]
          BY <2>4, <4>2 DEF PulseOff, TypeOK
        <5> QED
          BY <4>1, <5>1 DEF Calls
      <4> QED
        BY <2>4, <4>2, CallsStay DEF PulseOff, Return
    <3>2. \A p \in Ports : ~(p < 0)
      BY DEF Ports
    <3> QED
      BY <2>1, <2>2, <2>3, <3>1, <3>2 DEF ReadsHold, At, NoCall
  <2>5. CASE Check(c)
    <3> DEFINE k == call[c]
    <3>1. k \in Calls /\ At(c, "check")
      BY <2>5, AskShape DEF Check, At, Idle
    <3>2. /\ sent[k.at] # 0 => call'[c] = [k EXCEPT !.pc = "on"]
          /\ sent[k.at] = 0 /\ k.at = NPorts - 1 => call'[c] = NoCall
          /\ sent[k.at] = 0 /\ k.at # NPorts - 1 => call'[c] = [k EXCEPT !.at = k.at + 1]
      BY <2>5 DEF Check, TypeOK
    <3>3. call'[c].pc # "check" \/ (sent[k.at] = 0 /\ call'[c].at = k.at + 1)
      BY <3>1, <3>2 DEF Calls, NoCall
    <3>4. k.at \in Ports /\ \A p \in Ports : p < k.at + 1 => p < k.at \/ p = k.at
      BY <3>1 DEF Calls, Ports
    <3> QED
      BY <2>1, <2>2, <2>3, <3>1, <3>3, <3>4 DEF ReadsHold, At
  <2>6. CASE Look(c)
    <3>1. call[c] \in Calls /\ At(c, "look")
      BY <2>6, AskShape DEF Look, At, Idle
    <3>2. call'[c] \in {[call[c] EXCEPT !.pc = "on"], [call[c] EXCEPT !.pc = "on", !.loop = TRUE],
                        [call[c] EXCEPT !.at = call[c].at + 1]}
      BY <2>6 DEF Look, TypeOK
    <3>3. call'[c].pc \in {"on", "look"}
      BY <3>1, <3>2 DEF Calls, At
    <3> QED
      BY <2>3, <3>3
  <2>7. CASE WriteWmcr(c) \/ WriteNmsr(c) \/ WriteMasr(c) \/ PulseOn(c)
    <3>1. ~Idle(c) /\ call[c] \in Calls
      BY <2>7, AskShape DEF WriteWmcr, WriteNmsr, WriteMasr, PulseOn, At, Idle
    <3>2. \E pc \in {"cntr", "masr", "ipsr", "off"} : call'[c] = [call[c] EXCEPT !.pc = pc]
      BY <2>7 DEF WriteWmcr, WriteNmsr, WriteMasr, PulseOn, Goto, TypeOK
    <3>3. call'[c].pc # "check"
      BY <3>1, <3>2 DEF Calls
    <3> QED
      BY <2>3, <3>3
  <2>8. CASE ReadPmsr(c) \/ ReadWmcr(c)
    <3>1. ~Idle(c) /\ call[c] \in Calls
      BY <2>8, AskShape DEF ReadPmsr, ReadWmcr, At, Idle
    <3>2. \E pc \in {"pmsr", "wmcr"} : \E v : call'[c] = [call[c] EXCEPT !.pc = pc, !.val = v]
      BY <2>8 DEF ReadPmsr, ReadWmcr, TypeOK
    <3>3. call'[c].pc # "check"
      BY <3>1, <3>2 DEF Calls
    <3> QED
      BY <2>3, <3>3
  <2>9. CASE \/ SetPortMode(c) \/ SetPortActive(c) \/ SetLatency(c) \/ WriteCntr(c)
             \/ WriteIpsr(c) \/ Crash(c)
    <3>1. call'[c] = NoCall
      BY <2>9, CallsStay
         DEF SetPortMode, SetPortActive, SetLatency, WriteCntr, WriteIpsr, Crash, Return
    <3> QED
      BY <2>3, <3>1 DEF NoCall
  <2> QED
    BY <1>1, <2>4, <2>5, <2>6, <2>7, <2>8, <2>9 DEF CallStep
<1>2. ASSUME NEW c \in Procs, NEW r \in Requests[c], Begin(c, r) PROVE ReadsHold'
  <2>1. /\ call'[c].pc # "check" /\ \A d \in Procs \ {c} : call'[d] = call[d] /\ quiet'[d] = quiet[d]
        /\ sent' = sent
    BY <1>2, BeginFollows DEF Begin, TypeOK
  <2> QED
    BY <2>1 DEF ReadsHold, At
<1>3. ASSUME NEW p \in Ports, Send(p) PROVE ReadsHold'
  <2>1. \A c \in Procs : quiet'[c] = FALSE
    BY <1>3 DEF Send
  <2> QED
    BY <2>1 DEF ReadsHold
<1>4. ASSUME NEW p \in Ports, Clear(p) PROVE ReadsHold'
  <2>1. call' = call /\ quiet' = quiet /\ \A q \in Ports : sent[q] = 0 => sent'[q] = 0
    BY <1>4 DEF Clear, TypeOK
  <2> QED
    BY <2>1 DEF ReadsHold, At
<1>5. CASE UNCHANGED vars
  BY <1>5 DEF vars, ReadsHold, At
<1> QED
  BY <1>1, <1>2, <1>3, <1>4, <1>5 DEF Next

-----------------------------------------------------------------------------
LEMMA InitPortInv == Init => PortInv
<1> SUFFICES ASSUME Init PROVE PortInv
  OBVIOUS
<1>1. \A c \in Procs : Idle(c) /\ ~At(c, "check")
  BY DEF Init, NoCall, Idle, At
<1>2. 0 \in 0 .. MaxCount /\ SRCR \in Addresses
  BY PortAssumption DEF Addresses
<1>3. TypeOK
  BY <1>1, <1>2 DEF Init, TypeOK
<1> QED
  BY <1>1, <1>2, <1>3 DEF Init, PortInv, PlaceIsOfCall, NoStrayReset, ReadsHold

LEMMA PortInvStep == PortInv /\ [Next]_vars => PortInv'
BY TypeStep, ResetStep, ReadsStep DEF PortInv

LEMMA PortInvHolds == Spec => []PortInv
BY InitPortInv, PortInvStep, PTL DEF Spec

(* The registers, the counters and the calls keep their form. *)
THEOREM PortTypeCorrect == Spec => []TypeOK
BY PortInvHolds, PTL DEF PortInv

(* The reset of the counters is on only in the pulse of a process, or      *)
(* after one has died in its pulse.                                        *)
THEOREM ResetEnds == Spec => []NoStrayReset
BY PortInvHolds, PTL DEF PortInv

(* A reset that read every counter as 0 has cleared them, when no frame    *)
(* was sent since it began.                                                *)
THEOREM ZerosAreTrue == Spec => ResetClears
<1>1. PortInv /\ [Next]_vars =>
        [\A c \in Procs : ReadZeros(c) /\ quiet[c] => \A p \in Ports : sent[p] = 0]_vars
  <2> SUFFICES ASSUME PortInv, Next, NEW c \in Procs, ReadZeros(c), quiet[c], NEW p \in Ports
               PROVE  sent[p] = 0
    OBVIOUS
  <2> USE DEF PortInv
  <2>1. At(c, "check") /\ call'[c].pc = "idle" /\ call[c] \in Calls
    BY AskShape DEF ReadZeros, At, Idle
  <2>2. call' # call /\ call'[c] # call[c]
    BY <2>1 DEF At
  <2>3. PICK d \in Procs : CallStep(d) \/ Crash(d) \/ \E r \in Requests[d] : Begin(d, r)
    BY <2>2 DEF Next, Send, Clear
  <2>4. d = c
    BY <2>2, <2>3, StepFollows, BeginFollows DEF CallsFollow
  <2>5. Check(c)
    BY <2>1, <2>3, <2>4
       DEF At, CallStep, Crash, SetPortMode, SetPortActive, ReadPmsr, SetLatency, ReadWmcr,
           WriteWmcr, WriteCntr, WriteNmsr, WriteMasr, WriteIpsr, Look, PulseOn, PulseOff,
           Begin, Idle
  <2>6. call[c].at = NPorts - 1 /\ sent[call[c].at] = 0
    <3>1. /\ sent[call[c].at] # 0 => call'[c] = [call[c] EXCEPT !.pc = "on"]
          /\ sent[call[c].at] = 0 /\ call[c].at # NPorts - 1 =>
               call'[c] = [call[c] EXCEPT !.at = call[c].at + 1]
      BY <2>5 DEF Check, TypeOK
    <3> QED
      BY <2>1, <3>1 DEF Calls, At
  <2>7. p < call[c].at \/ p = call[c].at
    BY <2>6, PortAssumption DEF Ports
  <2> QED
    BY <2>1, <2>6, <2>7 DEF ReadsHold
<1> QED
  BY <1>1, PortInvHolds, PTL DEF Spec, ResetClears

-----------------------------------------------------------------------------
(* Settings *)

(* What the code relies on: no two processes use the same read-modify-     *)
(* write of PMSR or name the same port, and none dies while it names one.  *)
OneWriter ==
  /\ "network" \notin Crashes
  /\ \A c, d \in Procs : c # d =>
       \A r \in Requests[c], s \in Requests[d] : r.port = s.port =>
         /\ ~(r.op \in {"mode", "latency"} /\ s.op = "latency")
         /\ ~(r.op = "network" /\ s.op = "network")

(* What setLatency has read of PMSR is still there; what was written of an *)
(* identity too.                                                           *)
ChecksAreFresh == \A c \in Procs : At(c, "pmsr") => call[c].val = reg[Own(c, PMSR)]
NamedSoFar ==
  \A c \in Procs :
    /\ call[c].pc \in {"masr", "ipsr"} => reg[Own(c, NMSR)] = Ask(c).val[1]
    /\ At(c, "ipsr") => reg[Own(c, MASR)] = Ask(c).val[2]
SettingInv == PortInv /\ ChecksAreFresh /\ NamedSoFar

(* The register that a call writes next. *)
Registers(pc) ==
  CASE pc \in {"mode", "pmsr"} -> {PMSR}
    [] pc = "active"  -> {PECR}
    [] pc = "wmcr"    -> {WMCR}
    [] pc = "cntr"    -> {CNTR}
    [] pc = "network" -> {NMSR}
    [] pc = "masr"    -> {MASR}
    [] pc = "ipsr"    -> {IPSR}
    [] OTHER          -> {}

WritesOwn(c) ==
  \A q \in Ports, r \in PerPort :
    reg'[Port(q) + r] # reg[Port(q) + r] => q = Ask(c).port /\ r \in Registers(call[c].pc)

LEMMA StepWrites ==
  ASSUME TypeOK, NEW c \in Procs, CallStep(c) \/ Crash(c)
  PROVE  WritesOwn(c)
<1>1. ASSUME NEW s \in PerPort, NEW v, Write(Own(c, s), v), s \in Registers(call[c].pc), ~Idle(c)
      PROVE  WritesOwn(c)
  <2> SUFFICES ASSUME NEW q \in Ports, NEW r \in PerPort,
                      reg'[Port(q) + r] # reg[Port(q) + r]
               PROVE  q = Ask(c).port /\ r \in Registers(call[c].pc)
    BY DEF WritesOwn
  <2>1. Ask(c).port \in Ports
    BY <1>1, AskShape
  <2>2. Port(q) + r = Own(c, s)
    BY <1>1, AddressesApart DEF Write, TypeOK
  <2> QED
    BY <1>1, <2>1, <2>2, AddressesApart DEF Own
<1>2. ASSUME NEW v, Write(SRCR, v) PROVE WritesOwn(c)
  BY <1>2, AddressesApart DEF Write, TypeOK, WritesOwn
<1>3. CASE \/ SetPortMode(c) \/ SetPortActive(c) \/ SetLatency(c) \/ WriteWmcr(c)
           \/ WriteCntr(c) \/ WriteNmsr(c) \/ WriteMasr(c) \/ WriteIpsr(c)
  <2>1. ~Idle(c)
    BY <1>3 DEF SetPortMode, SetPortActive, SetLatency, WriteWmcr, WriteCntr, WriteNmsr,
                WriteMasr, WriteIpsr, At, Idle
  <2>2. \E s \in PerPort : \E v : Write(Own(c, s), v) /\ s \in Registers(call[c].pc)
    BY <1>3 DEF SetPortMode, SetPortActive, SetLatency, WriteWmcr, WriteCntr, WriteNmsr,
                WriteMasr, WriteIpsr, PerPort, Registers, At
  <2> QED
    BY <1>1, <2>1, <2>2
<1>4. CASE PulseOn(c) \/ PulseOff(c)
  BY <1>2, <1>4 DEF PulseOn, PulseOff
<1>5. CASE ReadPmsr(c) \/ ReadWmcr(c) \/ Look(c) \/ Check(c) \/ Crash(c)
  BY <1>5 DEF ReadPmsr, ReadWmcr, Look, Check, Crash, WritesOwn
<1> QED
  BY <1>3, <1>4, <1>5 DEF CallStep

LEMMA NobodyElse ==
  ASSUME TypeOK, PlaceIsOfCall, OneWriter, NEW c \in Procs, NEW d \in Procs, c # d,
         ~Idle(c), Ask(c).port = Ask(d).port
  PROVE  /\ At(d, "pmsr") => PMSR \notin Registers(call[c].pc)
         /\ call[d].pc \in {"masr", "ipsr"} =>
              /\ call[c].pc \notin {"network", "masr", "ipsr"}
              /\ {NMSR, MASR, IPSR} \cap Registers(call[c].pc) = {}
<1>1. Ask(c) \in Requests[c] /\ Ask(c).op = Op(call[c].pc)
  BY AskShape DEF PlaceIsOfCall
<1>2. ~Idle(d) => Ask(d) \in Requests[d] /\ Ask(d).op = Op(call[d].pc)
  BY AskShape DEF PlaceIsOfCall
<1>3. ASSUME At(d, "pmsr") PROVE PMSR \notin Registers(call[c].pc)
  <2>1. ~Idle(d) /\ Op(call[d].pc) = "latency"
    BY <1>3 DEF At, Idle, Op
  <2>2. Op(call[c].pc) \notin {"mode", "latency"}
    BY <1>1, <1>2, <2>1 DEF OneWriter
  <2>3. call[c].pc \notin {"mode", "pmsr"}
    BY <2>2 DEF Op
  <2> QED
    BY <2>3 DEF Registers, PMSR, PECR, WMCR, CNTR, NMSR, MASR, IPSR
<1>4. ASSUME call[d].pc \in {"masr", "ipsr"}
      PROVE  /\ call[c].pc \notin {"network", "masr", "ipsr"}
             /\ {NMSR, MASR, IPSR} \cap Registers(call[c].pc) = {}
  <2>1. ~Idle(d) /\ Op(call[d].pc) = "network"
    BY <1>4 DEF Idle, Op
  <2>2. Op(call[c].pc) # "network"
    BY <1>1, <1>2, <2>1 DEF OneWriter
  <2>3. call[c].pc \notin {"network", "masr", "ipsr"}
    BY <2>2 DEF Op
  <2> QED
    BY <2>3 DEF Registers, PMSR, PECR, WMCR, CNTR, NMSR, MASR, IPSR
<1> QED
  BY <1>3, <1>4

(* The places that follow those at which something is remembered. *)
LEMMA NextPlace ==
  ASSUME TypeOK, PlaceIsOfCall, NEW c \in Procs, CallStep(c) \/ Crash(c)
  PROVE  /\ call'[c].pc = "pmsr" => ReadPmsr(c)
         /\ call'[c].pc = "masr" => WriteNmsr(c)
         /\ call'[c].pc = "ipsr" => WriteMasr(c)
<1>1. ~Idle(c) => call[c] \in Calls
  BY AskShape
<1>2. ASSUME SetPortMode(c) \/ SetPortActive(c) \/ SetLatency(c) \/ WriteCntr(c)
             \/ WriteIpsr(c) \/ Crash(c)
      PROVE  call'[c].pc = "idle"
  <2>1. call'[c] = NoCall
    BY <1>2, CallsStay
       DEF SetPortMode, SetPortActive, SetLatency, WriteCntr, WriteIpsr, Crash, Return
  <2> QED
    BY <2>1 DEF NoCall
<1>3. ASSUME WriteWmcr(c) PROVE call'[c].pc = "cntr"
  <2>1. call[c] \in Calls
    BY <1>1, <1>3 DEF WriteWmcr, At, Idle
  <2>2. call'[c] = [call[c] EXCEPT !.pc = "cntr"]
    BY <1>3 DEF WriteWmcr, Goto, TypeOK
  <2> QED
    BY <2>1, <2>2 DEF Calls
<1>4. ASSUME WriteNmsr(c) PROVE call'[c].pc = "masr"
  <2>1. call[c] \in Calls
    BY <1>1, <1>4 DEF WriteNmsr, At, Idle
  <2>2. call'[c] = [call[c] EXCEPT !.pc = "masr"]
    BY <1>4 DEF WriteNmsr, Goto, TypeOK
  <2> QED
    BY <2>1, <2>2 DEF Calls
<1>5. ASSUME WriteMasr(c) PROVE call'[c].pc = "ipsr"
  <2>1. call[c] \in Calls
    BY <1>1, <1>5 DEF WriteMasr, At, Idle
  <2>2. call'[c] = [call[c] EXCEPT !.pc = "ipsr"]
    BY <1>5 DEF WriteMasr, Goto, TypeOK
  <2> QED
    BY <2>1, <2>2 DEF Calls
<1>6. ASSUME ReadWmcr(c) PROVE call'[c].pc = "wmcr"
  <2>1. call[c] \in Calls
    BY <1>1, <1>6 DEF ReadWmcr, At, Idle
  <2>2. call'[c] = [call[c] EXCEPT !.pc = "wmcr", !.val = reg[Own(c, WMCR)]]
    BY <1>6 DEF ReadWmcr, TypeOK
  <2> QED
    BY <2>1, <2>2 DEF Calls
<1>7. ASSUME Look(c) \/ PulseOn(c) \/ PulseOff(c) \/ Check(c)
      PROVE  call'[c].pc \notin {"pmsr", "masr", "ipsr"}
  <2>1. Ask(c).op = "reset"
    BY <1>7 DEF Look, PulseOn, PulseOff, Check, At, Idle, PlaceIsOfCall, Op
  <2>2. call'[c] = NoCall \/ Op(call'[c].pc) = "reset"
    BY <1>7, <2>1, StepFollows DEF CallStep, CallsFollow, GoesOn
  <2> QED
    BY <2>2 DEF Op, NoCall
<1>8. ASSUME ReadPmsr(c) PROVE call'[c].pc = "pmsr"
  <2>1. call[c] \in Calls
    BY <1>1, <1>8 DEF ReadPmsr, At, Idle
  <2>2. call'[c] = [call[c] EXCEPT !.pc = "pmsr", !.val = reg[Own(c, PMSR)]]
    BY <1>8 DEF ReadPmsr, TypeOK
  <2> QED
    BY <2>1, <2>2 DEF Calls
<1> QED
  BY <1>2, <1>3, <1>4, <1>5, <1>6, <1>7, <1>8 DEF CallStep

LEMMA SettingStep ==
  OneWriter /\ SettingInv /\ [Next]_vars => ChecksAreFresh' /\ NamedSoFar'
<1> SUFFICES ASSUME OneWriter, SettingInv, [Next]_vars PROVE ChecksAreFresh' /\ NamedSoFar'
  OBVIOUS
<1> USE DEF SettingInv, PortInv
<1>1. ASSUME NEW c \in Procs, CallStep(c) \/ Crash(c) PROVE ChecksAreFresh' /\ NamedSoFar'
  <2>1. \A d \in Procs \ {c} : call'[d] = call[d]
    BY <1>1, StepFollows DEF CallsFollow
  <2>2. WritesOwn(c) /\ ~Idle(c)
    BY <1>1, StepWrites DEF CallStep, Crash, SetPortMode, SetPortActive, ReadPmsr, SetLatency,
         ReadWmcr, WriteWmcr, WriteCntr, WriteNmsr, WriteMasr, WriteIpsr, Look, PulseOn,
         PulseOff, Check, At, Idle
  <2>3. ASSUME NEW d \in Procs \ {c}, At(d, "pmsr") PROVE reg'[Own(d, PMSR)] = reg[Own(d, PMSR)]
    <3>1. Ask(d).port \in Ports /\ PMSR \in PerPort
      BY <2>3, AskShape DEF At, Idle, PerPort
    <3>2. Ask(c).port = Ask(d).port => PMSR \notin Registers(call[c].pc)
      BY <2>2, <2>3, NobodyElse
    <3> QED
      BY <2>2, <3>1, <3>2 DEF WritesOwn, Own
  <2>4. ASSUME NEW d \in Procs \ {c}, call[d].pc \in {"masr", "ipsr"}
        PROVE  \A r \in {NMSR, MASR} : reg'[Own(d, r)] = reg[Own(d, r)]
    <3>1. Ask(d).port \in Ports /\ NMSR \in PerPort /\ MASR \in PerPort
      BY <2>4, AskShape DEF Idle, PerPort
    <3>2. Ask(c).port = Ask(d).port => {NMSR, MASR, IPSR} \cap Registers(call[c].pc) = {}
      BY <2>2, <2>4, NobodyElse
    <3> QED
      BY <2>2, <3>1, <3>2 DEF WritesOwn, Own
  <2>5. \A d \in Procs \ {c} :
          /\ At(d, "pmsr")' => call'[d].val = reg'[Own(d, PMSR)']
          /\ call'[d].pc \in {"masr", "ipsr"} => reg'[Own(d, NMSR)'] = Ask(d)'.val[1]
          /\ At(d, "ipsr")' => reg'[Own(d, MASR)'] = Ask(d)'.val[2]
    <3>1. \A d \in Procs \ {c} : \A r \in PerPort : Own(d, r)' = Own(d, r) /\ Ask(d)' = Ask(d)
      BY <2>1 DEF Own, Ask
    <3>2. PMSR \in PerPort /\ NMSR \in PerPort /\ MASR \in PerPort
      BY DEF PerPort
    <3> QED
      BY <2>1, <2>3, <2>4, <3>1, <3>2 DEF At, ChecksAreFresh, NamedSoFar
  <2>6. Ask(c)' = Ask(c) \/ Idle(c)'
    BY <1>1, StepFollows DEF CallsFollow, GoesOn, NoCall, Idle
  <2>7. \A r \in PerPort : Ask(c)' = Ask(c) => Own(c, r)' = Own(c, r)
    BY DEF Own
  <2>8. Ask(c).port \in Ports /\ PMSR \in PerPort /\ NMSR \in PerPort /\ MASR \in PerPort
    BY <2>2, AskShape DEF PerPort
  <2>9. \A r \in PerPort : Own(c, r) \in Addresses
    BY <2>8, AddressesApart DEF Own
  <2>10. ASSUME At(c, "pmsr")' PROVE call'[c].val = reg'[Own(c, PMSR)']
    <3>1. ReadPmsr(c)
      BY <1>1, <2>10, NextPlace DEF At
    <3>2. call[c] \in Calls
      BY <2>2, AskShape
    <3>3. call'[c] = [call[c] EXCEPT !.pc = "pmsr", !.val = reg[Own(c, PMSR)]] /\ reg' = reg
      BY <3>1 DEF ReadPmsr, TypeOK
    <3>4. call'[c].val = reg[Own(c, PMSR)]
      BY <3>2, <3>3 DEF Calls
    <3> QED
      BY <2>6, <2>7, <2>8, <2>10, <3>3, <3>4 DEF At, Idle
  <2>11. ASSUME call'[c].pc = "masr" PROVE reg'[Own(c, NMSR)'] = Ask(c)'.val[1]
    <3>1. WriteNmsr(c)
      BY <1>1, <2>11, NextPlace
    <3>2. reg'[Own(c, NMSR)] = Ask(c).val[1]
      BY <2>8, <2>9, <3>1 DEF WriteNmsr, Write, TypeOK
    <3> QED
      BY <2>6, <2>7, <2>8, <2>11, <3>2 DEF Idle
  <2>12. ASSUME At(c, "ipsr")'
         PROVE  reg'[Own(c, NMSR)'] = Ask(c)'.val[1] /\ reg'[Own(c, MASR)'] = Ask(c)'.val[2]
    <3>1. WriteMasr(c) /\ At(c, "masr")
      BY <1>1, <2>12, NextPlace DEF At, WriteMasr
    <3>2. reg'[Own(c, MASR)] = Ask(c).val[2]
      BY <2>8, <2>9, <3>1 DEF WriteMasr, Write, TypeOK
    <3>3. NMSR \notin Registers(call[c].pc)
      BY <3>1 DEF At, Registers, NMSR, MASR
    <3>4. reg'[Own(c, NMSR)] = reg[Own(c, NMSR)]
      BY <2>2, <2>8, <3>3 DEF WritesOwn, Own
    <3>5. reg[Own(c, NMSR)] = Ask(c).val[1]
      BY <3>1 DEF NamedSoFar, At
    <3> QED
      BY <2>6, <2>7, <2>8, <2>12, <3>2, <3>4, <3>5 DEF Idle, At
  <2> QED
    BY <2>5, <2>10, <2>11, <2>12 DEF ChecksAreFresh, NamedSoFar, At
<1>2. ASSUME NEW c \in Procs, NEW r \in Requests[c], Begin(c, r) PROVE ChecksAreFresh' /\ NamedSoFar'
  <2>1. call'[c].pc \notin {"pmsr", "masr", "ipsr"}
    <3>1. call'[c] = [NoCall EXCEPT !.pc = First(r), !.ask = r] /\ r \in Request
      BY <1>2, PortAssumption DEF Begin, TypeOK
    <3>2. call'[c].pc = First(r)
      BY <3>1 DEF NoCall
    <3> QED
      BY <3>1, <3>2, FirstPlace
  <2>2. reg' = reg /\ \A d \in Procs \ {c} : call'[d] = call[d]
    BY <1>2, BeginFollows DEF Begin
  <2> QED
    BY <2>1, <2>2 DEF ChecksAreFresh, NamedSoFar, At, Own, Ask
<1>3. CASE reg' = reg /\ call' = call
  BY <1>3 DEF ChecksAreFresh, NamedSoFar, At, Own, Ask
<1> QED
  BY <1>1, <1>2, <1>3 DEF Next, vars, Send, Clear

LEMMA SettingInvHolds == ASSUME OneWriter PROVE Spec => []SettingInv
<1>1. Init => SettingInv
  <2> SUFFICES ASSUME Init PROVE SettingInv
    OBVIOUS
  <2>1. \A c \in Procs : call[c].pc = "idle"
    BY DEF Init, NoCall
  <2> QED
    BY <2>1, InitPortInv DEF SettingInv, ChecksAreFresh, NamedSoFar, At
<1>2. SettingInv /\ [Next]_vars => SettingInv'
  BY PortInvStep, SettingStep DEF SettingInv
<1> QED
  BY <1>1, <1>2, PTL DEF Spec

-----------------------------------------------------------------------------
(* The refinement *)

Identity(p) ==
  IF Naming(p) = {}
  THEN <<reg[Port(p) + NMSR], reg[Port(p) + MASR], reg[Port(p) + IPSR]>>
  ELSE Ask(CHOOSE c \in Naming(p) : TRUE).val
SettingOf(p) ==
  [mode     |-> reg[Port(p) + PMSR] \ Checks,
   checks   |-> reg[Port(p) + PMSR] \cap Checks,
   active   |-> reg[Port(p) + PECR],
   command  |-> reg[Port(p) + CNTR],
   identity |-> Identity(p)]

LEMMA SettingsByPort == Settings = [p \in Ports |-> SettingOf(p)]
BY DEF Settings, SettingOf, Identity
LEMMA SettingsNext == Settings' = [p \in Ports |-> SettingOf(p)']
BY DEF Settings, SettingOf, Identity

SameRegisters(p, S) == \A r \in S : reg'[Port(p) + r] = reg[Port(p) + r]

LEMMA SameSetting ==
  ASSUME NEW p, SameRegisters(p, {PMSR, PECR, CNTR}), Identity(p)' = Identity(p)
  PROVE  SettingOf(p)' = SettingOf(p)
<1>1. Port(p)' = Port(p) /\ Checks' = Checks
  BY DEF Port, Checks
<1> QED
  BY <1>1 DEF SettingOf, SameRegisters, PMSR, PECR, CNTR

LEMMA SameIdentity ==
  ASSUME NEW p, Naming(p)' = Naming(p), \A c \in Naming(p) : Ask(c)' = Ask(c),
         Naming(p) # {} \/ SameRegisters(p, {NMSR, MASR, IPSR})
  PROVE  Identity(p)' = Identity(p)
<1>1. CASE Naming(p) = {}
  BY <1>1 DEF Identity, SameRegisters
<1>2. CASE Naming(p) # {}
  <2>1. PICK d : d = CHOOSE c \in Naming(p) : TRUE
    OBVIOUS
  <2>2. d \in Naming(p)
    BY <1>2, <2>1
  <2>3. Identity(p) = Ask(d).val
    BY <1>2, <2>1 DEF Identity
  <2>4. Identity(p)' = Ask(d)'.val
    BY <1>2, <2>1 DEF Identity
  <2> QED
    BY <2>2, <2>3, <2>4
<1> QED
  BY <1>1, <1>2

(* Who names a port changes only by the steps of an identity. *)
LEMMA SameNaming ==
  ASSUME TypeOK, PlaceIsOfCall, NEW c \in Procs, CallsFollow(c) \/ (\A d \in Procs \ {c} : call'[d] = call[d]),
         call[c].pc \notin {"masr", "ipsr"}, call'[c].pc \notin {"masr", "ipsr"}, NEW p
  PROVE  Naming(p)' = Naming(p) /\ \A d \in Naming(p) : Ask(d)' = Ask(d)
<1>1. \A d \in Procs \ {c} : call'[d] = call[d]
  BY DEF CallsFollow
<1> QED
  BY <1>1 DEF Naming, Ask

LEMMA StepIsSettingStep ==
  OneWriter /\ SettingInv /\ [Next]_vars =>
    (\E r \in Told : Abstract!Do(r)) \/ Settings' = Settings
<1> SUFFICES ASSUME OneWriter, SettingInv, [Next]_vars
             PROVE  (\E r \in Told : Abstract!Do(r)) \/ Settings' = Settings
  OBVIOUS
<1> DEFINE Goal == (\E r \in Told : Abstract!Do(r)) \/ Settings' = Settings
<1> USE DEF SettingInv, PortInv
<1>a. ASSUME \A p \in Ports : SettingOf(p)' = SettingOf(p) PROVE Goal
  <2>1. [p \in Ports |-> SettingOf(p)'] = [p \in Ports |-> SettingOf(p)]
    BY <1>a
  <2> QED
    BY <2>1, SettingsByPort, SettingsNext
<1>b. ASSUME NEW c \in Procs, ~Idle(c), Ask(c).op # "reset", NEW p \in Ports, p = Ask(c).port,
             SettingOf(p)' = Abstract!After(SettingOf(p), Ask(c)),
             \A q \in Ports \ {p} : SettingOf(q)' = SettingOf(q)
      PROVE  Goal
  <2>1. Ask(c) \in Told
    BY <1>b, AskShape DEF Told
  <2> DEFINE S == [q \in Ports |-> SettingOf(q)]
             T == [q \in Ports |-> SettingOf(q)']
  <2>2. T = [S EXCEPT ![p] = Abstract!After(S[p], Ask(c))]
    BY <1>b
  <2>3. Settings = S /\ Settings' = T
    BY SettingsByPort, SettingsNext
  <2> HIDE DEF S, T
  <2>4. Settings' = [Settings EXCEPT ![p] = Abstract!After(Settings[p], Ask(c))]
    BY <2>2, <2>3
  <2> QED
    BY <1>b, <2>1, <2>4 DEF Abstract!Do
<1>1. ASSUME NEW c \in Procs, CallStep(c) \/ Crash(c) PROVE Goal
  <2>1. ~Idle(c)
    BY <1>1 DEF CallStep, Crash, SetPortMode, SetPortActive, ReadPmsr, SetLatency,
         ReadWmcr, WriteWmcr, WriteCntr, WriteNmsr, WriteMasr, WriteIpsr, Look, PulseOn,
         PulseOff, Check, At, Idle
  <2>p. PICK p \in Ports : p = Ask(c).port
    BY <2>1, AskShape
  <2>2. CallsFollow(c) /\ WritesOwn(c)
    BY <1>1, StepFollows, StepWrites
  <2>3. /\ \A d \in Procs \ {c} : call'[d] = call[d] /\ Ask(d)' = Ask(d)
        /\ Ask(c)' = Ask(c) \/ call'[c].pc = "idle"
        /\ Ask(c).op = Op(call[c].pc)
    BY <2>1, <2>p, <2>2 DEF CallsFollow, GoesOn, Ask, NoCall, PlaceIsOfCall
  <2>4. \A q \in Ports \ {p} :
          SameRegisters(q, {PMSR, PECR, CNTR}) /\ SameRegisters(q, {NMSR, MASR, IPSR})
    BY <2>p, <2>2 DEF WritesOwn, SameRegisters, PerPort
  <2>5. \A q \in Ports \ {p} :
          Naming(q)' = Naming(q) /\ \A d \in Naming(q) : Ask(d)' = Ask(d)
    BY <2>p, <2>3 DEF Naming, NoCall
  <2>6. \A q \in Ports \ {p} : SettingOf(q)' = SettingOf(q)
    BY <2>4, <2>5, SameIdentity, SameSetting
  <2>7. CASE call[c].pc \notin {"network", "masr", "ipsr"}
    <3>1. call'[c].pc \notin {"masr", "ipsr"}
      BY <1>1, <2>7, NextPlace DEF WriteNmsr, WriteMasr, At
    <3>2. Naming(p)' = Naming(p) /\ \A d \in Naming(p) : Ask(d)' = Ask(d)
      BY <2>p, <2>2, <2>7, <3>1, SameNaming
    <3>3. Registers(call[c].pc) \cap {NMSR, MASR, IPSR} = {}
      BY <2>7 DEF Registers, PMSR, PECR, WMCR, CNTR, NMSR, MASR, IPSR
    <3>4. SameRegisters(p, {NMSR, MASR, IPSR})
      BY <2>p, <2>2, <3>3 DEF WritesOwn, SameRegisters, PerPort
    <3>5. Identity(p)' = Identity(p)
      BY <3>2, <3>4, SameIdentity
    <3>6. ASSUME Registers(call[c].pc) \cap {PMSR, PECR, CNTR} = {} PROVE Goal
      <4>1. SameRegisters(p, {PMSR, PECR, CNTR})
        BY <2>p, <2>2, <3>6 DEF WritesOwn, SameRegisters, PerPort
      <4> QED
        BY <1>a, <2>6, <3>5, <4>1, SameSetting
    <3>7. ASSUME reg' = reg PROVE Goal
      BY <1>a, <2>6, <3>5, <3>7, SameSetting DEF SameRegisters
    <3>8. \A s \in PerPort : \A v : Write(Own(c, s), v) =>
            reg'[Port(p) + s] = v /\ SameRegisters(p, PerPort \ {s})
      <4> SUFFICES ASSUME NEW s \in PerPort, NEW v, Write(Own(c, s), v)
                   PROVE  reg'[Port(p) + s] = v /\ SameRegisters(p, PerPort \ {s})
        OBVIOUS
      <4>1. Port(p) + s \in Addresses /\ Own(c, s) = Port(p) + s
        BY <2>p, <2>2, AddressesApart DEF Own
      <4>2. reg' = [reg EXCEPT ![Port(p) + s] = v]
        BY <4>1 DEF Write
      <4>3. \A r \in PerPort \ {s} : Port(p) + r # Port(p) + s
        BY <2>p, <2>2, AddressesApart
      <4> QED
        BY <4>1, <4>2, <4>3 DEF TypeOK, SameRegisters
    <3>9. CASE SetPortMode(c)
      <4>1. Ask(c).op = "mode" /\ Ask(c).val \in {{}, {0}}
        BY <2>1, <2>3, <3>9, ValueShape DEF SetPortMode, At, Op
      <4>2. reg'[Port(p) + PMSR] = Ask(c).val /\ SameRegisters(p, PerPort \ {PMSR})
        BY <3>8, <3>9 DEF SetPortMode, PerPort
      <4>3. reg'[Port(p) + PECR] = reg[Port(p) + PECR] /\ reg'[Port(p) + CNTR] = reg[Port(p) + CNTR]
        BY <4>2 DEF SameRegisters, PerPort, PMSR, PECR, CNTR
      <4>4. Ask(c).val \ Checks = Ask(c).val /\ Ask(c).val \cap Checks = {}
        BY <4>1 DEF Checks
      <4> DEFINE s == SettingOf(p)
                 t == [s EXCEPT !.mode = Ask(c).val, !.checks = {}]
      <4>5. SettingOf(p)' = [mode |-> Ask(c).val, checks |-> {}, active |-> s.active,
                             command |-> s.command, identity |-> s.identity]
        BY <3>5, <4>2, <4>3, <4>4 DEF SettingOf, Port, Checks, PMSR, PECR, CNTR
      <4>6. t \in [mode : {Ask(c).val}, checks : {{}}, active : {s.active},
                   command : {s.command}, identity : {s.identity}]
        BY DEF SettingOf
      <4>7. SettingOf(p)' = t
        <5> HIDE DEF s, t
        <5> QED
          BY <4>5, <4>6
      <4>8. SettingOf(p)' = Abstract!After(SettingOf(p), Ask(c))
        BY <4>1, <4>7 DEF Abstract!After
      <4> QED
        BY <1>b, <2>p, <2>1, <2>6, <4>1, <4>8
    <3>10. CASE SetLatency(c)
      <4>1. Ask(c).op = "latency" /\ Ask(c).val \in SUBSET Checks /\ At(c, "pmsr")
        BY <2>1, <2>3, <3>10, ValueShape DEF SetLatency, At, Op
      <4>2. /\ reg'[Port(p) + PMSR] = (reg[Port(p) + PMSR] \ Checks) \cup Ask(c).val
            /\ SameRegisters(p, PerPort \ {PMSR})
        BY <3>8, <3>10, <4>1, <2>p DEF SetLatency, PerPort, ChecksAreFresh, Own
      <4>3. reg'[Port(p) + PECR] = reg[Port(p) + PECR] /\ reg'[Port(p) + CNTR] = reg[Port(p) + CNTR]
        BY <4>2 DEF SameRegisters, PerPort, PMSR, PECR, CNTR
      <4>4. /\ reg'[Port(p) + PMSR] \ Checks = reg[Port(p) + PMSR] \ Checks
            /\ reg'[Port(p) + PMSR] \cap Checks = Ask(c).val
        BY <4>1, <4>2
      <4>5. SettingOf(p)' = [SettingOf(p) EXCEPT !.checks = Ask(c).val]
        BY <3>5, <4>3, <4>4 DEF SettingOf, Port, Checks, PMSR, PECR, CNTR
      <4>6. SettingOf(p)' = Abstract!After(SettingOf(p), Ask(c))
        BY <4>1, <4>5 DEF Abstract!After
      <4> QED
        BY <1>b, <2>p, <2>1, <2>6, <4>1, <4>6
    <3>11. CASE SetPortActive(c)
      <4>1. Ask(c).op = "active"
        BY <2>3, <3>11 DEF SetPortActive, At, Op
      <4>2. reg'[Port(p) + PECR] = Ask(c).val /\ SameRegisters(p, PerPort \ {PECR})
        BY <3>8, <3>11 DEF SetPortActive, PerPort
      <4>3. reg'[Port(p) + PMSR] = reg[Port(p) + PMSR] /\ reg'[Port(p) + CNTR] = reg[Port(p) + CNTR]
        BY <4>2 DEF SameRegisters, PerPort, PMSR, PECR, CNTR
      <4>4. SettingOf(p)' = [SettingOf(p) EXCEPT !.active = Ask(c).val]
        BY <3>5, <4>2, <4>3 DEF SettingOf, Port, Checks, PMSR, PECR, CNTR
      <4>5. SettingOf(p)' = Abstract!After(SettingOf(p), Ask(c))
        BY <4>1, <4>4 DEF Abstract!After
      <4> QED
        BY <1>b, <2>p, <2>1, <2>6, <4>1, <4>5
    <3>12. CASE WriteCntr(c)
      <4>1. Ask(c).op = "command"
        BY <2>3, <3>12 DEF WriteCntr, At, Op
      <4>2. reg'[Port(p) + CNTR] = Ask(c).val /\ SameRegisters(p, PerPort \ {CNTR})
        BY <3>8, <3>12 DEF WriteCntr, PerPort
      <4>3. reg'[Port(p) + PMSR] = reg[Port(p) + PMSR] /\ reg'[Port(p) + PECR] = reg[Port(p) + PECR]
        BY <4>2 DEF SameRegisters, PerPort, PMSR, PECR, CNTR
      <4>4. SettingOf(p)' = [SettingOf(p) EXCEPT !.command = Ask(c).val]
        BY <3>5, <4>2, <4>3 DEF SettingOf, Port, Checks, PMSR, PECR, CNTR
      <4>5. SettingOf(p)' = Abstract!After(SettingOf(p), Ask(c))
        BY <4>1, <4>4 DEF Abstract!After
      <4> QED
        BY <1>b, <2>p, <2>1, <2>6, <4>1, <4>5
    <3>13. CASE ReadPmsr(c) \/ ReadWmcr(c) \/ Look(c) \/ Check(c) \/ Crash(c)
      BY <3>7, <3>13 DEF ReadPmsr, ReadWmcr, Look, Check, Crash
    <3>14. CASE WriteWmcr(c) \/ PulseOn(c) \/ PulseOff(c)
      <4>1. Registers(call[c].pc) \cap {PMSR, PECR, CNTR} = {}
        BY <3>14 DEF WriteWmcr, PulseOn, PulseOff, At, Registers, PMSR, PECR, WMCR, CNTR
      <4> QED
        BY <3>6, <4>1
    <3> QED
      BY <1>1, <2>7, <3>9, <3>10, <3>11, <3>12, <3>13, <3>14
         DEF CallStep, WriteNmsr, WriteMasr, WriteIpsr, At
  <2>8. CASE call[c].pc \in {"network", "masr", "ipsr"}
    <3>1. WriteNmsr(c) \/ WriteMasr(c) \/ WriteIpsr(c)
      <4>1. Ask(c).op = "network"
        BY <2>3, <2>8 DEF Op
      <4>2. ~Crash(c)
        BY <4>1 DEF Crash, OneWriter
      <4> QED
        BY <1>1, <2>8, <4>2
           DEF CallStep, SetPortMode, SetPortActive, ReadPmsr, SetLatency, ReadWmcr, WriteWmcr,
               WriteCntr, Look, PulseOn, PulseOff, Check, At
    <3>2. SameRegisters(p, {PMSR, PECR, CNTR})
      <4>1. Registers(call[c].pc) \cap {PMSR, PECR, CNTR} = {}
        BY <2>8 DEF Registers, PMSR, PECR, CNTR, NMSR, MASR, IPSR
      <4> QED
        BY <2>p, <2>2, <4>1 DEF WritesOwn, SameRegisters, PerPort
    <3>3. Ask(c).val \in {<<m, a, i>> : m, a, i \in SUBSET Bits}
      BY <2>1, <2>8, ValueShape
    <3>4. \A d \in Procs \ {c} : Ask(d).port = p => call[d].pc \notin {"masr", "ipsr"}
      BY <2>p, <2>1, <2>8, NobodyElse DEF Idle
    <3>5. \A d \in Procs \ {c} : d \notin Naming(p) /\ d \notin Naming(p)'
      BY <2>p, <2>3, <3>4 DEF Naming
    <3>6. /\ At(c, "network") => Naming(p) = {}
          /\ ~At(c, "network") => Naming(p) = {c}
      BY <2>p, <2>8, <3>5 DEF Naming, At
    <3>7. Naming(p) = {c} => Identity(p) = Ask(c).val
      BY DEF Identity
    <3>8. \A q : Naming(q)' = {c} => Identity(q)' = Ask(c)'.val
      BY DEF Identity
    <3>9. CASE WriteNmsr(c) \/ WriteMasr(c)
      <4>1. call'[c].pc \in {"masr", "ipsr"}
        <5>1. call[c] \in Calls
          BY <2>1, AskShape
        <5>2. \E pc \in {"masr", "ipsr"} : call'[c] = [call[c] EXCEPT !.pc = pc]
          BY <3>9 DEF WriteNmsr, WriteMasr, Goto, TypeOK
        <5> QED
          BY <5>1, <5>2 DEF Calls
      <4>2. Ask(c)' = Ask(c)
        BY <2>3, <4>1
      <4>3. Naming(p)' = {c}
        BY <2>p, <3>5, <4>1, <4>2 DEF Naming
      <4>4. Identity(p)' = Ask(c).val
        BY <3>8, <4>2, <4>3
      <4>5. CASE WriteMasr(c)
        <5>1. Identity(p) = Ask(c).val
          BY <3>6, <3>7, <4>5 DEF WriteMasr, At
        <5> QED
          BY <1>a, <2>6, <3>2, <4>4, <5>1, SameSetting
      <4>6. CASE WriteNmsr(c)
        <5> DEFINE s == SettingOf(p)
        <5>1. \A r \in {PMSR, PECR, CNTR} : reg'[Port(p) + r] = reg[Port(p) + r]
          BY <3>2 DEF SameRegisters
        <5>2. SettingOf(p)' = [mode |-> s.mode, checks |-> s.checks, active |-> s.active,
                               command |-> s.command, identity |-> Ask(c).val]
          BY <4>4, <5>1 DEF SettingOf, Port, Checks, PMSR, PECR, CNTR
        <5>3. s = [mode |-> s.mode, checks |-> s.checks, active |-> s.active,
                   command |-> s.command, identity |-> s.identity]
          BY DEF SettingOf
        <5>4. SettingOf(p)' = [s EXCEPT !.identity = Ask(c).val]
          <6> HIDE DEF s
          <6> QED
            BY <5>2, <5>3
        <5>5. Ask(c).op = "network"
          BY <2>3, <2>8 DEF Op
        <5>6. SettingOf(p)' = Abstract!After(SettingOf(p), Ask(c))
          BY <5>5, <5>4 DEF Abstract!After
        <5> QED
          BY <1>b, <2>p, <2>1, <2>6, <5>5, <5>6
      <4> QED
        BY <3>9, <4>5, <4>6
    <3>10. CASE WriteIpsr(c)
      <4>1. At(c, "ipsr") /\ Write(Own(c, IPSR), Ask(c).val[3]) /\ call'[c] = NoCall
        BY <3>10, CallsStay DEF WriteIpsr, Return
      <4>2. Naming(p)' = {}
        BY <3>5, <4>1 DEF Naming, NoCall
      <4>3. reg'[Port(p) + IPSR] = Ask(c).val[3]
        <5>1. Port(p) + IPSR \in Addresses
          BY <2>p, <2>2, AddressesApart DEF PerPort
        <5> QED
          BY <2>p, <4>1, <5>1 DEF Write, Own, TypeOK
      <4>4. SameRegisters(p, {NMSR, MASR})
        <5>1. Registers(call[c].pc) \cap {NMSR, MASR} = {}
          BY <4>1 DEF At, Registers, NMSR, MASR, IPSR
        <5> QED
          BY <2>p, <2>2, <5>1 DEF WritesOwn, SameRegisters, PerPort
      <4>5. reg[Port(p) + NMSR] = Ask(c).val[1] /\ reg[Port(p) + MASR] = Ask(c).val[2]
        BY <2>p, <4>1 DEF NamedSoFar, At, Own
      <4>6. reg'[Port(p) + NMSR] = Ask(c).val[1] /\ reg'[Port(p) + MASR] = Ask(c).val[2]
        BY <4>4, <4>5 DEF SameRegisters
      <4>7. \A q : Naming(q)' = {} =>
              Identity(q)' = <<reg'[Port(q) + NMSR], reg'[Port(q) + MASR], reg'[Port(q) + IPSR]>>
        BY DEF Identity, Port, NMSR, MASR, IPSR
      <4>8. Identity(p)' = <<Ask(c).val[1], Ask(c).val[2], Ask(c).val[3]>>
        BY <4>2, <4>3, <4>6, <4>7
      <4>9. <<Ask(c).val[1], Ask(c).val[2], Ask(c).val[3]>> = Ask(c).val
        BY <3>3
      <4>10. Identity(p) = Ask(c).val
        BY <3>6, <3>7, <4>1 DEF At
      <4>11. Identity(p)' = Identity(p)
        BY <4>8, <4>9, <4>10
      <4> QED
        BY <1>a, <2>6, <3>2, <4>11, SameSetting
    <3> QED
      BY <3>1, <3>9, <3>10
  <2> QED
    BY <2>7, <2>8
<1>2. ASSUME NEW c \in Procs, NEW r \in Requests[c], Begin(c, r) PROVE Goal
  <2>1. call[c].pc \notin {"masr", "ipsr"} /\ reg' = reg /\ \A d \in Procs \ {c} : call'[d] = call[d]
    BY <1>2, BeginFollows DEF Begin, Idle
  <2>2. call'[c].pc \notin {"masr", "ipsr"}
    <3>1. call'[c] = [NoCall EXCEPT !.pc = First(r), !.ask = r] /\ r \in Request
      BY <1>2, PortAssumption DEF Begin, TypeOK
    <3>2. call'[c].pc = First(r)
      BY <3>1 DEF NoCall
    <3> QED
      BY <3>1, <3>2, FirstPlace
  <2>3. \A p : Naming(p)' = Naming(p) /\ \A d \in Naming(p) : Ask(d)' = Ask(d)
    BY <2>1, <2>2 DEF Naming, Ask
  <2>4. \A p \in Ports : Identity(p)' = Identity(p)
    BY <2>1, <2>3, SameIdentity DEF SameRegisters
  <2> QED
    BY <1>a, <2>1, <2>4, SameSetting DEF SameRegisters
<1>3. CASE reg' = reg /\ call' = call
  <2>1. \A p : Naming(p)' = Naming(p) /\ \A d \in Naming(p) : Ask(d)' = Ask(d)
    BY <1>3 DEF Naming, Ask
  <2>2. \A p \in Ports : Identity(p)' = Identity(p)
    BY <1>3, <2>1, SameIdentity DEF SameRegisters
  <2> QED
    BY <1>3, <1>a, <2>2, SameSetting DEF SameRegisters
<1> QED
  BY <1>1, <1>2, <1>3 DEF Next, vars, Send, Clear

(* When each register is written by one process, the calls of all together *)
(* change the settings of the ports as if each happened at one moment.     *)
THEOREM PortImplementsSettings ==
  ASSUME OneWriter
  PROVE  Spec => ImplementsSettings
<1>1. Init => Abstract!Init
  <2> SUFFICES ASSUME Init PROVE Abstract!Init
    OBVIOUS
  <2>1. \A p \in Ports : Naming(p) = {}
    BY DEF Init, NoCall, Naming
  <2>2. \A p \in Ports, r \in PerPort : reg[Port(p) + r] = {}
    BY AddressesApart DEF Init
  <2>3. \A p \in Ports : SettingOf(p) = Abstract!NoSettings
    BY <2>1, <2>2 DEF SettingOf, Identity, Abstract!NoSettings, PerPort
  <2> QED
    BY <2>3, SettingsByPort DEF Abstract!Init
<1>2. SettingInv /\ [Next]_vars => [\E r \in Told : Abstract!Do(r)]_Settings
  BY StepIsSettingStep
<1> QED
  BY SettingInvHolds, <1>1, <1>2, PTL DEF Spec, ImplementsSettings, Abstract!Spec
=============================================================================
