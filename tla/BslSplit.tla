------------------------------ MODULE BslSplit ------------------------------
(***************************************************************************)
(* How a stream of a 40G link is divided among the four ports of the card  *)
(* (bsl_setStreamDetail, bsl_makeupPdr, bsl_makeupFrame) and how the last  *)
(* value of a field that changes from frame to frame is computed           *)
(* (get_lastmac, get_lastip4, get_lastip6, getLastIp4ID,                   *)
(* getLastTcpUdpPort and their 40G forms).  Port i sends frames i, i + 4,  *)
(* i + 8 and so on: its fields start at their i-th value and advance by    *)
(* four steps.  The library copies the caller's stream for each port,      *)
(* changes the copies, makes their headers (BslHeader), and programs one   *)
(* after the other; the records that port 0 works on are the caller's own. *)
(* Whether a stream is divided is said by the stream; whether its last     *)
(* values are those of a divided one, by the card.                         *)
(***************************************************************************)
EXTENDS BslHeader, FiniteSets

CONSTANTS
  Width,     \* bits of a MAC or IPv4 address, port or id, or half an IPv6 address
             \* (48, 32, 16, 64)
  IntBits,   \* bits of the integers that hold steps, repeat counts, products (32)
  StepBits,  \* bits of a step in its register (16)
  Requests   \* the streams that clients ask for, of the form Request below

NPorts == 4  \* MAX_NPORTS
Ports == 0 .. NPorts - 1
CopyRoom == 128  \* bytes for the copy of a record

(* The powers of two. *)
Power[n \in Nat] == IF n = 0 THEN 1 ELSE 2 * Power[n - 1]
Max == Power[Width]
IntMax == Power[IntBits]

Kinds == {"mac", "int", "ip4", "ip6"}
Modes == {"fixed", "inc", "dec", "continc", "contdec"}
Cont(t) == t.mode \in {"continc", "contdec"}
Down(t) == t.mode \in {"dec", "contdec"}
Repeats(t) == t.mode \in {"inc", "dec"}

(* part and prefix are those of IP addresses: the host or the network part *)
(* changes, and the mask has prefix bits.  Of an IPv6 address addr is the  *)
(* half that changes, and prefix counts the bits of the mask in it: none   *)
(* for /64.  (The host part of a mask that ends in the upper half is left  *)
(* out.)                                                                   *)
Field == [kind : Kinds, mode : Modes, addr : Nat, step : Nat, repeat : Nat,
          part : {"host", "net"}, prefix : 0 .. Width]
Frame == [min : Nat, max : Nat, step : Nat \ {0}]
Request == [field : Field, sizes : Frame, layers : Layers]

ASSUME SplitAssumption ==
  /\ Width \in Nat \ {0} /\ IntBits \in Nat \ {0} /\ StepBits \in 0 .. IntBits
  /\ \A r \in Requests :
       /\ r.field \in Field /\ r.sizes \in Frame /\ r.layers \in Layers
       /\ r.field.addr < Max /\ r.field.step < IntMax /\ r.field.repeat < IntMax
       /\ r.field.kind = "ip6" => IntBits <= Width
       /\ r.sizes.min <= r.sizes.max
       /\ MakeHeader(r.layers).len <= HeaderRoom

VARIABLES
  pc,       \* "ask", "copy", "makeup", "program", "done" or "dead"
  at,       \* the port that the loop is at
  forty,    \* is it a 40G stream (stream->enable)?
  link40G,  \* is it a 40G card (its version register)?
  request,  \* history: the stream as the client sent it
  field,    \* field[i]: its field as port i has it
  frame,    \* frame[i]: the frame sizes as port i has them
  header,   \* header[i]: the header of port i's frames
  regs      \* regs[i]: what is programmed for port i

vars == <<pc, at, forty, link40G, request, field, frame, header, regs>>

asked == request.field
sizes == request.sizes
layers == request.layers

NoRegs == [start |-> 0, step |-> 0, last |-> 0, mode |-> "none", points |-> {}, marks |-> {}]

-----------------------------------------------------------------------------
(* What the arithmetic is meant to do: value number n of a field.  Of the  *)
(* network part of an IPv6 address only the four bytes change in which the *)
(* mask ends, as a comment in get_lastip6 says.                            *)
Smaller(a, b) == IF a < b THEN a ELSE b
NetPart(t) == t.kind \in {"ip4", "ip6"} /\ t.part = "net"
Shift(t) == Width - t.prefix
Hosts(t) == Power[Shift(t)]
NetBits(t) == IF t.kind = "ip6" /\ Shift(t) <= IntBits THEN Smaller(t.prefix, IntBits - Shift(t))
              ELSE t.prefix
Size(t) == IF t.kind \in {"mac", "int"} THEN Max
           ELSE IF t.part = "host" THEN Hosts(t) ELSE Power[NetBits(t)]
PartOf(t, addr) == IF NetPart(t) THEN (addr \div Hosts(t)) % Size(t) ELSE addr % Size(t)
WithPart(t, v) == IF t.kind \in {"mac", "int"} THEN v
                  ELSE t.addr + (v - PartOf(t, t.addr)) * (IF NetPart(t) THEN Hosts(t) ELSE 1)
StepOf(t) == IF t.kind = "ip4" THEN 1 ELSE t.step
Nth(t, n) ==
  WithPart(t, (IF Down(t) THEN PartOf(t, t.addr) - n * StepOf(t)
                          ELSE PartOf(t, t.addr) + n * StepOf(t)) % Size(t))
Value(t, n) == IF t.mode = "fixed" THEN t.addr
               ELSE IF Cont(t) THEN Nth(t, n)
               ELSE Nth(t, IF t.repeat = 0 THEN 0 ELSE n % t.repeat)
Distinct(t) == Cardinality({Nth(t, n) : n \in 0 .. Size(t) - 1})

-----------------------------------------------------------------------------
(* The arithmetic of the code.  1 << shift, where shift counts the zeros   *)
(* at the end of the step: *)
LowestBit(step) ==
  IF step = 0 THEN 1
  ELSE CHOOSE b \in {Power[i] : i \in 0 .. IntBits} : step % b = 0 /\ (step \div b) % 2 = 1

End(start, step, repeat, down, max) ==
  LET r == Smaller(repeat, max \div LowestBit(step))
      d == (step * (r - 1)) % max
  IN (IF ~down THEN start + d
      ELSE IF start > d THEN start - d ELSE start + max - d) % max

(* get_lastip4 has no step; in network mode the address moves by the bit   *)
(* above the host part, and not at all without a mask.                     *)
LastIp4(t, repeat, down) ==
  LET part == PartOf(t, t.addr)
      d == repeat - 1
  IN WithPart(t, (IF down THEN part - d ELSE part + d) % Size(t))

(* get_lastip6 shifts the halves of an address by 64 bits for a /0 or /64, *)
(* and a product of 32 bits by 32 or more for masks /1 to /32 and /64 to   *)
(* /96.  Neither is defined; the shift is taken modulo the bits there are, *)
(* as x86 does.                                                            *)
Low(t) == Power[Shift(t) % Width]

LastIp6Host(t, step, repeat, down) ==
  t.addr - (t.addr % Low(t)) + End(t.addr % Low(t), step, repeat, down, Low(t))

LastIp6Net(t, step, repeat, down) ==
  LET d == (((repeat - 1) * step) * Power[Shift(t) % IntBits]) % IntMax
      moved == (IF down THEN t.addr - d ELSE t.addr + d) % Max
      net == moved - (moved % Low(t)) + (t.addr % Low(t))
  IN IF Shift(t) <= IntBits THEN t.addr - (t.addr % IntMax) + (net % IntMax) ELSE net

LastIp6(t, step, repeat, down) ==
  IF t.part = "host" THEN LastIp6Host(t, step, repeat, down)
                     ELSE LastIp6Net(t, step, repeat, down)

(* getLastIp4ID and getLastTcpUdpPort are the same function. *)
LastInteger(t, step, repeat) ==
  IF repeat = 0 THEN 0 ELSE End(t.addr, step, repeat, Down(t), Max)

Last(t, step, repeat) ==
  CASE t.kind = "mac" -> End(t.addr, step, repeat, Down(t), Max)
    [] t.kind = "int" -> LastInteger(t, step, repeat)
    [] t.kind = "ip4" -> LastIp4(t, repeat, Down(t))
    [] t.kind = "ip6" -> LastIp6(t, step, repeat, Down(t))

(* Last40G as it would be without the exception for three values. *)
Last40G_NoException(t, i) == Last(t, t.step \div NPorts, (t.repeat - i) % IntMax)

Last40G(t, i) ==
  LET left == (t.repeat - i) % IntMax
  IN Last(t, t.step \div NPorts, IF left = 0 THEN 3 ELSE left)

(* Turn as it would be if a cycle shorter than the ports were not one. *)
Turn_NoCycle(i, t) == IF Cont(t) THEN i ELSE i % NPorts

(* Which of its values port i starts with; t.repeat is not 0 here. *)
Turn(i, t) == IF Cont(t) THEN i ELSE i % Smaller(t.repeat, NPorts)

(* The address of value number Turn is the last of Turn + 1.  An integer   *)
(* is not cut to its width.                                                *)
FirstMac(i, t) == End(t.addr, t.step, Turn(i, t) + 1, Down(t), Max)
FirstInteger(i, t) == t.addr + (IF Down(t) THEN -t.step ELSE t.step) * Turn(i, t)
FirstIp4(i, t) == LastIp4(t, Turn(i, t) + 1, Down(t))
FirstIp6(i, t) == LastIp6(t, t.step, Turn(i, t) + 1, Down(t))

(* With 1, 2 or 4 values a port has only one to send.  Before that is      *)
(* decided, a repeat count of 0 has become 1, on port 0 of integers only.  *)
ModeLeft_Three(t) == IF Cont(t) \/ t.repeat > NPorts THEN t.mode ELSE "fixed"
ModeLeft(t) == IF Cont(t) \/ t.repeat > NPorts \/ t.repeat = 3 THEN t.mode ELSE "fixed"

OneAtLeast(i, t) ==
  IF t.repeat = 0 /\ (i # 0 \/ t.kind = "int") THEN [t EXCEPT !.repeat = 1] ELSE t

StepOfPort(t) == (t.step * NPorts) % IntMax

Changed(t, first, step) == [t EXCEPT !.addr = first, !.step = step, !.mode = ModeLeft(t)]

MakeupEther(i, t) == Changed(t, IF i = 0 THEN t.addr ELSE FirstMac(i, t), StepOfPort(t))
MakeupInteger(i, t) == Changed(t, FirstInteger(i, t), StepOfPort(t))
MakeupIp4(i, t) == Changed(t, IF i = 0 THEN t.addr ELSE FirstIp4(i, t), t.step)
MakeupIp6(i, t) == Changed(t, IF i = 0 THEN t.addr ELSE FirstIp6(i, t), StepOfPort(t))

MakeupField(i, tuple) ==
  LET t == OneAtLeast(i, tuple)
  IN CASE t.mode = "fixed" -> tuple
       [] t.mode # "fixed" /\ t.kind = "mac" -> MakeupEther(i, t)
       [] t.mode # "fixed" /\ t.kind = "int" -> MakeupInteger(i, t)
       [] t.mode # "fixed" /\ t.kind = "ip4" -> MakeupIp4(i, t)
       [] t.mode # "fixed" /\ t.kind = "ip6" -> MakeupIp6(i, t)

(* MakeupFrame as it would be if the step were multiplied first. *)
MakeupFrame_StepFirst(i, f) ==
  LET step == f.step * NPorts
      min == Smaller(f.min + i * step, f.max)
  IN [min |-> min, step |-> step, max |-> ((f.max - min) \div step) * step + min]

(* bsl_makeupFrame, of sizes that grow.  A minimum beyond the maximum is   *)
(* cut to it.                                                              *)
MakeupFrame(i, f) ==
  LET step == f.step * NPorts
      min == Smaller(f.min + i * f.step, f.max)
  IN [min |-> min, step |-> step, max |-> ((f.max - min) \div step) * step + min]

(* The register for the last value of a field that does not end.  That of  *)
(* an IPv6 address in a continuous mode is what happens to be on the stack. *)
NoLast(t) == IF t.kind = "ip6" THEN IF Cont(t) THEN Undefined ELSE t.addr
             ELSE IF t.kind = "mac" /\ t.mode = "continc" THEN Max - 1 ELSE 0

(* What bsl_device_setStreamDetail makes of a field.  An IPv4 address      *)
(* without a mask changes in its host part, whatever was asked.            *)
Programmed(i, tuple) ==
  LET t == IF tuple.kind = "ip4" /\ tuple.prefix = 0 THEN [tuple EXCEPT !.part = "host"]
                                                     ELSE tuple
  IN [start |-> t.addr % Max, step |-> t.step % Power[StepBits], mode |-> t.mode,
      last |-> IF ~Repeats(t) THEN NoLast(t)
               ELSE IF link40G THEN Last40G(t, i) ELSE Last(t, t.step, t.repeat),
      points |-> Distances(layers, header[i]), marks |-> Marks(layers)]

-----------------------------------------------------------------------------
Init ==
  /\ pc = "ask" /\ at = 0 /\ forty = FALSE /\ link40G \in BOOLEAN
  /\ request \in Requests
  /\ field = [i \in Ports |-> request.field]
  /\ frame = [i \in Ports |-> request.sizes]
  /\ header = [i \in Ports |-> Blank]
  /\ regs = [i \in Ports |-> NoRegs]

(* A 40G stream is asked for on port 0.  The copies of longer records run  *)
(* into each other; such streams are left out.                             *)
AskForty ==
  /\ pc = "ask"
  /\ Layer3Record(layers) <= CopyRoom /\ Layer4Record(layers) <= CopyRoom
  /\ pc' = "copy" /\ at' = 1 /\ forty' = TRUE
  /\ UNCHANGED <<link40G, request, field, frame, header, regs>>

(* Another one on any port, and its record is used as it is. *)
AskOther(i) ==
  /\ pc = "ask"
  /\ pc' = IF DiesOfChecksum(layers) THEN "dead" ELSE "program"
  /\ at' = i
  /\ header' = [header EXCEPT ![i] = MakeHeader(layers)]
  /\ UNCHANGED <<forty, link40G, request, field, frame, regs>>

(* The copies of ports 1 to 3, all made before port 0 is changed. *)
Copy ==
  /\ pc = "copy"
  /\ field' = [field EXCEPT ![at] = field[0]]
  /\ frame' = [frame EXCEPT ![at] = frame[0]]
  /\ IF at < NPorts - 1 THEN pc' = pc /\ at' = at + 1 ELSE pc' = "makeup" /\ at' = 0
  /\ UNCHANGED <<forty, link40G, request, header, regs>>

Makeup ==
  /\ pc = "makeup"
  /\ field' = [field EXCEPT ![at] = MakeupField(at, @)]
  /\ frame' = [frame EXCEPT ![at] = MakeupFrame(at, @)]
  /\ header' = [header EXCEPT ![at] = MakeHeader(layers)]
  /\ IF DiesOfChecksum(layers) THEN pc' = "dead" /\ at' = at
     ELSE IF at < NPorts - 1 THEN pc' = pc /\ at' = at + 1
     ELSE pc' = "program" /\ at' = 0
  /\ UNCHANGED <<forty, link40G, request, regs>>

Program ==
  /\ pc = "program"
  /\ IF DiesOfIp4Pdr(layers)
     THEN pc' = "dead" /\ UNCHANGED <<at, regs>>
     ELSE /\ regs' = [regs EXCEPT ![at] = Programmed(at, field[at])]
          /\ IF forty /\ at < NPorts - 1 THEN pc' = pc /\ at' = at + 1
             ELSE pc' = "done" /\ at' = 0
  /\ UNCHANGED <<forty, link40G, request, field, frame, header>>

Next == AskForty \/ (\E i \in Ports : AskOther(i)) \/ Copy \/ Makeup \/ Program

Spec == Init /\ [][Next]_vars

-----------------------------------------------------------------------------
Split == pc = "done" /\ forty
Whole(i) == pc = "done" /\ ~forty /\ regs[i].mode # "none"

(* The shifts of get_lastip6 are defined: not for /0 and /64, nor for the  *)
(* network part of a mask /1 to /32 or /65 to /96.                         *)
ShiftsDefined(t) ==
  t.kind = "ip6" => t.prefix > 0 /\ (t.part = "net" => Shift(t) < IntBits)

(* Port i starts with the value of frame i.  (Left out are IPv6 addresses  *)
(* whose shifts are not defined, an address space of fewer than four       *)
(* values, as of an IPv6 /127, where the limit in get_lastip6 repeats a    *)
(* value out of turn, and the network part of an IPv4 address without a    *)
(* mask, which the host part replaces too late.)                           *)
StartsInTurn ==
  Split /\ ShiftsDefined(asked) /\ Distinct(asked) >= NPorts =>
    \A i \in Ports : regs[i].start = Value(asked, i)

(* A port that goes on changing comes to the value of frame i + 4 with its *)
(* first step, as far as the step fits its register (IPv4 has no step) and *)
(* the shifts are defined.  A port that no longer changes has one value to *)
(* send in all its frames.                                                 *)
StepsInTurn ==
  Split => \A i \in Ports :
    LET t == [asked EXCEPT !.addr = regs[i].start, !.step = regs[i].step, !.mode = regs[i].mode]
    IN IF regs[i].mode = "fixed"
       THEN \A n \in 0 .. 2 * Max : Value(asked, i + NPorts * n) = Value(asked, i)
       ELSE /\ asked.kind # "ip4" /\ asked.step * NPorts < Power[StepBits]
            /\ ShiftsDefined(asked) /\ Distinct(asked) >= NPorts
            /\ Repeats(asked) => i + NPorts < asked.repeat
            => Nth(t, 1) = Value(asked, i + NPorts)

(* A field that does not go on for ever ends with the last of the values   *)
(* there are, counted one by one, if the card is not a 40G one; on a split *)
(* stream of a 40G card all ports have the last value of the whole, unless *)
(* the step times four is more than an integer holds.  (On a 40G card the  *)
(* last value of an undivided stream is that of a quarter of its step.     *)
(* Left out too are shifts that are not defined and a network part without *)
(* a mask.)                                                                *)
EndsTogether ==
  Repeats(asked) /\ asked.repeat > 0 /\ ShiftsDefined(asked)
  /\ (asked.part = "net" => asked.prefix > 0) =>
    \A i \in Ports :
      /\ Whole(i) /\ ~link40G =>
           regs[i].last = Nth(asked, IF asked.kind = "ip4" \/ NetPart(asked)
                                     THEN asked.repeat - 1
                                     ELSE Smaller(asked.repeat, Distinct(asked)) - 1)
      /\ Split /\ link40G /\ asked.step * NPorts < IntMax
         /\ asked.repeat <= Distinct(asked) /\ Repeats(regs[i]) =>
           regs[i].last = Nth(asked, asked.repeat - 1)

(* Every frame size asked for is sent by some port, and none that is       *)
(* larger than the largest or smaller than the smallest asked for.         *)
SizesOf(f) == {f.min + k * f.step : k \in 0 .. (f.max - f.min) \div f.step}
SizesCovered ==
  Split => LET all == UNION {SizesOf(frame[i]) : i \in Ports}
           IN SizesOf(sizes) \subseteq all /\ all \subseteq sizes.min .. sizes.max

(* A header has no hole and no field that another one was written over,    *)
(* whatever layers it is made of, and the ether type comes last of layer   *)
(* 2, before the labels: for records that agree with themselves, and IPv6  *)
(* next headers of one length.                                             *)
Made(i) == header[i] # Blank /\ Consistent(layers)
HeaderWhole ==
  \A i \in Ports : Made(i) =>
    /\ Filled(header[i]) = 0 .. header[i].len - 1
    /\ layers.eth = "typed" /\ layers.l3.kind \notin {"none", "ip4overip6"} =>
         At(header[i], "type", header[i].l3 - Labels(layers) - TypeSize)

(* The FPGA and the checksum of layer 4 find the fields where they are in  *)
(* the header, and every field that PACR says is to be filled in is there. *)
(* (Not for IPv4 in IPv6, whose offset is not set; nor is the checksum's   *)
(* bit looked at, which is on without layer 4 too, nor TCP's options,      *)
(* which are not summed.)                                                  *)
DistancesPoint ==
  \A i \in Ports : Made(i) /\ regs[i] # NoRegs /\ layers.l3.kind # "ip4overip6" =>
    LET h == header[i]
    IN /\ \A d \in regs[i].points : At(h, d[1], d[2])
       /\ \A name \in regs[i].marks \ {"l4chksum"} : \E f \in h.put : f.name = name
       /\ layers.l3.kind \notin {"none", "arp"} =>
            \E name \in {"ip4sip", "ip6sip"} : At(h, name, PseudoAt(layers, h))
       /\ layers.l4.kind # "none" => h.l4 + Summed(layers) + layers.l4.opts = h.len
=============================================================================
