------------------------------ MODULE BslStats ------------------------------
(***************************************************************************)
(* The statistics of a port (bsl_getLinkStats, bsl_device_getStats and     *)
(* readStats, sumStats, recomputeLatencyStats of bsl_device.c).  The       *)
(* counters are read one by one while frames arrive and while another      *)
(* process may reset them.  For a 40G link the counters of the four ports  *)
(* are added, and the average latency is computed again from the totals,   *)
(* which are read a second time.  Of the twenty-odd counters that are      *)
(* read and added alike one stands for all, RFCR.                          *)
(***************************************************************************)
EXTENDS Integers

CONSTANTS
  MaxPorts,   \* ports of the card (SIZE_MAX_PORT)
  Is40G,      \* the link speed in VERR
  Latencies,  \* the latencies a frame may have
  MaxFrames,  \* bound: frames counted by a port between resets
  MaxResets,  \* bound: resets
  Scale       \* units of the fraction (10^9 in the code)

ASSUME StatsAssumption ==
  /\ MaxPorts \in Nat \ {0} /\ Is40G \in BOOLEAN
  /\ Latencies \subseteq Nat \ {0} /\ Latencies # {}
  /\ MaxFrames \in Nat /\ MaxResets \in Nat /\ Scale \in Nat \ {0}

CardPorts == 0 .. MaxPorts - 1

VARIABLES
  port,    \* the counters of each port: RFCR, MMLR, TLVR and TSCR
  call,    \* the call in progress, or the last one, and what it has read
  resets,  \* resets so far
  start,   \* history: RFCR of the ports asked for, in all, when the call began
  undisturbed  \* history: no reset since the call began

statsVars == <<port, call, resets, start, undisturbed>>

NoFrames == [frames |-> 0, max |-> 0, min |-> 0, total |-> 0, packets |-> 0]
NoStat == [frames |-> 0, max |-> 0, min |-> 0, int |-> 0, frac |-> 0]
NoCall == [pc |-> "idle", asked |-> 0, at |-> 0, one |-> NoStat, stat |-> NoStat,
           total |-> 0, packets |-> 0]
Counter == port[call.at]
Forty == call.asked = 0 /\ Is40G
LastPort == MaxPorts - 1

Counters == [frames : Nat, max : Nat, min : Nat, total : Nat, packets : Nat]
Results == [frames : Nat, max : Nat, min : Nat, int : Nat, frac : Nat]
Calls ==
  [pc : {"idle", "frames", "latency", "total", "packets", "total2", "packets2", "done"},
   asked : CardPorts, at : CardPorts, one : Results, stat : Results, total : Nat, packets : Nat]

StatsTypeOK ==
  /\ port \in [CardPorts -> Counters]
  /\ call \in Calls
  /\ resets \in Nat
  /\ start \in Nat
  /\ undisturbed \in BOOLEAN

StatsInit ==
  /\ port = [p \in CardPorts |-> NoFrames]
  /\ call = NoCall
  /\ resets = 0
  /\ start = 0
  /\ undisturbed = TRUE

-----------------------------------------------------------------------------
(* Sums(f)[p] adds what f has for the ports 0 to p. *)
Sums(f) ==
  LET sum[p \in CardPorts] == f[p] + IF p = 0 THEN 0 ELSE sum[p - 1]
  IN sum

FramesIn(S) == [p \in CardPorts |-> IF p \in S THEN port[p].frames ELSE 0]
Frames(S) == Sums(FramesIn(S))[LastPort]

(* getIntPartFrom and getFracPartFrom.  The quotient of two integers is    *)
(* an integer before it becomes a long double.                             *)
IntPart(a, b) == IF b = 0 THEN 0 ELSE a \div b
FracPart(a, b) == LET value == IntPart(a, b) IN Scale * value - Scale * IntPart(value, 1)

(* sumStats *)
Sum(l, r) == [f \in DOMAIN NoStat |-> l[f] + r[f]]

Begin(p) ==
  /\ call.pc \in {"idle", "done"}
  /\ call' = [NoCall EXCEPT !.pc = "frames", !.asked = p, !.at = p]
  /\ start' = Frames(IF p = 0 /\ Is40G THEN CardPorts ELSE {p})
  /\ undisturbed' = TRUE
  /\ UNCHANGED <<port, resets>>

(* readStats, one register per step.  The statistics of port 0 of a 40G    *)
(* link are completed by those of the other ports.                         *)
ReadFrames ==
  /\ call.pc = "frames"
  /\ call' = [call EXCEPT !.pc = "latency", !.one.frames = Counter.frames]
  /\ UNCHANGED <<port, resets, start, undisturbed>>

ReadLatency ==
  /\ call.pc = "latency"
  /\ call' = [call EXCEPT !.pc = "total", !.one.max = Counter.max, !.one.min = Counter.min]
  /\ UNCHANGED <<port, resets, start, undisturbed>>

ReadTotal ==
  /\ call.pc = "total"
  /\ call' = [call EXCEPT !.pc = "packets", !.total = Counter.total]
  /\ UNCHANGED <<port, resets, start, undisturbed>>

Averaged(s, total, packets) ==
  [s EXCEPT !.int = IntPart(total, packets), !.frac = FracPart(total, packets)]

(* ReadPackets as it would be if the loop over the ports began with the    *)
(* port already read.                                                      *)
ReadPackets_Again ==
  /\ call.pc = "packets"
  /\ LET one == Averaged(call.one, call.total, Counter.packets)
         again == call.at = 0 /\ call.stat = NoStat
         both == [call EXCEPT !.stat = Sum(@, one), !.one = NoStat,
                              !.total = 0, !.packets = 0]
     IN call' = IF ~Forty THEN [both EXCEPT !.pc = "done"]
                ELSE IF call.at = LastPort THEN [both EXCEPT !.pc = "total2", !.at = 0]
                ELSE [both EXCEPT !.pc = "frames", !.at = IF again THEN 0 ELSE @ + 1]
  /\ UNCHANGED <<port, resets, start, undisturbed>>

ReadPackets ==
  /\ call.pc = "packets"
  /\ LET one == Averaged(call.one, call.total, Counter.packets)
         both == [call EXCEPT !.stat = Sum(@, one), !.one = NoStat,
                              !.total = IF Forty THEN 0 ELSE @,
                              !.packets = IF Forty THEN 0 ELSE Counter.packets]
     IN call' = IF ~Forty THEN [both EXCEPT !.pc = "done"]
                ELSE IF call.at = LastPort THEN [both EXCEPT !.pc = "total2", !.at = 0]
                ELSE [both EXCEPT !.pc = "frames", !.at = @ + 1]
  /\ UNCHANGED <<port, resets, start, undisturbed>>

(* recomputeLatencyStats *)
ReadTotal2 ==
  /\ call.pc = "total2"
  /\ call' = [call EXCEPT !.pc = "packets2", !.total = @ + Counter.total]
  /\ UNCHANGED <<port, resets, start, undisturbed>>

(* ReadPackets2 as it would be if only the last port's packets counted. *)
ReadPackets2_Last ==
  /\ call.pc = "packets2"
  /\ LET packets == Counter.packets
     IN call' = IF call.at = LastPort
                THEN [call EXCEPT !.pc = "done", !.packets = packets,
                                  !.stat = Averaged(@, call.total, packets)]
                ELSE [call EXCEPT !.pc = "total2", !.packets = packets, !.at = @ + 1]
  /\ UNCHANGED <<port, resets, start, undisturbed>>

ReadPackets2 ==
  /\ call.pc = "packets2"
  /\ LET packets == call.packets + Counter.packets
     IN call' = IF call.at = LastPort
                THEN [call EXCEPT !.pc = "done", !.packets = packets,
                                  !.stat = Averaged(@, call.total, packets)]
                ELSE [call EXCEPT !.pc = "total2", !.packets = packets, !.at = @ + 1]
  /\ UNCHANGED <<port, resets, start, undisturbed>>

-----------------------------------------------------------------------------
(* The FPGA (external) counts a frame of latency l in all counters at      *)
(* once; a pulse of SRCR clears the counters of every port.                *)
Larger(a, b) == IF a > b THEN a ELSE b
Lesser(a, b) == IF a < b THEN a ELSE b

Receive(p, l) ==
  /\ port[p].frames < MaxFrames
  /\ port' = [port EXCEPT ![p] =
       [frames |-> @.frames + 1, max |-> Larger(@.max, l),
        min |-> IF @.packets = 0 THEN l ELSE Lesser(@.min, l),
        total |-> @.total + l, packets |-> @.packets + 1]]
  /\ UNCHANGED <<call, resets, start, undisturbed>>

Reset ==
  /\ resets < MaxResets
  /\ port' = [p \in CardPorts |-> NoFrames]
  /\ resets' = resets + 1
  /\ undisturbed' = FALSE
  /\ UNCHANGED <<call, start>>

CallStep ==
  \/ ReadFrames \/ ReadLatency \/ ReadTotal \/ ReadPackets \/ ReadTotal2 \/ ReadPackets2

StatsNext ==
  \/ CallStep
  \/ Reset
  \/ \E p \in CardPorts : Begin(p) \/ \E l \in Latencies : Receive(p, l)

StatsSpec == StatsInit /\ [][StatsNext]_statsVars

-----------------------------------------------------------------------------
Done == call.pc = "done" /\ undisturbed
Counted(p) == IF Forty THEN CardPorts ELSE {p}

(* The frames reported were all counted: at least as many as when the call *)
(* began and at most as many as when it ended, although no two counters    *)
(* are read at the same time, unless they were reset meanwhile.            *)
FramesBracketed ==
  Done =>
    /\ start <= call.stat.frames
    /\ call.stat.frames <= Frames(Counted(call.asked))

(* The average reported is at most a latency that some port had measured   *)
(* when the call ended, unless the counters were reset since it began: the *)
(* total is read before the count it is divided by.  It may well be above  *)
(* the maximum reported, which was read before the total; then a slower    *)
(* frame than all before it came during the call.                          *)
AverageWithinMeasured ==
  call.pc = "done" /\ undisturbed =>
    \E p \in Counted(call.asked) : call.stat.int <= port[p].max
=============================================================================
