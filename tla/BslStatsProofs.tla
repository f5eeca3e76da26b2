--------------------------- MODULE BslStatsProofs ---------------------------
(***************************************************************************)
(* Proofs about BslStats, for a card with any number of ports, any frames  *)
(* and any resets: types; the frames reported are between those counted    *)
(* when the call began and those counted when it ended; the average        *)
(* latency reported is not above the largest one measured, if the counters *)
(* are not reset meanwhile.                                                *)
(***************************************************************************)
EXTENDS BslStats, TLAPS, WellFoundedInduction

(* Induction over the natural numbers, for sets instead of predicates.     *)
LEMMA LeastNumber ==
  ASSUME NEW T, T \subseteq Nat, T # {}
  PROVE  \E n \in T : \A m \in T : n <= m
<1>1. PICK n \in T : \A m \in T : <<m, n>> \notin OpToRel(<, Nat)
  BY NatLessThanWellFounded, WFMin
<1>2. \A m \in T : ~ (m < n)
  BY <1>1 DEF OpToRel
<1> QED
  BY <1>2

LEMMA Induction ==
  ASSUME NEW S, 0 \in S, \A n \in Nat : n \in S => n + 1 \in S
  PROVE  Nat \subseteq S
<1> SUFFICES ASSUME Nat \ S # {} PROVE FALSE
  OBVIOUS
<1>1. PICK n \in Nat \ S : \A m \in Nat \ S : n <= m
  BY LeastNumber
<1>2. n # 0 /\ n - 1 \in Nat /\ n - 1 \notin Nat \ S
  BY <1>1
<1> QED
  BY <1>2

-----------------------------------------------------------------------------
(* Sums over the ports *)

Added(f, g, n) ==
  \A p \in 0 .. n : g[p] = f[p] + IF p = 0 THEN 0 ELSE g[p - 1]

LEMMA SumsExist ==
  ASSUME NEW f \in [CardPorts -> Nat]
  PROVE  \E g \in [CardPorts -> Nat] : Added(f, g, LastPort)
<1> DEFINE S == {n \in Nat : n < MaxPorts => \E g \in [0 .. n -> Nat] : Added(f, g, n)}
<1>1. 0 \in S
  <2>1. f[0] \in Nat
    BY StatsAssumption DEF CardPorts
  <2>2. PICK g \in [0 .. 0 -> Nat] : g[0] = f[0]
    <3>1. [p \in 0 .. 0 |-> f[0]] \in [0 .. 0 -> Nat] /\ [p \in 0 .. 0 |-> f[0]][0] = f[0]
      BY <2>1
    <3> QED
      BY <3>1
  <2>3. Added(f, g, 0)
    BY <2>1, <2>2 DEF Added
  <2> QED
    BY <2>3
<1>2. ASSUME NEW n \in Nat, n \in S PROVE n + 1 \in S
  <2> SUFFICES ASSUME n + 1 < MaxPorts
               PROVE  \E g \in [0 .. n + 1 -> Nat] : Added(f, g, n + 1)
    OBVIOUS
  <2>1. PICK g \in [0 .. n -> Nat] : Added(f, g, n)
    BY <1>2, StatsAssumption
  <2> DEFINE h == [p \in 0 .. n + 1 |-> IF p = n + 1 THEN f[n + 1] + g[n] ELSE g[p]]
  <2>2. f[n + 1] \in Nat /\ g[n] \in Nat
    BY StatsAssumption DEF CardPorts
  <2>3. /\ h \in [0 .. n + 1 -> Nat] /\ h[n + 1] = f[n + 1] + g[n]
        /\ \A p \in 0 .. n : h[p] = g[p]
    BY <2>2
  <2>4. Added(f, h, n + 1)
    <3> HIDE DEF h
    <3> SUFFICES ASSUME NEW p \in 0 .. n + 1
                 PROVE  h[p] = f[p] + IF p = 0 THEN 0 ELSE h[p - 1]
      BY DEF Added
    <3>1. CASE p = n + 1
      BY <2>3, <3>1
    <3>2. CASE p \in 0 .. n
      BY <2>1, <2>3, <3>2 DEF Added
    <3> QED
      BY <3>1, <3>2
  <2> QED
    BY <2>3, <2>4
<1>3. LastPort \in S
  <2>1. Nat \subseteq S
    <3> HIDE DEF S
    <3> QED
      BY <1>1, <1>2, Induction
  <2>2. LastPort \in Nat
    BY StatsAssumption DEF LastPort
  <2> HIDE DEF S
  <2> QED
    BY <2>1, <2>2
<1> QED
  BY <1>3, StatsAssumption DEF LastPort, CardPorts

LEMMA SumsDef ==
  ASSUME NEW f \in [CardPorts -> Nat]
  PROVE  Sums(f) = [p \in CardPorts |-> f[p] + IF p = 0 THEN 0 ELSE Sums(f)[p - 1]]
<1>1. PICK g \in [CardPorts -> Nat] : Added(f, g, LastPort)
  BY SumsExist
<1>2. g = [p \in CardPorts |-> f[p] + IF p = 0 THEN 0 ELSE g[p - 1]]
  BY <1>1, StatsAssumption DEF Added, CardPorts, LastPort
<1> QED
  BY <1>2, Zenon DEF Sums

LEMMA SumsType ==
  ASSUME NEW f \in [CardPorts -> Nat]
  PROVE  \A p \in CardPorts : Sums(f)[p] \in Nat
<1> DEFINE S == {p \in Nat : p \in CardPorts => Sums(f)[p] \in Nat}
<1>0. \A p \in CardPorts : Sums(f)[p] = f[p] + IF p = 0 THEN 0 ELSE Sums(f)[p - 1]
  BY SumsDef
<1>1. 0 \in S
  BY <1>0
<1>2. ASSUME NEW n \in Nat, n \in S PROVE n + 1 \in S
  BY <1>0, <1>2, StatsAssumption DEF CardPorts
<1>3. Nat \subseteq S
  <2> HIDE DEF S
  <2> QED
    BY <1>1, <1>2, Induction
<1> QED
  BY <1>3 DEF CardPorts

(* The step from one port to the next. *)
LEMMA SumsAt ==
  ASSUME NEW f \in [CardPorts -> Nat], NEW p \in CardPorts
  PROVE  /\ Sums(f)[p] \in Nat
         /\ p = 0 => Sums(f)[p] = f[p]
         /\ p # 0 => p - 1 \in CardPorts /\ Sums(f)[p] = f[p] + Sums(f)[p - 1]
BY SumsDef, SumsType, StatsAssumption DEF CardPorts

LEMMA SumsGrow ==
  ASSUME NEW f \in [CardPorts -> Nat], NEW g \in [CardPorts -> Nat],
         \A p \in CardPorts : f[p] <= g[p]
  PROVE  \A p \in CardPorts : Sums(f)[p] <= Sums(g)[p]
<1> DEFINE S == {p \in Nat : p \in CardPorts => Sums(f)[p] <= Sums(g)[p]}
<1>1. 0 \in S
  BY SumsAt
<1>2. ASSUME NEW n \in Nat, n \in S PROVE n + 1 \in S
  BY <1>2, SumsAt
<1>3. Nat \subseteq S
  <2> HIDE DEF S
  <2> QED
    BY <1>1, <1>2, Induction
<1> QED
  BY <1>3 DEF CardPorts

(* Two functions that differ at one port. *)
LEMMA SumsOneMore ==
  ASSUME NEW f \in [CardPorts -> Nat], NEW g \in [CardPorts -> Nat], NEW q \in CardPorts,
         \A p \in CardPorts \ {q} : f[p] = g[p]
  PROVE  \A p \in CardPorts : Sums(g)[p] + f[q] = Sums(f)[p] + g[q] \/ p < q
<1> DEFINE S == {p \in Nat : p \in CardPorts =>
                   IF p < q THEN Sums(g)[p] = Sums(f)[p]
                            ELSE Sums(g)[p] + f[q] = Sums(f)[p] + g[q]}
<1>1. 0 \in S
  <2>1. 0 \in CardPorts /\ Sums(f)[0] = f[0] /\ Sums(g)[0] = g[0]
    BY SumsAt, StatsAssumption DEF CardPorts
  <2>2. /\ f[0] \in Nat /\ g[0] \in Nat /\ q \in Nat
        /\ 0 # q => f[0] = g[0]
    BY <2>1 DEF CardPorts
  <2> QED
    BY <2>1, <2>2
<1>2. ASSUME NEW n \in Nat, n \in S PROVE n + 1 \in S
  <2> SUFFICES ASSUME n + 1 \in CardPorts
               PROVE  IF n + 1 < q THEN Sums(g)[n + 1] = Sums(f)[n + 1]
                      ELSE Sums(g)[n + 1] + f[q] = Sums(f)[n + 1] + g[q]
    OBVIOUS
  <2>1. /\ n \in CardPorts /\ Sums(f)[n] \in Nat /\ Sums(g)[n] \in Nat
        /\ Sums(f)[n + 1] = f[n + 1] + Sums(f)[n]
        /\ Sums(g)[n + 1] = g[n + 1] + Sums(g)[n]
    BY SumsAt
  <2>2. IF n < q THEN Sums(g)[n] = Sums(f)[n]
                 ELSE Sums(g)[n] + f[q] = Sums(f)[n] + g[q]
    BY <1>2, <2>1
  <2>3. /\ f[n + 1] \in Nat /\ g[n + 1] \in Nat /\ f[q] \in Nat /\ g[q] \in Nat /\ q \in Nat
        /\ n + 1 # q => f[n + 1] = g[n + 1]
    BY DEF CardPorts
  <2> QED
    BY <2>1, <2>2, <2>3
<1>3. Nat \subseteq S
  <2> HIDE DEF S
  <2> QED
    BY <1>1, <1>2, Induction
<1> QED
  BY <1>3 DEF CardPorts

LEMMA SumsNothing ==
  ASSUME NEW f \in [CardPorts -> Nat], \A p \in CardPorts : f[p] = 0
  PROVE  \A p \in CardPorts : Sums(f)[p] = 0
<1> DEFINE S == {p \in Nat : p \in CardPorts => Sums(f)[p] = 0}
<1>1. 0 \in S
  BY SumsAt
<1>2. ASSUME NEW n \in Nat, n \in S PROVE n + 1 \in S
  BY <1>2, SumsAt
<1>3. Nat \subseteq S
  <2> HIDE DEF S
  <2> QED
    BY <1>1, <1>2, Induction
<1> QED
  BY <1>3 DEF CardPorts

-----------------------------------------------------------------------------
(* The frames of some ports, in all *)

FramesOf(r, S) == [p \in CardPorts |-> IF p \in S THEN r[p].frames ELSE 0]
Total(r, S) == Sums(FramesOf(r, S))[LastPort]

LEMMA LastPortType == LastPort \in CardPorts /\ LastPort \in Nat /\ 0 \in CardPorts
BY StatsAssumption DEF LastPort, CardPorts

LEMMA FramesOfType ==
  ASSUME NEW r \in [CardPorts -> Counters], NEW S
  PROVE  /\ FramesOf(r, S) \in [CardPorts -> Nat]
         /\ \A p \in CardPorts : /\ r[p].frames \in Nat
                                 /\ FramesOf(r, S)[p] = IF p \in S THEN r[p].frames ELSE 0
<1>1. \A p \in CardPorts : r[p].frames \in Nat
  BY DEF Counters
<1> QED
  BY <1>1 DEF FramesOf

LEMMA FramesTotal ==
  /\ \A S : Frames(S) = Total(port, S)
  /\ \A S : Total(port, S)' = Total(port', S)
BY DEF Frames, FramesIn, Total, FramesOf

LEMMA TotalType ==
  ASSUME NEW r \in [CardPorts -> Counters], NEW S
  PROVE  Total(r, S) \in Nat
BY FramesOfType, SumsType, LastPortType DEF Total

LEMMA TotalEmpty ==
  ASSUME NEW r \in [CardPorts -> Counters]
  PROVE  Total(r, {}) = 0
<1>1. \A p \in CardPorts : FramesOf(r, {})[p] = 0
  BY FramesOfType
<1> QED
  BY <1>1, FramesOfType, SumsNothing, LastPortType DEF Total

LEMMA TotalGrows ==
  ASSUME NEW r \in [CardPorts -> Counters], NEW s \in [CardPorts -> Counters], NEW S,
         \A p \in CardPorts : r[p].frames <= s[p].frames
  PROVE  Total(r, S) <= Total(s, S)
<1>1. \A p \in CardPorts : FramesOf(r, S)[p] <= FramesOf(s, S)[p]
  BY FramesOfType
<1> QED
  BY <1>1, FramesOfType, SumsGrow, LastPortType DEF Total

LEMMA TotalOneMore ==
  ASSUME NEW r \in [CardPorts -> Counters], NEW S, NEW q \in CardPorts, q \notin S
  PROVE  Total(r, S \cup {q}) = Total(r, S) + r[q].frames
<1> DEFINE f == FramesOf(r, S)
           g == FramesOf(r, S \cup {q})
<1>1. /\ f \in [CardPorts -> Nat] /\ g \in [CardPorts -> Nat]
      /\ \A p \in CardPorts \ {q} : f[p] = g[p]
      /\ f[q] = 0 /\ g[q] = r[q].frames
  BY FramesOfType
<1>2. Total(r, S) = Sums(f)[LastPort] /\ Total(r, S \cup {q}) = Sums(g)[LastPort]
  BY DEF Total
<1> HIDE DEF f, g
<1>3. Sums(g)[LastPort] + f[q] = Sums(f)[LastPort] + g[q]
  <2>1. LastPort \in CardPorts /\ ~ (LastPort < q)
    BY StatsAssumption DEF LastPort, CardPorts
  <2>2. \A p \in CardPorts : Sums(g)[p] + f[q] = Sums(f)[p] + g[q] \/ p < q
    BY <1>1, SumsOneMore
  <2> QED
    BY <2>1, <2>2
<1>4. Sums(g)[LastPort] \in Nat /\ Sums(f)[LastPort] \in Nat /\ g[q] \in Nat
  BY <1>1, SumsType, LastPortType
<1> QED
  BY <1>1, <1>2, <1>3, <1>4

-----------------------------------------------------------------------------
(* Types *)

(* The quotients are numbers, and the fraction of an integer is nothing. *)
LEMMA Quotient ==
  ASSUME NEW a \in Nat, NEW b \in Nat
  PROVE  IntPart(a, b) \in Nat /\ FracPart(a, b) = 0
<1>1. IntPart(a, b) \in Nat
  BY DEF IntPart
<1>2. \A v \in Nat : IntPart(v, 1) = v
  BY DEF IntPart
<1>3. \A v \in Nat : Scale * v - Scale * v = 0
  BY StatsAssumption
<1> QED
  BY <1>1, <1>2, <1>3 DEF FracPart

LEMMA AveragedType ==
  ASSUME NEW s \in Results, NEW a \in Nat, NEW b \in Nat
  PROVE  /\ Averaged(s, a, b) \in Results
         /\ Averaged(s, a, b).frames = s.frames
         /\ Averaged(s, a, b).int = IntPart(a, b)
<1>1. IntPart(a, b) \in Nat /\ FracPart(a, b) \in Nat
  BY Quotient
<1> QED
  BY <1>1 DEF Averaged, Results

LEMMA SumType ==
  ASSUME NEW l \in Results, NEW r \in Results
  PROVE  /\ Sum(l, r) \in Results
         /\ Sum(l, r).frames = l.frames + r.frames
         /\ l.int = 0 => Sum(l, r).int = r.int
<1>1. DOMAIN NoStat = {"frames", "max", "min", "int", "frac"}
  BY DEF NoStat
<1>2. \A f \in {"frames", "max", "min", "int", "frac"} : l[f] \in Nat /\ r[f] \in Nat
  BY DEF Results
<1>3. /\ \A f \in {"frames", "max", "min", "int", "frac"} :
           Sum(l, r)[f] = l[f] + r[f] /\ l[f] + r[f] \in Nat
      /\ Sum(l, r) = [f \in {"frames", "max", "min", "int", "frac"} |-> l[f] + r[f]]
  BY <1>1, <1>2 DEF Sum
<1> QED
  BY <1>2, <1>3 DEF Results

(* Every step of a call keeps the types. *)
THEOREM StatsTypeCorrect == StatsSpec => []StatsTypeOK
<1>1. StatsInit => StatsTypeOK
  <2> SUFFICES ASSUME StatsInit PROVE StatsTypeOK
    OBVIOUS
  <2>1. NoFrames \in Counters
    BY DEF NoFrames, Counters
  <2>2. NoStat \in Results
    BY DEF NoStat, Results
  <2>3. NoCall \in Calls
    BY <2>2, LastPortType DEF NoCall, Calls
  <2> QED
    BY <2>1, <2>3 DEF StatsInit, StatsTypeOK
<1>2. StatsTypeOK /\ [StatsNext]_statsVars => StatsTypeOK'
  <2> SUFFICES ASSUME StatsTypeOK, [StatsNext]_statsVars PROVE StatsTypeOK'
    OBVIOUS
  <2> USE DEF StatsTypeOK
  <2>0. /\ Counter \in Counters /\ call \in Calls
        /\ Counter.frames \in Nat /\ Counter.max \in Nat /\ Counter.min \in Nat
        /\ Counter.total \in Nat /\ Counter.packets \in Nat
        /\ call.one \in Results /\ call.stat \in Results
        /\ call.total \in Nat /\ call.packets \in Nat /\ call.at \in CardPorts
        /\ NoStat \in Results
    <3>1. Counter \in Counters /\ call.at \in CardPorts
      BY DEF Counter, Calls
    <3> QED
      BY <3>1 DEF Counters, Calls, Results, NoStat
  <2>1. CASE ReadFrames
    <3> PICK n \in Nat : n = Counter.frames
      BY <2>0
    <3> QED
      BY <2>1, <2>0 DEF ReadFrames, Calls, Results
  <2>2. CASE ReadLatency
    <3> PICK n \in Nat : n = Counter.max
      BY <2>0
    <3> PICK m \in Nat : m = Counter.min
      BY <2>0
    <3> QED
      BY <2>2, <2>0 DEF ReadLatency, Calls, Results
  <2>3. CASE ReadTotal
    BY <2>3, <2>0 DEF ReadTotal, Calls
  <2>4. CASE ReadPackets
    <3> DEFINE one == Averaged(call.one, call.total, Counter.packets)
    <3>1. one \in Results
      BY <2>0, AveragedType
    <3>2. Sum(call.stat, one) \in Results
      BY <2>0, <3>1, SumType
    <3>3. call.at # LastPort => call.at + 1 \in CardPorts
      BY <2>0, StatsAssumption DEF CardPorts, LastPort
    <3> HIDE DEF one
    <3>4. call' \in Calls
      BY <2>4, <2>0, <3>1, <3>2, <3>3, LastPortType DEF ReadPackets, Calls, one
    <3> QED
      BY <2>4, <3>4 DEF ReadPackets
  <2>5. CASE ReadTotal2
    <3>1. call.total + Counter.total \in Nat
      BY <2>0
    <3>2. call' \in Calls
      BY <2>5, <2>0, <3>1 DEF ReadTotal2, Calls
    <3> QED
      BY <2>5, <3>2 DEF ReadTotal2
  <2>6. CASE ReadPackets2
    <3>0. PICK n \in Nat : n = call.packets + Counter.packets
      BY <2>0
    <3>1. Averaged(call.stat, call.total, n) \in Results
      BY <2>0, AveragedType
    <3>2. call.at # LastPort => call.at + 1 \in CardPorts
      BY <2>0, StatsAssumption DEF CardPorts, LastPort
    <3>3. call' \in Calls
      BY <2>6, <2>0, <3>0, <3>1, <3>2, LastPortType DEF ReadPackets2, Calls
    <3> QED
      BY <2>6, <3>3 DEF ReadPackets2
  <2>7. CASE Reset
    <3>1. NoFrames \in Counters
      BY DEF NoFrames, Counters
    <3>2. port' \in [CardPorts -> Counters]
      BY <2>7, <3>1 DEF Reset
    <3>3. call' \in Calls /\ start' \in Nat /\ resets' \in Nat
      BY <2>7 DEF Reset
    <3>4. undisturbed' \in BOOLEAN
      BY <2>7 DEF Reset
    <3> QED
      BY <3>2, <3>3, <3>4
  <2>8. ASSUME NEW p \in CardPorts, Begin(p) PROVE StatsTypeOK'
    <3>1. NoCall \in Calls
      BY <2>0, LastPortType DEF NoCall, Calls
    <3>2. start' \in Nat
      BY <2>8, FramesTotal, TotalType DEF Begin
    <3>3. call' \in Calls
      BY <2>8, <3>1 DEF Begin, Calls
    <3> QED
      BY <2>8, <3>2, <3>3 DEF Begin
  <2>9. ASSUME NEW p \in CardPorts, NEW l \in Latencies, Receive(p, l) PROVE StatsTypeOK'
    <3>1. l \in Nat /\ port[p] \in Counters
      BY StatsAssumption
    <3>2. port' \in [CardPorts -> Counters]
      BY <2>9, <3>1 DEF Receive, Larger, Lesser, Counters
    <3> QED
      BY <2>9, <3>2 DEF Receive
  <2>10. CASE UNCHANGED statsVars
    BY <2>10 DEF statsVars
  <2> QED
    BY <2>1, <2>2, <2>3, <2>4, <2>5, <2>6, <2>7, <2>8, <2>9, <2>10 DEF StatsNext, CallStep
<1> QED
  BY <1>1, <1>2, PTL DEF StatsSpec

-----------------------------------------------------------------------------
(* The invariants: where the call is; what it has added is bracketed by    *)
(* the frames of the ports it has read, now, and with those of the others  *)
(* by the frames there were; and its total, which it reads first, is at    *)
(* most a maximum for each packet it has counted.                          *)
ReadSoFar ==
  {q \in Counted(call.asked) :
     CASE call.pc = "frames" -> q < call.at
       [] call.pc \in {"latency", "total", "packets"} -> q <= call.at
       [] OTHER -> TRUE}
Unread == Counted(call.asked) \ ReadSoFar
Reported == call.stat.frames + call.one.frames

PlaceInv ==
  /\ call.pc # "idle" /\ ~Forty => call.at = call.asked
  /\ call.pc \in {"total2", "packets2"} => Forty
  /\ call.pc \in {"latency", "total", "packets"} \/ call.one = NoStat

FramesInv ==
  call.pc # "idle" /\ undisturbed =>
    /\ Reported <= Total(port, ReadSoFar)
    /\ start <= Reported + Total(port, Unread)

LatencyInv ==
  /\ \A p \in CardPorts : port[p].total <= port[p].max * port[p].packets
  /\ undisturbed =>
       /\ ~Forty /\ call.pc = "packets" => call.total <= Counter.max * Counter.packets
       /\ ~Forty /\ call.pc # "done" => call.stat = NoStat
       /\ call.pc = "total2" =>
            \E p \in CardPorts : call.total <= port[p].max * call.packets
       /\ call.pc = "packets2" =>
            \E p \in CardPorts : call.total <= port[p].max * call.packets
                                               + Counter.max * Counter.packets
       /\ call.pc = "done" =>
            \E p \in Counted(call.asked) : call.stat.int <= port[p].max

(* The place of the call. *)
LEMMA PlaceCorrect == StatsSpec => []PlaceInv
<1>1. StatsInit => PlaceInv
  BY DEF StatsInit, PlaceInv, NoCall
<1>2. StatsTypeOK /\ PlaceInv /\ [StatsNext]_statsVars => PlaceInv'
  <2> SUFFICES ASSUME StatsTypeOK, PlaceInv, [StatsNext]_statsVars PROVE PlaceInv'
    OBVIOUS
  <2>0. call \in Calls
    BY DEF StatsTypeOK
  <2> USE DEF PlaceInv, Forty
  <2>1. CASE ReadFrames
    BY <2>0, <2>1 DEF ReadFrames, Calls
  <2>2. CASE ReadLatency
    BY <2>0, <2>2 DEF ReadLatency, Calls
  <2>3. CASE ReadTotal
    BY <2>0, <2>3 DEF ReadTotal, Calls
  <2>4. CASE ReadPackets
    BY <2>0, <2>4 DEF ReadPackets, Calls
  <2>5. CASE ReadTotal2
    BY <2>0, <2>5 DEF ReadTotal2, Calls
  <2>6. CASE ReadPackets2
    BY <2>0, <2>6 DEF ReadPackets2, Calls
  <2>7. CASE Reset
    BY <2>7 DEF Reset
  <2>8. ASSUME NEW p \in CardPorts, Begin(p) PROVE PlaceInv'
    BY <2>8 DEF Begin, NoCall
  <2>9. ASSUME NEW p \in CardPorts, NEW l \in Latencies, Receive(p, l) PROVE PlaceInv'
    BY <2>9 DEF Receive
  <2>10. CASE UNCHANGED statsVars
    BY <2>10 DEF statsVars
  <2> QED
    BY <2>1, <2>2, <2>3, <2>4, <2>5, <2>6, <2>7, <2>8, <2>9, <2>10 DEF StatsNext, CallStep
<1> QED
  BY <1>1, <1>2, StatsTypeCorrect, PTL DEF StatsSpec

(* A step of a call adds the frames of one port to what it reports, or     *)
(* leaves what it reports and the ports it has read as they were.          *)
LEMMA CallMoves ==
  ASSUME StatsTypeOK, PlaceInv, CallStep
  PROVE  /\ call.pc # "idle" /\ UNCHANGED <<port, start, undisturbed>>
         /\ Counted(call.asked)' = Counted(call.asked)
         /\ \/ Reported' = Reported /\ ReadSoFar' = ReadSoFar
            \/ /\ call.at \in Unread
               /\ Reported' = Reported + Counter.frames
               /\ ReadSoFar' = ReadSoFar \cup {call.at}
<1>0. /\ call \in Calls /\ call.at \in CardPorts /\ Counter.frames \in Nat
      /\ call.one \in Results /\ call.stat \in Results
      /\ call.one.frames \in Nat /\ call.stat.frames \in Nat
      /\ NoStat.frames = 0 /\ Counter.packets \in Nat
      /\ call.total \in Nat /\ call.packets \in Nat
      /\ call.asked \in CardPorts
      /\ \A p \in CardPorts : p \in 0 .. LastPort
  <2>1. call \in Calls /\ Counter \in Counters
    BY DEF StatsTypeOK, Calls, Counter
  <2> QED
    BY <2>1 DEF Calls, Counters, Results, NoStat, CardPorts, LastPort
<1>1. CASE ReadFrames
  <2>1. /\ call'.pc = "latency" /\ call'.at = call.at /\ call'.asked = call.asked
        /\ call'.stat = call.stat /\ call'.one.frames = Counter.frames
        /\ call.pc = "frames" /\ call.one = NoStat
        /\ UNCHANGED <<port, start, undisturbed>>
    BY <1>0, <1>1 DEF ReadFrames, Calls, Results, PlaceInv
  <2>2. Forty' = Forty /\ (~Forty => call.at = call.asked)
    BY <2>1 DEF Forty, PlaceInv
  <2>3. Counted(call.asked)' = Counted(call.asked) /\ call.at \in Counted(call.asked)
    BY <1>0, <2>1, <2>2 DEF Counted
  <2>4. Reported' = Reported + Counter.frames
    BY <1>0, <2>1 DEF Reported
  <2>5. /\ ReadSoFar = {q \in Counted(call.asked) : q < call.at}
        /\ ReadSoFar' = {q \in Counted(call.asked) : q <= call.at}
    BY <2>1, <2>3 DEF ReadSoFar
  <2>6. \A q \in Counted(call.asked) : q \in CardPorts
    BY <1>0 DEF Counted
  <2>7. ReadSoFar' = ReadSoFar \cup {call.at} /\ call.at \notin ReadSoFar
    BY <1>0, <2>3, <2>5, <2>6 DEF CardPorts
  <2> QED
    BY <2>1, <2>3, <2>4, <2>7 DEF Unread
<1>2. CASE ReadLatency \/ ReadTotal
  <2>1. /\ call'.pc \in {"total", "packets"} /\ call.pc \in {"latency", "total"}
        /\ call'.at = call.at /\ call'.asked = call.asked
        /\ call'.stat = call.stat /\ call'.one.frames = call.one.frames
        /\ UNCHANGED <<port, start, undisturbed>>
    <3>1. CASE ReadLatency
      BY <1>0, <3>1 DEF ReadLatency, Calls, Results
    <3>2. CASE ReadTotal
      BY <1>0, <3>2 DEF ReadTotal, Calls, Results
    <3> QED
      BY <1>2, <3>1, <3>2
  <2>2. Counted(call.asked)' = Counted(call.asked)
    BY <2>1 DEF Counted, Forty
  <2> QED
    BY <2>1, <2>2 DEF Reported, ReadSoFar
<1>3. CASE ReadPackets
  <2> DEFINE one == Averaged(call.one, call.total, Counter.packets)
  <2>1. one \in Results /\ one.frames = call.one.frames
    BY <1>0, AveragedType
  <2>2. Sum(call.stat, one).frames = call.stat.frames + call.one.frames
    BY <1>0, <2>1, SumType
  <2> HIDE DEF one
  <2>3. /\ call'.one = NoStat /\ call'.stat = Sum(call.stat, one)
        /\ call'.asked = call.asked /\ call.pc = "packets"
        /\ IF ~Forty THEN call'.pc = "done"
           ELSE IF call.at = LastPort THEN call'.pc = "total2"
           ELSE call'.pc = "frames" /\ call'.at = call.at + 1
        /\ UNCHANGED <<port, start, undisturbed>>
    BY <1>0, <1>3 DEF ReadPackets, Calls, one
  <2>4. Reported' = Reported
    BY <1>0, <2>1, <2>2, <2>3 DEF Reported
  <2>5. Counted(call.asked)' = Counted(call.asked)
    BY <2>3 DEF Counted, Forty
  <2>6. ReadSoFar = {q \in Counted(call.asked) : q <= call.at}
    BY <2>3 DEF ReadSoFar
  <2>7. ReadSoFar' = ReadSoFar
    <3>1. CASE ~Forty
      <4>1. ReadSoFar' = Counted(call.asked) /\ Counted(call.asked) = {call.at}
        BY <2>3, <2>5, <3>1 DEF ReadSoFar, Counted, PlaceInv
      <4> QED
        BY <1>0, <2>6, <4>1 DEF CardPorts
    <3>2. CASE Forty /\ call.at = LastPort
      <4>1. ReadSoFar' = Counted(call.asked) /\ Counted(call.asked) = CardPorts
        BY <2>3, <2>5, <3>2 DEF ReadSoFar, Counted
      <4> QED
        BY <1>0, <2>6, <3>2, <4>1, LastPortType DEF CardPorts
    <3>3. CASE Forty /\ call.at # LastPort
      <4>1. /\ ReadSoFar' = {q \in Counted(call.asked) : q < call.at + 1}
            /\ Counted(call.asked) = CardPorts
        BY <2>3, <2>5, <3>3 DEF ReadSoFar, Counted
      <4>2. \A q \in CardPorts : q < call.at + 1 <=> q <= call.at
        BY <1>0 DEF CardPorts
      <4> QED
        BY <2>6, <4>1, <4>2
    <3> QED
      BY <3>1, <3>2, <3>3
  <2> QED
    BY <2>3, <2>4, <2>5, <2>7
<1>4. CASE ReadTotal2
  <2>1. /\ call'.pc = "packets2" /\ call.pc = "total2" /\ call'.asked = call.asked
        /\ call'.stat = call.stat /\ call'.one = call.one
        /\ UNCHANGED <<port, start, undisturbed>>
    BY <1>0, <1>4 DEF ReadTotal2, Calls
  <2>2. Counted(call.asked)' = Counted(call.asked)
    BY <2>1 DEF Counted, Forty
  <2> QED
    BY <2>1, <2>2 DEF Reported, ReadSoFar
<1>5. CASE ReadPackets2
  <2> PICK n \in Nat : n = call.packets + Counter.packets
    BY <1>0
  <2>0. /\ Averaged(call.stat, call.total, n) \in Results
        /\ Averaged(call.stat, call.total, n).frames = call.stat.frames
    <3>1. call.stat \in Results /\ call.total \in Nat
      BY <1>0
    <3> HIDE <1>0
    <3> QED
      BY <3>1, AveragedType
  <2>1. /\ call'.pc \in {"total2", "done"} /\ call.pc = "packets2"
        /\ call'.asked = call.asked /\ call'.one = call.one
        /\ call'.stat \in {call.stat, Averaged(call.stat, call.total, n)}
        /\ UNCHANGED <<port, start, undisturbed>>
    BY <1>0, <1>5 DEF ReadPackets2, Calls
  <2>2. Counted(call.asked)' = Counted(call.asked)
    BY <2>1 DEF Counted, Forty
  <2> QED
    BY <2>0, <2>1, <2>2 DEF Reported, ReadSoFar
<1> QED
  BY <1>1, <1>2, <1>3, <1>4, <1>5 DEF CallStep

(* Every step keeps the bracket. *)
LEMMA FramesCorrect == StatsSpec => []FramesInv
<1>1. StatsInit => FramesInv
  BY DEF StatsInit, NoCall, FramesInv
<1>2. ASSUME StatsTypeOK, PlaceInv, FramesInv, [StatsNext]_statsVars PROVE FramesInv'
  <2>0. /\ call \in Calls /\ port \in [CardPorts -> Counters] /\ start \in Nat
        /\ Reported \in Nat
    <3>1. call.one \in Results /\ call.stat \in Results
      BY <1>2 DEF StatsTypeOK, Calls
    <3> QED
      BY <1>2, <3>1 DEF StatsTypeOK, Reported, Results
  <2>1. CASE CallStep
    <3> SUFFICES ASSUME undisturbed
                 PROVE  /\ Reported' <= Total(port, ReadSoFar')
                        /\ start <= Reported' + Total(port, Unread')
      <4>1. UNCHANGED <<port, start, undisturbed>>
        BY <1>2, <2>1, CallMoves
      <4> QED
        BY <4>1, FramesTotal DEF FramesInv
    <3>1. /\ Reported <= Total(port, ReadSoFar)
          /\ start <= Reported + Total(port, Unread)
      BY <1>2, <2>1, CallMoves DEF FramesInv
    <3>2. Unread' = Counted(call.asked) \ ReadSoFar'
      BY <1>2, <2>1, CallMoves DEF Unread
    <3>3. CASE Reported' = Reported /\ ReadSoFar' = ReadSoFar
      BY <3>1, <3>2, <3>3 DEF Unread
    <3>4. CASE /\ call.at \in Unread /\ Reported' = Reported + Counter.frames
               /\ ReadSoFar' = ReadSoFar \cup {call.at}
      <4> PICK q \in CardPorts, r \in [CardPorts -> Counters] : q = call.at /\ r = port
        BY <2>0 DEF Calls
      <4> PICK A, B : A = ReadSoFar /\ B = Unread'
        OBVIOUS
      <4>1. q \notin A /\ Total(r, A \cup {q}) = Total(r, A) + r[q].frames
        BY <3>4, TotalOneMore DEF Unread
      <4>2. q \notin B /\ Unread = B \cup {q}
        BY <3>2, <3>4 DEF Unread
      <4>3. Total(r, B \cup {q}) = Total(r, B) + r[q].frames
        BY <4>2, TotalOneMore
      <4>4. /\ Total(r, A) \in Nat /\ Total(r, B) \in Nat
            /\ r[q].frames \in Nat
        BY TotalType, FramesOfType
      <4>5. Counter.frames = r[q].frames
        BY DEF Counter
      <4>6. /\ Reported <= Total(r, A)
            /\ start <= Reported + (Total(r, B) + r[q].frames)
        BY <3>1, <4>2, <4>3
      <4>7. /\ Reported + r[q].frames <= Total(r, A) + r[q].frames
            /\ start <= Reported + r[q].frames + Total(r, B)
        BY <2>0, <4>4, <4>6
      <4> QED
        BY <3>4, <4>1, <4>5, <4>7
    <3> QED
      BY <1>2, <2>1, <3>3, <3>4, CallMoves
  <2>2. CASE Reset
    BY <2>2 DEF Reset, FramesInv
  <2>3. ASSUME NEW p \in CardPorts, Begin(p) PROVE FramesInv'
    <3>1. /\ call'.pc = "frames" /\ call'.asked = p /\ call'.at = p
          /\ call'.one.frames = 0 /\ call'.stat.frames = 0 /\ port' = port
          /\ start' = Frames(IF p = 0 /\ Is40G THEN CardPorts ELSE {p})
      BY <2>3 DEF Begin, NoCall, NoStat
    <3>2. Counted(call.asked)' = IF p = 0 /\ Is40G THEN CardPorts ELSE {p}
      BY <3>1 DEF Counted, Forty
    <3>3. ReadSoFar' = {q \in Counted(call.asked)' : q < p}
      BY <3>1 DEF ReadSoFar
    <3>4. ReadSoFar' = {}
      BY <3>2, <3>3 DEF CardPorts
    <3>5. Unread' = Counted(call.asked)'
      BY <3>4 DEF Unread
    <3>6. Reported' = 0
      BY <3>1 DEF Reported
    <3>7. Total(port, {}) = 0 /\ start' \in Nat /\ start' = Total(port, Unread')
      <4> PICK S : S = Unread'
        OBVIOUS
      <4> QED
        BY <2>0, <3>1, <3>2, <3>5, TotalEmpty, TotalType, FramesTotal
    <3> QED
      BY <3>1, <3>4, <3>6, <3>7, FramesTotal DEF FramesInv
  <2>4. ASSUME NEW p \in CardPorts, NEW l \in Latencies, Receive(p, l) PROVE FramesInv'
    <3>1. UNCHANGED <<call, start, undisturbed>>
      BY <2>4 DEF Receive
    <3>2. ReadSoFar' = ReadSoFar /\ Unread' = Unread /\ Reported' = Reported
      BY <3>1 DEF ReadSoFar, Unread, Reported, Counted, Forty
    <3> PICK r \in [CardPorts -> Counters] : r = port
      BY <2>0
    <3> PICK A, B : A = ReadSoFar /\ B = Unread
      OBVIOUS
    <3>3. port[p].frames \in Nat /\ l \in Nat
      BY <2>0, StatsAssumption DEF Counters
    <3>4. port' \in [CardPorts -> Counters]
      BY <2>4, <2>0, StatsAssumption DEF Receive, Larger, Lesser, Counters
    <3>5. PICK s \in [CardPorts -> Counters] : s = port'
      BY <3>4
    <3>6. \A q \in CardPorts : r[q].frames <= s[q].frames
      BY <2>4, <3>3, <3>5, FramesOfType DEF Receive
    <3>7. Total(r, A) <= Total(s, A) /\ Total(r, B) <= Total(s, B)
      BY <3>6, TotalGrows
    <3>8. /\ Total(r, A) \in Nat /\ Total(s, A) \in Nat
          /\ Total(r, B) \in Nat /\ Total(s, B) \in Nat
      BY TotalType
    <3>9. Reported <= Total(r, A) /\ start <= Reported + Total(r, B) =>
             Reported <= Total(s, A) /\ start <= Reported + Total(s, B)
      BY <2>0, <3>7, <3>8
    <3>10. call.pc # "idle" /\ undisturbed =>
             Reported <= Total(r, A) /\ start <= Reported + Total(r, B)
      BY <1>2 DEF FramesInv
    <3>11. call.pc # "idle" /\ undisturbed =>
             Reported <= Total(s, A) /\ start <= Reported + Total(s, B)
      BY <3>9, <3>10
    <3> QED
      BY <3>1, <3>2, <3>5, <3>11, FramesTotal DEF FramesInv
  <2>5. CASE UNCHANGED statsVars
    <3>1. UNCHANGED <<port, call, start, undisturbed>>
      BY <2>5 DEF statsVars
    <3>2. ReadSoFar' = ReadSoFar /\ Unread' = Unread /\ Reported' = Reported
      BY <3>1 DEF ReadSoFar, Unread, Reported, Counted, Forty
    <3> QED
      BY <1>2, <3>1, <3>2, FramesTotal DEF FramesInv
  <2> QED
    BY <1>2, <2>1, <2>2, <2>3, <2>4, <2>5 DEF StatsNext
<1> QED
  BY <1>1, <1>2, StatsTypeCorrect, PlaceCorrect, PTL DEF StatsSpec

(* At the end no port is unread.                                           *)
THEOREM FramesAreBracketed == StatsSpec => []FramesBracketed
<1>1. StatsTypeOK /\ PlaceInv /\ FramesInv => FramesBracketed
  <2> SUFFICES ASSUME StatsTypeOK, PlaceInv, FramesInv, Done
               PROVE  /\ start <= call.stat.frames
                      /\ call.stat.frames <= Frames(Counted(call.asked))
    BY DEF FramesBracketed
  <2>1. call.pc = "done" /\ undisturbed /\ call.one = NoStat
    BY DEF Done, PlaceInv
  <2>2. ReadSoFar = Counted(call.asked) /\ Unread = {}
    BY <2>1 DEF ReadSoFar, Unread
  <2>3. call.stat.frames \in Nat /\ Reported = call.stat.frames
    <3>1. call.stat \in Results
      BY DEF StatsTypeOK, Calls
    <3> QED
      BY <2>1, <3>1 DEF Reported, Results, NoStat
  <2>4. Total(port, {}) = 0
    BY TotalEmpty DEF StatsTypeOK
  <2>5. start \in Nat
    BY DEF StatsTypeOK
  <2> QED
    BY <2>1, <2>2, <2>3, <2>4, <2>5, FramesTotal DEF FramesInv
<1> QED
  BY <1>1, StatsTypeCorrect, PlaceCorrect, FramesCorrect, PTL

-----------------------------------------------------------------------------
(* The average *)

LEMMA TimesType ==
  ASSUME NEW a \in Nat, NEW b \in Nat
  PROVE  a * b \in Nat
OBVIOUS

LEMMA TimesMore ==
  ASSUME NEW a \in Nat, NEW b \in Nat, NEW c \in Nat, NEW d \in Nat, a <= c, b <= d
  PROVE  a * b <= c * d
<1>1. PICK m \in Nat : c = a + m
  <2>1. c - a \in Nat /\ c = a + (c - a)
    OBVIOUS
  <2> QED
    BY <2>1
<1>2. PICK n \in Nat : d = b + n
  <2>1. d - b \in Nat /\ d = b + (d - b)
    OBVIOUS
  <2> QED
    BY <2>1
<1>3. (a + m) * (b + n) = a * b + a * n + m * b + m * n
  OBVIOUS
<1>4. a * b \in Nat /\ a * n \in Nat /\ m * b \in Nat /\ m * n \in Nat
  OBVIOUS
<1> QED
  BY <1>1, <1>2, <1>3, <1>4

LEMMA TimesOneMore ==
  ASSUME NEW a \in Nat, NEW b \in Nat, NEW c \in Nat
  PROVE  a * (b + c) = a * b + a * c /\ a * (b + 1) = a * b + a
OBVIOUS

(* A quotient is at most m if the number divided is at most m times the    *)
(* divisor.                                                                *)
LEMMA QuotientBounded ==
  ASSUME NEW a \in Nat, NEW b \in Nat, NEW m \in Nat, a <= m * b
  PROVE  IntPart(a, b) <= m
<1>1. CASE b = 0
  BY <1>1 DEF IntPart
<1>2. CASE b # 0
  <2>1. PICK q \in Nat : q = a \div b
    BY <1>2
  <2>2. b * q <= a
    BY <1>2, <2>1
  <2>3. CASE m < q
    <3>1. (m + 1) * b <= q * b
      BY <2>3, TimesMore
    <3>2. (m + 1) * b = m * b + b /\ q * b = b * q /\ m * b \in Nat /\ b * q \in Nat
      OBVIOUS
    <3> QED
      BY <1>2, <2>2, <3>1, <3>2
  <2> QED
    BY <1>2, <2>1, <2>3 DEF IntPart
<1> QED
  BY <1>1, <1>2

(* Another frame of latency l. *)
LEMMA AverageOneMore ==
  ASSUME NEW t \in Nat, NEW m \in Nat, NEW k \in Nat, NEW l \in Nat, t <= m * k
  PROVE  t + l <= Larger(m, l) * (k + 1)
<1>1. PICK n \in Nat : n = Larger(m, l) /\ m <= n /\ l <= n
  BY DEF Larger
<1>2. m * k <= n * k
  BY <1>1, TimesMore
<1>3. n * (k + 1) = n * k + n /\ n * k \in Nat /\ m * k \in Nat
  OBVIOUS
<1> QED
  BY <1>1, <1>2, <1>3

(* What two ports have measured, added. *)
LEMMA AverageOfTwo ==
  ASSUME NEW t \in Nat, NEW m \in Nat, NEW k \in Nat, NEW n \in Nat, NEW j \in Nat,
         t <= m * k + n * j
  PROVE  t <= m * (k + j) \/ t <= n * (k + j)
<1>0. /\ m * k \in Nat /\ n * j \in Nat /\ m * j \in Nat /\ n * k \in Nat
      /\ m * (k + j) = m * k + m * j /\ n * (k + j) = n * k + n * j
  OBVIOUS
<1>1. CASE n <= m
  BY <1>0, <1>1, TimesMore
<1>2. CASE m <= n
  BY <1>0, <1>2, TimesMore
<1> QED
  BY <1>1, <1>2

LEMMA PortType ==
  ASSUME NEW r \in [CardPorts -> Counters], NEW p \in CardPorts
  PROVE  /\ r[p].max \in Nat /\ r[p].total \in Nat /\ r[p].packets \in Nat
         /\ r[p].max * r[p].packets \in Nat
<1>1. r[p].max \in Nat /\ r[p].total \in Nat /\ r[p].packets \in Nat
  BY DEF Counters
<1> QED
  BY <1>1, TimesType

(* What a frame does to the counters the invariant is about. *)
LEMMA ReceiveGrows ==
  ASSUME StatsTypeOK, NEW p \in CardPorts, NEW l \in Latencies, Receive(p, l)
  PROVE  /\ port' \in [CardPorts -> Counters] /\ call' = call /\ undisturbed' = undisturbed
         /\ \A q \in CardPorts : /\ port[q].max <= port'[q].max
                                 /\ port[q].packets <= port'[q].packets
         /\ \A q \in CardPorts \ {p} : port'[q] = port[q]
         /\ port'[p].max = Larger(port[p].max, l)
         /\ port'[p].total = port[p].total + l
         /\ port'[p].packets = port[p].packets + 1
<1>1. l \in Nat /\ port \in [CardPorts -> Counters] /\ port[p] \in Counters
  BY StatsAssumption DEF StatsTypeOK
<1>2. PICK new \in Counters :
        /\ port' = [port EXCEPT ![p] = new]
        /\ new.max = Larger(port[p].max, l)
        /\ new.total = port[p].total + l
        /\ new.packets = port[p].packets + 1
  <2> DEFINE c == port[p]
             new == [frames |-> c.frames + 1, max |-> Larger(c.max, l),
                     min |-> IF c.packets = 0 THEN l ELSE Lesser(c.min, l),
                     total |-> c.total + l, packets |-> c.packets + 1]
  <2>1. new \in Counters
    BY <1>1 DEF Larger, Lesser, Counters
  <2>2. port' = [port EXCEPT ![p] = new]
    BY <1>1 DEF Receive
  <2> QED
    BY <2>1, <2>2
<1>3. new.max >= port[p].max /\ new.packets >= port[p].packets
  BY <1>1, <1>2, PortType DEF Larger
<1>4. \A q \in CardPorts \ {p} : port'[q] = port[q]
  BY <1>1, <1>2
<1>5. port' \in [CardPorts -> Counters] /\ port'[p] = new
  BY <1>1, <1>2
<1>6. \A q \in CardPorts : port[q].max \in Nat /\ port[q].packets \in Nat
  BY <1>1, PortType
<1>7. \A q \in CardPorts : /\ port[q].max <= port'[q].max
                           /\ port[q].packets <= port'[q].packets
  BY <1>3, <1>4, <1>5, <1>6
<1> QED
  BY <1>2, <1>4, <1>5, <1>7 DEF Receive

(* Every step keeps the totals at most a maximum for each packet: a frame  *)
(* counts in the total, the maximum and the packets at once, and of a port *)
(* the total is read before the packets.                                   *)
LEMMA LatencyCorrect == StatsSpec => []LatencyInv
<1>1. StatsInit => LatencyInv
  BY DEF StatsInit, NoCall, NoFrames, LatencyInv
<1>2. ASSUME StatsTypeOK, PlaceInv, LatencyInv, [StatsNext]_statsVars PROVE LatencyInv'
  <2>0. /\ call \in Calls /\ port \in [CardPorts -> Counters]
        /\ call.at \in CardPorts /\ call.asked \in CardPorts
        /\ call.total \in Nat /\ call.packets \in Nat
        /\ call.one \in Results /\ call.stat \in Results
        /\ \A p \in CardPorts : /\ port[p].max \in Nat /\ port[p].total \in Nat
                                /\ port[p].packets \in Nat
                                /\ port[p].max * port[p].packets \in Nat
    <3>1. call \in Calls /\ port \in [CardPorts -> Counters]
      BY <1>2 DEF StatsTypeOK
    <3> QED
      BY <3>1, PortType DEF Calls
  <2>1. CASE ReadFrames
    <3>1. /\ call.pc = "frames" /\ call'.pc = "latency" /\ call'.asked = call.asked
          /\ call'.stat = call.stat /\ UNCHANGED <<port, undisturbed>>
      BY <2>0, <2>1 DEF ReadFrames, Calls
    <3> QED
      BY <1>2, <3>1 DEF LatencyInv, Forty
  <2>2. CASE ReadLatency
    <3>1. /\ call.pc = "latency" /\ call'.pc = "total" /\ call'.asked = call.asked
          /\ call'.stat = call.stat /\ UNCHANGED <<port, undisturbed>>
      BY <2>0, <2>2 DEF ReadLatency, Calls
    <3> QED
      BY <1>2, <3>1 DEF LatencyInv, Forty
  <2>3. CASE ReadTotal
    <3>1. /\ call.pc = "total" /\ call'.pc = "packets" /\ call'.asked = call.asked
          /\ call'.stat = call.stat /\ call'.total = port[call.at].total
          /\ call'.at = call.at /\ UNCHANGED <<port, undisturbed>>
      BY <2>0, <2>3 DEF ReadTotal, Calls, Counter
    <3>2. port[call.at].total <= port[call.at].max * port[call.at].packets
      BY <1>2, <2>0 DEF LatencyInv
    <3> QED
      BY <1>2, <3>1, <3>2 DEF LatencyInv, Forty, Counter
  <2>4. CASE ReadPackets
    <3> DEFINE one == Averaged(call.one, call.total, Counter.packets)
    <3>0. Counter.packets \in Nat /\ Counter.max \in Nat
      BY <2>0 DEF Counter
    <3>1. one \in Results /\ one.int = IntPart(call.total, Counter.packets)
      BY <2>0, <3>0, AveragedType
    <3>2. call.stat.int = 0 => Sum(call.stat, one).int = one.int
      BY <2>0, <3>1, SumType
    <3> HIDE DEF one
    <3>3. /\ call.pc = "packets" /\ call'.asked = call.asked
          /\ call'.stat = Sum(call.stat, one)
          /\ IF ~Forty THEN call'.pc = "done" ELSE call'.pc \in {"total2", "frames"}
          /\ Forty => call'.total = 0 /\ call'.packets = 0
          /\ UNCHANGED <<port, undisturbed>>
      BY <2>0, <2>4 DEF ReadPackets, Calls, one
    <3>4. CASE ~Forty
      <4> SUFFICES ASSUME undisturbed PROVE call'.stat.int <= port[call.asked].max
        BY <1>2, <2>0, <3>3, <3>4 DEF LatencyInv, Forty, Counted
      <4>1. call.stat.int = 0 /\ call.at = call.asked
        BY <1>2, <3>3, <3>4 DEF LatencyInv, PlaceInv, NoStat
      <4>2. call.total <= Counter.max * Counter.packets
        BY <1>2, <3>3, <3>4 DEF LatencyInv
      <4>3. IntPart(call.total, Counter.packets) <= Counter.max
        BY <2>0, <3>0, <4>2, QuotientBounded
      <4> QED
        BY <3>1, <3>2, <3>3, <4>1, <4>3 DEF Counter
    <3>5. CASE Forty
      <4>1. \A p \in CardPorts : 0 <= port[p].max * 0
        BY <2>0
      <4>2. Forty' /\ call'.pc \in {"total2", "frames"}
        BY <3>3, <3>5 DEF Forty
      <4> QED
        BY <1>2, <3>3, <3>5, <4>1, <4>2, LastPortType DEF LatencyInv
    <3> QED
      BY <3>4, <3>5
  <2>5. CASE ReadTotal2
    <3>1. /\ call.pc = "total2" /\ call'.pc = "packets2" /\ call'.asked = call.asked
          /\ call'.stat = call.stat /\ call'.total = call.total + port[call.at].total
          /\ call'.at = call.at /\ call'.packets = call.packets
          /\ UNCHANGED <<port, undisturbed>>
      BY <2>0, <2>5 DEF ReadTotal2, Calls, Counter
    <3>2. port[call.at].total <= port[call.at].max * port[call.at].packets
      BY <1>2, <2>0 DEF LatencyInv
    <3>3. Forty'
      BY <1>2, <3>1 DEF PlaceInv, Forty
    <3> SUFFICES ASSUME undisturbed
                 PROVE  \E p \in CardPorts :
                          call'.total <= port[p].max * call.packets
                                         + port[call.at].max * port[call.at].packets
      BY <1>2, <3>1, <3>3 DEF LatencyInv, Counter
    <3>4. PICK p \in CardPorts : call.total <= port[p].max * call.packets
      BY <1>2, <3>1 DEF LatencyInv
    <3>5. port[p].max * call.packets \in Nat
      BY <2>0, TimesType
    <3> QED
      BY <2>0, <3>1, <3>2, <3>4, <3>5
  <2>6. CASE ReadPackets2
    <3> PICK k \in Nat : k = call.packets + port[call.at].packets
      BY <2>0
    <3>0. /\ Averaged(call.stat, call.total, k) \in Results
          /\ Averaged(call.stat, call.total, k).int = IntPart(call.total, k)
      <4>1. call.stat \in Results /\ call.total \in Nat
        BY <2>0
      <4> HIDE <2>0
      <4> QED
        BY <4>1, AveragedType
    <3>1. /\ call.pc = "packets2" /\ call'.asked = call.asked
          /\ call'.total = call.total /\ call'.packets = k
          /\ UNCHANGED <<port, undisturbed>>
          /\ \/ call'.pc = "total2" /\ call'.stat = call.stat
             \/ call'.pc = "done" /\ call'.stat = Averaged(call.stat, call.total, k)
      BY <2>0, <2>6 DEF ReadPackets2, Calls, Counter
    <3>2. Forty /\ Forty'
      BY <1>2, <3>1 DEF PlaceInv, Forty
    <3> SUFFICES ASSUME undisturbed
                 PROVE  \E p \in CardPorts : /\ call.total <= port[p].max * k
                                             /\ IntPart(call.total, k) <= port[p].max
      BY <1>2, <3>0, <3>1, <3>2 DEF LatencyInv, Counted
    <3>3. PICK p \in CardPorts : call.total <= port[p].max * call.packets
                                               + port[call.at].max * port[call.at].packets
      BY <1>2, <3>1 DEF LatencyInv, Counter
    <3>4. call.total <= port[p].max * k \/ call.total <= port[call.at].max * k
      BY <2>0, <3>3, AverageOfTwo
    <3>5. PICK q \in CardPorts : call.total <= port[q].max * k
      BY <2>0, <3>4
    <3>6. IntPart(call.total, k) <= port[q].max
      BY <2>0, <3>5, QuotientBounded
    <3> QED
      BY <3>5, <3>6
  <2>7. CASE Reset
    <3>1. /\ \A p \in CardPorts : port'[p] = NoFrames
          /\ undisturbed' = FALSE
      BY <2>7 DEF Reset
    <3> QED
      BY <3>1 DEF LatencyInv, NoFrames
  <2>8. ASSUME NEW p \in CardPorts, Begin(p) PROVE LatencyInv'
    <3>1. call'.pc = "frames" /\ call'.stat = NoStat /\ port' = port
      BY <2>8 DEF Begin, NoCall
    <3> QED
      BY <1>2, <3>1 DEF LatencyInv
  <2>9. ASSUME NEW p \in CardPorts, NEW l \in Latencies, Receive(p, l) PROVE LatencyInv'
    <3> PICK r \in [CardPorts -> Counters] : r = port'
      BY <1>2, <2>9, ReceiveGrows
    <3>1. /\ call' = call /\ undisturbed' = undisturbed
          /\ \A q \in CardPorts : port[q].max <= r[q].max /\ port[q].packets <= r[q].packets
      BY <1>2, <2>9, ReceiveGrows
    <3>2. \A q \in CardPorts : /\ r[q].max \in Nat /\ r[q].packets \in Nat
                               /\ r[q].max * r[q].packets \in Nat
      BY PortType
    <3>3. \A q \in CardPorts : r[q].total <= r[q].max * r[q].packets
      <4> SUFFICES ASSUME NEW q \in CardPorts PROVE r[q].total <= r[q].max * r[q].packets
        OBVIOUS
      <4>1. port[q].total <= port[q].max * port[q].packets
        BY <1>2 DEF LatencyInv
      <4>2. l \in Nat
        BY StatsAssumption
      <4>3. CASE q = p
        <5>1. /\ r[q].max = Larger(port[q].max, l)
              /\ r[q].total = port[q].total + l
              /\ r[q].packets = port[q].packets + 1
          BY <1>2, <2>9, <4>3, ReceiveGrows
        <5> QED
          BY <2>0, <4>1, <4>2, <5>1, AverageOneMore
      <4>4. CASE q # p
        BY <1>2, <2>9, <4>1, <4>4, ReceiveGrows
      <4> QED
        BY <4>3, <4>4
    <3>4. \A q \in CardPorts : port[q].max * port[q].packets <= r[q].max * r[q].packets
      BY <2>0, <3>1, <3>2, TimesMore
    <3>5. \A q \in CardPorts : /\ port[q].max * call.packets <= r[q].max * call.packets
                               /\ port[q].max * call.packets \in Nat
                               /\ r[q].max * call.packets \in Nat
      BY <2>0, <3>1, <3>2, TimesMore, TimesType
    <3>6. undisturbed =>
            /\ ~Forty /\ call.pc = "packets" => call.total <= r[call.at].max * r[call.at].packets
            /\ ~Forty /\ call.pc # "done" => call.stat = NoStat
      <4>1. undisturbed =>
              /\ ~Forty /\ call.pc = "packets" =>
                   call.total <= port[call.at].max * port[call.at].packets
              /\ ~Forty /\ call.pc # "done" => call.stat = NoStat
        BY <1>2 DEF LatencyInv, Counter
      <4> QED
        BY <2>0, <3>2, <3>4, <4>1
    <3>7. undisturbed /\ call.pc = "total2" =>
            \E q \in CardPorts : call.total <= r[q].max * call.packets
      <4> SUFFICES ASSUME undisturbed, call.pc = "total2"
                   PROVE  \E q \in CardPorts : call.total <= r[q].max * call.packets
        OBVIOUS
      <4>1. PICK q \in CardPorts : call.total <= port[q].max * call.packets
        BY <1>2 DEF LatencyInv
      <4> QED
        BY <2>0, <3>5, <4>1
    <3>8. undisturbed /\ call.pc = "packets2" =>
            \E q \in CardPorts : call.total <= r[q].max * call.packets
                                               + r[call.at].max * r[call.at].packets
      <4> SUFFICES ASSUME undisturbed, call.pc = "packets2"
                   PROVE  \E q \in CardPorts : call.total <= r[q].max * call.packets
                                                 + r[call.at].max * r[call.at].packets
        OBVIOUS
      <4>1. PICK q \in CardPorts : call.total <= port[q].max * call.packets
                                      + port[call.at].max * port[call.at].packets
        BY <1>2 DEF LatencyInv, Counter
      <4> QED
        BY <2>0, <3>2, <3>4, <3>5, <4>1
    <3>9. undisturbed /\ call.pc = "done" =>
            \E q \in Counted(call.asked) : call.stat.int <= r[q].max
      <4> SUFFICES ASSUME undisturbed, call.pc = "done"
                   PROVE  \E q \in Counted(call.asked) : call.stat.int <= r[q].max
        OBVIOUS
      <4>1. PICK q \in Counted(call.asked) : call.stat.int <= port[q].max
        BY <1>2 DEF LatencyInv
      <4>2. q \in CardPorts /\ call.stat.int \in Nat
        BY <2>0 DEF Counted, Results
      <4> QED
        BY <2>0, <3>1, <3>2, <4>1, <4>2
    <3>10. /\ port' = r /\ Counted(call.asked)' = Counted(call.asked)
           /\ Forty' = Forty /\ Counter' = r[call.at]
      BY <3>1 DEF Counted, Forty, Counter
    <3> QED
      BY <3>1, <3>3, <3>6, <3>7, <3>8, <3>9, <3>10 DEF LatencyInv
  <2>10. CASE UNCHANGED statsVars
    BY <1>2, <2>10 DEF LatencyInv, statsVars, Forty, Counter, Counted
  <2> QED
    BY <1>2, <2>1, <2>2, <2>3, <2>4, <2>5, <2>6, <2>7, <2>8, <2>9, <2>10
    DEF StatsNext, CallStep
<1> QED
  BY <1>1, <1>2, StatsTypeCorrect, PlaceCorrect, PTL DEF StatsSpec

(* If no counter was reset since the call began, the average it reports is *)
(* at most the largest latency of a port at the end, though perhaps not at *)
(* most the maximum that the call reports, which it read earlier.          *)
THEOREM AverageIsWithinMeasured == StatsSpec => []AverageWithinMeasured
<1>1. LatencyInv => AverageWithinMeasured
  BY DEF LatencyInv, AverageWithinMeasured
<1> QED
  BY <1>1, LatencyCorrect, PTL
=============================================================================
