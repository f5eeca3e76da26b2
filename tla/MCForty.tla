------------------------------ MODULE MCForty ------------------------------
(***************************************************************************)
(* The two things the library does on all four ports of a 40G link, one of *)
(* which a behaviour does: programming a stream (BslSplit) and reading     *)
(* statistics (BslStats), here of two ports with a short and a long        *)
(* latency.  Fields have six bits and integers four, as halves of an IPv6  *)
(* address have twice the bits of an integer; all repeat counts, and steps *)
(* that are odd, even, a multiple of four, and that wrap times four.       *)
(***************************************************************************)
EXTENDS BslSplit, BslStats

VARIABLE job  \* "stream" or "stats"

Plain == [kind |-> "mac", mode |-> "inc", addr |-> 0, step |-> 1, repeat |-> 6,
          part |-> "host", prefix |-> 0]
OneSize == [min |-> 6, max |-> 9, step |-> 1]
NoLayer3 == [kind |-> "none", hlen |-> 5, opts |-> 0, next |-> <<>>, override |-> FALSE]
NoLayer4 == [kind |-> "none", words |-> 5, opts |-> 0, type |-> 0, override |-> FALSE]
Bare == [eth |-> "typed", tag |-> "none", l3 |-> NoLayer3, l4 |-> NoLayer4]
Ask == [field |-> Plain, sizes |-> OneSize, layers |-> Bare]

JobInit == \/ job = "stream" /\ Init /\ StatsInit
           \/ job = "stats" /\ request = Ask /\ link40G = Is40G /\ Init /\ StatsInit
JobNext ==
  /\ UNCHANGED job
  /\ \/ job = "stream" /\ Next /\ UNCHANGED statsVars
     \/ job = "stats" /\ StatsNext /\ UNCHANGED vars
JobSpec == JobInit /\ [][JobNext]_<<job, vars, statsVars>>

-----------------------------------------------------------------------------
Numbers == [kind : {"mac", "int"}, mode : Modes, addr : {0, 5, 63}, step : {0, 1, 2, 3, 4, 8, 12},
            repeat : 0 .. 15, part : {"host"}, prefix : {0}]
Addresses == [kind : {"ip4", "ip6"}, mode : Modes, addr : {0, 45}, step : {1, 2, 3, 8},
              repeat : 0 .. 15, part : {"host", "net"}, prefix : 1 .. 6]
NoMask == [kind : {"ip4", "ip6"}, mode : Modes, addr : {0, 45}, step : {1}, repeat : 0 .. 15,
           part : {"host", "net"}, prefix : {0}]
Grown == {[min |-> a, max |-> a + d, step |-> s] : a \in {0, 6}, d \in 0 .. 20, s \in 1 .. 5}

Layer3s ==
  {NoLayer3, [NoLayer3 EXCEPT !.kind = "arp"]}
  \cup {[NoLayer3 EXCEPT !.kind = "ip4", !.hlen = w[1], !.opts = w[2]] :
          w \in {<<5, 0>>, <<7, 8>>, <<7, 4>>, <<16, 0>>}}
  \cup {[NoLayer3 EXCEPT !.kind = "ip4", !.override = TRUE]}
  \cup {[NoLayer3 EXCEPT !.kind = "ip6", !.next = n] : n \in {<<>>, <<8>>, <<8, 8>>, <<8, 16>>}}
  \cup {[NoLayer3 EXCEPT !.kind = k, !.hlen = w[1], !.opts = w[2], !.next = n] :
          k \in {"ip4overip6", "ip6overip4"}, w \in {<<5, 0>>, <<7, 8>>}, n \in {<<>>, <<8>>}}
Layer4s ==
  {NoLayer4, [NoLayer4 EXCEPT !.kind = "udp"], [NoLayer4 EXCEPT !.kind = "igmp"],
   [NoLayer4 EXCEPT !.kind = "udp", !.override = TRUE]}
  \cup {[NoLayer4 EXCEPT !.kind = "tcp", !.words = w[1], !.opts = w[2]] :
          w \in {<<5, 0>>, <<8, 12>>, <<8, 8>>}}
  \cup {[NoLayer4 EXCEPT !.kind = "icmp", !.type = t] : t \in {3, 8}}
Shapes == [eth : {"typed", "typeless"}, tag : {"none", "vlan", "vlan2", "mpls", "mpls2", "isl"},
           l3 : Layer3s, l4 : Layer4s]

MCRequests ==
  [field : Numbers \cup Addresses \cup NoMask, sizes : {OneSize}, layers : {Bare}]
  \cup [field : {Plain}, sizes : Grown, layers : {Bare}]
  \cup [field : {Plain}, sizes : {OneSize}, layers : Shapes]
=============================================================================
