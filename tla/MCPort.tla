------------------------------- MODULE MCPort -------------------------------
(* Each register is written by one process: the daemon sets the mode and   *)
(* the checks of port 1, while a tool commands the traffic of that port    *)
(* and configures port 0.  Both reset the counters.                        *)
EXTENDS BslPort

MCProcs == {"daemon", "tool"}

Mode(p, v) == [op |-> "mode", port |-> p, val |-> v]
Latency(p, v) == [op |-> "latency", port |-> p, val |-> v]
Active(p, v) == [op |-> "active", port |-> p, val |-> v]
Command(p, v, s) == [op |-> "command", port |-> p, val |-> v, sel |-> s]
Network(p, v) == [op |-> "network", port |-> p, val |-> v]
Reset == [op |-> "reset", port |-> 0]

MCRequests ==
  [c \in MCProcs |->
     IF c = "daemon"
     THEN {Mode(1, {0}), Latency(1, {1, 3}), Reset}
     ELSE {Active(0, {0}), Network(0, <<{0}, {1}, {2}>>),
           Command(1, Start, FALSE), Command(1, Stop, FALSE), Reset}]
=============================================================================
