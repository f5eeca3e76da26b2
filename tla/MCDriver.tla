------------------------------ MODULE MCDriver ------------------------------
(* A process that reads the link status of both PHYs, as the daemon does,  *)
(* and one that reads the link status too and has a device of its own, of  *)
(* which it reads one register and writes another.                         *)
EXTENDS BslDriver

Link(phy) == [op |-> "read", phy |-> phy, dev |-> 1, reg |-> 1]

MCCallers == {"daemon", "diag"}
MCAsks ==
  [c \in MCCallers |->
     IF c = "daemon"
     THEN {Link(0), Link(1)}
     ELSE {Link(0), [op |-> "read", phy |-> 0, dev |-> 3, reg |-> 1],
           [op |-> "write", phy |-> 0, dev |-> 3, reg |-> 2]}]
=============================================================================
