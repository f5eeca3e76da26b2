------------------------------ MODULE MCMsgIf ------------------------------
(* The tester's message ids are on both sides of each check: 100 is below  *)
(* the lower bound although the table has it, 107 has no handler, 110 is   *)
(* handled.  The viewer sends messages of every kind, one at a time.       *)
EXTENDS BslMsgIf

Of(id, asks) == [id |-> id, delim |-> TRUE, whole |-> TRUE, asks |-> asks]
Ids == {Of(i, <<"other">>) : i \in {100, 107, 110}}
Kinds ==
  {Of(101, <<"other">>), Of(102, <<"other", "other">>), Of(103, <<"other", "other">>),
   Of(104, <<"on", "off">>), Of(105, <<"on">>), Of(105, <<"off">>),
   Of(106, <<"mixed">>), Of(106, <<"latency">>), Of(106, <<"signature">>), Of(106, <<"all">>),
   Of(108, <<"network">>), Of(109, <<"other">>), Of(110, <<"fatal">>), Of(111, <<"read", "write">>),
   Of(112, <<"other", "other">>)}

MCMessages ==
  [c \in Clients |->
     IF c = "viewer" THEN Kinds
     ELSE Ids \cup {[Of(110, <<"other">>) EXCEPT !.whole = FALSE]}]
MCMaxSent == [c \in Clients |-> IF c = "viewer" THEN 1 ELSE 2]

MC110 == [c \in Clients |-> {Of(110, <<"other">>)}]
=============================================================================
