------------------------------ MODULE MCStream ------------------------------
(* A card of two ports with two streams each, one to a word of SECR: two   *)
(* streams of port 0, one of the 40G link of both ports, one with a frame  *)
(* size specification that is refused, one on a port where a 40G link is   *)
(* out of range, and a request that disables a stream.                     *)
EXTENDS BslStream

MCContents == {"ip4udp", "raw"}
MCParts == [c \in MCContents |-> IF c = "ip4udp" THEN {"ether", "ip4", "ports"} ELSE {"pattern"}]

Ask(port, stream, content, enable) ==
  [port |-> port, stream |-> stream, content |-> content, enable |-> enable, badframe |-> FALSE]

MCRequests ==
  {Ask(0, 0, "raw", 1), Ask(0, 1, "ip4udp", 1), Ask(0, 1, "raw", EnableStream40G),
   Ask(1, 1, "raw", EnableStream40G), Ask(0, 1, "raw", Disable),
   [Ask(0, 1, "ip4udp", 1) EXCEPT !.badframe = TRUE]}
=============================================================================
