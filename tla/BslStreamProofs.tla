-------------------------- MODULE BslStreamProofs --------------------------
(***************************************************************************)
(* Proofs about BslStream: for any card, any streams and any requests, a   *)
(* stream that was acknowledged stays in the FPGA's table as it was asked  *)
(* for, and what the daemon starts is what the FPGA has taken over.        *)
(***************************************************************************)
EXTENDS BslStream, TLAPS

Programs(r) == r.enable # Disable
Programming == call.pc \in {"open", "zero", "put", "poll"}

(* The port that is being programmed is one of the request's, and a stream *)
(* is programmed only for a request that asks for it.                      *)
PortIsMeant ==
  /\ Programming => Programs(call.req) /\ call.port \in PortsOf(call.req)
  /\ call.pc = "open" => call.port = call.req.port
  /\ call.pc \in {"zero", "put", "poll"} /\ Forty(call.req) => call.req.port = 0

(* Port p has taken over the stream of request r and is not asked for      *)
(* anything else.                                                          *)
Took(p, r) == ~pacr[p].pending /\ table[p][r.stream] = r.content

(* The ports of a 40G link are programmed in order, and all of them before *)
(* the stream is enabled.                                                  *)
PortsDone ==
  /\ call.pc \in {"zero", "put", "poll"} /\ Forty(call.req) =>
       \A p \in 0 .. call.port - 1 : Took(p, call.req)
  /\ ~Idle /\ Programs(call.req) /\ (At("enable") \/ (At("reply") /\ call.result = "ok")) =>
       \A p \in PortsOf(call.req) : Took(p, call.req)

(* What the steps of Put before step n have left in the staging registers. *)
Staged(n) ==
  /\ \A g \in Cleared \ Parts[call.req.content] : stage[call.port][g] = None
  /\ \A i \in 1 .. n - 1 :
       /\ Order[i] \in Always \cup Parts[call.req.content]
            => stage[call.port][Order[i]] = call.req.content
       /\ Order[i] = "number" => number[call.port] = call.req.stream

(* From the command to the end of the polling the port holds the stream,   *)
(* in its staging registers and, once bit 0 is clear, in its table.        *)
StageIsCall ==
  /\ At("open") \/ At("zero") => call.step = 1
  /\ At("put") => Staged(call.step)
  /\ At("poll") =>
       /\ Whole(call.port, call.req.content)
       /\ number[call.port] = call.req.stream
       /\ Pending \/ Took(call.port, call.req)

(* A command that may still be carried out concerns a stream of which no   *)
(* client knows anything, and so does the request in progress.             *)
LateIsUnknown ==
  /\ \A p \in Ports : pacr[p].pending => told[p][number[p]] = Unknown
  /\ ~Idle /\ Programs(call.req) =>
       \A p \in PortsOf(call.req) : told[p][call.req.stream] = Unknown

(* The enable bits differ from what the clients know only between a        *)
(* successful enableStream and the reply.                                  *)
Expected(p) ==
  IF At("reply") /\ call.result = "ok" /\ p = call.req.port
  THEN LET s == call.req.stream
           on == IF s = 0 THEN {} ELSE running[p]
       IN IF call.req.enable = Disable THEN on \ {s} ELSE on \cup {s}
  ELSE running[p]

BitsAreExpected == \A p \in Ports : Enabled(p) = Expected(p)

(* The inductive invariant.                                                *)
Inv == /\ TypeOK /\ PortIsMeant /\ PortsDone /\ StageIsCall
       /\ LateIsUnknown /\ StreamAsReplied /\ BitsAreExpected

-----------------------------------------------------------------------------
(* Facts about the operators *)

LEMMA OrderFacts ==
  /\ Len(Order) = 10
  /\ \A i \in 1 .. 10 : Order[i] \in Groups \cup {"number"}
  /\ Order[2] = "number"
  /\ \A g \in Groups : \E i \in 1 .. 10 : Order[i] = g
BY DEF Order, Groups, Always, Optional, Cleared

(* A stream is one bit of one word of SECR.                                *)
LEMMA WordBit ==
  /\ \A s, t \in Streams : Word(s) = Word(t) /\ Bit(s) = Bit(t) => s = t
  /\ \A s \in Streams : Word(s) \in Words /\ Bit(s) \in 0 .. WordSize - 1
<1>1. ASSUME NEW s \in Streams, NEW t \in Streams, Word(s) = Word(t), Bit(s) = Bit(t)
      PROVE  s = t
  BY <1>1, StreamAssumption DEF Streams, Word, Bit
<1>2. ASSUME NEW s \in Streams PROVE Word(s) \in Words
  BY StreamAssumption DEF Streams, Word, Words
<1>3. ASSUME NEW s \in Streams PROVE Bit(s) \in 0 .. WordSize - 1
  BY StreamAssumption DEF Streams, Bit
<1> QED BY <1>1, <1>2, <1>3

(* A request in progress, field by field.                                  *)
LEMMA CallFields ==
  ASSUME TypeOK, call.pc # "idle"
  PROVE  /\ call \in Calls
         /\ call.req \in Requests /\ call.req \in Request
         /\ call.req.port \in Ports /\ call.req.stream \in Streams
         /\ call.req.content \in Contents /\ call.req.badframe \in BOOLEAN
         /\ PortsOf(call.req) \subseteq Ports
         /\ call.port \in Ports /\ call.step \in Steps /\ call.limit \in -1 .. Limit
<1>1. call \in Calls /\ call.req \in Requests
  BY DEF TypeOK, Idle
<1>2. call.req \in Request
  BY <1>1, StreamAssumption
<1> QED BY <1>1, <1>2 DEF Calls, Request, PortsOf

-----------------------------------------------------------------------------
(* Type correctness *)

LEMMA InitTypes == Init => TypeOK
<1> SUFFICES ASSUME Init PROVE TypeOK
  OBVIOUS
<1>1. call \in Calls /\ Idle
  BY StreamAssumption, OrderFacts DEF Init, NoCall, Calls, Idle, Ports, Steps
<1>2. number \in [Ports -> Streams]
  BY StreamAssumption DEF Init, Streams
<1> QED BY <1>1, <1>2 DEF Init, TypeOK

(* A call goes on with the same request.                                   *)
LEMMA CallTypes ==
  ASSUME TypeOK, call.pc # "idle",
         call' \in Calls, call'.req = call.req
  PROVE  (call \in Calls /\ (~Idle => call.req \in Requests))'
BY CallFields

LEMMA PortDoneTypes ==
  ASSUME TypeOK, call.pc # "idle", NEW result \in {"ok", "badvalue"}, PortDone(result)
  PROVE  call' \in Calls /\ call'.req = call.req
<1>1. CASE result = "ok" /\ call.port < LastPort(call.req)
  <2>1. call.port + 1 \in Ports
    BY <1>1, CallFields, StreamAssumption DEF LastPort, Ports
  <2>2. 1 \in Steps /\ Limit \in -1 .. Limit
    BY StreamAssumption, OrderFacts DEF Steps
  <2>3. call' = [call EXCEPT !.pc = "zero", !.port = call.port + 1,
                            !.step = 1, !.limit = Limit, !.saw = FALSE]
    BY <1>1 DEF PortDone
  <2> QED BY <2>1, <2>2, <2>3, CallFields DEF Calls
<1>2. CASE ~(result = "ok" /\ call.port < LastPort(call.req))
  BY <1>2, CallFields DEF PortDone, SetReturns, Calls
<1> QED BY <1>1, <1>2

LEMMA StepTypes == TypeOK /\ [Next]_vars => TypeOK'
<1> SUFFICES ASSUME TypeOK, [Next]_vars PROVE TypeOK'
  OBVIOUS
<1>1. ASSUME NEW r \in Requests, Begin(r) PROVE TypeOK'
  <2>1. r \in Request
    BY StreamAssumption
  <2>2. call' \in Calls /\ call'.req = r
    BY <1>1, <2>1, StreamAssumption, OrderFacts DEF Begin, Request, Steps, Calls
  <2>3. told' \in [Ports -> [Streams -> Contents \cup {Unknown}]]
    BY <1>1, <2>1 DEF Begin, Request, TypeOK
  <2> QED BY <1>1, <2>2, <2>3 DEF Begin, TypeOK
<1>2. CASE OpenFails
  <2>1. call.pc # "idle" /\ call' \in Calls /\ call'.req = call.req
    BY <1>2, CallFields DEF OpenFails, At, SetReturns, Calls
  <2> QED BY <1>2, <2>1, CallTypes DEF OpenFails, TypeOK
<1>3. CASE Open
  <2>1. call.pc # "idle" /\ call' \in Calls /\ call'.req = call.req
    BY <1>3, CallFields DEF Open, At, Calls
  <2> QED BY <1>3, <2>1, CallTypes DEF Open, TypeOK
<1>4. CASE Zero
  <2>1. call.pc # "idle"
    BY <1>4 DEF Zero, At
  <2>2. call' \in Calls /\ call'.req = call.req
    <3>1. CASE call.req.badframe
      BY <1>4, <2>1, <3>1, PortDoneTypes DEF Zero
    <3>2. CASE ~call.req.badframe
      BY <1>4, <2>1, <3>2, CallFields DEF Zero, Calls
    <3> QED BY <3>1, <3>2
  <2>3. stage' \in [Ports -> [Groups -> Contents \cup {None}]]
    BY <1>4, <2>1, CallFields DEF Zero, TypeOK
  <2> QED BY <1>4, <2>1, <2>2, <2>3, CallTypes DEF Zero, TypeOK
<1>5. CASE Put
  <2>1. call.pc # "idle"
    BY <1>5 DEF Put, At
  <2>2. call' \in Calls /\ call'.req = call.req
    BY <1>5, <2>1, CallFields, OrderFacts DEF Put, Steps, Calls
  <2>3. number' \in [Ports -> Streams]
    BY <1>5, <2>1, CallFields DEF Put, TypeOK
  <2>4. stage' \in [Ports -> [Groups -> Contents \cup {None}]]
    BY <1>5, <2>1, CallFields DEF Put, TypeOK
  <2> QED BY <1>5, <2>1, <2>2, <2>3, <2>4, CallTypes DEF Put, TypeOK
<1>6. CASE Commit
  <2>1. call.pc # "idle" /\ call' \in Calls /\ call'.req = call.req
    BY <1>6, CallFields DEF Commit, At, Calls
  <2>2. pacr' \in [Ports -> [pending : BOOLEAN, content : Contents \cup {None}]]
    BY <1>6, <2>1, CallFields DEF Commit, TypeOK
  <2> QED BY <1>6, <2>1, <2>2, CallTypes DEF Commit, TypeOK
<1>7. CASE PollAgain
  <2>1. call.pc # "idle"
    BY <1>7 DEF PollAgain, At
  <2>2. call.limit - 1 \in -1 .. Limit
    BY <1>7, <2>1, CallFields, StreamAssumption DEF PollAgain
  <2>3. call' \in Calls /\ call'.req = call.req
    BY <1>7, <2>1, <2>2, CallFields DEF PollAgain, Calls
  <2> QED BY <1>7, <2>1, <2>3, CallTypes DEF PollAgain, TypeOK
<1>8. CASE PollEnds
  <2>1. call.pc # "idle"
    BY <1>8 DEF PollEnds, At
  <2>2. Pending \in BOOLEAN
    BY <2>1, CallFields DEF Pending, TypeOK
  <2>3. call' \in Calls /\ call'.req = call.req
    <3>1. CASE Pending \/ call.limit <= 0
      <4> DEFINE limit == IF Pending THEN -1 ELSE call.limit
      <4>1. limit \in -1 .. Limit /\ limit <= 0
        BY <2>1, <3>1, CallFields, StreamAssumption
      <4>2. call' = [call EXCEPT !.pc = "reply", !.result = "notcleared",
                                 !.limit = limit, !.saw = Pending]
        BY <1>8, <4>1 DEF PollEnds
      <4> HIDE DEF limit
      <4> QED BY <2>1, <2>2, <4>1, <4>2, CallFields DEF Calls
    <3>2. CASE ~(Pending \/ call.limit <= 0)
      BY <1>8, <2>1, <3>2, PortDoneTypes DEF PollEnds
    <3> QED BY <3>1, <3>2
  <2> QED BY <1>8, <2>1, <2>3, CallTypes DEF PollEnds, TypeOK
<1>9. CASE Enable
  <2>1. call.pc # "idle" /\ call' \in Calls /\ call'.req = call.req
    BY <1>9, CallFields DEF Enable, At, Calls
  <2>2. secr' \in [Ports -> [Words -> SUBSET (0 .. WordSize - 1)]]
    BY <1>9, <2>1, CallFields, WordBit DEF Enable, TypeOK
  <2> QED BY <1>9, <2>1, <2>2, CallTypes DEF Enable, TypeOK
<1>10. CASE EnableFails
  <2>1. call.pc # "idle" /\ call' \in Calls /\ call'.req = call.req
    BY <1>10, CallFields DEF EnableFails, At, Calls
  <2> QED BY <1>10, <2>1, CallTypes DEF EnableFails, TypeOK
<1>11. call' = NoCall => call' \in Calls /\ Idle'
  BY StreamAssumption, OrderFacts DEF NoCall, Calls, Idle, Ports, Steps
<1>12. CASE Reply
  <2>1. call.pc # "idle"
    BY <1>12 DEF Reply, At
  <2>2. told' \in [Ports -> [Streams -> Contents \cup {Unknown}]]
    <3>1. CASE call.result = "ok" /\ call.req.enable # Disable
      <4>1. told' = [p \in Ports |-> IF p \in PortsOf(call.req)
                       THEN [told[p] EXCEPT ![call.req.stream] = call.req.content] ELSE told[p]]
        BY <1>12, <3>1 DEF Reply
      <4> QED BY <2>1, <4>1, CallFields DEF TypeOK
    <3>2. CASE ~(call.result = "ok" /\ call.req.enable # Disable)
      BY <1>12, <3>2 DEF Reply, TypeOK
    <3> QED BY <3>1, <3>2
  <2>3. running' \in [Ports -> SUBSET Streams]
    <3>1. CASE call.result = "ok"
      <4>1. PICK S \in SUBSET Streams : running' = [running EXCEPT ![call.req.port] = S]
        BY <1>12, <2>1, <3>1, CallFields DEF Reply, TypeOK
      <4> QED BY <2>1, <4>1, CallFields DEF TypeOK
    <3>2. CASE call.result # "ok"
      BY <1>12, <3>2 DEF Reply, TypeOK
    <3> QED BY <3>1, <3>2
  <2> QED BY <1>11, <1>12, <2>2, <2>3 DEF Reply, TypeOK
<1>13. CASE Crash
  BY <1>11, <1>13 DEF Crash, Enabled, TypeOK
<1>14. ASSUME NEW p \in Ports, Serve(p) PROVE TypeOK'
  <2>1. pacr' \in [Ports -> [pending : BOOLEAN, content : Contents \cup {None}]]
    BY <1>14 DEF Serve, TypeOK
  <2>2. table' \in [Ports -> [Streams -> Contents \cup {None, Torn}]]
    BY <1>14 DEF Serve, TypeOK
  <2> QED BY <1>14, <2>1, <2>2 DEF Serve, TypeOK, Idle
<1>15. CASE UNCHANGED vars
  BY <1>15 DEF vars, TypeOK, Idle
<1> QED
  BY <1>1, <1>2, <1>3, <1>4, <1>5, <1>6, <1>7, <1>8, <1>9, <1>10, <1>12, <1>13, <1>14, <1>15
  DEF Next, Daemon

(* The daemon, the staging registers, the FPGA's table and what the clients *)
(* know keep to their domains, for any card, any streams and any requests. *)
THEOREM StreamTypeCorrect == Spec => []TypeOK
BY InitTypes, StepTypes, PTL DEF Spec

-----------------------------------------------------------------------------
(* The invariant *)

LEMMA InitInv == Init => Inv
<1> SUFFICES ASSUME Init PROVE Inv
  OBVIOUS
<1>1. call.pc = "idle"
  BY DEF Init, NoCall
<1>2. BitsAreExpected
  BY <1>1, WordBit DEF Init, BitsAreExpected, Enabled, Expected, At, Idle
<1> QED
  BY <1>1, <1>2, InitTypes
  DEF Inv, Init, PortIsMeant, Programming, Idle, At, PortsDone, StageIsCall, LateIsUnknown,
      StreamAsReplied

(* How bsl_device_setStreamDetail goes on when a port is done.             *)
LEMMA PortDoneCases ==
  ASSUME TypeOK, PortIsMeant, call.pc \in {"zero", "poll"},
         NEW result \in {"ok", "badvalue"}, PortDone(result)
  PROVE  /\ call'.req = call.req
         /\ \/ /\ call'.pc = "zero" /\ call'.port = call.port + 1 /\ call'.port \in Ports
               /\ result = "ok" /\ Forty(call.req) /\ call.req.port = 0
               /\ call'.step = 1
            \/ /\ call'.pc = "enable" /\ result = "ok" /\ call.port = LastPort(call.req)
            \/ /\ call'.pc = "reply" /\ call'.result = "badvalue"
<1>1. call.pc # "idle" /\ call \in Calls
  BY CallFields
<1>2. call.port \in PortsOf(call.req) /\ (Forty(call.req) => call.req.port = 0)
  BY DEF PortIsMeant, Programming
<1>3. CASE result = "ok" /\ call.port < LastPort(call.req)
  <2>1. call'.pc = "zero" /\ call'.port = call.port + 1 /\ call'.req = call.req /\ call'.step = 1
    BY <1>1, <1>3 DEF PortDone, Calls
  <2>2. Forty(call.req) /\ call.port + 1 \in Ports
    BY <1>1, <1>2, <1>3, CallFields, StreamAssumption DEF LastPort, PortsOf, Ports
  <2> QED BY <1>2, <1>3, <2>1, <2>2
<1>4. CASE result = "ok" /\ ~(call.port < LastPort(call.req))
  <2>1. call'.pc = "enable" /\ call'.req = call.req
    BY <1>1, <1>4 DEF PortDone, SetReturns, Calls
  <2>2. call.port = LastPort(call.req)
    BY <1>1, <1>2, <1>4, CallFields, StreamAssumption DEF LastPort, PortsOf, Ports
  <2> QED BY <1>4, <2>1, <2>2
<1>5. CASE result = "badvalue"
  BY <1>1, <1>5 DEF PortDone, SetReturns, Calls
<1> QED BY <1>3, <1>4, <1>5

(* What ends the polling of a port.                                        *)
LEMMA PollEndsCases ==
  ASSUME TypeOK, PollEnds
  PROVE  \/ ~Pending /\ PortDone("ok")
         \/ call'.pc = "reply" /\ call'.req = call.req /\ call'.result = "notcleared"
<1>1. call.pc # "idle"
  BY DEF PollEnds, At
<1>2. CASE Pending \/ call.limit <= 0
  <2>1. (IF Pending THEN -1 ELSE call.limit) <= 0
    BY <1>1, <1>2, CallFields, StreamAssumption
  <2>2. PICK n, b : call' = [call EXCEPT !.pc = "reply", !.result = "notcleared",
                                         !.limit = n, !.saw = b]
    BY <2>1 DEF PollEnds
  <2> QED BY <1>1, <2>2, CallFields DEF Calls
<1>3. CASE ~Pending /\ ~(call.limit <= 0)
  BY <1>3 DEF PollEnds
<1> QED BY <1>2, <1>3

LEMMA KeepsPortIsMeant == Inv /\ [Next]_vars => PortIsMeant'
<1> SUFFICES ASSUME Inv, [Next]_vars PROVE PortIsMeant'
  OBVIOUS
<1> USE DEF Inv
<1>1. ASSUME NEW r \in Requests, Begin(r) PROVE PortIsMeant'
  <2>1. /\ call'.pc = IF r.enable = Disable THEN "enable" ELSE "open"
        /\ call'.req = r /\ call'.port = r.port
    BY <1>1 DEF Begin
  <2>2. r.port \in Ports
    BY StreamAssumption DEF Request
  <2> QED BY <2>1, <2>2 DEF PortIsMeant, Programming, PortsOf, Programs
<1>2. ASSUME call'.pc \in {"idle", "enable", "reply"} PROVE PortIsMeant'
  BY <1>2 DEF PortIsMeant, Programming
<1>3. ASSUME call'.pc \in {"zero", "put", "poll"}, call.pc \in {"zero", "put", "poll"},
             call'.req = call.req, call'.port = call.port
      PROVE  PortIsMeant'
  BY <1>3 DEF PortIsMeant, Programming
<1>4. ASSUME NEW result \in {"ok", "badvalue"}, PortDone(result), call.pc \in {"zero", "poll"}
      PROVE  PortIsMeant'
  <2>1. CASE call'.pc = "zero"
    BY <1>4, <2>1, PortDoneCases DEF PortIsMeant, Programming, PortsOf
  <2> QED BY <1>2, <1>4, <2>1, PortDoneCases
<1>5. CASE OpenFails
  BY <1>2, <1>5, CallFields DEF OpenFails, SetReturns, At, Calls
<1>6. CASE Open
  <2>1. /\ call.pc = "open" /\ call'.pc = "zero"
        /\ call'.req = call.req /\ call'.port = call.port
    BY <1>6, CallFields DEF Open, At, Calls
  <2>2. Forty(call.req) => call.req.port = 0
    BY <1>6, <2>1, CallFields DEF Open, Ports
  <2> QED BY <2>1, <2>2 DEF PortIsMeant, Programming
<1>7. CASE Zero
  <2>1. call.pc = "zero"
    BY <1>7 DEF Zero, At
  <2>2. CASE call.req.badframe
    BY <1>4, <1>7, <2>1, <2>2 DEF Zero
  <2>3. CASE ~call.req.badframe
    BY <1>3, <1>7, <2>1, <2>3, CallFields DEF Zero, Calls
  <2> QED BY <2>2, <2>3
<1>8. CASE Put
  BY <1>3, <1>8, CallFields DEF Put, At, Calls
<1>9. CASE Commit
  BY <1>3, <1>9, CallFields DEF Commit, At, Calls
<1>10. CASE PollAgain
  BY <1>3, <1>10, CallFields DEF PollAgain, At, Calls
<1>11. CASE PollEnds
  BY <1>2, <1>4, <1>11, PollEndsCases DEF PollEnds, At
<1>12. CASE Enable
  BY <1>2, <1>12, CallFields DEF Enable, At, Calls
<1>13. CASE EnableFails
  BY <1>2, <1>13, CallFields DEF EnableFails, At, Calls
<1>14. CASE Reply \/ Crash
  BY <1>2, <1>14 DEF Reply, Crash, NoCall
<1>15. ASSUME NEW p \in Ports, Serve(p) PROVE PortIsMeant'
  BY <1>15 DEF Serve, PortIsMeant, Programming
<1>16. CASE UNCHANGED vars
  BY <1>16 DEF vars, PortIsMeant, Programming
<1> QED
  BY <1>1, <1>5, <1>6, <1>7, <1>8, <1>9, <1>10, <1>11, <1>12, <1>13, <1>14, <1>15, <1>16
  DEF Next, Daemon

LEMMA KeepsPortsDone == Inv /\ [Next]_vars => PortsDone'
<1> SUFFICES ASSUME Inv, [Next]_vars PROVE PortsDone'
  OBVIOUS
<1> USE DEF Inv
<1>1. ASSUME call'.pc \in {"idle", "open"} \/ (call'.pc = "reply" /\ call'.result # "ok")
      PROVE  PortsDone'
  BY <1>1 DEF PortsDone, Idle, At
<1>2. ASSUME call.pc \in {"zero", "put", "poll"}, call'.pc \in {"zero", "put", "poll"},
             call'.req = call.req, call'.port = call.port, UNCHANGED <<pacr, table>>
      PROVE  PortsDone'
  BY <1>2 DEF PortsDone, Idle, At, Took
<1>3. ASSUME NEW r \in Requests, Begin(r) PROVE PortsDone'
  <2>1. call'.pc = (IF r.enable = Disable THEN "enable" ELSE "open") /\ call'.req = r
    BY <1>3 DEF Begin
  <2> QED BY <1>1, <2>1 DEF PortsDone, Idle, At, Programs
<1>4. CASE OpenFails
  BY <1>1, <1>4, CallFields DEF OpenFails, SetReturns, At, Calls
<1>5. CASE Open
  <2>1. call.pc = "open" /\ call'.pc = "zero" /\ call'.req = call.req /\ call'.port = call.port
    BY <1>5, CallFields DEF Open, At, Calls
  <2>2. Forty(call.req) => 0 .. call.port - 1 = {}
    BY <1>5, <2>1, CallFields DEF Open, PortIsMeant, Ports
  <2> QED BY <2>1, <2>2 DEF PortsDone, Idle, At
<1>6. CASE Zero
  <2>1. call.pc = "zero"
    BY <1>6 DEF Zero, At
  <2>2. CASE call.req.badframe
    BY <1>1, <1>6, <2>1, <2>2, PortDoneCases DEF Zero
  <2>3. CASE ~call.req.badframe
    BY <1>2, <1>6, <2>1, <2>3, CallFields DEF Zero, Calls
  <2> QED BY <2>2, <2>3
<1>7. CASE Put
  BY <1>2, <1>7, CallFields DEF Put, At, Calls
<1>8. CASE Commit
  <2>1. call.pc = "put" /\ call'.pc = "poll" /\ call'.req = call.req /\ call'.port = call.port
    BY <1>8, CallFields DEF Commit, At, Calls
  <2>2. ASSUME Forty(call.req), NEW p \in 0 .. call.port - 1 PROVE Took(p, call.req)'
    <3>1. p \in Ports /\ p # call.port /\ Took(p, call.req)
      BY <2>1, <2>2, CallFields, StreamAssumption DEF PortsDone, Ports
    <3> QED BY <1>8, <2>1, <3>1 DEF Commit, Took, TypeOK
  <2> QED BY <2>1, <2>2 DEF PortsDone, Idle, At
<1>9. CASE PollAgain
  BY <1>2, <1>9, CallFields DEF PollAgain, At, Calls
<1>10. CASE PollEnds
  <2>1. call.pc = "poll" /\ UNCHANGED <<pacr, table>>
    BY <1>10 DEF PollEnds, At
  <2>2. CASE ~Pending /\ PortDone("ok")
    <3>1. Took(call.port, call.req)
      BY <2>1, <2>2 DEF StageIsCall, At
    <3>2. CASE call'.pc = "zero"
      <4>1. Forty(call.req) /\ call'.req = call.req /\ call'.port = call.port + 1
        BY <2>1, <2>2, <3>2, PortDoneCases
      <4>2. \A p \in 0 .. call.port : Took(p, call.req)
        BY <2>1, <3>1, <4>1, CallFields DEF PortsDone, Ports
      <4>3. \A p \in 0 .. call'.port - 1 : Took(p, call.req)'
        BY <2>1, <4>1, <4>2, CallFields DEF Took, Ports
      <4> QED BY <3>2, <4>3 DEF PortsDone, Idle, At
    <3>3. CASE call'.pc = "enable"
      <4>1. call'.req = call.req /\ call.port = LastPort(call.req)
        BY <2>1, <2>2, <3>3, PortDoneCases
      <4>2. ASSUME NEW p \in PortsOf(call.req) PROVE Took(p, call.req)
        <5>1. CASE Forty(call.req)
          <6>1. p = call.port \/ p \in 0 .. call.port - 1
            BY <4>1, <5>1, StreamAssumption DEF PortsOf, LastPort, Ports
          <6> QED BY <2>1, <3>1, <5>1, <6>1 DEF PortsDone
        <5>2. CASE ~Forty(call.req)
          BY <3>1, <4>1, <5>2 DEF PortsOf, LastPort
        <5> QED BY <5>1, <5>2
      <4> QED BY <2>1, <3>3, <4>1, <4>2 DEF PortsDone, Idle, At, Took
    <3> QED BY <1>1, <2>1, <2>2, <3>2, <3>3, PortDoneCases
  <2> QED BY <1>1, <1>10, <2>2, PollEndsCases
<1>11. CASE Enable
  <2>1. call.pc = "enable" /\ call'.pc = "reply" /\ call'.req = call.req
    BY <1>11, CallFields DEF Enable, At, Calls
  <2> QED BY <1>11, <2>1 DEF Enable, PortsDone, Idle, At, Took
<1>12. CASE EnableFails
  BY <1>1, <1>12, CallFields DEF EnableFails, At, Calls
<1>13. CASE Reply \/ Crash
  BY <1>1, <1>13 DEF Reply, Crash, NoCall
<1>14. ASSUME NEW p \in Ports, Serve(p) PROVE PortsDone'
  <2>1. ASSUME NEW q, q \in Ports, Took(q, call.req) PROVE Took(q, call.req)'
    BY <1>14, <2>1 DEF Serve, Took, TypeOK
  <2>2. ASSUME call.pc # "idle" PROVE \A q \in 0 .. call.port - 1 : q \in Ports
    BY <2>2, CallFields, StreamAssumption DEF Ports
  <2>3. ASSUME call.pc # "idle" PROVE \A q \in PortsOf(call.req) : q \in Ports
    BY <2>3, CallFields
  <2>4. call' = call
    BY <1>14 DEF Serve
  <2> QED BY <2>1, <2>2, <2>3, <2>4 DEF PortsDone, Idle, At
<1>15. CASE UNCHANGED vars
  BY <1>15 DEF vars, PortsDone, Idle, At, Took
<1> QED
  BY <1>3, <1>4, <1>5, <1>6, <1>7, <1>8, <1>9, <1>10, <1>11, <1>12, <1>13, <1>14, <1>15
  DEF Next, Daemon

LEMMA KeepsStageIsCall == Inv /\ [Next]_vars => StageIsCall'
<1> SUFFICES ASSUME Inv, [Next]_vars PROVE StageIsCall'
  OBVIOUS
<1> USE DEF Inv
<1>1. ASSUME call'.pc \in {"idle", "enable", "reply"} PROVE StageIsCall'
  BY <1>1 DEF StageIsCall, At
<1>2. ASSUME call'.pc \in {"open", "zero"}, call'.step = 1 PROVE StageIsCall'
  BY <1>2 DEF StageIsCall, At
<1>3. ASSUME NEW r \in Requests, Begin(r) PROVE StageIsCall'
  BY <1>1, <1>2, <1>3 DEF Begin
<1>4. CASE OpenFails
  BY <1>1, <1>4, CallFields DEF OpenFails, SetReturns, At, Calls
<1>5. CASE Open
  BY <1>2, <1>5, CallFields DEF Open, At, Calls, StageIsCall
<1>6. CASE Zero
  <2>1. call.pc = "zero" /\ call.step = 1
    BY <1>6 DEF Zero, At, StageIsCall
  <2>2. CASE call.req.badframe
    BY <1>1, <1>6, <2>1, <2>2, PortDoneCases DEF Zero
  <2>3. CASE ~call.req.badframe
    <3>1. /\ call'.pc = "put" /\ call'.step = 1
          /\ call'.req = call.req /\ call'.port = call.port
      BY <1>6, <2>1, <2>3, CallFields DEF Zero, Calls
    <3>2. \A g \in Cleared : stage'[call.port][g] = None
      BY <1>6, <2>1, CallFields DEF Zero, TypeOK, Groups, Optional
    <3>3. Staged(1)'
      BY <3>1, <3>2 DEF Staged
    <3> QED BY <3>1, <3>3 DEF StageIsCall, At
  <2> QED BY <2>2, <2>3
<1>7. CASE Put
  <2> DEFINE g == Order[call.step]
             c == call.req.content
  <2>1. call.pc = "put" /\ call.step \in 1 .. 10 /\ Staged(call.step)
    BY <1>7, CallFields, OrderFacts DEF Put, At, Steps, StageIsCall
  <2>2. /\ call'.pc = "put" /\ call'.step = call.step + 1
        /\ call'.req = call.req /\ call'.port = call.port
    BY <1>7, <2>1, CallFields DEF Put, Calls
  <2>3. /\ Parts[c] \subseteq Optional /\ "number" \notin Always \cup Parts[c]
        /\ Always \cap Cleared = {}
    BY <2>1, CallFields, StreamAssumption DEF Optional, Always, Cleared
  <2>4. g \in Always \cup Parts[c] => stage' = [stage EXCEPT ![call.port][g] = c]
    BY <1>7 DEF Put
  <2>5. g \notin Always \cup Parts[c] => stage' = stage
    BY <1>7 DEF Put
  <2>6. number' = IF g = "number" THEN [number EXCEPT ![call.port] = call.req.stream] ELSE number
    BY <1>7 DEF Put
  <2>7. stage[call.port] \in [Groups -> Contents \cup {None}] /\ call.port \in Ports
    BY <2>1, CallFields DEF TypeOK
  <2>8. ASSUME NEW h \in Cleared \ Parts[c] PROVE stage'[call.port][h] = None
    <3>1. stage[call.port][h] = None
      BY <2>1 DEF Staged
    <3>2. h # g \/ g \notin Always \cup Parts[c]
      BY <2>3
    <3>3. h \in Groups
      BY DEF Groups, Optional
    <3> QED BY <2>4, <2>5, <2>7, <3>1, <3>2, <3>3 DEF TypeOK
  <2>9. ASSUME NEW i \in 1 .. call.step PROVE
          /\ Order[i] \in Always \cup Parts[c] => stage'[call.port][Order[i]] = c
          /\ Order[i] = "number" => number'[call.port] = call.req.stream
    <3>1. CASE i = call.step
      BY <2>3, <2>4, <2>6, <2>7, <3>1 DEF TypeOK, Groups
    <3>2. CASE i # call.step
      <4>1. i \in 1 .. call.step - 1
        BY <2>1, <3>2
      <4>2. /\ Order[i] \in Always \cup Parts[c] => stage[call.port][Order[i]] = c
            /\ Order[i] = "number" => number[call.port] = call.req.stream
        BY <2>1, <4>1 DEF Staged
      <4>3. Order[i] \in Always \cup Parts[c] => stage'[call.port][Order[i]] = c
        <5>1. CASE g \in Always \cup Parts[c]
          <6>1. stage'[call.port] = [stage[call.port] EXCEPT ![g] = c]
            BY <2>4, <2>7, <5>1 DEF TypeOK
          <6>2. Always \cup Parts[c] \subseteq Groups
            BY <2>3 DEF Groups
          <6> HIDE DEF g
          <6> QED BY <2>7, <4>2, <6>1, <6>2
        <5>2. CASE g \notin Always \cup Parts[c]
          BY <2>5, <4>2, <5>2
        <5> QED BY <5>1, <5>2
      <4>4. Order[i] = "number" => number'[call.port] = call.req.stream
        BY <2>6, <2>7, <4>2 DEF TypeOK
      <4> QED BY <4>3, <4>4
    <3> QED BY <3>1, <3>2
  <2>10. Staged(call.step)' 
    <3>1. call'.step - 1 = call.step
      BY <2>1, <2>2
    <3> QED BY <2>2, <2>8, <2>9, <3>1 DEF Staged
  <2> QED BY <2>2, <2>10 DEF StageIsCall, At
<1>8. CASE Commit
  <2> DEFINE c == call.req.content
  <2>1. call.pc = "put" /\ call.step = 11 /\ Staged(11)
    BY <1>8, CallFields, OrderFacts DEF Commit, At, StageIsCall
  <2>2. call'.pc = "poll" /\ call'.req = call.req /\ call'.port = call.port
    BY <1>8, <2>1, CallFields DEF Commit, Calls
  <2>3. Parts[c] \subseteq Optional
    BY <2>1, CallFields, StreamAssumption
  <2>4. \A g \in Always \cup Parts[c] : stage[call.port][g] = c
    <3> SUFFICES ASSUME NEW g \in Always \cup Parts[c] PROVE stage[call.port][g] = c
      OBVIOUS
    <3>1. PICK i \in 1 .. 10 : Order[i] = g
      BY <2>3, OrderFacts DEF Groups
    <3> QED BY <2>1, <3>1 DEF Staged
  <2>5. number[call.port] = call.req.stream
    BY <2>1, OrderFacts DEF Staged
  <2>6. pacr'[call.port] = [pending |-> TRUE, content |-> c]
    BY <1>8, <2>1, CallFields DEF Commit, TypeOK
  <2>7. stage' = stage /\ number' = number
    BY <1>8 DEF Commit
  <2>8. Whole(call.port, c)'
    BY <2>1, <2>2, <2>4, <2>6, <2>7 DEF Whole, Staged
  <2> QED BY <2>2, <2>5, <2>6, <2>7, <2>8 DEF StageIsCall, At, Pending
<1>9. CASE PollAgain
  <2>1. /\ call.pc = "poll" /\ call'.pc = "poll"
        /\ call'.req = call.req /\ call'.port = call.port
    BY <1>9, CallFields DEF PollAgain, At, Calls
  <2> QED BY <1>9, <2>1 DEF PollAgain, StageIsCall, At, Whole, Took, Pending
<1>10. CASE PollEnds
  BY <1>1, <1>2, <1>10, PollEndsCases, PortDoneCases DEF PollEnds, At
<1>11. CASE Enable
  BY <1>1, <1>11, CallFields DEF Enable, At, Calls
<1>12. CASE EnableFails
  BY <1>1, <1>12, CallFields DEF EnableFails, At, Calls
<1>13. CASE Reply \/ Crash
  BY <1>1, <1>13 DEF Reply, Crash, NoCall
<1>14. ASSUME NEW p \in Ports, Serve(p) PROVE StageIsCall'
  <2>1. UNCHANGED <<call, stage, number>>
    BY <1>14 DEF Serve
  <2>2. ASSUME At("poll")
        PROVE  Whole(call.port, call.req.content)' /\ (Pending \/ Took(call.port, call.req))'
    <3>1. Whole(call.port, call.req.content) /\ number[call.port] = call.req.stream
      BY <2>2 DEF StageIsCall
    <3>2. call.port \in Ports /\ call.req.stream \in Streams
      BY <2>2, CallFields DEF At
    <3>3. pacr'[call.port].content = pacr[call.port].content
      BY <1>14, <3>2 DEF Serve, TypeOK
    <3>4. Whole(call.port, call.req.content)'
      BY <2>1, <3>1, <3>3 DEF Whole
    <3>5. CASE p = call.port
      <4>1. pacr[p].content = call.req.content
        BY <3>1, <3>5 DEF Whole
      <4>2. table'[p][call.req.stream] = call.req.content /\ ~pacr'[p].pending
        BY <1>14, <3>1, <3>2, <3>5, <4>1 DEF Serve, TypeOK
      <4> QED BY <2>1, <3>4, <3>5, <4>2 DEF Took
    <3>6. CASE p # call.port
      <4>1. pacr'[call.port] = pacr[call.port] /\ table'[call.port] = table[call.port]
        BY <1>14, <3>2, <3>6 DEF Serve, TypeOK
      <4>2. Pending \/ Took(call.port, call.req)
        BY <2>2 DEF StageIsCall
      <4> QED BY <2>1, <3>4, <4>1, <4>2 DEF Took, Pending
    <3> QED BY <3>5, <3>6
  <2>3. At("put") => Staged(call.step)'
    BY <2>1 DEF StageIsCall, Staged
  <2> QED BY <2>1, <2>2, <2>3 DEF StageIsCall, At, Staged
<1>15. CASE UNCHANGED vars
  BY <1>15 DEF vars, StageIsCall, At, Staged, Whole, Took, Pending
<1> QED
  BY <1>3, <1>4, <1>5, <1>6, <1>7, <1>8, <1>9, <1>10, <1>11, <1>12, <1>13, <1>14, <1>15
  DEF Next, Daemon

LEMMA KeepsLateIsUnknown == Inv /\ [Next]_vars => LateIsUnknown'
<1> SUFFICES ASSUME Inv, [Next]_vars PROVE LateIsUnknown'
  OBVIOUS
<1> USE DEF Inv
<1>1. ASSUME call'.pc = "idle" \/ (call.pc # "idle" /\ call'.req = call.req),
             UNCHANGED <<pacr, number, told>>
      PROVE  LateIsUnknown'
  BY <1>1 DEF LateIsUnknown, Idle
<1>2. ASSUME NEW r \in Requests, Begin(r) PROVE LateIsUnknown'
  <2>1. call'.req = r /\ UNCHANGED <<pacr, number>>
    BY <1>2 DEF Begin
  <2>2. r \in Request /\ PortsOf(r) \subseteq Ports /\ r.stream \in Streams
    BY StreamAssumption DEF Request, PortsOf
  <2>3. CASE r.enable = Disable
    BY <1>2, <2>1, <2>3 DEF Begin, LateIsUnknown, Programs
  <2>4. CASE r.enable # Disable
    <3>1. told' = [p \in Ports |-> IF p \in PortsOf(r)
                                   THEN [told[p] EXCEPT ![r.stream] = Unknown] ELSE told[p]]
      BY <1>2, <2>4 DEF Begin
    <3>2. \A p \in PortsOf(r) : told'[p][r.stream] = Unknown
      BY <2>2, <3>1 DEF TypeOK
    <3>3. \A p \in Ports, s \in Streams : told[p][s] = Unknown => told'[p][s] = Unknown
      BY <2>2, <3>1 DEF TypeOK
    <3>4. \A p \in Ports : number[p] \in Streams
      BY DEF TypeOK
    <3> QED BY <2>1, <3>2, <3>3, <3>4 DEF LateIsUnknown
  <2> QED BY <2>3, <2>4
<1>3. CASE OpenFails
  BY <1>1, <1>3, CallFields DEF OpenFails, SetReturns, At, Calls
<1>4. CASE Open
  BY <1>1, <1>4, CallFields DEF Open, At, Calls
<1>5. CASE Zero
  <2>1. call.pc = "zero" /\ UNCHANGED <<pacr, number, told>>
    BY <1>5 DEF Zero, At
  <2>2. call'.req = call.req
    BY <1>5, <2>1, PortDoneTypes, CallFields DEF Zero, Calls
  <2> QED BY <1>1, <2>1, <2>2
<1>6. CASE Put
  <2>1. call.pc = "put" /\ call'.req = call.req /\ UNCHANGED <<pacr, told>>
    BY <1>6, CallFields DEF Put, At, Calls
  <2>2. told[call.port][call.req.stream] = Unknown
    BY <2>1 DEF LateIsUnknown, PortIsMeant, Programming, Idle
  <2>3. number' = number \/ number' = [number EXCEPT ![call.port] = call.req.stream]
    BY <1>6 DEF Put
  <2>4. \A p \in Ports : number'[p] = number[p] \/ told[p][number'[p]] = Unknown
    BY <2>1, <2>2, <2>3, CallFields DEF TypeOK
  <2> QED BY <2>1, <2>4 DEF LateIsUnknown, Idle
<1>7. CASE Commit
  <2>1. call.pc = "put" /\ call'.req = call.req /\ UNCHANGED <<number, told>>
    BY <1>7, CallFields DEF Commit, At, Calls
  <2>2. number[call.port] = call.req.stream
    BY <1>7, <2>1, OrderFacts DEF Commit, At, StageIsCall, Staged
  <2>3. told[call.port][number[call.port]] = Unknown
    BY <2>1, <2>2 DEF LateIsUnknown, PortIsMeant, Programming, Idle
  <2>4. \A p \in Ports : p # call.port => pacr'[p] = pacr[p]
    BY <1>7, <2>1, CallFields DEF Commit, TypeOK
  <2> QED BY <2>1, <2>3, <2>4 DEF LateIsUnknown, Idle
<1>8. CASE PollAgain
  BY <1>1, <1>8, CallFields DEF PollAgain, At, Calls
<1>9. CASE PollEnds
  BY <1>1, <1>9, PollEndsCases, PortDoneCases DEF PollEnds, At
<1>10. CASE Enable
  BY <1>1, <1>10, CallFields DEF Enable, At, Calls
<1>11. CASE EnableFails
  BY <1>1, <1>11, CallFields DEF EnableFails, At, Calls
<1>12. CASE Reply
  <2>1. call.pc = "reply" /\ call'.pc = "idle" /\ UNCHANGED <<pacr, number>>
    BY <1>12 DEF Reply, At, NoCall
  <2>2. CASE call.result = "ok" /\ call.req.enable # Disable
    <3>1. \A p \in PortsOf(call.req) : ~pacr[p].pending
      BY <2>1, <2>2 DEF PortsDone, Programs, Idle, At, Took
    <3>2. \A p \in Ports : p \notin PortsOf(call.req) => told'[p] = told[p]
      BY <1>12, <2>2 DEF Reply
    <3> QED BY <2>1, <3>1, <3>2 DEF LateIsUnknown, Idle
  <2>3. CASE ~(call.result = "ok" /\ call.req.enable # Disable)
    BY <1>1, <1>12, <2>1, <2>3 DEF Reply
  <2> QED BY <2>2, <2>3
<1>13. CASE Crash
  BY <1>1, <1>13 DEF Crash, NoCall
<1>14. ASSUME NEW p \in Ports, Serve(p) PROVE LateIsUnknown'
  <2>1. \A q \in Ports : pacr'[q].pending => pacr[q].pending
    BY <1>14 DEF Serve, TypeOK
  <2> QED BY <1>14, <2>1 DEF Serve, LateIsUnknown, Idle
<1>15. CASE UNCHANGED vars
  BY <1>15 DEF vars, LateIsUnknown, Idle
<1> QED
  BY <1>2, <1>3, <1>4, <1>5, <1>6, <1>7, <1>8, <1>9, <1>10, <1>11, <1>12, <1>13, <1>14, <1>15
  DEF Next, Daemon

LEMMA KeepsStreamAsReplied == Inv /\ [Next]_vars => StreamAsReplied'
<1> SUFFICES ASSUME Inv, [Next]_vars PROVE StreamAsReplied'
  OBVIOUS
<1> USE DEF Inv
<1>1. ASSUME UNCHANGED <<table, told>> PROVE StreamAsReplied'
  BY <1>1 DEF StreamAsReplied
<1>2. ASSUME NEW r \in Requests, Begin(r) PROVE StreamAsReplied'
  <2>1. r \in Request
    BY StreamAssumption
  <2>2. \A p \in Ports, s \in Streams : told'[p][s] \in {told[p][s], Unknown}
    BY <1>2, <2>1 DEF Begin, Request, TypeOK
  <2> QED BY <1>2, <2>2 DEF Begin, StreamAsReplied
<1>3. CASE Reply
  <2>1. call.pc = "reply" /\ table' = table
    BY <1>3 DEF Reply, At
  <2>2. CASE call.result = "ok" /\ call.req.enable # Disable
    <3>1. told' = [p \in Ports |-> IF p \in PortsOf(call.req)
                     THEN [told[p] EXCEPT ![call.req.stream] = call.req.content] ELSE told[p]]
      BY <1>3, <2>2 DEF Reply
    <3>2. \A p \in PortsOf(call.req) : table[p][call.req.stream] = call.req.content
      BY <2>1, <2>2 DEF PortsDone, Programs, Idle, At, Took
    <3> QED BY <2>1, <3>1, <3>2, CallFields DEF StreamAsReplied, TypeOK
  <2>3. CASE ~(call.result = "ok" /\ call.req.enable # Disable)
    BY <1>1, <1>3, <2>1, <2>3 DEF Reply
  <2> QED BY <2>2, <2>3
<1>4. ASSUME NEW p \in Ports, Serve(p) PROVE StreamAsReplied'
  <2>1. told[p][number[p]] = Unknown /\ told' = told
    BY <1>4 DEF Serve, LateIsUnknown
  <2>2. \A q \in Ports, s \in Streams : table'[q][s] = table[q][s] \/ (q = p /\ s = number[p])
    BY <1>4 DEF Serve, TypeOK
  <2> QED BY <2>1, <2>2 DEF StreamAsReplied
<1>5. CASE OpenFails \/ Open \/ Zero \/ Put \/ Commit \/ PollAgain \/ PollEnds
           \/ Enable \/ EnableFails \/ Crash \/ UNCHANGED vars
  BY <1>1, <1>5 DEF OpenFails, Open, Zero, Put, Commit, PollAgain, PollEnds, Enable,
                    EnableFails, Crash, vars
<1> QED BY <1>2, <1>3, <1>4, <1>5 DEF Next, Daemon

(* What enableStream makes of the enable bits of its port, and only of it. *)
LEMMA EnableBits ==
  ASSUME TypeOK, Enable
  PROVE  LET r == call.req
             on == IF r.stream = 0 THEN {} ELSE Enabled(r.port)
         IN /\ Enabled(r.port)' = IF r.enable = Disable THEN on \ {r.stream}
                                                         ELSE on \cup {r.stream}
            /\ \A p \in Ports : p # r.port => Enabled(p)' = Enabled(p)
<1> DEFINE r == call.req
           w == IF r.stream = 0 THEN [v \in Words |-> {}] ELSE secr[r.port]
           on == IF r.stream = 0 THEN {} ELSE Enabled(r.port)
           W == Word(r.stream)
           B == Bit(r.stream)
<1>1. call.pc # "idle"
  BY DEF Enable, At
<1>2. r.port \in Ports /\ r.stream \in Streams
  BY <1>1, CallFields
<1>3. w \in [Words -> SUBSET (0 .. WordSize - 1)]
  BY <1>2 DEF TypeOK
<1>4. on = {s \in Streams : Bit(s) \in w[Word(s)]}
  <2>1. CASE r.stream = 0
    BY <2>1, WordBit
  <2>2. CASE r.stream # 0
    BY <2>2 DEF Enabled
  <2> QED BY <2>1, <2>2
<1>5. W \in Words /\ \A s \in Streams : Word(s) = W /\ Bit(s) = B <=> s = r.stream
  BY <1>2, WordBit
<1>6. secr'[r.port] = [w EXCEPT ![W] = IF r.enable = Disable THEN @ \ {B} ELSE @ \cup {B}]
  BY <1>2 DEF Enable, TypeOK
<1>7. \A p \in Ports : p # r.port => Enabled(p)' = Enabled(p)
  BY <1>2 DEF Enable, TypeOK, Enabled
<1>8. Enabled(r.port)' = {s \in Streams : Bit(s) \in secr'[r.port][Word(s)]}
  <2>1. call'.req = call.req
    BY <1>1, CallFields DEF Enable, Calls
  <2> QED BY <2>1 DEF Enabled
<1>9. ASSUME NEW s \in Streams
      PROVE  Bit(s) \in secr'[r.port][Word(s)] <=>
               IF r.enable = Disable THEN s \in on /\ s # r.stream ELSE s \in on \/ s = r.stream
  <2>1. Word(s) \in Words /\ (s \in on <=> Bit(s) \in w[Word(s)])
    BY <1>4, WordBit
  <2>2. CASE Word(s) = W
    <3>1. secr'[r.port][Word(s)] = IF r.enable = Disable THEN w[W] \ {B} ELSE w[W] \cup {B}
      BY <1>3, <1>5, <1>6, <2>2
    <3> HIDE DEF w, on, W, B
    <3> QED BY <1>5, <2>1, <2>2, <3>1
  <2>3. CASE Word(s) # W
    <3>1. secr'[r.port][Word(s)] = w[Word(s)]
      BY <1>3, <1>6, <2>1, <2>3
    <3> HIDE DEF w, on, W, B
    <3> QED BY <1>5, <2>1, <2>3, <3>1
  <2> QED BY <2>2, <2>3
<1>10. on \subseteq Streams
  BY <1>4
<1> HIDE DEF w, W, B, on
<1>11. Enabled(r.port)' = IF r.enable = Disable THEN on \ {r.stream} ELSE on \cup {r.stream}
  BY <1>2, <1>8, <1>9, <1>10
<1> QED BY <1>7, <1>11 DEF on

LEMMA KeepsBitsAreExpected == Inv /\ [Next]_vars => BitsAreExpected'
<1> SUFFICES ASSUME Inv, [Next]_vars PROVE BitsAreExpected'
  OBVIOUS
<1> USE DEF Inv
<1>1. ASSUME UNCHANGED <<secr, running>>, call.pc # "reply",
             call'.pc # "reply" \/ call'.result # "ok"
      PROVE  BitsAreExpected'
  BY <1>1 DEF BitsAreExpected, Expected, Enabled, At
<1>2. ASSUME NEW r \in Requests, Begin(r) PROVE BitsAreExpected'
  BY <1>1, <1>2 DEF Begin, Idle
<1>3. CASE OpenFails
  BY <1>1, <1>3, CallFields DEF OpenFails, SetReturns, At, Calls
<1>4. CASE Open
  BY <1>1, <1>4, CallFields DEF Open, At, Calls
<1>5. CASE Zero
  <2>1. call.pc = "zero" /\ UNCHANGED <<secr, running>>
    BY <1>5 DEF Zero, At
  <2>2. call'.pc # "reply" \/ call'.result # "ok"
    BY <1>5, <2>1, PortDoneCases, CallFields DEF Zero, Calls
  <2> QED BY <1>1, <2>1, <2>2
<1>6. CASE Put
  BY <1>1, <1>6, CallFields DEF Put, At, Calls
<1>7. CASE Commit
  BY <1>1, <1>7, CallFields DEF Commit, At, Calls
<1>8. CASE PollAgain
  BY <1>1, <1>8, CallFields DEF PollAgain, At, Calls
<1>9. CASE PollEnds
  BY <1>1, <1>9, PollEndsCases, PortDoneCases DEF PollEnds, At
<1>10. CASE Enable
  <2>1. /\ call.pc = "enable" /\ call'.pc = "reply" /\ call'.result = "ok"
        /\ call'.req = call.req /\ running' = running
    BY <1>10, CallFields DEF Enable, At, Calls
  <2>2. \A p \in Ports : Enabled(p) = running[p]
    BY <2>1 DEF BitsAreExpected, Expected, At
  <2>3. call.req.port \in Ports
    BY <2>1, CallFields
  <2> QED BY <1>10, <2>1, <2>2, <2>3, EnableBits DEF BitsAreExpected, Expected, At
<1>11. CASE EnableFails
  BY <1>1, <1>11, CallFields DEF EnableFails, At, Calls
<1>12. CASE Reply
  <2>1. call.pc = "reply" /\ call'.pc = "idle" /\ secr' = secr
    BY <1>12 DEF Reply, At, NoCall
  <2>2. \A p \in Ports : running'[p] = Expected(p)
    <3>1. call.req.port \in Ports
      BY <2>1, CallFields
    <3>2. CASE call.result = "ok"
      BY <1>12, <2>1, <3>1, <3>2 DEF Reply, Expected, At, TypeOK
    <3>3. CASE call.result # "ok"
      BY <1>12, <3>3 DEF Reply, Expected
    <3> QED BY <3>2, <3>3
  <2> QED BY <2>1, <2>2 DEF BitsAreExpected, Expected, Enabled, At
<1>13. CASE Crash
  <2>1. call.pc # "idle" /\ call'.pc = "idle" /\ secr' = secr
    BY <1>13 DEF Crash, NoCall, Idle
  <2>2. call.req.port \in Ports
    BY <2>1, CallFields
  <2>3. \A p \in Ports : running'[p] = Enabled(p)
    BY <1>13, <2>2 DEF Crash, BitsAreExpected, Expected, TypeOK
  <2> QED BY <2>1, <2>3 DEF BitsAreExpected, Expected, Enabled, At
<1>14. ASSUME NEW p \in Ports, Serve(p) PROVE BitsAreExpected'
  BY <1>14 DEF Serve, BitsAreExpected, Expected, Enabled, At
<1>15. CASE UNCHANGED vars
  BY <1>15 DEF vars, BitsAreExpected, Expected, Enabled, At
<1> QED
  BY <1>2, <1>3, <1>4, <1>5, <1>6, <1>7, <1>8, <1>9, <1>10, <1>11, <1>12, <1>13, <1>14, <1>15
  DEF Next, Daemon

LEMMA StreamInvariant == Spec => []Inv
<1>1. Inv /\ [Next]_vars => Inv'
  BY StepTypes, KeepsPortIsMeant, KeepsPortsDone, KeepsStageIsCall, KeepsLateIsUnknown,
     KeepsStreamAsReplied, KeepsBitsAreExpected DEF Inv
<1> QED BY <1>1, InitInv, PTL DEF Spec

-----------------------------------------------------------------------------
(* The theorems *)

(* A stream that was acknowledged is in the table of every port it was     *)
(* meant for as it was asked for, until the next request for it: neither a *)
(* late command nor a request that fails half way touches it, for any      *)
(* number of ports and streams and any limit on the polling.               *)
THEOREM AcknowledgedStreamStays == Spec => []StreamAsReplied
BY StreamInvariant, PTL DEF Inv

(* Between two requests the enable bits are what the replies said.         *)
THEOREM EnabledAsReplied == Spec => []RunsAsReplied
<1>1. Inv => RunsAsReplied
  BY DEF Inv, BitsAreExpected, Expected, RunsAsReplied, Idle, At
<1> QED BY <1>1, StreamInvariant, PTL

(* A stream is started only when every port it is meant for has taken it   *)
(* over as a whole.                                                        *)
THEOREM StartsWhatIsProgrammed == Spec => OnlyProgrammedRun
<1> DEFINE Programmed ==
      \A p \in Ports : \A s \in Enabled(p)' \ Enabled(p) :
        \A q \in PortsOf(call.req) : table[q][s] = call.req.content
<1>1. Inv /\ [Next]_vars => [Programmed]_vars
  <2> SUFFICES ASSUME Inv, Next PROVE Programmed
    OBVIOUS
  <2>1. CASE Enable
    <3> SUFFICES ASSUME NEW p \in Ports, NEW s \in Enabled(p)' \ Enabled(p),
                        NEW q \in PortsOf(call.req)
                 PROVE  table[q][s] = call.req.content
      OBVIOUS
    <3>1. call.pc = "enable"
      BY <2>1 DEF Enable, At
    <3>2. s = call.req.stream /\ call.req.enable # Disable
      <4>1. p = call.req.port
        BY <2>1, EnableBits DEF Inv
      <4> DEFINE on == IF call.req.stream = 0 THEN {} ELSE Enabled(p)
      <4>2. Enabled(p)' = IF call.req.enable = Disable THEN on \ {call.req.stream}
                                                       ELSE on \cup {call.req.stream}
        <5>1. Enabled(call.req.port)' =
                IF call.req.enable = Disable
                THEN (IF call.req.stream = 0 THEN {} ELSE Enabled(call.req.port))
                       \ {call.req.stream}
                ELSE (IF call.req.stream = 0 THEN {} ELSE Enabled(call.req.port))
                       \cup {call.req.stream}
          BY <2>1, EnableBits DEF Inv
        <5>2. p = call.req.port /\ call'.req = call.req
          BY <2>1, <3>1, <4>1, CallFields DEF Inv, Enable, Calls
        <5> QED BY <5>1, <5>2 DEF Enabled
      <4> QED BY <4>2
    <3> QED BY <3>1, <3>2 DEF Inv, PortsDone, Programs, Idle, At, Took
  <2>2. CASE secr' = secr
    BY <2>2 DEF Enabled
  <2> QED
    BY <2>1, <2>2 DEF Next, Daemon, Begin, OpenFails, Open, Zero, Put, Commit, PollAgain,
                      PollEnds, EnableFails, Reply, Crash, Serve
<1> QED BY <1>1, StreamInvariant, PTL DEF Spec, OnlyProgrammedRun
=============================================================================
