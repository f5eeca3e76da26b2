----------------------------- MODULE BslStream -----------------------------
(***************************************************************************)
(* Message 110, "Stream Detail Information": the daemon programs a stream  *)
(* of a port and enables or disables it (bsl_handle_msgid_110,             *)
(* bsl_setStreamDetail, bsl_device_setStreamDetail,                        *)
(* bsl_device_enableStream).  A stream is written to the staging registers *)
(* of its port, group by group; bit 0 of PACR then tells the FPGA to take  *)
(* the registers over into its table, under the stream number in PGCR, and *)
(* the FPGA clears the bit when it has done so.  The daemon polls the bit a *)
(* bounded number of times.  A stream of a 40G link is programmed on every *)
(* port of the card and enabled on port 0.                                 *)
(*                                                                         *)
(* One process programs streams; the library has no lock that would keep   *)
(* two of them apart.                                                      *)
(***************************************************************************)
EXTENDS Integers, Sequences

CONSTANTS
  NPorts,    \* ports of a card (MAX_NPORTS)
  NStreams,  \* streams of a port (SIZE_MAX_STREAM)
  WordSize,  \* streams in a word of SECR (64)
  Contents,  \* what a stream may be: its frames, headers and control
  Parts,     \* Parts[c]: the optional groups of registers that c uses
  Limit,     \* the polls of bit 0 of PACR that the code allows (60)
  Requests   \* the messages that clients send

Ports == 0 .. NPorts - 1
Streams == 0 .. NStreams - 1

(* The groups of staging registers: those that every stream uses, those    *)
(* that depend on its headers, whose marks are cleared first, and those    *)
(* that depend on its frame sizes and payload.                             *)
Always == {"frame", "header", "control"}
Cleared == {"ether", "ip6", "ip4", "ports"}
Optional == Cleared \cup {"pattern", "sizes"}
Groups == Always \cup Optional

(* "number" stands for PGCR, the others are groups. *)
Order == <<"frame", "number", "pattern", "sizes", "header",
           "ether", "ip6", "ip4", "ports", "control">>
Steps == 1 .. Len(Order) + 1

Disable == 0
EnableStream40G == 3

Request == [port : Ports, stream : Streams, content : Contents,
            enable : {Disable, 1, EnableStream40G}, badframe : BOOLEAN]

ASSUME StreamAssumption ==
  /\ NPorts \in Nat \ {0} /\ NStreams \in Nat \ {0} /\ WordSize \in Nat \ {0}
  /\ Limit \in Nat \ {0}
  /\ Parts \in [Contents -> SUBSET Optional]
  /\ Requests \subseteq Request

VARIABLES
  call,     \* the request in progress and how far it is
  stage,    \* stage[p][g]: the content whose values group g of port p holds
  number,   \* number[p]: the stream number in PGCR
  pacr,     \* pacr[p]: bit 0 and the content the other bits were made for
  table,    \* table[p][s]: what the FPGA has taken over as stream s
  secr,     \* secr[p][w]: word w of the enable bits
  told,     \* history: what the clients know the streams to be
  running   \* history: what the clients know to be enabled

vars == <<call, stage, number, pacr, table, secr, told, running>>

None == "none"
Torn == "torn"
Unknown == "unknown"
Words == 0 .. ((NStreams - 1) \div WordSize)

Forty(r) == r.enable = EnableStream40G
PortsOf(r) == IF Forty(r) THEN Ports ELSE {r.port}
LastPort(r) == IF Forty(r) THEN NPorts - 1 ELSE r.port

NoRequest == [port |-> 0, stream |-> 0, content |-> None, enable |-> Disable, badframe |-> FALSE]
NoCall == [pc |-> "idle", req |-> NoRequest, port |-> 0, step |-> 1, limit |-> Limit,
           result |-> "none", saw |-> FALSE]
Calls ==
  [pc : {"idle", "open", "zero", "put", "poll", "enable", "reply"},
   req : Requests \cup {NoRequest}, port : Ports, step : Steps, limit : -1 .. Limit,
   result : {"none", "ok", "badvalue", "notcleared", "failed"},
   saw : BOOLEAN]  \* did the last poll see bit 0 set?
Idle == call.pc = "idle"
At(pc) == call.pc = pc

Word(s) == s \div WordSize
Bit(s) == s % WordSize
Enabled(p) == {s \in Streams : Bit(s) \in secr[p][Word(s)]}

TypeOK ==
  /\ call \in Calls
  /\ ~Idle => call.req \in Requests
  /\ stage \in [Ports -> [Groups -> Contents \cup {None}]]
  /\ number \in [Ports -> Streams]
  /\ pacr \in [Ports -> [pending : BOOLEAN, content : Contents \cup {None}]]
  /\ table \in [Ports -> [Streams -> Contents \cup {None, Torn}]]
  /\ secr \in [Ports -> [Words -> SUBSET (0 .. WordSize - 1)]]
  /\ told \in [Ports -> [Streams -> Contents \cup {Unknown}]]
  /\ running \in [Ports -> SUBSET Streams]

(* The state of a card after its reset. *)
Init ==
  /\ call = NoCall
  /\ stage = [p \in Ports |-> [g \in Groups |-> None]]
  /\ number = [p \in Ports |-> 0]
  /\ pacr = [p \in Ports |-> [pending |-> FALSE, content |-> None]]
  /\ table = [p \in Ports |-> [s \in Streams |-> None]]
  /\ secr = [p \in Ports |-> [w \in Words |-> {}]]
  /\ told = [p \in Ports |-> [s \in Streams |-> Unknown]]
  /\ running = [p \in Ports |-> {}]

-----------------------------------------------------------------------------
(* bsl_handle_msgid_110 and bsl_setStreamDetail *)

(* A request that programs a stream makes what the clients knew of it void.  *)
Begin(r) ==
  /\ Idle
  /\ call' = [pc |-> IF r.enable = Disable THEN "enable" ELSE "open", req |-> r,
              port |-> r.port, step |-> 1, limit |-> Limit, result |-> "none", saw |-> FALSE]
  /\ told' = IF r.enable = Disable THEN told
             ELSE [p \in Ports |-> IF p \in PortsOf(r)
                                   THEN [told[p] EXCEPT ![r.stream] = Unknown] ELSE told[p]]
  /\ UNCHANGED <<stage, number, pacr, table, secr, running>>

(* bsl_setStreamDetail returns: the stream is enabled only if it succeeded. *)
SetReturns(result) ==
  call' = [call EXCEPT !.pc = IF result = "ok" THEN "enable" ELSE "reply", !.result = result]

(* The parameters are out of range, or the device cannot be opened. *)
OpenFails ==
  /\ At("open")
  /\ SetReturns("failed")
  /\ UNCHANGED <<stage, number, pacr, table, secr, told, running>>

Open ==
  /\ At("open")
  /\ ~(Forty(call.req) /\ call.req.port > 0)
  /\ call' = [call EXCEPT !.pc = "zero"]
  /\ UNCHANGED <<stage, number, pacr, table, secr, told, running>>

(* PortDone as it would be with the ports counted from 1. *)
PortDone_OffByOne(result) ==
  IF result = "ok" /\ call.port <= LastPort(call.req)
  THEN call' = [call EXCEPT !.pc = "zero", !.port = call.port + 1,
                            !.step = 1, !.limit = Limit, !.saw = FALSE]
  ELSE SetReturns(result)

(* bsl_device_setStreamDetail returns: the next port of a 40G link, if any. *)
PortDone(result) ==
  IF result = "ok" /\ call.port < LastPort(call.req)
  THEN call' = [call EXCEPT !.pc = "zero", !.port = call.port + 1,
                            !.step = 1, !.limit = Limit, !.saw = FALSE]
  ELSE SetReturns(result)

-----------------------------------------------------------------------------
(* bsl_device_setStreamDetail, on port call.port *)

(* Zero as it would be without the registers that were added to it later. *)
Zero_Forgotten ==
  /\ At("zero")
  /\ IF call.req.badframe THEN PortDone("badvalue") ELSE call' = [call EXCEPT !.pc = "put"]
  /\ UNCHANGED <<stage, number, pacr, table, secr, told, running>>

(* DMLR, SI6SR0, SI4SR, SPVR, DPVR and IDVR are cleared before the frame   *)
(* size specification is looked at.                                        *)
Zero ==
  /\ At("zero")
  /\ stage' = [stage EXCEPT ![call.port] =
                 [g \in Groups |-> IF g \in Cleared THEN None ELSE @[g]]]
  /\ IF call.req.badframe THEN PortDone("badvalue") ELSE call' = [call EXCEPT !.pc = "put"]
  /\ UNCHANGED <<number, pacr, table, secr, told, running>>

(* A group that the content does not use is left as it is. *)
Put ==
  /\ At("put")
  /\ call.step <= Len(Order)
  /\ LET g == Order[call.step] IN
     /\ number' = IF g = "number" THEN [number EXCEPT ![call.port] = call.req.stream] ELSE number
     /\ stage' = IF g \in Always \cup Parts[call.req.content]
                 THEN [stage EXCEPT ![call.port][g] = call.req.content] ELSE stage
  /\ call' = [call EXCEPT !.step = @ + 1]
  /\ UNCHANGED <<pacr, table, secr, told, running>>

(* PACR comes last. *)
Commit ==
  /\ At("put")
  /\ call.step = Len(Order) + 1
  /\ pacr' = [pacr EXCEPT ![call.port] = [pending |-> TRUE, content |-> call.req.content]]
  /\ call' = [call EXCEPT !.pc = "poll"]
  /\ UNCHANGED <<stage, number, table, secr, told, running>>

Pending == pacr[call.port].pending

(* PollAgain as it would be without the limit. *)
PollAgain_Forever ==
  /\ At("poll") /\ Pending
  /\ call' = [call EXCEPT !.saw = TRUE]
  /\ UNCHANGED <<stage, number, pacr, table, secr, told, running>>

(* "while( ( READ64( map, PACR ) & ( 1<<0 ) ) && limit-- )" *)
PollAgain ==
  /\ At("poll") /\ Pending
  /\ call.limit > 0
  /\ call' = [call EXCEPT !.limit = @ - 1, !.saw = TRUE]
  /\ UNCHANGED <<stage, number, pacr, table, secr, told, running>>

(* PollEnds as it would be if one read of the bit were enough. *)
PollEnds_OneRead ==
  /\ At("poll")
  /\ PortDone("ok")
  /\ UNCHANGED <<stage, number, pacr, table, secr, told, running>>

(* The loop has ended: the bit is clear, or the limit was 0 and is now -1. *)
(* "if( limit <= 0 )" decides.                                             *)
PollEnds ==
  /\ At("poll")
  /\ Pending => call.limit = 0
  /\ LET limit == IF Pending THEN -1 ELSE call.limit
     IN IF limit <= 0
        THEN call' = [call EXCEPT !.pc = "reply", !.result = "notcleared",
                                  !.limit = limit, !.saw = Pending]
        ELSE PortDone("ok")
  /\ UNCHANGED <<stage, number, pacr, table, secr, told, running>>

-----------------------------------------------------------------------------
(* bsl_device_enableStream and the reply *)

(* Enable as it would be if stream 0 did not clear all words. *)
Enable_KeepAll ==
  /\ At("enable")
  /\ LET s == call.req.stream
     IN secr' = [secr EXCEPT ![call.req.port][Word(s)] =
                   IF call.req.enable = Disable THEN @ \ {Bit(s)} ELSE @ \cup {Bit(s)}]
  /\ call' = [call EXCEPT !.pc = "reply", !.result = "ok"]
  /\ UNCHANGED <<stage, number, pacr, table, told, running>>

(* Stream 0 clears all words first. *)
Enable ==
  /\ At("enable")
  /\ LET s == call.req.stream
         words == IF s = 0 THEN [w \in Words |-> {}] ELSE secr[call.req.port]
     IN secr' = [secr EXCEPT ![call.req.port] =
                   [words EXCEPT ![Word(s)] =
                      IF call.req.enable = Disable THEN @ \ {Bit(s)} ELSE @ \cup {Bit(s)}]]
  /\ call' = [call EXCEPT !.pc = "reply", !.result = "ok"]
  /\ UNCHANGED <<stage, number, pacr, table, told, running>>

(* The parameters are out of range, or the device cannot be opened. *)
EnableFails ==
  /\ At("enable")
  /\ call' = [call EXCEPT !.pc = "reply", !.result = "failed"]
  /\ UNCHANGED <<stage, number, pacr, table, secr, told, running>>

(* What a client concludes from the reply: only success changes anything. *)
Reply ==
  /\ At("reply")
  /\ LET r == call.req IN
     IF call.result = "ok"
     THEN /\ told' = IF r.enable = Disable THEN told
                     ELSE [p \in Ports |-> IF p \in PortsOf(r)
                             THEN [told[p] EXCEPT ![r.stream] = r.content] ELSE told[p]]
          /\ running' = [running EXCEPT ![r.port] =
                           LET on == IF r.stream = 0 THEN {} ELSE @
                           IN IF r.enable = Disable THEN on \ {r.stream} ELSE on \cup {r.stream}]
     ELSE UNCHANGED <<told, running>>
  /\ call' = NoCall
  /\ UNCHANGED <<stage, number, pacr, table, secr>>

(* The daemon dies and is started again; a client that gets no reply looks *)
(* at the enable bits.                                                     *)
Crash ==
  /\ ~Idle
  /\ running' = [running EXCEPT ![call.req.port] = Enabled(call.req.port)]
  /\ call' = NoCall
  /\ UNCHANGED <<stage, number, pacr, table, secr, told>>

-----------------------------------------------------------------------------
(* The staging registers of port p hold content c and nothing else: what   *)
(* depends on frame size and payload is looked at only if c selects it.    *)
Whole(p, c) ==
  /\ pacr[p].content = c
  /\ \A g \in Always \cup Parts[c] : stage[p][g] = c
  /\ \A g \in Cleared \ Parts[c] : stage[p][g] = None

(* The FPGA carries out a command, at any time while bit 0 is set: early,  *)
(* or after the daemon has given up and is writing the next stream.        *)
Serve(p) ==
  /\ pacr[p].pending
  /\ pacr' = [pacr EXCEPT ![p].pending = FALSE]
  /\ table' = [table EXCEPT ![p][number[p]] =
                 IF Whole(p, pacr[p].content) THEN pacr[p].content ELSE Torn]
  /\ UNCHANGED <<call, stage, number, secr, told, running>>

Daemon ==
  \/ OpenFails \/ Open \/ Zero \/ Put \/ Commit \/ PollAgain \/ PollEnds
  \/ Enable \/ EnableFails \/ Reply

Next ==
  \/ \E r \in Requests : Begin(r)
  \/ Daemon
  \/ Crash
  \/ \E p \in Ports : Serve(p)

Spec == Init /\ [][Next]_vars

(* The daemon runs; the FPGA need not ever clear the bit. *)
FairSpec == Spec /\ WF_vars(Daemon)

-----------------------------------------------------------------------------
(* Properties *)

(* A stream that a client was told is set up is, in the table of every port *)
(* it was meant for, exactly what the client asked for, until the next     *)
(* request for that stream: a command that the FPGA carries out late, with *)
(* registers that the next request has half overwritten, does not touch it *)
(* (bsl_device.c:2180-2190).                                               *)
StreamAsReplied ==
  \A p \in Ports, s \in Streams : told[p][s] # Unknown => table[p][s] = told[p][s]

(* The enable bits of a port are what the replies made clients believe: a  *)
(* request that is refused or fails half way has not changed them          *)
(* (bsl_msg_handle.c:957-965, bsl_device.c:579-592).                       *)
RunsAsReplied == Idle => \A p \in Ports : Enabled(p) = running[p]

(* Message 110 starts a stream only when every port that it is meant for   *)
(* has taken it over as a whole.                                           *)
OnlyProgrammedRun ==
  [][\A p \in Ports : \A s \in Enabled(p)' \ Enabled(p) :
       \A q \in PortsOf(call.req) : table[q][s] = call.req.content]_vars

(* Every request is answered, also when the FPGA never clears the bit. *)
RequestReturns == ~Idle ~> Idle

(* "Command not cleared", says the error message for this result: the last *)
(* poll of PACR saw bit 0 set (bsl_device.c:2187).                         *)
NotClearedIsTrue == call.result = "notcleared" => call.saw
=============================================================================
