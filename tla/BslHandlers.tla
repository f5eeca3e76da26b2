---------------------------- MODULE BslHandlers ----------------------------
(***************************************************************************)
(* The handlers of the daemon's messages (bsl_handle_msgid_101 to _112 of  *)
(* api/bsl_msg_handle.c): what each calls in the library for the records   *)
(* of a message, and what its reply says of them.  A record is what it     *)
(* asks for; the library's answers to the calls are given as a sequence,   *)
(* one for each record, whether or not the handler makes the call.         *)
(***************************************************************************)
EXTENDS Integers, Sequences

(* EnumResultCode, of which the calls return these. *)
ResultGeneralError == -1
ResultSuccess == 0
ResultOpenDeviceError == 2
ResultOutOfRange == 4
ResultMmapFailure == 11
ResultDmaError == 20

Asks == {"off", "on",                                            \* 104, 105
         "latency", "sequence", "signature", "all", "mixed",     \* 106
         "network", "read", "write",                             \* 108, 111
         "fatal", "other"}                                       \* 110, the rest

(* Requests that the handler does not survive: message 100, whose handler  *)
(* writes through a null pointer, and streams of message 110 that divide   *)
(* by zero (a step of 0) or use a record that is not there (IGMP).         *)
Kills(id, asks) == id = 100 \/ (id = 110 /\ asks[1] = "fatal")

Failures(id) ==
  CASE id = 101 -> {ResultOpenDeviceError, ResultMmapFailure}
    [] id = 105 -> {ResultGeneralError, ResultOutOfRange, ResultMmapFailure, ResultDmaError}
    [] id \in {109, 112} -> {}
    [] OTHER -> {ResultGeneralError, ResultOutOfRange, ResultMmapFailure}

(* The result that stands for success, which tells the client what is now  *)
(* set ("150820 ysh request").                                             *)
Told(id, asks) ==
  CASE id = 104 /\ asks = "on" -> 21
    [] id = 105 /\ asks = "on" -> 1
    [] id = 106 /\ asks = "latency" -> 1
    [] id = 106 /\ asks = "sequence" -> 2
    [] id = 106 /\ asks = "signature" -> 3
    [] id = 106 /\ asks = "all" -> 4
    [] id = 108 /\ asks = "network" -> 20
    [] OTHER -> ResultSuccess

Unset == 1000  \* whatever the memory holds
(* did is history: the record whose data the call for each record used, as *)
(* a set.                                                                  *)
Answer == [ret : Int, counted : Nat, results : Seq(Int), did : Seq(SUBSET Nat)]
NoAnswer == [ret |-> 0, counted |-> 0, results |-> <<>>, did |-> <<>>]
Answered(counted, results) ==
  [ret |-> ResultSuccess, counted |-> counted, results |-> results,
   did |-> [i \in DOMAIN results |-> {i}]]

(* 101 gives up at the first card that cannot be asked: there is no reply. *)
Status(rets) ==
  IF \E i \in DOMAIN rets : rets[i] # ResultSuccess
  THEN [NoAnswer EXCEPT !.ret = ResultGeneralError] ELSE Answered(Len(rets), rets)

(* 103 returns what the last call returned.  The statistics of a record    *)
(* that failed before are zeros, and nothing says so.                      *)
Statistics(rets) ==
  IF rets[Len(rets)] # ResultSuccess
  THEN [NoAnswer EXCEPT !.ret = rets[Len(rets)]]
  ELSE Answered(Len(rets), [i \in DOMAIN rets |-> ResultSuccess])

(* Each as it would be if one retval, tested once, were told of all. *)
Each_LastResult(id, asks, rets) ==
  LET retval == rets[Len(rets)]
  IN Answered(Len(asks),
       [i \in DOMAIN asks |-> IF retval = ResultSuccess THEN Told(id, asks[i]) ELSE retval])

(* 104, 105, 106 and 108: one result for each record, and so has 111. *)
Each(id, asks, rets) ==
  Answered(Len(asks),
    [i \in DOMAIN asks |-> IF rets[i] = ResultSuccess THEN Told(id, asks[i]) ELSE rets[i]])

(* 111 has one value for all records: that of the first, until a read puts *)
(* what it has read in its place.  A write writes what is there.           *)
Held(asks, rets, i) ==
  LET reads == {j \in 1 .. i - 1 : asks[j] = "read" /\ rets[j] = ResultSuccess}
  IN IF reads = {} THEN {1} ELSE {j \in reads : \A k \in reads : k <= j}
RegisterIO(asks, rets) ==
  [Each(111, asks, rets) EXCEPT !.did =
     [i \in DOMAIN asks |-> IF asks[i] = "read" THEN {i} ELSE Held(asks, rets, i)]]

(* 102 and 110 take the first record and say that it is the only one. *)
First(rets) == Answered(1, <<rets[1]>>)

(* 109 calls nothing and does not set its result; the reply has one,       *)
(* however many it claims.                                                 *)
General(asks) == Answered(Len(asks), <<Unset>>)

(* 112 executes one command, whatever comes of it, and the results of the  *)
(* others are not set.                                                     *)
Shell(asks) ==
  Answered(Len(asks), [i \in DOMAIN asks |-> IF i = 1 THEN ResultSuccess ELSE Unset])

Handler(id, asks, rets) ==
  CASE id = 101 -> Status(rets)
    [] id = 103 -> Statistics(rets)
    [] id \in {104, 105, 106, 108} -> Each(id, asks, rets)
    [] id = 111 -> RegisterIO(asks, rets)
    [] id \in {102, 110} -> First(rets)
    [] id = 109 -> General(asks)
    [] id = 112 -> Shell(asks)
=============================================================================
