-------------------------- MODULE BslMsgIfProofs ---------------------------
(***************************************************************************)
(* For any clients, messages and number of descriptors: the replies that a *)
(* client gets are to its requests (RepliesPair), they say what became of  *)
(* them (ResultsTell), and only a second write to a connection that is     *)
(* gone, or a stream that no handler survives, kills the daemon            *)
(* (OnlyResetKills).                                                       *)
(***************************************************************************)
EXTENDS BslMsgIf, TLAPS

-----------------------------------------------------------------------------
(* Every message asks for something. *)
Requests == {m \in Message : m.asks # <<>>}
Handling == pc \in {"handle", "reply"}
MessagesAsk ==
  /\ \A c \in Clients : sent[c] \in Seq(Requests) /\ inbox[c] \in Seq(Requests)
  /\ Handling => msg \in Requests

(* The listening socket is open where the server can close it. *)
SocketIsOpen == pc \in {"accept", "read", "handle", "reply"} => fds >= 1

(* What is being said is the answer of the handler to what the library     *)
(* returned to it.                                                         *)
AnswerOfHandler ==
  pc = "reply" =>
    /\ Accepts(msg)
    /\ returned \in [DOMAIN msg.asks -> Failures(msg.id) \cup {ResultSuccess}]
    /\ answer = Handler(msg.id, msg.asks, returned)
    /\ answer.ret = ResultSuccess

(* The inbox is the part of what was sent that is not read yet, and the    *)
(* message in hand is the one before it.                                   *)
Unread(c) == Len(sent[c]) - Len(inbox[c])
Rest(c) ==
  /\ Len(inbox[c]) <= Len(sent[c])
  /\ \A i \in 1 .. Len(inbox[c]) : inbox[c][i] = sent[c][Unread(c) + i]
InboxIsRest == \A c \in Clients : Rest(c)
InHand == Handling => Unread(conn) >= 1 /\ msg = sent[conn][Unread(conn)]

(* The replies are to messages before the one in hand. *)
Done(c) == IF Handling /\ c = conn THEN Unread(c) - 1 ELSE Unread(c)
Paired(c) ==
  \E place \in [DOMAIN replies[c] -> DOMAIN sent[c]] :
    Pairs(c, place) /\ \A i \in DOMAIN replies[c] : place[i] <= Done(c)
PairedSoFar == \A c \in Clients : Paired(c)

MsgIfInv ==
  /\ TypeOK /\ MessagesAsk /\ SocketIsOpen /\ AnswerOfHandler
  /\ InboxIsRest /\ InHand /\ PairedSoFar

-----------------------------------------------------------------------------
(* The handlers *)

LEMMA SeqByDomain ==
  ASSUME NEW S, NEW s \in Seq(S), NEW T, NEW f \in [DOMAIN s -> T]
  PROVE  f \in Seq(T) /\ Len(f) = Len(s) /\ DOMAIN f = DOMAIN s
<1>1. DOMAIN s = 1 .. Len(s) /\ Len(s) \in Nat
  OBVIOUS
<1> QED
  BY <1>1

LEMMA FailuresAreInt ==
  ASSUME NEW id PROVE Failures(id) \cup {ResultSuccess} \in SUBSET Int
BY DEF Failures, ResultGeneralError, ResultSuccess, ResultOpenDeviceError, ResultOutOfRange,
       ResultMmapFailure, ResultDmaError

LEMMA ToldIsInt == ASSUME NEW id, NEW ask PROVE Told(id, ask) \in Int
BY DEF Told, ResultSuccess

LEMMA HandlerType ==
  ASSUME NEW m \in Requests, Accepts(m),
         NEW rets \in [DOMAIN m.asks -> Failures(m.id) \cup {ResultSuccess}]
  PROVE  Handler(m.id, m.asks, rets) \in Answer
<1> DEFINE n == Len(m.asks)
<1>1. m.asks \in Seq(Asks) /\ n \in Nat \ {0} /\ DOMAIN m.asks = 1 .. n
  <2>1. m.asks \in Seq(Asks) /\ m.asks # <<>>
    BY DEF Requests, Message
  <2> QED
    BY <2>1
<1>2. rets \in Seq(Int) /\ Len(rets) = n /\ DOMAIN rets = 1 .. n
  <2>1. rets \in [DOMAIN m.asks -> Int]
    BY FailuresAreInt
  <2> QED
    BY <1>1, <2>1
<1>3. \A k \in Nat : \A res \in Seq(Int) : Answered(k, res) \in Answer
  <2> TAKE k \in Nat, res \in Seq(Int)
  <2>1. [i \in DOMAIN res |-> {i}] \in Seq(SUBSET Nat)
    <3>1. DOMAIN res = 1 .. Len(res) /\ Len(res) \in Nat
      OBVIOUS
    <3>2. [i \in DOMAIN res |-> {i}] \in [DOMAIN res -> SUBSET Nat]
      BY <3>1
    <3> QED
      BY <3>2, SeqByDomain
  <2> QED
    BY <2>1 DEF Answered, Answer, ResultSuccess
<1>4. \A f \in [1 .. n -> Int] : f \in Seq(Int)
  BY <1>1
<1>5. \A k \in Int : [NoAnswer EXCEPT !.ret = k] \in Answer
  <2>1. \A k : [NoAnswer EXCEPT !.ret = k] \in [ret : {k}, counted : {0}, results : {<<>>}, did : {<<>>}]
    BY DEF NoAnswer
  <2>2. <<>> \in Seq(Int) /\ 0 \in Nat /\ <<>> \in Seq(SUBSET Nat)
    OBVIOUS
  <2>3. \A k \in Int : [ret : {k}, counted : {0}, results : {<<>>}, did : {<<>>}] \subseteq Answer
    BY <2>2 DEF Answer
  <2> QED
    BY <2>1, <2>3
<1>6. Status(rets) \in Answer
  <2>1. Answered(Len(rets), rets) \in Answer
    BY <1>1, <1>2, <1>3
  <2>2. [NoAnswer EXCEPT !.ret = ResultGeneralError] \in Answer
    BY <1>5 DEF ResultGeneralError
  <2> QED
    BY <2>1, <2>2 DEF Status
<1>7. Statistics(rets) \in Answer
  <2>1. rets[Len(rets)] \in Int
    BY <1>1, <1>2
  <2>2. [i \in DOMAIN rets |-> ResultSuccess] \in Seq(Int)
    BY <1>2, <1>4 DEF ResultSuccess
  <2> QED
    BY <1>1, <1>2, <1>3, <1>5, <2>1, <2>2 DEF Statistics
<1>8. \A id : Each(id, m.asks, rets) \in Answer
  <2> TAKE id
  <2> DEFINE said == [i \in DOMAIN m.asks |->
                        IF rets[i] = ResultSuccess THEN Told(id, m.asks[i]) ELSE rets[i]]
  <2>1. said \in [1 .. n -> Int]
    BY <1>1, <1>2, ToldIsInt
  <2> QED
    BY <1>1, <1>3, <1>4, <2>1 DEF Each
<1>r. RegisterIO(m.asks, rets) \in Answer
  <2> DEFINE did == [i \in DOMAIN m.asks |->
                       IF m.asks[i] = "read" THEN {i} ELSE Held(m.asks, rets, i)]
  <2>1. \A i \in 1 .. n : Held(m.asks, rets, i) \in SUBSET Nat
    BY <1>1 DEF Held
  <2>2. did \in [DOMAIN m.asks -> SUBSET Nat]
    BY <1>1, <2>1
  <2>3. did \in Seq(SUBSET Nat)
    <3> HIDE DEF did
    <3> QED
      BY <1>1, <2>2, SeqByDomain
  <2>4. \A a \in Answer, d \in Seq(SUBSET Nat) : [a EXCEPT !.did = d] \in Answer
    BY DEF Answer
  <2> QED
    BY <1>8, <2>3, <2>4 DEF RegisterIO
<1>9. First(rets) \in Answer
  <2>1. <<rets[1]>> \in Seq(Int)
    BY <1>1, <1>2
  <2> QED
    BY <1>3, <2>1 DEF First
<1>10. General(m.asks) \in Answer
  <2>1. <<Unset>> \in Seq(Int)
    BY DEF Unset
  <2> QED
    BY <1>1, <1>3, <2>1 DEF General
<1>11. Shell(m.asks) \in Answer
  <2>1. [i \in DOMAIN m.asks |-> IF i = 1 THEN ResultSuccess ELSE Unset] \in [1 .. n -> Int]
    BY <1>1 DEF ResultSuccess, Unset
  <2> QED
    BY <1>1, <1>3, <1>4, <2>1 DEF Shell
<1>12. m.id \in {101, 102, 103, 104, 105, 106, 108, 109, 110, 111, 112}
  BY DEF Accepts, HandlerTable, VALUE_MSGID_OFFSET, VALUE_MAX_MSGIF_ID, Requests, Message
<1> QED
  BY <1>6, <1>7, <1>8, <1>r, <1>9, <1>10, <1>11, <1>12 DEF Handler

(* A reply for each record, with the result that tells. *)
TellsAll(id, asks, rets, said) ==
  /\ Len(said.results) = said.counted
  /\ said.counted = IF id \in {102, 110} THEN 1 ELSE Len(asks)
  /\ \A i \in DOMAIN said.results :
       ~(id = 106 /\ asks[i] = "all") /\ ~(id = 111 /\ asks[i] # "read" /\ i > 1) =>
         (said.results[i] = Told(id, asks[i]) <=> rets[i] = ResultSuccess /\ said.did[i] = {i})

LEMMA HandlerTells ==
  ASSUME NEW m \in Requests, Accepts(m), m.id \notin {101, 103, 109, 112},
         NEW rets \in [DOMAIN m.asks -> Failures(m.id) \cup {ResultSuccess}],
         NEW said, said = Handler(m.id, m.asks, rets)
  PROVE  TellsAll(m.id, m.asks, rets, said)
<1>1. m.asks \in Seq(Asks) /\ m.asks # <<>> /\ DOMAIN m.asks = 1 .. Len(m.asks) /\ Len(m.asks) \in Nat \ {0}
  BY DEF Requests, Message
<1>2. m.id \in {102, 104, 105, 106, 108, 110, 111}
  BY DEF Accepts, HandlerTable, VALUE_MSGID_OFFSET, VALUE_MAX_MSGIF_ID, Requests, Message
<1>3. \A i \in DOMAIN m.asks :
        ~(m.id = 106 /\ m.asks[i] = "all") /\ rets[i] # ResultSuccess =>
          rets[i] # Told(m.id, m.asks[i])
  BY <1>2 DEF Told, Failures, ResultGeneralError, ResultSuccess, ResultOpenDeviceError,
              ResultOutOfRange, ResultMmapFailure, ResultDmaError
<1>4. CASE m.id \in {102, 110}
  <2>1. said = Answered(1, <<rets[1]>>)
    BY <1>4 DEF Handler, First
  <2>2. said.counted = 1 /\ said.results = <<rets[1]>> /\ said.did = [i \in {1} |-> {i}]
    BY <2>1 DEF Answered
  <2>3. \A a : Told(m.id, a) = ResultSuccess
    BY <1>4 DEF Told
  <2> QED
    BY <1>4, <2>2, <2>3 DEF TellsAll
<1>5. CASE m.id \notin {102, 110}
  <2> DEFINE res == [i \in DOMAIN m.asks |->
                       IF rets[i] = ResultSuccess THEN Told(m.id, m.asks[i]) ELSE rets[i]]
             own == [i \in DOMAIN m.asks |-> {i}]
             used == [i \in DOMAIN m.asks |->
                        IF m.asks[i] = "read" THEN {i} ELSE Held(m.asks, rets, i)]
  <2>1. Len(res) = Len(m.asks) /\ DOMAIN res = DOMAIN m.asks
    BY <1>1
  <2>2. Each(m.id, m.asks, rets) =
          [ret |-> ResultSuccess, counted |-> Len(m.asks), results |-> res, did |-> own]
    BY <2>1 DEF Each, Answered
  <2>3. said.counted = Len(m.asks) /\ said.results = res /\ said.did \in {own, used}
        /\ (m.id # 111 => said.did = own)
    <3>1. CASE m.id # 111
      <4>1. said = Each(m.id, m.asks, rets)
        BY <1>2, <1>5, <3>1 DEF Handler
      <4> QED
        BY <2>2, <3>1, <4>1
    <3>2. CASE m.id = 111
      <4>1. said = [Each(m.id, m.asks, rets) EXCEPT !.did = used]
        BY <3>2 DEF Handler, RegisterIO
      <4>2. said = [ret |-> ResultSuccess, counted |-> Len(m.asks), results |-> res, did |-> used]
        <5> HIDE DEF res, own, used
        <5>1. Each(m.id, m.asks, rets) =
                [ret |-> ResultSuccess, counted |-> Len(m.asks), results |-> res, did |-> own]
          BY <2>2
        <5>2. PICK each : each = Each(m.id, m.asks, rets)
          OBVIOUS
        <5>3. said = [each EXCEPT !.did = used]
          BY <4>1, <5>2, Zenon
        <5>4. each = [ret |-> ResultSuccess, counted |-> Len(m.asks), results |-> res, did |-> own]
          BY <5>1, <5>2, Zenon
        <5>5. [each EXCEPT !.did = used]
                = [ret |-> ResultSuccess, counted |-> Len(m.asks), results |-> res, did |-> used]
          BY <5>4, SMT
        <5> QED
          BY <5>3, <5>5, Zenon
      <4>3. said.counted = Len(m.asks) /\ said.results = res /\ said.did = used
        <5> HIDE DEF res, own, used
        <5> QED
          BY <4>2
      <4> QED
        <5> HIDE DEF res, own, used
        <5> QED
          BY <3>2, <4>3
    <3> QED
      BY <3>1, <3>2
  <2>4. Held(m.asks, rets, 1) = {1}
    BY DEF Held
  <2>5. \A i \in DOMAIN m.asks :
          ~(m.id = 111 /\ m.asks[i] # "read" /\ i > 1) => said.did[i] = {i}
    <3> SUFFICES ASSUME NEW i \in DOMAIN m.asks, ~(m.id = 111 /\ m.asks[i] # "read" /\ i > 1)
                 PROVE  said.did[i] = {i}
      OBVIOUS
    <3>1. own[i] = {i}
      OBVIOUS
    <3>2. m.id = 111 => used[i] = {i}
      BY <1>1, <2>4
    <3> HIDE DEF own, used
    <3> QED
      BY <2>3, <3>1, <3>2
  <2> QED
    BY <1>3, <1>5, <2>1, <2>3, <2>5 DEF TellsAll
<1> QED
  BY <1>4, <1>5

-----------------------------------------------------------------------------
(* The server *)

LEMMA TypeStep == MsgIfInv /\ [Next]_vars => TypeOK'
<1> SUFFICES ASSUME MsgIfInv, [Next]_vars PROVE TypeOK'
  OBVIOUS
<1> USE DEF MsgIfInv, TypeOK
<1>0. FdLimit \in Nat \ {0} /\ None \notin Clients /\ \A c \in Clients : Messages[c] \subseteq Message
  BY MsgIfAssumption
<1>1. NoMessage \in Message /\ NoAnswer \in Answer /\ <<>> \in Seq(Int)
  BY DEF NoMessage, Message, NoAnswer, Answer
<1>2. CASE SocketFails \/ BindFails \/ Listen \/ WakeUp \/ AcceptError \/ Restart
  <2>1. fds < FdLimit => fds + 1 \in 0 .. FdLimit
    BY <1>0
  <2>2. CASE SocketFails \/ BindFails \/ Listen
    BY <2>1, <2>2 DEF SocketFails, BindFails, Listen, client
  <2>3. CASE WakeUp \/ AcceptError
    BY <2>3 DEF WakeUp, AcceptError, client
  <2>4. CASE Restart
    <3>1. <<>> \in Seq(Clients) /\ 0 \in 0 .. FdLimit
      BY <1>0
    <3> QED
      BY <1>1, <2>4, <3>1 DEF Restart, client
  <2> QED
    BY <1>2, <2>2, <2>3, <2>4
<1>3. CASE Accept
  <2>1. Head(queue) \in Clients /\ Tail(queue) \in Seq(Clients)
    BY <1>3 DEF Accept
  <2> QED
    BY <1>0, <1>3, <2>1 DEF Accept, client
<1>4. CASE ReadMessage
  <2>1. conn \in Clients
    BY <1>4 DEF ReadMessage
  <2>2. Head(inbox[conn]) \in Message /\ Tail(inbox[conn]) \in Seq(Message)
    BY <1>4, <2>1 DEF ReadMessage
  <2>3. inbox' \in [Clients -> Seq(Message)]
    BY <1>4, <2>2 DEF ReadMessage
  <2>4. reset' \in BOOLEAN
    BY <1>4 DEF ReadMessage
  <2>5. msg' \in Message /\ pc = "read" /\ pc' = "handle" /\ conn' = conn
        /\ UNCHANGED <<fds, port, queue, answer, returned, closed, aborted, sent, replies>>
    BY <1>4, <2>2 DEF ReadMessage
  <2> QED
    BY <2>1, <2>3, <2>4, <2>5
<1>5. CASE HangUp
  <2>1. fds - 1 \in 0 .. FdLimit
    BY <1>0, <1>5 DEF HangUp, SocketIsOpen
  <2>2. <<>> \in Seq(Clients)
    OBVIOUS
  <2> QED
    BY <1>5, <2>1, <2>2 DEF HangUp, client
<1>6. CASE Drop
  BY <1>1, <1>6 DEF Drop, client
<1>7. CASE RunHandler
  <2>1. msg \in Requests /\ pc = "handle" /\ UNCHANGED <<fds, port, queue, reset, client>>
    BY <1>7 DEF RunHandler, MessagesAsk, Handling
  <2>2. CASE Kills(msg.id, msg.asks)
    <3>1. pc' = "dead" /\ conn' = None /\ UNCHANGED <<msg, answer, returned>>
      BY <1>7, <2>2 DEF RunHandler
    <3> QED
      BY <2>1, <3>1 DEF client
  <2>3. CASE ~Kills(msg.id, msg.asks)
    <3>1. PICK rets \in [DOMAIN msg.asks -> Failures(msg.id) \cup {ResultSuccess}] :
            LET said == Handler(msg.id, msg.asks, rets)
            IN /\ IF said.ret # ResultSuccess
                  THEN /\ pc' = "read" /\ msg' = NoMessage
                       /\ UNCHANGED <<answer, returned>>
                  ELSE /\ pc' = "reply" /\ answer' = said /\ returned' = rets
                       /\ UNCHANGED msg
               /\ UNCHANGED conn
      BY <1>7, <2>3 DEF RunHandler
    <3>2. Handler(msg.id, msg.asks, rets) \in Answer
      BY <1>7, <2>1, HandlerType DEF RunHandler
    <3>3. rets \in Seq(Int)
      <4>1. rets \in [DOMAIN msg.asks -> Int] /\ msg.asks \in Seq(Asks)
        BY FailuresAreInt DEF Message
      <4> QED
        BY <4>1, SeqByDomain
    <3>4. /\ msg' \in Message /\ answer' \in Answer /\ returned' \in Seq(Int)
          /\ pc' \in {"read", "reply"} /\ conn' = conn
      BY <1>1, <3>1, <3>2, <3>3
    <3> QED
      BY <2>1, <3>4 DEF client
  <2> QED
    BY <2>2, <2>3
<1>8. CASE Reply
  <2>1. conn \in Clients
    BY <1>8 DEF Reply
  <2>2. Append(replies[conn], msg.id) \in Seq(Nat)
    BY <2>1 DEF Message
  <2>3. replies' \in [Clients -> Seq(Nat)]
    BY <1>8, <2>2 DEF Reply
  <2>4. /\ pc' = "read" /\ msg' = NoMessage /\ answer' = NoAnswer /\ returned' = <<>>
        /\ UNCHANGED <<fds, port, queue, conn, reset, closed, aborted, sent, inbox>>
    BY <1>8 DEF Reply, Written
  <2> QED
    BY <1>0, <1>1, <1>8, <2>1, <2>3, <2>4
<1>w. CASE ReplyRefused
  <2>1. /\ pc' = "read" /\ msg' = NoMessage /\ answer' = NoAnswer /\ returned' = <<>>
        /\ reset' = TRUE /\ pc = "reply"
        /\ UNCHANGED <<fds, port, queue, conn, closed, aborted, sent, inbox, replies>>
    BY <1>w DEF ReplyRefused, Written, client
  <2> QED
    BY <1>1, <2>1
<1>f. CASE ReplyFails
  BY <1>f DEF ReplyFails, client
<1>k. CASE ReplyKills
  BY <1>1, <1>k DEF ReplyKills, client
<1>9. ASSUME NEW c \in Clients, Connect(c) PROVE TypeOK'
  <2>1. Append(queue, c) \in Seq(Clients) /\ <<>> \in Seq(Message) /\ <<>> \in Seq(Nat)
    OBVIOUS
  <2>2. /\ sent' \in [Clients -> Seq(Message)] /\ inbox' \in [Clients -> Seq(Message)]
        /\ replies' \in [Clients -> Seq(Nat)]
    BY <1>9, <2>1 DEF Connect
  <2>3. aborted' \subseteq closed' /\ closed' \subseteq Clients
    BY <1>9 DEF Connect
  <2> QED
    BY <1>9, <2>1, <2>2, <2>3 DEF Connect, server
<1>10. ASSUME NEW c \in Clients, NEW m \in Messages[c], Send(c, m) PROVE TypeOK'
  <2>1. m \in Message
    BY <1>0
  <2>2. Append(sent[c], m) \in Seq(Message) /\ Append(inbox[c], m) \in Seq(Message)
    BY <2>1
  <2>3. sent' \in [Clients -> Seq(Message)] /\ inbox' \in [Clients -> Seq(Message)]
    BY <1>10, <2>2 DEF Send
  <2>4. aborted' \subseteq closed' /\ closed' \subseteq Clients
    BY <1>10 DEF Send
  <2> QED
    BY <1>10, <2>3, <2>4 DEF Send, server
<1>11. ASSUME NEW c \in Clients, Close(c) PROVE TypeOK'
  BY <1>11 DEF Close, server
<1>a. ASSUME NEW c \in Clients, Abort(c) PROVE TypeOK'
  BY <1>a DEF Abort, server
<1>12. CASE UNCHANGED vars
  BY <1>12 DEF vars
<1> QED
  BY <1>2, <1>3, <1>4, <1>5, <1>6, <1>7, <1>8, <1>w, <1>f, <1>k, <1>9, <1>10, <1>11, <1>a, <1>12
     DEF Next, ServerStep, ClientStep

(* A handler that runs kills, fails or answers; of message 100 none does. *)
LEMMA HandlerRuns ==
  ASSUME MsgIfInv, RunHandler
  PROVE  /\ pc = "handle" /\ conn \in Clients /\ msg \in Requests
         /\ UNCHANGED <<fds, port, queue, reset, client>>
         /\ \/ pc' = "dead" /\ DeadlyStream
            \/ pc' = "read" /\ msg' = NoMessage /\ conn' = conn
            \/ /\ pc' = "reply" /\ msg' = msg /\ conn' = conn /\ Accepts(msg)
               /\ returned' \in [DOMAIN msg.asks -> Failures(msg.id) \cup {ResultSuccess}]
               /\ answer' = Handler(msg.id, msg.asks, returned')
               /\ answer'.ret = ResultSuccess
<1>1. pc = "handle" /\ Accepts(msg) /\ UNCHANGED <<fds, port, queue, reset, client>>
  BY DEF RunHandler
<1>2. conn \in Clients /\ msg \in Requests /\ msg.id # 100
  BY <1>1 DEF MsgIfInv, TypeOK, MessagesAsk, Handling, Accepts, VALUE_MSGID_OFFSET
<1>3. CASE Kills(msg.id, msg.asks)
  <2>1. pc' = "dead" /\ msg.id = 110
    BY <1>2, <1>3 DEF RunHandler, Kills
  <2> QED
    BY <1>1, <1>2, <1>3, <2>1 DEF DeadlyStream
<1>4. CASE ~Kills(msg.id, msg.asks)
  <2>1. PICK rets \in [DOMAIN msg.asks -> Failures(msg.id) \cup {ResultSuccess}] :
          LET said == Handler(msg.id, msg.asks, rets)
          IN /\ IF said.ret # ResultSuccess
                THEN /\ pc' = "read" /\ msg' = NoMessage
                     /\ UNCHANGED <<answer, returned>>
                ELSE /\ pc' = "reply" /\ answer' = said /\ returned' = rets
                     /\ UNCHANGED msg
             /\ UNCHANGED conn
    BY <1>4 DEF RunHandler
  <2> QED
    BY <1>1, <1>2, <2>1
<1> QED
  BY <1>3, <1>4

LEMMA AnswerStep == MsgIfInv /\ [Next]_vars => AnswerOfHandler'
<1> SUFFICES ASSUME MsgIfInv, [Next]_vars, pc' = "reply" PROVE AnswerOfHandler'
  BY DEF AnswerOfHandler
<1>1. CASE RunHandler
  BY <1>1, HandlerRuns DEF AnswerOfHandler, Accepts
<1>2. CASE pc' = pc /\ UNCHANGED <<msg, answer, returned>>
  BY <1>2 DEF MsgIfInv, AnswerOfHandler, Accepts
<1> QED
  BY <1>1, <1>2
     DEF Next, ServerStep, ClientStep, SocketFails, BindFails, Listen, Accept, AcceptError,
         ReadMessage, HangUp, WakeUp, Drop, Reply, ReplyRefused, ReplyFails, ReplyKills, Written,
         Restart, Connect, Send, Close, Abort, server, vars

LEMMA SocketStep == MsgIfInv /\ [Next]_vars => SocketIsOpen'
<1> SUFFICES ASSUME MsgIfInv, [Next]_vars, pc' \in {"accept", "read", "handle", "reply"}
             PROVE  fds' >= 1
  BY DEF SocketIsOpen
<1>0. fds \in Nat
  BY MsgIfAssumption DEF MsgIfInv, TypeOK
<1>1. CASE RunHandler
  BY <1>1, HandlerRuns DEF MsgIfInv, SocketIsOpen
<1>2. CASE ~RunHandler
  BY <1>0, <1>2
     DEF Next, ServerStep, ClientStep, SocketFails, BindFails, Listen, Accept, AcceptError,
         ReadMessage, HangUp, WakeUp, Drop, Reply, ReplyRefused, ReplyFails, ReplyKills, Written,
         Restart, Connect, Send, Close, Abort, server, vars,
         MsgIfInv, SocketIsOpen
<1> QED
  BY <1>1, <1>2

-----------------------------------------------------------------------------
(* The connections *)

(* Four things happen to a connection: it begins anew, a message is sent   *)
(* or read, or the message in hand is answered.  Everything else leaves    *)
(* what was sent, the inbox and the replies alone.                         *)
LEMMA ClientCases ==
  ASSUME MsgIfInv, [Next]_vars
  PROVE  \/ \E c \in Clients : Connect(c)
         \/ \E c \in Clients : \E m \in Messages[c] : Send(c, m)
         \/ ReadMessage
         \/ Reply
         \/ /\ UNCHANGED <<sent, inbox, replies>>
            /\ \/ conn' = conn /\ Handling' = Handling /\ msg' = msg
               \/ ~Handling'
<1>1. CASE RunHandler
  BY <1>1, HandlerRuns DEF client, Handling
<1>2. CASE SocketFails \/ BindFails \/ Listen \/ Accept \/ AcceptError \/ HangUp \/ WakeUp \/ Restart \/ Drop
  BY <1>2 DEF SocketFails, BindFails, Listen, Accept, AcceptError, HangUp, WakeUp, Restart, Drop,
              client, Handling
<1>r. CASE ReplyRefused \/ ReplyFails \/ ReplyKills
  BY <1>r DEF ReplyRefused, ReplyFails, ReplyKills, Written, client, Handling
<1>3. CASE \E c \in Clients : Close(c) \/ Abort(c)
  BY <1>3 DEF Close, Abort, server, Handling
<1>4. CASE UNCHANGED vars
  BY <1>4 DEF vars, Handling
<1> QED
  BY <1>1, <1>2, <1>r, <1>3, <1>4 DEF Next, ServerStep, ClientStep

LEMMA MessagesStep == MsgIfInv /\ [Next]_vars => MessagesAsk'
<1> SUFFICES ASSUME MsgIfInv, [Next]_vars PROVE MessagesAsk'
  OBVIOUS
<1> USE DEF MsgIfInv, TypeOK
<1>1. ASSUME NEW c \in Clients, Connect(c) PROVE MessagesAsk'
  BY <1>1 DEF Connect, server, MessagesAsk, Handling
<1>2. ASSUME NEW c \in Clients, NEW m \in Messages[c], Send(c, m) PROVE MessagesAsk'
  <2>1. m \in Requests
    BY MsgIfAssumption DEF Requests
  <2>2. Append(sent[c], m) \in Seq(Requests) /\ Append(inbox[c], m) \in Seq(Requests)
    BY <2>1 DEF MessagesAsk
  <2>3. \A d \in Clients : sent'[d] \in Seq(Requests) /\ inbox'[d] \in Seq(Requests)
    BY <1>2, <2>2 DEF Send, MessagesAsk
  <2> QED
    BY <1>2, <2>3 DEF Send, server, MessagesAsk, Handling
<1>3. CASE ReadMessage
  <2>1. conn \in Clients /\ inbox[conn] # <<>> /\ inbox[conn] \in Seq(Requests)
    BY <1>3 DEF ReadMessage, MessagesAsk
  <2>2. Head(inbox[conn]) \in Requests /\ Tail(inbox[conn]) \in Seq(Requests)
    BY <2>1
  <2>3. \A d \in Clients : sent'[d] \in Seq(Requests) /\ inbox'[d] \in Seq(Requests)
    BY <1>3, <2>2 DEF ReadMessage, MessagesAsk
  <2> QED
    BY <1>3, <2>2, <2>3 DEF ReadMessage, MessagesAsk
<1>4. CASE Reply
  BY <1>4 DEF Reply, Written, MessagesAsk, Handling
<1>5. ASSUME UNCHANGED <<sent, inbox, replies>>,
             (conn' = conn /\ Handling' = Handling /\ msg' = msg) \/ ~Handling'
      PROVE  MessagesAsk'
  BY <1>5 DEF MessagesAsk
<1> QED
  BY <1>1, <1>2, <1>3, <1>4, <1>5, ClientCases

LEMMA RestKept ==
  ASSUME NEW c, sent'[c] = sent[c], inbox'[c] = inbox[c]
  PROVE  Unread(c)' = Unread(c) /\ (Rest(c)' <=> Rest(c))
<1>1. Unread(c)' = Unread(c)
  BY DEF Unread
<1> QED
  BY <1>1 DEF Rest

LEMMA InboxStep == MsgIfInv /\ [Next]_vars => InboxIsRest' /\ InHand'
<1> SUFFICES ASSUME MsgIfInv, [Next]_vars PROVE InboxIsRest' /\ InHand'
  OBVIOUS
<1> USE DEF MsgIfInv, TypeOK
<1>1. ASSUME NEW c \in Clients, Connect(c) PROVE InboxIsRest' /\ InHand'
  <2>1. /\ sent'[c] = <<>> /\ inbox'[c] = <<>> /\ c # conn
        /\ \A d \in Clients \ {c} : sent'[d] = sent[d] /\ inbox'[d] = inbox[d]
        /\ pc' = pc /\ conn' = conn /\ msg' = msg
    BY <1>1 DEF Connect, server
  <2>2. InboxIsRest'
    <3>1. Rest(c)'
      BY <2>1 DEF Rest
    <3> QED
      BY <2>1, <3>1, RestKept DEF InboxIsRest
  <2>3. Handling => conn \in Clients \ {c}
    BY <2>1 DEF Handling
  <2> QED
    BY <2>1, <2>2, <2>3 DEF InHand, Handling, Unread
<1>2. ASSUME NEW c \in Clients, NEW m \in Messages[c], Send(c, m) PROVE InboxIsRest' /\ InHand'
  <2>1. /\ sent'[c] = Append(sent[c], m) /\ inbox'[c] = Append(inbox[c], m)
        /\ \A d \in Clients \ {c} : sent'[d] = sent[d] /\ inbox'[d] = inbox[d]
        /\ pc' = pc /\ conn' = conn /\ msg' = msg
    BY <1>2 DEF Send, server
  <2>2. sent[c] \in Seq(Message) /\ inbox[c] \in Seq(Message)
    OBVIOUS
  <2>3. /\ Len(sent'[c]) = Len(sent[c]) + 1 /\ Len(inbox'[c]) = Len(inbox[c]) + 1
        /\ Len(sent[c]) \in Nat /\ Len(inbox[c]) \in Nat /\ Unread(c)' = Unread(c)
        /\ Len(inbox[c]) <= Len(sent[c]) /\ Unread(c) \in Nat
        /\ \A i \in 1 .. Len(sent[c]) : sent'[c][i] = sent[c][i]
        /\ \A i \in 1 .. Len(inbox[c]) : inbox'[c][i] = inbox[c][i]
        /\ sent'[c][Len(sent[c]) + 1] = m /\ inbox'[c][Len(inbox[c]) + 1] = m
    BY <2>1, <2>2 DEF Unread, InboxIsRest, Rest
  <2>4. \A i \in 1 .. Len(inbox'[c]) : inbox'[c][i] = sent'[c][Unread(c)' + i]
    <3> SUFFICES ASSUME NEW i \in 1 .. Len(inbox'[c]) PROVE inbox'[c][i] = sent'[c][Unread(c) + i]
      BY <2>3
    <3>1. CASE i \in 1 .. Len(inbox[c])
      <4>1. Unread(c) + i \in 1 .. Len(sent[c])
        BY <2>3, <3>1 DEF Unread
      <4> QED
        BY <2>3, <3>1, <4>1 DEF InboxIsRest, Rest
    <3>2. CASE i = Len(inbox[c]) + 1
      <4>1. Unread(c) + i = Len(sent[c]) + 1
        BY <2>3, <3>2 DEF Unread
      <4> QED
        BY <2>3, <3>2, <4>1
    <3> QED
      BY <2>3, <3>1, <3>2
  <2>5. InboxIsRest'
    <3> DEFINE a == Len(inbox[c])
               b == Len(sent[c])
    <3>0. Len(inbox'[c]) <= Len(sent'[c])
      <4>1. /\ a \in Nat /\ b \in Nat /\ a <= b
            /\ Len(inbox'[c]) = a + 1 /\ Len(sent'[c]) = b + 1
        BY <2>3
      <4> HIDE DEF a, b, MsgIfInv, TypeOK
      <4> QED
        BY <4>1
    <3>1. Rest(c)'
      <4> HIDE DEF MsgIfInv, TypeOK
      <4> QED
        BY <2>4, <3>0 DEF Rest
    <3> QED
      BY <2>1, <3>1, RestKept DEF InboxIsRest
  <2>6. InHand'
    <3>1. \A d \in Clients : Unread(d)' = Unread(d)
      BY <2>1, <2>3 DEF Unread
    <3>2. ASSUME Handling PROVE Unread(conn) >= 1 /\ msg = sent'[conn][Unread(conn)]
      <4>1. conn \in Clients /\ Unread(conn) >= 1 /\ msg = sent[conn][Unread(conn)]
        BY <3>2 DEF InHand, Handling
      <4>2. Unread(c) \in 0 .. Len(sent[c])
        BY <2>3 DEF Unread
      <4>3. conn = c => Unread(conn) \in 1 .. Len(sent[c])
        BY <2>3, <4>1, <4>2
      <4> QED
        BY <2>1, <2>3, <4>1, <4>3
    <3>3. Handling' = Handling /\ (Handling => conn \in Clients)
      BY <2>1 DEF Handling
    <3>4. Handling => Unread(conn)' = Unread(conn)
      BY <2>1, <3>1, <3>3 DEF Unread
    <3> QED
      BY <2>1, <3>2, <3>3, <3>4 DEF InHand
  <2> QED
    BY <2>5, <2>6
<1>3. CASE ReadMessage
  <2>1. /\ conn \in Clients /\ inbox[conn] # <<>> /\ sent' = sent /\ conn' = conn /\ Handling'
        /\ inbox' = [inbox EXCEPT ![conn] = Tail(@)] /\ msg' = Head(inbox[conn])
    BY <1>3 DEF ReadMessage, Handling
  <2>2. sent[conn] \in Seq(Message) /\ inbox[conn] \in Seq(Message)
    BY <2>1
  <2>3. inbox'[conn] = Tail(inbox[conn]) /\ \A d \in Clients \ {conn} : inbox'[d] = inbox[d]
    BY <2>1
  <2>4. /\ Len(inbox'[conn]) = Len(inbox[conn]) - 1
        /\ Len(inbox[conn]) \in Nat \ {0} /\ Len(sent[conn]) \in Nat
        /\ Len(inbox[conn]) <= Len(sent[conn])
        /\ msg' = inbox[conn][1]
        /\ \A i \in 1 .. Len(inbox[conn]) - 1 : inbox'[conn][i] = inbox[conn][i + 1]
    BY <2>1, <2>2, <2>3 DEF InboxIsRest, Rest
  <2>5. Unread(conn)' = Unread(conn) + 1 /\ Unread(conn) \in Nat
    BY <2>1, <2>4 DEF Unread
  <2>6. msg' = sent[conn][Unread(conn) + 1]
    BY <2>1, <2>4 DEF InboxIsRest, Rest
  <2>7. \A i \in 1 .. Len(inbox'[conn]) : inbox'[conn][i] = sent[conn][Unread(conn) + 1 + i]
    <3> SUFFICES ASSUME NEW i \in 1 .. Len(inbox'[conn])
                 PROVE  inbox'[conn][i] = sent[conn][Unread(conn) + 1 + i]
      OBVIOUS
    <3>1. i \in 1 .. Len(inbox[conn]) - 1
      BY <2>4
    <3>2. i + 1 \in 1 .. Len(inbox[conn]) /\ Unread(conn) + (i + 1) = Unread(conn) + 1 + i
      <4> DEFINE n == Len(inbox[conn])
                 u == Unread(conn)
      <4>1. n \in Nat /\ u \in Nat /\ i \in 1 .. n - 1
        BY <2>4, <2>5, <3>1
      <4> HIDE DEF n, u
      <4>2. i + 1 \in 1 .. n /\ u + (i + 1) = u + 1 + i
        BY <4>1
      <4> QED
        BY <4>2 DEF n, u
    <3>3. inbox'[conn][i] = inbox[conn][i + 1]
      BY <2>4, <3>1
    <3>4. inbox[conn][i + 1] = sent[conn][Unread(conn) + (i + 1)]
      BY <2>1, <3>2 DEF InboxIsRest, Rest
    <3> QED
      BY <3>3, <3>4, <3>2
  <2>8. InboxIsRest'
    <3>1. Len(inbox'[conn]) <= Len(sent'[conn])
      BY <2>1, <2>4
    <3>2. \A i \in 1 .. Len(inbox'[conn]) : inbox'[conn][i] = sent'[conn][Unread(conn)' + i]
      BY <2>1, <2>5, <2>7
    <3>3. Rest(conn)'
      BY <2>1, <3>1, <3>2 DEF Rest
    <3> QED
      BY <2>1, <2>3, <3>3, RestKept DEF InboxIsRest
  <2>9. InHand'
    BY <2>1, <2>5, <2>6 DEF InHand
  <2> QED
    BY <2>8, <2>9
<1>4. CASE Reply
  BY <1>4, RestKept DEF Reply, Written, InboxIsRest, InHand, Handling
<1>5. ASSUME UNCHANGED <<sent, inbox, replies>>,
             (conn' = conn /\ Handling' = Handling /\ msg' = msg) \/ ~Handling'
      PROVE  InboxIsRest' /\ InHand'
  <2>1. \A c : Unread(c)' = Unread(c) /\ (Rest(c)' <=> Rest(c))
    BY <1>5, RestKept
  <2>2. InboxIsRest'
    BY <2>1 DEF InboxIsRest
  <2>3. conn' = conn => Unread(conn)' = Unread(conn)
    BY <1>5 DEF Unread
  <2>4. InHand'
    BY <1>5, <2>3 DEF InHand
  <2> QED
    BY <2>2, <2>4
<1> QED
  BY <1>1, <1>2, <1>3, <1>4, <1>5, ClientCases

LEMMA Counts ==
  ASSUME MsgIfInv, NEW c \in Clients
  PROVE  /\ sent[c] \in Seq(Message) /\ replies[c] \in Seq(Nat)
         /\ DOMAIN sent[c] = 1 .. Len(sent[c]) /\ DOMAIN replies[c] = 1 .. Len(replies[c])
         /\ Len(sent[c]) \in Nat /\ Len(replies[c]) \in Nat
         /\ Unread(c) \in 0 .. Len(sent[c]) /\ Done(c) \in Int /\ Done(c) <= Unread(c)
<1>1. sent[c] \in Seq(Message) /\ replies[c] \in Seq(Nat) /\ inbox[c] \in Seq(Message)
  BY DEF MsgIfInv, TypeOK
<1>2. Len(inbox[c]) <= Len(sent[c])
  BY DEF MsgIfInv, InboxIsRest, Rest
<1> DEFINE a == Len(sent[c])
           b == Len(inbox[c])
<1>3. a \in Nat /\ b \in Nat /\ b <= a
  BY <1>1, <1>2
<1>4. Unread(c) = a - b
  BY DEF Unread
<1>5. Unread(c) \in 0 .. a
  <2> HIDE DEF a, b
  <2> QED
    BY <1>3, <1>4
<1>6. Done(c) \in Int /\ Done(c) <= Unread(c)
  BY <1>3, <1>5 DEF Done
<1> QED
  BY <1>1, <1>5, <1>6

LEMMA PairedKept ==
  ASSUME MsgIfInv, NEW c \in Clients, sent'[c] = sent[c], replies'[c] = replies[c],
         Done(c)' \in Int, Done(c) <= Done(c)'
  PROVE  Paired(c)'
<1>1. PICK place \in [DOMAIN replies[c] -> DOMAIN sent[c]] :
        Pairs(c, place) /\ \A i \in DOMAIN replies[c] : place[i] <= Done(c)
  BY DEF MsgIfInv, PairedSoFar, Paired
<1>2. Pairs(c, place)'
  BY <1>1 DEF Pairs
<1>3. \A i \in DOMAIN replies[c] : place[i] \in Int /\ place[i] <= Done(c)'
  BY <1>1, Counts
<1> QED
  BY <1>1, <1>2, <1>3 DEF Paired

LEMMA PairedStep == MsgIfInv /\ [Next]_vars => PairedSoFar'
<1> SUFFICES ASSUME MsgIfInv, [Next]_vars PROVE PairedSoFar'
  OBVIOUS
<1>1. ASSUME NEW c \in Clients, Connect(c) PROVE PairedSoFar'
  <2>1. /\ sent'[c] = <<>> /\ replies'[c] = <<>>
        /\ \A d \in Clients \ {c} :
             sent'[d] = sent[d] /\ inbox'[d] = inbox[d] /\ replies'[d] = replies[d]
        /\ pc' = pc /\ conn' = conn
    BY <1>1 DEF Connect, server, MsgIfInv, TypeOK
  <2>2. Paired(c)'
    <3>1. \E place \in [{} -> {}] : TRUE
      <4>1. [i \in {} |-> i] \in [{} -> {}]
        OBVIOUS
      <4> QED
        BY <4>1
    <3>2. PICK place \in [{} -> {}] : TRUE
      BY <3>1
    <3>3. DOMAIN sent'[c] = {} /\ DOMAIN replies'[c] = {} /\ DOMAIN place = {}
      BY <2>1
    <3> QED
      BY <3>3 DEF Paired, Pairs
  <2>3. \A d \in Clients \ {c} : Unread(d)' = Unread(d) /\ Done(d)' = Done(d)
    BY <2>1 DEF Unread, Done, Handling
  <2>4. \A d \in Clients \ {c} : Paired(d)'
    BY <2>1, <2>3, Counts, PairedKept
  <2> QED
    BY <2>2, <2>4 DEF PairedSoFar
<1>2. ASSUME NEW c \in Clients, NEW m \in Messages[c], Send(c, m) PROVE PairedSoFar'
  <2>1. /\ sent'[c] = Append(sent[c], m) /\ inbox'[c] = Append(inbox[c], m)
        /\ \A d \in Clients \ {c} : sent'[d] = sent[d] /\ inbox'[d] = inbox[d]
        /\ pc' = pc /\ conn' = conn /\ replies' = replies
    BY <1>2 DEF Send, server, MsgIfInv, TypeOK
  <2>2. sent[c] \in Seq(Message) /\ inbox[c] \in Seq(Message)
    BY DEF MsgIfInv, TypeOK
  <2>3. /\ \A i \in 1 .. Len(sent[c]) : sent'[c][i] = sent[c][i]
        /\ DOMAIN sent[c] = 1 .. Len(sent[c]) /\ DOMAIN sent[c] \subseteq DOMAIN sent'[c]
        /\ Unread(c)' = Unread(c)
    <3>1. /\ Len(sent'[c]) = Len(sent[c]) + 1 /\ Len(inbox'[c]) = Len(inbox[c]) + 1
          /\ Len(sent[c]) \in Nat /\ Len(inbox[c]) \in Nat
          /\ DOMAIN sent[c] = 1 .. Len(sent[c]) /\ DOMAIN sent'[c] = 1 .. Len(sent[c]) + 1
          /\ \A i \in 1 .. Len(sent[c]) : sent'[c][i] = sent[c][i]
      BY <2>1, <2>2
    <3>2. Unread(c)' = Unread(c)
      BY <3>1 DEF Unread
    <3>3. 1 .. Len(sent[c]) \subseteq 1 .. Len(sent[c]) + 1
      BY <3>1
    <3> QED
      BY <3>1, <3>2, <3>3
  <2>4. \A d \in Clients : Done(d)' = Done(d)
    <3>1. \A d \in Clients : Unread(d)' = Unread(d)
      BY <2>1, <2>3 DEF Unread
    <3> QED
      BY <2>1, <3>1 DEF Done, Handling
  <2>5. Paired(c)'
    <3>1. PICK place \in [DOMAIN replies[c] -> DOMAIN sent[c]] :
            Pairs(c, place) /\ \A i \in DOMAIN replies[c] : place[i] <= Done(c)
      BY DEF MsgIfInv, PairedSoFar, Paired
    <3>2. place \in [DOMAIN replies'[c] -> DOMAIN sent'[c]]
      BY <2>1, <2>3, <3>1
    <3>3. Pairs(c, place)'
      BY <2>1, <2>3, <3>1 DEF Pairs
    <3>4. \A i \in DOMAIN replies'[c] : place[i] <= Done(c)'
      BY <2>1, <2>4, <3>1
    <3> QED
      BY <3>2, <3>3, <3>4 DEF Paired
  <2>6. \A d \in Clients \ {c} : Paired(d)'
    BY <2>1, <2>4, Counts, PairedKept
  <2> QED
    BY <2>5, <2>6 DEF PairedSoFar
<1>3. CASE ReadMessage
  <2>1. /\ pc = "read" /\ conn \in Clients /\ inbox[conn] # <<>> /\ conn' = conn /\ pc' = "handle"
        /\ sent' = sent /\ replies' = replies /\ inbox' = [inbox EXCEPT ![conn] = Tail(@)]
    BY <1>3 DEF ReadMessage, MsgIfInv, TypeOK
  <2>2. Len(inbox'[conn]) = Len(inbox[conn]) - 1 /\ Len(inbox[conn]) \in Nat /\ Len(sent[conn]) \in Nat
    <3>1. inbox[conn] \in Seq(Message) /\ sent[conn] \in Seq(Message) /\ inbox'[conn] = Tail(inbox[conn])
      BY <2>1 DEF MsgIfInv, TypeOK
    <3>2. \A q \in Seq(Message) : q # <<>> => Len(Tail(q)) = Len(q) - 1
      OBVIOUS
    <3>3. Len(inbox[conn]) \in Nat /\ Len(sent[conn]) \in Nat
      BY <3>1
    <3> QED
      BY <2>1, <3>1, <3>2, <3>3
  <2>3. Unread(conn)' = Unread(conn) + 1
    <3> DEFINE a == Len(sent[conn])
               b == Len(inbox[conn])
    <3>1. Unread(conn) = a - b /\ Unread(conn)' = a - (b - 1) /\ a \in Nat /\ b \in Nat
      BY <2>1, <2>2 DEF Unread
    <3> HIDE DEF a, b
    <3> QED
      BY <3>1
  <2>4. Done(conn) = Unread(conn) /\ Done(conn)' = Unread(conn)' - 1
    BY <2>1 DEF Done, Handling
  <2>5. Done(conn)' = Done(conn)
    BY <2>1, <2>3, <2>4, Counts
  <2>6. \A d \in Clients \ {conn} : Done(d)' = Done(d)
    <3>1. \A d \in Clients \ {conn} : inbox'[d] = inbox[d]
      BY <2>1 DEF MsgIfInv, TypeOK
    <3> QED
      BY <2>1, <3>1 DEF Done, Unread, Handling
  <2> QED
    BY <2>1, <2>5, <2>6, Counts, PairedKept DEF PairedSoFar
<1>4. CASE Reply
  <2>1. /\ pc = "reply" /\ conn \in Clients /\ pc' = "read" /\ sent' = sent /\ inbox' = inbox
        /\ Accepts(msg) /\ msg = sent[conn][Unread(conn)] /\ Unread(conn) >= 1 /\ msg.id \in Nat
    BY <1>4 DEF Reply, Written, MsgIfInv, TypeOK, AnswerOfHandler, InHand, Handling, Message
  <2>2. \A d \in Clients : Unread(d)' = Unread(d) /\ Done(d)' = Unread(d) /\ Done(d) <= Unread(d)
    BY <2>1, Counts DEF Unread, Done, Handling
  <2>3. replies' = replies \/ replies' = [replies EXCEPT ![conn] = Append(@, msg.id)]
    BY <1>4 DEF Reply
  <2>4. ASSUME NEW d \in Clients, replies'[d] = replies[d] PROVE Paired(d)'
    BY <2>1, <2>2, <2>4, Counts, PairedKept
  <2>5. CASE replies' = [replies EXCEPT ![conn] = Append(@, msg.id)]
    <3>p. PICK c \in Clients : c = conn
      BY <2>1
    <3> DEFINE n == Len(replies[c])
               u == Unread(c)
    <3>1. replies'[c] = Append(replies[c], msg.id) /\ \A d \in Clients \ {c} : replies'[d] = replies[d]
      BY <2>1, <3>p, <2>5 DEF MsgIfInv, TypeOK
    <3>2. PICK place \in [DOMAIN replies[c] -> DOMAIN sent[c]] :
            Pairs(c, place) /\ \A i \in DOMAIN replies[c] : place[i] <= Done(c)
      BY <2>1, <3>p DEF MsgIfInv, PairedSoFar, Paired
    <3>3. /\ n \in Nat /\ DOMAIN replies[c] = 1 .. n /\ DOMAIN replies'[c] = 1 .. n + 1
          /\ replies'[c][n + 1] = msg.id /\ \A i \in 1 .. n : replies'[c][i] = replies[c][i]
      <4>1. replies[c] \in Seq(Nat)
        BY <2>1, <3>p, Counts
      <4> QED
        BY <2>1, <3>p, <3>1, <4>1
    <3>4. u \in Nat /\ u \in DOMAIN sent[c] /\ Done(c) = u - 1
      BY <2>1, <3>p, Counts DEF Done, Handling
    <3>5. \A i \in 1 .. n : place[i] \in DOMAIN sent[c] /\ place[i] \in Int /\ place[i] < u
      <4> SUFFICES ASSUME NEW i \in 1 .. n
                   PROVE  place[i] \in DOMAIN sent[c] /\ place[i] \in Int /\ place[i] < u
        OBVIOUS
      <4>1. place[i] \in DOMAIN sent[c] /\ place[i] <= Done(c)
        BY <3>2, <3>3
      <4>2. place[i] \in Int
        BY <4>1, Counts
      <4> HIDE DEF n, u
      <4> QED
        BY <3>4, <4>1, <4>2
    <3>g. PICK grown : grown = [i \in 1 .. n + 1 |-> IF i = n + 1 THEN u ELSE place[i]]
      OBVIOUS
    <3> HIDE DEF n, u
    <3>6. /\ DOMAIN grown = 1 .. n + 1 /\ grown[n + 1] = u
          /\ \A i \in 1 .. n : grown[i] = place[i]
      BY <3>3, <3>g
    <3>7. grown \in [1 .. n + 1 -> DOMAIN sent[c]]
      BY <3>3, <3>4, <3>5, <3>g
    <3>8. \A i \in 1 .. n + 1 : Accepts(sent[c][grown[i]]) /\ sent[c][grown[i]].id = replies'[c][i]
      <4>1. \A i \in 1 .. n : Accepts(sent[c][grown[i]]) /\ sent[c][grown[i]].id = replies'[c][i]
        BY <3>2, <3>3, <3>6 DEF Pairs
      <4>2. Accepts(sent[c][grown[n + 1]]) /\ sent[c][grown[n + 1]].id = replies'[c][n + 1]
        BY <2>1, <3>p, <3>3, <3>6 DEF u
      <4> QED
        BY <3>3, <4>1, <4>2
    <3>9. \A i, j \in 1 .. n + 1 : i < j => grown[i] < grown[j]
      <4> SUFFICES ASSUME NEW i \in 1 .. n + 1, NEW j \in 1 .. n + 1, i < j PROVE grown[i] < grown[j]
        OBVIOUS
      <4>1. i \in 1 .. n
        BY <3>3
      <4>2. CASE j = n + 1
        BY <3>5, <3>6, <4>1, <4>2
      <4>3. CASE j \in 1 .. n
        BY <3>2, <3>3, <3>6, <4>1, <4>3 DEF Pairs
      <4> QED
        BY <3>3, <4>2, <4>3
    <3>10. Pairs(c, grown)'
      BY <2>1, <3>6, <3>8, <3>9 DEF Pairs
    <3>11. \A i \in 1 .. n + 1 : grown[i] <= u
      <4>1. \A i \in 1 .. n : grown[i] <= u
        BY <3>4, <3>5, <3>6
      <4> QED
        BY <3>3, <3>4, <3>6, <4>1
    <3>12. Done(c)' = u
      BY <2>2, <3>p DEF u
    <3>13. Paired(c)'
      BY <2>1, <3>3, <3>6, <3>7, <3>10, <3>11, <3>12 DEF Paired
    <3>14. \A d \in Clients \ {c} : Paired(d)'
      BY <2>4, <3>1
    <3> QED
      BY <3>13, <3>14 DEF PairedSoFar
  <2> QED
    BY <2>3, <2>4, <2>5 DEF PairedSoFar
<1>5. ASSUME UNCHANGED <<sent, inbox, replies>>,
             (conn' = conn /\ Handling' = Handling /\ msg' = msg) \/ ~Handling'
      PROVE  PairedSoFar'
  <2>1. \A c \in Clients : Unread(c)' = Unread(c)
    BY <1>5 DEF Unread
  <2>2. \A c \in Clients : Done(c)' \in Int /\ Done(c) <= Done(c)'
    BY <1>5, <2>1, Counts DEF Done
  <2> QED
    BY <1>5, <2>2, PairedKept DEF PairedSoFar
<1> QED
  BY <1>1, <1>2, <1>3, <1>4, <1>5, ClientCases

-----------------------------------------------------------------------------
LEMMA InitMsgIfInv == Init => MsgIfInv
<1> SUFFICES ASSUME Init PROVE MsgIfInv
  OBVIOUS
<1> USE DEF Init
<1>1. \A c \in Clients : sent[c] = <<>> /\ inbox[c] = <<>> /\ replies[c] = <<>>
  OBVIOUS
<1>2. TypeOK
  <2>1. NoMessage \in Message /\ NoAnswer \in Answer
    BY DEF NoMessage, Message, NoAnswer, Answer
  <2>2. 0 \in 0 .. FdLimit
    BY MsgIfAssumption
  <2>3. /\ sent \in [Clients -> Seq(Message)] /\ inbox \in [Clients -> Seq(Message)]
        /\ replies \in [Clients -> Seq(Nat)] /\ queue \in Seq(Clients) /\ returned \in Seq(Int)
    OBVIOUS
  <2> QED
    BY <2>1, <2>2, <2>3 DEF TypeOK
<1>3. MessagesAsk
  BY <1>1 DEF MessagesAsk, Handling
<1>4. InboxIsRest
  BY <1>1 DEF InboxIsRest, Rest
<1>5. PairedSoFar
  <2> SUFFICES ASSUME NEW c \in Clients PROVE Paired(c)
    BY DEF PairedSoFar
  <2>1. [i \in {} |-> i] \in [{} -> {}]
    OBVIOUS
  <2>2. PICK place \in [{} -> {}] : TRUE
    BY <2>1
  <2>3. DOMAIN sent[c] = {} /\ DOMAIN replies[c] = {} /\ DOMAIN place = {}
    BY <1>1
  <2> QED
    BY <2>3 DEF Paired, Pairs
<1> QED
  BY <1>2, <1>3, <1>4, <1>5 DEF MsgIfInv, SocketIsOpen, AnswerOfHandler, InHand, Handling

LEMMA MsgIfInvHolds == Spec => []MsgIfInv
<1>1. MsgIfInv /\ [Next]_vars => MsgIfInv'
  BY TypeStep, MessagesStep, SocketStep, AnswerStep, InboxStep, PairedStep DEF MsgIfInv
<1> QED
  BY InitMsgIfInv, <1>1, PTL DEF Spec

(* The server's place, descriptors, messages and answers keep their form,  *)
(* and it has a client exactly where it serves one.                        *)
THEOREM MsgIfTypeCorrect == Spec => []TypeOK
BY MsgIfInvHolds, PTL DEF MsgIfInv

(* Replies come in the order of a client's own requests, at most one each, *)
(* and none to a request that is rejected.                                 *)
THEOREM RepliesAreToRequests == Spec => []RepliesPair
<1>1. MsgIfInv => RepliesPair
  BY DEF MsgIfInv, PairedSoFar, Paired, RepliesPair
<1> QED
  BY <1>1, MsgIfInvHolds, PTL

(* A reply has a result for each record it counts, and the result tells    *)
(* whether the library did what the record asks, with the record's own     *)
(* data; a write of message 111 after the first record is excepted.        *)
THEOREM RepliesTellResults == Spec => []ResultsTell
<1>1. MsgIfInv => ResultsTell
  <2> SUFFICES ASSUME MsgIfInv, pc = "reply", msg.id \notin {101, 103, 109, 112}
               PROVE  ResultsTell
    BY DEF ResultsTell
  <2>1. /\ msg \in Requests /\ Accepts(msg)
        /\ returned \in [DOMAIN msg.asks -> Failures(msg.id) \cup {ResultSuccess}]
        /\ answer = Handler(msg.id, msg.asks, returned)
    BY DEF MsgIfInv, MessagesAsk, Handling, AnswerOfHandler
  <2>2. TellsAll(msg.id, msg.asks, returned, answer)
    BY <2>1, HandlerTells
  <2> QED
    BY <2>2 DEF ResultsTell, Tells, TellsAll
<1> QED
  BY <1>1, MsgIfInvHolds, PTL

(* The daemon dies only when it writes to a client that has gone and whose *)
(* end is known to be: it has refused a reply, or it aborted and a read or *)
(* a write has failed; or when it handles a stream that divides by zero.   *)
THEOREM OnlyBrokenPipesKill == Spec => OnlyResetKills
<1>1. MsgIfInv /\ [Next]_vars =>
        [pc # "dead" /\ pc' = "dead" => DeadlyWrite \/ DeadlyStream]_vars
  <2> SUFFICES ASSUME MsgIfInv, Next, pc # "dead", pc' = "dead" PROVE DeadlyWrite \/ DeadlyStream
    OBVIOUS
  <2>1. CASE RunHandler
    BY <2>1, HandlerRuns
  <2>2. CASE ReplyKills
    BY <2>2 DEF ReplyKills, DeadlyWrite
  <2> QED
    BY <2>1, <2>2
       DEF Next, ServerStep, ClientStep, SocketFails, BindFails, Listen, Accept, AcceptError,
           ReadMessage, HangUp, WakeUp, Drop, Reply, ReplyRefused, ReplyFails, Written, Restart,
           Connect, Send, Close, Abort, server
<1> QED
  BY <1>1, MsgIfInvHolds, PTL DEF Spec, OnlyResetKills
=============================================================================
