------------------------------ MODULE BslMsgIf ------------------------------
(***************************************************************************)
(* The message server of the daemon (api/bsl_msgif.c, api/bsl_socket.c,    *)
(* the loop of app/bsl_main.c): one thread that listens on a TCP port,     *)
(* accepts one client, reads and handles its messages until it hangs up,   *)
(* closes the listening socket, sleeps and begins again.                   *)
(*                                                                         *)
(* A client here is a connection and those that follow it from the same    *)
(* place, one at a time.  TCP delivers its messages whole and in order; a  *)
(* client may close or abort its connection, also in the middle of the     *)
(* body of its last message.  What the handlers do and say is in           *)
(* BslHandlers.                                                            *)
(***************************************************************************)
EXTENDS BslHandlers, SequencesExt

CONSTANTS
  Clients,
  Messages,   \* Messages[c]: what client c sends, of the form Message below
  MaxSent,    \* bound: MaxSent[c], its messages on one connection
  FdLimit,    \* descriptors the process may have for sockets
  AcceptFails \* whether accept may fail for a reason other than FdLimit

None == "none"
Message == [id : Nat, delim : BOOLEAN, whole : BOOLEAN, asks : Seq(Asks)]

ASSUME MsgIfAssumption ==
  /\ None \notin Clients
  /\ \A c \in Clients : \A m \in Messages[c] : m \in Message /\ m.asks # <<>>
  /\ MaxSent \in [Clients -> Nat] /\ FdLimit \in Nat \ {0}
  /\ AcceptFails \in BOOLEAN

VARIABLES
  pc,       \* where the server thread is
  fds,      \* sockets it has open, leaked ones included
  port,     \* who has the TCP port: nobody, the server, or a leaked socket
  queue,    \* connections that wait to be accepted
  conn,     \* the client being served
  reset,    \* whether its connection is known to be broken: the next write kills
  msg,      \* the message being handled
  answer,   \* the handler's answer to it
  returned, \* history: what the library returned to the handler
  closed,   \* the clients that have closed their end
  aborted,  \* those of them whose end has sent a reset
  sent,     \* what each client sent on its connection
  inbox,    \* the part of it that the server has not read
  replies   \* the ids of the replies it got

server == <<pc, fds, port, conn, reset, msg, answer, returned>>
client == <<closed, aborted, sent, inbox, replies>>
vars ==
  <<pc, fds, port, queue, conn, reset, msg, answer, returned, closed, aborted, sent, inbox, replies>>

NoMessage == [id |-> 0, delim |-> FALSE, whole |-> FALSE, asks |-> <<>>]

VALUE_MSGID_OFFSET == 100
VALUE_MAX_MSGIF_ID == 200

(* The indices of bsl_handle_msgif_f_ptr that are not NULL. *)
HandlerTable == (0 .. 6) \cup (8 .. 12)

(* Accepts as it would be if the lower bound were inclusive. *)
Accepts_From100(m) ==
  /\ m.delim
  /\ m.id >= VALUE_MSGID_OFFSET /\ m.id < VALUE_MAX_MSGIF_ID
  /\ m.id - VALUE_MSGID_OFFSET \in HandlerTable

(* The checks of bsl_handle_msg before it calls a handler. *)
Accepts(m) ==
  /\ m.delim
  /\ m.id > VALUE_MSGID_OFFSET /\ m.id < VALUE_MAX_MSGIF_ID
  /\ m.id - VALUE_MSGID_OFFSET \in HandlerTable

Waiting == ToSet(queue)

TypeOK ==
  /\ pc \in {"socket", "accept", "read", "handle", "reply", "sleep", "dead"}
  /\ fds \in 0 .. FdLimit
  /\ port \in {"free", "server", "orphan"}
  /\ queue \in Seq(Clients)
  /\ conn \in Clients \cup {None}
  /\ reset \in BOOLEAN
  /\ msg \in Message
  /\ answer \in Answer /\ returned \in Seq(Int)
  /\ aborted \subseteq closed /\ closed \subseteq Clients
  /\ sent \in [Clients -> Seq(Message)]
  /\ inbox \in [Clients -> Seq(Message)]
  /\ replies \in [Clients -> Seq(Nat)]
  /\ pc \in {"read", "handle", "reply"} <=> conn # None

Init ==
  /\ pc = "socket" /\ fds = 0 /\ port = "free"
  /\ queue = <<>> /\ conn = None /\ reset = FALSE
  /\ msg = NoMessage /\ answer = NoAnswer /\ returned = <<>>
  /\ closed = {} /\ aborted = {}
  /\ sent = [c \in Clients |-> <<>>]
  /\ inbox = [c \in Clients |-> <<>>]
  /\ replies = [c \in Clients |-> <<>>]

-----------------------------------------------------------------------------
(* bsl_open_msg_listen_socket and the loop around it *)

(* No descriptor left: bsl_socket_init fails. *)
SocketFails ==
  /\ pc = "socket"
  /\ fds = FdLimit
  /\ pc' = "sleep"
  /\ UNCHANGED <<fds, port, queue, conn, reset, msg, answer, returned, client>>

(* Another socket has the port: the new one is not closed. *)
BindFails ==
  /\ pc = "socket"
  /\ fds < FdLimit
  /\ port # "free"
  /\ fds' = fds + 1
  /\ pc' = "sleep"
  /\ UNCHANGED <<port, queue, conn, reset, msg, answer, returned, client>>

Listen ==
  /\ pc = "socket"
  /\ fds < FdLimit
  /\ port = "free"
  /\ fds' = fds + 1
  /\ port' = "server"
  /\ pc' = "accept"
  /\ UNCHANGED <<queue, conn, reset, msg, answer, returned, client>>

Accept ==
  /\ pc = "accept"
  /\ queue # <<>>
  /\ fds < FdLimit
  /\ fds' = fds + 1
  /\ conn' = Head(queue)
  /\ queue' = Tail(queue)
  /\ pc' = "read"
  /\ UNCHANGED <<port, reset, msg, answer, returned, client>>

(* AcceptError as it would be if the result of accept were not tested. *)
AcceptError_Unnoticed ==
  /\ pc = "accept"
  /\ queue # <<>>
  /\ fds = FdLimit \/ AcceptFails
  /\ pc' = "read"
  /\ UNCHANGED <<fds, port, queue, conn, reset, msg, answer, returned, client>>

(* The function returns and the listening socket stays open: it goes on to *)
(* hold the port and to take connections that nobody accepts.              *)
AcceptError ==
  /\ pc = "accept"
  /\ queue # <<>>
  /\ fds = FdLimit \/ AcceptFails
  /\ port' = "orphan"
  /\ pc' = "sleep"
  /\ UNCHANGED <<fds, queue, conn, reset, msg, answer, returned, client>>

(* bsl_read_msg: a message whose body was cut short is returned like any   *)
(* other, with the length of its header; when a reset cut it, the failed   *)
(* read has taken the error, and the next write will find a broken pipe.   *)
ReadMessage ==
  /\ pc = "read"
  /\ inbox[conn] # <<>>
  /\ msg' = Head(inbox[conn])
  /\ inbox' = [inbox EXCEPT ![conn] = Tail(@)]
  /\ reset' = (reset \/ (~msg'.whole /\ conn \in aborted))
  /\ pc' = "handle"
  /\ UNCHANGED <<fds, port, queue, conn, answer, returned, closed, aborted, sent, replies>>

(* What a client sent before its end was reset may be lost. *)
Over == conn \in closed /\ (inbox[conn] = <<>> \/ reset \/ conn \in aborted)

(* HangUp as it would be if the loop went on, as the dead continue of      *)
(* line 138 suggests it once did.                                          *)
HangUp_Continue ==
  /\ pc = "read"
  /\ Over
  /\ inbox' = [inbox EXCEPT ![conn] = <<>>]
  /\ UNCHANGED <<server, queue, closed, aborted, sent, replies>>

(* End of file or an error: bsl_read_msg returns NULL and the listening    *)
(* socket is closed, which resets the connections that wait on it.  The    *)
(* descriptor of the client is not closed.                                 *)
HangUp ==
  /\ pc = "read"
  /\ Over
  /\ fds' = fds - 1
  /\ port' = "free"
  /\ queue' = <<>>
  /\ conn' = None
  /\ reset' = FALSE
  /\ pc' = "sleep"
  /\ UNCHANGED <<msg, answer, returned, client>>

WakeUp ==
  /\ pc = "sleep"
  /\ pc' = "socket"
  /\ UNCHANGED <<fds, port, queue, conn, reset, msg, answer, returned, client>>

-----------------------------------------------------------------------------
(* bsl_handle_msg *)

(* A failed check or a handler that fails: no reply. *)
Drop ==
  /\ pc = "handle"
  /\ msg' = NoMessage
  /\ pc' = "read"
  /\ UNCHANGED <<fds, port, queue, conn, reset, answer, returned, client>>

(* The handler returns, whatever the library returns to it for each        *)
(* record, or ends the daemon.                                             *)
RunHandler ==
  /\ pc = "handle"
  /\ Accepts(msg)
  /\ IF Kills(msg.id, msg.asks)
     THEN pc' = "dead" /\ conn' = None /\ UNCHANGED <<msg, answer, returned>>
     ELSE \E rets \in [DOMAIN msg.asks -> Failures(msg.id) \cup {ResultSuccess}] :
            LET said == Handler(msg.id, msg.asks, rets)
            IN /\ IF said.ret # ResultSuccess
                  THEN /\ pc' = "read" /\ msg' = NoMessage
                       /\ UNCHANGED <<answer, returned>>
                  ELSE /\ pc' = "reply" /\ answer' = said /\ returned' = rets
                       /\ UNCHANGED msg
               /\ UNCHANGED conn
  /\ UNCHANGED <<fds, port, queue, reset, client>>

(* The test meant for message 110 sees the id without its offset. *)
SkipsReply(m) == m.id - VALUE_MSGID_OFFSET = 110

(* Every write is the whole reply: sockets block and replies are short.    *)
Written == msg' = NoMessage /\ answer' = NoAnswer /\ returned' = <<>> /\ pc' = "read"

(* Reply as it would be if the loop wrote the reply once more. *)
Reply_Twice ==
  /\ pc = "reply"
  /\ replies' = [replies EXCEPT ![conn] = @ \o <<msg.id, msg.id>>]
  /\ Written
  /\ UNCHANGED <<fds, port, queue, conn, reset, closed, aborted, sent, inbox>>

Reply ==
  /\ pc = "reply"
  /\ SkipsReply(msg) \/ conn \notin closed
  /\ replies' = IF SkipsReply(msg) THEN replies ELSE [replies EXCEPT ![conn] = Append(@, msg.id)]
  /\ Written
  /\ UNCHANGED <<fds, port, queue, conn, reset, closed, aborted, sent, inbox>>

(* To a client that has closed a write succeeds once, and its end answers  *)
(* with a reset.                                                           *)
ReplyRefused ==
  /\ pc = "reply" /\ ~SkipsReply(msg)
  /\ conn \in closed \ aborted /\ ~reset
  /\ reset' = TRUE
  /\ Written
  /\ UNCHANGED <<fds, port, queue, conn, client>>

(* To one that has aborted it fails.  sentlen is unsigned, so that -1 is   *)
(* not <= 0: the loop writes again.                                        *)
ReplyFails ==
  /\ pc = "reply" /\ ~SkipsReply(msg)
  /\ conn \in aborted /\ ~reset
  /\ reset' = TRUE
  /\ UNCHANGED <<pc, fds, port, queue, conn, msg, answer, returned, client>>

(* The write after that raises SIGPIPE, which nobody handles.              *)
ReplyKills ==
  /\ pc = "reply" /\ ~SkipsReply(msg)
  /\ conn \in closed /\ reset
  /\ pc' = "dead" /\ conn' = None
  /\ msg' = NoMessage /\ answer' = NoAnswer /\ returned' = <<>>
  /\ UNCHANGED <<fds, port, queue, reset, client>>

(* Somebody starts the daemon again. *)
Restart ==
  /\ pc = "dead"
  /\ pc' = "socket" /\ fds' = 0 /\ port' = "free"
  /\ queue' = <<>> /\ reset' = FALSE /\ msg' = NoMessage /\ answer' = NoAnswer /\ returned' = <<>>
  /\ UNCHANGED <<conn, client>>

-----------------------------------------------------------------------------
(* The clients *)

Connect(c) ==
  /\ port # "free"
  /\ c # conn /\ c \notin Waiting
  /\ pc # "dead"
  /\ queue' = Append(queue, c)
  /\ closed' = closed \ {c} /\ aborted' = aborted \ {c}
  /\ sent' = [sent EXCEPT ![c] = <<>>]
  /\ inbox' = [inbox EXCEPT ![c] = <<>>]
  /\ replies' = [replies EXCEPT ![c] = <<>>]
  /\ UNCHANGED server

(* A message whose body stays away is the last: the client closes or       *)
(* aborts.                                                                 *)
Send(c, m) ==
  /\ c = conn \/ c \in Waiting
  /\ c \notin closed
  /\ Len(sent[c]) < MaxSent[c]
  /\ sent' = [sent EXCEPT ![c] = Append(@, m)]
  /\ inbox' = [inbox EXCEPT ![c] = Append(@, m)]
  /\ IF m.whole THEN UNCHANGED <<closed, aborted>>
     ELSE closed' = closed \cup {c} /\ aborted' \in {aborted, aborted \cup {c}}
  /\ UNCHANGED <<server, queue, replies>>

Close(c) ==
  /\ c = conn \/ c \in Waiting
  /\ c \notin closed
  /\ closed' = closed \cup {c}
  /\ UNCHANGED <<server, queue, aborted, sent, inbox, replies>>

(* The end of a process that has replies it did not read, or SO_LINGER.    *)
Abort(c) ==
  /\ c = conn \/ c \in Waiting
  /\ c \notin closed
  /\ closed' = closed \cup {c} /\ aborted' = aborted \cup {c}
  /\ UNCHANGED <<server, queue, sent, inbox, replies>>

ServerStep ==
  \/ SocketFails \/ BindFails \/ Listen \/ Accept \/ AcceptError
  \/ ReadMessage \/ HangUp \/ WakeUp \/ Drop \/ RunHandler
  \/ Reply \/ ReplyRefused \/ ReplyFails \/ ReplyKills

ClientStep(c) == Connect(c) \/ Close(c) \/ Abort(c) \/ \E m \in Messages[c] : Send(c, m)

Next == ServerStep \/ Restart \/ \E c \in Clients : ClientStep(c)

Spec == Init /\ [][Next]_vars

(* The server thread is scheduled; clients owe nothing. *)
FairSpec == Spec /\ WF_vars(ServerStep)

-----------------------------------------------------------------------------
(* Properties *)

(* The replies a client got are, in order, to requests of its own that     *)
(* bsl_handle_msg accepts: place tells which.                              *)
Pairs(c, place) ==
  /\ \A i \in DOMAIN place :
       Accepts(sent[c][place[i]]) /\ sent[c][place[i]].id = replies[c][i]
  /\ \A i, j \in DOMAIN place : i < j => place[i] < place[j]

(* A client can pair the replies with its requests: they come in the order *)
(* of the requests, at most one each, and none to a request that           *)
(* bsl_handle_msg rejects or that another client sent.                     *)
RepliesPair ==
  \A c \in Clients : \E place \in [DOMAIN replies[c] -> DOMAIN sent[c]] : Pairs(c, place)

(* A client can tell from a reply what became of its requests: there is a  *)
(* result for each record that the reply counts, and it is one of success, *)
(* namely the one that belongs to what was asked, exactly if the library   *)
(* did what this record asks, with its own data.  Not for 101, 103, 109    *)
(* and 112, see their handlers; of 106 the result for everything being     *)
(* enabled is also that of a port out of range; and a write of 111 after   *)
(* the first record is told as a success whatever value was written        *)
(* (bsl_msg_handle.c:1740).                                                *)
Tells(i) ==
  /\ ~(msg.id = 106 /\ msg.asks[i] = "all")
  /\ ~(msg.id = 111 /\ msg.asks[i] # "read" /\ i > 1)
ResultsTell ==
  pc = "reply" /\ msg.id \notin {101, 103, 109, 112} =>
    /\ Len(answer.results) = answer.counted
    /\ answer.counted = IF msg.id \in {102, 110} THEN 1 ELSE Len(msg.asks)
    /\ \A i \in DOMAIN answer.results : Tells(i) =>
         (answer.results[i] = Told(msg.id, msg.asks[i]) <=>
            returned[i] = ResultSuccess /\ answer.did[i] = {i})

(* No client that closes its connection in order kills the daemon with one *)
(* reply: it dies only when it writes to a client that has aborted, or to  *)
(* one that has closed and has refused an earlier reply (bsl_msgif.c:209), *)
(* and of a stream that its handler does not survive.                      *)
DeadlyWrite == pc = "reply" /\ conn \in closed /\ reset
DeadlyStream == pc = "handle" /\ msg.id = 110 /\ Kills(msg.id, msg.asks)
OnlyResetKills == [][pc # "dead" /\ pc' = "dead" => DeadlyWrite \/ DeadlyStream]_vars

(* After a client has closed, the daemon listens for the next one, unless  *)
(* it died, ran out of descriptors, or lost its port to a socket that it   *)
(* left open.                                                              *)
ListensAgain ==
  pc # "dead" /\ conn \in closed
    ~> pc \in {"accept", "dead"} \/ fds = FdLimit \/ port = "orphan"

(* For message 110 no response is sent (the comment of bsl_msgif.c:208).   *)
NoReplyTo110 == \A c \in Clients : \A i \in DOMAIN replies[c] : replies[c][i] # 110
=============================================================================
