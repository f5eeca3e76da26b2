----------------------------- MODULE BslCapture -----------------------------
(***************************************************************************)
(* Capture on one card, from the API call to the file: the processes that  *)
(* link libbsl (message 105 of the daemon, or any other program) call      *)
(* bsl_setCaptureStartStop, which borrows a DMA buffer from the driver     *)
(* (module BslCma), starts a thread per capture, and returns; the thread   *)
(* programs the capture engine through the mapped registers, polls it      *)
(* until the buffer is full or the capture is stopped, saves the buffer to *)
(* a file and returns it.  (api/bsl_api.c, api/bsl_device.c)               *)
(*                                                                         *)
(* Registers are shared by all threads and processes without a lock; every *)
(* access to one is a step of its own.  A capture in progress occupies a   *)
(* slot, which stands for its T_DMA_ARG, thread, descriptor and mapping.   *)
(***************************************************************************)
EXTENDS Integers, Sequences

CONSTANTS
  Callers,      \* the processes
  Ports,        \* ports of the card, a subset of 0..3
  Slots,        \* bound: captures in progress at once
  Loaded,       \* how many buffers the driver may have got (see BslCma)
  MaxEntries,   \* the largest of Loaded
  BufSize,      \* words in a DMA buffer
  UintRange,    \* the number of values of the 32-bit writesize
  Faults,       \* what may go wrong, a subset of AllFaults
  Crashes,      \* whether processes may die
  SleepCovers,  \* whether sleep(1) in start_dma outlasts the thread's start
  ClientWaits   \* whether a port is started only when its last capture is over

(* A mapping, a thread or a file that cannot be had; a write that is cut   *)
(* short; an address register that reads 0 after it was loaded; and a      *)
(* bsl_clearDmaBuffer that fails or is for another card.                   *)
AllFaults == {"devmem", "thread", "file", "write", "readback", "clear"}

ASSUME CaptureAssumption ==
  /\ Ports \subseteq 0 .. 3
  /\ BufSize \in Nat \ {0} /\ UintRange \in Nat \ {0}
  /\ Faults \subseteq AllFaults
  /\ {Crashes, SleepCovers, ClientWaits} \subseteq BOOLEAN
ASSUME PoolAssumption ==
  /\ MaxEntries \in Nat
  /\ Loaded \subseteq 1 .. MaxEntries
  /\ Loaded # {}

VARIABLES
  list, inuse, call, held, spoilt,  \* the driver's pool: see BslCma
  api,      \* what the API thread of each process is doing
  session,  \* the captures in progress
  local,    \* the address and size variables of each bsl_process_dma
  ccfr,     \* CCFR of each port: whether its capture engine is on
  cxar,     \* the DMA address registers
  stored,   \* history: words the engines put in a buffer since it was loaded
  skipped   \* history: marks that a process found when it started uncleared

DebugNodes == FALSE
Pool == INSTANCE BslCma

poolVars == <<list, inuse, call, held, spoilt>>
vars == <<list, inuse, call, held, spoilt, api, session, local, ccfr, cxar, stored, skipped>>

Numbers == 1 .. MaxEntries
Registers == {"C0AR", "C3AR", "C5AR", "C7AR"}

(* The address register of a port's engine, as bsl_register.h gives it.    *)
CXAR(port) ==
  CASE port = 0 -> "C0AR" [] port = 1 -> "C3AR" [] port = 2 -> "C5AR" [] port = 3 -> "C7AR"

(* The one bsl_process_dma uses. *)
ThreadCXAR(port) == IF port = 0 THEN "C0AR" ELSE "C3AR"

(* Bus addresses: buffers are disjoint, and an address one past the end of *)
(* a buffer is in no other.                                                *)
Stride == BufSize + 1
Base(b) == b * Stride
BufferAt(addr) == addr \div Stride
HasRoom(addr) == addr % Stride < BufSize

NoSlot == [pc |-> "none", proc |-> "none", port |-> 0, buf |-> 0]
NoLocals == [ini |-> 0, seen |-> 0, size |-> 0, file |-> 0]
Starting == {"open", "halt", "load", "readback", "arm"}
Running == {"poll", "flag", "last", "disarm", "write", "release"}

Sessions ==
  [pc : {"none", "setup", "leaked"} \cup Starting \cup Running,
   proc : Callers \cup {"none"}, port : Ports \cup {0}, buf : Numbers \cup {0}]
(* file is history: the words that got into the output file. *)
Locals == [ini : Int, seen : Int, size : Int, file : Int]
ApiStates ==
  [pc : {"down", "idle", "alloc", "devmem", "create", "sleep"}, slot : Slots \cup {"none"}]
IdleApi == [pc |-> "idle", slot |-> "none"]

TypeOK ==
  /\ Pool!TypeOK
  /\ api \in [Callers -> ApiStates]
  /\ session \in [Slots -> Sessions]
  /\ local \in [Slots -> Locals]
  /\ ccfr \in [Ports -> BOOLEAN]
  /\ cxar \in [Registers -> Int]
  /\ stored \in [Numbers -> Int]
  /\ skipped \subseteq Numbers

Init ==
  /\ Pool!Init
  /\ api = [p \in Callers |-> IdleApi]
  /\ session = [s \in Slots |-> NoSlot]
  /\ local = [s \in Slots |-> NoLocals]
  /\ ccfr = [q \in Ports |-> FALSE]
  /\ cxar = [r \in Registers |-> 0]
  /\ stored = [b \in Numbers |-> 0]
  /\ skipped = {}

-----------------------------------------------------------------------------
(* The API thread: bsl_setCaptureStartStop, bsl_device_setCapture and      *)
(* start_dma.                                                              *)

PortQuiet(port) ==
  \A s \in Slots : session[s].port = port => session[s].pc \in {"none", "leaked"}

(* With a single buffer the pool itself keeps captures apart; with more,   *)
(* ClientWaits is an assumption about the clients.                         *)
MayStart(port) == ClientWaits => Len(list) = 1 \/ PortQuiet(port)

(* Start: the device is opened and its registers are mapped. *)
StartRequest(p, s, port) ==
  /\ api[p].pc = "idle"
  /\ session[s].pc = "none"
  /\ MayStart(port)
  /\ session' = [session EXCEPT ![s] =
                   [pc |-> "setup", proc |-> p, port |-> port, buf |-> 0]]
  /\ api' = [api EXCEPT ![p] = [pc |-> "alloc", slot |-> s]]
  /\ UNCHANGED <<poolVars, local, ccfr, cxar, stored, skipped>>

(* The ioctl CMD_PHY_MEM_ALLOC, step by step. *)
AllocScan(p) ==
  /\ api[p].pc = "alloc"
  /\ Pool!Scan(p)
  /\ UNCHANGED <<api, session, local, ccfr, cxar, stored, skipped>>

AllocCheck(p) ==
  /\ api[p].pc = "alloc"
  /\ Pool!CheckFree(p)
  /\ UNCHANGED <<api, session, local, ccfr, cxar, stored, skipped>>

(* No buffer: close_fd gives the mapping and the descriptor back. *)
AllocRefused(p) ==
  /\ api[p].pc = "alloc"
  /\ Pool!ReportFull(p)
  /\ session' = [session EXCEPT ![api[p].slot] = NoSlot]
  /\ api' = [api EXCEPT ![p] = IdleApi]
  /\ UNCHANGED <<local, ccfr, cxar, stored, skipped>>

AllocDone(p) ==
  /\ api[p].pc = "alloc"
  /\ Pool!MarkInuse(p)
  /\ session' = [session EXCEPT ![api[p].slot].buf = call[p].alloc]
  /\ api' = [api EXCEPT ![p].pc = "devmem"]
  /\ UNCHANGED <<local, ccfr, cxar, stored, skipped>>

(* A call between the allocation and the thread fails: close_fd does not   *)
(* free the buffer, which stays marked in the driver.                      *)
StartFails(p, fault) ==
  /\ fault \in Faults
  /\ session' = [session EXCEPT ![api[p].slot].pc = "leaked"]
  /\ api' = [api EXCEPT ![p] = IdleApi]

(* The mapping of the buffer through /dev/mem. *)
MapDevMem(p) ==
  /\ api[p].pc = "devmem"
  /\ \/ /\ api' = [api EXCEPT ![p].pc = "create"]
        /\ UNCHANGED session
     \/ StartFails(p, "devmem")
  /\ UNCHANGED <<poolVars, local, ccfr, cxar, stored, skipped>>

CreateThread(p) ==
  /\ api[p].pc = "create"
  /\ \/ /\ session' = [session EXCEPT ![api[p].slot].pc = "open"]
        /\ api' = [api EXCEPT ![p].pc = "sleep"]
     \/ StartFails(p, "thread")
  /\ UNCHANGED <<poolVars, local, ccfr, cxar, stored, skipped>>

(* Wake as it would be if start_dma joined the thread. *)
Wake_Join(p) ==
  /\ api[p].pc = "sleep"
  /\ session[api[p].slot].pc \in {"none", "leaked"}
  /\ api' = [api EXCEPT ![p] = IdleApi]
  /\ UNCHANGED <<poolVars, session, local, ccfr, cxar, stored, skipped>>

(* The end of sleep(1).  With SleepCovers the thread has switched its      *)
(* engine on by then, if it got that far.                                  *)
Wake(p) ==
  /\ api[p].pc = "sleep"
  /\ LET s == session[api[p].slot]
     IN SleepCovers /\ s.proc = p => s.pc \notin Starting
  /\ api' = [api EXCEPT ![p] = IdleApi]
  /\ UNCHANGED <<poolVars, session, local, ccfr, cxar, stored, skipped>>

(* Stop: stop_dma clears CCFR; the thread of the capture finds out when it *)
(* polls.  The descriptor and mapping of this call are released.           *)
StopRequest(p, port) ==
  /\ api[p].pc = "idle"
  /\ ccfr' = [ccfr EXCEPT ![port] = FALSE]
  /\ UNCHANGED <<poolVars, api, session, local, cxar, stored, skipped>>

-----------------------------------------------------------------------------
(* The capture thread: bsl_process_dma *)

At(s, pc) == session[s].pc = pc
Goto(s, pc) == session' = [session EXCEPT ![s].pc = pc]
SetEngine(s, on) == ccfr' = [ccfr EXCEPT ![session[s].port] = on]

(* The output file; when it cannot be opened, close_func frees only the    *)
(* structures of the thread: buffer, descriptor and mapping are leaked.    *)
OpenFile(s) ==
  /\ At(s, "open")
  /\ \/ Goto(s, "halt")
     \/ "file" \in Faults /\ Goto(s, "leaked")
  /\ UNCHANGED <<poolVars, api, local, ccfr, cxar, stored, skipped>>

HaltEngine(s) ==
  /\ At(s, "halt")
  /\ SetEngine(s, FALSE)
  /\ Goto(s, "load")
  /\ UNCHANGED <<poolVars, api, local, cxar, stored, skipped>>

LoadAddress(s) ==
  /\ At(s, "load")
  /\ cxar' = [cxar EXCEPT ![ThreadCXAR(session[s].port)] = Base(session[s].buf)]
  /\ stored' = [stored EXCEPT ![session[s].buf] = 0]
  /\ Goto(s, "readback")
  /\ UNCHANGED <<poolVars, api, local, ccfr, skipped>>

(* ini_cxar is what the register returns, not what was written to it:      *)
(* "sometimes 0 is read in development stage".                             *)
ReadBack(s) ==
  /\ At(s, "readback")
  /\ \E ini \in {cxar[ThreadCXAR(session[s].port)]} \cup {z \in {0} : "readback" \in Faults} :
       local' = [local EXCEPT ![s].ini = ini]
  /\ Goto(s, "arm")
  /\ UNCHANGED <<poolVars, api, ccfr, cxar, stored, skipped>>

ArmEngine(s) ==
  /\ At(s, "arm")
  /\ SetEngine(s, TRUE)
  /\ Goto(s, "poll")
  /\ UNCHANGED <<poolVars, api, local, cxar, stored, skipped>>

PollAddress(s) ==
  /\ At(s, "poll")
  /\ local' = [local EXCEPT ![s].seen = cxar[ThreadCXAR(session[s].port)]]
  /\ Goto(s, "flag")
  /\ UNCHANGED <<poolVars, api, ccfr, cxar, stored, skipped>>

Full(s) == local[s].seen >= local[s].ini + BufSize

(* PollFlag as it would be if the loop ended only on a full buffer. *)
PollFlag_FullOnly(s) ==
  /\ At(s, "flag")
  /\ Goto(s, IF Full(s) THEN "last" ELSE "poll")
  /\ local' = [local EXCEPT ![s].seen = 0]
  /\ UNCHANGED <<poolVars, api, ccfr, cxar, stored, skipped>>

PollFlag(s) ==
  /\ At(s, "flag")
  /\ Goto(s, IF Full(s) \/ ~ccfr[session[s].port] THEN "last" ELSE "poll")
  /\ local' = [local EXCEPT ![s].seen = 0]
  /\ UNCHANGED <<poolVars, api, ccfr, cxar, stored, skipped>>

(* ReadLast as it would be if the size came from the poll before. *)
ReadLast_Whole(s) ==
  /\ At(s, "last")
  /\ local' = [local EXCEPT ![s].size = BufSize % UintRange]
  /\ Goto(s, "disarm")
  /\ UNCHANGED <<poolVars, api, ccfr, cxar, stored, skipped>>

(* writesize = cxar - ini_cxar, in an unsigned int. *)
ReadLast(s) ==
  /\ At(s, "last")
  /\ LET words == cxar[ThreadCXAR(session[s].port)] - local[s].ini
     IN local' = [local EXCEPT ![s].size = words % UintRange]
  /\ Goto(s, "disarm")
  /\ UNCHANGED <<poolVars, api, ccfr, cxar, stored, skipped>>

(* DisarmEngine as it would be without the write to CCFR. *)
DisarmEngine_Forgotten(s) ==
  /\ At(s, "disarm")
  /\ Goto(s, "write")
  /\ UNCHANGED <<poolVars, api, local, ccfr, cxar, stored, skipped>>

DisarmEngine(s) ==
  /\ At(s, "disarm")
  /\ SetEngine(s, FALSE)
  /\ Goto(s, "write")
  /\ UNCHANGED <<poolVars, api, local, cxar, stored, skipped>>

(* size words of the buffer go to the file.  When fewer do, or none, that  *)
(* is logged and the thread goes on.                                       *)
WriteFile(s) ==
  /\ At(s, "write")
  /\ \E n \in {local[s].size} \cup {k \in 0 .. local[s].size : "write" \in Faults} :
       local' = [local EXCEPT ![s].file = n]
  /\ Goto(s, "release")
  /\ UNCHANGED <<poolVars, api, ccfr, cxar, stored, skipped>>

(* CMD_PHY_MEM_FREE, the mapping and the descriptor; the conversion of the *)
(* file by bsl_toPcap works on nothing shared.                             *)
Release(s) ==
  /\ At(s, "release")
  /\ Pool!FreeOne(session[s].proc, session[s].buf)
  /\ session' = [session EXCEPT ![s] = NoSlot]
  /\ local' = [local EXCEPT ![s] = NoLocals]
  /\ UNCHANGED <<api, ccfr, cxar, stored, skipped>>

-----------------------------------------------------------------------------
(* The capture engine of a port (the FPGA): while CCFR is on it stores     *)
(* words at its address register, which advances, to the end of the buffer.*)
Engine(port) ==
  LET r == CXAR(port) IN
  /\ ccfr[port]
  /\ HasRoom(cxar[r])
  /\ cxar' = [cxar EXCEPT ![r] = @ + 1]
  /\ stored' = [b \in Numbers |-> stored[b] + IF b = BufferAt(cxar[r]) THEN 1 ELSE 0]
  /\ UNCHANGED <<poolVars, api, session, local, ccfr, skipped>>

(* A process dies.  The kernel closes its descriptors and mappings; the    *)
(* registers and the marks of its buffers stay.                            *)
Crash(p) ==
  /\ Crashes
  /\ api[p].pc # "down"
  /\ Pool!Exit(p)
  /\ session' = [s \in Slots |-> IF session[s].proc = p THEN NoSlot ELSE session[s]]
  /\ local' = [s \in Slots |-> IF session[s].proc = p THEN NoLocals ELSE local[s]]
  /\ api' = [api EXCEPT ![p] = [pc |-> "down", slot |-> "none"]]
  /\ UNCHANGED <<ccfr, cxar, stored, skipped>>

(* Restart as it would be if main did not call bsl_clearDmaBuffer. *)
Restart_NoClear(p) ==
  /\ api[p].pc = "down"
  /\ api' = [api EXCEPT ![p] = IdleApi]
  /\ UNCHANGED <<poolVars, session, local, ccfr, cxar, stored, skipped>>

(* main calls bsl_clearDmaBuffer before it serves, for the one card of its *)
(* command line, and does not look at the result.                          *)
Restart(p) ==
  /\ api[p].pc = "down"
  /\ \/ Pool!FreeAll(p) /\ skipped' = {}
     \/ /\ "clear" \in Faults
        /\ skipped' = skipped \cup {b \in Numbers : inuse[b]}
        /\ UNCHANGED poolVars
  /\ api' = [api EXCEPT ![p] = IdleApi]
  /\ UNCHANGED <<session, local, ccfr, cxar, stored>>

-----------------------------------------------------------------------------
(* The API thread inside a start request. *)
ApiStep(p) ==
  \/ AllocScan(p) \/ AllocCheck(p) \/ AllocRefused(p) \/ AllocDone(p)
  \/ MapDevMem(p) \/ CreateThread(p) \/ Wake(p)

ThreadStep(s) ==
  \/ OpenFile(s) \/ HaltEngine(s) \/ LoadAddress(s) \/ ReadBack(s) \/ ArmEngine(s)
  \/ PollAddress(s) \/ PollFlag(s) \/ ReadLast(s) \/ DisarmEngine(s)
  \/ WriteFile(s) \/ Release(s)

Requests(p) ==
  \/ \E s \in Slots, port \in Ports : StartRequest(p, s, port)
  \/ \E port \in Ports : StopRequest(p, port)

Next ==
  \/ \E p \in Callers : Requests(p) \/ ApiStep(p) \/ Crash(p) \/ Restart(p)
  \/ \E s \in Slots : ThreadStep(s)
  \/ \E port \in Ports : Engine(port)

Spec == Init /\ [][Next]_vars

(* Threads are scheduled; neither requests nor traffic ever have to come.  *)
Fairness ==
  /\ \A p \in Callers : WF_vars(ApiStep(p))
  /\ \A s \in Slots : WF_vars(ThreadStep(s))

FairSpec == Spec /\ Fairness

-----------------------------------------------------------------------------
(* Properties *)

Live == Starting \cup Running

(* When the address register was read back right, what a capture writes to *)
(* its file (bsl_device.c:3097) is exactly what the engine stored in the   *)
(* buffer since the capture loaded it: nothing of another capture or of    *)
(* stale memory, and nothing cut off but by a write that fell short, which *)
(* leaves the beginning.                                                   *)
FileHoldsCapture ==
  \A s \in Slots : local[s].ini = Base(session[s].buf) =>
    /\ At(s, "write") => local[s].size = stored[session[s].buf]
    /\ At(s, "release") =>
         /\ local[s].file \in 0 .. stored[session[s].buf]
         /\ "write" \notin Faults => local[s].file = stored[session[s].buf]

(* An engine that is on writes into the buffer of a capture of its own     *)
(* port that is in progress: never into a buffer that was returned to the  *)
(* pool, or that another port is capturing into.                           *)
EngineConfined ==
  \A port \in Ports : ccfr[port] =>
    \E s \in Slots :
      /\ session[s].pc \in Live
      /\ session[s].port = port
      /\ session[s].buf = BufferAt(cxar[CXAR(port)])

(* Whenever all processes are up, a buffer marked in the driver belongs to *)
(* a capture (a leaked one included) or was marked already when a process  *)
(* started without clearing the marks: what a crash leaves marked has been *)
(* recovered by the time the daemon serves again, if bsl_main.c:76 did it. *)
MarksAccounted ==
  (\A p \in Callers : api[p].pc # "down") =>
    \A b \in Numbers : inuse[b] => b \in skipped \/ \E s \in Slots : session[s].buf = b

(* The captures share the buffers as BslLease says. *)
Lease == INSTANCE BslLease WITH
  Holders <- Slots, Buffers <- Numbers, None <- 0,
  lease <- [s \in Slots |-> session[s].buf]
ImplementsLease == Lease!Spec

(* A capture whose engine is switched off while it polls ends, its file is *)
(* written and its buffer returned (the loop of bsl_device.c:3077).        *)
StopEndsCapture ==
  \A s \in Slots :
    session[s].pc \in {"poll", "flag"} /\ ~ccfr[session[s].port] ~> At(s, "none")

(* A start request always returns to the message loop. *)
StartReturns ==
  \A p \in Callers : api[p].pc \notin {"idle", "down"} ~> api[p].pc \in {"idle", "down"}
=============================================================================
