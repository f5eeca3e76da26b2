-------------------------- MODULE BslCaptureProofs --------------------------
(***************************************************************************)
(* Proofs about BslCapture: with one allocating process the captures share *)
(* the DMA buffers as BslLease promises, whatever calls fail and whenever  *)
(* processes die.  What a crash leaves marked is recovered when the marks  *)
(* are cleared (MarksAccounted, any number of processes); and with one     *)
(* process that does not die and starts a port again only when its last    *)
(* capture is over, on ports whose address register bsl_process_dma knows, *)
(* the engines keep to the buffers of their captures (EngineConfined) and  *)
(* the files are what was captured (FileHoldsCapture).                     *)
(***************************************************************************)
EXTENDS BslCapture, TLAPS

PoolTheorems == INSTANCE BslCmaProofs

(* The two instances of BslCma are the same. *)
LEMMA SameInit == PoolTheorems!Init <=> Pool!Init
BY DEF PoolTheorems!Init, Pool!Init, PoolTheorems!NoCall, Pool!NoCall,
       PoolTheorems!Numbers, Pool!Numbers

LEMMA SameNext == [PoolTheorems!Next]_(PoolTheorems!cmaVars) <=> [Pool!Next]_(Pool!cmaVars)
BY DEF PoolTheorems!Next, Pool!Next, PoolTheorems!cmaVars, Pool!cmaVars,
       PoolTheorems!NoCall, Pool!NoCall, PoolTheorems!Numbers, Pool!Numbers,
       PoolTheorems!Entries, Pool!Entries, PoolTheorems!FreeEntries, Pool!FreeEntries,
       PoolTheorems!OnLoan, Pool!OnLoan, PoolTheorems!Inside, Pool!Inside,
       PoolTheorems!ScanEndsAt, Pool!ScanEndsAt, PoolTheorems!Found, Pool!Found,
       PoolTheorems!InuseRead, Pool!InuseRead, PoolTheorems!Grant, Pool!Grant,
       PoolTheorems!Scan, Pool!Scan, PoolTheorems!ReportFull, Pool!ReportFull,
       PoolTheorems!CheckFree, Pool!CheckFree, PoolTheorems!MarkInuse, Pool!MarkInuse,
       PoolTheorems!FreeOne, Pool!FreeOne, PoolTheorems!FreeAll, Pool!FreeAll,
       PoolTheorems!Exit, Pool!Exit, PoolTheorems!cma_test_read, Pool!cma_test_read,
       PoolTheorems!cma_test_write, Pool!cma_test_write

LEMMA SameTypeOK == PoolTheorems!TypeOK <=> Pool!TypeOK
BY DEF PoolTheorems!TypeOK, Pool!TypeOK, PoolTheorems!Calls, Pool!Calls,
       PoolTheorems!Numbers, Pool!Numbers, PoolTheorems!Entries, Pool!Entries,
       PoolTheorems!OnLoan, Pool!OnLoan

(* Nobody uses the device node here: no pointer dangles, and the buffers   *)
(* that calls and processes know are on the list.                          *)
KnownListed ==
  \A c \in Callers :
    /\ call[c].pc \in {"check", "mark"} => call[c].alloc \in Pool!Entries
    /\ held[c] \subseteq Pool!Entries

OneCaller == \A c, d \in Callers : c = d

(* TypeOK without the driver's part, which BslCmaProofs proves.            *)
TypesHere ==
  /\ api \in [Callers -> ApiStates]
  /\ session \in [Slots -> Sessions]
  /\ local \in [Slots -> Locals]
  /\ ccfr \in [Ports -> BOOLEAN]
  /\ cxar \in [Registers -> Int]
  /\ stored \in [Numbers -> Int]
  /\ skipped \subseteq Numbers

(* An API thread inside a start request works on a capture of its own that *)
(* has no thread yet, and that gets its buffer when the ioctl returns.     *)
StartOwnsSlot ==
  \A p \in Callers : api[p].pc \in {"alloc", "devmem", "create"} =>
    /\ api[p].slot \in Slots
    /\ session[api[p].slot].pc = "setup"
    /\ session[api[p].slot].proc = p
    /\ session[api[p].slot].buf = 0 <=> api[p].pc = "alloc"

(* A capture belongs to a process, and one with a thread has a buffer.     *)
Occupied ==
  \A s \in Slots :
    /\ session[s].pc = "none" => session[s].buf = 0
    /\ session[s].pc # "none" => session[s].proc \in Callers
    /\ session[s].pc \in Live => session[s].buf # 0

(* The buffer a capture has is on loan to its process.                     *)
SessionsHold ==
  \A s \in Slots : session[s].buf # 0 => session[s].buf \in held[session[s].proc]

(* No two captures have the same buffer. *)
BuffersApart ==
  \A s, t \in Slots : session[s].buf # 0 /\ session[s].buf = session[t].buf => s = t

-----------------------------------------------------------------------------
(* What a thread step other than Release can change. *)

Moves(s) ==
  /\ session[s].pc \in Live
  /\ session' \in [Slots -> Sessions]
  /\ \A t \in Slots \ {s} : session'[t] = session[t]
  /\ session'[s].pc \in Live \cup {"leaked"}
  /\ session'[s].proc = session[s].proc
  /\ session'[s].buf = session[s].buf
  /\ UNCHANGED <<list, inuse, call, held, spoilt, api, skipped>>

LEMMA ThreadMoves ==
  ASSUME TypesHere, NEW s \in Slots, ThreadStep(s)
  PROVE  Moves(s) \/ Release(s)
<1> USE DEF TypesHere, Sessions, Moves, Live, Starting, Running, At, Goto, poolVars
<1>1. CASE OpenFile(s)
  BY <1>1 DEF OpenFile
<1>2. CASE HaltEngine(s)
  BY <1>2 DEF HaltEngine
<1>3. CASE LoadAddress(s)
  BY <1>3 DEF LoadAddress
<1>4. CASE ReadBack(s)
  BY <1>4 DEF ReadBack
<1>5. CASE ArmEngine(s)
  BY <1>5 DEF ArmEngine
<1>6. CASE PollAddress(s)
  BY <1>6 DEF PollAddress
<1>7. CASE PollFlag(s)
  <2>1. CASE Full(s) \/ ~ccfr[session[s].port]
    BY <1>7, <2>1 DEF PollFlag
  <2>2. CASE ~(Full(s) \/ ~ccfr[session[s].port])
    BY <1>7, <2>2 DEF PollFlag
  <2> QED
    BY <2>1, <2>2
<1>8. CASE ReadLast(s)
  BY <1>8 DEF ReadLast
<1>9. CASE DisarmEngine(s)
  BY <1>9 DEF DisarmEngine
<1>10. CASE WriteFile(s)
  BY <1>10 DEF WriteFile
<1> QED
  BY <1>1, <1>2, <1>3, <1>4, <1>5, <1>6, <1>7, <1>8, <1>9, <1>10 DEF ThreadStep

-----------------------------------------------------------------------------
(* Types *)

LEMMA RegisterTypes ==
  /\ \A port \in Ports \cup {0} : CXAR(port) \in Registers /\ ThreadCXAR(port) \in Registers
  /\ \A b \in Numbers \cup {0} : Base(b) \in Int
BY CaptureAssumption, PoolAssumption DEF CXAR, ThreadCXAR, Registers, Base, Stride, Numbers

(* Assigning one field of a capture or of an API thread. *)
LEMMA FieldTypes ==
  /\ \A r \in Sessions, b \in Numbers : [r EXCEPT !.buf = b] \in Sessions
  /\ \A r \in Sessions : [r EXCEPT !.pc = "open"] \in Sessions /\ [r EXCEPT !.pc = "leaked"] \in Sessions
  /\ \A a \in ApiStates :
       /\ [a EXCEPT !.pc = "devmem"] \in ApiStates
       /\ [a EXCEPT !.pc = "create"] \in ApiStates
       /\ [a EXCEPT !.pc = "sleep"] \in ApiStates
BY DEF Sessions, ApiStates, Starting

LEMMA SetOne ==
  ASSUME NEW S, NEW T, NEW f \in [S -> T], NEW b, NEW i \in T
  PROVE  [f EXCEPT ![b] = i] \in [S -> T]
OBVIOUS

LEMMA AllocIsNumber ==
  ASSUME Pool!TypeOK, KnownListed, NEW c \in Callers, call[c].pc \in {"check", "mark"}
  PROVE  call[c].alloc \in Numbers /\ call[c].alloc # 0
<1>1. \A i \in DOMAIN list : list[i] \in Pool!Numbers
  BY DEF Pool!TypeOK
<1>2. Pool!Entries \subseteq 1 .. MaxEntries
  BY <1>1 DEF Pool!Entries, Pool!Numbers
<1>3. call[c].alloc \in Pool!Entries
  BY DEF KnownListed
<1>4. call[c].alloc \in 1 .. MaxEntries
  BY <1>2, <1>3
<1> QED
  BY <1>4, PoolAssumption DEF Numbers

LEMMA TypesStep ==
  ASSUME TypesHere, StartOwnsSlot, Pool!TypeOK, KnownListed, [Next]_vars
  PROVE  TypesHere'
<1> USE DEF TypesHere, ApiStates, Sessions, Locals, IdleApi, NoSlot, NoLocals
<1>1. ASSUME NEW p \in Callers, NEW s \in Slots, NEW port \in Ports, StartRequest(p, s, port)
      PROVE  TypesHere'
  BY <1>1 DEF StartRequest
<1>2. ASSUME NEW p \in Callers, NEW port \in Ports, StopRequest(p, port) PROVE TypesHere'
  BY <1>2 DEF StopRequest
<1>3. ASSUME NEW p \in Callers, ApiStep(p) PROVE TypesHere'
  <2>a. api[p] \in ApiStates /\ (api[p].slot \in Slots => session[api[p].slot] \in Sessions)
    OBVIOUS
  <2>b. api[p].pc \in {"alloc", "devmem", "create"} => api[p].slot \in Slots
    BY DEF StartOwnsSlot
  <2>1. CASE AllocScan(p) \/ AllocCheck(p)
    BY <2>1 DEF AllocScan, AllocCheck
  <2>2. CASE AllocRefused(p)
    BY <2>2 DEF AllocRefused
  <2>3. CASE AllocDone(p)
    <3>1. call[p].alloc \in Numbers
      BY <2>3, AllocIsNumber DEF AllocDone, Pool!MarkInuse
    <3> HIDE DEF ApiStates, Sessions
    <3> QED
      BY <2>3, <3>1, <2>a, <2>b, FieldTypes DEF AllocDone
  <2>4. CASE MapDevMem(p)
    <3>1. IdleApi \in ApiStates
      OBVIOUS
    <3> HIDE DEF ApiStates, Sessions, IdleApi
    <3> QED
      BY <2>4, <3>1, <2>a, <2>b, FieldTypes DEF MapDevMem, StartFails
  <2>5. CASE CreateThread(p)
    <3>1. IdleApi \in ApiStates
      OBVIOUS
    <3> HIDE DEF ApiStates, Sessions, IdleApi
    <3> QED
      BY <2>5, <3>1, <2>a, <2>b, FieldTypes DEF CreateThread, StartFails
  <2>6. CASE Wake(p)
    BY <2>6 DEF Wake
  <2> QED
    BY <1>3, <2>1, <2>2, <2>3, <2>4, <2>5, <2>6 DEF ApiStep
<1>4. ASSUME NEW p \in Callers, Crash(p) PROVE TypesHere'
  BY <1>4 DEF Crash
<1>5. ASSUME NEW p \in Callers, Restart(p) PROVE TypesHere'
  BY <1>5 DEF Restart
<1>6. ASSUME NEW s \in Slots, ThreadStep(s) PROVE TypesHere'
  <2>1. api' = api /\ skipped' = skipped /\ session' \in [Slots -> Sessions]
    <3>1. CASE Moves(s)
      BY <3>1 DEF Moves
    <3>2. CASE Release(s)
      BY <3>2 DEF Release
    <3> QED
      BY <1>6, <3>1, <3>2, ThreadMoves
  <2>2. ccfr' \in [Ports -> BOOLEAN]
    BY <1>6 DEF ThreadStep, OpenFile, HaltEngine, LoadAddress, ReadBack, ArmEngine,
                PollAddress, PollFlag, ReadLast, DisarmEngine, WriteFile, Release, SetEngine
  <2>3. cxar' \in [Registers -> Int] /\ stored' \in [Numbers -> Int]
    <3>1. CASE LoadAddress(s)
      <4>1. Base(session[s].buf) \in Int
        BY RegisterTypes
      <4>2. cxar' \in [Registers -> Int]
        BY <3>1, <4>1 DEF LoadAddress
      <4>3. stored' = [stored EXCEPT ![session[s].buf] = 0]
        BY <3>1, Zenon DEF LoadAddress
      <4>4. stored \in [Numbers -> Int] /\ 0 \in Int
        OBVIOUS
      <4>5. [stored EXCEPT ![session[s].buf] = 0] \in [Numbers -> Int]
        BY ONLY <4>4, SetOne
      <4>6. stored' \in [Numbers -> Int]
        BY <4>3, <4>5, Zenon
      <4> QED
        BY <4>2, <4>6
    <3> QED
      BY <1>6, <3>1
         DEF ThreadStep, OpenFile, HaltEngine, ReadBack, ArmEngine,
             PollAddress, PollFlag, ReadLast, DisarmEngine, WriteFile, Release
  <2>4. local' \in [Slots -> Locals]
    <3>1. CASE ReadLast(s)
      <4>1. cxar[ThreadCXAR(session[s].port)] \in Int /\ local[s].ini \in Int
        BY RegisterTypes
      <4>2. \A i, j \in Int : (i - j) % UintRange \in Int
        BY CaptureAssumption
      <4> QED
        BY <3>1, <4>1, <4>2 DEF ReadLast
    <3>2. CASE PollAddress(s)
      BY <3>2, RegisterTypes DEF PollAddress
    <3>5. CASE ReadBack(s)
      <4>1. cxar[ThreadCXAR(session[s].port)] \in Int
        BY RegisterTypes
      <4>2. PICK ini \in Int : local' = [local EXCEPT ![s].ini = ini]
        <5>1. \E ini \in Int : local' = [local EXCEPT ![s].ini = ini]
          <6>1. PICK ini \in {cxar[ThreadCXAR(session[s].port)]} \cup
                               {z \in {0} : "readback" \in Faults} :
                       local' = [local EXCEPT ![s].ini = ini]
            BY <3>5, Zenon DEF ReadBack
          <6>2. ini \in Int
            BY <4>1, <6>1
          <6> QED
            BY <6>1, <6>2, Zenon
        <5> QED
          BY <5>1, Zenon
      <4>3. \A l \in Locals : [l EXCEPT !.ini = ini] \in Locals
        OBVIOUS
      <4> HIDE DEF Locals
      <4> QED
        BY <4>2, <4>3
    <3>6. CASE WriteFile(s)
      <4>1. local[s].size \in Int
        OBVIOUS
      <4>2. PICK n \in Int : local' = [local EXCEPT ![s].file = n]
        <5>1. \E n \in Int : local' = [local EXCEPT ![s].file = n]
          <6>1. PICK n \in {local[s].size} \cup {k \in 0 .. local[s].size : "write" \in Faults} :
                       local' = [local EXCEPT ![s].file = n]
            BY <3>6, Zenon DEF WriteFile
          <6>2. n \in Int
            BY <4>1, <6>1
          <6> QED
            BY <6>1, <6>2, Zenon
        <5> QED
          BY <5>1, Zenon
      <4>3. \A l \in Locals : [l EXCEPT !.file = n] \in Locals
        OBVIOUS
      <4> HIDE DEF Locals
      <4> QED
        BY <4>2, <4>3
    <3>3. CASE PollFlag(s)
      BY <3>3 DEF PollFlag
    <3>4. CASE Release(s)
      BY <3>4 DEF Release
    <3> QED
      BY <1>6, <3>1, <3>2, <3>3, <3>4, <3>5, <3>6
         DEF ThreadStep, OpenFile, HaltEngine, LoadAddress, ArmEngine, DisarmEngine
  <2> QED
    BY <2>1, <2>2, <2>3, <2>4
<1>7. ASSUME NEW port \in Ports, Engine(port) PROVE TypesHere'
  BY <1>7, RegisterTypes DEF Engine
<1>8. CASE UNCHANGED vars
  BY <1>8 DEF vars
<1> QED
  BY <1>1, <1>2, <1>3, <1>4, <1>5, <1>6, <1>7, <1>8 DEF Next, Requests

-----------------------------------------------------------------------------
(* Who owns what *)

LEMMA OwnersStep ==
  ASSUME TypesHere, StartOwnsSlot, Occupied, Pool!TypeOK, KnownListed, [Next]_vars
  PROVE  (StartOwnsSlot /\ Occupied)'
<1> DEFINE Owners == StartOwnsSlot /\ Occupied
<1>a. "none" \notin Live /\ "setup" \notin Live /\ "leaked" \notin Live /\ "open" \in Live
  BY DEF Live, Starting, Running
<1>b. DOMAIN session = Slots /\ DOMAIN api = Callers
  BY DEF TypesHere
<1> USE DEF StartOwnsSlot, Occupied, IdleApi, NoSlot
<1>1. ASSUME NEW p \in Callers, NEW s \in Slots, NEW port \in Ports, StartRequest(p, s, port)
      PROVE  Owners'
  <2> USE DEF TypesHere, ApiStates, Sessions
  <2> QED
    BY <1>1, <1>a DEF StartRequest
<1>2. ASSUME NEW p \in Callers, AllocRefused(p) PROVE Owners'
  <2>1. /\ api[p].slot \in Slots /\ session[api[p].slot].proc = p
        /\ \A t \in Slots \ {api[p].slot} : session'[t] = session[t]
        /\ session'[api[p].slot] = NoSlot
    BY <1>2, <1>b DEF AllocRefused, TypesHere
  <2>2. \A q \in Callers \ {p} : api'[q] = api[q]
    BY <1>2, <1>b DEF AllocRefused, TypesHere
  <2>3. api'[p].pc = "idle"
    BY <1>2, <1>b DEF AllocRefused, TypesHere
  <2>4. StartOwnsSlot'
    BY <2>1, <2>2, <2>3
  <2>5. Occupied'
    BY <2>1, <1>a
  <2> QED
    BY <2>4, <2>5
<1>3. ASSUME NEW p \in Callers, AllocDone(p) PROVE Owners'
  <2>1. call[p].alloc \in Numbers /\ call[p].alloc # 0
    BY <1>3, AllocIsNumber DEF AllocDone, Pool!MarkInuse
  <2> USE DEF TypesHere, ApiStates, Sessions
  <2> QED
    BY <1>3, <2>1, <1>a DEF AllocDone
<1>4. ASSUME NEW p \in Callers, NEW fault, StartFails(p, fault), api[p].pc \in {"devmem", "create"}
      PROVE  Owners'
  BY <1>4, <1>a DEF StartFails, TypesHere, ApiStates, Sessions
<1>5. ASSUME NEW p \in Callers, MapDevMem(p) PROVE Owners'
  <2>1. CASE api' = [api EXCEPT ![p].pc = "create"] /\ session' = session
    <3>1. /\ api'[p].pc = "create" /\ api'[p].slot = api[p].slot
          /\ \A q \in Callers \ {p} : api'[q] = api[q]
      BY <2>1, <1>b DEF TypesHere, ApiStates
    <3>2. api[p].pc = "devmem"
      BY <1>5 DEF MapDevMem
    <3>3. StartOwnsSlot'
      BY <3>1, <3>2, <2>1
    <3>4. Occupied'
      BY <2>1
    <3> QED
      BY <3>3, <3>4
  <2> QED
    BY <1>5, <1>4, <2>1 DEF MapDevMem
<1>6. ASSUME NEW p \in Callers, CreateThread(p) PROVE Owners'
  <2>1. CASE /\ session' = [session EXCEPT ![api[p].slot].pc = "open"]
             /\ api' = [api EXCEPT ![p].pc = "sleep"]
    <3>1. /\ api[p].slot \in Slots /\ session[api[p].slot].proc = p
          /\ session[api[p].slot].buf # 0
      BY <1>6 DEF CreateThread
    <3>2. \A t \in Slots \ {api[p].slot} : session'[t] = session[t]
      BY <2>1, <3>1, <1>b DEF TypesHere
    <3>3. /\ session'[api[p].slot].pc = "open" /\ session'[api[p].slot].proc = p
          /\ session'[api[p].slot].buf = session[api[p].slot].buf
      BY <2>1, <3>1, <1>b DEF TypesHere, Sessions
    <3>4. api'[p].pc = "sleep" /\ \A q \in Callers \ {p} : api'[q] = api[q]
      BY <2>1, <1>b DEF TypesHere, ApiStates
    <3>5. StartOwnsSlot'
      BY <3>1, <3>2, <3>4
    <3>6. Occupied'
      BY <3>1, <3>2, <3>3, <1>a
    <3> QED
      BY <3>5, <3>6
  <2> QED
    BY <1>6, <1>4, <2>1 DEF CreateThread
<1>7. ASSUME NEW p \in Callers, Wake(p) PROVE Owners'
  BY <1>7, <1>b DEF Wake, TypesHere
<1>8. ASSUME NEW p \in Callers, Crash(p) PROVE Owners'
  <2>1. \A s \in Slots : session'[s] = IF session[s].proc = p THEN NoSlot ELSE session[s]
    BY <1>8 DEF Crash
  <2>2. api'[p].pc = "down" /\ \A q \in Callers \ {p} : api'[q] = api[q]
    BY <1>8, <1>b DEF Crash, TypesHere
  <2>3. StartOwnsSlot'
    BY <2>1, <2>2
  <2>4. Occupied'
    BY <2>1, <1>a
  <2> QED
    BY <2>3, <2>4
<1>9. ASSUME NEW p \in Callers, Restart(p) PROVE Owners'
  BY <1>9, <1>b DEF Restart, TypesHere
<1>10. ASSUME NEW s \in Slots, Moves(s) PROVE Owners'
  <2>1. StartOwnsSlot'
    BY <1>10, <1>a DEF Moves
  <2>2. Occupied'
    BY <1>10, <1>a DEF Moves
  <2> QED
    BY <2>1, <2>2
<1>11. ASSUME NEW s \in Slots, Release(s) PROVE Owners'
  <2>1. /\ session[s].pc = "release" /\ api' = api /\ session'[s] = NoSlot
        /\ \A t \in Slots \ {s} : session'[t] = session[t]
    BY <1>11, <1>b DEF Release, At, TypesHere
  <2>2. StartOwnsSlot'
    BY <2>1
  <2>3. Occupied'
    BY <2>1, <1>a
  <2> QED
    BY <2>2, <2>3
<1>12. CASE UNCHANGED <<api, session>>
  BY <1>12
<1> QED
  BY <1>1, <1>2, <1>3, <1>5, <1>6, <1>7, <1>8, <1>9, <1>10, <1>11, <1>12, ThreadMoves
     DEF Next, Requests, ApiStep, vars, StopRequest, AllocScan, AllocCheck, Engine

-----------------------------------------------------------------------------
(* The driver's pool *)

LEMMA StepIsPoolStep ==
  ASSUME TypesHere, Occupied, [Next]_vars
  PROVE  [Pool!Next]_(Pool!cmaVars)
<1> USE DEF Pool!Next, Pool!cmaVars, poolVars
<1>1. ASSUME NEW p \in Callers, Requests(p) PROVE UNCHANGED Pool!cmaVars
  BY <1>1 DEF Requests, StartRequest, StopRequest
<1>2. ASSUME NEW p \in Callers, ApiStep(p) PROVE [Pool!Next]_(Pool!cmaVars)
  BY <1>2 DEF ApiStep, AllocScan, AllocCheck, AllocRefused, AllocDone, MapDevMem, CreateThread, Wake
<1>3. ASSUME NEW p \in Callers, Crash(p) PROVE Pool!Next
  BY <1>3 DEF Crash
<1>4. ASSUME NEW p \in Callers, Restart(p) PROVE [Pool!Next]_(Pool!cmaVars)
  BY <1>4 DEF Restart
<1>5. ASSUME NEW s \in Slots, ThreadStep(s) PROVE [Pool!Next]_(Pool!cmaVars)
  <2>1. CASE Release(s)
    <3>1. session[s].proc \in Callers /\ session[s].buf \in Pool!Numbers
      BY <2>1 DEF Release, At, TypesHere, Sessions, Occupied, Live, Running, Numbers, Pool!Numbers
    <3> QED
      BY <2>1, <3>1 DEF Release
  <2> QED
    BY <1>5, <2>1, ThreadMoves DEF Moves
<1>6. ASSUME NEW port \in Ports, Engine(port) PROVE UNCHANGED Pool!cmaVars
  BY <1>6 DEF Engine
<1>7. CASE UNCHANGED vars
  BY <1>7 DEF vars
<1> QED
  BY <1>1, <1>2, <1>3, <1>4, <1>5, <1>6, <1>7 DEF Next

(* What the driver's module assumes of its constants. *)
LEMMA PoolFits ==
  /\ DebugNodes \in BOOLEAN
  /\ MaxEntries \in Nat /\ Loaded \subseteq 0 .. MaxEntries /\ Loaded # {}
BY PoolAssumption DEF DebugNodes

(* The list stays, and what is known of it. *)
LEMMA ListStays ==
  ASSUME Pool!TypeOK, KnownListed, [Pool!Next]_(Pool!cmaVars)
  PROVE  list' = list /\ Pool!Entries' = Pool!Entries /\ KnownListed'
<1>0. DOMAIN call = Callers /\ DOMAIN held = Callers
  BY DEF Pool!TypeOK
<1>a. ~Pool!cma_test_read /\ ~Pool!cma_test_write
  BY DEF Pool!cma_test_read, Pool!cma_test_write, DebugNodes
<1>b. list' = list
  BY <1>a DEF Pool!Next, Pool!cmaVars, Pool!Scan, Pool!ReportFull, Pool!CheckFree,
              Pool!MarkInuse, Pool!FreeOne, Pool!FreeAll, Pool!Exit
<1>c. Pool!Entries' = Pool!Entries
  BY <1>b DEF Pool!Entries
<1> USE DEF Pool!NoCall
<1>d. ASSUME \A d \in Callers :
               /\ call'[d].pc \in {"check", "mark"} => call'[d].alloc \in Pool!Entries
               /\ held'[d] \subseteq Pool!Entries
      PROVE  KnownListed'
  BY <1>c, <1>d DEF KnownListed
<1>1. ASSUME NEW c \in Callers, Pool!Scan(c) PROVE KnownListed'
  <2>1. held' = held
    BY <1>1 DEF Pool!Scan
  <2>2. CASE call' = [call EXCEPT ![c].pc = "oops"]
    <3>1. call'[c].pc = "oops" /\ \A d \in Callers \ {c} : call'[d] = call[d]
      BY <1>0, <2>2 DEF Pool!TypeOK, Pool!Calls
    <3> QED
      BY <1>d, <2>1, <3>1 DEF KnownListed
  <2>3. ASSUME NEW b \in Pool!Entries, Pool!Found(c, b) PROVE KnownListed'
    <3>1. call'[c].alloc = b
      BY <2>3 DEF Pool!Found
    <3>2. ASSUME NEW d \in Callers \ {c}
          PROVE  call'[d].alloc = call[d].alloc /\ call'[d].pc = call[d].pc
      <4>1. call[d] \in Pool!Calls
        BY DEF Pool!TypeOK
      <4>2. PICK x : call'[d] = [call[d] EXCEPT !.disturbed = x]
        BY <2>3 DEF Pool!Found
      <4> QED
        BY <4>1, <4>2 DEF Pool!Calls
    <3> QED
      BY <1>d, <2>1, <3>1, <3>2 DEF KnownListed
  <2> QED
    BY <1>1, <2>2, <2>3 DEF Pool!Scan
<1>2. ASSUME NEW c \in Callers, Pool!ReportFull(c) \/ Pool!CheckFree(c) PROVE KnownListed'
  <2>1. /\ held' = held /\ \A d \in Callers \ {c} : call'[d] = call[d]
        /\ call'[c] = Pool!NoCall \/ (call[c].pc = "check" /\ call'[c].alloc = call[c].alloc)
    BY <1>2, <1>0 DEF Pool!ReportFull, Pool!CheckFree, Pool!TypeOK, Pool!Calls
  <2> QED
    BY <1>d, <2>1 DEF KnownListed
<1>3. ASSUME NEW c \in Callers, Pool!MarkInuse(c) PROVE KnownListed'
  <2>1. call[c].alloc \in Pool!Entries /\ call[c].alloc # 0
    BY <1>3, AllocIsNumber DEF Pool!MarkInuse, KnownListed
  <2>2. /\ call'[c] = Pool!NoCall /\ held'[c] = held[c] \cup {call[c].alloc}
        /\ \A d \in Callers \ {c} : call'[d] = call[d] /\ held'[d] = held[d]
    BY <1>3, <1>0, <2>1 DEF Pool!MarkInuse, Pool!Grant
  <2> QED
    BY <1>d, <2>1, <2>2 DEF KnownListed
<1>4. ASSUME NEW c \in Callers, NEW b, Pool!FreeOne(c, b) PROVE KnownListed'
  <2>1. /\ call' = call /\ held'[c] \subseteq held[c]
        /\ \A d \in Callers \ {c} : held'[d] = held[d]
    BY <1>4, <1>0 DEF Pool!FreeOne
  <2> QED
    BY <1>d, <2>1 DEF KnownListed
<1>5. ASSUME NEW c \in Callers, Pool!Exit(c) PROVE KnownListed'
  <2>1. /\ call'[c] = Pool!NoCall /\ held'[c] = {}
        /\ \A d \in Callers \ {c} : call'[d] = call[d] /\ held'[d] = held[d]
    BY <1>5, <1>0 DEF Pool!Exit
  <2> QED
    BY <1>d, <2>1 DEF KnownListed
<1>6. ASSUME (\E c \in Callers : Pool!FreeAll(c)) \/ UNCHANGED Pool!cmaVars
      PROVE  KnownListed'
  <2>1. call' = call /\ held' = held
    BY <1>6 DEF Pool!FreeAll, Pool!cmaVars
  <2> QED
    BY <1>d, <2>1 DEF KnownListed
<1>7. KnownListed'
  BY <1>a, <1>1, <1>2, <1>3, <1>4, <1>5, <1>6 DEF Pool!Next
<1> QED
  BY <1>b, <1>c, <1>7

(* What holds with any number of processes. *)
OwnInv == PoolTheorems!IInv /\ Pool!TypeOK /\ KnownListed /\ TypesHere /\ StartOwnsSlot /\ Occupied

LEMMA InitOwnInv == Init => OwnInv
<1> SUFFICES ASSUME Init PROVE OwnInv
  OBVIOUS
<1>1. PoolTheorems!IInv /\ Pool!TypeOK
  <2>1. PoolTheorems!IInv
    BY PoolTheorems!InitIInv, SameInit, PoolFits DEF Init
  <2> QED
    BY <2>1, SameTypeOK DEF PoolTheorems!IInv
<1>2. TypesHere
  BY DEF Init, TypesHere, ApiStates, Sessions, Locals, IdleApi, NoSlot, NoLocals
<1>3. StartOwnsSlot /\ Occupied
  BY DEF Init, StartOwnsSlot, Occupied, IdleApi, NoSlot, Live, Starting, Running
<1>4. KnownListed
  BY DEF Init, Pool!Init, Pool!NoCall, KnownListed
<1> QED
  BY <1>1, <1>2, <1>3, <1>4 DEF OwnInv

LEMMA OwnInvStep == OwnInv /\ [Next]_vars => OwnInv'
<1> SUFFICES ASSUME OwnInv, [Next]_vars PROVE OwnInv'
  OBVIOUS
<1>0. [Pool!Next]_(Pool!cmaVars)
  BY StepIsPoolStep DEF OwnInv
<1>1. PoolTheorems!IInv' /\ Pool!TypeOK'
  <2>1. PoolTheorems!IInv /\ [PoolTheorems!Next]_(PoolTheorems!cmaVars)
    BY <1>0, SameNext DEF OwnInv
  <2>2. PoolTheorems!IInv'
    BY <2>1, PoolTheorems!NextIInv, PoolFits
  <2>3. PoolTheorems!TypeOK'
    BY <2>2 DEF PoolTheorems!IInv
  <2>4. (PoolTheorems!TypeOK <=> Pool!TypeOK)'
    BY SameTypeOK, PTL
  <2> QED
    BY <2>2, <2>3, <2>4
<1>2. TypesHere'
  BY TypesStep DEF OwnInv
<1>3. (StartOwnsSlot /\ Occupied)'
  BY OwnersStep DEF OwnInv
<1>4. KnownListed'
  BY <1>0, ListStays DEF OwnInv
<1> QED
  BY <1>1, <1>2, <1>3, <1>4 DEF OwnInv

(* Type correctness of the composition, with any number of processes.      *)
THEOREM CaptureTypeCorrect == Spec => []TypeOK
<1>1. OwnInv => TypeOK
  BY DEF OwnInv, TypesHere, TypeOK
<1> QED
  BY InitOwnInv, OwnInvStep, <1>1, PTL DEF Spec

-----------------------------------------------------------------------------
(* The lease: one allocating process *)

(* With one process and no device node nothing spoils a loan. *)
Calm == spoilt = {} /\ \A c \in Callers : ~call[c].disturbed

LEMMA CalmStep ==
  ASSUME OneCaller, Pool!TypeOK, KnownListed, Calm, [Pool!Next]_(Pool!cmaVars)
  PROVE  Calm'
<1>0. DOMAIN call = Callers
  BY DEF Pool!TypeOK
<1>a. \A c, d \in Callers : c = d
  BY DEF OneCaller
<1> USE DEF Calm, Pool!NoCall
<1>1. ASSUME NEW c \in Callers, Pool!Scan(c) PROVE Calm'
  <2>1. spoilt' = spoilt /\ call[c].pc = "idle"
    BY <1>1 DEF Pool!Scan
  <2>2. CASE call' = [call EXCEPT ![c].pc = "oops"]
    <3>1. call'[c].disturbed = call[c].disturbed
      BY <1>0, <2>2 DEF Pool!TypeOK, Pool!Calls
    <3> QED
      BY <1>a, <2>1, <3>1
  <2>3. ASSUME NEW b \in Pool!Entries, Pool!Found(c, b) PROVE Calm'
    <3>1. Pool!Inside(b) = {}
      BY <1>a, <2>1 DEF Pool!Inside
    <3>2. ~call'[c].disturbed
      BY <2>3, <3>1 DEF Pool!Found
    <3> QED
      BY <1>a, <2>1, <3>2
  <2> QED
    BY <1>1, <2>2, <2>3 DEF Pool!Scan
<1>2. ASSUME NEW c \in Callers, Pool!ReportFull(c) \/ Pool!CheckFree(c) PROVE Calm'
  <2>1. CASE Pool!ReportFull(c)
    <3>1. spoilt' = spoilt /\ call'[c] = Pool!NoCall
      BY <2>1, <1>0, Zenon DEF Pool!ReportFull
    <3>2. ~Pool!NoCall.disturbed
      OBVIOUS
    <3> QED
      BY <1>a, <3>1, <3>2, Zenon
  <2>2. CASE Pool!CheckFree(c)
    <3>1. spoilt' = spoilt /\ call'[c] = [call[c] EXCEPT !.pc = "mark"]
      BY <2>2, <1>0, Zenon DEF Pool!CheckFree
    <3>2. call[c] \in Pool!Calls
      BY DEF Pool!TypeOK
    <3>3. [call[c] EXCEPT !.pc = "mark"].disturbed = call[c].disturbed
      BY <3>2 DEF Pool!Calls
    <3> QED
      BY <1>a, <3>1, <3>3, Zenon
  <2> QED
    BY <1>2, <2>1, <2>2
<1>3. ASSUME NEW c \in Callers, Pool!MarkInuse(c) PROVE Calm'
  <2>1. spoilt' = {} /\ ~call'[c].disturbed
    BY <1>3, <1>0 DEF Pool!MarkInuse, Pool!Grant
  <2> QED
    BY <1>a, <2>1
<1>4. ASSUME NEW c \in Callers, NEW b, Pool!FreeOne(c, b) PROVE Calm'
  BY <1>4 DEF Pool!FreeOne
<1>5. ASSUME NEW c \in Callers, Pool!Exit(c) PROVE Calm'
  BY <1>0, <1>5 DEF Pool!Exit
<1>6. ASSUME NEW c \in Callers, Pool!FreeAll(c) PROVE Calm'
  <2>1. Pool!OnLoan = {}
    BY <1>a, <1>6 DEF Pool!FreeAll, Pool!OnLoan
  <2> QED
    BY <1>6, <2>1 DEF Pool!FreeAll
<1>7. CASE UNCHANGED Pool!cmaVars
  BY <1>7 DEF Pool!cmaVars
<1>8. ~Pool!cma_test_read /\ ~Pool!cma_test_write
  BY DEF Pool!cma_test_read, Pool!cma_test_write, DebugNodes
<1> QED
  BY <1>1, <1>2, <1>3, <1>4, <1>5, <1>6, <1>7, <1>8 DEF Pool!Next

HoldInv == OwnInv /\ Calm /\ SessionsHold /\ BuffersApart

(* The buffer the ioctl is about to return belongs to no capture. *)
LEMMA GrantIsFresh ==
  ASSUME HoldInv, NEW p \in Callers, AllocDone(p)
  PROVE  /\ call[p].alloc \in Numbers
         /\ \A s \in Slots : session[s].buf # call[p].alloc
<1>1. call[p].pc = "mark" /\ ~call[p].disturbed
  BY DEF AllocDone, Pool!MarkInuse, HoldInv, Calm
<1>2. call[p].alloc \in Numbers /\ call[p].alloc # 0
  BY <1>1, AllocIsNumber DEF HoldInv, OwnInv
<1>3. ~inuse[call[p].alloc]
  BY <1>1 DEF HoldInv, OwnInv, PoolTheorems!IInv, PoolTheorems!GrantIsFresh
<1>4. \A d \in Callers : call[p].alloc \notin held[d]
  BY <1>3 DEF HoldInv, OwnInv, Calm, PoolTheorems!IInv, PoolTheorems!LoansMarked, PoolTheorems!OnLoan
<1>5. ASSUME NEW s \in Slots, session[s].buf = call[p].alloc PROVE FALSE
  BY <1>2, <1>4, <1>5 DEF HoldInv, OwnInv, Occupied, SessionsHold
<1> QED
  BY <1>2, <1>5

LEMMA HoldStep ==
  ASSUME HoldInv, [Next]_vars
  PROVE  (SessionsHold /\ BuffersApart)'
<1> DEFINE Holds == SessionsHold /\ BuffersApart
<1>a. DOMAIN session = Slots /\ DOMAIN held = Callers
  BY DEF HoldInv, OwnInv, TypesHere, Pool!TypeOK
<1> USE DEF SessionsHold, BuffersApart, NoSlot
<1>1. ASSUME NEW p \in Callers, NEW s \in Slots, NEW port \in Ports, StartRequest(p, s, port)
      PROVE  Holds'
  <2>1. /\ session'[s].buf = 0 /\ held' = held
        /\ \A t \in Slots \ {s} : session'[t] = session[t]
    BY <1>1, <1>a DEF StartRequest, poolVars
  <2> QED
    BY <2>1 DEF HoldInv
<1>2. ASSUME NEW p \in Callers, AllocRefused(p) PROVE Holds'
  <2>1. api[p].slot \in Slots
    BY <1>2 DEF AllocRefused, HoldInv, OwnInv, StartOwnsSlot
  <2>2. /\ session'[api[p].slot].buf = 0 /\ held' = held
        /\ \A t \in Slots \ {api[p].slot} : session'[t] = session[t]
    BY <1>2, <2>1, <1>a DEF AllocRefused, Pool!ReportFull
  <2> QED
    BY <2>1, <2>2 DEF HoldInv
<1>3. ASSUME NEW p \in Callers, AllocDone(p) PROVE Holds'
  <2>1. api[p].slot \in Slots /\ session[api[p].slot].proc = p
    BY <1>3 DEF AllocDone, HoldInv, OwnInv, StartOwnsSlot
  <2>2. /\ session'[api[p].slot].buf = call[p].alloc /\ session'[api[p].slot].proc = p
        /\ \A t \in Slots \ {api[p].slot} : session'[t] = session[t]
    BY <1>3, <2>1, <1>a DEF AllocDone, HoldInv, OwnInv, TypesHere, Sessions
  <2>3. held'[p] = held[p] \cup {call[p].alloc} /\ \A d \in Callers \ {p} : held'[d] = held[d]
    <3>1. call[p].alloc # 0
      BY <1>3, AllocIsNumber DEF AllocDone, Pool!MarkInuse, HoldInv, OwnInv
    <3> QED
      BY <1>3, <3>1, <1>a DEF AllocDone, Pool!MarkInuse, Pool!Grant
  <2>4. \A t \in Slots : session[t].buf # 0 => session[t].proc \in Callers
    BY DEF HoldInv, OwnInv, Occupied
  <2> QED
    BY <1>3, <2>1, <2>2, <2>3, <2>4, GrantIsFresh DEF HoldInv
<1>4. ASSUME NEW p \in Callers, MapDevMem(p) \/ CreateThread(p) PROVE Holds'
  <2>1. api[p].slot \in Slots
    BY <1>4 DEF MapDevMem, CreateThread, HoldInv, OwnInv, StartOwnsSlot
  <2>2. /\ session'[api[p].slot].buf = session[api[p].slot].buf /\ held' = held
        /\ session'[api[p].slot].proc = session[api[p].slot].proc
        /\ \A t \in Slots \ {api[p].slot} : session'[t] = session[t]
    BY <1>4, <2>1, <1>a
       DEF MapDevMem, CreateThread, StartFails, HoldInv, OwnInv, TypesHere, Sessions, poolVars
  <2> QED
    BY <2>1, <2>2 DEF HoldInv
<1>5. ASSUME NEW p \in Callers, Crash(p) PROVE Holds'
  <2>1. \A s \in Slots : session'[s] = IF session[s].proc = p THEN NoSlot ELSE session[s]
    BY <1>5 DEF Crash
  <2>2. \A d \in Callers \ {p} : held'[d] = held[d]
    BY <1>5, <1>a DEF Crash, Pool!Exit
  <2>3. \A t \in Slots : session[t].buf # 0 => session[t].proc \in Callers
    BY DEF HoldInv, OwnInv, Occupied
  <2> QED
    BY <2>1, <2>2, <2>3 DEF HoldInv
<1>6. ASSUME NEW s \in Slots, Moves(s) PROVE Holds'
  BY <1>6 DEF Moves, HoldInv
<1>7. ASSUME NEW s \in Slots, Release(s) PROVE Holds'
  <2>1. session'[s].buf = 0 /\ \A t \in Slots \ {s} : session'[t] = session[t]
    BY <1>7, <1>a DEF Release
  <2>2. \A d \in Callers : held[d] \ {session[s].buf} \subseteq held'[d]
    BY <1>7, <1>a DEF Release, Pool!FreeOne
  <2>3. \A t \in Slots \ {s} : session[t].buf # 0 =>
          session[t].buf # session[s].buf /\ session[t].proc \in Callers
    BY DEF HoldInv, OwnInv, Occupied
  <2> QED
    BY <2>1, <2>2, <2>3 DEF HoldInv
<1>8. CASE UNCHANGED <<session, held>>
  BY <1>8 DEF HoldInv
<1> QED
  BY <1>1, <1>2, <1>3, <1>4, <1>5, <1>6, <1>7, <1>8, ThreadMoves
     DEF HoldInv, OwnInv, Next, Requests, ApiStep, vars, poolVars, StopRequest, Restart, Engine,
         AllocScan, AllocCheck, Wake, Pool!Scan, Pool!CheckFree, Pool!FreeAll

LEMMA InitHoldInv == Init => HoldInv
<1> SUFFICES ASSUME Init PROVE HoldInv
  OBVIOUS
<1>1. Calm /\ SessionsHold /\ BuffersApart
  BY DEF Init, Pool!Init, Pool!NoCall, Calm, SessionsHold, BuffersApart, NoSlot
<1> QED
  BY InitOwnInv, <1>1 DEF HoldInv

LEMMA HoldInvStep ==
  ASSUME OneCaller
  PROVE  HoldInv /\ [Next]_vars => HoldInv'
<1> SUFFICES ASSUME HoldInv, [Next]_vars PROVE HoldInv'
  OBVIOUS
<1>1. OwnInv'
  BY OwnInvStep DEF HoldInv
<1>2. [Pool!Next]_(Pool!cmaVars)
  BY StepIsPoolStep DEF HoldInv, OwnInv
<1>3. Calm'
  BY <1>2, OneCaller, CalmStep DEF HoldInv, OwnInv
<1> QED
  BY <1>1, <1>3, HoldStep DEF HoldInv

(* Each step lends a buffer, gives buffers back, or leaves the lease alone.*)
LEMMA StepIsLeaseStep ==
  ASSUME HoldInv, [Next]_vars
  PROVE  Lease!Next \/ UNCHANGED [s \in Slots |-> session[s].buf]
<1> DEFINE lease == [s \in Slots |-> session[s].buf]
           Steps == Lease!Next \/ UNCHANGED lease
<1>a. DOMAIN session = Slots /\ DOMAIN held = Callers
  BY DEF HoldInv, OwnInv, TypesHere, Pool!TypeOK
<1>b. ASSUME NEW H \in SUBSET Slots, \A s \in H : session'[s].buf = 0,
             \A s \in Slots \ H : session'[s].buf = session[s].buf
      PROVE  Lease!Next
  BY <1>b DEF Lease!Next, Lease!GiveBack
<1>c. ASSUME \A s \in Slots : session'[s].buf = session[s].buf PROVE UNCHANGED lease
  BY <1>c
<1>1. ASSUME NEW p \in Callers, NEW s \in Slots, NEW port \in Ports, StartRequest(p, s, port)
      PROVE  Steps
  <2>1. session'[s].buf = 0 /\ session[s].buf = 0
        /\ \A t \in Slots \ {s} : session'[t] = session[t]
    BY <1>1, <1>a DEF StartRequest, HoldInv, OwnInv, Occupied
  <2> QED
    BY <2>1, <1>c
<1>2. ASSUME NEW p \in Callers, AllocRefused(p) PROVE Steps
  <2>1. api[p].slot \in Slots
    BY <1>2 DEF AllocRefused, HoldInv, OwnInv, StartOwnsSlot
  <2>2. /\ session'[api[p].slot].buf = 0
        /\ \A t \in Slots \ {api[p].slot} : session'[t] = session[t]
    BY <1>2, <2>1, <1>a DEF AllocRefused, NoSlot
  <2> QED
    BY <2>1, <2>2, <1>b
<1>3. ASSUME NEW p \in Callers, AllocDone(p) PROVE Steps
  <2>1. api[p].slot \in Slots /\ session[api[p].slot].buf = 0
    BY <1>3 DEF AllocDone, HoldInv, OwnInv, StartOwnsSlot
  <2>2. /\ session'[api[p].slot].buf = call[p].alloc
        /\ \A t \in Slots \ {api[p].slot} : session'[t] = session[t]
    BY <1>3, <2>1, <1>a DEF AllocDone, HoldInv, OwnInv, TypesHere, Sessions
  <2>3. PICK h \in Slots, b \in Numbers : h = api[p].slot /\ b = call[p].alloc
    BY <1>3, <2>1, GrantIsFresh
  <2>4. lease' = [lease EXCEPT ![h] = b]
    BY <2>1, <2>2, <2>3
  <2>5. lease[h] = 0 /\ b \notin {lease[s] : s \in Slots} \ {0}
    BY <1>3, <2>1, <2>3, GrantIsFresh
  <2>6. Lease!Grant(h, b)
    BY <2>4, <2>5 DEF Lease!Grant, Lease!Lent
  <2> QED
    BY <2>6 DEF Lease!Next
<1>4. ASSUME NEW p \in Callers, MapDevMem(p) \/ CreateThread(p) PROVE Steps
  <2>1. api[p].slot \in Slots
    BY <1>4 DEF MapDevMem, CreateThread, HoldInv, OwnInv, StartOwnsSlot
  <2>2. /\ session'[api[p].slot].buf = session[api[p].slot].buf
        /\ \A t \in Slots \ {api[p].slot} : session'[t] = session[t]
    BY <1>4, <2>1, <1>a
       DEF MapDevMem, CreateThread, StartFails, HoldInv, OwnInv, TypesHere, Sessions
  <2> QED
    BY <2>2, <1>c
<1>5. ASSUME NEW p \in Callers, Crash(p) PROVE Steps
  <2> DEFINE H == {s \in Slots : session[s].proc = p}
  <2>1. \A s \in Slots : session'[s] = IF session[s].proc = p THEN NoSlot ELSE session[s]
    BY <1>5 DEF Crash
  <2>2. /\ \A s \in H : session'[s].buf = 0
        /\ \A s \in Slots \ H : session'[s].buf = session[s].buf
    BY <2>1 DEF NoSlot
  <2>3. H \in SUBSET Slots
    OBVIOUS
  <2> HIDE DEF H
  <2> QED
    BY <2>2, <2>3, <1>b
<1>6. ASSUME NEW s \in Slots, Moves(s) PROVE Steps
  BY <1>6, <1>c DEF Moves
<1>7. ASSUME NEW s \in Slots, Release(s) PROVE Steps
  <2>1. session'[s].buf = 0 /\ \A t \in Slots \ {s} : session'[t] = session[t]
    BY <1>7, <1>a DEF Release, NoSlot
  <2> QED
    BY <2>1, <1>b
<1>8. CASE UNCHANGED session
  BY <1>8
<1> QED
  BY <1>1, <1>2, <1>3, <1>4, <1>5, <1>6, <1>7, <1>8, ThreadMoves
     DEF HoldInv, OwnInv, Next, Requests, ApiStep, vars, StopRequest, Restart, Engine,
         AllocScan, AllocCheck, Wake

(* One allocating process, any number of captures, buffers and ports: a    *)
(* DMA buffer is in at most one capture at a time, whatever calls fail and *)
(* whenever the process dies and starts again.                             *)
THEOREM CaptureImplementsLease ==
  ASSUME OneCaller
  PROVE  Spec => ImplementsLease
<1>1. Init => Lease!Init
  BY DEF Init, Lease!Init, NoSlot
<1>2. HoldInv /\ [Next]_vars => [Lease!Next]_([s \in Slots |-> session[s].buf])
  BY StepIsLeaseStep
<1> QED
  BY InitHoldInv, HoldInvStep, OneCaller, <1>1, <1>2, PTL
     DEF Spec, ImplementsLease, Lease!Spec

-----------------------------------------------------------------------------
(* The marks of the buffers *)

Down == \E p \in Callers : api[p].pc = "down"
HasCapture(b) == \E s \in Slots : session[s].buf = b
Accounted ==
  \A b \in Numbers : inuse[b] => b \in Pool!Entries /\ (HasCapture(b) \/ b \in skipped \/ Down)
MarksInv == OwnInv /\ Accounted

(* A buffer that goes from its capture is unmarked, or its process dies.   *)
LEMMA AccountedStep ==
  ASSUME MarksInv, [Next]_vars
  PROVE  Accounted'
<1>a. /\ DOMAIN session = Slots /\ DOMAIN inuse = Numbers /\ DOMAIN held = Callers
      /\ DOMAIN api = Callers
  BY PoolAssumption
     DEF MarksInv, OwnInv, TypesHere, Pool!TypeOK, Pool!Numbers, Numbers
<1>b. Pool!Entries' = Pool!Entries
  BY ListStays, StepIsPoolStep DEF MarksInv, OwnInv
<1>c. ASSUME inuse' = inuse, skipped' = skipped, Down => Down',
             \A s \in Slots : session'[s].buf = session[s].buf \/ session[s].buf = 0
      PROVE  Accounted'
  <2>1. \A b \in Numbers : HasCapture(b) => HasCapture(b)'
    BY <1>c DEF HasCapture, Numbers
  <2> QED
    BY <1>b, <1>c, <2>1 DEF Accounted, MarksInv
<1>1. ASSUME NEW p \in Callers, NEW s \in Slots, NEW port \in Ports, StartRequest(p, s, port)
      PROVE  Accounted'
  <2>1. /\ session[s].buf = 0 /\ \A t \in Slots \ {s} : session'[t] = session[t]
        /\ inuse' = inuse /\ skipped' = skipped /\ api[p].pc = "idle"
        /\ \A q \in Callers \ {p} : api'[q] = api[q]
    BY <1>1, <1>a DEF StartRequest, MarksInv, OwnInv, Occupied, poolVars
  <2> QED
    BY <2>1, <1>c DEF Down
<1>2. ASSUME NEW p \in Callers, AllocRefused(p) PROVE Accounted'
  <2>1. /\ api[p].slot \in Slots /\ session[api[p].slot].buf = 0 /\ api[p].pc = "alloc"
    BY <1>2 DEF AllocRefused, MarksInv, OwnInv, StartOwnsSlot
  <2>2. /\ \A t \in Slots \ {api[p].slot} : session'[t] = session[t]
        /\ inuse' = inuse /\ skipped' = skipped /\ \A q \in Callers \ {p} : api'[q] = api[q]
    BY <1>2, <2>1, <1>a DEF AllocRefused, Pool!ReportFull
  <2> QED
    BY <2>1, <2>2, <1>c DEF Down
<1>3. ASSUME NEW p \in Callers, AllocDone(p) PROVE Accounted'
  <2>1. api[p].slot \in Slots /\ session[api[p].slot].buf = 0 /\ api[p].pc = "alloc"
    BY <1>3 DEF AllocDone, MarksInv, OwnInv, StartOwnsSlot
  <2>2. /\ session'[api[p].slot].buf = call[p].alloc
        /\ \A t \in Slots \ {api[p].slot} : session'[t] = session[t]
    BY <1>3, <2>1, <1>a DEF AllocDone, MarksInv, OwnInv, TypesHere, Sessions
  <2>3. /\ call[p].alloc \in Pool!Entries /\ skipped' = skipped
        /\ \A b \in Numbers \ {call[p].alloc} : inuse'[b] = inuse[b]
    <3>1. call[p].pc = "mark"
      BY <1>3 DEF AllocDone, Pool!MarkInuse
    <3>2. call[p].alloc \in Pool!Entries
      BY <3>1 DEF MarksInv, OwnInv, KnownListed
    <3>3. inuse' = [b \in Pool!Numbers |-> inuse[b] \/ b = call[p].alloc]
      BY <1>3 DEF AllocDone, Pool!MarkInuse
    <3>4. \A b \in Numbers \ {call[p].alloc} : inuse'[b] = inuse[b]
      BY <3>3 DEF MarksInv, OwnInv, Pool!TypeOK, Pool!Numbers, Numbers
    <3> QED
      BY <1>3, <3>2, <3>4 DEF AllocDone
  <2>4. Down => Down'
    BY <1>3, <2>1, <1>a DEF AllocDone, Down
  <2>5. \A b \in Numbers : HasCapture(b) \/ b = call[p].alloc => HasCapture(b)'
    BY <2>1, <2>2 DEF HasCapture, Numbers
  <2> QED
    BY <1>b, <2>3, <2>4, <2>5 DEF Accounted, MarksInv
<1>4. ASSUME NEW p \in Callers, MapDevMem(p) \/ CreateThread(p) PROVE Accounted'
  <2>1. api[p].slot \in Slots /\ api[p].pc # "down"
    BY <1>4 DEF MapDevMem, CreateThread, MarksInv, OwnInv, StartOwnsSlot
  <2>2. /\ session'[api[p].slot].buf = session[api[p].slot].buf
        /\ inuse' = inuse /\ skipped' = skipped
        /\ \A t \in Slots \ {api[p].slot} : session'[t] = session[t]
        /\ \A q \in Callers \ {p} : api'[q] = api[q]
    BY <1>4, <2>1, <1>a
       DEF MapDevMem, CreateThread, StartFails, MarksInv, OwnInv, TypesHere, Sessions, poolVars
  <2> QED
    BY <2>1, <2>2, <1>c DEF Down
<1>5. ASSUME NEW p \in Callers, Crash(p) PROVE Accounted'
  <2>1. inuse' = inuse /\ skipped' = skipped /\ Down'
    BY <1>5, <1>a DEF Crash, Pool!Exit, Down
  <2> QED
    BY <1>b, <2>1 DEF Accounted, MarksInv
<1>6. ASSUME NEW p \in Callers, Restart(p) PROVE Accounted'
  <2>1. \A b \in Numbers : inuse[b] => b \in Pool!Entries
    BY DEF MarksInv, Accounted
  <2>2. CASE Pool!FreeAll(p)
    <3>1. \A b \in Numbers : ~inuse'[b]
      BY <2>1, <2>2 DEF Pool!FreeAll, Pool!Numbers, Numbers
    <3> QED
      BY <3>1 DEF Accounted
  <2>3. CASE /\ skipped' = skipped \cup {b \in Numbers : inuse[b]}
             /\ UNCHANGED poolVars
    BY <1>b, <2>1, <2>3 DEF Accounted, poolVars
  <2> QED
    BY <1>6, <2>2, <2>3 DEF Restart
<1>7. ASSUME NEW s \in Slots, Moves(s) PROVE Accounted'
  BY <1>7, <1>c DEF Moves, Down
<1>8. ASSUME NEW s \in Slots, Release(s) PROVE Accounted'
  <2> DEFINE own == session[s].buf
  <2>1. /\ own \in held[session[s].proc] /\ session[s].proc \in Callers
        /\ api' = api /\ skipped' = skipped
        /\ inuse' = [inuse EXCEPT ![own] = @ /\ own \notin Pool!Entries]
        /\ \A t \in Slots \ {s} : session'[t] = session[t]
    BY <1>8, <1>a DEF Release, Pool!FreeOne, MarksInv, OwnInv, Occupied, At
  <2>2. own \in Numbers
    BY <2>1 DEF MarksInv, OwnInv, Pool!TypeOK, Pool!Numbers, Numbers
  <2>3. own \in Pool!Entries
    BY <2>1 DEF MarksInv, OwnInv, KnownListed
  <2>4. \A b \in Numbers : inuse'[b] => inuse[b] /\ b # own
    BY <2>1, <2>2, <2>3, <1>a
  <2>5. \A b \in Numbers : HasCapture(b) /\ b # own => HasCapture(b)'
    BY <2>1 DEF HasCapture
  <2>6. Down => Down'
    BY <2>1 DEF Down
  <2>7. skipped' = skipped
    BY <2>1
  <2> QED
    BY <1>b, <2>4, <2>5, <2>6, <2>7 DEF Accounted, MarksInv
<1>9. ASSUME NEW p \in Callers, AllocScan(p) \/ AllocCheck(p) \/ Wake(p) PROVE Accounted'
  <2>1. inuse' = inuse /\ session' = session /\ skipped' = skipped
    BY <1>9 DEF AllocScan, AllocCheck, Wake, Pool!Scan, Pool!CheckFree, poolVars
  <2>2. Down => Down'
    BY <1>9, <1>a DEF AllocScan, AllocCheck, Wake, Down
  <2> QED
    BY <2>1, <2>2, <1>c
<1>10. CASE UNCHANGED <<inuse, session, api, skipped>>
  BY <1>10, <1>c DEF Down
<1> QED
  BY <1>1, <1>2, <1>3, <1>4, <1>5, <1>6, <1>7, <1>8, <1>9, <1>10, ThreadMoves
     DEF MarksInv, OwnInv, Next, Requests, ApiStep, vars, poolVars, StopRequest, Engine

(* With any number of processes, whatever fails and whoever dies: when all *)
(* processes are up, a marked buffer belongs to a capture, or was marked   *)
(* when a process started without clearing the marks.                      *)
THEOREM CrashedMarksRecovered == Spec => []MarksAccounted
<1>1. Init => MarksInv
  <2> SUFFICES ASSUME Init PROVE MarksInv
    OBVIOUS
  <2>1. Accounted
    BY DEF Init, Pool!Init, Pool!Numbers, Accounted, Numbers
  <2> QED
    BY <2>1, InitOwnInv DEF MarksInv
<1>2. MarksInv /\ [Next]_vars => MarksInv'
  BY AccountedStep, OwnInvStep DEF MarksInv
<1>3. MarksInv => MarksAccounted
  BY DEF MarksInv, Accounted, MarksAccounted, HasCapture, Down
<1> QED
  BY <1>1, <1>2, <1>3, PTL DEF Spec

-----------------------------------------------------------------------------
(* The engines and the files *)

(* The ports whose address register bsl_process_dma knows, 0 and 1; nobody *)
(* dies; a port is started again only when its last capture is over.       *)
AddressesRight == \A port \in Ports : ThreadCXAR(port) = CXAR(port)
Careful == OneCaller /\ AddressesRight /\ ~Crashes /\ ClientWaits

Address(s) == cxar[CXAR(session[s].port)]
Words(s) == Address(s) - Base(session[s].buf)
Armed == {"poll", "flag", "last", "disarm"}
Begun == {"readback", "arm"} \cup Armed
Busy(s) == session[s].pc \notin {"none", "leaked"}

(* One capture at a time uses a port, when there are buffers for more.     *)
PortsReal == \A s \in Slots : session[s].pc # "none" => session[s].port \in Ports
OnePerPort ==
  Len(list) # 1 => \A s, t \in Slots :
    Busy(s) /\ Busy(t) /\ session[s].port = session[t].port => s = t

(* An engine that is on has a capture that polls it; the address is in the *)
(* buffer of the capture that loaded it, and as far as words were stored.  *)
EngineHasCapture ==
  \A port \in Ports : ccfr[port] =>
    \E s \in Slots : session[s].pc \in Armed /\ session[s].port = port
CountHolds(s) ==
  session[s].pc \in Begun =>
    Words(s) \in 0 .. BufSize /\ stored[session[s].buf] = Words(s)
Untouched(s) == session[s].pc = "readback" => Words(s) = 0
KnowsBase(s) == local[s].ini = Base(session[s].buf)

(* What a thread that read its address back right has seen of the address  *)
(* is no more than there is, and after its loop nothing is stored any more.*)
SeenBehind(s) == session[s].pc = "flag" => local[s].seen <= Address(s)
Ended(s) ==
  session[s].pc \in {"last", "disarm"} /\ KnowsBase(s) =>
    ~ccfr[session[s].port] \/ Words(s) = BufSize
SizeHolds(s) ==
  session[s].pc \in {"disarm", "write", "release"} /\ KnowsBase(s) =>
    /\ stored[session[s].buf] \in 0 .. BufSize
    /\ local[s].size = stored[session[s].buf] % UintRange
FileHolds(s) ==
  session[s].pc = "release" =>
    \/ local[s].file = local[s].size
    \/ "write" \in Faults /\ local[s].file \in 0 .. local[s].size

Sound(s) ==
  CountHolds(s) /\ Untouched(s) /\ SeenBehind(s) /\ Ended(s) /\ SizeHolds(s) /\ FileHolds(s)
EngineInv ==
  /\ HoldInv /\ PortsReal /\ OnePerPort /\ EngineHasCapture
  /\ \A s \in Slots : Sound(s)

(* Dividing an address by the distance of the buffers. *)
LEMMA Division ==
  ASSUME NEW b \in Nat, NEW size \in Nat \ {0}, NEW k \in 0 .. size - 1
  PROVE  (b * size + k) \div size = b /\ (b * size + k) % size = k
<1>1. b * size \in Nat /\ b * size + k \in Nat
  OBVIOUS
<1> DEFINE a == b * size + k
           q == a \div size
           r == a % size
<1>2. q \in Int /\ r \in 0 .. size - 1 /\ a = q * size + r
  BY <1>1
<1>3. CASE q = b
  BY <1>2, <1>3
<1>4. CASE q < b
  <2>1. (b - q) * size >= size
    <3>1. b - q - 1 \in Nat
      BY <1>2, <1>4
    <3>2. (b - q - 1) * size \in Nat
      BY <3>1
    <3> QED
      BY <1>2, <3>2
  <2> QED
    BY <1>2, <2>1
<1>5. CASE q > b
  <2>1. (q - b) * size >= size
    <3>1. q - b - 1 \in Nat
      BY <1>2, <1>5
    <3>2. (q - b - 1) * size \in Nat
      BY <3>1
    <3> QED
      BY <1>2, <3>2
  <2> QED
    BY <1>2, <2>1
<1> QED
  BY <1>2, <1>3, <1>4, <1>5

(* An address in a buffer, its end included, tells the buffer. *)
LEMMA AddressTells ==
  ASSUME NEW b \in Numbers, NEW a \in Int, a - Base(b) \in 0 .. BufSize
  PROVE  BufferAt(a) = b /\ (HasRoom(a) <=> a - Base(b) < BufSize)
<1> DEFINE k == a - Base(b)
<1>1. b \in Nat /\ Stride \in Nat \ {0} /\ Stride = BufSize + 1 /\ BufSize \in Nat
  BY CaptureAssumption, PoolAssumption DEF Numbers, Stride
<1>2. Base(b) \in Int /\ k \in 0 .. Stride - 1 /\ a = b * Stride + k
  <2>1. Base(b) = b * Stride /\ b * Stride \in Int
    BY <1>1 DEF Base
  <2> HIDE DEF Stride
  <2> QED
    BY <1>1, <2>1
<1>3. a \div Stride = b /\ a % Stride = k
  <2> HIDE DEF Stride, k
  <2> QED
    BY <1>1, <1>2, Division
<1> QED
  BY <1>3 DEF BufferAt, HasRoom

(* The captures that have a buffer are of different ports and buffers. *)
LEMMA LiveApart ==
  ASSUME EngineInv, NEW s \in Slots, session[s].pc \in Live
  PROVE  /\ session[s].port \in Ports /\ session[s].buf \in Numbers
         /\ \A t \in Slots \ {s} : session[t].pc \in Live =>
              /\ session[t].port # session[s].port
              /\ session[t].buf # session[s].buf
<1> USE DEF EngineInv, HoldInv, OwnInv, Occupied
<1>1. session[s].port \in Ports
  BY DEF PortsReal, Live, Starting, Running
<1>2. \A t \in Slots : session[t].pc \in Live =>
        session[t].buf \in Numbers /\ session[t].buf \in Pool!Entries
  <2> SUFFICES ASSUME NEW t \in Slots, session[t].pc \in Live
               PROVE  session[t].buf \in Numbers /\ session[t].buf \in Pool!Entries
    OBVIOUS
  <2>1. session[t].buf # 0 /\ session[t].proc \in Callers
    BY DEF Live, Starting, Running
  <2>2. session[t].buf \in held[session[t].proc]
    BY <2>1 DEF SessionsHold
  <2> QED
    BY <2>1, <2>2 DEF KnownListed, Pool!TypeOK, Pool!Numbers, Numbers
<1>3. \A t \in Slots \ {s} : session[t].pc \in Live => session[t].buf # session[s].buf
  BY DEF BuffersApart
<1>4. \A t \in Slots \ {s} : session[t].pc \in Live => session[t].port # session[s].port
  <2> SUFFICES ASSUME NEW t \in Slots \ {s}, session[t].pc \in Live, session[t].port = session[s].port
               PROVE  FALSE
    OBVIOUS
  <2>1. CASE Len(list) # 1
    BY <2>1 DEF OnePerPort, Busy, Live, Starting, Running
  <2>2. CASE Len(list) = 1
    <3>1. \A b \in Pool!Entries : b = list[1]
      BY <2>2 DEF Pool!Entries, Pool!TypeOK
    <3>2. session[t].buf = session[s].buf
      BY <1>2, <3>1
    <3> QED
      BY <1>3, <3>2
  <2> QED
    BY <2>1, <2>2
<1> QED
  BY <1>1, <1>2, <1>3, <1>4

(* Ports have address registers of their own. *)
LEMMA AddressesDiffer ==
  ASSUME NEW p \in Ports, NEW q \in Ports, CXAR(p) = CXAR(q) PROVE p = q
BY CaptureAssumption DEF CXAR

(* What every step of the thread of s leaves alone. *)
LEMMA ThreadEffect ==
  ASSUME TypesHere, NEW s \in Slots, ThreadStep(s)
  PROVE  /\ session[s].pc \in Live
         /\ \A t \in Slots \ {s} : session'[t] = session[t] /\ local'[t] = local[t]
         /\ \/ session'[s].pc = "none"
            \/ session'[s].port = session[s].port /\ session'[s].buf = session[s].buf
         /\ stored' = stored \/ LoadAddress(s)
         /\ cxar' = cxar \/ LoadAddress(s)
         /\ \A q \in Ports \ {session[s].port} : ccfr'[q] = ccfr[q]
<1> USE DEF TypesHere, Sessions, Locals, Live, Starting, Running, At, SetEngine, NoSlot
<1>1. CASE OpenFile(s) \/ HaltEngine(s) \/ LoadAddress(s)
  BY <1>1 DEF OpenFile, HaltEngine, LoadAddress, Goto
<1>2. CASE ArmEngine(s) \/ PollAddress(s)
  BY <1>2 DEF ArmEngine, PollAddress, Goto
<1>7. CASE ReadBack(s)
  <2>1. PICK ini : local' = [local EXCEPT ![s].ini = ini]
    BY <1>7 DEF ReadBack
  <2> QED
    BY <1>7, <2>1 DEF ReadBack, Goto
<1>8. CASE WriteFile(s)
  <2>1. PICK n : local' = [local EXCEPT ![s].file = n]
    BY <1>8 DEF WriteFile
  <2> QED
    BY <1>8, <2>1 DEF WriteFile, Goto
<1>3. CASE PollFlag(s)
  <2>1. PICK pc : session' = [session EXCEPT ![s].pc = pc]
    BY <1>3 DEF PollFlag, Goto
  <2> QED
    BY <1>3, <2>1 DEF PollFlag
<1>4. CASE ReadLast(s)
  <2>1. PICK n : local' = [local EXCEPT ![s].size = n]
    BY <1>4 DEF ReadLast
  <2> QED
    BY <1>4, <2>1 DEF ReadLast, Goto
<1>5. CASE DisarmEngine(s)
  BY <1>5 DEF DisarmEngine, Goto
<1>6. CASE Release(s)
  BY <1>6 DEF Release
<1> QED
  BY <1>1, <1>2, <1>3, <1>4, <1>5, <1>6, <1>7, <1>8 DEF ThreadStep

(* A port is started again only when no capture uses it. *)
LEMMA PortsStep ==
  ASSUME Careful, EngineInv, [Next]_vars
  PROVE  PortsReal' /\ OnePerPort'
<1>a. /\ DOMAIN session = Slots /\ DOMAIN api = Callers /\ TypesHere
      /\ list' = list
  BY ListStays, StepIsPoolStep DEF EngineInv, HoldInv, OwnInv, TypesHere
<1>c. ASSUME \A s \in Slots : session'[s].pc # "none" =>
               /\ session[s].pc # "none" /\ session'[s].port = session[s].port
               /\ Busy(s)' => Busy(s)
      PROVE  PortsReal' /\ OnePerPort'
  BY <1>a, <1>c DEF EngineInv, PortsReal, OnePerPort, Busy
<1>1. ASSUME NEW p \in Callers, NEW s \in Slots, NEW port \in Ports, StartRequest(p, s, port)
      PROVE  PortsReal' /\ OnePerPort'
  <2>1. /\ session'[s].port = port
        /\ \A t \in Slots \ {s} : session'[t] = session[t]
        /\ Len(list) = 1 \/ PortQuiet(port)
    BY <1>1, <1>a DEF StartRequest, MayStart, Careful
  <2>2. Len(list) # 1 => \A t \in Slots : session[t].port = port => ~Busy(t)
    BY <2>1 DEF PortQuiet, Busy
  <2> QED
    BY <1>a, <2>1, <2>2 DEF EngineInv, PortsReal, OnePerPort, Busy
<1>2. ASSUME NEW p \in Callers, AllocRefused(p) \/ AllocDone(p) \/ MapDevMem(p) \/ CreateThread(p)
      PROVE  PortsReal' /\ OnePerPort'
  <2>1. api[p].slot \in Slots /\ session[api[p].slot].pc = "setup"
    BY <1>2 DEF AllocRefused, AllocDone, MapDevMem, CreateThread,
                EngineInv, HoldInv, OwnInv, StartOwnsSlot
  <2>2. /\ \A t \in Slots \ {api[p].slot} : session'[t] = session[t]
        /\ \/ session'[api[p].slot].pc = "none"
           \/ session'[api[p].slot].port = session[api[p].slot].port
    BY <1>2, <1>a, <2>1
       DEF AllocRefused, AllocDone, MapDevMem, CreateThread, StartFails, NoSlot, TypesHere, Sessions
  <2> QED
    BY <1>c, <2>1, <2>2 DEF Busy
<1>3. ASSUME NEW s \in Slots, ThreadStep(s) PROVE PortsReal' /\ OnePerPort'
  BY <1>3, <1>a, <1>c, ThreadEffect DEF Busy, Live, Starting, Running
<1>4. CASE UNCHANGED session
  BY <1>4, <1>c DEF Busy
<1> QED
  BY <1>1, <1>2, <1>3, <1>4
     DEF Careful, Next, Requests, ApiStep, vars, StopRequest, Crash, Restart, Engine,
         AllocScan, AllocCheck, Wake

(* A step that leaves a capture, its registers and its buffer alone. *)
LEMMA SoundKept ==
  ASSUME NEW t \in Slots, Sound(t),
         session'[t] = session[t], local'[t] = local[t],
         session[t].pc \in Begun =>
           cxar'[CXAR(session[t].port)] = cxar[CXAR(session[t].port)],
         session[t].pc \in Begun \cup {"write", "release"} =>
           stored'[session[t].buf] = stored[session[t].buf],
         session[t].pc \in {"last", "disarm"} =>
           (ccfr'[session[t].port] => ccfr[session[t].port])
  PROVE  Sound(t)'
BY DEF Sound, CountHolds, Untouched, KnowsBase, SeenBehind, Ended, SizeHolds, FileHolds, Begun, Armed, Words, Address

(* A capture that has no buffer yet, or has ended. *)
LEMMA SoundIdle ==
  ASSUME NEW t \in Slots, session'[t].pc \notin Begun \cup {"write", "release"}
  PROVE  Sound(t)'
BY DEF Sound, CountHolds, Untouched, KnowsBase, SeenBehind, Ended, SizeHolds, FileHolds, Begun, Armed

(* The steps of the API thread, in which no engine is switched on. *)
LEMMA RequestSound ==
  ASSUME EngineInv, NEW p \in Callers, Requests(p) \/ ApiStep(p) \/ Restart(p)
  PROVE  EngineHasCapture' /\ \A s \in Slots : Sound(s)'
<1>a. DOMAIN session = Slots /\ DOMAIN ccfr = Ports
  BY DEF EngineInv, HoldInv, OwnInv, TypesHere
<1>1. /\ local' = local /\ cxar' = cxar /\ stored' = stored
      /\ \A q \in Ports : ccfr'[q] => ccfr[q]
  BY <1>a DEF Requests, ApiStep, StartRequest, StopRequest, AllocScan, AllocCheck, AllocRefused,
         AllocDone, MapDevMem, CreateThread, Wake, Restart
<1>2. \A t \in Slots :
        \/ session'[t] = session[t]
        \/ session[t].pc \in {"none", "setup"} /\ session'[t].pc \in {"none", "setup", "open", "leaked"}
  <2>1. CASE \E s \in Slots, port \in Ports : StartRequest(p, s, port)
    BY <2>1, <1>a DEF StartRequest
  <2>2. CASE AllocRefused(p) \/ AllocDone(p) \/ MapDevMem(p) \/ CreateThread(p)
    <3>1. api[p].slot \in Slots /\ session[api[p].slot].pc = "setup"
      BY <2>2 DEF AllocRefused, AllocDone, MapDevMem, CreateThread,
                  EngineInv, HoldInv, OwnInv, StartOwnsSlot
    <3> QED
      BY <2>2, <1>a, <3>1
         DEF AllocRefused, AllocDone, MapDevMem, CreateThread, StartFails, NoSlot,
             EngineInv, HoldInv, OwnInv, TypesHere, Sessions
  <2>3. CASE UNCHANGED session
    BY <2>3
  <2> QED
    BY <2>1, <2>2, <2>3
       DEF Requests, ApiStep, StopRequest, AllocScan, AllocCheck, Wake, Restart
<1>3. EngineHasCapture'
  BY <1>1, <1>2 DEF EngineInv, EngineHasCapture, Armed
<1>4. ASSUME NEW t \in Slots PROVE Sound(t)'
  <2>1. CASE session'[t] = session[t]
    <3>1. session[t].pc \in {"last", "disarm"} => session[t].port \in Ports
      BY DEF EngineInv, PortsReal
    <3> QED
      BY <1>1, <2>1, <3>1, SoundKept DEF EngineInv
  <2>2. CASE session'[t].pc \in {"none", "setup", "open", "leaked"}
    BY <2>2, SoundIdle DEF Begun, Armed
  <2> QED
    BY <1>2, <2>1, <2>2
<1> QED
  BY <1>3, <1>4

(* The thread of another capture. *)
LEMMA OthersSound ==
  ASSUME Careful, EngineInv, NEW s \in Slots, ThreadStep(s), NEW t \in Slots \ {s}
  PROVE  Sound(t)'
<1>1. TypesHere /\ Sound(t)
  BY DEF EngineInv, HoldInv, OwnInv
<1>2. session[s].pc \in Live
  BY <1>1, ThreadEffect
<1>3. session'[t] = session[t] /\ local'[t] = local[t]
  BY <1>1, ThreadEffect
<1>4. CASE session[t].pc \notin Live
  BY <1>3, <1>4, SoundIdle DEF Begun, Armed, Live, Starting, Running
<1>5. CASE session[t].pc \in Live
  <2>1. /\ session[s].port \in Ports /\ session[t].port \in Ports
        /\ session[s].buf \in Numbers /\ session[t].buf \in Numbers
        /\ session[t].port # session[s].port /\ session[t].buf # session[s].buf
    BY <1>2, <1>5, LiveApart
  <2>2. ccfr'[session[t].port] = ccfr[session[t].port]
    BY <1>1, <2>1, ThreadEffect
  <2>3. CXAR(session[t].port) # CXAR(session[s].port)
    BY <2>1, AddressesDiffer
  <2>4. ThreadCXAR(session[s].port) = CXAR(session[s].port)
    BY <2>1 DEF Careful, AddressesRight
  <2>5. /\ cxar'[CXAR(session[t].port)] = cxar[CXAR(session[t].port)]
        /\ stored'[session[t].buf] = stored[session[t].buf]
    <3>1. CASE LoadAddress(s)
      <4>1. CXAR(session[t].port) \in Registers
        BY <2>1, RegisterTypes
      <4>2. PICK base : cxar' = [cxar EXCEPT ![CXAR(session[s].port)] = base]
        BY <2>4, <3>1 DEF LoadAddress
      <4>3. stored' = [stored EXCEPT ![session[s].buf] = 0]
        BY <3>1, Zenon DEF LoadAddress
      <4> QED
        BY <1>1, <2>1, <2>3, <4>1, <4>2, <4>3 DEF TypesHere
    <3> QED
      BY <1>1, <3>1, ThreadEffect
  <2> QED
    BY <1>1, <1>3, <2>2, <2>5, SoundKept
<1> QED
  BY <1>4, <1>5

(* The thread itself, before the engine is on. *)
LEMMA StartSound ==
  ASSUME Careful, EngineInv, NEW s \in Slots,
         LoadAddress(s) \/ ReadBack(s) \/ ArmEngine(s)
  PROVE  Sound(s)'
<1>1. TypesHere /\ Sound(s) /\ session[s].pc \in Live
  BY DEF EngineInv, HoldInv, OwnInv, LoadAddress, ReadBack, ArmEngine, At, Live, Starting
<1>2. session[s].port \in Ports /\ session[s].buf \in Numbers
  BY <1>1, LiveApart
<1>3. ThreadCXAR(session[s].port) = CXAR(session[s].port) /\ CXAR(session[s].port) \in Registers
  BY <1>2, RegisterTypes DEF Careful, AddressesRight
<1>4. Base(session[s].buf) \in Int /\ BufSize \in Nat
  BY <1>2, RegisterTypes, CaptureAssumption
<1>5. session'[s].port = session[s].port /\ session'[s].buf = session[s].buf
  BY <1>1 DEF TypesHere, Sessions, LoadAddress, ReadBack, ArmEngine, Goto
<1> USE DEF Sound, CountHolds, Untouched, KnowsBase, SeenBehind, Ended, SizeHolds, FileHolds,
            Begun, Armed, Words, Address
<1>6. CASE LoadAddress(s)
  <2>1. session'[s].pc = "readback"
    BY <1>1, <1>6 DEF TypesHere, Sessions, LoadAddress, Goto
  <2>2. cxar'[CXAR(session[s].port)] = Base(session[s].buf)
    BY <1>1, <1>3, <1>6 DEF TypesHere, LoadAddress
  <2>3. stored'[session[s].buf] = 0
    <3>1. stored' = [stored EXCEPT ![session[s].buf] = 0]
      BY <1>6, Zenon DEF LoadAddress
    <3> QED
      BY <1>1, <1>2, <3>1 DEF TypesHere
  <2> QED
    BY <1>4, <1>5, <2>1, <2>2, <2>3
<1>7. CASE ReadBack(s)
  <2>1. /\ session[s].pc = "readback" /\ session'[s].pc = "arm"
        /\ cxar' = cxar /\ stored' = stored
    BY <1>1, <1>7 DEF TypesHere, Sessions, ReadBack, At, Goto
  <2> QED
    BY <1>1, <1>5, <2>1
<1>8. CASE ArmEngine(s)
  <2>1. /\ session[s].pc = "arm" /\ session'[s].pc = "poll"
        /\ cxar' = cxar /\ stored' = stored /\ local' = local
    BY <1>1, <1>8 DEF TypesHere, Sessions, ArmEngine, At, Goto
  <2> QED
    BY <1>1, <1>5, <2>1
<1> QED
  BY <1>6, <1>7, <1>8

(* The thread itself, from its loop to the write. *)
LEMMA LoopSound ==
  ASSUME Careful, EngineInv, NEW s \in Slots,
         PollAddress(s) \/ PollFlag(s) \/ ReadLast(s) \/ DisarmEngine(s) \/ WriteFile(s)
  PROVE  Sound(s)'
<1>1. TypesHere /\ Sound(s) /\ session[s].pc \in Live
  BY DEF EngineInv, HoldInv, OwnInv, PollAddress, PollFlag, ReadLast, DisarmEngine, WriteFile,
         At, Live, Running
<1>2. session[s].port \in Ports /\ session[s].buf \in Numbers
  BY <1>1, LiveApart
<1>3. ThreadCXAR(session[s].port) = CXAR(session[s].port) /\ CXAR(session[s].port) \in Registers
  BY <1>2, RegisterTypes DEF Careful, AddressesRight
<1>4. /\ Base(session[s].buf) \in Int /\ BufSize \in Nat
      /\ cxar[CXAR(session[s].port)] \in Int /\ local[s].seen \in Int
  BY <1>1, <1>2, <1>3, RegisterTypes, CaptureAssumption DEF TypesHere, Locals
<1>5. /\ session'[s].port = session[s].port /\ session'[s].buf = session[s].buf
      /\ cxar' = cxar /\ stored' = stored
  <2>1. \E pc : session' = [session EXCEPT ![s].pc = pc]
    BY DEF PollAddress, PollFlag, ReadLast, DisarmEngine, WriteFile, Goto
  <2> QED
    BY <1>1, <2>1
       DEF TypesHere, Sessions, PollAddress, PollFlag, ReadLast, DisarmEngine, WriteFile
<1>6. CASE PollAddress(s)
  <2>1. /\ session[s].pc = "poll" /\ session'[s].pc = "flag" /\ ccfr' = ccfr
        /\ local'[s].ini = local[s].ini
        /\ local'[s].seen = cxar[CXAR(session[s].port)]
    BY <1>1, <1>3, <1>6 DEF TypesHere, Sessions, Locals, PollAddress, At, Goto
  <2> QED
    BY <1>1, <1>4, <1>5, <2>1
       DEF Sound, CountHolds, Untouched, KnowsBase, SeenBehind, Ended, SizeHolds, FileHolds,
           Begun, Armed, Words, Address
<1>7. CASE PollFlag(s)
  <2>1. PICK pc \in {"last", "poll"} :
          /\ session' = [session EXCEPT ![s].pc = pc]
          /\ pc = "last" => Full(s) \/ ~ccfr[session[s].port]
    BY <1>7 DEF PollFlag, Goto
  <2>2. /\ session[s].pc = "flag" /\ session'[s].pc = pc /\ ccfr' = ccfr
        /\ local'[s].ini = local[s].ini
    BY <1>1, <1>7, <2>1 DEF TypesHere, Sessions, Locals, PollFlag, At
  <2>3. Full(s) /\ KnowsBase(s) => Words(s) = BufSize
    BY <1>1, <1>4, <2>2
       DEF Full, Sound, CountHolds, KnowsBase, SeenBehind, Begun, Armed, Words, Address
  <2> QED
    BY <1>1, <1>5, <2>1, <2>2, <2>3
       DEF Sound, CountHolds, Untouched, KnowsBase, SeenBehind, Ended, SizeHolds, FileHolds,
           Begun, Armed, Words, Address
<1>8. CASE ReadLast(s)
  <2>1. /\ session[s].pc = "last" /\ session'[s].pc = "disarm" /\ ccfr' = ccfr
        /\ local'[s].ini = local[s].ini
    BY <1>1, <1>8 DEF TypesHere, Sessions, Locals, ReadLast, At, Goto
  <2>2. local'[s].size = (cxar[CXAR(session[s].port)] - local[s].ini) % UintRange
    BY <1>1, <1>3, <1>8 DEF TypesHere, Locals, ReadLast
  <2>3. /\ KnowsBase(s) =>
             cxar[CXAR(session[s].port)] - local[s].ini = stored[session[s].buf]
        /\ stored[session[s].buf] \in 0 .. BufSize
    BY <1>1, <2>1 DEF Sound, CountHolds, KnowsBase, Begun, Armed, Words, Address
  <2>4. KnowsBase(s) => local'[s].size = stored[session[s].buf] % UintRange
    BY <2>2, <2>3
  <2> QED
    BY <1>1, <1>5, <2>1, <2>3, <2>4
       DEF Sound, CountHolds, Untouched, KnowsBase, SeenBehind, Ended, SizeHolds, FileHolds,
           Begun, Armed, Words, Address
<1>9. CASE DisarmEngine(s)
  <2>1. session[s].pc = "disarm" /\ session'[s].pc = "write" /\ local' = local
    BY <1>1, <1>9 DEF TypesHere, Sessions, DisarmEngine, At, Goto
  <2> QED
    BY <1>1, <1>5, <2>1
       DEF Sound, CountHolds, Untouched, KnowsBase, SeenBehind, Ended, SizeHolds, FileHolds, Begun, Armed
<1>10. CASE WriteFile(s)
  <2>1. session[s].pc = "write" /\ session'[s].pc = "release"
    BY <1>1, <1>10 DEF TypesHere, Sessions, WriteFile, At, Goto
  <2>2. PICK n \in {local[s].size} \cup {k \in 0 .. local[s].size : "write" \in Faults} :
               local' = [local EXCEPT ![s].file = n]
    BY <1>10, Zenon DEF WriteFile
  <2>4. n = local[s].size \/ ("write" \in Faults /\ n \in 0 .. local[s].size)
    BY <2>2
  <2>3. /\ local'[s].ini = local[s].ini /\ local'[s].size = local[s].size /\ local'[s].file = n
    BY <1>1, <2>2 DEF TypesHere, Locals
  <2> QED
    BY <1>1, <1>5, <2>1, <2>4, <2>3
       DEF Sound, CountHolds, Untouched, KnowsBase, SeenBehind, Ended, SizeHolds, FileHolds,
           Begun, Armed
<1> QED
  BY <1>6, <1>7, <1>8, <1>9, <1>10

(* A step of the thread of one capture, for all of them. *)
LEMMA ThreadSound ==
  ASSUME Careful, EngineInv, NEW s \in Slots, ThreadStep(s)
  PROVE  EngineHasCapture' /\ \A t \in Slots : Sound(t)'
<1>1. TypesHere
  BY DEF EngineInv, HoldInv, OwnInv
<1>2. Sound(s)'
  <2>1. CASE OpenFile(s) \/ HaltEngine(s) \/ Release(s)
    <3>1. session'[s].pc \notin Begun \cup {"write", "release"}
      <4>1. CASE Release(s)
        BY <1>1, <4>1 DEF TypesHere, Release, NoSlot, Begun, Armed
      <4>2. CASE OpenFile(s) \/ HaltEngine(s)
        <5>1. PICK pc \in {"halt", "leaked", "load"} :
                session' = [session EXCEPT ![s].pc = pc]
          BY <4>2 DEF OpenFile, HaltEngine, Goto
        <5> QED
          BY <1>1, <5>1 DEF TypesHere, Sessions, Begun, Armed
      <4> QED
        BY <2>1, <4>1, <4>2
    <3> QED
      BY <3>1, SoundIdle
  <2> QED
    BY <2>1, StartSound, LoopSound DEF ThreadStep
<1>3. ASSUME NEW q \in Ports, ccfr'[q]
      PROVE  \E t \in Slots : session'[t].pc \in Armed /\ session'[t].port = q
  <2>1. CASE q # session[s].port
    <3>1. ccfr[q]
      BY <1>1, <1>3, <2>1, ThreadEffect
    <3>2. PICK t \in Slots : session[t].pc \in Armed /\ session[t].port = q
      BY <3>1 DEF EngineInv, EngineHasCapture
    <3> QED
      BY <1>1, <2>1, <3>2, ThreadEffect
  <2>2. CASE q = session[s].port
    <3>1. ~HaltEngine(s) /\ ~DisarmEngine(s)
      BY <1>1, <1>3, <2>2 DEF TypesHere, HaltEngine, DisarmEngine, SetEngine
    <3>2. CASE ArmEngine(s)
      BY <1>1, <2>2, <3>2 DEF TypesHere, Sessions, ArmEngine, Goto, Armed
    <3>3. CASE ~ArmEngine(s)
      <4>1. ccfr[q]
        BY <1>3, <3>1, <3>3
           DEF ThreadStep, OpenFile, LoadAddress, ReadBack, PollAddress, PollFlag, ReadLast,
               WriteFile, Release
      <4>2. PICK t \in Slots : session[t].pc \in Armed /\ session[t].port = q
        BY <4>1 DEF EngineInv, EngineHasCapture
      <4>3. t = s
        <5>1. session[s].pc \in Live /\ session[t].pc \in Live
          BY <1>1, <4>2, ThreadEffect DEF Armed, Live, Running
        <5> QED
          BY <2>2, <4>2, <5>1, LiveApart
      <4>4. PollAddress(s) \/ PollFlag(s) \/ ReadLast(s)
        BY <3>1, <3>3, <4>2, <4>3
           DEF ThreadStep, OpenFile, LoadAddress, ReadBack, WriteFile, Release, At, Armed
      <4>5. \E pc \in Armed : session' = [session EXCEPT ![s].pc = pc]
        BY <4>4 DEF PollAddress, PollFlag, ReadLast, Goto, Armed
      <4> QED
        BY <1>1, <2>2, <4>5 DEF TypesHere, Sessions
    <3> QED
      BY <3>2, <3>3
  <2> QED
    BY <2>1, <2>2
<1> QED
  BY <1>2, <1>3, OthersSound DEF EngineHasCapture

(* A word stored by the engine of a port. *)
LEMMA WordSound ==
  ASSUME Careful, EngineInv, NEW q \in Ports, Engine(q)
  PROVE  EngineHasCapture' /\ \A t \in Slots : Sound(t)'
<1>1. /\ TypesHere /\ session' = session /\ local' = local /\ ccfr' = ccfr /\ ccfr[q]
      /\ \A t \in Slots : Sound(t)
  BY DEF EngineInv, HoldInv, OwnInv, Engine
<1>2. PICK s \in Slots : session[s].pc \in Armed /\ session[s].port = q
  BY <1>1 DEF EngineInv, EngineHasCapture
<1>3. session[s].pc \in Live /\ session[s].buf \in Numbers
  BY <1>2, LiveApart DEF Armed, Live, Running
<1>4. PICK addr \in Int : addr = cxar[CXAR(q)]
  BY <1>1, RegisterTypes DEF TypesHere
<1>5. PICK b \in Numbers : b = session[s].buf
  BY <1>3
<1>6. /\ addr - Base(b) \in 0 .. BufSize /\ stored[b] = addr - Base(b)
      /\ Base(b) \in Int /\ BufSize \in Nat
  BY <1>1, <1>2, <1>4, <1>5, RegisterTypes, CaptureAssumption
     DEF Sound, CountHolds, Begun, Words, Address
<1>7. BufferAt(addr) = b /\ addr - Base(b) < BufSize
  BY <1>4, <1>6, AddressTells DEF Engine
<1>8. /\ cxar'[CXAR(q)] = addr + 1 /\ \A p \in Ports \ {q} : cxar'[CXAR(p)] = cxar[CXAR(p)]
  <2>1. cxar' = [cxar EXCEPT ![CXAR(q)] = addr + 1]
    BY <1>4 DEF Engine
  <2>2. \A p \in Ports : CXAR(p) \in Registers
    BY RegisterTypes
  <2> QED
    BY <1>1, <2>1, <2>2, AddressesDiffer DEF TypesHere
<1>9. stored'[b] = stored[b] + 1 /\ \A c \in Numbers \ {b} : stored'[c] = stored[c]
  <2>1. \A c \in Numbers : stored'[c] = stored[c] + IF c = b THEN 1 ELSE 0
    BY <1>4, <1>7 DEF Engine
  <2> QED
    BY <1>1, <2>1 DEF TypesHere
<1>10. Sound(s)'
  <2>1. session[s].pc \in {"poll", "flag"} \/ ~KnowsBase(s)
    BY <1>1, <1>2, <1>4, <1>5, <1>6, <1>7 DEF Sound, Ended, Words, Address, Armed
  <2> QED
    BY <1>1, <1>2, <1>4, <1>5, <1>6, <1>7, <1>8, <1>9, <2>1
       DEF Sound, CountHolds, Untouched, KnowsBase, SeenBehind, Ended, SizeHolds, FileHolds,
           Begun, Armed, Words, Address, TypesHere, Locals
<1>11. ASSUME NEW t \in Slots \ {s} PROVE Sound(t)'
  <2>1. CASE session[t].pc \notin Live
    BY <1>1, <2>1, SoundIdle DEF Begun, Armed, Live, Starting, Running
  <2>2. CASE session[t].pc \in Live
    <3>1. session[t].port \in Ports \ {q} /\ session[t].buf \in Numbers \ {b}
      BY <1>2, <1>3, <1>5, <2>2, LiveApart
    <3> QED
      BY <1>1, <1>8, <1>9, <3>1, SoundKept
  <2> QED
    BY <2>1, <2>2
<1> QED
  BY <1>1, <1>10, <1>11 DEF EngineInv, EngineHasCapture

(* EngineInv is inductive. *)
LEMMA EngineInvStep ==
  ASSUME Careful PROVE EngineInv /\ [Next]_vars => EngineInv'
<1> SUFFICES ASSUME EngineInv, [Next]_vars PROVE EngineInv'
  OBVIOUS
<1>1. HoldInv'
  BY HoldInvStep DEF Careful, EngineInv
<1>2. PortsReal' /\ OnePerPort'
  BY PortsStep
<1>3. EngineHasCapture' /\ \A t \in Slots : Sound(t)'
  <2>1. CASE UNCHANGED vars
    BY <2>1, SoundKept DEF vars, EngineInv, EngineHasCapture
  <2> QED
    BY <2>1, RequestSound, ThreadSound, WordSound DEF Careful, Next, Crash
<1> QED
  BY <1>1, <1>2, <1>3 DEF EngineInv

LEMMA InitEngineInv == Init => EngineInv
<1> SUFFICES ASSUME Init PROVE EngineInv
  OBVIOUS
<1>1. /\ \A s \in Slots : session[s].pc = "none"
      /\ \A q \in Ports : ~ccfr[q]
  BY DEF Init, NoSlot
<1> QED
  BY <1>1, InitHoldInv
     DEF EngineInv, PortsReal, OnePerPort, Busy, EngineHasCapture, Sound, CountHolds, Untouched,
         KnowsBase, SeenBehind, Ended, SizeHolds, FileHolds, Begun, Armed

-----------------------------------------------------------------------------
(* One process that does not die and starts a port again only when its     *)
(* last capture is over, ports 0 and 1: however many buffers, captures and *)
(* words, whatever calls fail and whenever captures are stopped, an engine *)
(* that is on writes into the buffer of a capture of its port.             *)
THEOREM EnginesStayConfined ==
  ASSUME Careful
  PROVE  Spec => []EngineConfined
<1>1. EngineInv => EngineConfined
  <2> SUFFICES ASSUME EngineInv, NEW q \in Ports, ccfr[q]
               PROVE  \E s \in Slots : /\ session[s].pc \in Live /\ session[s].port = q
                                       /\ session[s].buf = BufferAt(cxar[CXAR(q)])
    BY DEF EngineConfined
  <2>1. PICK s \in Slots : session[s].pc \in Armed /\ session[s].port = q
    BY DEF EngineInv, EngineHasCapture
  <2>2. session[s].pc \in Live /\ session[s].buf \in Numbers
    BY <2>1, LiveApart DEF Armed, Live, Running
  <2>3. /\ cxar[CXAR(q)] \in Int
        /\ cxar[CXAR(q)] - Base(session[s].buf) \in 0 .. BufSize
    BY <2>1, RegisterTypes
       DEF EngineInv, HoldInv, OwnInv, TypesHere, Sound, CountHolds, Begun, Words, Address
  <2> QED
    BY <2>1, <2>2, <2>3, AddressTells
<1> QED
  BY InitEngineInv, EngineInvStep, <1>1, PTL DEF Spec

(* Under the same conditions, when a buffer has fewer words than writesize *)
(* can count: the file of a capture that read its address back right is    *)
(* what the engine stored since the address was loaded, or, when a write   *)
(* may fall short, no more than that.                                      *)
THEOREM FilesHoldCaptures ==
  ASSUME Careful, BufSize < UintRange
  PROVE  Spec => []FileHoldsCapture
<1>1. EngineInv => FileHoldsCapture
  <2> SUFFICES ASSUME EngineInv, NEW s \in Slots, session[s].pc \in {"write", "release"},
                      local[s].ini = Base(session[s].buf)
               PROVE  /\ local[s].size = stored[session[s].buf]
                      /\ session[s].pc = "release" =>
                           /\ local[s].file \in 0 .. stored[session[s].buf]
                           /\ "write" \notin Faults => local[s].file = stored[session[s].buf]
    BY DEF FileHoldsCapture, At
  <2>1. PICK n \in 0 .. BufSize : n = stored[session[s].buf] /\ local[s].size = n % UintRange
    BY DEF EngineInv, Sound, SizeHolds, KnowsBase
  <2>2. n % UintRange = n
    BY CaptureAssumption
  <2>3. session[s].pc = "release" =>
          local[s].file = n \/ ("write" \in Faults /\ local[s].file \in 0 .. n)
    BY <2>1, <2>2 DEF EngineInv, Sound, FileHolds
  <2> QED
    BY <2>1, <2>2, <2>3
<1> QED
  BY InitEngineInv, EngineInvStep, <1>1, PTL DEF Spec
=============================================================================
