-------------------------- MODULE BslDriverProofs --------------------------
(***************************************************************************)
(* For any number of callers and any accesses that AsksAssumption allows,  *)
(* and although the module is loaded and unloaded while they work: MDIO    *)
(* accesses do not mix (AccessInv), and what processes and the clean-up    *)
(* may find of the driver is what OopsOnlyKnown says (Life).               *)
(***************************************************************************)
EXTENDS BslDriver, TLAPS

-----------------------------------------------------------------------------
(* The accesses *)

Addressing == {"addrgo", "addrwait"}
Moving == {"datago", "datawait", "fetch"}
Addressed == {"gap"} \cup Moving
Pc(c) == call[c].pc
Mine(c) == call[c].ask
Device(a) == <<a.phy, a.dev>>
Writes == {Target(a) : a \in {b \in Asked : b.op = "write"}}

OwnAsk == \A c \in Callers : ~Idle(c) => Mine(c) \in Asks[c]

(* A caller in one of its two requests holds the lock, and MCMR is its own. *)
HoldersLock == \A c \in Callers : Pc(c) \in Addressing \cup Moving => lock = c
OwnRequest ==
  \A c \in Callers :
    /\ Pc(c) \in Addressing => mcmr = AddressRequest(Mine(c))
    /\ Pc(c) \in Moving => mcmr = DataRequest(Mine(c))

(* MCMR holds a request that somebody made; if it is for an address while  *)
(* a caller is between its requests, it is that caller's or another's.     *)
RequestKnown ==
  mcmr = NoRequest \/ \E a \in Asked : mcmr \in {AddressRequest(a), DataRequest(a)}
NoStaleAddress ==
  \A c \in Callers : Pc(c) = "gap" /\ mcmr.kind = "addr" =>
    \/ mcmr = AddressRequest(Mine(c))
    \/ \E d \in Callers \ {c} : \E a \in Asks[d] : mcmr = AddressRequest(a)

(* So its device's latch stays as its own first request has set it.        *)
LatchIsOwn ==
  \A c \in Callers : Pc(c) \in Addressed \/ (Pc(c) = "addrwait" /\ ~busy) =>
    latch[Device(Mine(c))] = {Mine(c).reg}
ReadIsOwn ==
  \A c \in Callers : Mine(c).op = "read" /\ (Pc(c) = "fetch" \/ (Pc(c) = "datawait" /\ ~busy)) =>
    mrdr = {Target(Mine(c))}

(* A write that is pending, given up or not, still finds its register.     *)
PendingWrite == mcmr.kind = "write" => <<Where(mcmr), latch[Where(mcmr)]>> \in Writes

AccessInv ==
  /\ OwnAsk /\ HoldersLock /\ OwnRequest /\ RequestKnown /\ NoStaleAddress
  /\ LatchIsOwn /\ ReadIsOwn /\ PendingWrite /\ WritesOnlyAsked

(* The driver's life *)

(* The node is there only when the module is, and can be opened only when  *)
(* bsl_devp is what an ioctl expects of it.                                *)
NodeIsOfModule ==
  "cdev" \in kept =>
    /\ ~ret_err
    /\ module = "coming" => at \in {"cards", "buffers"}
    /\ module = "going" => at \in {"kfree", "release", "cdev_del"}
    /\ module # "out"
    /\ module \in {"coming", "live"} /\ ndev = 1 => devp = "ready"
LocksAreReady == at \in {"chrdev", "cdev"} /\ ndev = 1 => devp = "ready"
LoadingIsClean == module = "coming" => ~ret_err /\ (at = "cards" => ndev = 1 /\ "cdev" \in kept)
FilesAreOfNode == files # {} => module \in {"coming", "live"} /\ ndev = 1 /\ "cdev" \in kept
CallsAreOfFiles == \A c \in Callers : ~Idle(c) => c \in files

Life ==
  /\ NodeIsOfModule /\ LocksAreReady /\ LoadingIsClean /\ FilesAreOfNode /\ CallsAreOfFiles

DriverInv == DriverTypeOK /\ Life /\ AccessInv

-----------------------------------------------------------------------------
(* Lemmas *)

Calls ==
  [pc : {"addr", "addrgo", "addrwait", "gap", "datago", "datawait", "fetch"}, ask : Asked]
  \cup {NoAccess}

LEMMA CallType == TypeOK => call \in [Callers -> Calls]
BY DEF TypeOK, Calls

LEMMA AskedType == Asked \subseteq Access /\ \A c \in Callers : Asks[c] \subseteq Asked
BY AsksAssumption DEF Asked

(* What Step does to the calls. *)
LEMMA StepEffect ==
  ASSUME TypeOK, NEW c \in Callers, NEW from, NEW to, from # "idle", Step(c, from, to)
  PROVE  /\ Pc(c) = from /\ ~Idle(c) /\ Mine(c) \in Asked
         /\ Pc(c)' = to /\ Mine(c)' = Mine(c)
         /\ \A d \in Callers \ {c} : Pc(d)' = Pc(d) /\ Mine(d)' = Mine(d)
<1>1. call \in [Callers -> Calls]
  BY CallType
<1>2. call[c].pc = from /\ call' = [call EXCEPT ![c].pc = to]
  BY DEF Step, At
<1>3. call[c] # NoAccess
  BY <1>2 DEF NoAccess
<1>4. call[c] \in Calls
  BY <1>1
<1>5. call[c].ask \in Asked
  BY <1>3, <1>4 DEF Calls
<1>6. call'[c] = [call[c] EXCEPT !.pc = to]
  BY <1>1, <1>2
<1>7. call'[c].pc = to /\ call'[c].ask = call[c].ask
  BY <1>3, <1>4, <1>6 DEF Calls
<1>8. \A d \in Callers \ {c} : call'[d] = call[d]
  BY <1>1, <1>2
<1> QED
  BY <1>2, <1>5, <1>7, <1>8 DEF Pc, Mine, Idle

(* What the end of a call does. *)
LEMMA EndEffect ==
  ASSUME TypeOK, NEW c \in Callers, call' = [call EXCEPT ![c] = NoAccess]
  PROVE  /\ Pc(c)' = "idle" /\ Idle(c)' /\ Mine(c)'.op = None
         /\ \A d \in Callers \ {c} : Pc(d)' = Pc(d) /\ Mine(d)' = Mine(d)
<1>1. call'[c] = NoAccess /\ \A d \in Callers \ {c} : call'[d] = call[d]
  BY CallType
<1> QED
  BY <1>1 DEF Pc, Mine, Idle, NoAccess

-----------------------------------------------------------------------------
(* Initial states *)

LEMMA InitInv == DriverInit => DriverInv
<1> SUFFICES ASSUME DriverInit PROVE DriverInv
  OBVIOUS
<1> USE DEF DriverInit, Init
<1>1. \A c \in Callers : call[c] = NoAccess /\ Pc(c) = "idle" /\ Idle(c) /\ Mine(c).op = None
  BY DEF NoAccess, Pc, Idle, Mine
<1>2. TypeOK
  <2>1. call \in [Callers -> {NoAccess}]
    OBVIOUS
  <2>2. mcmr \in Requests
    BY DEF NoRequest, Requests
  <2>3. latch \in [Devices -> Latches]
    BY DEF Latches
  <2> QED
    BY <2>1, <2>2, <2>3 DEF TypeOK
<1>3. DriverTypeOK
  BY <1>2 DEF DriverTypeOK, None
<1>4. Life
  BY <1>1 DEF Life, NodeIsOfModule, LocksAreReady, LoadingIsClean, FilesAreOfNode,
              CallsAreOfFiles, None
<1>5. OwnAsk /\ HoldersLock /\ OwnRequest /\ RequestKnown /\ NoStaleAddress
  BY <1>1 DEF OwnAsk, HoldersLock, OwnRequest, RequestKnown, NoStaleAddress, Addressing, Moving
<1>6. LatchIsOwn /\ ReadIsOwn /\ PendingWrite /\ WritesOnlyAsked
  BY <1>1 DEF LatchIsOwn, ReadIsOwn, PendingWrite, WritesOnlyAsked, Addressed, Moving,
              NoRequest, None
<1> QED
  BY <1>3, <1>4, <1>5, <1>6 DEF DriverInv, AccessInv

-----------------------------------------------------------------------------
(* Types *)

LEMMA RequestTypes ==
  \A a \in Asked : AddressRequest(a) \in Requests /\ DataRequest(a) \in Requests
BY AskedType DEF AddressRequest, DataRequest, Requests, Access

LEMMA StepType ==
  ASSUME TypeOK, NEW c \in Callers, NEW from, NEW to, from # "idle", Step(c, from, to),
         to \in {"addrgo", "addrwait", "gap", "datago", "datawait", "fetch"}
  PROVE  call' \in [Callers -> Calls]
<1>1. call \in [Callers -> Calls] /\ call' = [call EXCEPT ![c].pc = to]
  BY CallType DEF Step
<1>2. call[c] \in Calls /\ call[c] # NoAccess
  BY <1>1 DEF Step, At, NoAccess
<1>3. [call[c] EXCEPT !.pc = to] \in Calls
  BY <1>2 DEF Calls
<1> QED
  BY <1>1, <1>3

LEMMA EndType ==
  ASSUME TypeOK, NEW c \in Callers, call' = [call EXCEPT ![c] = NoAccess]
  PROVE  call' \in [Callers -> Calls]
BY CallType DEF Calls

LEMMA CallerType ==
  ASSUME TypeOK, NEW c \in Callers, CallerStep(c)
  PROVE  TypeOK'
<1> USE StepType, EndType, StepEffect DEF TypeOK, Calls, Lock, Unlock
<1>1. CASE PutAddress(c)
  BY <1>1, RequestTypes DEF PutAddress, Mine
<1>2. CASE Start(c, "addrgo", "addrwait")
  BY <1>2 DEF Start
<1>3. CASE AddressDone(c)
  BY <1>3 DEF AddressDone
<1>4. CASE PutData(c)
  BY <1>4, RequestTypes DEF PutData, Mine
<1>5. CASE Start(c, "datago", "datawait")
  BY <1>5 DEF Start
<1>6. CASE DataDone(c)
  BY <1>6 DEF DataDone
<1>7. CASE Fetch(c)
  BY <1>7 DEF Fetch
<1>8. CASE Timeout(c)
  BY <1>8 DEF Timeout
<1> QED
  BY <1>1, <1>2, <1>3, <1>4, <1>5, <1>6, <1>7, <1>8 DEF CallerStep

LEMMA BeginType ==
  ASSUME TypeOK, NEW c \in Callers, NEW a \in Asks[c], Begin(c, a)
  PROVE  TypeOK'
<1>1. call' = [call EXCEPT ![c] = [pc |-> "addr", ask |-> a]]
  BY DEF Begin
<1>2. [pc |-> "addr", ask |-> a] \in Calls
  BY AskedType DEF Calls
<1>3. call' \in [Callers -> Calls]
  BY <1>1, <1>2, CallType
<1> QED
  BY <1>3 DEF Begin, TypeOK, Calls

LEMMA ServeType ==
  ASSUME TypeOK, RequestKnown, Serve
  PROVE  TypeOK'
<1>1. CASE mcmr = NoRequest
  <2>1. mcmr.kind = None
    BY <1>1 DEF NoRequest
  <2>2. latch' = latch /\ mrdr' = mrdr /\ wrote' = wrote
    BY <2>1 DEF Serve, None
  <2> QED
    BY <2>2 DEF Serve, TypeOK
<1>2. CASE \E a \in Asked : mcmr \in {AddressRequest(a), DataRequest(a)}
  <2>1. PICK a \in Asked : mcmr \in {AddressRequest(a), DataRequest(a)}
    BY <1>2
  <2>2. Where(mcmr) = Device(a) /\ Device(a) \in Devices
    BY <2>1 DEF Where, AddressRequest, DataRequest, Device, Devices
  <2>3. mcmr.kind = "addr" => {mcmr.data} \in Latches
    <3>1. CASE mcmr = AddressRequest(a)
      BY <3>1 DEF AddressRequest, Latches
    <3>2. CASE mcmr = DataRequest(a)
      BY <3>2, AskedType DEF DataRequest, Access
    <3> QED
      BY <2>1, <3>1, <3>2
  <2>4. latch[Device(a)] \in Latches
    BY <2>2 DEF TypeOK
  <2>5. latch' \in [Devices -> Latches]
    BY <2>2, <2>3 DEF Serve, TypeOK
  <2>6. mrdr' \in SUBSET (Devices \X Latches) /\ wrote' \in SUBSET (Devices \X Latches)
    BY <2>2, <2>4 DEF Serve, TypeOK
  <2> QED
    BY <2>5, <2>6 DEF Serve, TypeOK
<1> QED
  BY <1>1, <1>2 DEF RequestKnown

(* The steps of the life cycle leave the accesses alone, all but five.     *)
Loads ==
  \/ Insmod \/ Kmalloc \/ FindCards \/ RegisterPci \/ AllocChrdev \/ AddCdev \/ ReadCards
  \/ AllocBuffers \/ InitFails \/ Rmmod \/ CleanupStep
  \/ \E c \in Callers : Open(c) \/ Close(c) \/ AllocNoBuffer(c)

LEMMA LoadsLeaveAccess == Loads => UNCHANGED access
BY DEF Loads, CleanupStep, Insmod, Kmalloc, FindCards, RegisterPci, AllocChrdev, AddCdev,
       ReadCards, AllocBuffers, InitFails, Rmmod, FreeDevp, ReleaseBuffers, DeleteCdev,
       FreeChrdev, UnregisterPci, CleanupOops, Open, Close, AllocNoBuffer

LEMMA NextCases ==
  ASSUME DriverNext
  PROVE  \/ Loads
         \/ InitLocks \/ ReadCardsNull \/ Reboot
         \/ \E c \in Callers : \E a \in Asks[c] : Ask(c, a)
         \/ \E c \in Callers : Ioctl(c)
         \/ \E c \in Callers : IoctlOops(c)
         \/ Serve /\ UNCHANGED loading
BY DEF DriverNext, InitStep, CleanupStep, ProcessStep, Loads

LEMMA TypeStep ==
  ASSUME DriverTypeOK, RequestKnown, [DriverNext]_driver
  PROVE  DriverTypeOK'
<1> DEFINE LoadingTypes ==
      /\ module \in {"out", "coming", "live", "going"}
      /\ module \in {"out", "live"} => at = None
      /\ module = "coming" => at \in InitSteps
      /\ module = "going" => at \in CleanupSteps
      /\ devp \in {"null", "raw", "ready", "freed"}
      /\ ret_err \in BOOLEAN /\ ndev \in {0, 1} /\ mapped \in BOOLEAN
      /\ kept \in SUBSET Kept
      /\ files \in SUBSET Callers
      /\ oops \in BOOLEAN
<1>0. TypeOK /\ LoadingTypes /\ (DriverTypeOK' <=> TypeOK' /\ LoadingTypes')
  BY DEF DriverTypeOK
<1> HIDE DEF LoadingTypes
<1>1. CASE Loads
  <2>1. TypeOK'
    BY <1>0, <1>1, LoadsLeaveAccess DEF access, TypeOK
  <2>2. LoadingTypes'
    <3> USE <1>0 DEF LoadingTypes, InitSteps, CleanupSteps, Kept, None, Does, Loaded, data
    <3>1. CASE Insmod
      BY <3>1 DEF Insmod
    <3>2. CASE Kmalloc
      BY <3>2 DEF Kmalloc
    <3>3. CASE FindCards
      BY <3>3 DEF FindCards
    <3>4. CASE RegisterPci
      BY <3>4 DEF RegisterPci
    <3>5. CASE AllocChrdev
      BY <3>5 DEF AllocChrdev
    <3>6. CASE AddCdev
      BY <3>6 DEF AddCdev
    <3>7. CASE ReadCards
      BY <3>7 DEF ReadCards
    <3>8. CASE AllocBuffers
      BY <3>8 DEF AllocBuffers
    <3>9. CASE InitFails
      BY <3>9 DEF InitFails
    <3>10. CASE Rmmod
      BY <3>10 DEF Rmmod
    <3>11. CASE FreeDevp
      BY <3>11 DEF FreeDevp
    <3>12. CASE ReleaseBuffers
      BY <3>12 DEF ReleaseBuffers
    <3>13. CASE DeleteCdev
      BY <3>13 DEF DeleteCdev
    <3>14. CASE FreeChrdev
      BY <3>14 DEF FreeChrdev
    <3>15. CASE UnregisterPci
      BY <3>15 DEF UnregisterPci
    <3>16. CASE CleanupOops
      BY <3>16 DEF CleanupOops
    <3>17. ASSUME NEW c \in Callers, Open(c) PROVE LoadingTypes'
      BY <3>17 DEF Open
    <3>18. ASSUME NEW c \in Callers, Close(c) PROVE LoadingTypes'
      BY <3>18 DEF Close
    <3>19. ASSUME NEW c \in Callers, AllocNoBuffer(c) PROVE LoadingTypes'
      BY <3>19 DEF AllocNoBuffer
    <3> QED
      BY <1>1, <3>1, <3>2, <3>3, <3>4, <3>5, <3>6, <3>7, <3>8, <3>9, <3>10, <3>11, <3>12,
         <3>13, <3>14, <3>15, <3>16, <3>17, <3>18, <3>19 DEF Loads, CleanupStep
  <2> QED
    BY <1>0, <2>1, <2>2
<1>2. CASE InitLocks
  <2>1. TypeOK' /\ LoadingTypes'
    BY <1>0, <1>2 DEF InitLocks, TypeOK, LoadingTypes, Does, InitSteps, CleanupSteps, None
  <2> QED
    BY <1>0, <2>1
<1>3. CASE ReadCardsNull
  <2>1. TypeOK' /\ LoadingTypes'
    BY <1>0, <1>3 DEF ReadCardsNull, TypeOK, LoadingTypes, Lock, data
  <2> QED
    BY <1>0, <2>1
<1>4. CASE Reboot
  <2>1. call' \in [Callers -> Calls] /\ latch' \in [Devices -> Latches] /\ mcmr' \in Requests
    BY <1>4 DEF Reboot, Calls, Latches, NoRequest, Requests
  <2>2. TypeOK' /\ LoadingTypes'
    BY <1>0, <1>4, <2>1 DEF Reboot, TypeOK, LoadingTypes, Calls, None
  <2> QED
    BY <1>0, <2>2
<1>5. ASSUME UNCHANGED loading, TypeOK' PROVE DriverTypeOK'
  BY <1>0, <1>5 DEF LoadingTypes, loading, data
<1>6. ASSUME NEW c \in Callers, NEW a \in Asks[c], Ask(c, a) PROVE DriverTypeOK'
  BY <1>0, <1>5, <1>6, BeginType DEF Ask
<1>7. ASSUME NEW c \in Callers, Ioctl(c) PROVE DriverTypeOK'
  BY <1>0, <1>5, <1>7, CallerType DEF Ioctl
<1>8. ASSUME NEW c \in Callers, IoctlOops(c) PROVE DriverTypeOK'
  <2>1. TypeOK'
    BY <1>0, <1>8, EndType DEF IoctlOops, TypeOK, Calls, Lock
  <2>2. LoadingTypes'
    BY <1>0, <1>8 DEF IoctlOops, LoadingTypes, data
  <2> QED
    BY <1>0, <2>1, <2>2
<1>9. CASE Serve /\ UNCHANGED loading
  BY <1>0, <1>5, <1>9, ServeType
<1>10. CASE UNCHANGED driver
  BY <1>0, <1>5, <1>10 DEF driver, access, TypeOK
<1> QED
  BY <1>1, <1>2, <1>3, <1>4, <1>6, <1>7, <1>8, <1>9, <1>10, NextCases

-----------------------------------------------------------------------------
(* The life cycle *)

LEMMA CallerIsBusy ==
  ASSUME TypeOK, NEW c \in Callers, CallerStep(c)
  PROVE  ~Idle(c) /\ \A d \in Callers : ~Idle(d)' => ~Idle(d)
<1>1. ~Idle(c)
  BY DEF CallerStep, PutAddress, Start, AddressDone, PutData, DataDone, Fetch, Timeout, Step,
         At, Idle
<1>2. \A d \in Callers \ {c} : call'[d] = call[d]
  BY CallType DEF CallerStep, PutAddress, Start, AddressDone, PutData, DataDone, Fetch, Timeout,
                  Step
<1> QED
  BY <1>1, <1>2 DEF Idle

(* When the locks are made anew nobody is in an access. *)
LEMMA NobodyYet ==
  ASSUME DriverTypeOK, Life, at = "locks"
  PROVE  \A c \in Callers : Idle(c)
<1>1. module = "coming"
  BY DEF DriverTypeOK, CleanupSteps, None
<1>2. "cdev" \notin kept
  BY <1>1 DEF Life, NodeIsOfModule
<1> QED
  BY <1>2 DEF Life, FilesAreOfNode, CallsAreOfFiles

LEMMA LifeStep ==
  ASSUME DriverTypeOK, Life, [DriverNext]_driver
  PROVE  Life'
<1> DEFINE Parts ==
      NodeIsOfModule /\ LocksAreReady /\ LoadingIsClean /\ FilesAreOfNode
<1>0. TypeOK /\ Parts /\ CallsAreOfFiles /\ (Life' <=> Parts' /\ CallsAreOfFiles')
  BY DEF Life, DriverTypeOK
<1>a. /\ module \in {"out", "live"} => at = None
      /\ module = "coming" => at \in InitSteps
      /\ module = "going" => at \in CleanupSteps
      /\ module \in {"out", "coming", "live", "going"}
      /\ ndev \in {0, 1}
  BY DEF DriverTypeOK
<1>1. CASE Loads
  <2>1. Parts'
    <3> USE <1>0, <1>a DEF NodeIsOfModule, LocksAreReady, LoadingIsClean, FilesAreOfNode,
              InitSteps, CleanupSteps, None, Does, Loaded, data
    <3>1. CASE Insmod
      BY <3>1 DEF Insmod
    <3>2. CASE Kmalloc
      BY <3>2 DEF Kmalloc
    <3>3. CASE FindCards
      BY <3>3 DEF FindCards
    <3>4. CASE RegisterPci
      BY <3>4 DEF RegisterPci
    <3>5. CASE AllocChrdev
      BY <3>5 DEF AllocChrdev
    <3>6. CASE AddCdev
      BY <3>6 DEF AddCdev
    <3>7. CASE ReadCards
      BY <3>7 DEF ReadCards
    <3>8. CASE AllocBuffers
      BY <3>8 DEF AllocBuffers
    <3>9. CASE InitFails
      BY <3>9 DEF InitFails
    <3>10. CASE Rmmod
      BY <3>10 DEF Rmmod
    <3>11. CASE FreeDevp
      BY <3>11 DEF FreeDevp
    <3>12. CASE ReleaseBuffers
      BY <3>12 DEF ReleaseBuffers
    <3>13. CASE DeleteCdev
      BY <3>13 DEF DeleteCdev
    <3>14. CASE FreeChrdev
      BY <3>14 DEF FreeChrdev
    <3>15. CASE UnregisterPci
      BY <3>15 DEF UnregisterPci
    <3>16. CASE CleanupOops
      BY <3>16 DEF CleanupOops
    <3>17. ASSUME NEW c \in Callers, Open(c) PROVE Parts'
      BY <3>17 DEF Open
    <3>18. ASSUME NEW c \in Callers, Close(c) PROVE Parts'
      BY <3>18 DEF Close
    <3>19. ASSUME NEW c \in Callers, AllocNoBuffer(c) PROVE Parts'
      BY <3>19 DEF AllocNoBuffer
    <3> QED
      BY <1>1, <3>1, <3>2, <3>3, <3>4, <3>5, <3>6, <3>7, <3>8, <3>9, <3>10, <3>11, <3>12,
         <3>13, <3>14, <3>15, <3>16, <3>17, <3>18, <3>19 DEF Loads, CleanupStep
  <2>2. call' = call
    BY <1>1, LoadsLeaveAccess DEF access
  <2>3. CASE files \subseteq files'
    BY <1>0, <2>1, <2>2, <2>3 DEF CallsAreOfFiles, Idle
  <2>4. CASE \E c \in Callers : Close(c) \/ AllocNoBuffer(c)
    BY <1>0, <2>1, <2>2, <2>4 DEF CallsAreOfFiles, Idle, Close, AllocNoBuffer
  <2>5. (\E c \in Callers : Close(c) \/ AllocNoBuffer(c)) \/ files \subseteq files'
    BY <1>1 DEF Loads, CleanupStep, Insmod, Kmalloc, FindCards, RegisterPci, AllocChrdev,
       AddCdev, ReadCards, AllocBuffers, InitFails, Rmmod, FreeDevp, ReleaseBuffers, DeleteCdev,
       FreeChrdev, UnregisterPci, CleanupOops, Open
  <2> QED
    BY <2>3, <2>4, <2>5
<1>2. CASE InitLocks
  <2>1. Parts'
    BY <1>0, <1>a, <1>2 DEF InitLocks, Does, NodeIsOfModule, LocksAreReady, LoadingIsClean,
       FilesAreOfNode, InitSteps, CleanupSteps, None
  <2> QED
    BY <1>0, <1>2, <2>1 DEF InitLocks, CallsAreOfFiles, Idle
<1>3. ASSUME UNCHANGED <<module, at, data, kept>>, files' \subseteq files PROVE Parts'
  BY <1>0, <1>3 DEF NodeIsOfModule, LocksAreReady, LoadingIsClean, FilesAreOfNode, data
<1>4. CASE ReadCardsNull
  BY <1>0, <1>3, <1>4 DEF ReadCardsNull, CallsAreOfFiles, Idle
<1>5. CASE Reboot
  <2>1. Parts'
    BY <1>5 DEF Reboot, NodeIsOfModule, LocksAreReady, LoadingIsClean, FilesAreOfNode, None
  <2>2. \A c \in Callers : Idle(c)'
    BY <1>5 DEF Reboot, Idle, NoAccess
  <2> QED
    BY <1>0, <2>1, <2>2 DEF CallsAreOfFiles
<1>6. ASSUME NEW c \in Callers, NEW a \in Asks[c], Ask(c, a) PROVE Life'
  <2>1. \A d \in Callers \ {c} : call'[d] = call[d]
    BY <1>0, <1>6, CallType DEF Ask, Begin
  <2>2. files' = files /\ c \in files
    BY <1>6 DEF Ask, loading
  <2> QED
    BY <1>0, <1>3, <1>6, <2>1, <2>2 DEF Ask, loading, CallsAreOfFiles, Idle
<1>7. ASSUME NEW c \in Callers, Ioctl(c) PROVE Life'
  BY <1>0, <1>3, <1>7, CallerIsBusy DEF Ioctl, loading, CallsAreOfFiles
<1>8. ASSUME NEW c \in Callers, IoctlOops(c) PROVE Life'
  <2>1. Idle(c)' /\ \A d \in Callers \ {c} : Idle(d)' <=> Idle(d)
    BY <1>0, <1>8, EndEffect, CallType DEF IoctlOops, Idle
  <2>2. files' = files \ {c}
    BY <1>8 DEF IoctlOops
  <2>3. CallsAreOfFiles'
    BY <1>0, <2>1, <2>2 DEF CallsAreOfFiles
  <2> QED
    BY <1>0, <1>3, <1>8, <2>2, <2>3 DEF IoctlOops
<1>9. CASE Serve /\ UNCHANGED loading
  BY <1>0, <1>3, <1>9 DEF Serve, loading, CallsAreOfFiles, Idle
<1>10. CASE UNCHANGED driver
  BY <1>0, <1>3, <1>10 DEF driver, loading, access, CallsAreOfFiles, Idle
<1> QED
  BY <1>1, <1>2, <1>4, <1>5, <1>6, <1>7, <1>8, <1>9, <1>10, NextCases

-----------------------------------------------------------------------------
(* The accesses *)

LEMMA LockExcludes ==
  ASSUME HoldersLock
  PROVE  /\ lock \notin Callers => \A d \in Callers : Pc(d) \notin Addressing \cup Moving
         /\ \A c \in Callers : Pc(c) \in Addressing \cup Moving =>
              \A d \in Callers \ {c} : Pc(d) \notin Addressing \cup Moving
BY DEF HoldersLock

LEMMA RequestFacts ==
  ASSUME NEW a \in Asked
  PROVE  /\ AddressRequest(a).kind = "addr" /\ AddressRequest(a).data = a.reg
         /\ Where(AddressRequest(a)) = Device(a)
         /\ DataRequest(a).kind = a.op /\ a.op \in {"read", "write"}
         /\ Where(DataRequest(a)) = Device(a)
         /\ Device(a) \in Devices /\ Target(a) = <<Device(a), {a.reg}>>
BY AskedType DEF AddressRequest, DataRequest, Where, Device, Devices, Target, Access

LEMMA CallerKeepsAccess ==
  ASSUME TypeOK, AccessInv, NEW c \in Callers, CallerStep(c)
  PROVE  AccessInv'
<1>a. None \notin Callers
  BY AsksAssumption
<1>b. \A d \in Callers : Idle(d) <=> Pc(d) = "idle"
  BY DEF Pc, Idle
<1>c. \A d \in Callers : (Idle(d) <=> Pc(d) = "idle")'
  BY DEF Pc, Idle
<1>d. \A d \in Callers : Pc(d) # "idle" => Mine(d) \in Asks[d] /\ Mine(d) \in Asked
  BY <1>b, AskedType DEF AccessInv, OwnAsk
<1>e. CallerStep(c) => \A d \in Callers \ {c} : Pc(d)' = Pc(d) /\ Mine(d)' = Mine(d)
  BY CallType DEF CallerStep, PutAddress, Start, AddressDone, PutData, DataDone, Fetch, Timeout,
                  Step, Pc, Mine
<1> USE <1>a, <1>b, <1>c, <1>d, <1>e, LockExcludes DEF AccessInv, Addressing, Moving, Addressed
<1>1. CASE PutAddress(c)
  <2>1. /\ Pc(c) = "addr" /\ Pc(c)' = "addrgo" /\ Mine(c)' = Mine(c)
        /\ lock = None /\ lock' = c /\ mcmr' = AddressRequest(Mine(c))
        /\ UNCHANGED <<busy, mrdr, latch, wrote>>
    BY <1>1, StepEffect DEF PutAddress, Lock, Mine
  <2>2. \A d \in Callers : Pc(d) \notin Addressing \cup Moving
    BY <2>1 DEF HoldersLock
  <2>3. OwnAsk' /\ HoldersLock' /\ OwnRequest' /\ RequestKnown'
    BY <2>1, <2>2 DEF OwnAsk, HoldersLock, OwnRequest, RequestKnown
  <2>4. NoStaleAddress'
    BY <2>1, <2>2 DEF NoStaleAddress
  <2>5. LatchIsOwn' /\ ReadIsOwn'
    BY <2>1, <2>2 DEF LatchIsOwn, ReadIsOwn
  <2>6. PendingWrite' /\ WritesOnlyAsked'
    BY <2>1, RequestFacts DEF PendingWrite, WritesOnlyAsked
  <2> QED
    BY <2>3, <2>4, <2>5, <2>6
<1>2. CASE Start(c, "addrgo", "addrwait") \/ Start(c, "datago", "datawait")
  <2>1. /\ Pc(c) \in {"addrgo", "datago"} /\ Mine(c)' = Mine(c)
        /\ Pc(c)' = IF Pc(c) = "addrgo" THEN "addrwait" ELSE "datawait"
        /\ busy' = TRUE
        /\ UNCHANGED <<lock, mcmr, mrdr, latch, wrote>>
    BY <1>2, StepEffect DEF Start
  <2>2. \A d \in Callers \ {c} : Pc(d) \notin Addressing \cup Moving
    BY <2>1
  <2>3. OwnAsk' /\ HoldersLock' /\ OwnRequest' /\ RequestKnown' /\ NoStaleAddress'
    BY <2>1, <2>2 DEF OwnAsk, HoldersLock, OwnRequest, RequestKnown, NoStaleAddress
  <2>4. LatchIsOwn' /\ ReadIsOwn' /\ PendingWrite' /\ WritesOnlyAsked'
    BY <2>1, <2>2 DEF LatchIsOwn, ReadIsOwn, PendingWrite, WritesOnlyAsked
  <2> QED
    BY <2>3, <2>4
<1>3. CASE AddressDone(c)
  <2>1. /\ Pc(c) = "addrwait" /\ Pc(c)' = "gap" /\ Mine(c)' = Mine(c)
        /\ ~busy /\ lock' = None
        /\ UNCHANGED <<mcmr, busy, mrdr, latch, wrote>>
    BY <1>3, StepEffect DEF AddressDone, Unlock
  <2>2. \A d \in Callers \ {c} : Pc(d) \notin Addressing \cup Moving
    BY <2>1
  <2>3. OwnAsk' /\ HoldersLock' /\ OwnRequest' /\ RequestKnown'
    BY <2>1, <2>2 DEF OwnAsk, HoldersLock, OwnRequest, RequestKnown
  <2>4. NoStaleAddress'
    BY <2>1, <2>2 DEF NoStaleAddress, OwnRequest
  <2>5. LatchIsOwn' /\ ReadIsOwn' /\ PendingWrite' /\ WritesOnlyAsked'
    BY <2>1, <2>2 DEF LatchIsOwn, ReadIsOwn, PendingWrite, WritesOnlyAsked
  <2> QED
    BY <2>3, <2>4, <2>5
<1>4. CASE PutData(c)
  <2>1. /\ Pc(c) = "gap" /\ Pc(c)' = "datago" /\ Mine(c)' = Mine(c)
        /\ lock = None /\ lock' = c /\ mcmr' = DataRequest(Mine(c))
        /\ UNCHANGED <<busy, mrdr, latch, wrote>>
    BY <1>4, StepEffect DEF PutData, Lock, Mine
  <2>2. \A d \in Callers : Pc(d) \notin Addressing \cup Moving
    BY <2>1 DEF HoldersLock
  <2>3. OwnAsk' /\ HoldersLock' /\ OwnRequest' /\ RequestKnown'
    BY <2>1, <2>2 DEF OwnAsk, HoldersLock, OwnRequest, RequestKnown
  <2>4. mcmr'.kind # "addr" /\ Where(mcmr') = Device(Mine(c))
    BY <2>1, RequestFacts
  <2>5. NoStaleAddress'
    BY <2>4 DEF NoStaleAddress
  <2>6. LatchIsOwn' /\ ReadIsOwn' /\ WritesOnlyAsked'
    BY <2>1, <2>2 DEF LatchIsOwn, ReadIsOwn, WritesOnlyAsked
  <2>7. latch[Device(Mine(c))] = {Mine(c).reg}
    BY <2>1 DEF LatchIsOwn
  <2>8. Mine(c).op = "write" => Target(Mine(c)) \in Writes
    BY <2>1 DEF Writes
  <2>9. PendingWrite'
    <3>1. mcmr'.kind = Mine(c).op /\ Target(Mine(c)) = <<Device(Mine(c)), {Mine(c).reg}>>
      BY <2>1, RequestFacts
    <3>2. Where(mcmr)' = Device(Mine(c)) /\ latch' = latch
      BY <2>1, <2>4 DEF Where
    <3> QED
      BY <2>7, <2>8, <3>1, <3>2 DEF PendingWrite
  <2> QED
    BY <2>3, <2>5, <2>6, <2>9
<1>5. CASE DataDone(c)
  <2>1. /\ Pc(c) = "datawait" /\ Pc(c)' = "fetch" /\ Mine(c)' = Mine(c)
        /\ ~busy
        /\ UNCHANGED <<lock, mcmr, busy, mrdr, latch, wrote>>
    BY <1>5, StepEffect DEF DataDone
  <2>2. OwnAsk' /\ HoldersLock' /\ OwnRequest' /\ RequestKnown' /\ NoStaleAddress'
    BY <2>1 DEF OwnAsk, HoldersLock, OwnRequest, RequestKnown, NoStaleAddress
  <2>3. LatchIsOwn' /\ ReadIsOwn' /\ PendingWrite' /\ WritesOnlyAsked'
    BY <2>1 DEF LatchIsOwn, ReadIsOwn, PendingWrite, WritesOnlyAsked
  <2> QED
    BY <2>2, <2>3
<1>6. CASE Fetch(c) \/ Timeout(c)
  <2>1. /\ Pc(c) \in Addressing \cup Moving /\ Pc(c)' = "idle" /\ Mine(c)'.op = None
        /\ lock' = None
        /\ UNCHANGED <<mcmr, busy, mrdr, latch, wrote>>
    BY <1>6, EndEffect DEF Fetch, Timeout, At, Pc, Unlock
  <2>2. \A d \in Callers \ {c} : Pc(d) \notin Addressing \cup Moving
    BY <2>1
  <2>3. OwnAsk' /\ HoldersLock' /\ OwnRequest' /\ RequestKnown' /\ NoStaleAddress'
    BY <2>1, <2>2 DEF OwnAsk, HoldersLock, OwnRequest, RequestKnown, NoStaleAddress
  <2>4. LatchIsOwn' /\ ReadIsOwn' /\ PendingWrite' /\ WritesOnlyAsked'
    BY <2>1, <2>2 DEF LatchIsOwn, ReadIsOwn, PendingWrite, WritesOnlyAsked
  <2> QED
    BY <2>3, <2>4
<1> QED
  BY <1>1, <1>2, <1>3, <1>4, <1>5, <1>6 DEF CallerStep

LEMMA BeginKeepsAccess ==
  ASSUME TypeOK, AccessInv, NEW c \in Callers, NEW a \in Asks[c], Begin(c, a)
  PROVE  AccessInv'
<1>1. Pc(c) = "idle" /\ Pc(c)' = "addr" /\ Mine(c)' = a
  BY CallType DEF Begin, Idle, Pc, Mine
<1>2. \A d \in Callers \ {c} : Pc(d)' = Pc(d) /\ Mine(d)' = Mine(d) /\ (Idle(d)' <=> Idle(d))
  BY CallType DEF Begin, Pc, Mine, Idle
<1>3. UNCHANGED <<lock, mcmr, busy, mrdr, latch, wrote>>
  BY DEF Begin
<1> USE DEF AccessInv, Addressing, Moving, Addressed
<1>4. OwnAsk' /\ HoldersLock' /\ OwnRequest' /\ RequestKnown' /\ NoStaleAddress'
  BY <1>1, <1>2, <1>3 DEF OwnAsk, HoldersLock, OwnRequest, RequestKnown, NoStaleAddress
<1>5. LatchIsOwn' /\ ReadIsOwn' /\ PendingWrite' /\ WritesOnlyAsked'
  BY <1>1, <1>2, <1>3 DEF LatchIsOwn, ReadIsOwn, PendingWrite, WritesOnlyAsked
<1> QED
  BY <1>4, <1>5

(* The FPGA serves a request late or in time: the latch of a device is set *)
(* only as the caller that is in an access to it has asked.                *)
LEMMA ServeKeepsAccess ==
  ASSUME TypeOK, AccessInv, Serve
  PROVE  AccessInv'
<1>1. /\ busy /\ busy' = FALSE /\ UNCHANGED <<lock, call, mcmr>>
      /\ \A d \in Callers : Pc(d)' = Pc(d) /\ Mine(d)' = Mine(d) /\ (Idle(d)' <=> Idle(d))
  BY DEF Serve, Pc, Mine, Idle
<1>2. \A d \in Callers : Pc(d) # "idle" => Mine(d) \in Asks[d] /\ Mine(d) \in Asked
  BY AskedType DEF AccessInv, OwnAsk, Pc, Idle
<1>3. OwnAsk' /\ HoldersLock' /\ OwnRequest' /\ RequestKnown' /\ NoStaleAddress'
  BY <1>1 DEF AccessInv, OwnAsk, HoldersLock, OwnRequest, RequestKnown, NoStaleAddress
<1>4. /\ mcmr.kind # "addr" => latch' = latch
      /\ mcmr.kind = "addr" => latch' = [latch EXCEPT ![Where(mcmr)] = {mcmr.data}]
  BY DEF Serve
<1>5. ASSUME NEW c \in Callers, Pc(c) \in Addressed \cup {"addrwait"}
      PROVE  latch'[Device(Mine(c))] = {Mine(c).reg}
  <2>1. Mine(c) \in Asks[c] /\ Mine(c) \in Asked /\ Device(Mine(c)) \in Devices
    BY <1>2, <1>5, RequestFacts DEF Addressed, Moving
  <2>2. CASE Pc(c) = "addrwait"
    <3>1. mcmr = AddressRequest(Mine(c))
      BY <2>2 DEF AccessInv, OwnRequest, Addressing
    <3> QED
      BY <1>4, <2>1, <3>1, RequestFacts DEF TypeOK
  <2>3. CASE Pc(c) \in Moving
    <3>1. mcmr.kind # "addr"
      BY <2>1, <2>3, RequestFacts DEF AccessInv, OwnRequest
    <3> QED
      BY <1>4, <2>3, <3>1 DEF AccessInv, LatchIsOwn, Addressed
  <2>4. CASE Pc(c) = "gap"
    <3>1. latch[Device(Mine(c))] = {Mine(c).reg}
      BY <2>4 DEF AccessInv, LatchIsOwn, Addressed
    <3>2. CASE mcmr.kind # "addr"
      BY <1>4, <3>1, <3>2
    <3>3. CASE mcmr = AddressRequest(Mine(c))
      BY <1>4, <2>1, <3>3, RequestFacts DEF TypeOK
    <3>4. ASSUME NEW d \in Callers \ {c}, NEW a \in Asks[d], mcmr = AddressRequest(a)
          PROVE  latch'[Device(Mine(c))] = {Mine(c).reg}
      <4>1. Device(a) = Device(Mine(c)) => a.reg = Mine(c).reg
        BY <2>1, AsksAssumption DEF Device
      <4>2. Where(mcmr) = Device(a) /\ mcmr.data = a.reg /\ mcmr.kind = "addr"
        BY <3>4, AskedType, RequestFacts
      <4> QED
        BY <1>4, <2>1, <3>1, <4>1, <4>2 DEF TypeOK
    <3> QED
      BY <2>4, <3>2, <3>3, <3>4 DEF AccessInv, NoStaleAddress
  <2> QED
    BY <1>5, <2>2, <2>3, <2>4 DEF Addressed
<1>6. LatchIsOwn'
  BY <1>1, <1>5 DEF LatchIsOwn, Device
<1>7. ASSUME NEW c \in Callers, Pc(c) \in Moving, Mine(c).op = "read"
      PROVE  mrdr' = {Target(Mine(c))}
  <2>1. mcmr = DataRequest(Mine(c)) /\ Mine(c) \in Asked
    BY <1>2, <1>7 DEF AccessInv, OwnRequest, Moving
  <2>2. latch[Device(Mine(c))] = {Mine(c).reg}
    BY <1>7 DEF AccessInv, LatchIsOwn, Addressed
  <2>3. mcmr.kind = "read" /\ Where(mcmr) = Device(Mine(c))
    BY <1>7, <2>1, RequestFacts
  <2>4. mrdr' = {<<Where(mcmr), latch[Where(mcmr)]>>}
    BY <2>3 DEF Serve
  <2> QED
    BY <2>1, <2>2, <2>3, <2>4, RequestFacts
<1>8. ReadIsOwn'
  BY <1>1, <1>7 DEF ReadIsOwn, Target, Moving
<1>9. PendingWrite'
  BY <1>1, <1>4 DEF AccessInv, PendingWrite
<1>10. WritesOnlyAsked'
  BY DEF Serve, AccessInv, PendingWrite, WritesOnlyAsked, Writes
<1> QED
  BY <1>3, <1>6, <1>8, <1>9, <1>10 DEF AccessInv

(* Where all are idle, nothing but the history is left of the accesses.    *)
LEMMA IdleKeepsAccess ==
  ASSUME AccessInv, \A c \in Callers : Idle(c)', UNCHANGED <<mcmr, latch, wrote>>
  PROVE  AccessInv'
<1>1. \A c \in Callers : Pc(c)' = "idle"
  BY DEF Pc, Idle
<1> QED
  BY <1>1 DEF AccessInv, OwnAsk, HoldersLock, OwnRequest, RequestKnown, NoStaleAddress,
     LatchIsOwn, ReadIsOwn, PendingWrite, WritesOnlyAsked, Addressing, Moving, Addressed

LEMMA AccessStep ==
  ASSUME DriverInv, [DriverNext]_driver
  PROVE  AccessInv'
<1>0. DriverTypeOK /\ TypeOK /\ Life /\ AccessInv
  BY DEF DriverInv, DriverTypeOK
<1>a. None \notin Callers /\ Loader \notin Callers
  BY AsksAssumption
<1>b. ASSUME UNCHANGED access PROVE AccessInv'
  BY <1>0, <1>b DEF access, AccessInv, OwnAsk, HoldersLock, OwnRequest, RequestKnown,
     NoStaleAddress, LatchIsOwn, ReadIsOwn, PendingWrite, WritesOnlyAsked, Pc, Mine, Idle
<1>1. CASE Loads
  BY <1>1, <1>b, LoadsLeaveAccess
<1>2. CASE InitLocks
  <2>1. at = "locks"
    BY <1>2 DEF InitLocks, Does
  <2> QED
    BY <1>0, <1>2, <2>1, NobodyYet, IdleKeepsAccess DEF InitLocks, Idle
<1>3. CASE ReadCardsNull
  <2>1. lock = None /\ UNCHANGED <<call, mcmr, busy, mrdr, latch, wrote>>
    BY <1>3 DEF ReadCardsNull, Lock
  <2>2. \A d \in Callers : Pc(d) \notin Addressing \cup Moving
    BY <1>0, <1>a, <2>1 DEF AccessInv, HoldersLock
  <2> QED
    BY <1>0, <2>1, <2>2 DEF AccessInv, OwnAsk, HoldersLock, OwnRequest, RequestKnown,
       NoStaleAddress, LatchIsOwn, ReadIsOwn, PendingWrite, WritesOnlyAsked, Pc, Mine, Idle
<1>4. CASE Reboot
  <2>1. \A c \in Callers : Idle(c)' /\ Pc(c)' = "idle"
    BY <1>4 DEF Reboot, NoAccess, Idle, Pc
  <2>2. mcmr' = NoRequest /\ wrote' = wrote
    BY <1>4 DEF Reboot
  <2>3. mcmr'.kind # "write"
    BY <2>2 DEF NoRequest, None
  <2> QED
    BY <1>0, <2>1, <2>2, <2>3 DEF AccessInv, OwnAsk, HoldersLock, OwnRequest, RequestKnown,
       NoStaleAddress, LatchIsOwn, ReadIsOwn, PendingWrite, WritesOnlyAsked, Addressing, Moving,
       Addressed
<1>5. ASSUME NEW c \in Callers, NEW a \in Asks[c], Ask(c, a) PROVE AccessInv'
  BY <1>0, <1>5, BeginKeepsAccess DEF Ask
<1>6. ASSUME NEW c \in Callers, Ioctl(c) PROVE AccessInv'
  BY <1>0, <1>6, CallerKeepsAccess DEF Ioctl
<1>7. ASSUME NEW c \in Callers, IoctlOops(c) PROVE AccessInv'
  <2>1. /\ Pc(c)' = "idle" /\ Idle(c)'
        /\ \A d \in Callers \ {c} :
             Pc(d)' = Pc(d) /\ Mine(d)' = Mine(d) /\ (Idle(d)' <=> Idle(d))
    BY <1>0, <1>7, EndEffect, CallType DEF IoctlOops, Idle
  <2>2. UNCHANGED <<mcmr, busy, mrdr, latch, wrote>>
    BY <1>7 DEF IoctlOops
  <2>3. lock' = lock \/ (lock = None /\ lock' = c)
    BY <1>7 DEF IoctlOops, Lock
  <2>4. HoldersLock'
    BY <1>0, <1>a, <2>1, <2>3 DEF AccessInv, HoldersLock, Addressing, Moving
  <2> QED
    BY <1>0, <2>1, <2>2, <2>4 DEF AccessInv, OwnAsk, OwnRequest, RequestKnown, NoStaleAddress,
       LatchIsOwn, ReadIsOwn, PendingWrite, WritesOnlyAsked, Addressing, Moving, Addressed
<1>8. CASE Serve /\ UNCHANGED loading
  BY <1>0, <1>8, ServeKeepsAccess
<1>9. CASE UNCHANGED driver
  BY <1>9, <1>b DEF driver
<1> QED
  BY <1>1, <1>2, <1>3, <1>4, <1>5, <1>6, <1>7, <1>8, <1>9, NextCases

-----------------------------------------------------------------------------
(* Theorems *)

LEMMA DriverInvariant == DriverSpec => []DriverInv
<1>1. DriverInv /\ [DriverNext]_driver => DriverInv'
  BY TypeStep, LifeStep, AccessStep DEF DriverInv, AccessInv
<1> QED
  BY InitInv, <1>1, PTL DEF DriverSpec

(* The driver is type correct for any callers, however it is loaded.       *)
THEOREM DriverTypeCorrect == DriverSpec => []DriverTypeOK
<1>1. DriverInv => DriverTypeOK
  BY DEF DriverInv
<1> QED
  BY <1>1, DriverInvariant, PTL

(* A read that does not fail returns the register it asked for, whatever   *)
(* requests were given up and whenever the lock is dropped or made anew.   *)
THEOREM ReadsReturnTheirRegister == DriverSpec => []ReadsItsRegister
<1>1. DriverInv => ReadsItsRegister
  BY DEF DriverInv, AccessInv, ReadIsOwn, ReadsItsRegister, At, Pc, Mine
<1> QED
  BY <1>1, DriverInvariant, PTL

(* No register is written that nobody asked to write, late writes included. *)
THEOREM OnlyAskedIsWritten == DriverSpec => []WritesOnlyAsked
<1>1. DriverInv => WritesOnlyAsked
  BY DEF DriverInv, AccessInv
<1> QED
  BY <1>1, DriverInvariant, PTL

(* The kernel hits a bad address only in the three ways of OopsOnlyKnown:  *)
(* a process that has the node open finds a driver that is ready, but maybe *)
(* without its card or its buffers.                                        *)
THEOREM OopsIsKnown == DriverSpec => OopsOnlyKnown
<1> DEFINE Known == ~oops /\ oops' => CardNotMapped \/ CleanupItself \/ NoBufferYet
<1>1. ASSUME DriverInv, DriverNext PROVE Known
  <2>a. \A c \in files : ndev = 1 /\ devp = "ready"
    BY <1>1 DEF DriverInv, Life, FilesAreOfNode, NodeIsOfModule
  <2>1. CASE Loads
    <3>1. ASSUME CleanupOops PROVE Known
      <4>1. module = "going"
        BY <1>1, <3>1 DEF CleanupOops, DriverInv, DriverTypeOK, InitSteps, CleanupSteps, None
      <4> QED
        BY <3>1, <4>1 DEF CleanupOops, access, CleanupItself
    <3>2. ASSUME NEW c \in Callers, AllocNoBuffer(c) PROVE Known
      BY <2>a, <3>2 DEF AllocNoBuffer, NoBufferYet
    <3>3. ~CleanupOops /\ ~(\E c \in Callers : AllocNoBuffer(c)) => oops' = oops \/ ~oops'
      BY <2>1 DEF Loads, CleanupStep, Insmod, Kmalloc, FindCards, RegisterPci, AllocChrdev,
         AddCdev, ReadCards, AllocBuffers, InitFails, Rmmod, FreeDevp, ReleaseBuffers, DeleteCdev,
         FreeChrdev, UnregisterPci, Open, Close
    <3> QED
      BY <3>1, <3>2, <3>3
  <2>2. CASE InitLocks \/ Reboot
    BY <2>2 DEF InitLocks, Reboot
  <2>3. CASE ReadCardsNull
    <3>1. module = "coming"
      BY <1>1, <2>3 DEF ReadCardsNull, DriverInv, DriverTypeOK, CleanupSteps, None
    <3> QED
      BY <1>1, <2>3, <3>1 DEF ReadCardsNull, DriverInv, Life, LoadingIsClean, CardNotMapped
  <2>4. ASSUME UNCHANGED loading PROVE Known
    BY <2>4 DEF loading
  <2>5. ASSUME NEW c \in Callers, IoctlOops(c) PROVE Known
    <3>1. c \in files
      BY <1>1, <2>5 DEF IoctlOops, DriverInv, Life, CallsAreOfFiles
    <3> QED
      BY <2>a, <2>5, <3>1 DEF IoctlOops, There, CardNotMapped
  <2> QED
    BY <1>1, <2>1, <2>2, <2>3, <2>4, <2>5, NextCases DEF Ask, Ioctl
<1>2. DriverInv /\ [DriverNext]_driver => [Known]_driver
  BY <1>1
<1> QED
  BY <1>2, DriverInvariant, PTL DEF DriverSpec, OopsOnlyKnown
=============================================================================
