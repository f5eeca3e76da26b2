------------------------------ MODULE BslMdio ------------------------------
(***************************************************************************)
(* Access to the PHY registers of a card over MDIO (module/bsl_phy.c): the *)
(* ioctls CMD_READ_MDIO and CMD_WRITE_MDIO.  An access is two requests to  *)
(* the FPGA, one that sets the address latch of a device in a PHY and one  *)
(* that reads or writes the register it points at.  A request is put in    *)
(* MCMR, started by the request flag of MRWR, and done when the flag is    *)
(* clear; a value read is in MRDR.  lock_hwaccess is taken for each of the *)
(* two requests and dropped in between.                                    *)
(***************************************************************************)
EXTENDS Naturals

CONSTANTS
  Callers,  \* processes that issue the ioctls
  Asks      \* Asks[c]: the accesses c makes, of the form Access below

None == "none"
Loader == "insmod"  \* the process that loads the driver (BslDriver)

Access == [op : {"read", "write"}, phy : Nat, dev : Nat, reg : Nat]

(* Two callers that use the same device of the same PHY ask for the same   *)
(* register: all library calls read the link status, register 1 of device  *)
(* 1, and nothing in the driver keeps other accesses apart.                *)
ASSUME AsksAssumption ==
  /\ None \notin Callers /\ Loader \notin Callers
  /\ Asks \in [Callers -> SUBSET Access]
  /\ \A c, d \in Callers : c # d =>
       \A a \in Asks[c], b \in Asks[d] : a.phy = b.phy /\ a.dev = b.dev => a.reg = b.reg

VARIABLES
  lock,    \* who holds lock_hwaccess: a caller, the Loader or nobody
  call,    \* what each caller is doing
  mcmr,    \* the request register: kind, PHY, device and data
  busy,    \* the request flag of MRWR
  mrdr,    \* the register whose value MRDR holds, as a set: {} at first
  latch,   \* the address latch of each device, as a set: {} at first
  wrote    \* history: the registers the FPGA was made to write

vars == <<lock, call, mcmr, busy, mrdr, latch, wrote>>

Asked == UNION {Asks[c] : c \in Callers}
Devices == {<<a.phy, a.dev>> : a \in Asked}
Latches == {{}} \cup {{a.reg} : a \in Asked}
Target(a) == <<<<a.phy, a.dev>>, {a.reg}>>

NoAccess == [pc |-> "idle", ask |-> [op |-> None, phy |-> 0, dev |-> 0, reg |-> 0]]
Idle(c) == call[c].pc = "idle"

Requests == [kind : {None, "addr", "read", "write"}, phy : Nat, dev : Nat, data : Nat]
Where(r) == <<r.phy, r.dev>>
AddressRequest(a) == [kind |-> "addr", phy |-> a.phy, dev |-> a.dev, data |-> a.reg]
(* The data of a write stands for the writer's value. *)
DataRequest(a) == [kind |-> a.op, phy |-> a.phy, dev |-> a.dev, data |-> 0]
NoRequest == [kind |-> None, phy |-> 0, dev |-> 0, data |-> 0]

TypeOK ==
  /\ lock \in Callers \cup {Loader, None}
  /\ call \in [Callers ->
       [pc : {"addr", "addrgo", "addrwait", "gap", "datago", "datawait", "fetch"},
        ask : Asked] \cup {NoAccess}]
  /\ mcmr \in Requests
  /\ busy \in BOOLEAN
  /\ mrdr \in SUBSET (Devices \X Latches)
  /\ latch \in [Devices -> Latches]
  /\ wrote \in SUBSET (Devices \X Latches)

Init ==
  /\ lock = None
  /\ call = [c \in Callers |-> NoAccess]
  /\ mcmr = NoRequest
  /\ busy = FALSE
  /\ mrdr = {}
  /\ latch = [d \in Devices |-> {}]
  /\ wrote = {}

-----------------------------------------------------------------------------
(* bsl_read_mdio_data and bsl_write_mdio_data *)

At(c, pc) == call[c].pc = pc
Step(c, from, to) == At(c, from) /\ call' = [call EXCEPT ![c].pc = to]
Lock(c) == lock = None /\ lock' = c
Unlock == lock' = None

Begin(c, a) ==
  /\ Idle(c)
  /\ call' = [call EXCEPT ![c] = [pc |-> "addr", ask |-> a]]
  /\ UNCHANGED <<lock, mcmr, busy, mrdr, latch, wrote>>

(* The address request: MCMR first, then MRWR. *)
PutAddress(c) ==
  /\ Step(c, "addr", "addrgo")
  /\ Lock(c)
  /\ mcmr' = AddressRequest(call[c].ask)
  /\ UNCHANGED <<busy, mrdr, latch, wrote>>

Start(c, from, to) ==
  /\ Step(c, from, to)
  /\ busy' = TRUE
  /\ UNCHANGED <<lock, mcmr, mrdr, latch, wrote>>

AddressDone(c) ==
  /\ Step(c, "addrwait", "gap")
  /\ ~busy
  /\ Unlock
  /\ UNCHANGED <<mcmr, busy, mrdr, latch, wrote>>

PutData(c) ==
  /\ Step(c, "gap", "datago")
  /\ Lock(c)
  /\ mcmr' = DataRequest(call[c].ask)
  /\ UNCHANGED <<busy, mrdr, latch, wrote>>

(* DataDone as it would be if it did not wait for the flag. *)
DataDone_NoWait(c) ==
  /\ Step(c, "datawait", "fetch")
  /\ UNCHANGED <<lock, mcmr, busy, mrdr, latch, wrote>>

DataDone(c) ==
  /\ Step(c, "datawait", "fetch")
  /\ ~busy
  /\ UNCHANGED <<lock, mcmr, busy, mrdr, latch, wrote>>

(* MRDR is read under the lock, 10 ms after the flag cleared. *)
Fetch(c) ==
  /\ At(c, "fetch")
  /\ call' = [call EXCEPT ![c] = NoAccess]
  /\ Unlock
  /\ UNCHANGED <<mcmr, busy, mrdr, latch, wrote>>

(* Timeout as it would be without the spin_unlock of the error path. *)
Timeout_Locked(c) ==
  /\ At(c, "addrwait") \/ At(c, "datawait")
  /\ busy
  /\ call' = [call EXCEPT ![c] = NoAccess]
  /\ UNCHANGED <<lock, mcmr, busy, mrdr, latch, wrote>>

(* Timeout as it would be if a failed address request were not noticed. *)
Timeout_Continue(c) ==
  /\ busy
  /\ Step(c, "addrwait", "gap")
  /\ Unlock
  /\ UNCHANGED <<mcmr, busy, mrdr, latch, wrote>>

(* After MDIO_TIMEOUT_MS the call gives up; the request stays pending. *)
Timeout(c) ==
  /\ At(c, "addrwait") \/ At(c, "datawait")
  /\ busy
  /\ call' = [call EXCEPT ![c] = NoAccess]
  /\ Unlock
  /\ UNCHANGED <<mcmr, busy, mrdr, latch, wrote>>

-----------------------------------------------------------------------------
(* Serve as it would be if every request set the latch. *)
Serve_AnyKind ==
  /\ busy
  /\ busy' = FALSE
  /\ latch' = [latch EXCEPT ![Where(mcmr)] = {mcmr.data}]
  /\ UNCHANGED <<lock, call, mcmr, mrdr, wrote>>

(* The FPGA carries out the request that MCMR holds, at any time while the *)
(* flag is set, and clears the flag.                                       *)
Serve ==
  /\ busy
  /\ busy' = FALSE
  /\ LET d == Where(mcmr) IN
     /\ latch' = IF mcmr.kind = "addr" THEN [latch EXCEPT ![d] = {mcmr.data}] ELSE latch
     /\ mrdr' = IF mcmr.kind = "read" THEN {<<d, latch[d]>>} ELSE mrdr
     /\ wrote' = IF mcmr.kind = "write" THEN wrote \cup {<<d, latch[d]>>} ELSE wrote
  /\ UNCHANGED <<lock, call, mcmr>>

CallerStep(c) ==
  \/ PutAddress(c) \/ Start(c, "addrgo", "addrwait") \/ AddressDone(c)
  \/ PutData(c) \/ Start(c, "datago", "datawait") \/ DataDone(c) \/ Fetch(c)
  \/ Timeout(c)

Next ==
  \/ \E c \in Callers : CallerStep(c) \/ \E a \in Asks[c] : Begin(c, a)
  \/ Serve

Spec == Init /\ [][Next]_vars

-----------------------------------------------------------------------------
(* Properties *)

(* A read that does not fail returns the register it asked for, although   *)
(* the lock is dropped between its two requests and although requests that *)
(* were given up stay pending in the FPGA (bsl_phy.c:41-48, 37, 65).       *)
ReadsItsRegister ==
  \A c \in Callers :
    At(c, "fetch") /\ call[c].ask.op = "read" => mrdr = {Target(call[c].ask)}

(* The FPGA writes no register that nobody asked to write. *)
WritesOnlyAsked ==
  wrote \subseteq {Target(a) : a \in {b \in Asked : b.op = "write"}}
=============================================================================
