----------------------------- MODULE BslDriver -----------------------------
(***************************************************************************)
(* Loading and unloading of the driver (bsl_init and bsl_cleanup of        *)
(* module/bsl_main.c, bsl_pci_init and bsl_probe of bsl_pci.c,             *)
(* bsl_ctl_init and bsl_ctl_cleanup of bsl_ctl.c) while processes open the *)
(* device node, make the accesses of BslMdio, ask for DMA buffers and      *)
(* close it.  There is one card or none.                                   *)
(* The kernel (external) keeps a module that is open, takes opens from the *)
(* moment the node exists, and keeps a module whose init returned 1.       *)
(***************************************************************************)
EXTENDS BslMdio

VARIABLES
  module,   \* what the kernel thinks of it: "out", "coming", "live" or "going"
  at,       \* the step of bsl_init or bsl_cleanup that is next
  devp,     \* what bsl_devp points at: "null", "raw", "ready" or "freed"
  ret_err,  \* did bsl_init fail where it says so?
  ndev,     \* cards found
  mapped,   \* is bar0_virt_addr the address of the card, not NULL?
  kept,     \* what the kernel holds for the module, of Kept below
  files,    \* the processes that have the device node open
  oops      \* has the kernel hit an address that is not there?

data == <<devp, ret_err, ndev, mapped>>
loading == <<module, at, data, kept, files, oops>>
access == <<lock, call, mcmr, busy, mrdr, latch, wrote>>
driver == <<loading, access>>

Kept == {"pci", "regions", "devno", "cdev", "buffers"}
InitSteps == {"kmalloc", "find", "register", "locks", "chrdev", "cdev", "cards", "buffers"}
CleanupSteps == {"kfree", "release", "cdev_del", "unregion", "unregister"}

DriverTypeOK ==
  /\ TypeOK
  /\ module \in {"out", "coming", "live", "going"}
  /\ module \in {"out", "live"} => at = None
  /\ module = "coming" => at \in InitSteps
  /\ module = "going" => at \in CleanupSteps
  /\ devp \in {"null", "raw", "ready", "freed"}
  /\ ret_err \in BOOLEAN /\ ndev \in {0, 1} /\ mapped \in BOOLEAN
  /\ kept \in SUBSET Kept
  /\ files \in SUBSET Callers
  /\ oops \in BOOLEAN

DriverInit ==
  /\ Init
  /\ module = "out" /\ at = None /\ devp = "null" /\ ret_err = FALSE /\ ndev = 0
  /\ mapped = FALSE /\ kept = {} /\ files = {} /\ oops = FALSE

-----------------------------------------------------------------------------
(* bsl_init *)

Does(from, to) == ~oops /\ at = from /\ at' = to
Loaded == module' = "live" /\ at' = None

(* The module's static variables begin anew. *)
Insmod ==
  /\ module = "out" /\ ~oops
  /\ module' = "coming" /\ at' = "kmalloc"
  /\ devp' = "null" /\ ret_err' = FALSE /\ ndev' = 0 /\ mapped' = FALSE
  /\ UNCHANGED <<kept, files, oops, access>>

(* Without memory bsl_init returns 1, and does not set ret_err. *)
Kmalloc ==
  /\ ~oops /\ at = "kmalloc"
  /\ \/ devp' = "raw" /\ at' = "find" /\ UNCHANGED module
     \/ Loaded /\ UNCHANGED devp
  /\ UNCHANGED <<ret_err, ndev, mapped, kept, files, oops, access>>

(* Without a card the PCI driver is not registered; this is no error. *)
FindCards ==
  /\ ndev' \in {0, 1}
  /\ Does("find", IF ndev' = 0 THEN "chrdev" ELSE "register")
  /\ UNCHANGED <<module, devp, ret_err, mapped, kept, files, oops, access>>

(* pci_register_driver probes the card.  Its result says nothing of the    *)
(* probe, which fails when the card's regions are taken or at several      *)
(* other calls.                                                            *)
RegisterPci ==
  /\ Does("register", "locks")
  /\ "pci" \notin kept
  /\ mapped' \in IF "regions" \in kept THEN {FALSE} ELSE BOOLEAN
  /\ kept' = kept \cup {"pci"} \cup IF mapped' THEN {"regions"} ELSE {}
  /\ UNCHANGED <<module, devp, ret_err, ndev, files, oops, access>>

InitLocks ==
  /\ Does("locks", "chrdev")
  /\ devp' = "ready"
  /\ lock' = None
  /\ UNCHANGED <<module, ret_err, ndev, mapped, kept, files, oops>>
  /\ UNCHANGED <<call, mcmr, busy, mrdr, latch, wrote>>

AllocChrdev ==
  /\ Does("chrdev", "cdev")
  /\ kept' = kept \cup {"devno"}
  /\ UNCHANGED <<module, data, files, oops, access>>

(* From here on processes can open the node. *)
AddCdev ==
  /\ ~oops /\ at = "cdev"
  /\ kept' = kept \cup {"cdev"}
  /\ IF ndev = 0 THEN Loaded ELSE at' = "cards" /\ UNCHANGED module
  /\ UNCHANGED <<data, files, oops, access>>

(* VERR is read under lock_hwaccess, whether or not the card is mapped; if *)
(* not, the lock stays with a process that is dead.                        *)
ReadCards ==
  /\ Does("cards", "buffers")
  /\ lock = None
  /\ mapped
  /\ UNCHANGED <<module, data, kept, files, oops, access>>

ReadCardsNull ==
  /\ ~oops /\ at = "cards"
  /\ Lock(Loader)
  /\ ~mapped
  /\ oops' = TRUE
  /\ UNCHANGED <<module, at, data, kept, files>>
  /\ UNCHANGED <<call, mcmr, busy, mrdr, latch, wrote>>

(* bsl_alloc_cma, whose result is ignored. *)
AllocBuffers ==
  /\ ~oops /\ at = "buffers"
  /\ kept' \in {kept, kept \cup {"buffers"}}
  /\ Loaded
  /\ UNCHANGED <<data, files, oops, access>>

(* pci_register_driver, alloc_chrdev_region or cdev_add failed.  What was  *)
(* registered before stays, and so does the module.                        *)
InitFails ==
  /\ ~oops /\ at \in {"register", "chrdev", "cdev"}
  /\ ret_err' = TRUE
  /\ devp' = "null"
  /\ Loaded
  /\ UNCHANGED <<ndev, mapped, kept, files, oops, access>>

-----------------------------------------------------------------------------
(* bsl_cleanup *)

(* Rmmod as it would be if the file operations did not name their owner. *)
Rmmod_NoOwner ==
  /\ module = "live" /\ ~oops
  /\ module' = "going" /\ at' = "kfree"
  /\ UNCHANGED <<data, kept, files, oops, access>>

Rmmod ==
  /\ module = "live" /\ ~oops
  /\ files = {}
  /\ module' = "going" /\ at' = "kfree"
  /\ UNCHANGED <<data, kept, files, oops, access>>

(* After a failure that bsl_init told of, nothing is undone. *)
FreeDevp ==
  /\ ~oops /\ at = "kfree"
  /\ devp' = IF devp = "null" THEN "null" ELSE "freed"
  /\ IF ret_err THEN module' = "out" /\ at' = None
     ELSE at' = "release" /\ UNCHANGED module
  /\ UNCHANGED <<ret_err, ndev, mapped, kept, files, oops, access>>

(* What follows reads what bsl_devp points at: memory that was freed, and  *)
(* may still be what it was, or no memory.                                 *)
ReleaseBuffers ==
  /\ Does("release", "cdev_del")
  /\ devp # "null"
  /\ kept' = kept \ {"buffers"}
  /\ UNCHANGED <<module, data, files, oops, access>>

DeleteCdev ==
  /\ Does("cdev_del", "unregion")
  /\ kept' = kept \ {"cdev"}
  /\ UNCHANGED <<module, data, files, oops, access>>

FreeChrdev ==
  /\ Does("unregion", "unregister")
  /\ kept' = kept \ {"devno"}
  /\ UNCHANGED <<module, data, files, oops, access>>

(* bsl_remove unmaps the card, if get_bsl_pcip still finds it. *)
UnregisterPci ==
  /\ ~oops /\ at = "unregister"
  /\ kept' \in {kept \ {"pci"}, kept \ {"pci", "regions"}}
  /\ mapped' = FALSE
  /\ module' = "out" /\ at' = None
  /\ UNCHANGED <<devp, ret_err, ndev, files, oops, access>>

CleanupOops ==
  /\ ~oops /\ at \in CleanupSteps \ {"kfree"}
  /\ oops' = TRUE
  /\ UNCHANGED <<module, at, data, kept, files, access>>

(* Somebody starts the machine again, and the cards with it. *)
Reboot ==
  /\ oops
  /\ module' = "out" /\ at' = None /\ devp' = "null" /\ ret_err' = FALSE /\ ndev' = 0
  /\ mapped' = FALSE /\ kept' = {} /\ files' = {} /\ oops' = FALSE
  /\ lock' = None /\ call' = [c \in Callers |-> NoAccess]
  /\ mcmr' = NoRequest /\ busy' = FALSE
  /\ mrdr' = {} /\ latch' = [d \in Devices |-> {}]
  /\ UNCHANGED wrote

-----------------------------------------------------------------------------
(* bsl_ctl_open refuses minors beyond ndev; a module that goes cannot be   *)
(* opened.                                                                 *)
Open(c) ==
  /\ "cdev" \in kept /\ module \in {"coming", "live"} /\ ~oops
  /\ ndev = 1
  /\ c \notin files
  /\ files' = files \cup {c}
  /\ UNCHANGED <<module, at, data, kept, oops, access>>

Close(c) ==
  /\ c \in files /\ Idle(c)
  /\ files' = files \ {c}
  /\ UNCHANGED <<module, at, data, kept, oops, access>>

Ask(c, a) == c \in files /\ ~oops /\ Begin(c, a) /\ UNCHANGED loading

(* An ioctl reaches the card through bsl_devp.  Where nothing is, its      *)
(* process dies with the lock it has just taken.                           *)
There == devp = "ready" /\ mapped
Ioctl(c) == There /\ CallerStep(c) /\ UNCHANGED loading

IoctlOops(c) ==
  /\ ~Idle(c) /\ ~There
  /\ IF call[c].pc \in {"addr", "gap"} THEN Lock(c) ELSE UNCHANGED lock
  /\ call' = [call EXCEPT ![c] = NoAccess]
  /\ files' = files \ {c}
  /\ oops' = TRUE
  /\ UNCHANGED <<module, at, data, kept, mcmr, busy, mrdr, latch, wrote>>

(* CMD_PHY_MEM_ALLOC while there is no buffer on the list (see BslCma):    *)
(* before bsl_alloc_cma has run, or when it could get none.  The pointer   *)
(* that is NULL then is used with no lock held.                            *)
AllocNoBuffer(c) ==
  /\ c \in files /\ Idle(c) /\ ~oops
  /\ "buffers" \notin kept
  /\ files' = files \ {c}
  /\ oops' = TRUE
  /\ UNCHANGED <<module, at, data, kept, access>>

InitStep ==
  \/ Kmalloc \/ FindCards \/ RegisterPci \/ InitLocks \/ AllocChrdev \/ AddCdev
  \/ ReadCards \/ ReadCardsNull \/ AllocBuffers \/ InitFails
CleanupStep ==
  \/ FreeDevp \/ ReleaseBuffers \/ DeleteCdev \/ FreeChrdev \/ UnregisterPci \/ CleanupOops
ProcessStep(c) == Open(c) \/ Close(c) \/ (\E a \in Asks[c] : Ask(c, a))

DriverNext ==
  \/ Insmod \/ InitStep \/ Rmmod \/ CleanupStep \/ Reboot
  \/ \E c \in Callers : ProcessStep(c) \/ Ioctl(c) \/ IoctlOops(c) \/ AllocNoBuffer(c)
  \/ Serve /\ UNCHANGED loading

DriverSpec == DriverInit /\ [][DriverNext]_driver

(* An access goes on once it has begun: the kernel's spinlocks are granted *)
(* in turn, so that a waiting caller gets the lock when it is free over    *)
(* and over.  Nobody has to load, open or serve.                           *)
FairDriverSpec == DriverSpec /\ \A c \in Callers : SF_driver(Ioctl(c) \/ IoctlOops(c))

-----------------------------------------------------------------------------
(* What the ways are to hit an address that is not there: a card that      *)
(* could not be mapped, which nothing notices (bsl_pci.c:409); a process   *)
(* that asks for a buffer while there is none (bsl_ctl.c:352); and         *)
(* bsl_cleanup itself, after bsl_devp was freed or was never there         *)
(* (bsl_main.c:65-71).  No access of a process meets a driver that is not  *)
(* ready yet or is being unloaded.                                         *)
CardNotMapped == ndev = 1 /\ ~mapped
CleanupItself == module = "going" /\ call' = call /\ files' = files
NoBufferYet ==
  "buffers" \notin kept /\ devp = "ready" /\ \E c \in files : Idle(c) /\ files' = files \ {c}
OopsOnlyKnown ==
  [][~oops /\ oops' => CardNotMapped \/ CleanupItself \/ NoBufferYet]_driver

(* Every access returns, whether or not the FPGA answers, and although the *)
(* module is loaded and unloaded meanwhile, unless the kernel has hit such *)
(* an address: then the lock may stay taken for good.                      *)
CallReturns == \A c \in Callers : ~Idle(c) ~> Idle(c) \/ oops
=============================================================================
