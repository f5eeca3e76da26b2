------------------------------- MODULE BslCma -------------------------------
(***************************************************************************)
(* The DMA buffer pool of one card in the kernel module (module/bsl_ctl.c):*)
(* the list cma_allocations with an inuse mark per entry, the spinlock     *)
(* lock_cma, the ioctls CMD_PHY_MEM_ALLOC and CMD_PHY_MEM_FREE, and the    *)
(* debugging read and write of the device node.                            *)
(*                                                                         *)
(* An entry is named by the bus address (dma) of its buffer, a number from *)
(* 1 up: no two entries of the list have the same, but a buffer that was   *)
(* freed may be allocated again, whoever still uses it.  0 is no entry.    *)
(*                                                                         *)
(* A critical section of lock_cma is one step.  bsl_dma_buffer_alloc drops *)
(* the lock after its scan, and what follows is three steps: the scan, the *)
(* test of inuse, and the assignment of inuse.                             *)
(***************************************************************************)
EXTENDS Naturals, Sequences

CONSTANTS
  Callers,     \* user processes that issue the ioctls, one thread of each
  Loaded,      \* how many buffers bsl_alloc_cma may have got at load time
  MaxEntries,  \* the number of buffers there is memory for
  DebugNodes   \* whether anybody reads or writes the device node

ASSUME LoadedAssumption ==
  /\ MaxEntries \in Nat
  /\ Loaded \subseteq 0 .. MaxEntries
  /\ Loaded # {}
ASSUME DebugAssumption == DebugNodes \in BOOLEAN

VARIABLES
  list,   \* cma_allocations, from its first entry to its last
  inuse,  \* the mark of each entry on the list
  call,   \* where each caller is inside bsl_dma_buffer_alloc
  held,   \* history: the buffers each process was granted and has not freed
  spoilt  \* history: those of them that something else may have touched

cmaVars == <<list, inuse, call, held, spoilt>>

Numbers == 1 .. MaxEntries
Entries == {list[i] : i \in DOMAIN list}
FreeEntries == {b \in Entries : ~inuse[b]}
OnLoan == UNION {held[c] : c \in Callers}

(* alloc is 0 while a call holds no entry, and when it holds a pointer to  *)
(* an entry that has been freed.  full and disturbed are history: whether  *)
(* the scan found every entry in use, and whether, since the scan, another *)
(* call has come by the same entry or the entry has been freed.            *)
Calls ==
  [pc : {"idle", "check", "mark", "oops"}, alloc : Numbers \cup {0},
   full : BOOLEAN, disturbed : BOOLEAN]
NoCall == [pc |-> "idle", alloc |-> 0, full |-> FALSE, disturbed |-> FALSE]

(* The calls between their scan and their end that point to entry b. *)
Inside(b) == {c \in Callers : call[c].pc \in {"check", "mark"} /\ call[c].alloc = b}

TypeOK ==
  /\ list \in Seq(Numbers)
  /\ \A i, j \in DOMAIN list : list[i] = list[j] => i = j
  /\ inuse \in [Numbers -> BOOLEAN]
  /\ call \in [Callers -> Calls]
  /\ \A c \in Callers : call[c].pc \in {"check", "mark"} =>
       call[c].alloc \in Entries \/ (call[c].alloc = 0 /\ call[c].disturbed)
  /\ held \in [Callers -> SUBSET Numbers]
  /\ spoilt \subseteq OnLoan

(* bsl_alloc_cma stops at the first buffer it cannot get, and bsl_ctl_init *)
(* ignores its result: the module is loaded with whatever is on the list.  *)
Init ==
  /\ \E n \in Loaded : list = [i \in 1 .. n |-> i]
  /\ inuse = [b \in Numbers |-> FALSE]
  /\ call = [c \in Callers |-> NoCall]
  /\ held = [c \in Callers |-> {}]
  /\ spoilt = {}

-----------------------------------------------------------------------------
(* CMD_PHY_MEM_ALLOC: bsl_dma_buffer_alloc *)

(* Call c has come to entry b; other calls that are there are disturbed,   *)
(* and so is it.                                                           *)
Found(c, b) ==
  call' = [d \in Callers |->
    IF d = c THEN [pc |-> "check", alloc |-> b, full |-> FreeEntries = {},
                   disturbed |-> Inside(b) # {}]
    ELSE [call[d] EXCEPT !.disturbed = @ \/ d \in Inside(b)]]

(* Scan as it would be if the loop did not stop at the first free entry. *)
Scan_NoBreak(c) ==
  /\ call[c].pc = "idle"
  /\ list # <<>>
  /\ Found(c, list[Len(list)])
  /\ UNCHANGED <<list, inuse, held, spoilt>>

(* Where the loop under lock_cma leaves alloc: at the first free entry, or *)
(* at the last entry when all are in use.                                  *)
ScanEndsAt(b) ==
  \E i \in DOMAIN list :
    /\ b = list[i]
    /\ \A j \in 1 .. (i - 1) : inuse[list[j]]
    /\ inuse[b] => i = Len(list)

(* Scan as it would be if alloc were NULL after a loop without a break. *)
Scan_NullWhenFull(c) ==
  /\ call[c].pc = "idle"
  /\ list # <<>>
  /\ IF FreeEntries = {} THEN Found(c, 0) ELSE \E b \in Entries : ScanEndsAt(b) /\ Found(c, b)
  /\ UNCHANGED <<list, inuse, held, spoilt>>

(* On an empty list alloc stays NULL and the test of alloc->inuse, after   *)
(* the unlock, is an oops.                                                 *)
Scan(c) ==
  /\ call[c].pc = "idle"
  /\ \/ /\ list = <<>>
        /\ call' = [call EXCEPT ![c].pc = "oops"]
     \/ \E b \in Entries : ScanEndsAt(b) /\ Found(c, b)
  /\ UNCHANGED <<list, inuse, held, spoilt>>

(* What a load of alloc->inuse can return: the mark, or anything once the  *)
(* entry has been freed.                                                   *)
InuseRead(b) == IF b = 0 THEN BOOLEAN ELSE {inuse[b]}

(* "all in use in CMA area": the caller gets EFAULT. *)
ReportFull(c) ==
  /\ call[c].pc = "check"
  /\ TRUE \in InuseRead(call[c].alloc)
  /\ call' = [call EXCEPT ![c] = NoCall]
  /\ UNCHANGED <<list, inuse, held, spoilt>>

CheckFree(c) ==
  /\ call[c].pc = "check"
  /\ FALSE \in InuseRead(call[c].alloc)
  /\ call' = [call EXCEPT ![c].pc = "mark"]
  /\ UNCHANGED <<list, inuse, held, spoilt>>

(* Process c is handed buffer b by a call. *)
Grant(c, b) ==
  /\ held' = [held EXCEPT ![c] = @ \cup {b}]
  /\ spoilt' = spoilt \cup (IF call[c].disturbed THEN {b} ELSE {})
  /\ call' = [call EXCEPT ![c] = NoCall]

(* MarkInuse as it would be if the assignment of inuse were lost. *)
MarkInuse_Forgotten(c) ==
  /\ call[c].pc = "mark"
  /\ \E b \in Numbers : call[c].alloc \in {0, b} /\ Grant(c, b)
  /\ UNCHANGED <<list, inuse>>

(* alloc->inuse = true, and the address goes to user space.  From an entry *)
(* that has been freed any address may come.                               *)
MarkInuse(c) ==
  /\ call[c].pc = "mark"
  /\ \E b \in Numbers : call[c].alloc \in {0, b} /\ Grant(c, b)
  /\ inuse' = [b \in Numbers |-> inuse[b] \/ b = call[c].alloc]
  /\ UNCHANGED list

-----------------------------------------------------------------------------
(* CMD_PHY_MEM_FREE: bsl_dma_buffer_free *)

(* FreeOne as it would be with the test of the address inverted. *)
FreeOne_Other(c, b) ==
  /\ b \in held[c]
  /\ inuse' = [e \in Numbers |-> inuse[e] /\ e = b]
  /\ held' = [held EXCEPT ![c] = @ \ {b}]
  /\ spoilt' = spoilt \cap OnLoan'
  /\ UNCHANGED <<list, call>>

(* A process frees a buffer it was granted: the entry with that address,   *)
(* if there is one on the list, is unmarked.                               *)
FreeOne(c, b) ==
  /\ b \in held[c]
  /\ inuse' = [inuse EXCEPT ![b] = @ /\ b \notin Entries]
  /\ held' = [held EXCEPT ![c] = @ \ {b}]
  /\ spoilt' = spoilt \cap OnLoan'
  /\ UNCHANGED <<list, call>>

(* bsl_clearDmaBuffer, called by a process that starts: PhysicalAddr is 0, *)
(* and every entry is unmarked whoever holds it.                           *)
FreeAll(c) ==
  /\ call[c].pc = "idle"
  /\ held[c] = {}
  /\ inuse' = [b \in Numbers |-> inuse[b] /\ b \notin Entries]
  /\ spoilt' = OnLoan
  /\ UNCHANGED <<list, call, held>>

(* The process ends.  bsl_ctl_release does nothing: its marks stay.  A     *)
(* call runs to its end first, unless it ended in an oops.                 *)
Exit(c) ==
  /\ call[c].pc \in {"idle", "oops"}
  /\ call' = [call EXCEPT ![c] = NoCall]
  /\ held' = [held EXCEPT ![c] = {}]
  /\ spoilt' = spoilt \cap OnLoan'
  /\ UNCHANGED <<list, inuse>>

-----------------------------------------------------------------------------
(* cat /dev/bsl_ctl: the first entry is removed and freed, in use or not;  *)
(* calls that were about to use it are left with a dangling pointer.       *)
cma_test_read ==
  /\ DebugNodes
  /\ list # <<>>
  /\ list' = Tail(list)
  /\ call' = [c \in Callers |->
       IF c \in Inside(Head(list)) THEN [call[c] EXCEPT !.alloc = 0, !.disturbed = TRUE]
       ELSE call[c]]
  /\ spoilt' = spoilt \cup ({Head(list)} \cap OnLoan)
  /\ UNCHANGED <<inuse, held>>

(* echo 1024 > /dev/bsl_ctl: an entry at the end of the list for any       *)
(* buffer that is not on it, one still held included.  Its inuse is what   *)
(* kmalloc left there, and what kmalloc returns may be a freed entry that  *)
(* calls still point to.                                                   *)
cma_test_write ==
  /\ DebugNodes
  /\ \E b \in Numbers \ Entries, garbage \in BOOLEAN, D \in SUBSET Inside(0) :
       /\ list' = Append(list, b)
       /\ inuse' = [inuse EXCEPT ![b] = garbage]
       /\ call' = [c \in Callers |-> IF c \in D THEN [call[c] EXCEPT !.alloc = b] ELSE call[c]]
  /\ UNCHANGED <<held, spoilt>>

Next ==
  \/ \E c \in Callers :
       \/ Scan(c) \/ ReportFull(c) \/ CheckFree(c) \/ MarkInuse(c)
       \/ FreeAll(c) \/ Exit(c)
       \/ \E b \in Numbers : FreeOne(c, b)
  \/ cma_test_read
  \/ cma_test_write

Spec == Init /\ [][Next]_cmaVars

-----------------------------------------------------------------------------
(* Properties *)

(* A loan is spoilt when a call that was disturbed between its unlock and  *)
(* its assignment of inuse (bsl_ctl.c:350-357) granted it, when another    *)
(* process clears all marks (:380) and when cma_test_read removes its      *)
(* entry (:74).  Nothing else makes two processes share a buffer, however  *)
(* many of them allocate and free at the same time.                        *)
LoansExclusive ==
  \A c, d \in Callers : c # d => held[c] \cap held[d] \subseteq spoilt

(* A buffer on loan that is not spoilt is on the list and marked, so that  *)
(* scans pass over it: what other processes free, and what is put on the   *)
(* list and taken from it, leaves its mark alone.                          *)
LoansMarked == \A b \in OnLoan \ spoilt : b \in Entries /\ inuse[b]

(* "all in use in CMA area" (bsl_ctl.c:353) is reported only by a call     *)
(* whose scan found every entry in use, or that another call or a removal  *)
(* disturbed.                                                              *)
RefusalHonest ==
  \A c \in Callers :
    call[c].pc = "check" /\ ~call[c].disturbed /\ inuse[call[c].alloc] => call[c].full

(* "all in use in CMA area" (bsl_ctl.c:353) is reported only by a call     *)
(* whose scan found every entry of the list in use.                        *)
FullMeansFull ==
  \A c \in Callers :
    call[c].pc = "check" /\ call[c].alloc \in Entries /\ inuse[call[c].alloc] => call[c].full
=============================================================================
