------------------------------ MODULE BslLease ------------------------------
(***************************************************************************)
(* What the capture path promises about DMA buffers, whatever its threads, *)
(* processes and locks do: a buffer is on loan to at most one holder at a  *)
(* time, and a holder has at most one buffer.  BslCapture implements this  *)
(* module with the capture sessions of the user library as holders.        *)
(***************************************************************************)
CONSTANTS
  Holders,  \* whoever can be lent a buffer
  Buffers,  \* the buffers
  None      \* "no buffer": not in Buffers

VARIABLE lease  \* lease[h]: the buffer h holds, or None

Lent == {lease[h] : h \in Holders} \ {None}

TypeOK == lease \in [Holders -> Buffers \cup {None}]

Init == lease = [h \in Holders |-> None]

(* A buffer nobody holds is lent to a holder without one. *)
Grant(h, b) ==
  /\ lease[h] = None
  /\ b \notin Lent
  /\ lease' = [lease EXCEPT ![h] = b]

(* Holders give their buffers back: one at a time when a capture is saved, *)
(* all those of a process together when the process dies.                  *)
GiveBack(H) == lease' = [h \in Holders |-> IF h \in H THEN None ELSE lease[h]]

Next ==
  \/ \E h \in Holders, b \in Buffers : Grant(h, b)
  \/ \E H \in SUBSET Holders : GiveBack(H)

Spec == Init /\ [][Next]_lease
=============================================================================
