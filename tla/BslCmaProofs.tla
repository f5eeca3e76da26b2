---------------------------- MODULE BslCmaProofs ----------------------------
(***************************************************************************)
(* The pool of BslCma, for any number of processes that allocate and free  *)
(* at the same time, for every size of the pool and whatever is read from  *)
(* and written to the device node: loans that nothing has spoilt are       *)
(* exclusive and marked, and calls that nothing has disturbed are refused  *)
(* only when all buffers are in use.  What spoils and disturbs is recorded *)
(* by the actions; run cma_race shows that two calls do.                   *)
(***************************************************************************)
EXTENDS BslCma, TLAPS

(* A call that has found its entry free and is alone there will mark an    *)
(* entry that is still free.                                               *)
GrantIsFresh ==
  \A c \in Callers : call[c].pc = "mark" /\ ~call[c].disturbed => ~inuse[call[c].alloc]

(* Two calls at one entry know of each other. *)
MeetingDisturbs ==
  \A c, d \in Callers :
    /\ c # d
    /\ call[c].pc \in {"check", "mark"} /\ call[d].pc \in {"check", "mark"}
    /\ call[c].alloc = call[d].alloc
    => call[c].disturbed

IInv ==
  /\ TypeOK
  /\ LoansExclusive
  /\ LoansMarked
  /\ RefusalHonest
  /\ GrantIsFresh
  /\ MeetingDisturbs

-----------------------------------------------------------------------------
(* The entries of the list after list_add_tail and list_del. *)

LEMMA EntriesAdded ==
  ASSUME TypeOK, NEW b \in Numbers, b \notin Entries, list' = Append(list, b)
  PROVE  /\ list' \in Seq(Numbers)
         /\ \A i, j \in DOMAIN list' : list'[i] = list'[j] => i = j
         /\ Entries' = Entries \cup {b}
<1> USE DEF TypeOK, Entries
<1>1. list \in Seq(Numbers) /\ Len(list) \in Nat /\ DOMAIN list = 1 .. Len(list)
  OBVIOUS
<1>2. /\ list' \in Seq(Numbers)
      /\ DOMAIN list' = 1 .. (Len(list) + 1)
      /\ \A i \in 1 .. Len(list) : list'[i] = list[i]
      /\ list'[Len(list) + 1] = b
  BY <1>1
<1>3. \A i \in DOMAIN list' : i \in DOMAIN list \/ i = Len(list) + 1
  BY <1>1, <1>2
<1>4. \A i \in DOMAIN list : list[i] # b
  OBVIOUS
<1>5. \A i, j \in DOMAIN list' : list'[i] = list'[j] => i = j
  BY <1>1, <1>2, <1>3, <1>4
<1>6. Entries' = Entries \cup {b}
  <2>1. \A e \in Entries' : e \in Entries \cup {b}
    BY <1>1, <1>2, <1>3
  <2>2. \A e \in Entries \cup {b} : e \in Entries'
    BY <1>1, <1>2
  <2> QED
    BY <2>1, <2>2
<1> QED
  BY <1>2, <1>5, <1>6

LEMMA EntriesRemoved ==
  ASSUME TypeOK, list # <<>>, list' = Tail(list)
  PROVE  /\ Head(list) \in Entries
         /\ list' \in Seq(Numbers)
         /\ \A i, j \in DOMAIN list' : list'[i] = list'[j] => i = j
         /\ Entries' = Entries \ {Head(list)}
<1> USE DEF TypeOK, Entries
<1>1. list \in Seq(Numbers) /\ Len(list) \in Nat \ {0} /\ DOMAIN list = 1 .. Len(list)
  OBVIOUS
<1>2. /\ list' \in Seq(Numbers)
      /\ DOMAIN list' = 1 .. (Len(list) - 1)
      /\ \A i \in DOMAIN list' : list'[i] = list[i + 1]
      /\ Head(list) = list[1]
  BY <1>1
<1>3. \A i \in DOMAIN list' : i + 1 \in DOMAIN list /\ i + 1 # 1
  BY <1>1, <1>2
<1>4. \A i, j \in DOMAIN list' : list'[i] = list'[j] => i = j
  BY <1>1, <1>2, <1>3
<1>5. Entries' = Entries \ {Head(list)}
  <2>1. \A e \in Entries' : e \in Entries \ {Head(list)}
    BY <1>1, <1>2, <1>3
  <2>2. ASSUME NEW e \in Entries \ {Head(list)} PROVE e \in Entries'
    <3>1. PICK i \in DOMAIN list : e = list[i]
      OBVIOUS
    <3>2. i - 1 \in DOMAIN list' /\ list'[i - 1] = e
      BY <1>1, <1>2, <3>1
    <3> QED
      BY <3>2
  <2> QED
    BY <2>1, <2>2
<1>6. Head(list) \in Entries
  <2>1. 1 \in DOMAIN list
    BY <1>1
  <2> QED
    BY <1>2, <2>1
<1>7. list' \in Seq(Numbers)
  BY <1>2
<1> HIDE DEF TypeOK, Entries
<1> QED
  BY <1>4, <1>5, <1>6, <1>7

LEMMA EntriesAreNumbers == ASSUME TypeOK PROVE Entries \subseteq Numbers
BY DEF TypeOK, Entries

LEMMA Unchanged ==
  ASSUME UNCHANGED list
  PROVE  Entries' = Entries
BY DEF Entries

-----------------------------------------------------------------------------
LEMMA InitIInv == Init => IInv
<1> USE LoadedAssumption
<1> SUFFICES ASSUME Init PROVE IInv
  OBVIOUS
<1>1. PICK n \in Loaded : list = [i \in 1 .. n |-> i]
  BY DEF Init
<1>2. n \in Nat /\ 1 .. n \subseteq Numbers
  BY DEF Numbers
<1>3. list \in Seq(Numbers) /\ \A i, j \in DOMAIN list : list[i] = list[j] => i = j
  BY <1>1, <1>2
<1>4. TypeOK
  BY <1>3 DEF Init, TypeOK, Calls, NoCall, OnLoan
<1>5. LoansExclusive /\ LoansMarked
  BY DEF Init, LoansExclusive, LoansMarked, OnLoan
<1>6. RefusalHonest /\ GrantIsFresh /\ MeetingDisturbs
  BY DEF Init, NoCall, RefusalHonest, GrantIsFresh, MeetingDisturbs
<1> QED
  BY <1>4, <1>5, <1>6 DEF IInv

(* A scan that ends at an entry gives all calls but its own what they had. *)
LEMMA FoundCalls ==
  ASSUME TypeOK, NEW c \in Callers, NEW b \in Entries, Found(c, b)
  PROVE  /\ call' \in [Callers -> Calls]
         /\ call'[c].pc = "check" /\ call'[c].alloc = b
         /\ call'[c].full <=> FreeEntries = {}
         /\ call'[c].disturbed <=> Inside(b) # {}
         /\ \A d \in Callers \ {c} :
              /\ call'[d].pc = call[d].pc
              /\ call'[d].alloc = call[d].alloc
              /\ call'[d].full = call[d].full
              /\ call'[d].disturbed <=> call[d].disturbed \/ d \in Inside(b)
<1> DEFINE Now == [pc |-> "check", alloc |-> b, full |-> FreeEntries = {},
                   disturbed |-> Inside(b) # {}]
           Then(d) == [call[d] EXCEPT !.disturbed = @ \/ d \in Inside(b)]
<1>1. b \in Numbers
  BY EntriesAreNumbers
<1>2. (FreeEntries = {}) \in BOOLEAN /\ (Inside(b) # {}) \in BOOLEAN
  OBVIOUS
<1>3. Now \in Calls
  BY <1>1, <1>2 DEF Calls
<1>4. ASSUME NEW d \in Callers PROVE Then(d) \in Calls
  <2>1. call[d] \in Calls /\ (call[d].disturbed \/ d \in Inside(b)) \in BOOLEAN
    BY DEF TypeOK
  <2>2. ASSUME NEW x \in Calls, NEW y \in BOOLEAN
        PROVE  [x EXCEPT !.disturbed = y] \in Calls
    BY DEF Calls
  <2> QED
    BY <2>1, <2>2
<1>5. call' = [d \in Callers |-> IF d = c THEN Now ELSE Then(d)]
  BY DEF Found
<1>6. call'[c] = Now /\ \A d \in Callers \ {c} : call'[d] = Then(d)
  BY <1>5
<1>7. call' \in [Callers -> Calls]
  BY <1>3, <1>4, <1>5
<1>8. ASSUME NEW d \in Callers \ {c}
      PROVE  /\ call'[d].pc = call[d].pc
             /\ call'[d].alloc = call[d].alloc
             /\ call'[d].full = call[d].full
             /\ call'[d].disturbed <=> call[d].disturbed \/ d \in Inside(b)
  <2>1. call[d] \in Calls /\ call'[d] = Then(d)
    BY <1>6 DEF TypeOK
  <2> QED
    BY <2>1 DEF Calls
<1>9. /\ call'[c].pc = "check" /\ call'[c].alloc = b
      /\ call'[c].full <=> FreeEntries = {}
      /\ call'[c].disturbed <=> Inside(b) # {}
  <2>1. \A x, y : [pc |-> "check", alloc |-> b, full |-> x, disturbed |-> y].full = x
    OBVIOUS
  <2>2. \A x, y : [pc |-> "check", alloc |-> b, full |-> x, disturbed |-> y].disturbed = y
    OBVIOUS
  <2>3. Now.full = (FreeEntries = {}) /\ Now.disturbed = (Inside(b) # {})
    BY <2>1, <2>2, Zenon
  <2>4. call'[c] = Now
    BY <1>6
  <2>5. call'[c].full <=> FreeEntries = {}
    BY <2>3, <2>4, Zenon
  <2>6. call'[c].disturbed <=> Inside(b) # {}
    BY <2>3, <2>4, Zenon
  <2> QED
    BY <1>6, <2>5, <2>6
<1> QED
  BY <1>7, <1>8, <1>9

LEMMA ScanStep ==
  ASSUME IInv, NEW c \in Callers, Scan(c)
  PROVE  IInv'
<1> USE DEF IInv
<1>1. UNCHANGED <<list, inuse, held, spoilt>> /\ call[c].pc = "idle"
  BY DEF Scan
<1>2. Entries' = Entries /\ OnLoan' = OnLoan /\ LoansExclusive' /\ LoansMarked'
  BY <1>1 DEF Entries, OnLoan, LoansExclusive, LoansMarked
<1>3. CASE call' = [call EXCEPT ![c].pc = "oops"]
  <2>1. TypeOK'
    BY <1>1, <1>2, <1>3 DEF TypeOK, Calls
  <2>2. RefusalHonest' /\ GrantIsFresh' /\ MeetingDisturbs'
    BY <1>1, <1>3 DEF TypeOK, Calls, RefusalHonest, GrantIsFresh, MeetingDisturbs
  <2> QED
    BY <1>2, <2>1, <2>2
<1>4. ASSUME NEW b \in Entries, ScanEndsAt(b), Found(c, b) PROVE IInv'
  <2>1. /\ call' \in [Callers -> Calls]
        /\ call'[c].pc = "check" /\ call'[c].alloc = b
        /\ call'[c].full <=> FreeEntries = {}
        /\ call'[c].disturbed <=> Inside(b) # {}
        /\ \A d \in Callers \ {c} :
             /\ call'[d].pc = call[d].pc
             /\ call'[d].alloc = call[d].alloc
             /\ call'[d].full = call[d].full
             /\ call'[d].disturbed <=> call[d].disturbed \/ d \in Inside(b)
    BY <1>4, FoundCalls
  <2>2. inuse[b] => FreeEntries = {}
    <3>1. PICK i \in DOMAIN list : /\ b = list[i]
                                   /\ \A j \in 1 .. (i - 1) : inuse[list[j]]
                                   /\ inuse[b] => i = Len(list)
      BY <1>4 DEF ScanEndsAt
    <3>2. \A j \in DOMAIN list : i = Len(list) => j = i \/ j \in 1 .. (i - 1)
      BY DEF TypeOK
    <3> QED
      BY <3>1, <3>2 DEF FreeEntries, Entries
  <2>3. TypeOK'
    <3>1. \A d \in Callers : call'[d].pc \in {"check", "mark"} =>
            call'[d].alloc \in Entries \/ (call'[d].alloc = 0 /\ call'[d].disturbed)
      BY <2>1 DEF TypeOK
    <3> QED
      BY <1>1, <1>2, <2>1, <3>1 DEF TypeOK
  <2>4. RefusalHonest'
    BY <1>1, <2>1, <2>2 DEF RefusalHonest
  <2>5. GrantIsFresh'
    BY <1>1, <2>1 DEF GrantIsFresh
  <2>6. MeetingDisturbs'
    BY <2>1 DEF MeetingDisturbs, Inside
  <2> QED
    BY <1>2, <2>3, <2>4, <2>5, <2>6
<1> QED
  BY <1>3, <1>4 DEF Scan

(* The call ends or goes on to mark; nothing else changes. *)
LEMMA CheckStep ==
  ASSUME IInv, NEW c \in Callers, ReportFull(c) \/ CheckFree(c)
  PROVE  IInv'
<1> USE DEF IInv
<1>1. UNCHANGED <<list, inuse, held, spoilt>> /\ call[c].pc = "check"
  BY DEF ReportFull, CheckFree
<1>2. Entries' = Entries /\ OnLoan' = OnLoan /\ LoansExclusive' /\ LoansMarked'
  BY <1>1 DEF Entries, OnLoan, LoansExclusive, LoansMarked
<1>3. CASE ReportFull(c)
  <2>1. TypeOK'
    BY <1>1, <1>2, <1>3 DEF ReportFull, TypeOK, Calls, NoCall
  <2>2. RefusalHonest' /\ GrantIsFresh' /\ MeetingDisturbs'
    BY <1>1, <1>3 DEF ReportFull, TypeOK, Calls, NoCall,
                      RefusalHonest, GrantIsFresh, MeetingDisturbs
  <2> QED
    BY <1>2, <2>1, <2>2
<1>4. CASE CheckFree(c)
  <2>1. TypeOK'
    BY <1>1, <1>2, <1>4 DEF CheckFree, TypeOK, Calls
  <2>2. call[c].alloc # 0 => ~inuse[call[c].alloc]
    BY <1>4 DEF CheckFree, InuseRead
  <2>3. ~call[c].disturbed => call[c].alloc # 0
    BY <1>1, EntriesAreNumbers DEF TypeOK, Numbers
  <2>4. RefusalHonest' /\ GrantIsFresh' /\ MeetingDisturbs'
    BY <1>1, <1>4, <2>2, <2>3 DEF CheckFree, TypeOK, Calls,
                      RefusalHonest, GrantIsFresh, MeetingDisturbs
  <2> QED
    BY <1>2, <2>1, <2>4
<1> QED
  BY <1>3, <1>4

LEMMA MarkInuseStep ==
  ASSUME IInv, NEW c \in Callers, MarkInuse(c)
  PROVE  IInv'
<1> USE DEF IInv
<1>1. PICK b \in Numbers : call[c].alloc \in {0, b} /\ Grant(c, b)
  BY DEF MarkInuse
<1>2. /\ UNCHANGED list /\ call[c].pc = "mark" /\ Entries' = Entries
      /\ inuse' = [e \in Numbers |-> inuse[e] \/ e = call[c].alloc]
      /\ held' = [held EXCEPT ![c] = @ \cup {b}]
      /\ spoilt' = spoilt \cup (IF call[c].disturbed THEN {b} ELSE {})
      /\ call' = [call EXCEPT ![c] = NoCall]
  BY <1>1, Unchanged DEF MarkInuse, Grant
<1>3. OnLoan' = OnLoan \cup {b}
  BY <1>2 DEF OnLoan, TypeOK
<1>4. ~call[c].disturbed => call[c].alloc = b /\ b \in Entries /\ ~inuse[b]
  BY <1>1, <1>2, EntriesAreNumbers DEF TypeOK, GrantIsFresh, Numbers
<1>5. b \in OnLoan => b \in spoilt'
  BY <1>2, <1>4 DEF LoansMarked
<1>6. TypeOK'
  <2>1. \A d \in Callers : call'[d].pc \in {"check", "mark"} =>
          call'[d].alloc \in Entries \/ (call'[d].alloc = 0 /\ call'[d].disturbed)
    BY <1>2 DEF TypeOK, NoCall
  <2>2. inuse' \in [Numbers -> BOOLEAN]
    BY <1>2 DEF TypeOK
  <2>3. call' \in [Callers -> Calls] /\ held' \in [Callers -> SUBSET Numbers]
    BY <1>2 DEF TypeOK, Calls, NoCall
  <2>4. spoilt' \subseteq OnLoan'
    BY <1>2, <1>3 DEF TypeOK
  <2> QED
    BY <1>2, <2>1, <2>2, <2>3, <2>4 DEF TypeOK
<1>7. LoansExclusive'
  <2> SUFFICES ASSUME NEW d \in Callers, NEW e \in Callers, d # e,
                      NEW x \in held'[d], x \in held'[e]
               PROVE  x \in spoilt'
    BY DEF LoansExclusive
  <2>1. CASE x = b
    BY <1>2, <1>5, <2>1 DEF OnLoan, TypeOK
  <2>2. CASE x # b
    BY <1>2, <2>2 DEF LoansExclusive, TypeOK
  <2> QED
    BY <2>1, <2>2
<1>8. LoansMarked'
  <2> SUFFICES ASSUME NEW x \in OnLoan', x \notin spoilt'
               PROVE  x \in Entries /\ inuse'[x]
    BY <1>2 DEF LoansMarked
  <2>1. CASE x \in OnLoan
    <3>1. x \in Entries /\ inuse[x]
      BY <1>2, <2>1 DEF LoansMarked
    <3> QED
      BY <1>2, <3>1, EntriesAreNumbers
  <2>2. CASE x \notin OnLoan
    <3>1. x = b /\ ~call[c].disturbed
      BY <1>2, <1>3, <2>2
    <3> QED
      BY <1>2, <1>4, <3>1
  <2> QED
    BY <2>1, <2>2
<1>9. RefusalHonest' /\ GrantIsFresh'
  <2>1. \A d \in Callers : d # c /\ call[d].pc \in {"check", "mark"} /\ ~call[d].disturbed =>
          /\ call[d].alloc \in Numbers
          /\ call[d].alloc # call[c].alloc
    BY <1>2, EntriesAreNumbers DEF TypeOK, MeetingDisturbs
  <2> QED
    BY <1>2, <2>1 DEF RefusalHonest, GrantIsFresh, NoCall, TypeOK
<1>10. MeetingDisturbs'
  BY <1>2 DEF MeetingDisturbs, NoCall, TypeOK
<1> QED
  BY <1>6, <1>7, <1>8, <1>9, <1>10

LEMMA FreeOneStep ==
  ASSUME IInv, NEW c \in Callers, NEW b \in Numbers, FreeOne(c, b)
  PROVE  IInv'
<1> USE DEF IInv
<1>1. /\ UNCHANGED <<list, call>> /\ b \in held[c]
      /\ inuse' = [inuse EXCEPT ![b] = @ /\ b \notin Entries]
      /\ held' = [held EXCEPT ![c] = @ \ {b}]
      /\ spoilt' = spoilt \cap OnLoan'
  BY DEF FreeOne
<1>2. Entries' = Entries
  BY <1>1, Unchanged
<1>3. TypeOK'
  BY <1>1, <1>2 DEF TypeOK
<1>4. LoansExclusive'
  <2> SUFFICES ASSUME NEW d \in Callers, NEW e \in Callers, d # e,
                      NEW x \in held'[d], x \in held'[e]
               PROVE  x \in spoilt'
    BY DEF LoansExclusive
  <2>1. x \in spoilt
    BY <1>1 DEF LoansExclusive, TypeOK
  <2>2. x \in OnLoan'
    BY DEF OnLoan
  <2> QED
    BY <1>1, <2>1, <2>2
<1>5. LoansMarked'
  <2> SUFFICES ASSUME NEW x \in OnLoan', x \notin spoilt'
               PROVE  x \in Entries /\ inuse'[x]
    BY <1>2 DEF LoansMarked
  <2>1. PICK d \in Callers : x \in held'[d]
    BY DEF OnLoan
  <2>2. x \in held[d] /\ x \notin spoilt /\ (d = c => x # b)
    BY <1>1, <2>1 DEF TypeOK
  <2>3. x # b
    BY <1>1, <2>2 DEF LoansExclusive
  <2>4. x \in Entries /\ inuse[x]
    BY <2>2 DEF LoansMarked, OnLoan
  <2> QED
    BY <1>1, <2>3, <2>4, EntriesAreNumbers DEF TypeOK
<1>6. \A x \in Numbers : inuse'[x] => inuse[x]
  BY <1>1 DEF TypeOK
<1>7. \A d \in Callers : call[d].pc \in {"check", "mark"} /\ ~call[d].disturbed =>
        call[d].alloc \in Numbers
  BY EntriesAreNumbers DEF TypeOK
<1>8. RefusalHonest' /\ GrantIsFresh' /\ MeetingDisturbs'
  BY <1>1, <1>6, <1>7 DEF RefusalHonest, GrantIsFresh, MeetingDisturbs
<1> QED
  BY <1>3, <1>4, <1>5, <1>8

LEMMA FreeAllStep ==
  ASSUME IInv, NEW c \in Callers, FreeAll(c)
  PROVE  IInv'
<1> USE DEF IInv
<1>1. /\ UNCHANGED <<list, call, held>>
      /\ inuse' = [b \in Numbers |-> inuse[b] /\ b \notin Entries]
      /\ spoilt' = OnLoan
  BY DEF FreeAll
<1>2. Entries' = Entries /\ OnLoan' = OnLoan
  BY <1>1 DEF Entries, OnLoan
<1>3. TypeOK'
  BY <1>1, <1>2 DEF TypeOK
<1>4. LoansExclusive'
  BY <1>1 DEF LoansExclusive, OnLoan
<1>5. LoansMarked'
  BY <1>1, <1>2 DEF LoansMarked
<1>6. \A x \in Numbers : inuse'[x] => inuse[x]
  BY <1>1 DEF TypeOK
<1>7. \A d \in Callers : call[d].pc \in {"check", "mark"} /\ ~call[d].disturbed =>
        call[d].alloc \in Numbers
  BY EntriesAreNumbers DEF TypeOK
<1>8. RefusalHonest' /\ GrantIsFresh' /\ MeetingDisturbs'
  BY <1>1, <1>6, <1>7 DEF RefusalHonest, GrantIsFresh, MeetingDisturbs
<1> QED
  BY <1>3, <1>4, <1>5, <1>8

LEMMA ExitStep ==
  ASSUME IInv, NEW c \in Callers, Exit(c)
  PROVE  IInv'
<1> USE DEF IInv
<1>1. /\ UNCHANGED <<list, inuse>>
      /\ call' = [call EXCEPT ![c] = NoCall]
      /\ held' = [held EXCEPT ![c] = {}]
      /\ spoilt' = spoilt \cap OnLoan'
  BY DEF Exit
<1>2. Entries' = Entries
  BY <1>1, Unchanged
<1>3. TypeOK'
  BY <1>1, <1>2 DEF TypeOK, Calls, NoCall
<1>4. \A d \in Callers : held'[d] \subseteq held[d] /\ held'[d] \subseteq OnLoan'
  BY <1>1 DEF TypeOK, OnLoan
<1>5. LoansExclusive'
  BY <1>1, <1>4 DEF LoansExclusive
<1>6. LoansMarked'
  <2> SUFFICES ASSUME NEW x \in OnLoan', x \notin spoilt'
               PROVE  x \in Entries /\ inuse[x]
    BY <1>1, <1>2 DEF LoansMarked
  <2>1. x \in OnLoan /\ x \notin spoilt
    BY <1>1, <1>4 DEF OnLoan
  <2> QED
    BY <2>1 DEF LoansMarked
<1>7. RefusalHonest' /\ GrantIsFresh' /\ MeetingDisturbs'
  BY <1>1 DEF RefusalHonest, GrantIsFresh, MeetingDisturbs, NoCall, TypeOK
<1> QED
  BY <1>3, <1>5, <1>6, <1>7

LEMMA ReadStep ==
  ASSUME IInv, cma_test_read
  PROVE  IInv'
<1> USE DEF IInv
<1> DEFINE h == Head(list)
<1>1. /\ UNCHANGED <<inuse, held>> /\ list # <<>> /\ list' = Tail(list)
      /\ call' = [c \in Callers |->
           IF c \in Inside(h) THEN [call[c] EXCEPT !.alloc = 0, !.disturbed = TRUE]
           ELSE call[c]]
      /\ spoilt' = spoilt \cup ({h} \cap OnLoan)
  BY DEF cma_test_read
<1>2. /\ h \in Entries /\ list' \in Seq(Numbers) /\ Entries' = Entries \ {h}
      /\ \A i, j \in DOMAIN list' : list'[i] = list'[j] => i = j
  BY <1>1, EntriesRemoved
<1>3. OnLoan' = OnLoan
  BY <1>1 DEF OnLoan
<1>4. \A c \in Inside(h) : /\ c \in Callers /\ call'[c].pc = call[c].pc
                            /\ call'[c].alloc = 0 /\ call'[c].disturbed
  BY <1>1 DEF Inside, TypeOK, Calls
<1>5. \A c \in Callers \ Inside(h) : call'[c] = call[c]
  BY <1>1
<1>6. call' \in [Callers -> Calls]
  <2>1. ASSUME NEW c \in Callers
        PROVE  [call[c] EXCEPT !.alloc = 0, !.disturbed = TRUE] \in Calls
    <3>1. call[c] \in Calls
      BY DEF TypeOK
    <3>2. ASSUME NEW x \in Calls PROVE [x EXCEPT !.alloc = 0, !.disturbed = TRUE] \in Calls
      BY DEF Calls
    <3> QED
      BY <3>1, <3>2
  <2> HIDE DEF h
  <2> QED
    BY <1>1, <2>1 DEF TypeOK
<1>7. \A c \in Callers : call'[c].pc \in {"check", "mark"} =>
        call'[c].alloc \in Entries' \/ (call'[c].alloc = 0 /\ call'[c].disturbed)
  <2>1. \A c \in Callers \ Inside(h) : call[c].pc \in {"check", "mark"} => call[c].alloc # h
    BY DEF Inside
  <2> HIDE DEF h
  <2> QED
    BY <1>2, <1>4, <1>5, <2>1 DEF TypeOK
<1> HIDE DEF h
<1>8. TypeOK'
  BY <1>1, <1>2, <1>3, <1>6, <1>7 DEF TypeOK
<1>9. LoansExclusive'
  BY <1>1 DEF LoansExclusive
<1>10. LoansMarked'
  BY <1>1, <1>2, <1>3 DEF LoansMarked
<1>11. RefusalHonest' /\ GrantIsFresh'
  BY <1>1, <1>4, <1>5 DEF RefusalHonest, GrantIsFresh
<1>12. MeetingDisturbs'
  <2> SUFFICES ASSUME NEW c \in Callers, NEW d \in Callers, c # d,
                      call'[c].pc \in {"check", "mark"}, call'[d].pc \in {"check", "mark"},
                      call'[c].alloc = call'[d].alloc
               PROVE  call'[c].disturbed
    BY DEF MeetingDisturbs
  <2>1. CASE c \in Inside(h)
    BY <1>4, <2>1
  <2>2. CASE c \notin Inside(h) /\ d \in Inside(h)
    BY <1>4, <1>5, <2>2, EntriesAreNumbers DEF TypeOK, Numbers
  <2>3. CASE c \notin Inside(h) /\ d \notin Inside(h)
    BY <1>5, <2>3 DEF MeetingDisturbs
  <2> QED
    BY <2>1, <2>2, <2>3
<1> QED
  BY <1>8, <1>9, <1>10, <1>11, <1>12

LEMMA WriteStep ==
  ASSUME IInv, cma_test_write
  PROVE  IInv'
<1> USE DEF IInv
<1>1. PICK b \in Numbers \ Entries, garbage \in BOOLEAN, D \in SUBSET Inside(0) :
        /\ list' = Append(list, b)
        /\ inuse' = [inuse EXCEPT ![b] = garbage]
        /\ call' = [c \in Callers |-> IF c \in D THEN [call[c] EXCEPT !.alloc = b] ELSE call[c]]
  BY DEF cma_test_write
<1>2. UNCHANGED <<held, spoilt>> /\ OnLoan' = OnLoan
  BY DEF cma_test_write, OnLoan
<1>3. /\ list' \in Seq(Numbers) /\ Entries' = Entries \cup {b}
      /\ \A i, j \in DOMAIN list' : list'[i] = list'[j] => i = j
  BY <1>1, EntriesAdded
<1>4. 0 \notin Numbers
  BY DEF Numbers
<1>5. \A c \in D : /\ c \in Callers /\ call[c].disturbed /\ call'[c].pc = call[c].pc
                    /\ call'[c].alloc = b /\ call'[c].disturbed
  BY <1>1, <1>4, EntriesAreNumbers DEF Inside, TypeOK, Calls
<1>6. \A c \in Callers \ D : call'[c] = call[c]
  BY <1>1
<1>7. call' \in [Callers -> Calls]
  <2>1. ASSUME NEW c \in Callers PROVE [call[c] EXCEPT !.alloc = b] \in Calls
    BY DEF TypeOK, Calls
  <2> QED
    BY <1>1, <2>1 DEF TypeOK
<1>8. TypeOK'
  <2>1. \A c \in Callers : call'[c].pc \in {"check", "mark"} =>
          call'[c].alloc \in Entries' \/ (call'[c].alloc = 0 /\ call'[c].disturbed)
    BY <1>3, <1>5, <1>6 DEF TypeOK
  <2>2. inuse' \in [Numbers -> BOOLEAN]
    BY <1>1 DEF TypeOK
  <2> QED
    BY <1>2, <1>3, <1>7, <2>1, <2>2 DEF TypeOK
<1>9. LoansExclusive'
  BY <1>2 DEF LoansExclusive
<1>10. \A x \in Entries : x # b /\ inuse'[x] = inuse[x]
  BY <1>1, EntriesAreNumbers DEF TypeOK
<1>11. LoansMarked'
  BY <1>2, <1>3, <1>10 DEF LoansMarked
<1>12. \A c \in Callers : call[c].pc \in {"check", "mark"} /\ ~call[c].disturbed =>
         call[c].alloc \in Entries /\ c \notin D
  BY <1>5 DEF TypeOK
<1>13. RefusalHonest' /\ GrantIsFresh'
  BY <1>5, <1>6, <1>10, <1>12 DEF RefusalHonest, GrantIsFresh
<1>14. MeetingDisturbs'
  <2> SUFFICES ASSUME NEW c \in Callers, NEW d \in Callers, c # d,
                      call'[c].pc \in {"check", "mark"}, call'[d].pc \in {"check", "mark"},
                      call'[c].alloc = call'[d].alloc
               PROVE  call'[c].disturbed
    BY DEF MeetingDisturbs
  <2>1. CASE c \in D
    BY <1>5, <2>1
  <2>2. CASE c \notin D /\ d \in D
    BY <1>5, <1>6, <1>12, <2>2
  <2>3. CASE c \notin D /\ d \notin D
    BY <1>6, <2>3 DEF MeetingDisturbs
  <2> QED
    BY <2>1, <2>2, <2>3
<1> QED
  BY <1>8, <1>9, <1>11, <1>13, <1>14

LEMMA NextIInv == ASSUME IInv, [Next]_cmaVars PROVE IInv'
<1>1. ASSUME NEW c \in Callers, ReportFull(c) \/ CheckFree(c) PROVE IInv'
  BY <1>1, CheckStep
<1>2. ASSUME UNCHANGED cmaVars PROVE IInv'
  BY <1>2 DEF cmaVars, IInv, TypeOK, LoansExclusive, LoansMarked, RefusalHonest,
              GrantIsFresh, MeetingDisturbs, Entries, OnLoan
<1> QED
  BY <1>1, <1>2, ScanStep, MarkInuseStep, FreeOneStep, FreeAllStep, ExitStep,
     ReadStep, WriteStep DEF Next

-----------------------------------------------------------------------------
THEOREM PoolInvariant == Spec => []IInv
<1>1. IInv /\ [Next]_cmaVars => IInv'
  BY NextIInv
<1> QED
  BY InitIInv, <1>1, PTL DEF Spec

(* The state of the pool stays well formed: no buffer is on the list       *)
(* twice, and only a disturbed call has a pointer to a freed entry.        *)
THEOREM TypeCorrect == Spec => []TypeOK
<1>1. IInv => TypeOK
  BY DEF IInv
<1> QED
  BY PoolInvariant, <1>1, PTL

(* However many processes allocate and free, two share a buffer only when  *)
(* a disturbed call granted it, all marks were cleared or its entry was    *)
(* removed.                                                                *)
THEOREM LoansAreExclusive == Spec => []LoansExclusive
<1>1. IInv => LoansExclusive
  BY DEF IInv
<1> QED
  BY PoolInvariant, <1>1, PTL

(* A call that no other call and no removal disturbed is refused only when *)
(* its scan found all buffers in use.                                      *)
THEOREM RefusalIsHonest == Spec => []RefusalHonest
<1>1. IInv => RefusalHonest
  BY DEF IInv
<1> QED
  BY PoolInvariant, <1>1, PTL

(* Loans that nothing has spoilt keep their entries and their marks.       *)
THEOREM LoansStayMarked == Spec => []LoansMarked
<1>1. IInv => LoansMarked
  BY DEF IInv
<1> QED
  BY PoolInvariant, <1>1, PTL
=============================================================================
