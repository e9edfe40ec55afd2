----------------------------- MODULE DlHarqProofs -----------------------------
(***************************************************************************)
(* Theorems about DlHarq, for every set of UEs, every number of processes  *)
(* and retransmissions, and every delay of the feedback that the number of *)
(* processes allows.                                                       *)
(***************************************************************************)
EXTENDS DlHarq, FiniteSetTheorems, TLAPS

USE HarqAssumption DEF Erased, NewBlock

\* The processes of UE u, and those of them that hold a block.
ProcessesOf(u) == {p \in Processes : p[1] = u}
ActiveOf(u) == {p \in Processes : p[1] = u /\ Active(p)}

-----------------------------------------------------------------------------
(* Sizes.                                                                  *)

\* There are finitely many processes.
LEMMA ProcessesFinite == IsFiniteSet(Processes)
<1>1. IsFiniteSet(0..(NumProc - 1))
  BY FS_Interval
<1>2. QED
  BY <1>1, FS_Product DEF Processes

\* A UE has NumProc of them.
LEMMA ProcessesOfUe ==
  ASSUME NEW u \in UEs
  PROVE  IsFiniteSet(ProcessesOf(u)) /\ Cardinality(ProcessesOf(u)) = NumProc
<1> DEFINE I == 0..(NumProc - 1)
           f == [i \in I |-> <<u, i>>]
<1>1. IsFiniteSet(I) /\ Cardinality(I) = NumProc
  BY FS_Interval
<1>2. f \in [I -> ProcessesOf(u)]
  BY DEF ProcessesOf, Processes
<1>3. \A i, j \in I : f[i] = f[j] => i = j
  OBVIOUS
<1>4. \A p \in ProcessesOf(u) : \E i \in I : f[i] = p
  BY DEF ProcessesOf, Processes
<1>5. ExistsBijection(I, ProcessesOf(u))
  <2> HIDE DEF f
  <2>1. f \in Bijection(I, ProcessesOf(u))
    BY <1>2, <1>3, <1>4 DEF Bijection, Injection, Surjection, IsInjective
  <2>2. QED
    BY <2>1 DEF ExistsBijection
<1>6. QED
  BY <1>1, <1>5, FS_Bijection

-----------------------------------------------------------------------------
(* What a slot does to the feedback.                                       *)

\* What is freed held a block; what is sent again holds one, is not freed,
\* and was not sent often enough.
LEMMA FreedAndAgain ==
  /\ Freed \subseteq {p \in Processes : Active(p)}
  /\ Again \subseteq Kept
  /\ Again \cap Freed = {}
  /\ \A p \in Again : proc[p].rv # MaxRv
<1>1. Expired \cap Kept = {} /\ Kept \subseteq {p \in Processes : Active(p)}
  BY DEF Expired, Kept
<1>2. Acked \subseteq Kept /\ Nacked \subseteq Kept /\ Nacked \cap Acked = {}
  BY DEF Acked, Nacked
<1>3. Dropped \subseteq Nacked /\ Again = Nacked \ Dropped
  BY DEF Dropped, Again
<1>4. \A p \in Again : proc[p].rv # MaxRv
  BY DEF Again, Dropped
<1>5. Expired \subseteq {p \in Processes : Active(p)}
  BY DEF Expired, Expires
<1>6. QED
  BY <1>1, <1>2, <1>3, <1>4, <1>5 DEF Freed

\* A UE that may get a block has a process that is not in use, and takes it.
LEMMA TakesFree ==
  ASSUME TypeOK, NEW u \in UEs, CanInsert(u, Freed)
  PROVE  LET i == FirstAvailableId(u, Freed)
         IN  /\ <<u, i>> \in Processes
             /\ ~Active(<<u, i>>) \/ <<u, i>> \in Freed
<1> DEFINE I == 0..(NumProc - 1)
<1>1. \E i \in I : ~Active(<<u, i>>) \/ <<u, i>> \in Freed
  <2> SUFFICES ASSUME \A i \in I : Active(<<u, i>>) /\ <<u, i>> \notin Freed
               PROVE  FALSE
    OBVIOUS
  <2>1. \A p \in ProcessesOf(u) : Active(p) /\ p \notin Freed
    BY DEF ProcessesOf, Processes
  <2>2. ActiveOf(u) = ProcessesOf(u)
    BY <2>1 DEF ActiveOf, ProcessesOf
  <2>3. used[u] = NumProc
    BY <2>2, ProcessesOfUe DEF TypeOK, ActiveOf
  <2>4. {p \in Freed : p[1] = u} = {}
    BY <2>1, FreedAndAgain DEF ProcessesOf
  <2>5. Count(Freed, u) = 0
    BY <2>4, FS_EmptySet DEF Count
  <2>6. QED
    BY <2>3, <2>5 DEF CanInsert
<1>2. LET i == FirstAvailableId(u, Freed)
      IN  i \in I /\ (~Active(<<u, i>>) \/ <<u, i>> \in Freed)
  BY <1>1 DEF FirstAvailableId
<1>3. QED
  BY <1>2 DEF Processes

\* New blocks take processes that nothing else uses in the slot.
LEMMA InsertedFree ==
  ASSUME TypeOK, NEW ues \in SUBSET {u \in UEs : CanInsert(u, Freed)}
  PROVE  /\ Inserted(ues, Freed) \subseteq Processes
         /\ \A p \in Inserted(ues, Freed) : ~Active(p) \/ p \in Freed
         /\ Inserted(ues, Freed) \cap Again = {}
         /\ \A p, r \in Inserted(ues, Freed) : p[1] = r[1] => p = r
         /\ \A p \in Inserted(ues, Freed) : p[1] \in ues
<1> DEFINE new == Inserted(ues, Freed)
<1>1. \A p \in new : \E u \in ues : p = <<u, FirstAvailableId(u, Freed)>>
  BY DEF Inserted
<1>2. \A p \in new : p \in Processes /\ (~Active(p) \/ p \in Freed)
  BY <1>1, TakesFree
<1>3. \A p \in Again : Active(p) /\ p \notin Freed
  BY FreedAndAgain DEF Kept
<1>4. \A p \in new : \E u \in ues : p[1] = u /\ p = <<u, FirstAvailableId(u, Freed)>>
  BY <1>1
<1>5. QED
  BY <1>2, <1>3, <1>4

\* What a slot leaves in process p: a new block, nothing, a block sent again
\* or put off, one that waits for its feedback, or what was there.
Leaves(r, p, sent, new, left) ==
  /\ p \in new => r = NewBlock(left)
  /\ p \in Freed \ new => r = Erased
  /\ p \in sent => r = [proc[p] EXCEPT !.timer = 0, !.rv = @ + 1]
  /\ p \in Again \ sent => r = [proc[p] EXCEPT !.timer = 0]
  /\ Active(p) /\ p \notin Freed \cup Again \cup new
       => r = [proc[p] EXCEPT !.timer = @ + 1]
  /\ ~Active(p) /\ p \notin new => r = proc[p]

\* The cases of Process exclude each other.
LEMMA ProcessValue ==
  ASSUME NEW sent \in SUBSET Again, NEW new, NEW left, new \cap Again = {},
         \A p \in new : ~Active(p) \/ p \in Freed,
         NEW p \in Processes
  PROVE  Leaves(Process(p, Freed, Again, sent, new, left), p, sent, new, left)
<1> USE DEF Leaves
<1>1. Again \cap Freed = {} /\ \A q \in Again \cup Freed : Active(q)
  BY FreedAndAgain DEF Kept
<1>2. CASE p \in new
  BY <1>1, <1>2 DEF Process
<1>3. CASE p \in Freed \ new
  BY <1>1, <1>3 DEF Process
<1>4. CASE p \in sent
  BY <1>1, <1>4 DEF Process
<1>5. CASE p \in Again \ sent
  BY <1>1, <1>5 DEF Process
<1>6. CASE Active(p) /\ p \notin Freed \cup Again \cup new
  BY <1>1, <1>6 DEF Process
<1>7. CASE ~Active(p) /\ p \notin new
  BY <1>1, <1>7 DEF Process
<1>8. QED
  BY <1>2, <1>3, <1>4, <1>5, <1>6, <1>7

\* A slot, with what it sends and inserts.
SlotStep(sent, ues, left, filled) ==
  LET new == Inserted(ues, Freed) IN
  /\ \A a \in air : a.age + 1 < MaxDelay
  /\ left \in 0..MaxSym
  /\ retransmit' \in Orders(Again \ sent)
  /\ proc' = [p \in Processes |-> Process(p, Freed, Again, sent, new, left)]
  /\ used' = [u \in UEs |-> used[u] - Count(Freed, u) + Count(new, u)]
  /\ filled \in SUBSET new
  /\ Transmit(sent, new, filled)
  /\ received' = {}

\* The order of a slot, what is sent of it, and what that leaves.
Served(q, sent, avail, left) ==
  /\ Resends(q, sent, avail)
  /\ Buffers(q, retransmit')
  /\ LeavesFor(sent, avail, left)

\* Every step of the scheduler is such a slot, in such an order.
LEMMA SlotChoices ==
  ASSUME NEW avail \in 0..MaxSym, Slot(avail)
  PROVE  \E sent \in SUBSET Again, ues \in SUBSET {u \in UEs : CanInsert(u, Freed)},
            left \in 0..avail :
           \E filled : \E q \in Sorted(Again) :
             SlotStep(sent, ues, left, filled) /\ Served(q, sent, avail, left)
<1>1. PICK q \in Sorted(Again), sent \in SUBSET Again :
        /\ Resends(q, sent, avail)
        /\ \E rest \in Orders(Again \ sent) : Buffers(q, rest) /\ retransmit' = rest
        /\ \E ues \in SUBSET {u \in UEs : CanInsert(u, Freed) /\ Count(sent, u) = 0},
              left \in 0..avail :
             LET new == Inserted(ues, Freed) IN
             /\ LeavesFor(sent, avail, left)
             /\ proc' = [p \in Processes |-> Process(p, Freed, Again, sent, new, left)]
             /\ used' = [u \in UEs |-> used[u] - Count(Freed, u) + Count(new, u)]
             /\ \E filled \in SUBSET new : Transmit(sent, new, filled)
  BY DEF Slot
<1>2. PICK ues \in SUBSET {u \in UEs : CanInsert(u, Freed) /\ Count(sent, u) = 0},
           left \in 0..avail :
        LET new == Inserted(ues, Freed) IN
        /\ LeavesFor(sent, avail, left)
        /\ proc' = [p \in Processes |-> Process(p, Freed, Again, sent, new, left)]
        /\ used' = [u \in UEs |-> used[u] - Count(Freed, u) + Count(new, u)]
        /\ \E filled \in SUBSET new : Transmit(sent, new, filled)
  BY <1>1
<1>3. PICK filled \in SUBSET Inserted(ues, Freed) :
        Transmit(sent, Inserted(ues, Freed), filled)
  BY <1>2
<1>4. (\A a \in air : a.age + 1 < MaxDelay) /\ received' = {}
  BY DEF Slot
<1>5. ues \in SUBSET {u \in UEs : CanInsert(u, Freed)} /\ left \in 0..MaxSym
  OBVIOUS
<1>6. retransmit' \in Orders(Again \ sent) /\ Buffers(q, retransmit')
  BY <1>1
<1>7. SlotStep(sent, ues, left, filled)
  BY <1>2, <1>3, <1>4, <1>5, <1>6 DEF SlotStep
<1>8. Served(q, sent, avail, left)
  BY <1>1, <1>2, <1>6 DEF Served
<1>9. QED
  BY <1>5, <1>7, <1>8

\* What most proofs need of it.
LEMMA SlotSteps ==
  ASSUME SchedDlTrigger
  PROVE  \E sent \in SUBSET Again, ues \in SUBSET {u \in UEs : CanInsert(u, Freed)} :
           \E left, filled : SlotStep(sent, ues, left, filled)
<1>1. PICK avail \in 0..MaxSym : Slot(avail)
  BY DEF SchedDlTrigger
<1>2. QED
  BY <1>1, SlotChoices

-----------------------------------------------------------------------------
(* Type correctness.                                                       *)

\* At the start no process is active.
LEMMA InitType == Init => TypeOK
<1> SUFFICES ASSUME Init PROVE TypeOK
  OBVIOUS
<1>1. \A u \in UEs : used[u] = Cardinality({p \in Processes : p[1] = u /\ Active(p)})
  <2>1. ASSUME NEW u \in UEs
        PROVE  {p \in Processes : p[1] = u /\ Active(p)} = {}
    BY DEF Init, Active
  <2>2. QED
    BY <2>1, FS_EmptySet DEF Init
<1>2. proc \in [Processes -> [active : BOOLEAN, timer : 0..NumProc, rv : 0..MaxRv, sym : 0..MaxSym]]
  BY DEF Init
<1>3. QED
  BY <1>1, <1>2 DEF Init, TypeOK

\* Feedback that arrives is a pair of a process and a verdict.
LEMMA ReceiveType ==
  ASSUME TypeOK, NEW a \in air, NEW ok \in BOOLEAN, Receive(a, ok)
  PROVE  TypeOK'
<1>1. a.p \in Processes
  BY DEF TypeOK
<1>2. received' \subseteq [p : Processes, ok : BOOLEAN]
  BY <1>1 DEF Receive, TypeOK
<1>3. packets' \in [Processes -> BOOLEAN]
  BY <1>1 DEF Receive, TypeOK, Discards
<1>4. air' \subseteq [p : Processes, age : 0..(MaxDelay - 1)]
  BY DEF Receive, TypeOK
<1>5. QED
  BY <1>2, <1>3, <1>4 DEF Receive, TypeOK, Active

\* In a slot the cases of Process are those of the slot.
LEMMA SlotLeaves ==
  ASSUME TypeOK, NEW sent \in SUBSET Again,
         NEW ues \in SUBSET {u \in UEs : CanInsert(u, Freed)},
         NEW left, NEW filled, SlotStep(sent, ues, left, filled), NEW p \in Processes
  PROVE  Leaves(proc'[p], p, sent, Inserted(ues, Freed), left)
<1>1. PICK new : new = Inserted(ues, Freed)
  OBVIOUS
<1>2. new \cap Again = {} /\ \A r \in new : ~Active(r) \/ r \in Freed
  BY <1>1, InsertedFree
<1>3. proc'[p] = Process(p, Freed, Again, sent, new, left)
  BY <1>1 DEF SlotStep
<1>4. Leaves(Process(p, Freed, Again, sent, new, left), p, sent, new, left)
  BY <1>2, ProcessValue
<1>5. QED
  BY <1>1, <1>3, <1>4

\* A slot leaves every process with a block, a timer and a number of
\* retransmissions in their ranges.
LEMMA SlotProcType ==
  ASSUME TypeOK, NEW sent \in SUBSET Again,
         NEW ues \in SUBSET {u \in UEs : CanInsert(u, Freed)},
         NEW left, NEW filled, SlotStep(sent, ues, left, filled)
  PROVE  proc' \in [Processes -> [active : BOOLEAN, timer : 0..NumProc, rv : 0..MaxRv, sym : 0..MaxSym]]
<1> DEFINE Block == [active : BOOLEAN, timer : 0..NumProc, rv : 0..MaxRv, sym : 0..MaxSym]
<1>1. ASSUME NEW p \in Processes PROVE proc'[p] \in Block
  <2>1. PICK new : new = Inserted(ues, Freed)
    OBVIOUS
  <2>2. Leaves(proc'[p], p, sent, new, left)
    BY <2>1, SlotLeaves
  <2>3. proc[p] \in Block
    BY DEF TypeOK
  <2>4. CASE p \in new \cup Freed
    <3>1. proc'[p] = NewBlock(left)
            \/ proc'[p] = Erased
      BY <2>2, <2>4 DEF Leaves
    <3>2. /\ 0 \in 0..NumProc /\ 0 \in 0..MaxRv /\ 0 \in 0..MaxSym /\ left \in 0..MaxSym
          /\ TRUE \in BOOLEAN /\ FALSE \in BOOLEAN
      BY DEF SlotStep
    <3>3. /\ NewBlock(left) \in Block
          /\ Erased \in Block
      BY <3>2, Zenon
    <3>4. QED
      BY <3>1, <3>3
  <2>5. CASE p \in Again
    <3>1. proc[p].rv \in 0..(MaxRv - 1)
      BY <2>3, <2>5, FreedAndAgain
    <3>2. CASE p \in sent
      <4>1. proc'[p] = [proc[p] EXCEPT !.timer = 0, !.rv = @ + 1]
        BY <2>2, <3>2 DEF Leaves
      <4>2. proc[p].rv + 1 \in 0..MaxRv /\ 0 \in 0..NumProc
        BY <3>1
      <4>3. QED
        BY <2>3, <4>1, <4>2
    <3>3. CASE p \in Again \ sent
      <4>1. proc'[p] = [proc[p] EXCEPT !.timer = 0]
        BY <2>2, <3>3 DEF Leaves
      <4>2. QED
        BY <2>3, <4>1
    <3>4. QED
      BY <2>5, <3>2, <3>3
  <2>6. CASE Active(p) /\ p \notin Freed \cup Again \cup new
    <3>1. proc[p].timer < NumProc
      BY <2>3, <2>6 DEF Freed, Expired, Expires
    <3>2. proc'[p] = [proc[p] EXCEPT !.timer = @ + 1]
      BY <2>2, <2>6 DEF Leaves
    <3>3. QED
      BY <2>3, <3>1, <3>2
  <2>7. CASE ~Active(p) /\ p \notin new
    BY <2>2, <2>3, <2>7 DEF Leaves
  <2>8. QED
    BY <2>4, <2>5, <2>6, <2>7
<1>2. QED
  BY <1>1 DEF SlotStep

\* The size kept beside the map follows the map: what is freed was counted,
\* and what is inserted was not, or was freed in the same slot.
LEMMA SlotUsed ==
  ASSUME TypeOK, NEW sent \in SUBSET Again,
         NEW ues \in SUBSET {u \in UEs : CanInsert(u, Freed)},
         NEW left, NEW filled, SlotStep(sent, ues, left, filled), NEW u \in UEs
  PROVE  used'[u] = Cardinality({p \in Processes : p[1] = u /\ Active(p)'})
<1>1. PICK new : new = Inserted(ues, Freed)
  OBVIOUS
<1> DEFINE A == ActiveOf(u)
           F == {p \in Freed : p[1] = u}
           M == {p \in new : p[1] = u}
<1>2. /\ new \subseteq Processes
      /\ new \cap Again = {}
      /\ \A p \in new : ~Active(p) \/ p \in Freed
  BY <1>1, InsertedFree
<1>3. F \subseteq A /\ Freed \subseteq Processes
  BY FreedAndAgain DEF ActiveOf
<1>4. \A p \in Processes : Active(p)' <=> p \in new \/ (Active(p) /\ p \notin Freed)
  <2>1. SUFFICES ASSUME NEW p \in Processes
                 PROVE  proc'[p].active <=> p \in new \/ (Active(p) /\ p \notin Freed)
    BY DEF Active
  <2>2. Leaves(proc'[p], p, sent, new, left)
    BY <1>1, SlotLeaves
  <2>3. /\ proc[p] \in [active : BOOLEAN, timer : 0..NumProc, rv : 0..MaxRv, sym : 0..MaxSym]
        /\ p \in Again => Active(p) /\ p \notin Freed /\ p \notin new
    BY <1>2, FreedAndAgain DEF TypeOK, Kept
  <2>4. CASE p \in new \cup Freed
    BY <2>2, <2>4 DEF Leaves
  <2>5. CASE p \in Again
    <3>1. proc'[p].active = proc[p].active
      BY <2>2, <2>3, <2>5 DEF Leaves
    <3>2. QED
      BY <2>3, <2>5, <3>1 DEF Active
  <2>6. CASE Active(p) /\ p \notin Freed \cup Again \cup new
    BY <2>2, <2>3, <2>6 DEF Leaves, Active
  <2>7. CASE ~Active(p) /\ p \notin new
    BY <2>2, <2>3, <2>7 DEF Leaves, Active
  <2>8. QED
    BY <2>4, <2>5, <2>6, <2>7
<1>5. {p \in Processes : p[1] = u /\ Active(p)'} = (A \ F) \cup M
  BY <1>2, <1>4 DEF ActiveOf
<1>6. IsFiniteSet(A) /\ IsFiniteSet(F) /\ IsFiniteSet(M)
  <2>1. A \in SUBSET Processes /\ F \in SUBSET Processes /\ M \in SUBSET Processes
    BY <1>2, <1>3 DEF ActiveOf
  <2>2. QED
    BY <2>1, ProcessesFinite, FS_Subset
<1>7. (A \ F) \cap M = {}
  BY <1>2 DEF ActiveOf
<1> HIDE DEF A, F, M
<1>8. A \cap F = F
  BY <1>3
<1>9. IsFiniteSet(A \ F) /\ Cardinality(A \ F) = Cardinality(A) - Cardinality(F)
  BY <1>6, <1>8, FS_Difference
<1>10. Cardinality((A \ F) \cup M) = Cardinality(A \ F) + Cardinality(M) - Cardinality({})
  BY <1>6, <1>7, <1>9, FS_Union
<1>11. /\ Cardinality(A) \in Nat /\ Cardinality(F) \in Nat /\ Cardinality(M) \in Nat
       /\ Cardinality({}) = 0
  BY <1>6, FS_CardinalityType, FS_EmptySet
<1>12. Cardinality((A \ F) \cup M) = Cardinality(A) - Cardinality(F) + Cardinality(M)
  BY <1>9, <1>10, <1>11
<1>13. used'[u] = used[u] - Cardinality(F) + Cardinality(M)
  BY <1>1 DEF SlotStep, Count, F, M
<1>14. used[u] = Cardinality(A)
  BY DEF TypeOK, A, ActiveOf
<1>15. QED
  BY <1>5, <1>12, <1>13, <1>14

\* What waits after a slot was to be sent again and was not sent.
LEMMA SlotWaiting ==
  ASSUME NEW sent \in SUBSET Again, NEW ues, NEW left, NEW filled, SlotStep(sent, ues, left, filled)
  PROVE  /\ Waiting' \subseteq Again \ sent
         /\ \A j, k \in DOMAIN retransmit' : retransmit'[j] = retransmit'[k] => j = k
         /\ \A j \in DOMAIN retransmit' : retransmit'[j] \in Processes
<1>1. retransmit' \in Orders(Again \ sent)
  BY DEF SlotStep
<1>2. /\ DOMAIN retransmit' = 1..Cardinality(Again \ sent)
      /\ \A j \in DOMAIN retransmit' : retransmit'[j] \in Again \ sent
      /\ \A j, k \in DOMAIN retransmit' : j # k => retransmit'[j] # retransmit'[k]
  BY <1>1 DEF Orders
<1>3. Again \subseteq Processes
  BY FreedAndAgain DEF Kept
<1>4. QED
  BY <1>2, <1>3 DEF Waiting

\* Blocks and feedback on the air belong to processes, and are not too old.
LEMMA SlotAirType ==
  ASSUME TypeOK, NEW sent \in SUBSET Again,
         NEW ues \in SUBSET {u \in UEs : CanInsert(u, Freed)},
         NEW left, NEW filled, SlotStep(sent, ues, left, filled)
  PROVE  /\ air' \subseteq [p : Processes, age : 0..(MaxDelay - 1)]
         /\ packets' \in [Processes -> BOOLEAN]
<1>1. Inserted(ues, Freed) \subseteq Processes /\ Again \subseteq Processes
  BY InsertedFree, FreedAndAgain DEF Kept
<1>2. filled \subseteq Processes /\ sent \subseteq Processes
  BY <1>1 DEF SlotStep
<1>3. \A a \in air : [a EXCEPT !.age = @ + 1] \in [p : Processes, age : 0..(MaxDelay - 1)]
  <2>1. SUFFICES ASSUME NEW a \in air
                 PROVE  [a EXCEPT !.age = @ + 1] \in [p : Processes, age : 0..(MaxDelay - 1)]
    OBVIOUS
  <2>2. a \in [p : Processes, age : 0..(MaxDelay - 1)] /\ a.age + 1 < MaxDelay
    BY DEF TypeOK, SlotStep
  <2>3. QED
    BY <2>2
<1>4. \A p \in Processes : [p |-> p, age |-> 0] \in [p : Processes, age : 0..(MaxDelay - 1)]
  OBVIOUS
<1>5. air' \subseteq [p : Processes, age : 0..(MaxDelay - 1)]
  BY <1>2, <1>3, <1>4 DEF SlotStep, Transmit
<1>6. packets' \in [Processes -> BOOLEAN]
  <2>1. PICK new : new = Inserted(ues, Freed)
    OBVIOUS
  <2>2. packets' = [p \in Processes |-> IF p \in new THEN p \in filled ELSE packets[p]]
    BY <2>1 DEF SlotStep, Transmit
  <2>3. \A p \in Processes : packets[p] \in BOOLEAN /\ (p \in filled) \in BOOLEAN
    BY DEF TypeOK
  <2>4. \A p \in Processes : (IF p \in new THEN p \in filled ELSE packets[p]) \in BOOLEAN
    BY <2>3, Zenon
  <2>5. QED
    BY <2>2, <2>4, Zenon
<1>7. QED
  BY <1>5, <1>6

\* Every step preserves the types.
LEMMA NextType == TypeOK /\ [Next]_vars => TypeOK'
<1> SUFFICES ASSUME TypeOK, [Next]_vars PROVE TypeOK'
  OBVIOUS
<1>1. CASE SchedDlTrigger
  <2>1. PICK sent \in SUBSET Again, ues \in SUBSET {u \in UEs : CanInsert(u, Freed)} :
          \E left, filled : SlotStep(sent, ues, left, filled)
    BY <1>1, SlotSteps
  <2>2. PICK left, filled : SlotStep(sent, ues, left, filled)
    BY <2>1
  <2>3. received' = {}
    BY <2>2 DEF SlotStep
  <2>4. \A u \in UEs : used'[u] = Cardinality({p \in Processes : p[1] = u /\ Active(p)'})
    BY <2>2, SlotUsed
  <2>5. QED
    BY <2>2, <2>3, <2>4, SlotProcType, SlotWaiting, SlotAirType DEF TypeOK
<1>2. CASE ReceiveFeedback
  BY <1>2, ReceiveType DEF ReceiveFeedback
<1>3. CASE UNCHANGED vars
  BY <1>3 DEF vars, TypeOK, Active
<1>4. QED
  BY <1>1, <1>2, <1>3 DEF Next

\* Every variable keeps its type: the size kept beside the map of processes is
\* the number of active ones, whatever expires, is answered, and is inserted
\* in one slot (nr-mac-harq-vector.cc:24).
THEOREM TypeCorrect == Spec => []TypeOK
<1>1. Init => TypeOK
  BY InitType
<1>2. TypeOK /\ [Next]_vars => TypeOK'
  BY NextType
<1>3. QED
  BY <1>1, <1>2, PTL DEF Spec

-----------------------------------------------------------------------------
(* One feedback for every block.                                           *)

\* A block that is on the air is neither freed, nor sent again, nor replaced.
LEMMA OnAirUndisturbed ==
  ASSUME TypeOK, OneFeedback, NEW a \in air, a.age + 1 < MaxDelay,
         NEW ues \in SUBSET {u \in UEs : CanInsert(u, Freed)}
  PROVE  /\ a.p \in Processes /\ Active(a.p) /\ proc[a.p].timer = a.age
         /\ a.p \notin Freed /\ a.p \notin Again /\ a.p \notin Inserted(ues, Freed)
<1>1. a.p \in Processes /\ a.age \in 0..(MaxDelay - 1)
  BY DEF TypeOK
<1>2. Active(a.p) /\ proc[a.p].timer = a.age
  BY DEF OneFeedback
<1>3. ~Expires(a.p)
  BY <1>1, <1>2 DEF Expires
<1>4. a.p \notin Waiting /\ \A f \in received : f.p # a.p
  <2>1. \A f \in received : f \in [p : Processes, ok : BOOLEAN]
    BY DEF TypeOK
  <2>2. a \in [p : Processes, age : 0..(MaxDelay - 1)]
    BY DEF TypeOK
  <2>3. a \notin received
    BY <2>1, <2>2
  <2>4. QED
    BY <2>3 DEF OneFeedback
<1>5. a.p \notin Freed /\ a.p \notin Again
  BY <1>3, <1>4 DEF Freed, Expired, Acked, Dropped, Nacked, Again
<1>6. QED
  BY <1>1, <1>2, <1>5, InsertedFree

\* Feedback that arrives takes the place of what was on the air.
LEMMA ReceiveOnce ==
  ASSUME TypeOK, OneFeedback, NEW a \in air, NEW ok \in BOOLEAN, Receive(a, ok)
  PROVE  OneFeedback'
<1> DEFINE f0 == [p |-> a.p, ok |-> ok]
<1>1. air' = air \ {a} /\ received' = received \cup {f0} /\ UNCHANGED <<proc, retransmit>>
  BY DEF Receive
<1>2. Waiting' = Waiting /\ Kept' = Kept /\ \A p : Active(p)' = Active(p)
  BY <1>1 DEF Waiting, Kept, Active, Expires
<1>3. a.p \in Processes /\ a.age \in 0..(MaxDelay - 1) /\ Active(a.p) /\ proc[a.p].timer = a.age
  BY DEF TypeOK, OneFeedback
<1>4. Active(a.p)
  BY <1>3
<1>5. a \notin received
  <2>1. \A f \in received : f \in [p : Processes, ok : BOOLEAN]
    BY DEF TypeOK
  <2>2. a \in [p : Processes, age : 0..(MaxDelay - 1)]
    BY DEF TypeOK
  <2>3. QED
    BY <2>1, <2>2
<1>6. \A g \in received \cup (air \ {a}) : g.p # a.p
  BY <1>5 DEF OneFeedback
<1>7. \A f, g \in received' \cup air' : f.p = g.p => f = g
  <2>1. \A f, g \in received \cup air : f.p = g.p => f = g
    BY DEF OneFeedback
  <2>2. f0.p = a.p
    OBVIOUS
  <2> HIDE DEF f0
  <2>3. QED
    BY <1>1, <1>6, <2>1, <2>2
<1>8. \A q \in Waiting' : q \in Kept' /\ \A f \in received' \cup air' : f.p # q
  <2>1. \A q \in Waiting : q \in Kept /\ \A f \in received \cup air : f.p # q
    BY DEF OneFeedback
  <2>2. \A q \in Waiting : f0.p # q
    BY <2>1
  <2> HIDE DEF f0
  <2>3. QED
    BY <1>1, <1>2, <2>1, <2>2
<1>9. \A f \in received' : Active(f.p)'
  <2>1. Active(f0.p)
    BY <1>4
  <2> HIDE DEF f0
  <2>2. QED
    BY <1>1, <1>2, <2>1 DEF OneFeedback
<1>10. \A b \in air' : Active(b.p)' /\ proc'[b.p].timer = b.age
  BY <1>1, <1>2 DEF OneFeedback
<1>11. \A j, k \in DOMAIN retransmit' : retransmit'[j] = retransmit'[k] => j = k
  BY <1>1 DEF OneFeedback
<1>12. QED
  BY <1>7, <1>8, <1>9, <1>10, <1>11 DEF OneFeedback

\* In a slot the blocks that are on the air grow older with their timers, and
\* those that are sent begin with a timer of zero.
LEMMA SlotOnce ==
  ASSUME TypeOK, OneFeedback, NEW sent \in SUBSET Again,
         NEW ues \in SUBSET {u \in UEs : CanInsert(u, Freed)},
         NEW left, NEW filled, SlotStep(sent, ues, left, filled)
  PROVE  OneFeedback'
<1>1. PICK new : new = Inserted(ues, Freed)
  OBVIOUS
<1> DEFINE older == {[a EXCEPT !.age = @ + 1] : a \in air}
           again == filled \cup {r \in sent : packets[r]}
           fresh == {[p |-> p, age |-> 0] : p \in again}
<1>2. air' = older \cup fresh /\ received' = {}
  BY <1>1 DEF SlotStep, Transmit
<1>3. \A p \in Processes : Leaves(proc'[p], p, sent, new, left)
  BY <1>1, SlotLeaves
<1>4. /\ filled \subseteq new /\ new \subseteq Processes /\ new \cap Again = {}
      /\ Again \subseteq Kept /\ Again \cap Freed = {} /\ Kept \subseteq Processes
  BY <1>1, InsertedFree, FreedAndAgain DEF SlotStep, Kept
<1>5. \A a \in air : /\ a \in [p : Processes, age : 0..(MaxDelay - 1)]
                     /\ Active(a.p) /\ proc[a.p].timer = a.age
                     /\ a.p \notin Freed /\ a.p \notin Again /\ a.p \notin new
  BY <1>1, OnAirUndisturbed DEF TypeOK, SlotStep
<1>6. \A b \in older : /\ b.p \notin Again /\ b.p \notin new
                       /\ proc'[b.p].active /\ proc'[b.p].timer = b.age
  <2>1. SUFFICES ASSUME NEW a \in air
                 PROVE  LET b == [a EXCEPT !.age = @ + 1] IN
                        /\ b.p \notin Again /\ b.p \notin new
                        /\ proc'[b.p].active /\ proc'[b.p].timer = b.age
    OBVIOUS
  <2>2. proc[a.p] \in [active : BOOLEAN, timer : 0..NumProc, rv : 0..MaxRv, sym : 0..MaxSym]
    BY <1>5 DEF TypeOK
  <2>3. proc'[a.p] = [proc[a.p] EXCEPT !.timer = @ + 1]
    BY <1>3, <1>5 DEF Leaves
  <2>4. proc'[a.p].active /\ proc'[a.p].timer = a.age + 1
    BY <1>5, <2>2, <2>3 DEF Active
  <2>5. QED
    BY <1>5, <2>4
<1>7. \A p \in again : p \in Processes /\ proc'[p].active /\ proc'[p].timer = 0
  <2>1. SUFFICES ASSUME NEW p \in again
                 PROVE  p \in Processes /\ proc'[p].active /\ proc'[p].timer = 0
    OBVIOUS
  <2>2. p \in Processes
    BY <1>4
  <2>3. CASE p \in new
    <3>1. proc'[p] = NewBlock(left)
      BY <1>3, <2>2, <2>3 DEF Leaves
    <3>2. QED
      BY <2>2, <3>1
  <2>4. CASE p \in sent
    <3>1. proc[p] \in [active : BOOLEAN, timer : 0..NumProc, rv : 0..MaxRv, sym : 0..MaxSym] /\ proc[p].active
      BY <1>4, <2>2, <2>4 DEF TypeOK, Kept, Active
    <3>2. proc'[p] = [proc[p] EXCEPT !.timer = 0, !.rv = @ + 1]
      BY <1>3, <2>2, <2>4 DEF Leaves
    <3>3. QED
      BY <2>2, <3>1, <3>2
  <2>5. QED
    BY <1>4, <2>3, <2>4
<1>8. again \subseteq new \cup sent
  BY <1>4
<1>9. \A b \in fresh : b.p \in again /\ b.age = 0 /\ b = [p |-> b.p, age |-> 0]
  OBVIOUS
<1>10. \A b \in air' : Active(b.p)' /\ proc'[b.p].timer = b.age
  <2>1. \A b \in fresh : proc'[b.p].active /\ proc'[b.p].timer = b.age
    BY <1>7, <1>9
  <2> HIDE DEF older, fresh
  <2>2. QED
    BY <1>2, <1>6, <2>1 DEF Active
<1>11. \A b, c \in air' : b.p = c.p => b = c
  <2>1. \A b, c \in older : b.p = c.p => b = c
    <3>1. \A a, e \in air : a.p = e.p => a = e
      BY DEF OneFeedback
    <3>2. \A a \in air : [a EXCEPT !.age = @ + 1].p = a.p
      BY <1>5
    <3>3. SUFFICES ASSUME NEW b \in older, NEW c \in older, b.p = c.p PROVE b = c
      OBVIOUS
    <3>4. PICK a \in air : b = [a EXCEPT !.age = @ + 1]
      OBVIOUS
    <3>5. PICK e \in air : c = [e EXCEPT !.age = @ + 1]
      OBVIOUS
    <3>6. a.p = e.p
      BY <3>2, <3>3, <3>4, <3>5
    <3>7. QED
      BY <3>1, <3>4, <3>5, <3>6
  <2>2. \A b, c \in fresh : b.p = c.p => b = c
    BY <1>9
  <2>3. \A b \in older, c \in fresh : b.p # c.p
    BY <1>6, <1>8, <1>9
  <2> HIDE DEF older, fresh
  <2>4. QED
    BY <1>2, <2>1, <2>2, <2>3
<1>12. \A q \in Waiting' : q \in Again \ sent
  BY SlotWaiting
<1>13. \A q \in Waiting' : q \in Kept'
  <2>1. SUFFICES ASSUME NEW q \in Waiting' PROVE q \in Kept'
    OBVIOUS
  <2>2. q \in Processes /\ Active(q) /\ q \in Again \ sent
    BY <1>12, FreedAndAgain DEF Kept
  <2>3. proc[q] \in [active : BOOLEAN, timer : 0..NumProc, rv : 0..MaxRv, sym : 0..MaxSym]
    BY <2>2 DEF TypeOK
  <2>4. proc'[q] = [proc[q] EXCEPT !.timer = 0]
    BY <1>3, <2>2 DEF Leaves
  <2>5. proc'[q].active /\ proc'[q].timer = 0
    BY <2>2, <2>3, <2>4 DEF Active
  <2>6. QED
    BY <2>2, <2>5 DEF Kept, Active, Expires
<1>14. \A q \in Waiting', b \in air' : b.p # q
  <2>1. \A b \in fresh : b.p \in new \cup sent
    BY <1>8, <1>9
  <2> HIDE DEF older, fresh
  <2>2. QED
    BY <1>2, <1>4, <1>6, <1>12, <2>1
<1>15. \A j, k \in DOMAIN retransmit' : retransmit'[j] = retransmit'[k] => j = k
  BY SlotWaiting
<1> HIDE DEF older, fresh, again
<1>16. QED
  BY <1>2, <1>10, <1>11, <1>13, <1>14, <1>15 DEF OneFeedback

\* The invariant of both theorems is inductive with the types.
LEMMA NextOnce == TypeOK /\ OneFeedback /\ [Next]_vars => OneFeedback'
<1> SUFFICES ASSUME TypeOK, OneFeedback, [Next]_vars PROVE OneFeedback'
  OBVIOUS
<1>1. CASE SchedDlTrigger
  <2>1. PICK sent \in SUBSET Again, ues \in SUBSET {u \in UEs : CanInsert(u, Freed)} :
          \E left, filled : SlotStep(sent, ues, left, filled)
    BY <1>1, SlotSteps
  <2>2. PICK left, filled : SlotStep(sent, ues, left, filled)
    BY <2>1
  <2>3. QED
    BY <2>2, SlotOnce
<1>2. CASE ReceiveFeedback
  BY <1>2, ReceiveOnce DEF ReceiveFeedback
<1>3. CASE UNCHANGED vars
  BY <1>3 DEF vars, OneFeedback, Kept, Waiting, Active, Expires
<1>4. QED
  BY <1>1, <1>2, <1>3 DEF Next

\* A process holds its block until the feedback of it was used, and gets one:
\* the timer of a process and the age of what is on the air run together, so
\* that none is late, doubled, or for the next block
\* (nr-mac-scheduler-ns3.cc:1138).
THEOREM OneFeedbackAlways == Spec => []OneFeedback
<1>1. Init => OneFeedback
  BY DEF Init, OneFeedback, Waiting
<1>2. TypeOK /\ OneFeedback /\ [Next]_vars => OneFeedback'
  BY NextOnce
<1>3. QED
  BY <1>1, <1>2, TypeCorrect, PTL DEF Spec

-----------------------------------------------------------------------------
(* Packets for retransmissions.                                            *)

\* An ACK empties the buffer of a process nothing else is known of.
LEMMA ReceivePackets ==
  ASSUME TypeOK, OneFeedback, PacketsKept, NEW a \in air, NEW ok \in BOOLEAN, Receive(a, ok)
  PROVE  PacketsKept'
<1> DEFINE f0 == [p |-> a.p, ok |-> ok]
<1>1. /\ air' = air \ {a} /\ received' = received \cup {f0} /\ Waiting' = Waiting
      /\ packets' = [packets EXCEPT ![a.p] = @ /\ ~ok]
  BY DEF Receive, Discards, Waiting
<1>2. a.p \in Processes /\ packets \in [Processes -> BOOLEAN] /\ packets[a.p]
  BY DEF TypeOK, PacketsKept
<1>3. \A p \in Processes : p # a.p => packets'[p] = packets[p]
  BY <1>1, <1>2
<1>4. packets'[a.p] = ~ok
  BY <1>1, <1>2
<1>5. a \notin received
  <2>1. \A f \in received : f \in [p : Processes, ok : BOOLEAN]
    BY DEF TypeOK
  <2>2. a \in [p : Processes, age : 0..(MaxDelay - 1)]
    BY DEF TypeOK
  <2>3. QED
    BY <2>1, <2>2
<1>6. /\ \A g \in received \cup (air \ {a}) : g.p # a.p /\ g.p \in Processes
      /\ \A q \in Waiting : q # a.p /\ q \in Processes
  BY <1>5 DEF OneFeedback, TypeOK, Kept
<1>7. \A q \in Waiting' : packets'[q]
  BY <1>1, <1>3, <1>6 DEF PacketsKept
<1>8. \A b \in air' : packets'[b.p]
  BY <1>1, <1>3, <1>6 DEF PacketsKept
<1>9. \A f \in received' : f.ok \/ packets'[f.p]
  <2>1. \A f \in received : f.ok \/ packets'[f.p]
    BY <1>3, <1>6 DEF PacketsKept
  <2>2. f0.ok \/ packets'[f0.p]
    BY <1>4
  <2> HIDE DEF f0
  <2>3. QED
    BY <1>1, <2>1, <2>2
<1>10. QED
  BY <1>7, <1>8, <1>9 DEF PacketsKept

\* What is to be sent again has its packets: it waits, or its feedback was a
\* NACK, for after an ACK it would be freed.
LEMMA AgainKept ==
  ASSUME TypeOK, OneFeedback, PacketsKept, NEW p \in Again
  PROVE  packets[p]
<1>1. CASE p \in Waiting
  BY <1>1 DEF PacketsKept
<1>2. CASE p \notin Waiting
  <2>1. p \in Nacked /\ p \notin Acked /\ p \in Kept
    BY DEF Again, Nacked
  <2>2. PICK f \in received : f.p = p
    BY <1>2, <2>1 DEF Nacked
  <2>3. ~f.ok
    BY <1>2, <2>1, <2>2 DEF Acked
  <2>4. QED
    BY <2>2, <2>3 DEF PacketsKept
<1>3. QED
  BY <1>1, <1>2

\* A slot refills only the buffers of new blocks.
LEMMA SlotPackets ==
  ASSUME TypeOK, OneFeedback, PacketsKept, NEW sent \in SUBSET Again,
         NEW ues \in SUBSET {u \in UEs : CanInsert(u, Freed)},
         NEW left, NEW filled, SlotStep(sent, ues, left, filled)
  PROVE  PacketsKept'
<1>1. PICK new : new = Inserted(ues, Freed)
  OBVIOUS
<1> DEFINE older == {[a EXCEPT !.age = @ + 1] : a \in air}
           again == filled \cup {r \in sent : packets[r]}
           fresh == {[p |-> p, age |-> 0] : p \in again}
<1>2. air' = older \cup fresh /\ received' = {} /\ filled \subseteq new
  BY <1>1 DEF SlotStep, Transmit
<1>3. new \subseteq Processes /\ new \cap Again = {} /\ Again \subseteq Processes
  BY <1>1, InsertedFree, FreedAndAgain DEF Kept
<1>4. packets' = [p \in Processes |-> IF p \in new THEN p \in filled ELSE packets[p]]
  BY <1>1 DEF SlotStep, Transmit
<1>5. \A p \in Again : packets'[p]
  BY <1>3, <1>4, AgainKept
<1>6. \A b \in fresh : packets'[b.p]
  <2>1. \A p \in filled : packets'[p]
    BY <1>2, <1>3, <1>4
  <2>2. \A p \in again : packets'[p]
    BY <1>5, <2>1
  <2>3. \A b \in fresh : b.p \in again
    OBVIOUS
  <2> HIDE DEF again, fresh
  <2>4. QED
    BY <2>2, <2>3
<1>7. \A b \in older : packets'[b.p]
  <2>1. SUFFICES ASSUME NEW a \in air PROVE packets'[[a EXCEPT !.age = @ + 1].p]
    OBVIOUS
  <2>2. a \in [p : Processes, age : 0..(MaxDelay - 1)]
    BY DEF TypeOK
  <2>3. [a EXCEPT !.age = @ + 1].p = a.p
    BY <2>2
  <2>4. a.p \in Processes /\ a.p \notin new /\ packets[a.p]
    BY <1>1, OnAirUndisturbed DEF PacketsKept, SlotStep
  <2>5. packets'[a.p]
    BY <1>4, <2>4
  <2>6. QED
    BY <2>3, <2>5
<1>8. \A q \in Waiting' : packets'[q]
  BY <1>5, SlotWaiting
<1> HIDE DEF older, fresh
<1>9. QED
  BY <1>2, <1>6, <1>7, <1>8 DEF PacketsKept

\* What the scheduler may send again is still in the buffer of the MAC, which
\* an ACK empties on its own, before the scheduler knows of it
\* (nr-gnb-mac.cc:1059): a retransmission is never empty.
THEOREM PacketsStayKept == Spec => []PacketsKept
<1>1. Init => PacketsKept
  BY DEF Init, PacketsKept, Waiting
<1>2. TypeOK /\ OneFeedback /\ PacketsKept /\ [Next]_vars => PacketsKept'
  <2> SUFFICES ASSUME TypeOK, OneFeedback, PacketsKept, [Next]_vars PROVE PacketsKept'
    OBVIOUS
  <2>1. CASE SchedDlTrigger
    <3>1. PICK sent \in SUBSET Again, ues \in SUBSET {u \in UEs : CanInsert(u, Freed)} :
            \E left, filled : SlotStep(sent, ues, left, filled)
      BY <2>1, SlotSteps
    <3>2. PICK left, filled : SlotStep(sent, ues, left, filled)
      BY <3>1
    <3>3. QED
      BY <3>2, SlotPackets
  <2>2. CASE ReceiveFeedback
    BY <2>2, ReceivePackets DEF ReceiveFeedback
  <2>3. CASE UNCHANGED vars
    BY <2>3 DEF vars, PacketsKept, Waiting
  <2>4. QED
    BY <2>1, <2>2, <2>3 DEF Next
<1>3. QED
  BY <1>1, <1>2, TypeCorrect, OneFeedbackAlways, PTL DEF Spec

-----------------------------------------------------------------------------
(* NACKs that wait for resources.                                          *)

\* They are a sequence, and each may still be sent.
QueueInv ==
  /\ \E n \in Nat : DOMAIN retransmit = 1..n
  /\ \A p \in Waiting : proc[p].rv # MaxRv

\* The blocks that would be sent before p, if they were all to be sent again.
Overtakers(p) ==
  {x \in Processes : /\ Active(x)
                     /\ \/ Sym(x) > Sym(p)
                        \/ Sym(x) = Sym(p) /\ Before(retransmit, x, p)}

\* A step sends p again, or leaves it in the buffer, and then nobody comes
\* before it who did not, with the same block; a slot without uplink sends one
\* of those again.
SentOrNotOvertaken(p) ==
  \/ proc'[p].rv = proc[p].rv + 1
  \/ /\ p \in Waiting' /\ proc'[p].rv = proc[p].rv /\ proc'[p].sym = proc[p].sym
     /\ Overtakers(p)' \subseteq Overtakers(p)
     /\ \A x \in Overtakers(p)' : proc'[x].rv >= proc[x].rv
     /\ Slot(MaxSym) => \E x \in Overtakers(p) : proc'[x].rv = proc[x].rv + 1

\* No NACK of a block of half a slot or more is overtaken for ever.
LargeInTurn ==
  \A p \in Waiting : 2 * Sym(p) >= MaxSym => SentOrNotOvertaken(p)

\* An order of a set has each member at one position.
LEMMA OrderOf ==
  ASSUME NEW S, IsFiniteSet(S), NEW s \in Orders(S)
  PROVE  /\ Cardinality(S) \in Nat /\ DOMAIN s = 1..Cardinality(S)
         /\ \A i \in DOMAIN s : s[i] \in S
         /\ \A i, j \in DOMAIN s : s[i] = s[j] => i = j
         /\ \A x \in S : \E i \in DOMAIN s : s[i] = x
<1>1. PICK n \in Nat : n = Cardinality(S)
  BY FS_CardinalityType
<1>2. s \in [1..n -> S] /\ \A i, j \in 1..n : i # j => s[i] # s[j]
  BY <1>1 DEF Orders
<1>3. IsFiniteSet(1..n) /\ Cardinality(1..n) = n
  BY FS_Interval
<1>4. s \in Injection(1..n, S)
  BY <1>2 DEF Injection, IsInjective
<1>5. s \in Surjection(1..n, S)
  BY <1>1, <1>3, <1>4, FS_Injection
<1>6. QED
  BY <1>1, <1>2, <1>5 DEF Surjection

\* A slot leaves a sequence of blocks that may be sent again; the feedback of
\* others changes nothing.
LEMMA NextQueue ==
  ASSUME TypeOK, QueueInv, [Next]_vars
  PROVE  QueueInv'
<1>1. CASE SchedDlTrigger
  <2>1. PICK sent \in SUBSET Again, ues \in SUBSET {u \in UEs : CanInsert(u, Freed)} :
          \E left, filled : SlotStep(sent, ues, left, filled)
    BY <1>1, SlotSteps
  <2>2. PICK left, filled : SlotStep(sent, ues, left, filled)
    BY <2>1
  <2>3. Waiting' \subseteq Again \ sent
    BY <2>2, SlotWaiting
  <2>4. ASSUME NEW p \in Waiting' PROVE proc'[p].rv # MaxRv
    <3>1. p \in Again \ sent /\ p \in Processes /\ proc[p].rv # MaxRv
      BY <2>3, FreedAndAgain DEF Kept
    <3>2. proc'[p] = [proc[p] EXCEPT !.timer = 0]
      BY <3>1, <2>2, SlotLeaves DEF Leaves
    <3>3. QED
      BY <3>1, <3>2 DEF TypeOK
  <2>5. \E n \in Nat : DOMAIN retransmit' = 1..n
    <3>1. PICK S : S = Again \ sent
      OBVIOUS
    <3>2. IsFiniteSet(S) /\ retransmit' \in Orders(S)
      BY <3>1, <2>2, FreedAndAgain, ProcessesFinite, FS_Subset DEF SlotStep, Kept
    <3>3. QED
      BY <3>2, OrderOf
  <2>6. QED
    BY <2>4, <2>5 DEF QueueInv
<1>2. CASE ReceiveFeedback \/ UNCHANGED vars
  BY <1>2 DEF ReceiveFeedback, Receive, vars, QueueInv, Waiting
<1>3. QED
  BY <1>1, <1>2 DEF Next

\* What waits is to be sent again: no feedback can free it.
LEMMA WaitingAgain ==
  ASSUME OneFeedback, QueueInv, NEW p \in Waiting
  PROVE  p \in Again /\ p \in Processes /\ Active(p)
<1>1. p \in Kept /\ proc[p].rv # MaxRv
  BY DEF OneFeedback, QueueInv
<1>2. QED
  BY <1>1 DEF Again, Nacked, Acked, Dropped, Kept

\* In the order of a slot only an overtaker comes before what waits.
LEMMA BeforeOvertakes ==
  ASSUME TypeOK, QueueInv, NEW p \in Waiting, NEW q \in Sorted(Again),
         NEW i \in DOMAIN q, NEW j \in DOMAIN q, i < j, q[j] = p, q[i] \in Again
  PROVE  q[i] \in Overtakers(p)
<1> DEFINE x == q[i]
<1>1. x \in Processes /\ Active(x)
  BY FreedAndAgain DEF Kept
<1>2. ~Precedes(p, x)
  BY DEF Sorted
<1>3. p \in Processes
  BY DEF Waiting, TypeOK
<1>4. Sym(x) \in 0..MaxSym /\ Sym(p) \in 0..MaxSym
  BY <1>1, <1>3 DEF TypeOK, Sym
<1>5. Sym(x) > Sym(p) \/ (Sym(x) = Sym(p) /\ ~Merged(p, x))
  BY <1>2, <1>4 DEF Precedes
<1>6. ASSUME ~Merged(p, x) PROVE Before(retransmit, x, p)
  <2>1. x \in Waiting /\ ~Before(retransmit, p, x)
    BY <1>6 DEF Merged
  <2>2. PICK n \in Nat : DOMAIN retransmit = 1..n
    BY DEF QueueInv
  <2>3. PICK k \in 1..n, m \in 1..n : retransmit[k] = x /\ retransmit[m] = p
    BY <2>1, <2>2 DEF Waiting
  <2>4. x # p
    <3>1. IsFiniteSet(Again)
      BY FreedAndAgain, ProcessesFinite, FS_Subset DEF Kept
    <3>2. q \in Orders(Again)
      BY DEF Sorted
    <3>3. DOMAIN q = 1..Cardinality(Again) /\ Cardinality(Again) \in Nat
      BY <3>1, <3>2, OrderOf
    <3>4. QED
      BY <3>1, <3>2, <3>3, OrderOf
  <2>5. k # m /\ ~(m < k)
    BY <2>1, <2>2, <2>3, <2>4 DEF Before
  <2>6. k < m
    BY <2>5
  <2>7. QED
    BY <2>2, <2>3, <2>6 DEF Before
<1>7. QED
  BY <1>1, <1>5, <1>6 DEF Overtakers
\* What a slot that does not send p leaves for new blocks is no more than p has:
\* either p has more than the slot, or half of it was sent before p.
LEMMA LeftForNew ==
  ASSUME TypeOK, QueueInv, ~Fronthaul, NEW avail \in 0..MaxSym, NEW left \in 0..avail,
         NEW sent \in SUBSET Again, NEW q \in Sorted(Again), Served(q, sent, avail, left),
         NEW p \in Waiting, p \in Again \ sent, 2 * Sym(p) >= MaxSym
  PROVE  /\ left <= Sym(p)
         /\ avail = MaxSym => \E x \in Overtakers(p) : x \in sent
<1>1. p \in Processes /\ Sym(p) \in 0..MaxSym
  BY FreedAndAgain DEF Kept, TypeOK, Sym
<1>2. IsFiniteSet(Again) /\ q \in Orders(Again)
  BY FreedAndAgain, ProcessesFinite, FS_Subset DEF Kept, Sorted
<1>3. /\ DOMAIN q = 1..Cardinality(Again) /\ Cardinality(Again) \in Nat
      /\ \A i \in DOMAIN q : q[i] \in Again
      /\ \A x \in Again : \E i \in DOMAIN q : q[i] = x
  BY <1>2, OrderOf
<1>4. PICK j \in DOMAIN q : q[j] = p
  BY <1>3
<1>5. Sym(p) > avail \/ \E i \in 1..(j - 1) : q[i] \in sent
  BY <1>4 DEF Served, Resends
<1>6. CASE Sym(p) > avail
  BY <1>1, <1>6
<1>7. CASE \E i \in 1..(j - 1) : q[i] \in sent
  <2>1. PICK i \in 1..(j - 1) : q[i] \in sent
    BY <1>7
  <2>2. i \in DOMAIN q /\ i < j
    BY <1>3, <1>4, <2>1
  <2>3. q[i] \in Overtakers(p)
    BY <1>3, <1>4, <2>2, BeforeOvertakes
  <2>4. q[i] \in Processes /\ Sym(q[i]) >= Sym(p) /\ Sym(q[i]) \in 0..MaxSym
    BY <1>1, <2>3 DEF Overtakers, TypeOK, Sym
  <2>5. Sym(q[i]) <= avail - left
    BY <2>1 DEF Served, LeavesFor
  <2>6. left <= Sym(p)
    BY <1>1, <2>4, <2>5
  <2>7. QED
    BY <2>1, <2>3, <2>6
<1>8. QED
  BY <1>5, <1>6, <1>7

\* What a slot leaves in the process of a block that could come before p.
LEMMA OvertakerWas ==
  ASSUME TypeOK, OneFeedback, QueueInv, NEW avail \in 0..MaxSym, NEW left \in 0..avail,
         NEW sent \in SUBSET Again, NEW q \in Sorted(Again), Served(q, sent, avail, left),
         NEW ues \in SUBSET {u \in UEs : CanInsert(u, Freed)}, NEW filled,
         SlotStep(sent, ues, left, filled),
         NEW p \in Waiting, p \in Again \ sent, left <= Sym(p), NEW y \in Overtakers(p)'
  PROVE  y \in Overtakers(p) /\ proc'[y].rv >= proc[y].rv
<1>1. PICK new : new = Inserted(ues, Freed)
  OBVIOUS
<1>2. p \in Processes /\ proc'[p] = [proc[p] EXCEPT !.timer = 0]
  BY <1>1, FreedAndAgain, SlotLeaves DEF Leaves, Kept
<1>3. proc'[p].sym = Sym(p) /\ Sym(p) \in 0..MaxSym
  BY <1>2 DEF TypeOK, Sym
<1>4. /\ y \in Processes /\ proc'[y].active
      /\ proc'[y].sym > Sym(p) \/ (proc'[y].sym = Sym(p) /\ Before(retransmit, y, p)')
  BY <1>3 DEF Overtakers, Active, Sym
<1>5. Leaves(proc'[y], y, sent, new, left)
  BY <1>1, <1>4, SlotLeaves
<1>6. new \cap Again = {} /\ \A r \in new : ~Active(r) \/ r \in Freed
  BY <1>1, InsertedFree
<1>7. Before(retransmit, y, p)' => y \in Again \ sent
  <2>1. ASSUME Before(retransmit, y, p)' PROVE y \in Waiting'
    BY <2>1 DEF Before, Waiting
  <2>2. QED
    BY <2>1, SlotWaiting
<1>8. y \notin new
  <2>1. SUFFICES ASSUME y \in new PROVE FALSE
    OBVIOUS
  <2>2. proc'[y].sym = left
    BY <1>5, <2>1 DEF Leaves
  <2>3. Before(retransmit, y, p)'
    BY <1>3, <1>4, <2>2
  <2>4. QED
    BY <1>6, <1>7, <2>1, <2>3
<1>9. Active(y) /\ y \notin Freed
  <2>1. y \notin Freed
    BY <1>4, <1>5, <1>8 DEF Leaves
  <2>2. CASE ~Active(y)
    BY <1>4, <1>5, <1>8, <2>2 DEF Leaves, Active
  <2>3. QED
    BY <2>1, <2>2
<1>10. proc'[y].sym = Sym(y) /\ proc'[y].rv >= proc[y].rv
  <2>1. proc[y] \in [active : BOOLEAN, timer : 0..NumProc, rv : 0..MaxRv, sym : 0..MaxSym]
    BY <1>4 DEF TypeOK
  <2>2. CASE y \in sent
    <3>1. proc'[y] = [proc[y] EXCEPT !.timer = 0, !.rv = @ + 1]
      BY <1>5, <2>2 DEF Leaves
    <3>2. QED
      BY <2>1, <3>1 DEF Sym
  <2>3. CASE y \in Again \ sent
    <3>1. proc'[y] = [proc[y] EXCEPT !.timer = 0]
      BY <1>5, <2>3 DEF Leaves
    <3>2. QED
      BY <2>1, <3>1 DEF Sym
  <2>4. CASE y \notin Again
    <3>1. proc'[y] = [proc[y] EXCEPT !.timer = @ + 1]
      BY <1>5, <1>8, <1>9, <2>4 DEF Leaves
    <3>2. QED
      BY <2>1, <3>1 DEF Sym
  <2>5. QED
    BY <2>2, <2>3, <2>4
<1>11. CASE proc'[y].sym > Sym(p)
  BY <1>4, <1>9, <1>10, <1>11 DEF Overtakers
<1>12. CASE Before(retransmit, y, p)'
  <2>1. Before(q, y, p)
    BY <1>12 DEF Served, Buffers, Before
  <2>2. PICK i \in DOMAIN q, j \in DOMAIN q : i < j /\ q[i] = y /\ q[j] = p
    BY <2>1 DEF Before
  <2>3. q[i] \in Again
    BY <1>7, <1>12, <2>2
  <2>4. y \in Overtakers(p)
    BY <2>2, <2>3, BeforeOvertakes
  <2>5. QED
    BY <1>10, <2>4
<1>13. QED
  BY <1>4, <1>10, <1>11, <1>12

\* What the slot does for p.
ServedInSlot(p, avail) ==
  \/ proc'[p].rv = proc[p].rv + 1
  \/ /\ p \in Waiting' /\ proc'[p].rv = proc[p].rv /\ proc'[p].sym = proc[p].sym
     /\ Overtakers(p)' \subseteq Overtakers(p)
     /\ \A x \in Overtakers(p)' : proc'[x].rv >= proc[x].rv
     /\ avail = MaxSym => \E x \in Overtakers(p) : proc'[x].rv = proc[x].rv + 1

\* A slot sends p, or something before it.
LEMMA SlotInTurn ==
  ASSUME TypeOK, OneFeedback, QueueInv, ~Fronthaul, NEW avail \in 0..MaxSym, Slot(avail),
         NEW p \in Waiting, 2 * Sym(p) >= MaxSym
  PROVE  ServedInSlot(p, avail)
<1>1. p \in Again /\ p \in Processes
  BY WaitingAgain
<1>2. PICK sent \in SUBSET Again, ues \in SUBSET {u \in UEs : CanInsert(u, Freed)},
           left \in 0..avail :
        \E filled : \E q \in Sorted(Again) :
          SlotStep(sent, ues, left, filled) /\ Served(q, sent, avail, left)
  BY SlotChoices
<1>3. PICK filled : \E q \in Sorted(Again) :
        SlotStep(sent, ues, left, filled) /\ Served(q, sent, avail, left)
  BY <1>2
<1>4. PICK q \in Sorted(Again) :
        SlotStep(sent, ues, left, filled) /\ Served(q, sent, avail, left)
  BY <1>3
<1>5. \A x \in sent : x \in Processes /\ proc'[x].rv = proc[x].rv + 1
  <2>1. SUFFICES ASSUME NEW x \in sent PROVE x \in Processes /\ proc'[x].rv = proc[x].rv + 1
    OBVIOUS
  <2>2. x \in Processes
    BY FreedAndAgain DEF Kept
  <2>3. proc'[x] = [proc[x] EXCEPT !.timer = 0, !.rv = @ + 1]
    BY <1>4, <2>2, SlotLeaves DEF Leaves
  <2>4. QED
    BY <2>2, <2>3 DEF TypeOK
<1>6. CASE p \in sent
  BY <1>5, <1>6 DEF ServedInSlot
<1>7. CASE p \notin sent
  <2>1. proc'[p] = [proc[p] EXCEPT !.timer = 0]
    BY <1>1, <1>4, <1>7, SlotLeaves DEF Leaves
  <2>2. proc'[p].rv = proc[p].rv /\ proc'[p].sym = proc[p].sym
    BY <1>1, <2>1 DEF TypeOK
  <2>3. p \in Waiting'
    <3>1. PICK S : S = Again \ sent
      OBVIOUS
    <3>2. IsFiniteSet(S) /\ retransmit' \in Orders(S)
      BY <1>4, <3>1, FreedAndAgain, ProcessesFinite, FS_Subset DEF SlotStep, Kept
    <3>3. PICK i \in DOMAIN retransmit' : retransmit'[i] = p
      BY <1>1, <1>7, <3>1, <3>2, OrderOf
    <3>4. QED
      BY <3>3 DEF Waiting
  <2>4. left <= Sym(p) /\ (avail = MaxSym => \E x \in Overtakers(p) : x \in sent)
    BY <1>1, <1>4, <1>7, LeftForNew
  <2>5. \A y \in Overtakers(p)' : y \in Overtakers(p) /\ proc'[y].rv >= proc[y].rv
    BY <1>1, <1>4, <1>7, <2>4, OvertakerWas
  <2>6. QED
    BY <1>5, <2>2, <2>3, <2>4, <2>5 DEF ServedInSlot
<1>8. QED
  BY <1>6, <1>7

\* Only slots change the order and the blocks.
LEMMA NextInTurn ==
  ASSUME TypeOK, OneFeedback, QueueInv, ~Fronthaul, [Next]_vars
  PROVE  LargeInTurn
<1> SUFFICES ASSUME NEW p \in Waiting, 2 * Sym(p) >= MaxSym PROVE SentOrNotOvertaken(p)
  BY DEF LargeInTurn
<1>1. CASE Slot(MaxSym)
  BY <1>1, SlotInTurn DEF ServedInSlot, SentOrNotOvertaken
<1>2. CASE SchedDlTrigger /\ ~Slot(MaxSym)
  <2>1. PICK avail \in 0..MaxSym : Slot(avail)
    BY <1>2 DEF SchedDlTrigger
  <2>2. ServedInSlot(p, avail)
    BY <2>1, SlotInTurn
  <2>3. QED
    BY <1>2, <2>2 DEF ServedInSlot, SentOrNotOvertaken
<1>3. CASE ~Slot(MaxSym) /\ (ReceiveFeedback \/ UNCHANGED vars)
  <2>1. proc' = proc /\ retransmit' = retransmit
    BY <1>3 DEF ReceiveFeedback, Receive, vars
  <2>2. Waiting' = Waiting /\ Overtakers(p)' = Overtakers(p)
    BY <2>1 DEF Waiting, Overtakers, Before, Active, Sym
  <2>3. \A x \in Overtakers(p) : proc[x].rv \in 0..MaxRv
    BY DEF Overtakers, TypeOK
  <2>4. QED
    BY <1>3, <2>1, <2>2, <2>3 DEF SentOrNotOvertaken
<1>4. QED
  BY <1>1, <1>2, <1>3 DEF Next

\* No NACK of a block of half a slot or more waits for ever for resources: it is
\* sent again, or those that may be sent before it grow no more, and each slot
\* without uplink uses up a retransmission of one of them.  Smaller blocks have no
\* such turn, and no fronthaul may refuse any (nr-mac-scheduler-harq-rr.cc:487).
THEOREM LargeAlwaysInTurn ==
  ASSUME ~Fronthaul
  PROVE  Spec => [][LargeInTurn]_vars
<1>1. Init => QueueInv
  <2> SUFFICES ASSUME Init PROVE QueueInv
    OBVIOUS
  <2>1. DOMAIN retransmit = 1..0 /\ Waiting = {}
    BY DEF Init, Waiting
  <2>2. QED
    BY <2>1 DEF QueueInv
<1>2. TypeOK /\ QueueInv /\ [Next]_vars => QueueInv'
  BY NextQueue
<1>3. TypeOK /\ OneFeedback /\ QueueInv /\ [Next]_vars => [LargeInTurn]_vars
  BY NextInTurn
<1>4. QED
  BY <1>1, <1>2, <1>3, TypeCorrect, OneFeedbackAlways, PTL DEF Spec

===============================================================================
