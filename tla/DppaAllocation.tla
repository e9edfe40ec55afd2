---------------------------- MODULE DppaAllocation ----------------------------
(***************************************************************************)
(* One beam of one slot of NrMacSchedulerOfdmaDPPA::AssignDLRBG: the UEs   *)
(* with data are sorted by m_k, the RBGs are handed out one at a time, the *)
(* UEs whose transport block stays under ten bytes lose theirs, and the    *)
(* fronthaul may take whole allocations back.                              *)
(*                                                                         *)
(* Transport block sizes are abstract: TbPerRbg[m] bytes per RBG at MCS m. *)
(* An RBG is held for all the symbols of the beam, so it is listed once.   *)
(***************************************************************************)
EXTENDS Integers, Sequences, FiniteSets
SE == INSTANCE SequencesExt

CONSTANTS
  Cells,      \* what a beam may be like, see Cell
  UEs,        \* UEs of the cell
  Inputs,     \* [k, mcs, g, buf]: m_k, m_dlMcs, m_g and buffer of a UE
  Rbgs,       \* positions set in GetDlBitmask()
  V,          \* GetVLyapunov()
  Cqis,       \* CQI (and MCS) values of a sub-band
  TbPerRbg,   \* bytes per RBG at each MCS
  FhMinRbgs   \* RBGs the fronthaul grants in any case (5 in the code)

\* The UEs of the beam with data to send and the values they may have, whether
\* sub-band feedback is used (McsCsiSource is AVG_MCS), the fronthaul control.
Cell == [ues : SUBSET UEs, inputs : SUBSET Inputs, subband : BOOLEAN,
         fronthaul : {"None", "Postponing", "OptimizeRBs"}]

Input == [k : Int, mcs : Nat, g : Nat, buf : Nat]

ASSUME InputAssumption ==
  /\ IsFiniteSet(UEs) /\ IsFiniteSet(Rbgs) /\ Rbgs \subseteq Nat
  /\ Inputs \subseteq Input /\ Cells \subseteq Cell
  /\ V \in Int /\ Cqis \subseteq Nat /\ FhMinRbgs \in Nat
  /\ \A i \in Inputs : TbPerRbg[i.mcs] \in Nat
  /\ \A c \in Cqis : \A m \in 0..c : TbPerRbg[m] \in Nat

VARIABLES
  cell,       \* the beam
  ue,         \* what the scheduler knows of each UE when the slot begins
  sb,         \* sub-band CQI of each UE at each RBG
  pc,         \* place in AssignDLRBG
  ueVector,   \* UEs still in this round, in the current order
  it,         \* schedInfoIt, as a position of ueVector
  remaining,  \* remainingRbgSet
  available,  \* positions true in availableRbgs
  assigned,   \* assignedResources.m_rbg
  held,       \* m_dlRBG of each UE
  tbs,        \* m_dlTbSize of each UE
  lyapunov,   \* the local flag of the same name
  reaping,    \* reapingResources
  prev        \* prevRemaining

inputVars == <<cell, ue, sb>>
Active    == cell.ues
loopVars  == <<ueVector, it, lyapunov, reaping, prev>>
rbgVars   == <<remaining, available, assigned, held, tbs>>
vars == <<inputVars, pc, loopVars, rbgVars>>

-----------------------------------------------------------------------------
(* Transport blocks.                                                       *)

MinTbs == 10

Sum(s) == SE!FoldLeft(LAMBDA x, y : x + y, 0, s)

\* GetDlMcs(): the wideband MCS, or the average over the RBGs held.
Mcs(u, rbgs) ==
  IF cell.subband /\ rbgs # <<>>
  THEN Sum([i \in 1..Len(rbgs) |-> sb[u][rbgs[i]]]) \div Len(rbgs)
  ELSE ue[u].mcs

\* UpdateDlMetric().
TbSize(u, rbgs) ==
  IF rbgs = <<>> THEN 0 ELSE TbPerRbg[Mcs(u, rbgs)] * Len(rbgs)

Need(u) == IF ue[u].buf > MinTbs THEN ue[u].buf ELSE MinTbs

\* Variant: a transport block that is just enough is not.
SatisfiedStrictly(u) == tbs[u] > Need(u)

Satisfied(u) == tbs[u] >= Need(u)

\* The drift-plus-penalty test: the UE can receive resources.
Eligible(u) == -V >= ue[u].k

-----------------------------------------------------------------------------
(* Order.                                                                  *)

\* Variant: the smallest weight no longer comes first.
LargestFirst(l, r) == ue[l].k > ue[r].k

\* CompareUeWeightsDl: smaller m_k, then higher MCS, then larger G.
Precedes(l, r) ==
  \/ ue[l].k < ue[r].k
  \/ ue[l].k = ue[r].k /\ ue[l].mcs > ue[r].mcs
  \/ ue[l].k = ue[r].k /\ ue[l].mcs = ue[r].mcs /\ ue[l].g > ue[r].g

Orders(S) ==
  {s \in [1..Cardinality(S) -> S] : \A i, j \in 1..Cardinality(S) : i < j => s[i] # s[j]}

\* What std::sort may leave: ties in any order.
ByWeight(S) ==
  {s \in Orders(S) : \A i, j \in 1..Len(s) : i < j => ~Precedes(s[j], s[i])}

ByBytes(S) ==
  {s \in Orders(S) : \A i, j \in 1..Len(s) : i < j => tbs[s[i]] >= tbs[s[j]]}

Elements(s) == {s[i] : i \in 1..Len(s)}

-----------------------------------------------------------------------------
Init ==
  /\ cell \in Cells
  /\ ue \in [Active -> cell.inputs]
  /\ sb \in [Active -> [Rbgs -> IF cell.subband THEN Cqis ELSE {0}]]
  /\ pc = "pass"
  /\ ueVector \in ByWeight(Active)
  /\ it = 1
  /\ remaining = Rbgs /\ available = Rbgs /\ assigned = 0
  /\ held = [u \in Active |-> <<>>]
  /\ tbs = [u \in Active |-> 0]
  /\ lyapunov = FALSE /\ reaping = TRUE /\ prev = 0

\* Variant: the drift-plus-penalty test is dropped.
NoTest(i) == {TRUE}

\* The flag is read off the UE under the iterator; at the end of the vector
\* there is no UE and the value read is anything.
ReadLyapunov(i) == IF i <= Len(ueVector) THEN {Eligible(ueVector[i])} ELSE BOOLEAN

\* Top of the inner loop, with RBGs left.
BeginPass ==
  /\ pc = "pass" /\ remaining # {}
  /\ prev' = Cardinality(remaining)
  /\ lyapunov' \in ReadLyapunov(it)
  /\ pc' = "advance"
  /\ UNCHANGED <<ueVector, it, reaping, inputVars, rbgVars>>

\* Top of the inner loop, all RBGs handed out.
AllAllocated ==
  /\ pc = "pass" /\ remaining = {}
  /\ pc' = "reap"
  /\ UNCHANGED <<inputVars, loopVars, rbgVars>>

\* UEs AdvanceToNextUeToSchedule skips: those with enough bytes and, past
\* FhMinRbgs, those the fronthaul refuses.
Skipped(u) ==
  Satisfied(u) \/ (cell.fronthaul = "OptimizeRBs" /\ Len(held[u]) >= FhMinRbgs)

\* Positions the iterator may stop at: a UE that lacks bytes, or the end.
Stops ==
  {j \in it..(Len(ueVector) + 1) :
     /\ \A i \in it..(j - 1) : Skipped(ueVector[i])
     /\ j <= Len(ueVector) => ~Satisfied(ueVector[j])}

\* No UE is left to schedule.
AdvanceToEnd ==
  /\ pc = "advance" /\ Len(ueVector) + 1 \in Stops
  /\ it' = Len(ueVector) + 1
  /\ pc' = "passEnd"
  /\ UNCHANGED <<ueVector, lyapunov, reaping, prev, inputVars, rbgVars>>

\* An iterator past the end never meets it: anything may follow.
AdvancePastEnd ==
  /\ pc = "advance" /\ it > Len(ueVector) + 1
  /\ pc' = "undefined"
  /\ UNCHANGED <<inputVars, loopVars, rbgVars>>

\* The next UE is discarded by the flag.
Discard ==
  /\ pc = "advance" /\ ~lyapunov
  /\ \E j \in Stops : j <= Len(ueVector) /\ it' = j
  /\ pc' = "passEnd"
  /\ UNCHANGED <<ueVector, lyapunov, reaping, prev, inputVars, rbgVars>>

Lowest(S) == {x \in S : \A y \in S : x <= y}
Best(u) == {r \in remaining : \A q \in remaining : sb[u][q] <= sb[u][r]}

\* The RBG AttemptAllocationOfCurrentResourceToUe picks; none when the best
\* sub-band is unusable or far below the one held.
Picked(u) ==
  IF ~cell.subband THEN Lowest(remaining)
  ELSE {r \in Lowest(Best(u)) :
          sb[u][r] # 0 /\ (held[u] # <<>> => sb[u][r] >= sb[u][held[u][1]] - 4)}

\* An RBG that lowers the transport block is given back at once.
Worsens(u, r) ==
  LET new == Append(held[u], r)
  IN  100 * TbSize(u, new) < 99 * tbs[u] /\ Mcs(u, new) > 0

\* Variant: the RBG stays in remainingRbgSet.
KeepRemaining(r) == remaining

TakenFrom(r) == remaining \ {r}

\* Variant: assignedResources is not incremented.
Uncounted == assigned

Counted == assigned + 1

\* A successful attempt; the metrics of the other UEs are recomputed from
\* unchanged allocations.
Allocate ==
  /\ pc = "advance" /\ lyapunov
  /\ \E j \in Stops :
       /\ j <= Len(ueVector)
       /\ LET u == ueVector[j] IN \E r \in Picked(u) :
            /\ ~Worsens(u, r)
            /\ held' = [held EXCEPT ![u] = Append(@, r)]
            /\ tbs' = [tbs EXCEPT ![u] = TbSize(u, Append(held[u], r))]
            /\ remaining' = TakenFrom(r)
            /\ available' = available \ {r}
       /\ it' = j
  /\ assigned' = Counted
  /\ pc' = "passEnd"
  /\ UNCHANGED <<ueVector, lyapunov, reaping, prev, inputVars>>

\* Variant: the list is not resized.
NotResized(rbgs) == rbgs

\* The m_dlRBG the resize of DeallocateCurrentResourceFromUe leaves.
GivenBack(rbgs) == SubSeq(rbgs, 1, Len(rbgs) - 1)

\* Variant: AssignedDlResources is not called again after the RBG is given back.
TriedTbs(u, r) == TbSize(u, Append(held[u], r))

UndoneTbs(u, r) == TbSize(u, GivenBack(Append(held[u], r)))

\* Variant: the RBG stays marked as taken.
LeftTaken(r) == available \ {r}

PutBack(r) == (available \ {r}) \cup {r}

\* The RBG is appended and marked as taken, and the list, the bitmap and the
\* counter are then put back by hand; the transport block is computed anew.
Undone(u, r) ==
  /\ held' = [held EXCEPT ![u] = GivenBack(Append(@, r))]
  /\ available' = PutBack(r)
  /\ assigned' = Counted - 1
  /\ tbs' = [tbs EXCEPT ![u] = UndoneTbs(u, r)]

\* A failed attempt: there is no RBG to try, or the one tried is given back.
\* The next UE is tried; after the last one reaping ends.
AllocateFails ==
  /\ pc = "advance" /\ lyapunov
  /\ \E j \in Stops :
       /\ j <= Len(ueVector)
       /\ LET u == ueVector[j] IN
            \/ Picked(u) = {} /\ UNCHANGED <<available, assigned, held, tbs>>
            \/ \E r \in Picked(u) : Worsens(u, r) /\ Undone(u, r)
       /\ it' = j + 1
  /\ IF it' = Len(ueVector) + 1
     THEN reaping' = FALSE /\ pc' = "passEnd" /\ UNCHANGED lyapunov
     ELSE lyapunov' \in ReadLyapunov(it') /\ UNCHANGED <<pc, reaping>>
  /\ UNCHANGED <<ueVector, prev, remaining, inputVars>>

\* Variant: the loop does not notice that nothing was handed out.
AlwaysProgress == TRUE

Progress == prev # Cardinality(remaining)

\* Bottom of the inner loop: go on only if an RBG was handed out.
EndPass ==
  /\ pc = "passEnd"
  /\ pc' = IF Progress THEN "pass" ELSE "reap"
  /\ UNCHANGED <<inputVars, loopVars, rbgVars>>

\* Variants: UEs just under the minimum are left alone; UEs that have
\* enough are reaped.
ReapBelowLess == MinTbs - 6
ReapBelowMore == 2 * MinTbs

ReapBelow == MinTbs

\* Variant: UpdateDlMetric is not called for the reaped UE.
StaleTbs(u) == tbs[u]

ReapedTbs(u) == TbSize(u, <<>>)

\* Sort by bytes; the last UE, if under the minimum, loses its RBGs.
Reap ==
  /\ pc = "reap"
  /\ \E order \in ByBytes(Elements(ueVector)) :
       /\ order # <<>> /\ tbs[order[Len(order)]] < ReapBelow
       /\ LET u == order[Len(order)] IN
            /\ remaining' = remaining \cup Elements(held[u])
            /\ available' = available \cup Elements(held[u])
            /\ assigned' = assigned - Len(held[u])
            /\ held' = [held EXCEPT ![u] = <<>>]
            /\ tbs' = [tbs EXCEPT ![u] = ReapedTbs(u)]
       /\ ueVector' = SubSeq(order, 1, Len(order) - 1)
  /\ pc' = IF reaping THEN "pass" ELSE "fronthaul"
  /\ UNCHANGED <<it, lyapunov, reaping, prev, inputVars>>

\* Nobody is under the minimum.
ReapDone ==
  /\ pc = "reap"
  /\ \E order \in ByBytes(Elements(ueVector)) :
       /\ order # <<>> => tbs[order[Len(order)]] >= ReapBelow
       /\ ueVector' = order
  /\ reaping' = FALSE
  /\ pc' = "fronthaul"
  /\ UNCHANGED <<it, lyapunov, prev, inputVars, rbgVars>>

\* Variant: only the entry of assignedResources is undone.
KeepAvailable(freed) == available

BackAvailable(freed) == available \cup freed

Freed(out) == {r \in Rbgs : \E u \in out : r \in Elements(held[u])}

\* DeallocateResourcesDueToFronthaulConstraint: UEs of the round that do not
\* fit lose their RBGs; m_dlTbSize and remainingRbgSet are not updated.
Fronthaul ==
  /\ pc = "fronthaul"
  /\ \E out \in SUBSET Elements(ueVector) :
       /\ cell.fronthaul = "None" => out = {}
       /\ held' = [u \in Active |-> IF u \in out THEN <<>> ELSE held[u]]
       /\ available' = BackAvailable(Freed(out))
       /\ assigned' = assigned - Cardinality(Freed(out))
  /\ pc' = "done"
  /\ UNCHANGED <<remaining, tbs, inputVars, loopVars>>

Finished ==
  /\ pc \in {"done", "undefined"}
  /\ UNCHANGED vars

Next ==
  \/ BeginPass \/ AllAllocated
  \/ AdvanceToEnd \/ AdvancePastEnd \/ Discard \/ Allocate \/ AllocateFails
  \/ EndPass \/ Reap \/ ReapDone \/ Fronthaul \/ Finished

\* The function is sequential code: it runs to its end.
Spec == Init /\ [][Next]_vars /\ WF_vars(Next)

-----------------------------------------------------------------------------
(* Properties.                                                             *)

\* Every variable keeps its type; the unsigned assignedResources.m_rbg never
\* goes below zero (NS_ASSERT at nr-mac-scheduler-ofdma-dppa.cc:381).
TypeOK ==
  /\ cell \in Cells /\ ue \in [Active -> cell.inputs]
  /\ sb \in [Active -> [Rbgs -> Nat]]
  /\ pc \in {"pass", "advance", "passEnd", "reap", "fronthaul", "done", "undefined"}
  /\ ueVector \in Seq(Active)
  /\ it \in Nat /\ prev \in Nat /\ assigned \in Nat
  /\ remaining \subseteq Rbgs /\ available \subseteq Rbgs
  /\ held \in [Active -> Seq(Rbgs)]
  /\ tbs \in [Active -> Nat]
  /\ lyapunov \in BOOLEAN /\ reaping \in BOOLEAN

\* No RBG is held by two UEs or twice by one, and none that is held is still
\* to be handed out: through allocation, reaping and re-allocation.
Exclusive ==
  /\ \A u, v \in Active : \A i \in 1..Len(held[u]), j \in 1..Len(held[v]) :
       held[u][i] = held[v][j] => u = v /\ i = j
  /\ \A u \in Active : Elements(held[u]) \cap remaining = {}

HeldRbgs == UNION {Elements(held[u]) : u \in Active}

\* The three books of the scheduler (availableRbgs, assignedResources and the
\* m_dlRBG of the UEs) agree after every step, the fronthaul's included.
BooksAgree ==
  /\ available = Rbgs \ HeldRbgs
  /\ assigned = Cardinality(HeldRbgs)
  /\ pc # "done" => remaining = available

\* With wideband CQI a UE leaves the slot with no RBG or with a transport block
\* of ten bytes (the comment at nr-mac-scheduler-ofdma-dppa.cc:612-618).
MinimalTbs == (pc = "done" /\ ~cell.subband) => \A u \in Active : held[u] # <<>> => tbs[u] >= MinTbs

\* No UE holds an RBG it did not need: without its last RBG it lacked bytes.
NoOverAllocation ==
  \A u \in Active : held[u] # <<>> =>
    ~(TbSize(u, SubSeq(held[u], 1, Len(held[u]) - 1)) >= Need(u))

\* With wideband CQI and no fronthaul a UE is served only once all that pass
\* the test and come before it by m_k have enough bytes, whatever was leaked,
\* reaped and handed out again on the way.
PriorityRespected ==
  (pc = "done" /\ ~cell.subband /\ cell.fronthaul = "None") =>
    \A u, v \in Active :
      (held[u] # <<>> /\ Eligible(v) /\ ue[v].k < ue[u].k) => Satisfied(v)

\* The RBGs of UEs that fail the drift-plus-penalty test.
Leaked == UNION {Elements(held[u]) : u \in {w \in Active : ~Eligible(w)}}

\* UEs that fail the drift-plus-penalty test hold at most one RBG, and one more
\* for every UE reaped: the flag is stale between a UE that has enough and the
\* next one, and the sort that follows a reaping may bring that about again.
LeakBounded == Cardinality(Leaked) <= 1 + Cardinality(Active) - Len(ueVector)

\* Resources go only to UEs that pass the test ("The UE can receive
\* resources", nr-mac-scheduler-ofdma-dppa.cc:557).
AdmittedOnly == \A u \in Active : held[u] # <<>> => Eligible(u)

\* The iterator is a UE or the end of the vector when the search for the next
\* UE starts: past the end, the search never meets its bound
\* (nr-mac-scheduler-ofdma-dppa.cc:342).
IteratorInRange == pc \in {"pass", "advance"} => it <= Len(ueVector) + 1

\* With wideband CQI no attempt fails, and the iterator stays in range.
WidebandIteratorInRange == cell.subband \/ IteratorInRange

\* The transport block a UE is credited with is that of the RBGs it holds
\* ("Current slot throughput in downlink", nr-mac-scheduler-ue-info-dppa.h:156),
\* through undone attempts and reaping; the fronthaul alone leaves it stale.
CreditedForHeld ==
  (pc # "done" \/ cell.fronthaul = "None") => \A u \in Active : tbs[u] = TbSize(u, held[u])

\* The allocation of a slot ends, or leaves what the language defines.
Terminates == <>(pc \in {"done", "undefined"})

=============================================================================
