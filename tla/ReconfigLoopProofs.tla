-------------------------- MODULE ReconfigLoopProofs --------------------------
(***************************************************************************)
(* Theorems about ReconfigLoop, for every number of UEs, every period and  *)
(* interval, and every pattern of active UEs.                              *)
(***************************************************************************)
EXTENDS ReconfigLoop, FiniteSetTheorems, SequenceTheorems, TLAPS

USE LoopAssumption, NoneAssumption

-----------------------------------------------------------------------------
(* Sizes.                                                                  *)

\* A window has at most N entries, and N of them only when it has them all.
LEMMA WindowSize ==
  ASSUME NEW W \in SUBSET UEs
  PROVE  /\ Cardinality(W) \in 0..N
         /\ Cardinality(W) = N => W = UEs
<1>1. IsFiniteSet(UEs) /\ Cardinality(UEs) = N
  BY FS_Interval DEF UEs
<1>2. IsFiniteSet(W) /\ Cardinality(W) <= N /\ (Cardinality(W) = N => W = UEs)
  BY <1>1, FS_Subset
<1>3. Cardinality(W) \in Nat
  BY <1>2, FS_CardinalityType
<1>4. QED
  BY <1>2, <1>3

\* The UEs with a tracer are some of the UEs.
LEMMA TracedUEs == Traced \subseteq UEs
  BY DEF Traced, UEs

-----------------------------------------------------------------------------
(* Type correctness.                                                       *)

\* The initial state is well typed.
LEMMA InitType == Init => TypeOK
<1> SUFFICES ASSUME Init PROVE TypeOK
  OBVIOUS
<1>1. registry \in Seq(UEs)
  BY EmptySeq DEF Init
<1>2. slots \in 0..2 /\ slotted \in 0..MaxSlots /\ ~inSlot
  BY DEF Init
<1>3. thputIn \in 0..Interval /\ reconfIn \in (0..Period) \cup {Dead}
  BY DEF Init
<1>4. counted \in [UEs -> Nat] /\ thput \in [UEs -> {"none", "reset", "measured"}]
  BY DEF Init
<1>5. QED
  BY <1>1, <1>2, <1>3, <1>4 DEF Init, TypeOK

\* Every step preserves the types; the tracers and the report are never
\* passed over, so no countdown goes below zero.
LEMMA NextType == TypeOK /\ [Next]_vars => TypeOK'
<1> SUFFICES ASSUME TypeOK, [Next]_vars PROVE TypeOK'
  OBVIOUS
<1> USE DEF TypeOK
<1>1. CASE BeginSlot
  BY <1>1 DEF BeginSlot, cellVars, drlVars, timeVars
<1>2. CASE Visit
  <2>1. PICK u \in todo :
          /\ registry' = IF Registers THEN Append(registry, u) ELSE registry
          /\ window' = window \cup {u}
          /\ heard' = heard \cup {u}
          /\ todo' = todo \ {u}
    BY <1>2 DEF Visit
  <2>2. registry' \in Seq(UEs)
    BY <2>1, AppendProperties
  <2>3. QED
    BY <1>2, <2>1, <2>2 DEF Visit, cellVars, timeVars
<1>3. CASE EndSlot
  <2>1. counted' \in [UEs -> Nat]
    <3>1. ASSUME NEW u \in UEs PROVE Times(u) \in Nat
      <4>1. IsFiniteSet(1..Len(registry))
        BY FS_Interval, LenProperties
      <4>2. IsFiniteSet({i \in 1..Len(registry) : registry[i] = u})
        BY <4>1, FS_Subset
      <4>3. QED
        BY <4>2, FS_CardinalityType DEF Times
    <3>2. QED
      BY <1>3, <3>1 DEF EndSlot
  <2>2. slotted' \in 0..MaxSlots /\ ~inSlot' /\ slots' \in 0..2
    BY <1>3 DEF EndSlot
  <2>3. QED
    BY <1>3, <2>1, <2>2 DEF EndSlot, cellVars, drlVars, timeVars
<1>4. CASE MeasureThroughput
  BY <1>4 DEF MeasureThroughput, cellVars, slotVars
<1>5. CASE Tick
  BY <1>5 DEF Tick, Pending, cellVars, drlVars
<1>6. CASE StopReporting
  BY <1>6 DEF StopReporting, cellVars, drlVars, slotVars
<1>7. CASE Reconfigure
  <2>1. Reported \in SUBSET UEs
    BY WindowSize DEF Reported, UEs
  <2>2. report' \in Report
    BY <1>7, <2>1 DEF Reconfigure, Report
  <2>3. thput' \in [UEs -> {"none", "reset", "measured"}]
    BY <1>7 DEF Reconfigure
  <2>4. QED
    BY <1>7, <2>2, <2>3 DEF Reconfigure, cellVars, WindowAfterReset, NextReport
<1>8. CASE UNCHANGED vars
  BY <1>8 DEF vars, cellVars, drlVars, slotVars, timeVars
<1>9. QED
  BY <1>1, <1>2, <1>3, <1>4, <1>5, <1>6, <1>7, <1>8 DEF Next

\* Every variable keeps its type, whatever the UEs do.
THEOREM TypeCorrect == Spec => []TypeOK
<1>1. QED
  BY InitType, NextType, PTL DEF Spec

-----------------------------------------------------------------------------
(* The registry.                                                           *)

\* A UE is appended only while the registry is smaller than a window, and no
\* window is larger than the cell: the static vector m_allUEs stays bounded.
THEOREM RegistryStaysBounded == Spec => []RegistryBounded
<1>1. Init => RegistryBounded
  BY DEF Init, RegistryBounded
<1>2. TypeOK /\ RegistryBounded /\ [Next]_vars => RegistryBounded'
  <2> SUFFICES ASSUME TypeOK, RegistryBounded, [Next]_vars PROVE RegistryBounded'
    OBVIOUS
  <2>1. CASE Visit
    <3>1. PICK u \in todo :
            registry' = IF Registers THEN Append(registry, u) ELSE registry
      BY <2>1 DEF Visit
    <3>2. u \in UEs /\ registry \in Seq(UEs) /\ Cardinality(window) \in 0..N
      BY WindowSize DEF TypeOK
    <3>3. CASE Registers
      <4>1. Len(registry') = Len(registry) + 1
        BY <3>1, <3>2, <3>3, AppendProperties
      <4>2. Len(registry) < N
        BY <3>2, <3>3, LenProperties DEF Registers
      <4>3. QED
        BY <4>1, <4>2, <3>2, LenProperties DEF RegistryBounded
    <3>4. CASE ~Registers
      BY <3>1, <3>4 DEF RegistryBounded
    <3>5. QED
      BY <3>3, <3>4
  <2>2. CASE ~Visit
    <3>1. registry' = registry
      BY <2>2 DEF Next, BeginSlot, EndSlot, MeasureThroughput, Tick,
         StopReporting, Reconfigure, vars
    <3>2. QED
      BY <3>1 DEF RegistryBounded
  <2>3. QED
    BY <2>1, <2>2
<1>3. QED
  BY <1>1, <1>2, TypeCorrect, PTL DEF Spec

-----------------------------------------------------------------------------
(* Reports.                                                                *)

\* The keys of the window are the UEs heard of since the last report.
HeardInv == heard = window

\* A UE with a tracer and no throughput since the last report has one before the
\* next: the tracers are due no later than the report.  Nobody measures the others.
TracersFirst ==
  /\ (\E u \in Traced : thput[u] # "measured") => (reconfIn = Dead \/ thputIn <= reconfIn)
  /\ \A u \in UEs \ Traced : thput[u] # "measured"

\* The window and what it stands for change together, and a report is taken
\* from both; a full report is one of all positions, hence of all UEs.
THEOREM FullReportsExact ==
  ASSUME ServerMin >= N
  PROVE  Spec => []FullReportExact
<1> DEFINE IInv == HeardInv /\ FullReportExact
<1>1. Init => IInv
  BY DEF Init, HeardInv, FullReportExact
<1>2. TypeOK /\ IInv /\ [Next]_vars => IInv'
  <2> SUFFICES ASSUME TypeOK, IInv, [Next]_vars PROVE IInv'
    OBVIOUS
  <2>1. CASE Visit
    BY <2>1 DEF Visit, HeardInv, FullReportExact
  <2>2. CASE Reconfigure
    <3>1. HeardInv'
      BY <2>2 DEF Reconfigure, HeardInv, WindowAfterReset
    <3>2. report'.ues = 1..Cardinality(window) /\ report'.heard = window
      BY <2>2 DEF Reconfigure, HeardInv, Reported
    <3>3. Cardinality(window) \in 0..N /\ (Cardinality(window) = N => window = UEs)
      BY WindowSize DEF TypeOK
    <3>4. Cardinality(report'.ues) = Cardinality(window)
      BY <3>2, <3>3, FS_Interval
    <3>5. Cardinality(report'.ues) >= ServerMin => report'.ues = report'.heard
      BY <3>2, <3>3, <3>4 DEF UEs
    <3>6. QED
      BY <3>1, <3>5 DEF FullReportExact
  <2>3. CASE ~(Visit \/ Reconfigure)
    BY <2>3 DEF Next, BeginSlot, EndSlot, MeasureThroughput, Tick, StopReporting,
       vars, drlVars, HeardInv, FullReportExact
  <2>4. QED
    BY <2>1, <2>2, <2>3
<1>3. QED
  BY <1>1, <1>2, TypeCorrect, PTL DEF Spec

\* With a period of at least one tracer interval no reward is computed from
\* the -1 that Reset() leaves of a UE with a tracer: the nanosecond by which the report follows the
\* tracers of its instant is what the step Reconfigure needs.
THEOREM RewardsMeasured ==
  ASSUME Period >= Interval
  PROVE  Spec => []RewardMeasured
<1> DEFINE IInv == TracersFirst /\ RewardMeasured
<1>1. Init => IInv
  BY DEF Init, TracersFirst, RewardMeasured
<1>2. TypeOK /\ IInv /\ [Next]_vars => IInv'
  <2> SUFFICES ASSUME TypeOK, IInv, [Next]_vars PROVE IInv'
    OBVIOUS
  <2> USE DEF TypeOK
  <2>1. CASE MeasureThroughput
    BY <2>1, TracedUEs DEF MeasureThroughput, TracersFirst, RewardMeasured
  <2>2. CASE Tick
    <3>1. UNCHANGED <<thput, report>>
      BY <2>2 DEF Tick, drlVars
    <3>2. TracersFirst'
      BY <2>2, <3>1 DEF Tick, TracersFirst
    <3>3. QED
      BY <3>1, <3>2 DEF RewardMeasured
  <2>3. CASE StopReporting
    BY <2>3 DEF StopReporting, drlVars, TracersFirst, RewardMeasured
  <2>4. CASE Reconfigure
    <3>1. reconfIn = 0 /\ thputIn > 0
      BY <2>4 DEF Reconfigure, Due
    <3>2. \A u \in UEs : u \in Traced <=> thput[u] = "measured"
      BY <3>1, TracedUEs DEF TracersFirst
    <3>3. Reported \in SUBSET UEs
      BY WindowSize DEF Reported, UEs
    <3>4. RewardMeasured'
      BY <2>4, <3>2, <3>3 DEF Reconfigure, RewardMeasured
    <3>5. TracersFirst'
      BY <2>4, TracedUEs DEF Reconfigure, NextReport, TracersFirst
    <3>6. QED
      BY <3>4, <3>5
  <2>5. CASE ~(MeasureThroughput \/ Tick \/ StopReporting \/ Reconfigure)
    BY <2>5 DEF Next, BeginSlot, Visit, EndSlot, vars, drlVars, timeVars,
       TracersFirst, RewardMeasured
  <2>6. QED
    BY <2>1, <2>2, <2>3, <2>4, <2>5
<1>3. QED
  BY <1>1, <1>2, TypeCorrect, PTL DEF Spec

-----------------------------------------------------------------------------
(* The virtual queues of a busy cell.                                      *)

Entries == {registry[i] : i \in 1..Len(registry)}
First == order[1]

\* A slot with data for everyone visits the UEs in their order.
Upward == \A i, j \in UEs : (i <= j /\ order[i] \in todo) => order[j] \in todo

\* How m_allUEs fills up when everyone has data: the first slot of all adds
\* everyone but the UE visited first, because the size of the window is read
\* before that UE is in it; a first slot of a later window adds nobody; and the
\* first visit of a second slot adds the UE that is missing.
Filling ==
  /\ Entries = UEs \/ Entries = UEs \ {First} \/ (slots = 0 /\ Entries = window \ {First})
  /\ slots = 2 => Entries = UEs
  /\ (inSlot /\ slots = 1 /\ todo # UEs) => Entries = UEs

\* The window between the slots and in the first slot of a window.
Windows ==
  /\ slots = 0 => window = IF inSlot THEN UEs \ todo ELSE {}
  /\ slots = 1 => window = UEs

NoRepeat == \A i, j \in 1..Len(registry) : registry[i] = registry[j] => i = j

BusyInv == busy => (Upward /\ Windows /\ NoRepeat /\ Filling /\ UpdatedEverySlot)

\* An order of the UEs has them all.
LEMMA OrderOnto == ASSUME TypeOK PROVE \A u \in UEs : \E i \in UEs : order[i] = u
<1>1. order \in [UEs -> UEs] /\ \A i, j \in UEs : i # j => order[i] # order[j]
  BY DEF TypeOK, Orders
<1>2. IsFiniteSet(UEs)
  BY FS_Interval DEF UEs
<1>3. order \in Injection(UEs, UEs)
  BY <1>1 DEF Injection, IsInjective
<1>4. order \in Surjection(UEs, UEs)
  BY <1>2, <1>3, FS_Injection
<1>5. QED
  BY <1>4 DEF Surjection

\* The UE whose turn it is when nobody was visited, and once somebody was.
LEMMA WhoseTurn ==
  ASSUME TypeOK, Upward, NEW u \in todo, ComesFirst(u)
  PROVE  /\ First \in UEs
         /\ todo = UEs => u = First
         /\ todo # UEs => First \notin todo
<1>1. 1 \in UEs /\ order \in [UEs -> UEs] /\ u \in UEs
  <2>1. 1 \in UEs
    BY DEF UEs
  <2>2. order \in [UEs -> UEs] /\ todo \subseteq UEs
    BY DEF TypeOK, Orders
  <2>3. QED
    BY <2>1, <2>2
<1>2. PICK i \in UEs : order[i] = u
  BY <1>1, OrderOnto
<1>3. First \in UEs
  BY <1>1 DEF First
<1>4. ASSUME todo = UEs PROVE u = First
  <2>1. i <= 1
    BY <1>1, <1>2, <1>3, <1>4 DEF ComesFirst, First
  <2>2. i = 1
    BY <2>1 DEF UEs
  <2>3. QED
    BY <2>2, <1>2 DEF First
<1>5. ASSUME First \in todo PROVE todo = UEs
  <2>1. ASSUME NEW v \in UEs PROVE v \in todo
    <3>1. PICK j \in UEs : order[j] = v
      BY OrderOnto
    <3>2. 1 <= j
      BY DEF UEs
    <3>3. QED
      BY <3>1, <3>2, <1>1, <1>5 DEF Upward, First
  <2>2. QED
    BY <2>1 DEF TypeOK
<1>6. QED
  BY <1>3, <1>4, <1>5

\* A registry without repetition is as long as it has entries.
LEMMA EntriesCount ==
  ASSUME TypeOK, NoRepeat
  PROVE  /\ Entries \subseteq UEs /\ IsFiniteSet(Entries)
         /\ Cardinality(Entries) = Len(registry) /\ Len(registry) \in Nat
<1>1. Len(registry) \in Nat /\ IsFiniteSet(1..Len(registry)) /\ Cardinality(1..Len(registry)) = Len(registry)
  <2>1. PICK n \in Nat : n = Len(registry)
    BY LenProperties DEF TypeOK
  <2>2. IsFiniteSet(1..n) /\ Cardinality(1..n) = n
    BY FS_Interval
  <2>3. QED
    BY <2>1, <2>2
<1>2. \A i \in 1..Len(registry) : registry[i] \in UEs
  BY ElementOfSeq DEF TypeOK
<1>3. Entries \subseteq UEs
  BY <1>2 DEF Entries
<1> DEFINE f == [i \in 1..Len(registry) |-> registry[i]]
<1>4. /\ f \in [1..Len(registry) -> Entries]
      /\ \A i, j \in 1..Len(registry) : f[i] = f[j] => i = j
      /\ \A y \in Entries : \E i \in 1..Len(registry) : f[i] = y
  BY DEF Entries, NoRepeat
<1> HIDE DEF f
<1>5. f \in Bijection(1..Len(registry), Entries)
  BY <1>4 DEF Bijection, Injection, Surjection, IsInjective
<1>6. ExistsBijection(1..Len(registry), Entries)
  BY <1>5 DEF ExistsBijection
<1>7. QED
  BY <1>1, <1>3, <1>6, FS_Bijection

\* What an append makes of the entries.
LEMMA EntriesAppend ==
  ASSUME TypeOK, NoRepeat, NEW u \in UEs, u \notin Entries, registry' = Append(registry, u)
  PROVE  NoRepeat' /\ Entries' = Entries \cup {u}
<1>1. PICK r : r = Append(registry, u)
  OBVIOUS
<1>2. /\ Len(r) = Len(registry) + 1 /\ Len(registry) \in Nat
      /\ \A i \in 1..Len(registry) : r[i] = registry[i]
      /\ r[Len(registry) + 1] = u
  BY <1>1 DEF TypeOK
<1>3. \A i \in 1..Len(r) : i \in 1..Len(registry) \/ i = Len(registry) + 1
  BY <1>2
<1>4. \A i \in 1..Len(registry) : registry[i] \in Entries /\ i \in 1..Len(r)
  BY <1>2 DEF Entries
<1>5. Len(registry) + 1 \in 1..Len(r)
  BY <1>2
<1>6. registry' = r
  BY <1>1
<1>7. NoRepeat'
  <2>1. \A i, j \in 1..Len(r) : r[i] = r[j] => i = j
    BY <1>2, <1>3, <1>4 DEF NoRepeat
  <2>2. QED
    BY <2>1, <1>6 DEF NoRepeat
<1>8. {r[i] : i \in 1..Len(r)} = Entries \cup {u}
  BY <1>2, <1>3, <1>4, <1>5 DEF Entries
<1>9. QED
  BY <1>6, <1>7, <1>8 DEF Entries

\* What the entries say of the length of the registry.
LEMMA EntriesSize ==
  ASSUME TypeOK, NoRepeat, First \in UEs
  PROVE  /\ Entries = UEs => Len(registry) = N
         /\ Entries = UEs \ {First} => Len(registry) = N - 1
         /\ \A W \in SUBSET UEs : /\ Cardinality(W) \in Nat /\ Cardinality(W) <= N
                                  /\ W # UEs => Cardinality(W) <= N - 1
                                  /\ First \in W => Cardinality(W \ {First}) = Cardinality(W) - 1
<1>1. IsFiniteSet(UEs) /\ Cardinality(UEs) = N
  BY FS_Interval DEF UEs
<1>2. Cardinality(UEs \ {First}) = N - 1
  BY <1>1, FS_RemoveElement
<1>3. ASSUME NEW W \in SUBSET UEs
      PROVE  /\ Cardinality(W) \in Nat /\ Cardinality(W) <= N
             /\ W # UEs => Cardinality(W) <= N - 1
             /\ First \in W => Cardinality(W \ {First}) = Cardinality(W) - 1
  <2>1. Cardinality(W) \in 0..N /\ (Cardinality(W) = N => W = UEs)
    BY WindowSize
  <2>2. IsFiniteSet(W)
    BY <1>1, FS_Subset
  <2>3. First \in W => Cardinality(W \ {First}) = Cardinality(W) - 1
    BY <2>2, FS_RemoveElement
  <2>4. QED
    BY <2>1, <2>3
<1>4. QED
  BY <1>1, <1>2, <1>3, EntriesCount

\* A visit of a busy cell keeps the invariant.
LEMMA VisitBusy == ASSUME TypeOK, BusyInv, busy, Visit PROVE BusyInv'
<1>1. PICK u \in todo :
        /\ ComesFirst(u)
        /\ registry' = IF Registers THEN Append(registry, u) ELSE registry
        /\ window' = window \cup {u}
        /\ todo' = todo \ {u}
  BY DEF Visit
<1>2. /\ inSlot /\ inSlot' = inSlot /\ order' = order /\ slots' = slots /\ counted' = counted
      /\ First' = First
  BY DEF Visit, cellVars, First
<1>3. Upward /\ Windows /\ NoRepeat /\ Filling
  BY DEF BusyInv
<1>4. u \in UEs /\ todo \subseteq UEs /\ window \subseteq UEs /\ slots \in {0, 1, 2}
  BY DEF TypeOK
<1>5. First \in UEs /\ (todo = UEs => u = First) /\ (todo # UEs => First \notin todo)
  BY <1>1, <1>3, WhoseTurn
<1>6. /\ Entries = UEs => Len(registry) = N
      /\ Entries = UEs \ {First} => Len(registry) = N - 1
      /\ \A W \in SUBSET UEs : /\ Cardinality(W) \in Nat /\ Cardinality(W) <= N
                               /\ W # UEs => Cardinality(W) <= N - 1
                               /\ First \in W => Cardinality(W \ {First}) = Cardinality(W) - 1
  BY <1>3, <1>5, EntriesSize
<1>7. Len(registry) \in Nat /\ Cardinality(Entries) = Len(registry)
  BY <1>3, EntriesCount
<1>8. Upward'
  <2>1. SUFFICES ASSUME NEW i \in UEs, NEW j \in UEs, i <= j, order[i] \in todo \ {u}
                 PROVE  order[j] \in todo \ {u}
    BY <1>1, <1>2 DEF Upward
  <2>2. order[j] \in todo
    BY <2>1, <1>3 DEF Upward
  <2>3. ASSUME order[j] = u PROVE FALSE
    <3>1. j <= i
      BY <2>1, <2>3, <1>1 DEF ComesFirst
    <3>2. i = j
      BY <2>1, <3>1 DEF UEs
    <3>3. QED
      BY <2>1, <2>3, <3>2
  <2>4. QED
    BY <2>2, <2>3
<1>9. Windows'
  BY <1>1, <1>2, <1>3, <1>4 DEF Windows
<1>10. UpdatedEverySlot'
  BY <1>2 DEF UpdatedEverySlot
<1>11. u \notin todo' /\ todo' # UEs
  BY <1>1, <1>4
<1>12. NoRepeat' /\ Filling'
  <2>1. ASSUME Entries = UEs PROVE NoRepeat' /\ Filling'
    <3>1. Len(registry) = N /\ Cardinality(window) \in Nat /\ Cardinality(window) <= N
      BY <2>1, <1>4, <1>6
    <3>2. ~Registers
      BY <3>1 DEF Registers
    <3>3. registry' = registry
      BY <3>2, <1>1
    <3>4. QED
      BY <2>1, <3>3, <1>3 DEF NoRepeat, Filling, Entries
  <2>2. CASE slots = 2
    BY <2>1, <2>2, <1>3 DEF Filling
  <2>3. CASE slots = 1
    <3>1. CASE Entries = UEs
      BY <3>1, <2>1
    <3>2. CASE Entries # UEs
      <4>1. Entries = UEs \ {First} /\ todo = UEs /\ window = UEs
        BY <3>2, <2>3, <1>2, <1>3 DEF Filling, Windows
      <4>2. u = First /\ Len(registry) = N - 1
        BY <4>1, <1>5, <1>6
      <4>3. Cardinality(window) = N
        BY <4>1, FS_Interval DEF UEs
      <4>4. Registers
        BY <4>2, <4>3, <1>7 DEF Registers
      <4>5. NoRepeat' /\ Entries' = Entries \cup {u}
        BY <4>1, <4>2, <4>4, <1>1, <1>3, <1>4, EntriesAppend
      <4>6. Entries' = UEs
        BY <4>1, <4>2, <4>5, <1>5
      <4>7. QED
        BY <4>5, <4>6 DEF Filling
    <3>3. QED
      BY <3>1, <3>2
  <2>4. CASE slots = 0
    <3>1. window = UEs \ todo /\ window # UEs /\ u \notin window
      BY <2>4, <1>2, <1>3, <1>4 DEF Windows
    <3>2. CASE Entries = UEs
      BY <3>2, <2>1
    <3>3. CASE Entries = UEs \ {First}
      <4>1. ~Registers
        <5>1. Len(registry) = N - 1
          BY <3>3, <1>6
        <5>2. Cardinality(window) \in Nat /\ Cardinality(window) <= N - 1
          BY <3>1, <1>4, <1>6
        <5>3. QED
          BY <5>1, <5>2 DEF Registers
      <4>2. registry' = registry
        BY <4>1, <1>1
      <4>3. NoRepeat' /\ Entries' = UEs \ {First}
        BY <4>2, <3>3, <1>3 DEF NoRepeat, Entries
      <4>4. QED
        BY <4>3, <2>4, <1>2 DEF Filling
    <3>4. CASE Entries = window \ {First}
      <4>1. CASE todo = UEs
        <5>1. window = {} /\ u = First /\ Entries = {}
          BY <4>1, <3>1, <3>4, <1>5
        <5>2. ~Registers
          BY <5>1, <1>7, FS_EmptySet DEF Registers
        <5>3. registry' = registry
          BY <5>2, <1>1
        <5>4. NoRepeat' /\ Entries' = window' \ {First}
          BY <5>1, <5>3, <1>1, <1>3 DEF NoRepeat, Entries
        <5>5. QED
          BY <5>4, <2>4, <1>2 DEF Filling
      <4>2. CASE todo # UEs
        <5>1. First \in window /\ u # First
          BY <4>2, <3>1, <1>5
        <5>2. Cardinality(window \ {First}) = Cardinality(window) - 1 /\ Cardinality(window) \in Nat
          BY <5>1, <1>4, <1>6
        <5>3. Registers
          BY <5>2, <3>4, <1>7 DEF Registers
        <5>4. u \notin Entries
          BY <3>1, <3>4
        <5>5. NoRepeat' /\ Entries' = Entries \cup {u}
          BY <5>3, <5>4, <1>1, <1>3, <1>4, EntriesAppend
        <5>6. Entries' = window' \ {First}
          BY <5>1, <5>5, <3>4, <1>1
        <5>7. QED
          BY <5>5, <5>6, <2>4, <1>2 DEF Filling
      <4>3. QED
        BY <4>1, <4>2
    <3>5. QED
      BY <3>2, <3>3, <3>4, <1>3 DEF Filling
  <2>5. QED
    BY <2>2, <2>3, <2>4, <1>4
<1>13. QED
  BY <1>8, <1>9, <1>10, <1>12 DEF BusyInv

\* With everyone in the registry, each is updated once.
LEMMA OnceEach == ASSUME TypeOK, NoRepeat, Entries = UEs PROVE \A u \in UEs : Times(u) = 1
<1>1. SUFFICES ASSUME NEW u \in UEs PROVE Times(u) = 1
  OBVIOUS
<1>2. PICK k \in 1..Len(registry) : registry[k] = u
  BY DEF Entries
<1>3. {i \in 1..Len(registry) : registry[i] = u} = {k}
  BY <1>2 DEF NoRepeat
<1>4. QED
  BY <1>3, FS_Singleton DEF Times

\* With data for everyone, each virtual queue is updated once in every slot
\* from the second slot of the first window that has two.
THEOREM EachQueueOnce == Spec => []UpdatedEverySlot
<1>1. Init => BusyInv
  <2> SUFFICES ASSUME Init PROVE BusyInv
    OBVIOUS
  <2>1. registry = <<>> /\ window = {} /\ todo = {} /\ ~inSlot /\ slots = 0
    BY DEF Init
  <2>2. Upward /\ Windows /\ NoRepeat /\ UpdatedEverySlot
    BY <2>1 DEF Upward, Windows, NoRepeat, UpdatedEverySlot
  <2>3. Entries = window \ {First}
    BY <2>1 DEF Entries
  <2>4. QED
    BY <2>1, <2>2, <2>3 DEF BusyInv, Filling
<1>2. TypeOK /\ BusyInv /\ [Next]_vars => BusyInv'
  <2> SUFFICES ASSUME TypeOK, BusyInv, [Next]_vars PROVE BusyInv'
    OBVIOUS
  <2>1. order' = order /\ busy' = busy /\ First' = First
    BY DEF Next, BeginSlot, Visit, EndSlot, MeasureThroughput, Tick, StopReporting, Reconfigure,
       vars, cellVars, First
  <2>2. CASE ~busy
    BY <2>1, <2>2 DEF BusyInv
  <2>3. CASE busy
    <3>1. Upward /\ Windows /\ NoRepeat /\ Filling /\ UpdatedEverySlot
      BY <2>3 DEF BusyInv
    <3>2. slots \in {0, 1, 2} /\ {} # UEs
      <4>1. slots \in 0..2
        BY DEF TypeOK
      <4>2. 1 \in UEs
        BY DEF UEs
      <4>3. QED
        BY <4>1, <4>2
    <3>3. CASE BeginSlot
      <4>1. /\ todo' = UEs /\ ~inSlot /\ inSlot' /\ Entries' = Entries
            /\ UNCHANGED <<registry, window, slots, counted>>
        BY <3>3, <2>3 DEF BeginSlot, drlVars, Entries
      <4>2. Upward'
        BY <4>1, <2>1 DEF TypeOK, Orders, Upward
      <4>3. Windows' /\ NoRepeat' /\ UpdatedEverySlot'
        BY <4>1, <2>1, <3>1 DEF Windows, NoRepeat, UpdatedEverySlot
      <4>4. Filling'
        BY <4>1, <2>1, <3>1 DEF Filling
      <4>5. QED
        BY <4>2, <4>3, <4>4 DEF BusyInv
    <3>4. CASE Visit
      BY <3>4, <2>3, VisitBusy
    <3>5. CASE EndSlot
      <4>1. /\ inSlot /\ ~inSlot' /\ todo = {} /\ todo' = {} /\ Entries' = Entries
            /\ UNCHANGED <<registry, window>>
            /\ counted' = [u \in UEs |-> Times(u)]
            /\ slots' = IF slots = 2 THEN 2 ELSE slots + 1
        BY <3>5 DEF EndSlot, drlVars, Entries
      <4>2. Upward' /\ NoRepeat'
        BY <4>1, <2>1, <3>1 DEF Upward, NoRepeat
      <4>3. Windows'
        BY <4>1, <3>1, <3>2 DEF Windows
      <4>4. slots' = 2 => Entries = UEs
        BY <4>1, <3>1, <3>2 DEF Filling
      <4>5. Filling'
        <5>1. slots = 0 => window = UEs
          BY <4>1, <3>1 DEF Windows
        <5>2. Entries = UEs \/ Entries = UEs \ {First}
          BY <5>1, <3>1 DEF Filling
        <5>3. QED
          BY <5>2, <4>1, <4>4, <2>1 DEF Filling
      <4>6. UpdatedEverySlot'
        BY <4>1, <4>4, <3>1, OnceEach DEF UpdatedEverySlot
      <4>7. QED
        BY <4>2, <4>3, <4>5, <4>6 DEF BusyInv
    <3>6. CASE Reconfigure
      <4>1. /\ ~inSlot /\ ~inSlot' /\ window # {} /\ window' = {} /\ Entries' = Entries
            /\ UNCHANGED <<registry, todo, counted>>
            /\ slots' = IF slots = 2 THEN 2 ELSE 0
        BY <3>6 DEF Reconfigure, Due, WindowAfterReset, Entries
      <4>2. Upward' /\ NoRepeat'
        BY <4>1, <2>1, <3>1 DEF Upward, NoRepeat
      <4>3. slots # 0
        BY <4>1, <3>1 DEF Windows
      <4>4. Windows' /\ UpdatedEverySlot'
        BY <4>1, <2>1, <3>1 DEF Windows, UpdatedEverySlot
      <4>5. Filling'
        BY <4>1, <4>3, <2>1, <3>1 DEF Filling
      <4>6. QED
        BY <4>2, <4>4, <4>5 DEF BusyInv
    <3>7. CASE MeasureThroughput \/ Tick \/ StopReporting \/ UNCHANGED vars
      <4>1. Entries' = Entries /\ UNCHANGED <<registry, window, todo, inSlot, slots, counted>>
        BY <3>7 DEF MeasureThroughput, Tick, StopReporting, vars, drlVars, slotVars, Entries
      <4>2. Upward' /\ Windows' /\ NoRepeat' /\ Filling' /\ UpdatedEverySlot'
        BY <4>1, <2>1, <3>1 DEF Upward, Windows, NoRepeat, Filling, UpdatedEverySlot
      <4>3. QED
        BY <4>2 DEF BusyInv
    <3>8. QED
      BY <3>3, <3>4, <3>5, <3>6, <3>7 DEF Next
  <2>4. QED
    BY <2>2, <2>3
<1>3. BusyInv => UpdatedEverySlot
  BY DEF BusyInv, UpdatedEverySlot
<1>4. QED
  BY <1>1, <1>2, <1>3, TypeCorrect, PTL DEF Spec

-----------------------------------------------------------------------------
(* The next report.                                                        *)

\* In a busy cell a report is scheduled, and time has passed since the last
\* one only if the window has something to report.
ScheduledInv ==
  busy => reconfIn # Dead /\ (window = {} => reconfIn = Period)

\* A slot comes closer to its end: more slots, or as many and the next one
\* begun, or begun and fewer UEs to visit.
SlotCloser ==
  \/ slotted' > slotted
  \/ /\ slotted' = slotted
     /\ \/ ~inSlot /\ inSlot'
        \/ inSlot' = inSlot /\ todo' \subseteq todo /\ todo' # todo

\* In a busy cell a step makes the report that is due, or lets time pass
\* towards it; in the same instant it serves the tracers, or a slot, of which
\* an instant has at most MaxSlots.
ReportCloser ==
  busy =>
    \/ reconfIn = 0 /\ reconfIn' = Period
    \/ reconfIn' \in 0..Period /\ reconfIn' < reconfIn
    \/ /\ reconfIn' = reconfIn
       /\ \/ thputIn = 0 /\ thputIn' # 0
          \/ thputIn' = thputIn /\ SlotCloser

\* A window that was empty at a report is not empty at the next.
LEMMA ScheduledNext == TypeOK /\ ScheduledInv /\ [Next]_vars => ScheduledInv'
<1> SUFFICES ASSUME TypeOK, ScheduledInv, [Next]_vars PROVE ScheduledInv'
  OBVIOUS
<1>1. CASE Visit
  BY <1>1 DEF Visit, ScheduledInv, cellVars, timeVars
<1>2. CASE Tick
  BY <1>2 DEF Tick, ScheduledInv, TypeOK, cellVars, drlVars
<1>3. CASE Reconfigure
  BY <1>3 DEF Reconfigure, ScheduledInv, cellVars, NextReport
<1>4. CASE StopReporting
  BY <1>4 DEF StopReporting, Due, ScheduledInv, cellVars
<1>5. CASE BeginSlot \/ EndSlot \/ MeasureThroughput \/ UNCHANGED vars
  BY <1>5 DEF BeginSlot, EndSlot, MeasureThroughput, vars, ScheduledInv, cellVars, drlVars,
     timeVars
<1>6. QED
  BY <1>1, <1>2, <1>3, <1>4, <1>5 DEF Next

\* Every step of a busy cell brings the next report closer.
LEMMA NextReportCloser ==
  ASSUME TypeOK, ScheduledInv, Next
  PROVE  ReportCloser
<1> SUFFICES ASSUME busy PROVE ReportCloser
  BY DEF ReportCloser
<1>1. reconfIn \in 0..Period
  BY DEF ScheduledInv, TypeOK
<1>2. CASE BeginSlot
  BY <1>2 DEF BeginSlot, ReportCloser, SlotCloser, timeVars
<1>3. CASE Visit
  <2>1. PICK u \in todo : todo' = todo \ {u}
    BY <1>3 DEF Visit
  <2>2. todo' \subseteq todo /\ todo' # todo
    BY <2>1
  <2>3. UNCHANGED <<inSlot, slotted, timeVars>>
    BY <1>3 DEF Visit
  <2>4. QED
    BY <2>2, <2>3 DEF ReportCloser, SlotCloser, timeVars
<1>4. CASE EndSlot
  BY <1>4 DEF EndSlot, ReportCloser, SlotCloser, timeVars, TypeOK
<1>5. CASE MeasureThroughput
  BY <1>5 DEF MeasureThroughput, ReportCloser
<1>6. CASE Tick
  <2>1. reconfIn \in 1..Period /\ reconfIn' = reconfIn - 1
    BY <1>1, <1>6 DEF Tick, Pending, ScheduledInv
  <2>2. QED
    BY <2>1 DEF ReportCloser
<1>7. CASE StopReporting
  BY <1>7 DEF StopReporting, Due, ScheduledInv
<1>8. CASE Reconfigure
  BY <1>8 DEF Reconfigure, Due, NextReport, ReportCloser
<1>9. QED
  BY <1>2, <1>3, <1>4, <1>5, <1>6, <1>7, <1>8 DEF Next

\* While every UE has data and no interval is idle, MakeRestRequest always
\* finds a window to report, and so schedules itself again; and nothing the
\* simulator executes puts the next report off.
THEOREM ReportComesCloser == Spec => []ScheduledInv /\ [][ReportCloser]_vars
<1>1. Init => ScheduledInv
  BY DEF Init, ScheduledInv
<1>2. TypeOK /\ ScheduledInv /\ [Next]_vars => ScheduledInv'
  BY ScheduledNext
<1>3. TypeOK /\ ScheduledInv /\ [Next]_vars => [ReportCloser]_vars
  BY NextReportCloser
<1>4. QED
  BY <1>1, <1>2, <1>3, TypeCorrect, PTL DEF Spec

===============================================================================
