---------------------------- MODULE SlotLogProofs ----------------------------
(***************************************************************************)
(* Theorems about SlotLog, for every capacity of the vectors and any       *)
(* number of simulations, UEs and entries.                                 *)
(***************************************************************************)
EXTENDS SlotLog, SequenceTheorems, TLAPS

USE LogAssumption

Rows == [sim : 0..MaxSims, ue : UEs \cup {0}, n : Nat]

\* The types the proofs need.
Typed ==
  /\ sim \in 0..MaxSims /\ logged \in [1..MaxSims -> Nat]
  /\ m_queueQEntries \in Seq(Rows)

\* The two vectors of the queues, and their two files, hold the same.
Twins == m_queueQEntries = m_queueGEntries /\ queue_q = queue_g

Inv == Typed /\ LossBounded /\ Twins

\* At the beginning there is nothing.
LEMMA InitInv == Init => Inv
<1> SUFFICES ASSUME Init PROVE Inv
  OBVIOUS
<1>1. m_queueQEntries = <<>> /\ m_queueGEntries = <<>> /\ queue_q = <<>> /\ queue_g = <<>>
  BY DEF Init
<1>2. Typed
  BY <1>1 DEF Init, Typed
<1>3. LossBounded
  BY <1>1 DEF LossBounded
<1>4. QED
  BY <1>1, <1>2, <1>3 DEF Inv, Twins

\* A step that logs no queue keeps the vectors, or starts with empty ones.
LEMMA NoEntry ==
  ASSUME Inv, [Next]_vars, \A u \in UEs : ~BeforeDlSched(u)
  PROVE  Inv'
<1>1. CASE \E scheduler \in {"DPPA", "other"} : StartSimulation(scheduler)
  <2>1. /\ m_queueQEntries' = <<>> /\ m_queueGEntries' = <<>> /\ sim' \in 0..MaxSims
        /\ UNCHANGED <<logged, queue_q, queue_g>>
    BY <1>1 DEF StartSimulation, files, Inv, Typed
  <2>2. Typed' /\ LossBounded'
    BY <2>1 DEF Inv, Typed, LossBounded
  <2>3. QED
    BY <2>1, <2>2 DEF Inv, Twins
<1>2. CASE ~\E scheduler \in {"DPPA", "other"} : StartSimulation(scheduler)
  <2>1. /\ UNCHANGED <<sim, logged, m_queueQEntries, m_queueGEntries>>
        /\ queue_q = queue_g => queue_q' = queue_g'
    <3>1. CASE Finish
      BY <3>1 DEF Finish, buffers, Inv, Twins
    <3>2. CASE ~Finish
      BY <1>2, <3>2 DEF Next, LogRBGAllocation, EndSlot, Crash, vars, buffers, files
    <3>3. QED
      BY <3>1, <3>2
  <2>2. QED
    BY <2>1 DEF Inv, Typed, LossBounded, Twins
<1>3. QED
  BY <1>1, <1>2

\* An entry of UE 1 that finds the vectors full empties both; any other entry
\* leaves the entries of UE 1 where they were.
LEMMA OneEntry ==
  ASSUME Inv, NEW u \in UEs, BeforeDlSched(u)
  PROVE  Inv'
<1>1. sim \in 1..MaxSims \/ sim = 0
  BY DEF Inv, Typed
<1>2. sim \in 1..MaxSims
  BY <1>1 DEF BeforeDlSched, Runs
<1>3. PICK e : e = Entry(u, logged[sim] + 1)
  OBVIOUS
<1>4. e \in Rows /\ e.ue = u
  BY <1>2, <1>3 DEF Entry, Rows, Inv, Typed
<1>5. PICK q : q = Append(m_queueQEntries, e)
  OBVIOUS
<1>6. /\ q \in Seq(Rows) /\ Len(q) = Len(m_queueQEntries) + 1 /\ Len(m_queueQEntries) \in Nat
      /\ \A i \in 1..Len(m_queueQEntries) : q[i] = m_queueQEntries[i]
      /\ q[Len(q)] = e
  BY <1>4, <1>5 DEF Inv, Typed
<1>7. /\ sim' = sim /\ logged' = [logged EXCEPT ![sim] = @ + 1]
      /\ IF Due(u, q)
         THEN m_queueQEntries' = <<>> /\ m_queueGEntries' = <<>> /\ queue_q' = queue_g'
         ELSE m_queueQEntries' = q /\ m_queueGEntries' = q /\ queue_q' = queue_g'
  BY <1>3, <1>5 DEF BeforeDlSched, Cleared, files, Inv, Twins
<1>8. logged' \in [1..MaxSims -> Nat]
  BY <1>2, <1>7 DEF Inv, Typed
<1>9. CASE Due(u, q)
  <2>1. m_queueQEntries' = <<>> /\ m_queueGEntries' = <<>> /\ queue_q' = queue_g'
    BY <1>7, <1>9
  <2>2. Typed' /\ LossBounded'
    BY <2>1, <1>7, <1>8 DEF Inv, Typed, LossBounded
  <2>3. QED
    BY <2>1, <2>2 DEF Inv, Twins
<1>10. CASE ~Due(u, q)
  <2>1. m_queueQEntries' = q /\ m_queueGEntries' = q /\ queue_q' = queue_g'
    BY <1>7, <1>10
  <2>2. \A j \in 1..Len(q) : q[j].ue = 1 => j <= Capacity
    <3>1. SUFFICES ASSUME NEW j \in 1..Len(q), q[j].ue = 1 PROVE j <= Capacity
      OBVIOUS
    <3>2. CASE j \in 1..Len(m_queueQEntries)
      BY <3>1, <3>2, <1>6 DEF Inv, LossBounded, Typed
    <3>3. CASE j = Len(q)
      BY <3>1, <3>3, <1>4, <1>6, <1>10 DEF Due
    <3>4. QED
      BY <3>2, <3>3, <1>6
  <2>3. LossBounded'
    BY <2>1, <2>2, <1>6 DEF LossBounded
  <2>4. Typed'
    BY <2>1, <1>6, <1>7, <1>8 DEF Inv, Typed
  <2>5. QED
    BY <2>1, <2>3, <2>4 DEF Inv, Twins
<1>11. QED
  BY <1>9, <1>10

\* The invariant holds for ever.
LEMMA InvAlways == Spec => []Inv
<1>1. Inv /\ [Next]_vars => Inv'
  BY NoEntry, OneEntry
<1>2. QED
  BY <1>1, InitInv, PTL DEF Spec

\* No entry of UE 1 ever waits behind more than Capacity others: that is what a
\* crash can lose of a UE 1 that has data.
THEOREM LossAlwaysBounded == Spec => []LossBounded
<1>1. Inv => LossBounded
  BY DEF Inv
<1>2. QED
  BY <1>1, InvAlways, PTL

\* The two queue files never differ, and neither do the vectors that wait to be
\* appended to them, although only the Q vector is looked at.
THEOREM QueuesStayTwins == Spec => []Twins
<1>1. Inv => Twins
  BY DEF Inv
<1>2. QED
  BY <1>1, InvAlways, PTL

-----------------------------------------------------------------------------
(* The entries of a simulation in a sequence of rows that grows.           *)

\* The positions of rows that are appended.
LEMMA Joined ==
  ASSUME NEW f \in Seq(Rows), NEW g \in Seq(Rows)
  PROVE  /\ f \o g \in Seq(Rows) /\ Len(f) \in Nat /\ Len(g) \in Nat
         /\ DOMAIN f = 1..Len(f) /\ DOMAIN g = 1..Len(g)
         /\ DOMAIN (f \o g) = 1..(Len(f) + Len(g))
         /\ \A j \in DOMAIN f : j \in DOMAIN (f \o g) /\ (f \o g)[j] = f[j]
         /\ \A j \in DOMAIN (f \o g) :
              j > Len(f) => j - Len(f) \in DOMAIN g /\ (f \o g)[j] = g[j - Len(f)]
         /\ \A j \in DOMAIN g :
              Len(f) + j \in DOMAIN (f \o g) /\ (f \o g)[Len(f) + j] = g[j]
OBVIOUS

\* Rows of other simulations change nothing.
LEMMA OthersAfter ==
  ASSUME NEW f \in Seq(Rows), NEW g \in Seq(Rows), NEW s,
         \A j \in DOMAIN g : g[j].sim # s
  PROVE  Of(f \o g, s) = Of(f, s) /\ Numbers(f \o g, s) = Numbers(f, s)
         /\ (InOrder(f \o g, s) <=> InOrder(f, s))
<1>1. Of(f \o g, s) = Of(f, s)
  BY Joined DEF Of
<1>2. \A j \in Of(f, s) : (f \o g)[j] = f[j]
  BY Joined DEF Of
<1>3. Numbers(f \o g, s) = Numbers(f, s)
  <2>1. \A j \in Of(f, s) : (f \o g)[j].n = f[j].n
    BY <1>2
  <2>2. QED
    BY <1>1, <2>1, Zenon DEF Numbers
<1>4. InOrder(f \o g, s) <=> InOrder(f, s)
  <2> DEFINE h == f \o g
  <2>1. Of(h, s) = Of(f, s) /\ \A j \in Of(f, s) : h[j] = f[j]
    BY <1>1, <1>2
  <2> HIDE DEF h
  <2>2. InOrder(h, s) => InOrder(f, s)
    BY <2>1 DEF InOrder
  <2>3. InOrder(f, s) => InOrder(h, s)
    BY <2>1 DEF InOrder
  <2>4. QED
    BY <2>2, <2>3 DEF h
<1>5. QED
  BY <1>1, <1>3, <1>4

\* A header before the rows changes nothing.
LEMMA HeaderBefore ==
  ASSUME NEW f \in Seq(Rows), NEW s, s # 0
  PROVE  Numbers(<<Header>> \o f, s) = Numbers(f, s)
         /\ (InOrder(f, s) => InOrder(<<Header>> \o f, s))
<1> DEFINE g == <<Header>> \o f
<1>1. /\ Len(g) = Len(f) + 1 /\ Len(f) \in Nat /\ DOMAIN f = 1..Len(f) /\ DOMAIN g = 1..Len(g)
      /\ g[1] = Header /\ \A j \in DOMAIN g : j # 1 => g[j] = f[j - 1]
  OBVIOUS
<1>2. Header.sim = 0
  BY DEF Header
<1> HIDE DEF g
<1>3. \A j \in Of(g, s) : j \in Nat /\ j - 1 \in Of(f, s) /\ g[j] = f[j - 1]
  BY <1>1, <1>2 DEF Of
<1>4. \A j \in Of(f, s) : j \in Nat /\ j + 1 \in Of(g, s) /\ g[j + 1] = f[j]
  BY <1>1, <1>2 DEF Of
<1>5. Numbers(g, s) = Numbers(f, s)
  <2>1. ASSUME NEW n \in Numbers(g, s) PROVE n \in Numbers(f, s)
    <3>1. PICK j \in Of(g, s) : n = g[j].n
      BY <2>1 DEF Numbers
    <3>2. n = f[j - 1].n /\ j - 1 \in Of(f, s)
      BY <3>1, <1>3
    <3>3. QED
      BY <3>2, Zenon DEF Numbers
  <2>2. ASSUME NEW n \in Numbers(f, s) PROVE n \in Numbers(g, s)
    <3>1. PICK j \in Of(f, s) : n = f[j].n
      BY <2>2 DEF Numbers
    <3>2. n = g[j + 1].n /\ j + 1 \in Of(g, s)
      BY <3>1, <1>4
    <3>3. QED
      BY <3>2, Zenon DEF Numbers
  <2>3. QED
    BY <2>1, <2>2
<1>6. InOrder(f, s) => InOrder(g, s)
  BY <1>3 DEF InOrder
<1>7. QED
  BY <1>5, <1>6 DEF g

\* The next entry of the simulation.
LEMMA NextRow ==
  ASSUME NEW f \in Seq(Rows), NEW s, NEW t \in Nat, NEW e \in Rows,
         e.sim = s, e.n = t + 1, InOrder(f, s), Numbers(f, s) \subseteq 1..t
  PROVE  Numbers(Append(f, e), s) = Numbers(f, s) \cup {t + 1} /\ InOrder(Append(f, e), s)
<1> DEFINE g == Append(f, e)
<1>1. /\ Len(f) \in Nat /\ DOMAIN f = 1..Len(f) /\ DOMAIN g = 1..(Len(f) + 1)
      /\ g[Len(f) + 1] = e /\ \A j \in DOMAIN f : g[j] = f[j]
  OBVIOUS
<1> HIDE DEF g
<1>2. Of(g, s) = Of(f, s) \cup {Len(f) + 1} /\ \A j \in Of(f, s) : g[j] = f[j]
  BY <1>1 DEF Of
<1>3. Numbers(g, s) = Numbers(f, s) \cup {t + 1}
  BY <1>1, <1>2 DEF Numbers
<1>4. \A j \in Of(f, s) : j \in 1..Len(f) /\ f[j].n \in 1..t
  BY <1>1 DEF Of, Numbers
<1>5. InOrder(g, s)
  <2>1. SUFFICES ASSUME NEW j \in Of(g, s), NEW k \in Of(g, s), j < k PROVE g[j].n < g[k].n
    BY DEF InOrder
  <2>2. j \in Of(f, s)
    BY <2>1, <1>1, <1>2, <1>4
  <2>3. CASE k \in Of(f, s)
    BY <2>1, <2>2, <2>3, <1>2 DEF InOrder
  <2>4. CASE k = Len(f) + 1
    <3>1. g[k].n = t + 1
      BY <2>4, <1>1
    <3>2. g[j].n \in 1..t
      BY <2>2, <1>2, <1>4
    <3>3. QED
      BY <3>1, <3>2
  <2>5. QED
    BY <2>3, <2>4, <1>2
<1>6. QED
  BY <1>3, <1>5 DEF g

\* What was written of rows that end too early has no gap either.
LEMMA FirstRows ==
  ASSUME NEW f \in Seq(Rows), NEW g \in Seq(Rows), NEW s,
         InOrder(f \o g, s), NoGap(f \o g, s), Numbers(f \o g, s) \subseteq Nat
  PROVE  InOrder(f, s) /\ NoGap(f, s) /\ Numbers(f, s) \subseteq Numbers(f \o g, s)
<1>1. \A j \in Of(f, s) : j \in Of(f \o g, s) /\ (f \o g)[j] = f[j]
  BY Joined DEF Of
<1>2. InOrder(f, s)
  BY <1>1 DEF InOrder
<1>3. Numbers(f, s) \subseteq Numbers(f \o g, s)
  BY <1>1 DEF Numbers
<1>4. NoGap(f, s)
  <2>1. SUFFICES ASSUME NEW j \in Of(f, s), NEW m \in 1..f[j].n PROVE m \in Numbers(f, s)
    BY DEF NoGap, Numbers
  <2>2. f[j].n \in Numbers(f \o g, s)
    BY <1>3 DEF Numbers
  <2>3. PICK k \in Of(f \o g, s) : (f \o g)[k].n = m
    BY <2>2 DEF NoGap, Numbers
  <2>4. j \in 1..Len(f) /\ k \in Nat /\ Len(f) \in Nat
    BY <2>3, Joined DEF Of
  <2>5. k <= j
    <3>1. SUFFICES ASSUME j < k PROVE FALSE
      BY <2>4
    <3>2. f[j].n < m
      BY <3>1, <2>3, <1>1 DEF InOrder
    <3>3. QED
      BY <3>2, <2>2
  <2>6. k \in DOMAIN f /\ (f \o g)[k] = f[k]
    BY <2>4, <2>5, <2>3, Joined DEF Of
  <2>7. k \in Of(f, s)
    BY <2>6, <2>3 DEF Of
  <2>8. QED
    BY <2>3, <2>6, <2>7 DEF Numbers
<1>5. QED
  BY <1>2, <1>3, <1>4

-----------------------------------------------------------------------------
(* Nothing is written twice, and nothing but a crash loses an entry.       *)

Modes == {"no", "DPPA", "other", "finished", "crashed"}

\* The types, and simulations to come have logged nothing.
Ranges ==
  /\ mode \in [1..MaxSims -> Modes] /\ shared \in [1..MaxSims -> Nat]
  /\ queue_q \in Seq(Rows) /\ alpha \in Seq(Rows) /\ m_rbgAllocationEntries \in Seq(Rows)
  /\ \A s \in 1..MaxSims : s > sim => logged[s] = 0 /\ shared[s] = 0

\* A vector holds entries of the last simulation only, and a file of those that
\* were started.
Titled == queue_q # <<>> => queue_q[1] = Header /\ \A j \in 2..Len(queue_q) : queue_q[j].sim # 0
QueueSims ==
  /\ \A j \in DOMAIN queue_q : queue_q[j].sim <= sim
  /\ \A j \in DOMAIN m_queueQEntries : m_queueQEntries[j].sim = sim /\ sim # 0
AllComplete == \A s \in 1..sim : Complete(queue_q \o Kept(m_queueQEntries, s), s, logged[s])

\* The file has no RBG entry of a simulation that runs: they are all in the
\* vector, numbered by their positions, and DPPA has none.
Unwritten ==
  /\ \A j \in DOMAIN alpha : alpha[j].sim <= sim /\ (Running => alpha[j].sim < sim)
  /\ \A j \in DOMAIN m_rbgAllocationEntries :
       m_rbgAllocationEntries[j].sim = sim /\ m_rbgAllocationEntries[j].n = j /\ sim # 0
  /\ Running => Len(m_rbgAllocationEntries) = shared[sim]
  /\ Runs("DPPA") => m_rbgAllocationEntries = <<>>
Distinct(rows) == \A j, k \in DOMAIN rows : j # k => rows[j] # rows[k]

\* The inductive invariant of RowsMatch.
RowsInv ==
  /\ Inv /\ Ranges /\ Titled /\ QueueSims /\ AllComplete /\ Unwritten /\ Distinct(alpha)

\* What SaveToFiles makes of a file: rows as before, the header at most.
LEMMA SavedRows ==
  ASSUME NEW file \in Seq(Rows), NEW entries \in Seq(Rows)
  PROVE  /\ Saved(file, entries) \in Seq(Rows)
         /\ \A s : s # 0 =>
              /\ Numbers(Saved(file, entries), s) = Numbers(file \o entries, s)
              /\ InOrder(file \o entries, s) => InOrder(Saved(file, entries), s)
<1>1. Header \in Rows /\ file \o entries \in Seq(Rows)
  BY DEF Header, Rows
<1>2. CASE file = <<>>
  <2>1. Saved(file, entries) = <<Header>> \o entries /\ file \o entries = entries
    BY <1>2 DEF Saved
  <2>2. <<Header>> \o entries \in Seq(Rows)
    BY <1>1
  <2>3. QED
    BY <2>1, <2>2, HeaderBefore
<1>3. CASE file # <<>>
  BY <1>1, <1>3 DEF Saved
<1>4. QED
  BY <1>2, <1>3

\* w has h rows of the file, or its header, and then the entries.
Glued(file, entries, w, h) ==
  /\ h \in Nat \ {0} /\ Len(entries) \in Nat /\ Len(w) = h + Len(entries)
  /\ DOMAIN w = 1..Len(w) /\ DOMAIN entries = 1..Len(entries)
  /\ \A j \in DOMAIN w : j > h => j - h \in DOMAIN entries /\ w[j] = entries[j - h]
  /\ file = <<>> => h = 1 /\ w[1] = Header
  /\ file # <<>> => h = Len(file) /\ \A j \in 1..h : j \in DOMAIN file /\ w[j] = file[j]

\* That is the file SaveToFiles leaves.
LEMMA SavedFrom ==
  ASSUME NEW file \in Seq(Rows), NEW entries \in Seq(Rows)
  PROVE  Glued(file, entries, Saved(file, entries), IF file = <<>> THEN 1 ELSE Len(file))
<1>1. CASE file = <<>>
  BY <1>1 DEF Saved, Glued
<1>2. CASE file # <<>>
  BY <1>2 DEF Saved, Glued
<1>3. QED
  BY <1>1, <1>2

\* A file with its header stays so, and has rows of simulations up to n only.
LEMMA SavedTitle ==
  ASSUME NEW file \in Seq(Rows), NEW entries \in Seq(Rows), NEW n \in Nat,
         file # <<>> => file[1] = Header /\ \A j \in 2..Len(file) : file[j].sim # 0,
         \A j \in DOMAIN file : file[j].sim <= n,
         \A j \in DOMAIN entries : entries[j].sim # 0 /\ entries[j].sim <= n,
         NEW w, w = Saved(file, entries)
  PROVE  /\ w[1] = Header /\ \A j \in 2..Len(w) : w[j].sim # 0
         /\ \A j \in DOMAIN w : w[j].sim <= n
<1>1. PICK h : h = IF file = <<>> THEN 1 ELSE Len(file)
  OBVIOUS
<1>2. Glued(file, entries, w, h)
  BY <1>1, SavedFrom
<1> USE DEF Glued
<1>4. w[1] = Header
  BY <1>2
<1>5. ASSUME NEW j \in DOMAIN w, j # 1 PROVE w[j].sim # 0 /\ w[j].sim <= n
  <2>1. CASE j > h
    BY <1>2, <2>1
  <2>2. CASE ~(j > h)
    <3>1. j \in 2..h /\ file # <<>>
      BY <1>2, <1>5, <2>2
    <3>2. w[j] = file[j] /\ j \in DOMAIN file /\ j \in 2..Len(file)
      BY <3>1, <1>2
    <3>3. QED
      BY <3>1, <3>2
  <2>3. QED
    BY <2>1, <2>2
<1>6. Header.sim = 0
  BY DEF Header
<1>7. \A j \in DOMAIN w : w[j].sim <= n
  <2>1. TAKE j \in DOMAIN w
  <2>2. CASE j = 1
    BY <2>2, <1>4, <1>6
  <2>3. QED
    BY <2>2, <1>5
<1>8. \A j \in 2..Len(w) : w[j].sim # 0
  BY <1>2, <1>5
<1>9. QED
  BY <1>4, <1>7, <1>8

\* There is a last simulation when one runs.
LEMMA LastSim ==
  ASSUME RowsInv, Running
  PROVE  sim \in 1..MaxSims /\ sim # 0
BY DEF RowsInv, Inv, Typed, Running, Runs

\* The types are kept.
LEMMA RangesKept ==
  ASSUME RowsInv, [Next]_vars
  PROVE  Ranges'
<1>1. sim \in 0..MaxSims
  BY DEF RowsInv, Inv, Typed
<1>2. CASE \E scheduler \in {"DPPA", "other"} : StartSimulation(scheduler)
  <2>1. PICK scheduler \in {"DPPA", "other"} : StartSimulation(scheduler)
    BY <1>2
  <2>2. /\ sim' = sim + 1 /\ mode' = [mode EXCEPT ![sim + 1] = scheduler]
        /\ m_rbgAllocationEntries' = <<>> /\ UNCHANGED <<logged, shared, queue_q, alpha>>
    BY <2>1 DEF StartSimulation, files
  <2>3. scheduler \in Modes
    BY DEF Modes
  <2>4. mode' \in [1..MaxSims -> Modes]
    BY <2>2, <2>3 DEF RowsInv, Ranges
  <2>5. QED
    BY <2>2, <2>4, <1>1 DEF RowsInv, Ranges
<1>3. ASSUME NEW u \in UEs, BeforeDlSched(u) PROVE Ranges'
  <2>1. Running
    BY <1>3 DEF BeforeDlSched, Running
  <2>2. sim \in 1..MaxSims
    BY <2>1, LastSim
  <2>3. PICK e : e = Entry(u, logged[sim] + 1)
    OBVIOUS
  <2>4. e \in Rows
    BY <2>2, <2>3 DEF Entry, Rows, RowsInv, Inv, Typed
  <2>5. Append(m_queueQEntries, e) \in Seq(Rows)
    BY <2>4 DEF RowsInv, Inv, Typed
  <2>6. /\ UNCHANGED <<sim, mode, shared, m_rbgAllocationEntries>>
        /\ logged' = [logged EXCEPT ![sim] = @ + 1]
        /\ queue_q' = queue_q \/ queue_q' = Saved(queue_q, Append(m_queueQEntries, e))
        /\ alpha' = alpha \/ alpha' = Saved(alpha, m_rbgAllocationEntries)
    BY <1>3, <2>3 DEF BeforeDlSched, files
  <2>7. queue_q' \in Seq(Rows) /\ alpha' \in Seq(Rows)
    BY <2>5, <2>6, SavedRows DEF RowsInv, Ranges
  <2>8. \A s \in 1..MaxSims : s > sim => logged'[s] = 0
    BY <2>2, <2>6 DEF RowsInv, Ranges, Inv, Typed
  <2>9. QED
    BY <2>6, <2>7, <2>8 DEF RowsInv, Ranges
<1>4. ASSUME NEW u \in UEs, LogRBGAllocation(u) PROVE Ranges'
  <2>1. Running
    BY <1>4 DEF LogRBGAllocation, Running
  <2>2. sim \in 1..MaxSims
    BY <2>1, LastSim
  <2>3. Entry(u, shared[sim] + 1) \in Rows
    BY <2>2 DEF Entry, Rows, RowsInv, Ranges
  <2>4. /\ UNCHANGED <<sim, mode, logged, queue_q, alpha>>
        /\ shared' = [shared EXCEPT ![sim] = @ + 1]
        /\ m_rbgAllocationEntries' = Append(m_rbgAllocationEntries, Entry(u, shared[sim] + 1))
    BY <1>4 DEF LogRBGAllocation, files
  <2>5. m_rbgAllocationEntries' \in Seq(Rows)
    BY <2>3, <2>4 DEF RowsInv, Ranges
  <2>6. shared' \in [1..MaxSims -> Nat] /\ \A s \in 1..MaxSims : s > sim => shared'[s] = 0
    BY <2>2, <2>4 DEF RowsInv, Ranges
  <2>7. QED
    BY <2>4, <2>5, <2>6 DEF RowsInv, Ranges
<1>5. CASE EndSlot
  <2>1. UNCHANGED <<sim, mode, logged, shared, queue_q, m_rbgAllocationEntries>>
        /\ (alpha' = <<Header>> \/ alpha' = alpha)
    BY <1>5 DEF EndSlot, buffers
  <2>2. <<Header>> \in Seq(Rows)
    BY DEF Header, Rows
  <2>3. QED
    BY <2>1, <2>2 DEF RowsInv, Ranges
<1>6. CASE Finish
  <2>1. /\ mode' = [mode EXCEPT ![sim] = "finished"]
        /\ UNCHANGED <<sim, logged, shared, m_rbgAllocationEntries>>
        /\ queue_q' = Saved(queue_q, m_queueQEntries)
        /\ alpha' = Saved(alpha, m_rbgAllocationEntries)
    BY <1>6 DEF Finish, buffers
  <2>2. queue_q' \in Seq(Rows) /\ alpha' \in Seq(Rows)
    BY <2>1, SavedRows DEF RowsInv, Ranges, Inv, Typed
  <2>3. mode' \in [1..MaxSims -> Modes]
    BY <2>1 DEF RowsInv, Ranges, Modes
  <2>4. QED
    BY <2>1, <2>2, <2>3 DEF RowsInv, Ranges
<1>7. CASE Crash
  <2>1. /\ mode' = [mode EXCEPT ![sim] = "crashed"]
        /\ UNCHANGED <<sim, logged, shared, m_rbgAllocationEntries, queue_q, alpha>>
    BY <1>7 DEF Crash, buffers, files
  <2>2. mode' \in [1..MaxSims -> Modes]
    BY <2>1 DEF RowsInv, Ranges, Modes
  <2>3. QED
    BY <2>1, <2>2 DEF RowsInv, Ranges
<1>8. CASE UNCHANGED vars
  BY <1>8 DEF vars, buffers, files, RowsInv, Ranges
<1>9. QED
  BY <1>2, <1>3, <1>4, <1>5, <1>6, <1>7, <1>8 DEF Next

\* The rows of simulation s: those of the file, and of the one that runs those
\* that wait too.
LEMMA RowsOf ==
  ASSUME RowsInv, NEW s
  PROVE  queue_q \o Kept(m_queueQEntries, s)
           = IF s = sim /\ Running THEN queue_q \o m_queueQEntries ELSE queue_q
BY DEF RowsInv, Ranges, Kept

\* A step that writes no queue and keeps the vector of a simulation that runs.
LEMMA NotWritten ==
  ASSUME RowsInv, UNCHANGED <<queue_q, logged>>,
         \/ sim' = sim + 1 /\ ~Running /\ m_queueQEntries' = <<>>
              /\ (\A s \in 1..sim : mode'[s] = mode[s])
         \/ UNCHANGED <<sim, mode, m_queueQEntries>>
         \/ UNCHANGED <<sim, m_queueQEntries>> /\ Running /\ ~Running'
              /\ mode' = [mode EXCEPT ![sim] = "crashed"],
         sim' \in 0..MaxSims
  PROVE  Titled' /\ QueueSims' /\ AllComplete'
<1>1. Titled' /\ sim \in 0..MaxSims
  BY DEF RowsInv, Titled, Inv, Typed
<1>2. CASE UNCHANGED <<sim, mode, m_queueQEntries>>
  BY <1>1, <1>2 DEF RowsInv, QueueSims, AllComplete, Complete, Kept, Running, Runs
<1>3. CASE sim' = sim + 1 /\ ~Running /\ m_queueQEntries' = <<>>
             /\ (\A s \in 1..sim : mode'[s] = mode[s])
  <2>1. QueueSims'
    <3>1. \A j \in DOMAIN queue_q : queue_q[j].sim <= sim + 1
      <4>1. TAKE j \in DOMAIN queue_q
      <4>2. queue_q[j] \in Rows
        BY DEF RowsInv, Ranges
      <4>3. queue_q[j].sim \in Int /\ queue_q[j].sim <= sim
        BY <4>2 DEF Rows, RowsInv, QueueSims
      <4>4. QED
        BY <4>3, <1>1
    <3>2. QED
      BY <3>1, <1>3 DEF QueueSims
  <2>2. \A s \in 1..sim' : (queue_q \o Kept(m_queueQEntries, s))' = queue_q
    BY <1>3 DEF Kept, RowsInv, Ranges
  <2>3. ASSUME NEW s \in 1..sim
        PROVE  Complete(queue_q \o Kept(m_queueQEntries, s), s, logged[s])'
    <3>1. Complete(queue_q, s, logged[s])
      BY <1>3, RowsOf DEF RowsInv, AllComplete
    <3>2. s \in 1..sim' /\ mode'[s] = mode[s]
      BY <1>3, <1>1
    <3>3. QED
      BY <3>1, <3>2, <2>2 DEF Complete
  <2>4. ASSUME NEW s, s = sim + 1
        PROVE  Complete(queue_q \o Kept(m_queueQEntries, s), s, logged[s])'
    <3>1. s \in 1..MaxSims /\ s > sim /\ s \in 1..sim'
      BY <2>4, <1>3, <1>1
    <3>2. logged[s] = 0
      BY <3>1 DEF RowsInv, Ranges
    <3>3. Of(queue_q, s) = {}
      <4>1. SUFFICES ASSUME NEW j \in DOMAIN queue_q, queue_q[j].sim = s PROVE FALSE
        BY DEF Of
      <4>2. QED
        BY <4>1, <2>4, <1>1 DEF RowsInv, QueueSims
    <3>4. Numbers(queue_q, s) = {} /\ InOrder(queue_q, s)
      BY <3>3 DEF Numbers, InOrder
    <3>5. NoGap(queue_q, s)
      BY <3>4 DEF NoGap
    <3>6. (queue_q \o Kept(m_queueQEntries, s))' = queue_q
      BY <2>2, <3>1
    <3>7. QED
      BY <3>2, <3>4, <3>5, <3>6 DEF Complete
  <2>5. AllComplete'
    BY <2>3, <2>4, <1>3, <1>1 DEF AllComplete
  <2>6. QED
    BY <1>1, <2>1, <2>5
<1>4. CASE UNCHANGED <<sim, m_queueQEntries>> /\ Running /\ ~Running'
             /\ mode' = [mode EXCEPT ![sim] = "crashed"]
  <2>1. QueueSims' /\ sim \in 1..MaxSims
    BY <1>4, LastSim DEF RowsInv, QueueSims
  <2>2. \A s : (queue_q \o Kept(m_queueQEntries, s))' = queue_q
    BY <1>4 DEF Kept, RowsInv, Ranges
  <2>3. ASSUME NEW s \in 1..sim, s # sim PROVE Complete(queue_q, s, logged[s])'
    <3>1. Complete(queue_q, s, logged[s])
      BY <2>3, RowsOf DEF RowsInv, AllComplete
    <3>2. mode'[s] = mode[s]
      BY <1>4, <2>3 DEF RowsInv, Ranges
    <3>3. QED
      BY <3>1, <3>2 DEF Complete
  <2>4. Complete(queue_q, sim, logged[sim])'
    <3>1. Complete(queue_q \o m_queueQEntries, sim, logged[sim])
      <4>1. queue_q \o Kept(m_queueQEntries, sim) = queue_q \o m_queueQEntries
        BY <1>4 DEF Kept
      <4>2. sim \in 1..sim
        BY <2>1
      <4>3. Complete(queue_q \o Kept(m_queueQEntries, sim), sim, logged[sim])
        BY <4>2 DEF RowsInv, AllComplete
      <4>4. QED
        BY <4>1, <4>3
    <3>2. queue_q \in Seq(Rows) /\ m_queueQEntries \in Seq(Rows) /\ logged[sim] \in Nat
      BY <2>1 DEF RowsInv, Ranges, Inv, Typed
    <3>3. InOrder(queue_q, sim) /\ NoGap(queue_q, sim)
          /\ Numbers(queue_q, sim) \subseteq Numbers(queue_q \o m_queueQEntries, sim)
      BY <3>1, <3>2, FirstRows DEF Complete
    <3>4. mode'[sim] = "crashed"
      BY <1>4, <2>1 DEF RowsInv, Ranges
    <3>5. QED
      BY <3>1, <3>3, <3>4, <1>4 DEF Complete
  <2>5. AllComplete'
    BY <2>2, <2>3, <2>4, <1>4 DEF AllComplete
  <2>6. QED
    BY <1>1, <2>1, <2>5
<1>5. QED
  BY <1>2, <1>3, <1>4

\* Of the entries of the last simulation, in file and vector, all are there
\* while it runs; the file has those of another.
LEMMA Before ==
  ASSUME RowsInv, Running
  PROVE  /\ Complete(queue_q \o m_queueQEntries, sim, logged[sim]) /\ sim \in 1..MaxSims
         /\ mode[sim] # "crashed"
         /\ \A s \in 1..sim : s # sim => Complete(queue_q, s, logged[s])
<1>1. sim \in 1..MaxSims /\ mode[sim] # "crashed"
  BY LastSim DEF Running, Runs
<1>2. queue_q \o Kept(m_queueQEntries, sim) = queue_q \o m_queueQEntries
  BY DEF Kept
<1>3. sim \in 1..sim
  BY <1>1
<1>4. Complete(queue_q \o Kept(m_queueQEntries, sim), sim, logged[sim])
  BY <1>3 DEF RowsInv, AllComplete
<1>5. \A s \in 1..sim : s # sim => Complete(queue_q, s, logged[s])
  BY RowsOf DEF RowsInv, AllComplete
<1>6. QED
  BY <1>1, <1>2, <1>4, <1>5

\* What SaveToFiles appends of one simulation is nothing to another.
LEMMA SavedOthers ==
  ASSUME NEW file \in Seq(Rows), NEW entries \in Seq(Rows), NEW s, s # 0, NEW m,
         \A j \in DOMAIN entries : entries[j].sim = m, m # s,
         NEW t, Complete(file, s, t)
  PROVE  Complete(Saved(file, entries), s, t)
<1> DEFINE w == Saved(file, entries)
<1>1. /\ Numbers(w, s) = Numbers(file \o entries, s)
      /\ InOrder(file \o entries, s) => InOrder(w, s)
  BY SavedRows
<1>2. Numbers(file \o entries, s) = Numbers(file, s)
      /\ (InOrder(file \o entries, s) <=> InOrder(file, s))
  BY OthersAfter
<1>3. Numbers(w, s) = Numbers(file, s) /\ InOrder(w, s)
  BY <1>1, <1>2 DEF Complete
<1> HIDE DEF w
<1>4. Complete(w, s, t)
  BY <1>3 DEF Complete, NoGap
<1>5. QED
  BY <1>4 DEF w

\* And it is complete in the file what was complete in file and vector.
LEMMA SavedSame ==
  ASSUME NEW file \in Seq(Rows), NEW entries \in Seq(Rows), NEW s, s # 0,
         NEW t, Complete(file \o entries, s, t)
  PROVE  Complete(Saved(file, entries), s, t)
<1>1. PICK w : w = Saved(file, entries)
  OBVIOUS
<1>2. PICK r : r = file \o entries
  OBVIOUS
<1>3. Numbers(w, s) = Numbers(r, s) /\ (InOrder(r, s) => InOrder(w, s))
  BY <1>1, <1>2, SavedRows
<1>4. Complete(r, s, t)
  BY <1>2
<1>5. Complete(w, s, t)
  BY <1>3, <1>4 DEF Complete, NoGap
<1>6. QED
  BY <1>1, <1>5

\* One entry more is still complete.
LEMMA OneMoreComplete ==
  ASSUME NEW r \in Seq(Rows), NEW s, NEW t \in Nat, NEW e \in Rows, e.sim = s, e.n = t + 1,
         Complete(r, s, t), mode[s] # "crashed"
  PROVE  Complete(Append(r, e), s, t + 1)
<1>1. InOrder(r, s) /\ Numbers(r, s) \subseteq 1..t /\ 1..t \subseteq Numbers(r, s)
  BY DEF Complete
<1>2. PICK g : g = Append(r, e)
  OBVIOUS
<1>3. Numbers(g, s) = Numbers(r, s) \cup {t + 1} /\ InOrder(g, s)
  BY <1>1, <1>2, NextRow
<1>4. Numbers(g, s) = 1..(t + 1)
  BY <1>1, <1>3
<1>5. NoGap(g, s)
  BY <1>4 DEF NoGap
<1>6. Complete(g, s, t + 1)
  BY <1>3, <1>4, <1>5 DEF Complete
<1>7. QED
  BY <1>2, <1>6

\* The end of a simulation writes what waits.
LEMMA FinishQueues ==
  ASSUME RowsInv, Finish
  PROVE  Titled' /\ QueueSims' /\ AllComplete'
<1>1. Running /\ queue_q' = Saved(queue_q, m_queueQEntries)
      /\ UNCHANGED <<sim, logged, m_queueQEntries>> /\ mode' = [mode EXCEPT ![sim] = "finished"]
  BY DEF Finish, buffers
<1>2. sim \in 1..MaxSims /\ sim # 0 /\ sim \in Nat
  BY <1>1, LastSim
<1>3. /\ queue_q \in Seq(Rows) /\ m_queueQEntries \in Seq(Rows)
      /\ \A j \in DOMAIN m_queueQEntries : m_queueQEntries[j].sim = sim
  BY DEF RowsInv, Ranges, Inv, Typed, QueueSims
<1>4. queue_q'[1] = Header /\ (\A j \in 2..Len(queue_q') : queue_q'[j].sim # 0)
      /\ \A j \in DOMAIN queue_q' : queue_q'[j].sim <= sim
  <2>1. \A j \in DOMAIN m_queueQEntries :
          m_queueQEntries[j].sim # 0 /\ m_queueQEntries[j].sim <= sim
    BY <1>2, <1>3
  <2>2. /\ queue_q # <<>> => queue_q[1] = Header /\ \A j \in 2..Len(queue_q) : queue_q[j].sim # 0
        /\ \A j \in DOMAIN queue_q : queue_q[j].sim <= sim
    BY DEF RowsInv, Titled, QueueSims
  <2>3. QED
    BY <2>1, <2>2, <1>1, <1>2, <1>3, SavedTitle
<1>5. Titled' /\ QueueSims'
  BY <1>1, <1>2, <1>3, <1>4 DEF Titled, QueueSims
<1>6. queue_q' \in Seq(Rows) /\ ~Running'
  BY <1>1, <1>2, RangesKept DEF Next, RowsInv, Ranges, Running, Runs
<1>7. \A s : (queue_q \o Kept(m_queueQEntries, s))' = queue_q'
  BY <1>6 DEF Kept
<1>8. ASSUME NEW s \in 1..sim PROVE Complete(queue_q', s, logged[s])
  <2>1. CASE s = sim
    BY <2>1, <1>1, <1>2, <1>3, Before, SavedSame
  <2>2. CASE s # sim
    <3>1. Complete(queue_q, s, logged[s])
      BY <2>2, <1>1, Before
    <3>2. s # 0 /\ sim # s
      BY <2>2, <1>2
    <3>3. QED
      BY <3>1, <3>2, <1>1, <1>3, SavedOthers
  <2>3. QED
    BY <2>1, <2>2
<1>9. ASSUME NEW s \in 1..sim PROVE Complete(queue_q, s, logged[s])'
  <2>1. mode'[s] # "crashed" => mode[s] # "crashed"
    BY <1>1, <1>2, Before DEF RowsInv, Ranges
  <2>2. QED
    BY <2>1, <1>1, <1>8 DEF Complete
<1>10. AllComplete'
  BY <1>1, <1>7, <1>9 DEF AllComplete
<1>11. QED
  BY <1>5, <1>10

\* An entry more waits, or all that wait are written.
LEMMA EntryQueues ==
  ASSUME RowsInv, NEW u \in UEs, BeforeDlSched(u)
  PROVE  Titled' /\ QueueSims' /\ AllComplete'
<1>1. PICK e : e = Entry(u, logged[sim] + 1)
  OBVIOUS
<1>2. PICK q : q = Append(m_queueQEntries, e)
  OBVIOUS
<1>3. /\ Running /\ UNCHANGED <<sim, mode>> /\ logged' = [logged EXCEPT ![sim] = @ + 1]
      /\ \/ queue_q' = Saved(queue_q, q) /\ m_queueQEntries' = <<>>
         \/ queue_q' = queue_q /\ m_queueQEntries' = q
  BY <1>1, <1>2 DEF BeforeDlSched, Running, Cleared, files
<1>4. sim \in 1..MaxSims /\ sim # 0 /\ sim \in Nat /\ mode[sim] # "crashed"
  BY <1>3, LastSim, Before
<1>5. e \in Rows /\ e.sim = sim /\ e.n = logged[sim] + 1 /\ logged[sim] \in Nat
  BY <1>1, <1>4 DEF Entry, Rows, RowsInv, Inv, Typed
<1>6. queue_q \in Seq(Rows) /\ m_queueQEntries \in Seq(Rows) /\ q \in Seq(Rows)
  BY <1>2, <1>5 DEF RowsInv, Ranges, Inv, Typed
<1>7. \A j \in DOMAIN q : q[j].sim = sim
  <2>1. \A j \in DOMAIN m_queueQEntries : m_queueQEntries[j].sim = sim
    BY DEF RowsInv, QueueSims
  <2>2. QED
    BY <2>1, <1>2, <1>5, <1>6
<1>8. Complete(queue_q \o q, sim, logged[sim] + 1)
  <2>1. PICK r : r = queue_q \o m_queueQEntries
    OBVIOUS
  <2>2. r \in Seq(Rows) /\ Complete(r, sim, logged[sim])
    BY <2>1, <1>3, <1>6, Before
  <2>3. Complete(Append(r, e), sim, logged[sim] + 1)
    BY <2>2, <1>4, <1>5, OneMoreComplete
  <2>4. queue_q \o q = Append(r, e)
    BY <2>1, <1>2, <1>5, <1>6
  <2>5. QED
    BY <2>3, <2>4
<1>9. \A s \in 1..sim : s # sim => Complete(queue_q, s, logged[s])
  BY <1>3, Before
<1>10. logged'[sim] = logged[sim] + 1 /\ \A s \in 1..sim : s # sim => logged'[s] = logged[s]
  BY <1>3, <1>4 DEF RowsInv, Inv, Typed
<1>11. Running' /\ sim' = sim
  BY <1>3 DEF Running, Runs
<1>12. ASSUME queue_q' = queue_q, m_queueQEntries' = q
       PROVE  Titled' /\ QueueSims' /\ AllComplete'
  <2>1. Titled' /\ QueueSims'
    BY <1>12, <1>11, <1>7, <1>4 DEF RowsInv, Titled, QueueSims
  <2>2. ASSUME NEW s \in 1..sim
        PROVE  Complete(queue_q \o Kept(m_queueQEntries, s), s, logged[s])'
    <3>1. CASE s = sim
      <4>1. (queue_q \o Kept(m_queueQEntries, s))' = queue_q \o q
        BY <3>1, <1>11, <1>12 DEF Kept
      <4>2. QED
        BY <4>1, <3>1, <1>3, <1>8, <1>10 DEF Complete
    <3>2. CASE s # sim
      <4>1. (queue_q \o Kept(m_queueQEntries, s))' = queue_q
        BY <3>2, <1>6, <1>11, <1>12 DEF Kept
      <4>2. QED
        BY <4>1, <3>2, <1>3, <1>9, <1>10 DEF Complete
    <3>3. QED
      BY <3>1, <3>2
  <2>3. QED
    BY <2>1, <2>2, <1>11 DEF AllComplete
<1>13. ASSUME queue_q' = Saved(queue_q, q), m_queueQEntries' = <<>>
       PROVE  Titled' /\ QueueSims' /\ AllComplete'
  <2>1. \A j \in DOMAIN q : q[j].sim # 0 /\ q[j].sim <= sim
    BY <1>4, <1>7
  <2>2. /\ queue_q # <<>> => queue_q[1] = Header /\ \A j \in 2..Len(queue_q) : queue_q[j].sim # 0
        /\ \A j \in DOMAIN queue_q : queue_q[j].sim <= sim
    BY DEF RowsInv, Titled, QueueSims
  <2>3. queue_q'[1] = Header /\ (\A j \in 2..Len(queue_q') : queue_q'[j].sim # 0)
        /\ \A j \in DOMAIN queue_q' : queue_q'[j].sim <= sim
    BY <2>1, <2>2, <1>4, <1>6, <1>13, SavedTitle
  <2>4. Titled' /\ QueueSims'
    BY <2>3, <1>11, <1>13 DEF Titled, QueueSims
  <2>5. queue_q' \in Seq(Rows)
    BY <1>6, <1>13, SavedRows
  <2>6. \A s : (queue_q \o Kept(m_queueQEntries, s))' = queue_q'
    BY <2>5, <1>13 DEF Kept
  <2>7. ASSUME NEW s \in 1..sim
        PROVE  Complete(queue_q, s, logged[s])'
    <3>1. s # 0
      BY <1>4
    <3>2. CASE s = sim
      <4>1. Complete(queue_q', s, logged[s] + 1)
        BY <3>1, <3>2, <1>6, <1>8, <1>13, SavedSame
      <4>2. QED
        BY <4>1, <3>2, <1>3, <1>10 DEF Complete
    <3>3. CASE s # sim
      <4>1. Complete(queue_q, s, logged[s])
        BY <3>3, <1>9
      <4>2. Complete(queue_q', s, logged[s])
        BY <4>1, <3>1, <3>3, <1>6, <1>7, <1>13, SavedOthers
      <4>3. QED
        BY <4>2, <3>3, <1>3, <1>10 DEF Complete
    <3>4. QED
      BY <3>2, <3>3
  <2>8. AllComplete'
    BY <2>6, <2>7, <1>11 DEF AllComplete
  <2>9. QED
    BY <2>4, <2>8
<1>14. QED
  BY <1>3, <1>12, <1>13

\* The queues are written once, whatever the step.
LEMMA QueuesKept ==
  ASSUME RowsInv, [Next]_vars
  PROVE  Titled' /\ QueueSims' /\ AllComplete'
<1>1. sim' \in 0..MaxSims
  <2>1. sim \in 0..MaxSims
    BY DEF RowsInv, Inv, Typed
  <2>2. QED
    BY <2>1 DEF Next, StartSimulation, BeforeDlSched, LogRBGAllocation, EndSlot, Finish, Crash, vars
<1>2. CASE \E scheduler \in {"DPPA", "other"} : StartSimulation(scheduler)
  <2>1. PICK scheduler \in {"DPPA", "other"} : StartSimulation(scheduler)
    BY <1>2
  <2>2. /\ sim' = sim + 1 /\ ~Running /\ mode' = [mode EXCEPT ![sim + 1] = scheduler]
        /\ m_queueQEntries' = <<>> /\ UNCHANGED <<logged, queue_q>> /\ sim < MaxSims
    BY <2>1 DEF StartSimulation, files
  <2>3. \A s \in 1..sim : mode'[s] = mode[s]
    BY <2>2 DEF RowsInv, Ranges, Inv, Typed
  <2>4. QED
    BY <2>2, <2>3, <1>1, NotWritten
<1>3. CASE \E u \in UEs : BeforeDlSched(u)
  BY <1>3, EntryQueues
<1>4. CASE Finish
  BY <1>4, FinishQueues
<1>5. CASE Crash
  <2>1. /\ Running /\ mode' = [mode EXCEPT ![sim] = "crashed"]
        /\ UNCHANGED <<sim, logged, m_queueQEntries, queue_q>>
    BY <1>5 DEF Crash, buffers, files
  <2>2. ~Running'
    BY <2>1, LastSim DEF RowsInv, Ranges, Running, Runs
  <2>3. QED
    BY <2>1, <2>2, <1>1, NotWritten
<1>6. CASE (\E u \in UEs : LogRBGAllocation(u)) \/ EndSlot \/ UNCHANGED vars
  <2>1. UNCHANGED <<sim, mode, logged, m_queueQEntries, queue_q>>
    BY <1>6 DEF LogRBGAllocation, EndSlot, vars, buffers, files
  <2>2. QED
    BY <2>1, <1>1, NotWritten
<1>7. QED
  BY <1>2, <1>3, <1>4, <1>5, <1>6 DEF Next

\* Appended rows that are all new and all different leave no row twice.
LEMMA SavedDistinct ==
  ASSUME NEW file \in Seq(Rows), NEW entries \in Seq(Rows), Distinct(file), NEW m \in Nat, m # 0,
         \A j \in DOMAIN file : file[j].sim < m,
         \A j \in DOMAIN entries : entries[j].sim = m /\ entries[j].n = j
  PROVE  /\ Distinct(Saved(file, entries))
         /\ \A j \in DOMAIN Saved(file, entries) : Saved(file, entries)[j].sim <= m
<1>1. PICK h : h = IF file = <<>> THEN 1 ELSE Len(file)
  OBVIOUS
<1>2. PICK w : w = Saved(file, entries)
  OBVIOUS
<1>3. Glued(file, entries, w, h)
  BY <1>1, <1>2, SavedFrom
<1>4. Header.sim = 0 /\ Header.sim < m
  BY DEF Header
<1>5. ASSUME NEW j \in DOMAIN w, j > h
      PROVE  j - h \in DOMAIN entries /\ w[j].sim = m /\ w[j].n = j - h
  BY <1>3, <1>5 DEF Glued
<1>6. ASSUME NEW j \in DOMAIN w, ~(j > h) PROVE j \in 1..h /\ w[j].sim < m
  <2>1. j \in 1..h /\ h \in Nat
    BY <1>3, <1>6 DEF Glued
  <2>2. CASE file = <<>>
    BY <2>1, <2>2, <1>3, <1>4 DEF Glued
  <2>3. CASE file # <<>>
    BY <2>1, <2>3, <1>3 DEF Glued
  <2>4. QED
    BY <2>1, <2>2, <2>3
<1>7. ASSUME NEW j \in DOMAIN w, NEW k \in DOMAIN w, j # k PROVE w[j] # w[k]
  <2>0. j \in Nat /\ k \in Nat /\ h \in Nat
    BY <1>3 DEF Glued
  <2>1. CASE j > h /\ k > h
    BY <2>0, <2>1, <1>5, <1>7
  <2>2. CASE j > h /\ ~(k > h)
    BY <2>2, <1>5, <1>6
  <2>3. CASE ~(j > h) /\ k > h
    BY <2>3, <1>5, <1>6
  <2>4. CASE ~(j > h) /\ ~(k > h)
    <3>1. j \in 1..h /\ k \in 1..h
      BY <2>4, <1>6
    <3>2. CASE file = <<>>
      BY <3>1, <3>2, <1>3, <1>7 DEF Glued
    <3>3. CASE file # <<>>
      <4>1. j \in DOMAIN file /\ k \in DOMAIN file /\ w[j] = file[j] /\ w[k] = file[k]
        BY <3>1, <3>3, <1>3 DEF Glued
      <4>2. QED
        BY <4>1, <1>7 DEF Distinct
    <3>4. QED
      BY <3>2, <3>3
  <2>5. QED
    BY <2>1, <2>2, <2>3, <2>4
<1>8. \A j \in DOMAIN w : w[j].sim <= m
  <2>1. TAKE j \in DOMAIN w
  <2>2. CASE j > h
    BY <2>2, <1>5
  <2>3. CASE ~(j > h)
    <3>1. w[j] \in Rows /\ w[j].sim < m
      BY <2>3, <1>2, <1>6, SavedRows
    <3>2. QED
      BY <3>1 DEF Rows
  <2>4. QED
    BY <2>2, <2>3
<1>9. QED
  BY <1>2, <1>7, <1>8 DEF Distinct

\* No RBG entry is written twice.
LEMMA RbgsKept ==
  ASSUME RowsInv, [Next]_vars
  PROVE  Unwritten' /\ Distinct(alpha)'
<1>1. /\ sim \in 0..MaxSims /\ alpha \in Seq(Rows) /\ m_rbgAllocationEntries \in Seq(Rows)
      /\ Distinct(alpha)
  BY DEF RowsInv, Inv, Typed, Ranges
<1>2. \A j \in DOMAIN alpha : alpha[j].sim \in Nat
  <2>1. \A r \in Rows : r.sim \in Nat
    BY <1>1 DEF Rows
  <2>2. \A j \in DOMAIN alpha : alpha[j] \in Rows
    BY <1>1
  <2>3. QED
    BY <2>1, <2>2
<1>3. <<Header>> \in Seq(Rows) /\ <<Header>>[1].sim = 0 /\ DOMAIN <<Header>> = {1}
  BY DEF Header, Rows
<1>4. CASE \E scheduler \in {"DPPA", "other"} : StartSimulation(scheduler)
  <2>1. /\ sim' = sim + 1 /\ m_rbgAllocationEntries' = <<>> /\ sim < MaxSims
        /\ UNCHANGED <<shared, alpha>>
    BY <1>4 DEF StartSimulation, files
  <2>2. sim + 1 \in 1..MaxSims /\ sim + 1 > sim
    BY <2>1, <1>1
  <2>3. shared[sim + 1] = 0
    BY <2>2 DEF RowsInv, Ranges
  <2>4. \A j \in DOMAIN alpha : alpha[j].sim <= sim + 1 /\ alpha[j].sim < sim + 1
    BY <1>1, <1>2 DEF RowsInv, Unwritten
  <2>5. QED
    BY <2>1, <2>3, <2>4 DEF Unwritten, Distinct, RowsInv
<1>5. ASSUME NEW u \in UEs, BeforeDlSched(u) PROVE Unwritten' /\ Distinct(alpha)'
  <2>1. /\ UNCHANGED <<sim, mode, shared, m_rbgAllocationEntries>>
        /\ alpha' = alpha \/ alpha' = Saved(alpha, m_rbgAllocationEntries)
        /\ Runs("DPPA") /\ Running
    BY <1>5 DEF BeforeDlSched, files, Running
  <2>2. m_rbgAllocationEntries = <<>> /\ sim \in 1..MaxSims
    BY <2>1, LastSim DEF RowsInv, Unwritten
  <2>3. alpha' = alpha \/ alpha' = <<Header>>
    BY <2>1, <2>2, <1>1, <1>3 DEF Saved
  <2>4. Running' = Running /\ Runs("DPPA")' = Runs("DPPA")
    BY <2>1 DEF Running, Runs
  <2>5. CASE alpha' = alpha
    BY <2>1, <2>4, <2>5 DEF RowsInv, Unwritten, Distinct
  <2>6. CASE alpha' = <<Header>>
    <3>1. DOMAIN alpha' = {1} /\ alpha'[1].sim = 0
      BY <2>6, <1>3
    <3>2. Distinct(alpha)'
      BY <3>1 DEF Distinct
    <3>3. QED
      BY <3>1, <3>2, <2>1, <2>2, <2>4 DEF RowsInv, Unwritten
  <2>7. QED
    BY <2>3, <2>5, <2>6
<1>6. ASSUME NEW u \in UEs, LogRBGAllocation(u) PROVE Unwritten' /\ Distinct(alpha)'
  <2>1. PICK e : e = Entry(u, shared[sim] + 1)
    OBVIOUS
  <2>2. /\ UNCHANGED <<sim, mode, alpha>> /\ Runs("other") /\ Running
        /\ shared' = [shared EXCEPT ![sim] = @ + 1]
        /\ m_rbgAllocationEntries' = Append(m_rbgAllocationEntries, e)
    BY <1>6, <2>1 DEF LogRBGAllocation, files, Running
  <2>3. sim \in 1..MaxSims /\ sim # 0 /\ ~Runs("DPPA")
    BY <2>2, LastSim DEF Runs
  <2>4. shared \in [1..MaxSims -> Nat] /\ Len(m_rbgAllocationEntries) = shared[sim]
    BY <2>2 DEF RowsInv, Ranges, Unwritten
  <2>5. e \in Rows /\ e.sim = sim /\ e.n = Len(m_rbgAllocationEntries) + 1
    BY <2>1, <2>3, <2>4 DEF Entry, Rows
  <2>6. \A j \in DOMAIN m_rbgAllocationEntries :
          m_rbgAllocationEntries[j].sim = sim /\ m_rbgAllocationEntries[j].n = j
    BY DEF RowsInv, Unwritten
  <2>7. \A j \in DOMAIN m_rbgAllocationEntries' :
          m_rbgAllocationEntries'[j].sim = sim /\ m_rbgAllocationEntries'[j].n = j
    BY <2>2, <2>5, <2>6, <1>1
  <2>8. Len(m_rbgAllocationEntries') = shared'[sim]
    <3>1. Len(m_rbgAllocationEntries') = Len(m_rbgAllocationEntries) + 1
      BY <2>2, <2>5, <1>1
    <3>2. shared'[sim] = shared[sim] + 1
      BY <2>2, <2>3, <2>4
    <3>3. QED
      BY <3>1, <3>2, <2>4
  <2>9. Running' = Running /\ Runs("DPPA")' = Runs("DPPA")
    BY <2>2 DEF Running, Runs
  <2>10. Distinct(alpha)'
    BY <2>2, <1>1 DEF Distinct
  <2>11. \A j \in DOMAIN alpha' : alpha'[j].sim <= sim' /\ (Running' => alpha'[j].sim < sim')
    BY <2>2, <2>9 DEF RowsInv, Unwritten
  <2>12. QED
    BY <2>2, <2>3, <2>7, <2>8, <2>9, <2>10, <2>11 DEF Unwritten
<1>7. CASE EndSlot
  <2>1. UNCHANGED <<sim, mode, shared, m_rbgAllocationEntries>> /\ Running
        /\ (alpha' = <<Header>> \/ alpha' = alpha)
    BY <1>7 DEF EndSlot, buffers
  <2>2. Running' = Running /\ Runs("DPPA")' = Runs("DPPA")
    BY <2>1 DEF Running, Runs
  <2>3. CASE alpha' = alpha
    BY <2>1, <2>2, <2>3 DEF RowsInv, Unwritten, Distinct
  <2>4. CASE alpha' = <<Header>>
    <3>1. DOMAIN alpha' = {1} /\ alpha'[1].sim = 0 /\ sim \in 1..MaxSims
      BY <2>1, <2>4, <1>3, LastSim
    <3>2. Distinct(alpha)'
      BY <3>1 DEF Distinct
    <3>3. QED
      BY <3>1, <3>2, <2>1, <2>2 DEF RowsInv, Unwritten
  <2>5. QED
    BY <2>1, <2>3, <2>4
<1>8. CASE Finish
  <2>1. /\ mode' = [mode EXCEPT ![sim] = "finished"] /\ Running
        /\ UNCHANGED <<sim, shared, m_rbgAllocationEntries>>
        /\ alpha' = Saved(alpha, m_rbgAllocationEntries)
    BY <1>8 DEF Finish, buffers
  <2>2. sim \in Nat /\ sim # 0 /\ sim \in 1..MaxSims
    BY <2>1, LastSim
  <2>3. ~Running' /\ ~Runs("DPPA")'
    BY <2>1, <2>2 DEF Running, Runs, RowsInv, Ranges
  <2>4. /\ \A j \in DOMAIN alpha : alpha[j].sim < sim
        /\ \A j \in DOMAIN m_rbgAllocationEntries :
             m_rbgAllocationEntries[j].sim = sim /\ m_rbgAllocationEntries[j].n = j
    BY <2>1 DEF RowsInv, Unwritten
  <2>5. Distinct(alpha') /\ \A j \in DOMAIN alpha' : alpha'[j].sim <= sim
    BY <2>1, <2>2, <2>4, <1>1, SavedDistinct
  <2>6. QED
    BY <2>1, <2>2, <2>3, <2>5 DEF RowsInv, Unwritten, Distinct
<1>9. CASE Crash
  <2>1. /\ mode' = [mode EXCEPT ![sim] = "crashed"] /\ Running
        /\ UNCHANGED <<sim, shared, m_rbgAllocationEntries, alpha>>
    BY <1>9 DEF Crash, buffers, files
  <2>2. ~Running' /\ ~Runs("DPPA")'
    BY <2>1, LastSim DEF Running, Runs, RowsInv, Ranges
  <2>3. QED
    BY <2>1, <2>2 DEF RowsInv, Unwritten, Distinct
<1>10. CASE UNCHANGED vars
  BY <1>10 DEF vars, buffers, files, RowsInv, Unwritten, Distinct, Running, Runs
<1>11. QED
  BY <1>4, <1>5, <1>6, <1>7, <1>8, <1>9, <1>10 DEF Next

\* The invariant of the files holds for ever.
LEMMA RowsInvAlways == Spec => []RowsInv
<1>1. Init => RowsInv
  <2> SUFFICES ASSUME Init PROVE RowsInv
    OBVIOUS
  <2>1. Inv
    BY InitInv
  <2>2. Ranges
    BY DEF Init, Ranges, Modes
  <2>3. Titled /\ QueueSims /\ AllComplete
    BY DEF Init, Titled, QueueSims, AllComplete
  <2>4. Unwritten /\ Distinct(alpha)
    BY DEF Init, Unwritten, Distinct, Running, Runs
  <2>5. QED
    BY <2>1, <2>2, <2>3, <2>4 DEF RowsInv
<1>2. RowsInv /\ [Next]_vars => RowsInv'
  <2> SUFFICES ASSUME RowsInv, [Next]_vars PROVE RowsInv'
    OBVIOUS
  <2>1. Inv'
    BY NoEntry, OneEntry DEF RowsInv
  <2>2. QED
    BY <2>1, RangesKept, QueuesKept, RbgsKept DEF RowsInv
<1>3. QED
  BY <1>1, <1>2, PTL DEF Spec

\* Whatever simulations ran in the directory, finished or crashed, the queue
\* files have the same rows and each entry once, in its order and without a gap,
\* all of them unless its simulation crashed; and no row of alpha.txt comes
\* twice, although nothing empties the vector of the RBG entries.
THEOREM RowsAlwaysMatch == Spec => []RowsMatch
<1>1. RowsInv => RowsMatch
  <2> SUFFICES ASSUME RowsInv PROVE RowsMatch
    OBVIOUS
  <2>1. queue_q = queue_g
    BY DEF RowsInv, Inv, Twins
  <2>2. queue_q # <<>> => queue_q[1] = Header /\ \A j \in 2..Len(queue_q) : queue_q[j] # Header
    BY DEF RowsInv, Titled, Header
  <2>3. QED
    BY <2>1, <2>2 DEF RowsInv, AllComplete, Distinct, RowsMatch
<1>2. QED
  BY <1>1, RowsInvAlways, PTL

==============================================================================
