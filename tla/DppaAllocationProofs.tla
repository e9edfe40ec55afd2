------------------------- MODULE DppaAllocationProofs -------------------------
(***************************************************************************)
(* Theorems about DppaAllocation, for every beam, any number of UEs and    *)
(* RBGs, and transport blocks of any size.                                 *)
(***************************************************************************)
EXTENDS DppaAllocation, DataLemmas, SequenceTheorems

USE InputAssumption

-----------------------------------------------------------------------------
(* Sequences and their elements.                                           *)

\* What a longer sequence holds.
LEMMA ElementsAppend ==
  ASSUME NEW S, NEW s \in Seq(S), NEW x \in S
  PROVE  /\ Append(s, x) \in Seq(S) /\ Len(Append(s, x)) = Len(s) + 1 /\ Len(s) \in Nat
         /\ \A i \in 1..Len(s) : Append(s, x)[i] = s[i]
         /\ Append(s, x)[Len(s) + 1] = x
         /\ Elements(Append(s, x)) = Elements(s) \cup {x}
<1>1. PICK t : t = Append(s, x)
  OBVIOUS
<1>2. /\ t \in Seq(S) /\ Len(t) = Len(s) + 1 /\ Len(s) \in Nat
      /\ \A i \in 1..Len(s) : t[i] = s[i]
      /\ t[Len(s) + 1] = x
  BY <1>1
<1>3. \A y \in Elements(t) : y \in Elements(s) \/ y = x
  <2>1. SUFFICES ASSUME NEW i \in 1..Len(t) PROVE t[i] \in Elements(s) \/ t[i] = x
    BY DEF Elements
  <2>2. CASE i \in 1..Len(s)
    BY <1>2, <2>2 DEF Elements
  <2>3. CASE i = Len(s) + 1
    BY <1>2, <2>3
  <2>4. QED
    BY <1>2, <2>1, <2>2, <2>3
<1>4. \A y \in Elements(s) : y \in Elements(t)
  <2>1. SUFFICES ASSUME NEW i \in 1..Len(s) PROVE s[i] \in Elements(t)
    BY DEF Elements
  <2>2. i \in 1..Len(t) /\ t[i] = s[i]
    BY <1>2
  <2>3. QED
    BY <2>2 DEF Elements
<1>5. x \in Elements(t)
  <2>1. Len(t) \in 1..Len(t) /\ t[Len(t)] = x
    BY <1>2
  <2>2. QED
    BY <2>1 DEF Elements
<1>6. QED
  BY <1>1, <1>2, <1>3, <1>4, <1>5

\* A sequence without repetition is as long as it has elements.
LEMMA ElementsCount ==
  ASSUME NEW S, NEW s \in Seq(S), \A i, j \in 1..Len(s) : s[i] = s[j] => i = j
  PROVE  IsFiniteSet(Elements(s)) /\ Cardinality(Elements(s)) = Len(s)
<1>1. Len(s) \in Nat /\ IsFiniteSet(1..Len(s)) /\ Cardinality(1..Len(s)) = Len(s)
  BY FS_Interval
<1> DEFINE f == [i \in 1..Len(s) |-> s[i]]
<1>2. /\ f \in [1..Len(s) -> Elements(s)]
      /\ \A i, j \in 1..Len(s) : f[i] = f[j] => i = j
      /\ \A y \in Elements(s) : \E i \in 1..Len(s) : f[i] = y
  BY DEF Elements
<1> HIDE DEF f
<1>3. f \in Bijection(1..Len(s), Elements(s))
  BY <1>2 DEF Bijection, Injection, Surjection, IsInjective
<1>4. ExistsBijection(1..Len(s), Elements(s))
  BY <1>3 DEF ExistsBijection
<1>5. QED
  BY <1>1, <1>4, FS_Bijection

\* An order of a set is a sequence of all its members.
LEMMA OrderOf ==
  ASSUME NEW S, IsFiniteSet(S), NEW s \in Orders(S)
  PROVE  /\ s \in Seq(S) /\ Len(s) = Cardinality(S) /\ Len(s) \in Nat
         /\ Elements(s) = S
         /\ \A i, j \in 1..Len(s) : s[i] = s[j] => i = j
<1>1. PICK n \in Nat : n = Cardinality(S)
  BY FS_CardinalityType
<1>2. s \in [1..n -> S] /\ \A i, j \in 1..n : i < j => s[i] # s[j]
  BY <1>1 DEF Orders
<1>3. s \in Seq(S) /\ Len(s) = n
  BY <1>2
<1>4. \A i, j \in 1..n : s[i] = s[j] => i = j
  BY <1>2
<1>5. IsFiniteSet(1..n) /\ Cardinality(1..n) = n
  BY FS_Interval
<1>6. s \in Injection(1..n, S)
  BY <1>2, <1>4 DEF Injection, IsInjective
<1>7. s \in Surjection(1..n, S)
  BY <1>1, <1>5, <1>6, FS_Injection
<1>8. Elements(s) = S
  BY <1>2, <1>3, <1>7 DEF Surjection, Elements
<1>9. QED
  BY <1>1, <1>3, <1>4, <1>8

\* What Sum computes, one term after the other.
LEMMA SumTerms ==
  ASSUME NEW n \in Nat, NEW f \in [1..n -> Nat]
  PROVE  \E h : /\ h[0] = 0
                /\ \A k \in 1..n : h[k] = h[k - 1] + f[k]
                /\ Sum(f) = h[n]
<1> DEFINE Body(h) == [s \in SUBSET (1..n) |->
                         IF s = {} THEN 0 ELSE h[s \ {Last(s)}] + f[Last(s)]]
           iter == CHOOSE h : h = Body(h)
           G == [p \in (1..n) \X Nat |-> p[2] + f[p[1]]]
<1>1. Sum(f) = iter[1..n]
  <2>1. DOMAIN f = 1..n
    OBVIOUS
  <2>2. QED
    BY <2>1 DEF Sum, SE!FoldLeft, SE!MapThenFoldSet, SE!Max, Last
<1>2. \E h : h = Body(h)
  <2>1. G \in [(1..n) \X Nat -> Nat]
    OBVIOUS
  <2> HIDE DEF G
  <2>2. PICK h : IsFold(h, n, Nat, 0, G)
    BY <2>1, FoldEquation
  <2>3. h = Body(h)
    BY <2>2 DEF G, IsFold
  <2> HIDE DEF Body
  <2>4. QED
    BY <2>3
<1>3. iter = Body(iter)
  <2> HIDE DEF Body
  <2>1. QED
    BY <1>2
<1> HIDE DEF iter
<1>4. iter[{}] = 0
  BY <1>3
<1>5. ASSUME NEW k \in 1..n PROVE iter[1..k] = iter[1..(k - 1)] + f[k]
  <2>1. Last(1..k) = k /\ 1..k \in SUBSET (1..n) /\ 1..k # {} /\ (1..k) \ {k} = 1..(k - 1)
    BY FirstPositions
  <2>2. QED
    BY <2>1, <1>3
<1> DEFINE g == [k \in 0..n |-> iter[1..k]]
<1>6. g[0] = 0 /\ Sum(f) = g[n] /\ \A k \in 1..n : g[k] = g[k - 1] + f[k]
  BY <1>1, <1>4, <1>5
<1> HIDE DEF g
<1>7. QED
  BY <1>6

\* The sum of values that may each be a CQI, over as many RBGs, is between
\* zero and that many times one of the values.
LEMMA SumBounded ==
  ASSUME NEW n \in Nat \ {0}, NEW f \in [1..n -> Cqis]
  PROVE  Sum(f) \in Nat /\ \E c \in Cqis : Sum(f) <= c * n
<1>1. n \in Nat /\ f \in [1..n -> Nat]
  OBVIOUS
<1>2. PICK h : /\ h[0] = 0
               /\ \A k \in 1..n : h[k] = h[k - 1] + f[k]
               /\ Sum(f) = h[n]
  <2> HIDE InputAssumption
  <2>1. QED
    BY <1>1, SumTerms
<1> DEFINE S == {k \in Nat : k <= n =>
                   h[k] \in Nat /\ \E c \in Cqis : h[k] <= c * k}
<1>3. 0 \in S
  <2>1. f[1] \in Cqis
    OBVIOUS
  <2>2. PICK c \in Cqis : c \in Nat
    BY <2>1
  <2>3. \A x \in Nat : x * 0 = 0
    OBVIOUS
  <2>4. h[0] <= c * 0 /\ h[0] \in Nat
    BY <1>2, <2>2, <2>3
  <2>5. QED
    BY <2>2, <2>4
<1>4. ASSUME NEW k \in Nat, k \in S, k + 1 <= n PROVE k + 1 \in S
  <2>1. PICK c \in Cqis : h[k] <= c * k
    BY <1>4
  <2>2. PICK d \in Cqis : d = f[k + 1]
    <3>1. k + 1 \in 1..n
      BY <1>4
    <3>2. f[k + 1] \in Cqis
      BY <3>1
    <3>3. QED
      BY <3>2
  <2>3. h[k] \in Nat /\ h[k + 1] = h[k] + d
    <3>1. k + 1 \in 1..n /\ (k + 1) - 1 = k
      BY <1>4
    <3>2. h[k + 1] = h[k] + f[k + 1]
      BY <3>1, <1>2
    <3>3. QED
      BY <3>2, <2>2, <1>4
  <2>4. c \in Nat /\ d \in Nat
    OBVIOUS
  <2>5. PICK m \in Cqis : m \in Nat /\ c <= m /\ d <= m
    <3>1. CASE c <= d
      BY <2>4, <3>1
    <3>2. CASE d <= c
      BY <2>4, <3>2
    <3>3. QED
      BY <2>4, <3>1, <3>2
  <2>6. h[k] + d <= m * (k + 1)
    <3>1. \A x, y, z \in Nat : x <= y => x * z <= y * z
      OBVIOUS
    <3>2. \A x, y \in Nat : x * y \in Nat /\ x * (y + 1) = x * y + x
      OBVIOUS
    <3>3. c * k <= m * k /\ c * k \in Nat /\ m * k \in Nat /\ m * (k + 1) = m * k + m
      BY <3>1, <3>2, <2>4, <2>5
    <3>4. PICK p \in Nat, q \in Nat : p = c * k /\ q = m * k
      BY <3>3
    <3>5. h[k] <= p /\ p <= q /\ m * (k + 1) = q + m
      BY <3>3, <3>4, <2>1
    <3>6. h[k] + d <= q + m
      BY <3>5, <2>3, <2>4, <2>5
    <3>7. QED
      BY <3>5, <3>6
  <2>7. QED
    BY <2>3, <2>4, <2>5, <2>6
<1>5. \A k \in Nat : k \in S => k + 1 \in S
  BY <1>4
<1> HIDE DEF S
<1>6. n \in S
  BY <1>3, <1>5, SetInduction
<1>7. QED
  BY <1>2, <1>6 DEF S

-----------------------------------------------------------------------------
(* The invariant.                                                          *)

\* The parts of the state the proofs need to know the form of.
Shape ==
  /\ cell \in Cells /\ \A u \in Active : ue[u] \in Inputs
  /\ ueVector \in Seq(Active) /\ it \in Nat \ {0}
  /\ remaining \subseteq Rbgs
  /\ held \in [Active -> Seq(Rbgs)]
  /\ tbs = [u \in Active |-> tbs[u]]

Inv == Shape /\ Exclusive /\ BooksAgree /\ CreditedForHeld /\ NoOverAllocation

\* The active UEs of a beam are finitely many.
LEMMA ActiveFinite == ASSUME Shape PROVE IsFiniteSet(Active)
<1>1. Active \subseteq UEs
  BY DEF Shape, Active, Cell
<1>2. QED
  BY <1>1, FS_Subset

\* The iterator stops at a UE that lacks bytes, or at the end.
LEMMA StopsAt ==
  ASSUME Shape, NEW j \in Stops
  PROVE  /\ j \in Nat \ {0}
         /\ j <= Len(ueVector) => ueVector[j] \in Active /\ ~Satisfied(ueVector[j])
<1>1. Len(ueVector) \in Nat
  BY DEF Shape
<1>2. j \in Nat \ {0}
  BY <1>1 DEF Stops, Shape
<1>3. j <= Len(ueVector) => j \in 1..Len(ueVector)
  BY <1>1, <1>2
<1>4. j <= Len(ueVector) => ueVector[j] \in Active
  BY <1>3, ElementOfSeq DEF Shape
<1>5. QED
  BY <1>2, <1>4 DEF Stops

\* What is picked is left to be handed out.
LEMMA PickedRemains == ASSUME NEW u PROVE Picked(u) \subseteq remaining
BY DEF Picked, Lowest, Best

\* The metrics of a UE depend on nothing that a slot changes.
LEMMA MetricsFixed ==
  ASSUME UNCHANGED inputVars, NEW u, NEW s
  PROVE  /\ Active' = Active
         /\ TbSize(u, s)' = TbSize(u, s) /\ Need(u)' = Need(u) /\ Mcs(u, s)' = Mcs(u, s)
BY DEF inputVars, Active, TbSize, Mcs, Need

\* At the beginning nothing is held.
LEMMA InitInv == Init => Inv
<1> SUFFICES ASSUME Init PROVE Inv
  OBVIOUS
<1>1. cell \in Cells /\ \A u \in Active : ue[u] \in Inputs
  BY DEF Init, Cell
<1>2. IsFiniteSet(Active)
  <2>1. Active \subseteq UEs
    BY <1>1 DEF Active, Cell
  <2>2. QED
    BY <2>1, FS_Subset
<1>3. ueVector \in Seq(Active)
  BY <1>2, OrderOf DEF Init, ByWeight
<1>4. /\ held = [u \in Active |-> <<>>] /\ tbs = [u \in Active |-> 0]
      /\ remaining = Rbgs /\ available = Rbgs /\ assigned = 0 /\ it = 1
  BY DEF Init
<1>5. \A u \in Active : held[u] = <<>> /\ tbs[u] = 0 /\ Len(held[u]) = 0 /\ Elements(held[u]) = {}
  BY <1>4 DEF Elements
<1>6. Shape
  BY <1>1, <1>3, <1>4 DEF Shape
<1>7. Exclusive
  BY <1>5 DEF Exclusive
<1>8. BooksAgree
  <2>1. HeldRbgs = {}
    BY <1>5 DEF HeldRbgs
  <2>2. QED
    BY <1>4, <2>1, FS_EmptySet DEF BooksAgree
<1>9. CreditedForHeld /\ NoOverAllocation
  BY <1>5 DEF CreditedForHeld, NoOverAllocation, TbSize
<1>10. QED
  BY <1>6, <1>7, <1>8, <1>9 DEF Inv

\* The RBGs held are finitely many RBGs of the beam.
LEMMA HeldFinite ==
  ASSUME Shape
  PROVE  /\ HeldRbgs \subseteq Rbgs /\ IsFiniteSet(HeldRbgs) /\ Cardinality(HeldRbgs) \in Nat
         /\ \A u \in Active : Elements(held[u]) \subseteq Rbgs
<1>1. ASSUME NEW u \in Active PROVE Elements(held[u]) \subseteq Rbgs
  <2>1. held[u] \in Seq(Rbgs)
    BY DEF Shape
  <2>2. \A i \in 1..Len(held[u]) : held[u][i] \in Rbgs
    BY <2>1, ElementOfSeq
  <2>3. QED
    BY <2>2 DEF Elements
<1>2. HeldRbgs \subseteq Rbgs
  BY <1>1 DEF HeldRbgs
<1>3. QED
  BY <1>1, <1>2, FS_Subset, FS_CardinalityType

\* A step that leaves the books and the place before "done" alone, or leaves
\* the books and stops, keeps what the books say.
LEMMA SameBooks ==
  ASSUME Inv, UNCHANGED <<inputVars, rbgVars>>, pc # "done", pc' # "done",
         ueVector' \in Seq(Active), it' \in Nat \ {0}
  PROVE  Inv'
<1>1. /\ Active' = Active /\ HeldRbgs' = HeldRbgs
      /\ held' = held /\ tbs' = tbs /\ remaining' = remaining
      /\ available' = available /\ assigned' = assigned /\ cell' = cell /\ ue' = ue
  BY DEF inputVars, rbgVars, Active, HeldRbgs
<1>2. Shape'
  BY <1>1 DEF Inv, Shape
<1>3. Exclusive' /\ BooksAgree'
  BY <1>1 DEF Inv, Exclusive, BooksAgree
<1>4. CreditedForHeld' /\ NoOverAllocation'
  BY <1>1, MetricsFixed DEF Inv, CreditedForHeld, NoOverAllocation
<1>5. QED
  BY <1>2, <1>3, <1>4 DEF Inv

\* A step that takes their RBGs from a set of UEs.
LEMMA TakenBack ==
  ASSUME Shape, Exclusive, NEW out \in SUBSET Active,
         held' = [v \in Active |-> IF v \in out THEN <<>> ELSE held[v]]
  PROVE  /\ held' \in [Active -> Seq(Rbgs)]
         /\ \A u \in Active : held'[u] = IF u \in out THEN <<>> ELSE held[u]
         /\ \A u, v \in Active : \A i \in 1..Len(held'[u]), j \in 1..Len(held'[v]) :
              held'[u][i] = held'[v][j] => u = v /\ i = j
         /\ Freed(out) \subseteq HeldRbgs
         /\ UNION {Elements(held'[u]) : u \in Active} = HeldRbgs \ Freed(out)
         /\ Cardinality(HeldRbgs \ Freed(out)) = Cardinality(HeldRbgs) - Cardinality(Freed(out))
         /\ Cardinality(Freed(out)) \in Nat
<1>1. \A u \in Active : held'[u] = IF u \in out THEN <<>> ELSE held[u]
  OBVIOUS
<1>2. held' \in [Active -> Seq(Rbgs)]
  BY DEF Shape
<1>3. ASSUME NEW u \in Active, NEW v \in Active, NEW i \in 1..Len(held'[u]), NEW j \in 1..Len(held'[v]),
             held'[u][i] = held'[v][j]
      PROVE  u = v /\ i = j
  <2>1. held'[u] = held[u] /\ held'[v] = held[v]
    BY <1>1, <1>3
  <2>2. QED
    BY <1>3, <2>1 DEF Exclusive
<1>4. Freed(out) \subseteq HeldRbgs
  BY DEF Freed, HeldRbgs
<1>5. \A u, v \in Active : u # v => Elements(held[u]) \cap Elements(held[v]) = {}
  BY DEF Exclusive, Elements
<1>6. \A u \in Active : Elements(held'[u]) = IF u \in out THEN {} ELSE Elements(held[u])
  BY <1>1 DEF Elements
<1>7. \A u \in out : Elements(held[u]) \subseteq Freed(out)
  BY HeldFinite DEF Freed
<1>8. UNION {Elements(held'[u]) : u \in Active} = HeldRbgs \ Freed(out)
  <2>1. ASSUME NEW r \in UNION {Elements(held'[u]) : u \in Active} PROVE r \in HeldRbgs \ Freed(out)
    <3>1. PICK u \in Active : r \in Elements(held'[u])
      OBVIOUS
    <3>2. u \notin out /\ r \in Elements(held[u])
      BY <1>6, <3>1
    <3>3. r \notin Freed(out)
      BY <1>5, <3>2 DEF Freed
    <3>4. QED
      BY <3>2, <3>3 DEF HeldRbgs
  <2>2. ASSUME NEW r \in HeldRbgs \ Freed(out) PROVE r \in UNION {Elements(held'[u]) : u \in Active}
    <3>1. PICK u \in Active : r \in Elements(held[u])
      BY DEF HeldRbgs
    <3>2. u \notin out
      BY <1>7, <3>1
    <3>3. QED
      BY <1>6, <3>1, <3>2
  <2>3. QED
    BY <2>1, <2>2
<1>9. IsFiniteSet(Freed(out)) /\ Cardinality(Freed(out)) \in Nat
  BY <1>4, HeldFinite, FS_Subset, FS_CardinalityType
<1>10. Cardinality(HeldRbgs \ Freed(out)) = Cardinality(HeldRbgs) - Cardinality(Freed(out))
  <2>1. HeldRbgs \cap Freed(out) = Freed(out)
    BY <1>4
  <2>2. QED
    BY <2>1, HeldFinite, FS_Difference
<1>11. QED
  BY <1>1, <1>2, <1>3, <1>4, <1>8, <1>9, <1>10

-----------------------------------------------------------------------------
(* The steps that hand out and take back.                                  *)

\* A UE that lacks bytes gets an RBG that nobody holds.
LEMMA AllocateInv == ASSUME Inv, Allocate PROVE Inv'
<1>1. UNCHANGED inputVars /\ ueVector' = ueVector /\ pc = "advance" /\ pc' = "passEnd"
  BY DEF Allocate
<1>2. Shape /\ Exclusive /\ BooksAgree /\ CreditedForHeld /\ NoOverAllocation
  BY DEF Inv
<1>3. PICK j \in Stops :
        /\ j <= Len(ueVector)
        /\ LET u == ueVector[j] IN \E r \in Picked(u) :
             /\ held' = [held EXCEPT ![u] = Append(@, r)]
             /\ tbs' = [tbs EXCEPT ![u] = TbSize(u, Append(held[u], r))]
             /\ remaining' = TakenFrom(r)
             /\ available' = available \ {r}
        /\ it' = j
        /\ assigned' = Counted
  BY DEF Allocate
<1>4. PICK u : u = ueVector[j]
  OBVIOUS
<1>5. u \in Active /\ ~Satisfied(u) /\ it' \in Nat \ {0}
  BY <1>2, <1>3, <1>4, StopsAt
<1>6. PICK r \in Picked(u) :
        /\ held' = [held EXCEPT ![u] = Append(@, r)]
        /\ tbs' = [tbs EXCEPT ![u] = TbSize(u, Append(held[u], r))]
        /\ remaining' = remaining \ {r}
        /\ available' = available \ {r}
        /\ assigned' = assigned + 1
  BY <1>3, <1>4 DEF TakenFrom, Counted
<1>7. PICK n : n = Append(held[u], r)
  OBVIOUS
<1>8. r \in remaining /\ r \in Rbgs /\ remaining = available /\ r \notin HeldRbgs
  BY <1>1, <1>2, PickedRemains DEF Shape, BooksAgree
<1>9. held[u] \in Seq(Rbgs)
  BY <1>2, <1>5 DEF Shape
<1>10. /\ n \in Seq(Rbgs) /\ Len(n) = Len(held[u]) + 1 /\ Len(held[u]) \in Nat
       /\ \A i \in 1..Len(held[u]) : n[i] = held[u][i]
       /\ n[Len(held[u]) + 1] = r
       /\ Elements(n) = Elements(held[u]) \cup {r}
  BY <1>7, <1>8, <1>9, ElementsAppend
<1>11. /\ Active' = Active /\ cell' = cell /\ ue' = ue
       /\ held' = [v \in Active |-> IF v = u THEN n ELSE held[v]]
       /\ tbs' = [v \in Active |-> IF v = u THEN TbSize(u, n) ELSE tbs[v]]
  BY <1>1, <1>2, <1>5, <1>6, <1>7 DEF inputVars, Active, Shape
<1>12. \A v \in Active : /\ held'[v] = IF v = u THEN n ELSE held[v]
                         /\ tbs'[v] = IF v = u THEN TbSize(u, n) ELSE tbs[v]
  BY <1>11
<1>13. Shape'
  <2>1. \A v \in Active : held'[v] \in Seq(Rbgs)
    BY <1>2, <1>10, <1>12 DEF Shape
  <2>2. held' \in [Active -> Seq(Rbgs)] /\ tbs' = [v \in Active |-> tbs'[v]]
    BY <2>1, <1>11
  <2>3. QED
    BY <2>2, <1>1, <1>2, <1>5, <1>6, <1>11 DEF Shape
<1>14. HeldRbgs' = HeldRbgs \cup {r}
  <2>1. HeldRbgs' = UNION {Elements(held'[v]) : v \in Active}
    BY <1>11 DEF HeldRbgs, Elements
  <2>2. \A v \in Active : Elements(held'[v]) = Elements(held[v]) \cup (IF v = u THEN {r} ELSE {})
    BY <1>10, <1>12 DEF Elements
  <2>3. QED
    BY <2>1, <2>2, <1>5 DEF HeldRbgs
<1>15. BooksAgree'
  <2>1. IsFiniteSet(HeldRbgs) /\ Cardinality(HeldRbgs) \in Nat
    BY <1>2, HeldFinite
  <2>2. Cardinality(HeldRbgs \cup {r}) = Cardinality(HeldRbgs) + 1
    BY <2>1, <1>8, FS_AddElement
  <2>3. available' = Rbgs \ HeldRbgs' /\ remaining' = available'
    BY <1>2, <1>6, <1>8, <1>14 DEF BooksAgree
  <2>4. assigned' = Cardinality(HeldRbgs')
    BY <2>2, <1>2, <1>6, <1>14 DEF BooksAgree
  <2>5. QED
    BY <2>3, <2>4 DEF BooksAgree
<1>16. Exclusive'
  <2>1. \A v \in Active : \A i \in 1..Len(held[v]) : held[v][i] # r
    BY <1>8 DEF HeldRbgs, Elements
  <2>2. \A i \in 1..Len(n) : (i \in 1..Len(held[u]) /\ n[i] = held[u][i]) \/ (i = Len(held[u]) + 1 /\ n[i] = r)
    BY <1>10
  <2>3. ASSUME NEW v \in Active, NEW w \in Active,
               NEW i \in 1..Len(held'[v]), NEW k \in 1..Len(held'[w]), held'[v][i] = held'[w][k]
        PROVE  v = w /\ i = k
    <3>1. CASE v = u /\ w = u
      BY <3>1, <2>1, <2>2, <2>3, <1>2, <1>12 DEF Exclusive
    <3>2. CASE v = u /\ w # u
      BY <3>2, <2>1, <2>2, <2>3, <1>2, <1>12 DEF Exclusive
    <3>3. CASE v # u /\ w = u
      BY <3>3, <2>1, <2>2, <2>3, <1>2, <1>12 DEF Exclusive
    <3>4. CASE v # u /\ w # u
      BY <3>4, <2>3, <1>2, <1>12 DEF Exclusive
    <3>5. QED
      BY <3>1, <3>2, <3>3, <3>4
  <2>4. \A v \in Active : Elements(held'[v]) \cap remaining' = {}
    <3>1. remaining' = Rbgs \ HeldRbgs'
      BY <1>1, <1>15 DEF BooksAgree
    <3>2. \A v \in Active : Elements(held'[v]) \subseteq HeldRbgs'
      BY <1>11 DEF HeldRbgs, Elements
    <3>3. QED
      BY <3>1, <3>2
  <2>5. QED
    BY <2>3, <2>4, <1>11 DEF Exclusive, Elements
<1>17. CreditedForHeld'
  <2>1. \A v \in Active : tbs'[v] = TbSize(v, held'[v])
    BY <1>1, <1>2, <1>12 DEF CreditedForHeld
  <2>2. \A v \in Active : TbSize(v, held[v])' = TbSize(v, held'[v])
    BY <1>1 DEF TbSize, Mcs, inputVars
  <2>3. QED
    BY <2>1, <2>2, <1>11 DEF CreditedForHeld
<1>18. NoOverAllocation'
  <2>1. tbs[u] = TbSize(u, held[u])
    BY <1>1, <1>2, <1>5 DEF CreditedForHeld
  <2>2. ~(TbSize(u, held[u]) >= Need(u))
    BY <2>1, <1>5 DEF Satisfied
  <2>3. SubSeq(n, 1, Len(n) - 1) = held[u]
    BY <1>7, <1>8, <1>9
  <2>4. \A v \in Active : held'[v] # <<>> =>
          ~(TbSize(v, SubSeq(held'[v], 1, Len(held'[v]) - 1)) >= Need(v))
    BY <2>2, <2>3, <1>2, <1>12 DEF NoOverAllocation
  <2>5. \A v \in Active : /\ TbSize(v, SubSeq(held[v], 1, Len(held[v]) - 1))'
                              = TbSize(v, SubSeq(held'[v], 1, Len(held'[v]) - 1))
                          /\ Need(v)' = Need(v)
    BY <1>1 DEF TbSize, Mcs, Need, inputVars
  <2>6. QED
    BY <2>4, <2>5, <1>11 DEF NoOverAllocation
<1>19. QED
  BY <1>13, <1>15, <1>16, <1>17, <1>18 DEF Inv

\* Sorting the UEs of the round by their bytes loses none and adds none.
LEMMA SortedRound ==
  ASSUME Shape, NEW order \in ByBytes(Elements(ueVector))
  PROVE  /\ Elements(ueVector) \subseteq Active
         /\ order \in Seq(Active) /\ Len(order) \in Nat
         /\ Elements(order) = Elements(ueVector)
         /\ \A i, j \in 1..Len(order) : i < j => tbs[order[i]] >= tbs[order[j]]
<1>1. Elements(ueVector) \subseteq Active
  <2>1. ueVector \in Seq(Active)
    BY DEF Shape
  <2>2. \A i \in 1..Len(ueVector) : ueVector[i] \in Active
    BY <2>1, ElementOfSeq
  <2>3. QED
    BY <2>2 DEF Elements
<1>2. IsFiniteSet(Elements(ueVector))
  BY <1>1, ActiveFinite, FS_Subset
<1>3. order \in Orders(Elements(ueVector))
  BY DEF ByBytes
<1>4. order \in Seq(Elements(ueVector)) /\ Len(order) \in Nat /\ Elements(order) = Elements(ueVector)
  BY <1>2, <1>3, OrderOf
<1>5. order \in Seq(Active)
  BY <1>1, <1>4
<1>6. QED
  BY <1>1, <1>4, <1>5 DEF ByBytes

\* The last UE loses its RBGs: they can be handed out again.
LEMMA ReapInv == ASSUME Inv, Reap PROVE Inv'
<1>1. UNCHANGED inputVars /\ it' = it /\ pc = "reap" /\ pc' \in {"pass", "fronthaul"}
  BY DEF Reap
<1>2. Shape /\ Exclusive /\ BooksAgree /\ CreditedForHeld /\ NoOverAllocation
  BY DEF Inv
<1>3. PICK order \in ByBytes(Elements(ueVector)) :
        /\ order # <<>>
        /\ LET u == order[Len(order)] IN
             /\ remaining' = remaining \cup Elements(held[u])
             /\ available' = available \cup Elements(held[u])
             /\ assigned' = assigned - Len(held[u])
             /\ held' = [held EXCEPT ![u] = <<>>]
             /\ tbs' = [tbs EXCEPT ![u] = ReapedTbs(u)]
        /\ ueVector' = SubSeq(order, 1, Len(order) - 1)
  BY DEF Reap
<1>4. order \in Seq(Active) /\ Len(order) \in Nat
  BY <1>2, <1>3, SortedRound
<1>5. Len(order) \in 1..Len(order)
  BY <1>3, <1>4
<1>6. PICK last : last = order[Len(order)]
  OBVIOUS
<1>7. last \in Active
  BY <1>4, <1>5, <1>6, ElementOfSeq
<1>8. /\ remaining' = remaining \cup Elements(held[last])
      /\ available' = available \cup Elements(held[last])
      /\ assigned' = assigned - Len(held[last])
      /\ held' = [held EXCEPT ![last] = <<>>]
      /\ tbs' = [tbs EXCEPT ![last] = 0]
  BY <1>3, <1>6 DEF ReapedTbs, TbSize
<1>9. ueVector' \in Seq(Active)
  BY <1>3, <1>4, <1>5
<1>10. /\ Active' = Active /\ cell' = cell /\ ue' = ue
       /\ held' = [v \in Active |-> IF v \in {last} THEN <<>> ELSE held[v]]
       /\ tbs' = [v \in Active |-> IF v = last THEN 0 ELSE tbs[v]]
  BY <1>1, <1>2, <1>8 DEF inputVars, Active, Shape
<1>11. Freed({last}) = Elements(held[last]) /\ Elements(held[last]) \subseteq Rbgs
  BY <1>2, <1>7, HeldFinite DEF Freed
<1>12. Len(held[last]) = Cardinality(Freed({last}))
  <2>1. held[last] \in Seq(Rbgs) /\ \A i, j \in 1..Len(held[last]) : held[last][i] = held[last][j] => i = j
    BY <1>2, <1>7 DEF Shape, Exclusive
  <2>2. QED
    BY <2>1, <1>11, ElementsCount
<1>13. {last} \in SUBSET Active
  BY <1>7
<1>14. /\ held' \in [Active -> Seq(Rbgs)]
       /\ \A v \in Active : held'[v] = IF v \in {last} THEN <<>> ELSE held[v]
       /\ \A v, w \in Active : \A i \in 1..Len(held'[v]), j \in 1..Len(held'[w]) :
            held'[v][i] = held'[w][j] => v = w /\ i = j
       /\ Freed({last}) \subseteq HeldRbgs
       /\ UNION {Elements(held'[v]) : v \in Active} = HeldRbgs \ Freed({last})
       /\ Cardinality(HeldRbgs \ Freed({last})) = Cardinality(HeldRbgs) - Cardinality(Freed({last}))
  BY <1>2, <1>10, <1>13, TakenBack
<1>15. HeldRbgs' = HeldRbgs \ Freed({last})
  BY <1>10, <1>14 DEF HeldRbgs, Elements
<1>16. BooksAgree'
  BY <1>1, <1>2, <1>8, <1>11, <1>12, <1>14, <1>15 DEF BooksAgree
<1>17. Shape'
  <2>1. remaining' \subseteq Rbgs /\ tbs' = [v \in Active |-> tbs'[v]]
    BY <1>2, <1>8, <1>10, <1>11 DEF Shape
  <2>2. QED
    BY <2>1, <1>1, <1>2, <1>9, <1>10, <1>14 DEF Shape
<1>18. Exclusive'
  <2>1. remaining' = Rbgs \ HeldRbgs'
    BY <1>1, <1>16 DEF BooksAgree
  <2>2. \A v \in Active : Elements(held'[v]) \subseteq HeldRbgs'
    BY <1>10 DEF HeldRbgs, Elements
  <2>3. \A v \in Active : Elements(held'[v]) \cap remaining' = {}
    BY <2>1, <2>2
  <2>4. QED
    BY <2>3, <1>10, <1>14 DEF Exclusive, Elements
<1>19. CreditedForHeld'
  <2>1. \A v \in Active : tbs'[v] = TbSize(v, held'[v])
    BY <1>1, <1>2, <1>10, <1>14 DEF CreditedForHeld, TbSize
  <2>2. \A v \in Active : TbSize(v, held[v])' = TbSize(v, held'[v])
    BY <1>1 DEF TbSize, Mcs, inputVars
  <2>3. QED
    BY <2>1, <2>2, <1>10 DEF CreditedForHeld
<1>20. NoOverAllocation'
  <2>1. \A v \in Active : held'[v] # <<>> =>
          ~(TbSize(v, SubSeq(held'[v], 1, Len(held'[v]) - 1)) >= Need(v))
    BY <1>2, <1>14 DEF NoOverAllocation
  <2>2. \A v \in Active : /\ TbSize(v, SubSeq(held[v], 1, Len(held[v]) - 1))'
                              = TbSize(v, SubSeq(held'[v], 1, Len(held'[v]) - 1))
                          /\ Need(v)' = Need(v)
    BY <1>1 DEF TbSize, Mcs, Need, inputVars
  <2>3. QED
    BY <2>1, <2>2, <1>10 DEF NoOverAllocation
<1>21. QED
  BY <1>16, <1>17, <1>18, <1>19, <1>20 DEF Inv

\* The fronthaul takes whole allocations back.
LEMMA FronthaulInv == ASSUME Inv, Fronthaul PROVE Inv'
<1>1. /\ UNCHANGED inputVars /\ it' = it /\ ueVector' = ueVector /\ pc = "fronthaul"
      /\ pc' = "done" /\ remaining' = remaining /\ tbs' = tbs
  BY DEF Fronthaul, loopVars
<1>2. Shape /\ Exclusive /\ BooksAgree /\ CreditedForHeld /\ NoOverAllocation
  BY DEF Inv
<1>3. PICK out \in SUBSET Elements(ueVector) :
        /\ cell.fronthaul = "None" => out = {}
        /\ held' = [u \in Active |-> IF u \in out THEN <<>> ELSE held[u]]
        /\ available' = available \cup Freed(out)
        /\ assigned' = assigned - Cardinality(Freed(out))
  BY DEF Fronthaul, BackAvailable
<1>4. out \in SUBSET Active
  <2>1. ueVector \in Seq(Active)
    BY <1>2 DEF Shape
  <2>2. \A i \in 1..Len(ueVector) : ueVector[i] \in Active
    BY <2>1, ElementOfSeq
  <2>3. QED
    BY <2>2, <1>3 DEF Elements
<1>5. /\ held' \in [Active -> Seq(Rbgs)]
      /\ \A v \in Active : held'[v] = IF v \in out THEN <<>> ELSE held[v]
      /\ \A v, w \in Active : \A i \in 1..Len(held'[v]), j \in 1..Len(held'[w]) :
           held'[v][i] = held'[w][j] => v = w /\ i = j
      /\ Freed(out) \subseteq HeldRbgs
      /\ UNION {Elements(held'[v]) : v \in Active} = HeldRbgs \ Freed(out)
      /\ Cardinality(HeldRbgs \ Freed(out)) = Cardinality(HeldRbgs) - Cardinality(Freed(out))
  BY <1>2, <1>3, <1>4, TakenBack
<1>6. Active' = Active /\ cell' = cell /\ ue' = ue
  BY <1>1 DEF inputVars, Active
<1>7. HeldRbgs' = HeldRbgs \ Freed(out)
  BY <1>5, <1>6 DEF HeldRbgs, Elements
<1>8. Shape'
  BY <1>1, <1>2, <1>5, <1>6 DEF Shape
<1>9. Exclusive'
  <2>1. \A v \in Active : Elements(held'[v]) \cap remaining' = {}
    BY <1>1, <1>2, <1>5 DEF Exclusive, Elements
  <2>2. QED
    BY <2>1, <1>5, <1>6 DEF Exclusive, Elements
<1>10. BooksAgree'
  <2>1. HeldRbgs \subseteq Rbgs
    BY <1>2, HeldFinite
  <2>2. QED
    BY <2>1, <1>1, <1>2, <1>3, <1>5, <1>7 DEF BooksAgree
<1>11. CreditedForHeld'
  <2>1. SUFFICES ASSUME cell.fronthaul = "None", NEW v \in Active PROVE tbs'[v] = TbSize(v, held[v])'
    BY <1>1, <1>6 DEF CreditedForHeld
  <2>2. held'[v] = held[v] /\ tbs'[v] = tbs[v]
    BY <2>1, <1>1, <1>3, <1>5
  <2>3. tbs[v] = TbSize(v, held[v])
    BY <2>1, <1>2 DEF CreditedForHeld
  <2>4. TbSize(v, held[v])' = TbSize(v, held'[v])
    BY <1>1 DEF TbSize, Mcs, inputVars
  <2>5. QED
    BY <2>2, <2>3, <2>4
<1>12. NoOverAllocation'
  <2>1. \A v \in Active : held'[v] # <<>> =>
          ~(TbSize(v, SubSeq(held'[v], 1, Len(held'[v]) - 1)) >= Need(v))
    BY <1>2, <1>5 DEF NoOverAllocation
  <2>2. \A v \in Active : /\ TbSize(v, SubSeq(held[v], 1, Len(held[v]) - 1))'
                              = TbSize(v, SubSeq(held'[v], 1, Len(held'[v]) - 1))
                          /\ Need(v)' = Need(v)
    BY <1>1 DEF TbSize, Mcs, Need, inputVars
  <2>3. QED
    BY <2>1, <2>2, <1>6 DEF NoOverAllocation
<1>13. QED
  BY <1>8, <1>9, <1>10, <1>11, <1>12 DEF Inv

\* A list to which an RBG is appended and which is then resized is the same.
LEMMA AppendGivenBack ==
  ASSUME NEW S, NEW s \in Seq(S), NEW r \in S
  PROVE  GivenBack(Append(s, r)) = s
BY DEF GivenBack

\* A failed attempt leaves the books as they were: what is applied is undone.
LEMMA FailureKeepsBooks == ASSUME Inv, AllocateFails PROVE UNCHANGED rbgVars
<1>1. /\ Shape /\ BooksAgree /\ CreditedForHeld
      /\ pc = "advance" /\ remaining' = remaining
  BY DEF Inv, AllocateFails
<1>2. PICK j \in Stops :
        /\ j <= Len(ueVector)
        /\ \/ UNCHANGED <<available, assigned, held, tbs>>
           \/ \E r \in Picked(ueVector[j]) : Undone(ueVector[j], r)
  BY DEF AllocateFails
<1>3. CASE UNCHANGED <<available, assigned, held, tbs>>
  BY <1>1, <1>3 DEF rbgVars
<1>4. CASE \E r \in Picked(ueVector[j]) : Undone(ueVector[j], r)
  <2>1. PICK u : u = ueVector[j]
    OBVIOUS
  <2>2. PICK r \in Picked(u) : Undone(u, r)
    BY <1>4, <2>1
  <2>3. u \in Active
    BY <1>1, <1>2, <2>1, StopsAt
  <2>4. r \in remaining /\ r \in Rbgs
    BY <1>1, <2>2, PickedRemains DEF Shape
  <2>5. held \in [Active -> Seq(Rbgs)] /\ held[u] \in Seq(Rbgs) /\ tbs = [v \in Active |-> tbs[v]]
    BY <1>1, <2>3 DEF Shape
  <2>6. GivenBack(Append(held[u], r)) = held[u]
    BY <2>4, <2>5, AppendGivenBack
  <2>7. held' = held
    BY <2>2, <2>5, <2>6 DEF Undone
  <2>8. available' = available
    BY <1>1, <2>2, <2>4 DEF Undone, PutBack, BooksAgree
  <2>9. assigned' = assigned
    <3>1. assigned \in Nat
      BY <1>1, HeldFinite DEF BooksAgree, Inv
    <3>2. QED
      BY <3>1, <2>2 DEF Undone, Counted
  <2>10. tbs' = tbs
    <3>1. tbs[u] = TbSize(u, held[u])
      BY <1>1, <2>3 DEF CreditedForHeld
    <3>2. UndoneTbs(u, r) = tbs[u]
      BY <3>1, <2>6 DEF UndoneTbs
    <3>3. QED
      BY <2>2, <2>5, <3>2 DEF Undone
  <2>11. QED
    BY <1>1, <2>7, <2>8, <2>9, <2>10 DEF rbgVars
<1>5. QED
  BY <1>2, <1>3, <1>4

\* Every step keeps the invariant.
LEMMA NextInv == ASSUME Inv, [Next]_vars PROVE Inv'
<1>1. Shape /\ ueVector \in Seq(Active) /\ it \in Nat \ {0} /\ Len(ueVector) \in Nat
  BY DEF Inv, Shape
<1>2. CASE UNCHANGED vars \/ Finished
  <2>1. /\ Active' = Active /\ HeldRbgs' = HeldRbgs
        /\ held' = held /\ tbs' = tbs /\ remaining' = remaining /\ pc' = pc /\ it' = it
        /\ available' = available /\ assigned' = assigned /\ cell' = cell /\ ue' = ue
        /\ ueVector' = ueVector /\ UNCHANGED inputVars
    BY <1>2 DEF vars, inputVars, rbgVars, loopVars, Active, HeldRbgs, Finished
  <2>2. Shape' /\ Exclusive' /\ BooksAgree'
    BY <2>1 DEF Inv, Shape, Exclusive, BooksAgree
  <2>3. CreditedForHeld' /\ NoOverAllocation'
    BY <2>1, MetricsFixed DEF Inv, CreditedForHeld, NoOverAllocation
  <2>4. QED
    BY <2>2, <2>3 DEF Inv
<1>3. CASE BeginPass
  BY <1>1, <1>3, SameBooks DEF BeginPass, inputVars, rbgVars, Active
<1>4. CASE AllAllocated
  BY <1>1, <1>4, SameBooks DEF AllAllocated, inputVars, rbgVars, loopVars, Active
<1>5. CASE AdvanceToEnd
  BY <1>1, <1>5, SameBooks DEF AdvanceToEnd, inputVars, rbgVars, Active
<1>6. CASE AdvancePastEnd
  BY <1>1, <1>6, SameBooks DEF AdvancePastEnd, inputVars, rbgVars, loopVars, Active
<1>7. CASE Discard
  <2>1. it' \in Nat \ {0}
    BY <1>1, <1>7, StopsAt DEF Discard
  <2>2. QED
    BY <2>1, <1>1, <1>7, SameBooks DEF Discard, inputVars, rbgVars, Active
<1>8. CASE Allocate
  BY <1>8, AllocateInv
<1>9. CASE AllocateFails
  <2>1. PICK j \in Stops : it' = j + 1
    BY <1>9 DEF AllocateFails
  <2>2. it' \in Nat \ {0}
    BY <2>1, <1>1, StopsAt
  <2>3. pc = "advance" /\ pc' \in {"advance", "passEnd"} /\ ueVector' = ueVector
    BY <1>9 DEF AllocateFails
  <2>4. UNCHANGED <<inputVars, rbgVars>>
    BY <1>9, FailureKeepsBooks DEF AllocateFails
  <2>5. Active' = Active
    BY <2>4 DEF inputVars, Active
  <2>6. QED
    BY <2>2, <2>3, <2>4, <2>5, <1>1, SameBooks
<1>10. CASE EndPass
  BY <1>1, <1>10, SameBooks DEF EndPass, inputVars, rbgVars, loopVars, Active
<1>11. CASE Reap
  BY <1>11, ReapInv
<1>12. CASE ReapDone
  <2>1. PICK order \in ByBytes(Elements(ueVector)) : ueVector' = order
    BY <1>12 DEF ReapDone
  <2>2. ueVector' \in Seq(Active)
    BY <2>1, <1>1, SortedRound
  <2>3. QED
    BY <2>2, <1>1, <1>12, SameBooks DEF ReapDone, inputVars, rbgVars, Active
<1>13. CASE Fronthaul
  BY <1>13, FronthaulInv
<1>14. QED
  BY <1>2, <1>3, <1>4, <1>5, <1>6, <1>7, <1>8, <1>9, <1>10, <1>11, <1>12, <1>13 DEF Next

\* The invariant holds for ever.
LEMMA InvAlways == Spec => []Inv
BY InitInv, NextInv, PTL DEF Spec

-----------------------------------------------------------------------------
(* The theorems.                                                           *)

\* No RBG is held twice, and none that is held is still to be handed out,
\* through allocation, reaping, re-allocation and the fronthaul.
THEOREM NeverSharedTwice == Spec => []Exclusive
<1>1. Inv => Exclusive
  BY DEF Inv
<1>2. QED
  BY <1>1, InvAlways, PTL

\* availableRbgs, assignedResources and the m_dlRBG of the UEs always agree; in
\* particular the unsigned assignedResources never goes below zero.
THEOREM BooksAlwaysAgree == Spec => []BooksAgree
<1>1. Inv => BooksAgree
  BY DEF Inv
<1>2. QED
  BY <1>1, InvAlways, PTL

\* Until the fronthaul interferes, m_dlTbSize is that of the RBGs held.
THEOREM AlwaysCredited == Spec => []CreditedForHeld
<1>1. Inv => CreditedForHeld
  BY DEF Inv
<1>2. QED
  BY <1>1, InvAlways, PTL

\* No UE ever holds an RBG it did not need.
THEOREM NeverTooMuch == Spec => []NoOverAllocation
<1>1. Inv => NoOverAllocation
  BY DEF Inv
<1>2. QED
  BY <1>1, InvAlways, PTL

-----------------------------------------------------------------------------
(* With wideband CQI nobody leaves with less than the minimum.             *)

\* Why reaping ends only when everybody has the minimum: with wideband CQI no
\* attempt fails, so reapingResources is still set when the last UE is looked at.
Reaped ==
  /\ \A u \in Active : u \notin Elements(ueVector) => held[u] = <<>>
  /\ ~cell.subband =>
       /\ pc \in {"pass", "advance", "passEnd", "reap"} => reaping
       /\ pc = "advance" => remaining # {}
       /\ pc \in {"fronthaul", "done"} => \A u \in Active : held[u] # <<>> => tbs[u] >= MinTbs

\* A finite set of RBGs that is not empty has a lowest one.
LEMMA LowestExists ==
  ASSUME NEW S \in SUBSET Nat, IsFiniteSet(S), S # {}
  PROVE  Lowest(S) # {}
BY LeastOfFinite DEF Lowest

\* The wideband transport block grows with the RBGs held.
LEMMA WidebandSizes ==
  ASSUME Inv, ~cell.subband, NEW u \in Active, NEW r \in Rbgs
  PROVE  /\ TbSize(u, held[u]) \in Nat
         /\ ~(100 * TbSize(u, Append(held[u], r)) < 99 * TbSize(u, held[u]))
<1>1. PICK n : n = Append(held[u], r)
  OBVIOUS
<1>2. held[u] \in Seq(Rbgs)
  BY DEF Inv, Shape
<1>3. Len(n) = Len(held[u]) + 1 /\ Len(held[u]) \in Nat /\ n # <<>>
  BY <1>1, <1>2
<1>4. PICK t \in Nat : t = TbPerRbg[ue[u].mcs]
  BY DEF Inv, Shape
<1>5. Mcs(u, held[u]) = ue[u].mcs /\ Mcs(u, n) = ue[u].mcs
  BY DEF Mcs
<1>6. TbSize(u, n) = t * (Len(held[u]) + 1)
  BY <1>3, <1>4, <1>5 DEF TbSize
<1>7. CASE held[u] = <<>>
  <2>1. TbSize(u, held[u]) = 0 /\ Len(held[u]) = 0
    BY <1>7 DEF TbSize
  <2>2. TbSize(u, n) = t
    BY <2>1, <1>4, <1>6
  <2>3. QED
    BY <2>1, <2>2, <1>1, <1>4
<1>8. CASE held[u] # <<>>
  <2>1. TbSize(u, held[u]) = t * Len(held[u])
    BY <1>4, <1>5, <1>8 DEF TbSize
  <2>2. PICK p \in Nat : p = t * Len(held[u])
    BY <1>3, <1>4
  <2>3. t * (Len(held[u]) + 1) = p + t
    <3>1. \A a, b \in Nat : a * (b + 1) = a * b + a
      OBVIOUS
    <3>2. QED
      BY <3>1, <2>2, <1>3, <1>4
  <2>4. ~(100 * (p + t) < 99 * p)
    BY <2>2, <1>4
  <2>5. QED
    BY <2>1, <2>2, <2>3, <2>4, <1>1, <1>6
<1>9. QED
  BY <1>7, <1>8

\* At the beginning every UE is in the round.
LEMMA InitReaped == Init => Reaped
BY DEF Init, Reaped

\* No attempt fails.
LEMMA NoFailure == ASSUME Inv, Reaped, ~cell.subband PROVE ~AllocateFails
<1>1. SUFFICES ASSUME AllocateFails PROVE FALSE
  OBVIOUS
<1>2. pc = "advance"
  BY <1>1 DEF AllocateFails
<1>3. PICK j \in Stops :
        /\ j <= Len(ueVector)
        /\ Picked(ueVector[j]) = {} \/ \E r \in Picked(ueVector[j]) : Worsens(ueVector[j], r)
  BY <1>1 DEF AllocateFails
<1>4. PICK u : u = ueVector[j]
  OBVIOUS
<1>5. u \in Active
  BY <1>3, <1>4, StopsAt DEF Inv
<1>6. remaining # {} /\ remaining \in SUBSET Nat /\ IsFiniteSet(remaining) /\ remaining \subseteq Rbgs
  BY <1>2, FS_Subset DEF Reaped, Inv, Shape
<1>7. Picked(u) # {}
  BY <1>6, LowestExists DEF Picked
<1>8. PICK r \in Picked(u) : Worsens(u, r)
  BY <1>3, <1>4, <1>7
<1>9. r \in Rbgs
  BY <1>6, PickedRemains
<1>10. tbs[u] = TbSize(u, held[u])
  BY <1>2, <1>5 DEF Inv, CreditedForHeld
<1>11. QED
  BY <1>5, <1>8, <1>9, <1>10, WidebandSizes DEF Worsens

\* Taking RBGs back from some, or nothing, leaves those outside the round empty.
LEMMA OutsideEmpty ==
  ASSUME Inv, Reaped, Active' = Active, Elements(ueVector)' = Elements(ueVector),
         \A u \in Active : held'[u] = held[u] \/ held'[u] = <<>>
  PROVE  \A u \in Active' : u \notin Elements(ueVector)' => held'[u] = <<>>
BY DEF Reaped

\* Every step keeps it.
LEMMA NextReaped == ASSUME Inv, Reaped, [Next]_vars PROVE Reaped'
<1>1. Active' = Active /\ cell' = cell
  BY DEF Next, vars, inputVars, Active, Finished, BeginPass, AllAllocated, AdvanceToEnd, AdvancePastEnd,
         Discard, Allocate, AllocateFails, EndPass, Reap, ReapDone, Fronthaul
<1>2. CASE UNCHANGED vars \/ Finished
  BY <1>2 DEF vars, inputVars, rbgVars, loopVars, Reaped, Active, Elements, Finished
<1>3. CASE BeginPass
  BY <1>3, <1>1 DEF BeginPass, inputVars, rbgVars, Reaped, Active, Elements
<1>4. CASE AllAllocated
  BY <1>4, <1>1 DEF AllAllocated, inputVars, rbgVars, loopVars, Reaped, Active, Elements
<1>5. CASE AdvanceToEnd
  BY <1>5, <1>1 DEF AdvanceToEnd, inputVars, rbgVars, Reaped, Active, Elements
<1>6. CASE AdvancePastEnd
  BY <1>6, <1>1 DEF AdvancePastEnd, inputVars, rbgVars, loopVars, Reaped, Active, Elements
<1>7. CASE Discard
  BY <1>7, <1>1 DEF Discard, inputVars, rbgVars, Reaped, Active, Elements
<1>8. CASE Allocate
  <2>1. PICK j \in Stops :
          /\ j <= Len(ueVector)
          /\ \E r \in Picked(ueVector[j]) :
               held' = [held EXCEPT ![ueVector[j]] = Append(@, r)]
    BY <1>8 DEF Allocate
  <2>2. ueVector[j] \in Elements(ueVector)
    <3>1. Len(ueVector) \in Nat /\ j \in Nat \ {0}
      BY StopsAt DEF Inv, Shape
    <3>2. j \in 1..Len(ueVector)
      BY <3>1, <2>1
    <3>3. QED
      BY <3>2 DEF Elements
  <2>3. \A v \in Active : v # ueVector[j] => held'[v] = held[v]
    BY <2>1 DEF Inv, Shape
  <2>4. /\ ueVector' = ueVector /\ Elements(ueVector)' = Elements(ueVector) /\ reaping' = reaping
        /\ pc = "advance" /\ pc' = "passEnd"
    BY <1>8 DEF Allocate, Elements
  <2>5. \A v \in Active' : v \notin Elements(ueVector)' => held'[v] = <<>>
    BY <1>1, <2>2, <2>3, <2>4 DEF Reaped
  <2>6. QED
    BY <1>1, <2>4, <2>5 DEF Reaped
<1>9. CASE AllocateFails
  <2>1. cell.subband
    BY <1>9, NoFailure
  <2>2. held' = held /\ Elements(ueVector)' = Elements(ueVector)
    BY <1>9, FailureKeepsBooks DEF AllocateFails, rbgVars, Elements
  <2>3. QED
    BY <1>1, <2>1, <2>2 DEF Reaped
<1>10. CASE EndPass
  BY <1>10, <1>1 DEF EndPass, inputVars, rbgVars, loopVars, Reaped, Active, Elements
<1>11. CASE Reap
  <2>1. PICK order \in ByBytes(Elements(ueVector)) :
          /\ order # <<>>
          /\ held' = [held EXCEPT ![order[Len(order)]] = <<>>]
          /\ ueVector' = SubSeq(order, 1, Len(order) - 1)
    BY <1>11 DEF Reap
  <2>2. order \in Seq(Active) /\ Len(order) \in Nat \ {0} /\ Elements(order) = Elements(ueVector)
    BY <2>1, SortedRound DEF Inv
  <2>3. \A i \in 1..(Len(order) - 1) : order[i] \in Elements(ueVector)'
    <3>1. /\ Len(ueVector') = Len(order) - 1
          /\ \A i \in 1..(Len(order) - 1) : ueVector'[i] = order[i]
      <4>1. PICK n \in Nat : n = Len(order) - 1
        BY <2>2
      <4>2. PICK s : s = SubSeq(order, 1, n)
        OBVIOUS
      <4>3. Len(s) = n /\ \A i \in 1..n : s[i] = order[i]
        BY <4>1, <4>2, <2>2
      <4>4. QED
        BY <4>1, <4>2, <4>3, <2>1
    <3>2. Elements(ueVector)' = {ueVector'[i] : i \in 1..Len(ueVector')}
      BY DEF Elements
    <3>3. QED
      BY <3>1, <3>2
  <2>4. ASSUME NEW v \in Active, v \notin Elements(ueVector)' PROVE held'[v] = <<>>
    <3>1. CASE v = order[Len(order)]
      BY <3>1, <2>1, <2>4 DEF Inv, Shape
    <3>2. CASE v # order[Len(order)]
      <4>1. \A i \in 1..Len(order) : i = Len(order) \/ i \in 1..(Len(order) - 1)
        BY <2>2
      <4>2. v \notin Elements(order)
        BY <4>1, <3>2, <2>3, <2>4 DEF Elements
      <4>3. held[v] = <<>>
        BY <4>2, <2>2, <2>4 DEF Reaped
      <4>4. QED
        BY <4>3, <3>2, <2>1, <2>4 DEF Inv, Shape
    <3>3. QED
      BY <3>1, <3>2
  <2>5. pc = "reap" /\ reaping' = reaping /\ pc' = IF reaping THEN "pass" ELSE "fronthaul"
    BY <1>11 DEF Reap
  <2>6. ~cell.subband => pc' = "pass" /\ reaping'
    BY <2>5 DEF Reaped
  <2>7. QED
    BY <1>1, <2>4, <2>6 DEF Reaped
<1>12. CASE ReapDone
  <2>1. PICK order \in ByBytes(Elements(ueVector)) :
          /\ order # <<>> => tbs[order[Len(order)]] >= MinTbs
          /\ ueVector' = order
    BY <1>12 DEF ReapDone, ReapBelow
  <2>2. /\ order \in Seq(Active) /\ Len(order) \in Nat /\ Elements(order) = Elements(ueVector)
        /\ \A i, j \in 1..Len(order) : i < j => tbs[order[i]] >= tbs[order[j]]
    BY <2>1, SortedRound DEF Inv
  <2>3. /\ held' = held /\ tbs' = tbs /\ pc = "reap" /\ pc' = "fronthaul"
        /\ Elements(ueVector)' = Elements(ueVector)
    BY <1>12, <2>1, <2>2 DEF ReapDone, rbgVars, Elements
  <2>4. ASSUME ~cell.subband, NEW v \in Active, held[v] # <<>> PROVE tbs[v] >= MinTbs
    <3>1. v \in Elements(order)
      BY <2>2, <2>4 DEF Reaped
    <3>2. PICK i \in 1..Len(order) : v = order[i]
      BY <3>1 DEF Elements
    <3>3. PICK n \in Nat : n = Len(order) /\ n \in 1..Len(order) /\ order # <<>>
      BY <2>2, <3>2
    <3>4. order[n] \in Active
      BY <2>2, <3>3, ElementOfSeq
    <3>5. PICK r : r \in Rbgs
      <4>1. held[v] \in Seq(Rbgs)
        BY <2>4 DEF Inv, Shape
      <4>2. 1 \in 1..Len(held[v])
        BY <4>1, <2>4
      <4>3. held[v][1] \in Rbgs
        BY <4>1, <4>2, ElementOfSeq
      <4>4. QED
        BY <4>3
    <3>6. tbs[v] \in Nat /\ tbs[order[n]] \in Nat
      <4>1. tbs[v] = TbSize(v, held[v]) /\ tbs[order[n]] = TbSize(order[n], held[order[n]])
        BY <2>3, <2>4, <3>4 DEF Inv, CreditedForHeld
      <4>2. TbSize(v, held[v]) \in Nat
        BY <2>4, <3>5, WidebandSizes
      <4>3. TbSize(order[n], held[order[n]]) \in Nat
        BY <2>4, <3>4, <3>5, WidebandSizes
      <4>4. QED
        BY <4>1, <4>2, <4>3
    <3>7. tbs[order[n]] >= MinTbs
      BY <2>1, <3>3
    <3>8. i = n \/ i < n
      BY <3>2, <3>3
    <3>9. CASE i = n
      BY <3>2, <3>7, <3>9
    <3>10. CASE i < n
      <4>1. tbs[v] >= tbs[order[n]]
        BY <2>2, <3>2, <3>3, <3>10
      <4>2. QED
        BY <4>1, <3>6, <3>7 DEF MinTbs
    <3>11. QED
      BY <3>8, <3>9, <3>10
  <2>5. \A v \in Active' : v \notin Elements(ueVector)' => held'[v] = <<>>
    BY <1>1, <2>3 DEF Reaped
  <2>6. ~cell.subband => \A v \in Active' : held'[v] # <<>> => tbs'[v] >= MinTbs
    BY <1>1, <2>3, <2>4
  <2>7. QED
    BY <1>1, <2>3, <2>5, <2>6 DEF Reaped
<1>13. CASE Fronthaul
  <2>1. /\ \A v \in Active : held'[v] = held[v] \/ held'[v] = <<>>
        /\ tbs' = tbs /\ pc = "fronthaul" /\ pc' = "done" /\ ueVector' = ueVector
    BY <1>13 DEF Fronthaul, loopVars
  <2>2. Elements(ueVector)' = Elements(ueVector)
    BY <2>1 DEF Elements
  <2>3. \A v \in Active' : v \notin Elements(ueVector)' => held'[v] = <<>>
    BY <1>1, <2>1, <2>2, OutsideEmpty
  <2>4. ~cell.subband => \A v \in Active' : held'[v] # <<>> => tbs'[v] >= MinTbs
    BY <1>1, <2>1 DEF Reaped
  <2>5. QED
    BY <1>1, <2>1, <2>3, <2>4 DEF Reaped
<1>14. QED
  BY <1>2, <1>3, <1>4, <1>5, <1>6, <1>7, <1>8, <1>9, <1>10, <1>11, <1>12, <1>13 DEF Next

\* With wideband CQI a UE leaves the slot with no RBG or with the minimum.
THEOREM AtLeastTheMinimum == Spec => []MinimalTbs
<1>1. Init => Inv /\ Reaped
  BY InitInv, InitReaped
<1>2. Inv /\ Reaped /\ [Next]_vars => (Inv /\ Reaped)'
  BY NextInv, NextReaped
<1>3. Reaped => MinimalTbs
  BY DEF Reaped, MinimalTbs
<1>4. QED
  BY <1>1, <1>2, <1>3, PTL DEF Spec

-----------------------------------------------------------------------------
(* How many RBGs pass the drift-plus-penalty test by mistake.              *)

\* The last RBG the UEs reaped so far allow has been leaked.
Spent == Cardinality(Leaked) = 1 + Cardinality(Active) - Len(ueVector)

\* The iterator has left the UEs that pass the test.
Behind == it <= Len(ueVector) => ~Eligible(ueVector[it])

\* Once an RBG is leaked the iterator stays at UEs that fail the test until
\* nothing is handed out any more and the next UE is reaped.
LeakInv ==
  /\ LeakBounded
  /\ pc = "advance" => prev = Cardinality(remaining)
  /\ Spent =>
       /\ pc = "pass" => Behind
       /\ pc = "advance" => (it <= Len(ueVector) => ~lyapunov)
       /\ pc = "passEnd" => Behind \/ prev = Cardinality(remaining)

\* The numbers LeakInv compares.
LEMMA LeakNumbers ==
  ASSUME Shape
  PROVE  /\ Leaked \subseteq HeldRbgs /\ IsFiniteSet(Leaked) /\ Cardinality(Leaked) \in Nat
         /\ Cardinality(Active) \in Nat /\ Len(ueVector) \in Nat
<1>1. Leaked \subseteq HeldRbgs
  BY DEF Leaked, HeldRbgs
<1>2. IsFiniteSet(Leaked) /\ Cardinality(Leaked) \in Nat
  BY <1>1, HeldFinite, FS_Subset, FS_CardinalityType
<1>3. Cardinality(Active) \in Nat
  BY ActiveFinite, FS_CardinalityType
<1>4. Len(ueVector) \in Nat
  BY DEF Shape
<1>5. QED
  BY <1>1, <1>2, <1>3, <1>4

\* A sequence has no more elements than positions.
LEMMA ElementsFewer ==
  ASSUME NEW S, NEW s \in Seq(S)
  PROVE  Cardinality(Elements(s)) <= Len(s)
<1>1. PICK n \in Nat : n = Len(s)
  OBVIOUS
<1>2. IsFiniteSet(1..n) /\ Cardinality(1..n) = n
  BY FS_Interval
<1> DEFINE f == [i \in 1..n |-> s[i]]
<1>3. f \in Surjection(1..n, Elements(s))
  BY <1>1 DEF Elements, Surjection
<1> HIDE DEF f
<1>4. Cardinality(Elements(s)) <= Cardinality(1..n)
  BY <1>2, <1>3, FS_Surjection
<1>5. QED
  BY <1>1, <1>2, <1>4

\* The sorted round is no longer than the round before.
LEMMA SortedLength ==
  ASSUME Shape, NEW order \in ByBytes(Elements(ueVector))
  PROVE  Len(order) <= Len(ueVector) /\ Len(order) \in Nat
<1>1. Elements(ueVector) \subseteq Active /\ ueVector \in Seq(Active)
  BY SortedRound DEF Shape
<1>2. IsFiniteSet(Elements(ueVector))
  BY <1>1, ActiveFinite, FS_Subset
<1>3. order \in Orders(Elements(ueVector))
  BY DEF ByBytes
<1>4. Len(order) = Cardinality(Elements(ueVector)) /\ Len(order) \in Nat
  BY <1>2, <1>3, OrderOf
<1>5. QED
  BY <1>1, <1>4, ElementsFewer

\* At the beginning nothing is leaked.
LEMMA InitLeak == Init => LeakInv
<1> SUFFICES ASSUME Init PROVE LeakInv
  OBVIOUS
<1>1. Shape
  BY InitInv DEF Inv
<1>2. Leaked = {}
  BY DEF Init, Leaked, Elements
<1>3. Len(ueVector) = Cardinality(Active)
  BY <1>1, ActiveFinite, OrderOf DEF Init, ByWeight
<1>4. Cardinality(Leaked) = 0
  BY <1>2, FS_EmptySet
<1>5. Cardinality(Active) \in Nat
  BY <1>1, LeakNumbers
<1>6. ~Spent /\ LeakBounded
  BY <1>3, <1>4, <1>5 DEF Spent, LeakBounded
<1>7. QED
  BY <1>6 DEF Init, LeakInv

\* What is leaked depends on the beam and on what is held.
LEMMA SameLeak ==
  ASSUME UNCHANGED inputVars, UNCHANGED held
  PROVE  Leaked' = Leaked /\ Active' = Active
BY DEF Leaked, Active, Eligible, Elements, inputVars

\* Nothing new is leaked when UEs lose what they held.
LEMMA LessLeak ==
  ASSUME Shape, UNCHANGED inputVars, \A u \in Active : held'[u] = held[u] \/ held'[u] = <<>>
  PROVE  /\ Active' = Active
         /\ Cardinality(Leaked') \in Nat /\ Cardinality(Leaked') <= Cardinality(Leaked)
<1>1. Active' = Active /\ \A u : Eligible(u)' = Eligible(u)
  BY DEF Active, Eligible, inputVars
<1>2. \A u \in Active : Elements(held'[u]) \subseteq Elements(held[u])
  BY DEF Elements
<1>3. Leaked' = UNION {Elements(held'[u]) : u \in {w \in Active : ~Eligible(w)}}
  BY <1>1 DEF Leaked, Elements
<1>4. Leaked' \subseteq Leaked
  BY <1>2, <1>3 DEF Leaked
<1>5. QED
  BY <1>1, <1>4, LeakNumbers, FS_Subset, FS_CardinalityType

\* A UE that passes the test leaks nothing; one that does not is where the
\* iterator is afterwards.
LEMMA AllocateLeak == ASSUME Inv, LeakInv, Allocate PROVE LeakInv'
<1>1. /\ UNCHANGED inputVars /\ ueVector' = ueVector /\ pc = "advance" /\ pc' = "passEnd"
      /\ lyapunov
  BY DEF Allocate
<1>2. Shape
  BY DEF Inv
<1>3. PICK j \in Stops :
        /\ j <= Len(ueVector) /\ it' = j
        /\ \E r \in Picked(ueVector[j]) : held' = [held EXCEPT ![ueVector[j]] = Append(@, r)]
  BY DEF Allocate
<1>4. PICK u : u = ueVector[j]
  OBVIOUS
<1>5. u \in Active /\ j \in Nat \ {0}
  BY <1>2, <1>3, <1>4, StopsAt
<1>6. PICK r \in Picked(u) : held' = [held EXCEPT ![u] = Append(@, r)]
  BY <1>3, <1>4
<1>7. r \in Rbgs
  BY <1>2, PickedRemains DEF Shape
<1>8. held[u] \in Seq(Rbgs)
  BY <1>2, <1>5 DEF Shape
<1>9. PICK n : n = Append(held[u], r)
  OBVIOUS
<1>10. Elements(n) = Elements(held[u]) \cup {r}
  BY <1>7, <1>8, <1>9, ElementsAppend
<1>11. \A v \in Active : held'[v] = IF v = u THEN n ELSE held[v]
  BY <1>2, <1>5, <1>6, <1>9 DEF Shape
<1>12. Active' = Active /\ \A v : Eligible(v)' = Eligible(v)
  BY <1>1 DEF Active, Eligible, inputVars
<1>13. Leaked' = UNION {Elements(held'[v]) : v \in {w \in Active : ~Eligible(w)}}
  BY <1>12 DEF Leaked, Elements
<1>14. \A v \in Active : Elements(held'[v]) = IF v = u THEN Elements(held[u]) \cup {r} ELSE Elements(held[v])
  BY <1>10, <1>11
<1>15. /\ Cardinality(Leaked) \in Nat /\ IsFiniteSet(Leaked)
       /\ Cardinality(Active) \in Nat /\ Len(ueVector) \in Nat
  BY <1>2, LeakNumbers
<1>16. ~Spent
  <2>1. it <= Len(ueVector)
    BY <1>2, <1>3, <1>5, <1>15 DEF Stops, Shape
  <2>2. QED
    BY <2>1, <1>1 DEF LeakInv
<1>17. Cardinality(Leaked) <= Cardinality(Active) - Len(ueVector)
  BY <1>15, <1>16 DEF LeakInv, LeakBounded, Spent
<1>18. CASE Eligible(u)
  <2>1. Leaked' = Leaked
    BY <1>13, <1>14, <1>18 DEF Leaked
  <2>2. Cardinality(Leaked') <= Cardinality(Active) - Len(ueVector)
    BY <2>1, <1>17
  <2>3. LeakBounded' /\ ~Spent'
    BY <2>1, <2>2, <1>1, <1>12, <1>15 DEF LeakBounded, Spent
  <2>4. QED
    BY <2>3, <1>1 DEF LeakInv
<1>19. CASE ~Eligible(u)
  <2>1. Leaked' \subseteq Leaked \cup {r}
    BY <1>13, <1>14 DEF Leaked
  <2>2. IsFiniteSet(Leaked \cup {r}) /\ Cardinality(Leaked \cup {r}) <= Cardinality(Leaked) + 1
    <3>1. /\ IsFiniteSet(Leaked \cup {r})
          /\ Cardinality(Leaked \cup {r}) =
               IF r \in Leaked THEN Cardinality(Leaked) ELSE Cardinality(Leaked) + 1
      <4>1. IsFiniteSet(Leaked)
        BY <1>15
      <4>2. QED
        BY <4>1, FS_AddElement
    <3>2. QED
      BY <3>1, <1>15
  <2>3. /\ Cardinality(Leaked') <= Cardinality(Leaked \cup {r}) /\ Cardinality(Leaked') \in Nat
        /\ Cardinality(Leaked \cup {r}) \in Nat
    BY <2>1, <2>2, FS_Subset, FS_CardinalityType
  <2>4. Cardinality(Leaked') <= 1 + Cardinality(Active) - Len(ueVector)
    BY <2>2, <2>3, <1>15, <1>17
  <2>5. LeakBounded'
    BY <2>4, <1>1, <1>12 DEF LeakBounded
  <2>6. Behind'
    BY <1>1, <1>3, <1>4, <1>12, <1>19 DEF Behind
  <2>7. QED
    BY <2>5, <2>6, <1>1 DEF LeakInv
<1>20. QED
  BY <1>18, <1>19

\* Every step keeps it.
LEMMA NextLeak == ASSUME Inv, LeakInv, [Next]_vars PROVE LeakInv'
<1>1. /\ Cardinality(Leaked) \in Nat /\ Cardinality(Active) \in Nat /\ Len(ueVector) \in Nat
      /\ Shape
  BY LeakNumbers DEF Inv
<1>2. CASE UNCHANGED vars \/ Finished
  <2>1. UNCHANGED vars /\ UNCHANGED inputVars /\ held' = held
    BY <1>2 DEF vars, rbgVars, Finished
  <2>2. Leaked' = Leaked /\ Active' = Active
    BY <2>1, SameLeak
  <2>3. \A u : Eligible(u)' = Eligible(u)
    BY <2>1 DEF Eligible, inputVars
  <2>4. QED
    BY <2>1, <2>2, <2>3 DEF LeakInv, LeakBounded, Spent, Behind, vars, loopVars, rbgVars
<1>3. ASSUME UNCHANGED inputVars, held' = held, ueVector' = ueVector
      PROVE  Spent' = Spent /\ LeakBounded' /\ Behind' = (it' <= Len(ueVector) => ~Eligible(ueVector[it']))
  <2>1. Leaked' = Leaked /\ Active' = Active
    BY <1>3, SameLeak
  <2>2. \A u : Eligible(u)' = Eligible(u)
    BY <1>3 DEF Eligible, inputVars
  <2>3. QED
    BY <1>3, <2>1, <2>2 DEF LeakInv, LeakBounded, Spent, Behind
<1>4. CASE BeginPass
  <2>1. /\ UNCHANGED inputVars /\ held' = held /\ ueVector' = ueVector /\ it' = it
        /\ remaining' = remaining /\ prev' = Cardinality(remaining)
        /\ pc = "pass" /\ pc' = "advance" /\ lyapunov' \in ReadLyapunov(it)
    BY <1>4 DEF BeginPass, rbgVars
  <2>2. Spent => (it <= Len(ueVector) => ~lyapunov')
    BY <2>1 DEF LeakInv, Behind, ReadLyapunov
  <2>3. QED
    BY <2>1, <2>2, <1>3 DEF LeakInv
<1>5. CASE AllAllocated
  BY <1>5, <1>3 DEF AllAllocated, loopVars, rbgVars, LeakInv
<1>6. CASE AdvanceToEnd
  <2>1. /\ UNCHANGED inputVars /\ held' = held /\ ueVector' = ueVector /\ remaining' = remaining
        /\ prev' = prev /\ pc = "advance" /\ pc' = "passEnd"
    BY <1>6 DEF AdvanceToEnd, rbgVars
  <2>2. QED
    BY <2>1, <1>3 DEF LeakInv
<1>7. CASE AdvancePastEnd
  BY <1>7, <1>3 DEF AdvancePastEnd, loopVars, rbgVars, LeakInv
<1>8. CASE Discard
  <2>1. /\ UNCHANGED inputVars /\ held' = held /\ ueVector' = ueVector /\ remaining' = remaining
        /\ prev' = prev /\ pc = "advance" /\ pc' = "passEnd"
    BY <1>8 DEF Discard, rbgVars
  <2>2. QED
    BY <2>1, <1>3 DEF LeakInv
<1>9. CASE Allocate
  BY <1>9, AllocateLeak
<1>10. CASE AllocateFails
  <2>1. /\ UNCHANGED inputVars /\ held' = held /\ ueVector' = ueVector /\ remaining' = remaining
        /\ prev' = prev /\ pc = "advance" /\ lyapunov
    BY <1>10, FailureKeepsBooks DEF AllocateFails, rbgVars
  <2>2. PICK j \in Stops : j <= Len(ueVector)
    BY <1>10 DEF AllocateFails
  <2>3. it <= Len(ueVector)
    BY <2>2, <1>1 DEF Stops, Shape
  <2>4. ~Spent
    BY <2>1, <2>3 DEF LeakInv
  <2>5. QED
    BY <2>1, <2>4, <1>3 DEF LeakInv
<1>11. CASE EndPass
  <2>1. /\ UNCHANGED inputVars /\ held' = held /\ ueVector' = ueVector /\ it' = it
        /\ pc = "passEnd" /\ pc' = IF Progress THEN "pass" ELSE "reap"
    BY <1>11 DEF EndPass, loopVars, rbgVars
  <2>2. pc' = "pass" => prev # Cardinality(remaining)
    BY <2>1 DEF Progress
  <2>3. pc' = "pass" => (Spent => (it <= Len(ueVector) => ~Eligible(ueVector[it])))
    BY <2>1, <2>2 DEF LeakInv, Behind
  <2>4. pc' \in {"pass", "reap"}
    BY <2>1
  <2>5. Spent' = Spent /\ LeakBounded' /\ Behind' = (it <= Len(ueVector) => ~Eligible(ueVector[it]))
    BY <2>1, <1>3
  <2>6. QED
    BY <2>3, <2>4, <2>5 DEF LeakInv
<1>12. CASE Reap
  <2>1. PICK order \in ByBytes(Elements(ueVector)) :
          /\ order # <<>>
          /\ held' = [held EXCEPT ![order[Len(order)]] = <<>>]
          /\ ueVector' = SubSeq(order, 1, Len(order) - 1)
    BY <1>12 DEF Reap
  <2>2. UNCHANGED inputVars /\ pc' \in {"pass", "fronthaul"}
    BY <1>12 DEF Reap
  <2>3. Len(order) <= Len(ueVector) /\ Len(order) \in Nat /\ order \in Seq(Active)
    BY <2>1, <1>1, SortedLength, SortedRound
  <2>4. Len(ueVector') <= Len(ueVector) - 1 /\ Len(ueVector') \in Nat
    BY <2>1, <2>3, <1>1
  <2>5. \A u \in Active : held'[u] = held[u] \/ held'[u] = <<>>
    BY <2>1, <1>1 DEF Shape
  <2>6. /\ Active' = Active
        /\ Cardinality(Leaked') \in Nat /\ Cardinality(Leaked') <= Cardinality(Leaked)
    BY <2>2, <2>5, <1>1, LessLeak
  <2>7. Cardinality(Leaked') <= Cardinality(Active) - Len(ueVector')
    BY <2>4, <2>6, <1>1 DEF LeakInv, LeakBounded
  <2>8. ~Spent' /\ LeakBounded'
    BY <2>4, <2>6, <2>7, <1>1 DEF LeakBounded, Spent
  <2>9. QED
    BY <2>2, <2>8 DEF LeakInv
<1>13. CASE ReapDone
  <2>1. PICK order \in ByBytes(Elements(ueVector)) : ueVector' = order
    BY <1>13 DEF ReapDone
  <2>2. UNCHANGED inputVars /\ held' = held /\ pc' = "fronthaul"
    BY <1>13 DEF ReapDone, rbgVars
  <2>3. Len(ueVector') <= Len(ueVector) /\ Len(ueVector') \in Nat
    BY <2>1, <1>1, SortedLength
  <2>4. Leaked' = Leaked /\ Active' = Active
    BY <2>2, SameLeak
  <2>5. LeakBounded'
    BY <2>3, <2>4, <1>1 DEF LeakInv, LeakBounded
  <2>6. QED
    BY <2>2, <2>5 DEF LeakInv
<1>14. CASE Fronthaul
  <2>1. /\ UNCHANGED inputVars /\ pc' = "done" /\ ueVector' = ueVector
        /\ \A u \in Active : held'[u] = held[u] \/ held'[u] = <<>>
    BY <1>14 DEF Fronthaul, loopVars
  <2>2. /\ Active' = Active
        /\ Cardinality(Leaked') \in Nat /\ Cardinality(Leaked') <= Cardinality(Leaked)
    BY <2>1, <1>1, LessLeak
  <2>3. LeakBounded'
    BY <2>1, <2>2, <1>1 DEF LeakInv, LeakBounded
  <2>4. QED
    BY <2>1, <2>3 DEF LeakInv
<1>15. QED
  BY <1>2, <1>4, <1>5, <1>6, <1>7, <1>8, <1>9, <1>10, <1>11, <1>12, <1>13, <1>14 DEF Next

\* UEs that fail the drift-plus-penalty test never hold more than one RBG and
\* one more for every UE reaped.
THEOREM LeakStaysBounded == Spec => []LeakBounded
<1>1. Init => Inv /\ LeakInv
  BY InitInv, InitLeak
<1>2. Inv /\ LeakInv /\ [Next]_vars => (Inv /\ LeakInv)'
  BY NextInv, NextLeak
<1>3. LeakInv => LeakBounded
  BY DEF LeakInv
<1>4. QED
  BY <1>1, <1>2, <1>3, PTL DEF Spec

-----------------------------------------------------------------------------
(* Who is served before whom.                                              *)

\* The cells the property says nothing of.
Limited == cell.subband \/ cell.fronthaul # "None"

\* A UE that could receive resources and has not enough of them.
Lacks(v) == Eligible(v) /\ ~Satisfied(v)

\* The priority at every instant.
Served ==
  \A u, v \in Active : (held[u] # <<>> /\ ue[v].k < ue[u].k) => ~Lacks(v)

\* While RBGs are left, those that may still get one come before all that lack
\* bytes, the UEs reaped included.
NoneWorse ==
  remaining # {} =>
    \A v \in Active : \A i \in 1..Len(ueVector) :
      (Lacks(v) /\ ~Satisfied(ueVector[i])) => ue[ueVector[i]].k <= ue[v].k

\* Until the first UE is reaped the vector is sorted by weight and the iterator
\* leaves nobody behind.
FirstRound ==
  /\ Elements(ueVector) = Active
  /\ \A i, j \in 1..Len(ueVector) : i < j => ue[ueVector[i]].k <= ue[ueVector[j]].k
  /\ \A i \in 1..Len(ueVector) : i < it => Satisfied(ueVector[i])
  /\ (pc = "advance" /\ it <= Len(ueVector) /\ ~lyapunov) => ~Eligible(ueVector[it])
  /\ (pc = "passEnd" /\ prev = Cardinality(remaining)) => NoneWorse
  /\ pc # "reap"

PriorityInv ==
  Limited \/
    /\ Served
    /\ pc \in {"pass", "advance", "passEnd", "reap"} => FirstRound \/ NoneWorse
    /\ pc = "advance" => prev = Cardinality(remaining)

\* Weights are numbers.
LEMMA Weights ==
  ASSUME Shape
  PROVE  /\ V \in Int /\ \A u \in Active : ue[u].k \in Int
         /\ Len(ueVector) \in Nat /\ \A i \in 1..Len(ueVector) : ueVector[i] \in Active
<1>1. \A u \in Active : ue[u].k \in Int
  BY DEF Shape, Input
<1>2. ueVector \in Seq(Active)
  BY DEF Shape
<1>3. \A i \in 1..Len(ueVector) : ueVector[i] \in Active
  BY <1>2, ElementOfSeq
<1>4. QED
  BY <1>1, <1>2, <1>3

\* At the beginning the UEs are in order and hold nothing.
LEMMA InitPriority == Init => PriorityInv
<1> SUFFICES ASSUME Init PROVE PriorityInv
  OBVIOUS
<1>1. Shape
  BY InitInv DEF Inv
<1>2. /\ ueVector \in Orders(Active)
      /\ \A i, j \in 1..Len(ueVector) : i < j => ~Precedes(ueVector[j], ueVector[i])
  BY DEF Init, ByWeight
<1>3. Elements(ueVector) = Active
  BY <1>1, <1>2, ActiveFinite, OrderOf
<1>4. \A i, j \in 1..Len(ueVector) : i < j => ue[ueVector[i]].k <= ue[ueVector[j]].k
  BY <1>1, <1>2, Weights DEF Precedes
<1>5. it = 1 /\ pc = "pass" /\ \A u \in Active : held[u] = <<>>
  BY DEF Init
<1>6. FirstRound
  BY <1>1, <1>3, <1>4, <1>5, Weights DEF FirstRound
<1>7. QED
  BY <1>5, <1>6 DEF PriorityInv, Served

\* Satisfied, Eligible and what is made of them change with the bytes only.
LEMMA SamePriority ==
  ASSUME UNCHANGED inputVars, UNCHANGED <<held, tbs, remaining, ueVector>>
  PROVE  /\ Active' = Active /\ Limited' = Limited /\ Served' = Served /\ NoneWorse' = NoneWorse
         /\ \A u : Satisfied(u)' = Satisfied(u) /\ Eligible(u)' = Eligible(u)
BY DEF inputVars, Active, Limited, Served, NoneWorse, Lacks, Satisfied, Eligible, Need

\* Without a fronthaul limit only UEs that have enough are skipped.
LEMMA SkippedHasEnough ==
  ASSUME ~Limited, NEW u, Skipped(u)
  PROVE  Satisfied(u)
BY DEF Limited, Skipped

\* The search finds nobody, or somebody who fails the test.
LEMMA SearchPriority ==
  ASSUME Inv, ~Limited, FirstRound \/ NoneWorse, pc = "advance",
         NEW j \in Stops, j = Len(ueVector) + 1 \/ (j <= Len(ueVector) /\ ~lyapunov)
  PROVE  NoneWorse
<1>1. SUFFICES ASSUME FirstRound, NEW v \in Active, Lacks(v) PROVE FALSE
  BY DEF NoneWorse
<1>2. /\ V \in Int /\ \A u \in Active : ue[u].k \in Int
      /\ Len(ueVector) \in Nat /\ \A i \in 1..Len(ueVector) : ueVector[i] \in Active
      /\ it \in Nat \ {0}
  BY Weights DEF Inv, Shape
<1>3. PICK i \in 1..Len(ueVector) : v = ueVector[i]
  BY <1>1 DEF FirstRound, Elements
<1>4. ~Satisfied(ueVector[i]) /\ Eligible(ueVector[i])
  BY <1>1, <1>3 DEF Lacks
<1>5. ~(i < it)
  BY <1>1, <1>4 DEF FirstRound
<1>6. ~(i \in it..(j - 1))
  BY <1>4, SkippedHasEnough DEF Stops
<1>7. j \in it..(Len(ueVector) + 1)
  BY DEF Stops
<1>8. j <= Len(ueVector) /\ ~lyapunov /\ it <= i /\ it <= Len(ueVector)
  BY <1>2, <1>5, <1>6, <1>7
<1>9. ~Eligible(ueVector[it])
  BY <1>1, <1>8 DEF FirstRound
<1>10. it = i \/ ue[ueVector[it]].k <= ue[ueVector[i]].k
  BY <1>1, <1>2, <1>8 DEF FirstRound
<1>11. it \in 1..Len(ueVector)
  BY <1>2, <1>8
<1>12. QED
  BY <1>2, <1>4, <1>9, <1>10, <1>11 DEF Eligible

\* Whoever is served, nobody before him lacks bytes.
LEMMA AllocatePriority == ASSUME Inv, PriorityInv, Allocate PROVE PriorityInv'
<1>1. /\ UNCHANGED inputVars /\ ueVector' = ueVector /\ prev' = prev /\ lyapunov' = lyapunov
      /\ pc = "advance" /\ pc' = "passEnd" /\ lyapunov
  BY DEF Allocate
<1>2. Shape
  BY DEF Inv
<1>3. PICK j \in Stops :
        /\ j <= Len(ueVector) /\ it' = j
        /\ LET u == ueVector[j] IN \E r \in Picked(u) :
             /\ held' = [held EXCEPT ![u] = Append(@, r)]
             /\ tbs' = [tbs EXCEPT ![u] = TbSize(u, Append(held[u], r))]
             /\ remaining' = TakenFrom(r)
  BY DEF Allocate
<1>4. PICK u : u = ueVector[j]
  OBVIOUS
<1>5. u \in Active /\ ~Satisfied(u) /\ j \in Nat \ {0}
  BY <1>2, <1>3, <1>4, StopsAt
<1>6. PICK r \in Picked(u) :
        /\ held' = [held EXCEPT ![u] = Append(@, r)]
        /\ tbs' = [tbs EXCEPT ![u] = TbSize(u, Append(held[u], r))]
        /\ remaining' = remaining \ {r}
  BY <1>3, <1>4 DEF TakenFrom
<1>7. r \in remaining
  BY PickedRemains
<1>8. /\ \A v \in Active : v # u => held'[v] = held[v] /\ tbs'[v] = tbs[v]
      /\ Active' = Active /\ Limited' = Limited /\ ue' = ue
      /\ \A v : Eligible(v)' = Eligible(v) /\ Need(v)' = Need(v)
  BY <1>1, <1>2, <1>6 DEF Shape, inputVars, Active, Limited, Eligible, Need
<1>9. \A v \in Active : Lacks(v)' => Lacks(v)
  BY <1>5, <1>8 DEF Lacks, Satisfied
<1>10. \A v \in Active : ~Satisfied(v)' => ~Satisfied(v)
  BY <1>5, <1>8 DEF Satisfied
<1>11. SUFFICES ASSUME ~Limited PROVE PriorityInv'
  BY <1>8 DEF PriorityInv
<1>12. Served /\ (FirstRound \/ NoneWorse) /\ prev = Cardinality(remaining)
  BY <1>1, <1>11 DEF PriorityInv
<1>13. /\ V \in Int /\ \A v \in Active : ue[v].k \in Int
       /\ Len(ueVector) \in Nat /\ \A i \in 1..Len(ueVector) : ueVector[i] \in Active
       /\ it \in Nat \ {0} /\ j \in 1..Len(ueVector)
  BY <1>2, <1>3, <1>5, Weights DEF Shape
<1>14. ASSUME FirstRound, NEW i \in 1..Len(ueVector), i < j PROVE Satisfied(ueVector[i])
  <2>1. CASE i < it
    BY <2>1, <1>14 DEF FirstRound
  <2>2. CASE ~(i < it)
    <3>1. i \in it..(j - 1)
      BY <2>2, <1>13, <1>14
    <3>2. QED
      BY <3>1, <1>11, SkippedHasEnough DEF Stops
  <2>3. QED
    BY <2>1, <2>2
<1>15. ASSUME NEW v \in Active, Lacks(v), ue[v].k < ue[u].k PROVE FALSE
  <2>1. CASE FirstRound
    <3>1. PICK i \in 1..Len(ueVector) : v = ueVector[i]
      BY <2>1 DEF FirstRound, Elements
    <3>2. i < j
      BY <2>1, <3>1, <1>4, <1>13, <1>15 DEF FirstRound
    <3>3. QED
      BY <2>1, <3>1, <3>2, <1>14, <1>15 DEF Lacks
  <2>2. CASE NoneWorse
    BY <2>2, <1>4, <1>5, <1>7, <1>13, <1>15 DEF NoneWorse
  <2>3. QED
    BY <2>1, <2>2, <1>12
<1>16. Served'
  <2>1. SUFFICES ASSUME NEW w \in Active, NEW v \in Active, held'[w] # <<>>, ue[v].k < ue[w].k, Lacks(v)
        PROVE FALSE
    BY <1>8, <1>9 DEF Served
  <2>2. CASE w = u
    BY <2>1, <2>2, <1>15
  <2>3. CASE w # u
    BY <2>1, <2>3, <1>8, <1>12 DEF Served
  <2>4. QED
    BY <2>2, <2>3
<1>17. CASE NoneWorse
  <2>1. NoneWorse'
    BY <1>1, <1>6, <1>7, <1>8, <1>9, <1>10, <1>13, <1>17 DEF NoneWorse
  <2>2. QED
    BY <2>1, <1>1, <1>16 DEF PriorityInv
<1>18. CASE FirstRound
  <2>1. \A i \in 1..Len(ueVector) : i < it' => Satisfied(ueVector[i])'
    <3>1. SUFFICES ASSUME NEW i \in 1..Len(ueVector), i < j PROVE Satisfied(ueVector[i])'
      BY <1>3
    <3>2. Satisfied(ueVector[i])
      BY <3>1, <1>14, <1>18
    <3>3. ueVector[i] # u /\ ueVector[i] \in Active
      BY <3>2, <1>5, <1>13
    <3>4. QED
      BY <3>2, <3>3, <1>1, <1>8 DEF Satisfied
  <2>2. prev' # Cardinality(remaining')
    <3>1. IsFiniteSet(remaining)
      BY <1>2, FS_Subset DEF Shape
    <3>2. Cardinality(remaining \ {r}) = Cardinality(remaining) - 1 /\ Cardinality(remaining) \in Nat
      BY <3>1, <1>7, FS_RemoveElement, FS_CardinalityType
    <3>3. QED
      BY <3>2, <1>1, <1>6, <1>12
  <2>3. FirstRound'
    BY <2>1, <2>2, <1>1, <1>8, <1>18 DEF FirstRound, Elements
  <2>4. QED
    BY <2>3, <1>1, <1>16 DEF PriorityInv
<1>19. QED
  BY <1>12, <1>17, <1>18

\* An RBG carries something at every MCS.
SomeBytes == \A i \in Inputs : TbPerRbg[i.mcs] > 0

\* With wideband CQI a UE is credited with bytes exactly when it holds RBGs.
LEMMA BytesForRbgs ==
  ASSUME Inv, SomeBytes, ~cell.subband, pc = "reap", NEW u \in Active
  PROVE  tbs[u] \in Nat /\ (tbs[u] > 0 <=> held[u] # <<>>)
<1>1. tbs[u] = TbSize(u, held[u])
  BY DEF Inv, CreditedForHeld
<1>2. held[u] \in Seq(Rbgs)
  BY DEF Inv, Shape
<1>3. CASE held[u] = <<>>
  BY <1>1, <1>3 DEF TbSize
<1>4. CASE held[u] # <<>>
  <2>1. PICK t \in Nat : t = TbPerRbg[ue[u].mcs] /\ t > 0
    BY DEF Inv, Shape, SomeBytes
  <2>2. PICK n \in Nat : n = Len(held[u]) /\ n > 0
    BY <1>2, <1>4
  <2>3. tbs[u] = t * n
    BY <1>1, <1>4, <2>1, <2>2 DEF TbSize, Mcs
  <2>4. \A a, b \in Nat : (a > 0 /\ b > 0) => (a * b \in Nat /\ a * b > 0)
    OBVIOUS
  <2>5. QED
    BY <1>4, <2>1, <2>2, <2>3, <2>4
<1>5. QED
  BY <1>3, <1>4

\* The UE reaped holds the fewest bytes.  When it held RBGs, all that are left
\* hold some, and those were served before whoever lacks bytes.
LEMMA ReapPriority == ASSUME Inv, SomeBytes, PriorityInv, Reap PROVE PriorityInv'
<1>1. UNCHANGED inputVars /\ pc = "reap" /\ pc' \in {"pass", "fronthaul"}
  BY DEF Reap
<1>2. Shape
  BY DEF Inv
<1>3. PICK order \in ByBytes(Elements(ueVector)) :
        /\ order # <<>> /\ tbs[order[Len(order)]] < MinTbs
        /\ LET u == order[Len(order)] IN
             /\ remaining' = remaining \cup Elements(held[u])
             /\ held' = [held EXCEPT ![u] = <<>>]
             /\ tbs' = [tbs EXCEPT ![u] = ReapedTbs(u)]
        /\ ueVector' = SubSeq(order, 1, Len(order) - 1)
  BY DEF Reap, ReapBelow
<1>4. /\ order \in Seq(Active) /\ Len(order) \in Nat /\ Elements(order) = Elements(ueVector)
      /\ \A i, j \in 1..Len(order) : i < j => tbs[order[i]] >= tbs[order[j]]
  BY <1>2, <1>3, SortedRound
<1>5. PICK n \in Nat \ {0} : n = Len(order)
  BY <1>3, <1>4
<1>6. PICK last : last = order[n]
  OBVIOUS
<1>7. last \in Active /\ \A i \in 1..n : order[i] \in Active
  BY <1>4, <1>5, <1>6, ElementOfSeq
<1>8. /\ remaining' = remaining \cup Elements(held[last]) /\ tbs[last] < MinTbs
      /\ held' = [held EXCEPT ![last] = <<>>]
      /\ tbs' = [tbs EXCEPT ![last] = 0]
  BY <1>3, <1>5, <1>6 DEF ReapedTbs, TbSize
<1>9. /\ \A v \in Active : v # last => held'[v] = held[v] /\ tbs'[v] = tbs[v]
      /\ held'[last] = <<>> /\ tbs'[last] = 0
      /\ Active' = Active /\ Limited' = Limited /\ ue' = ue
      /\ \A v : Eligible(v)' = Eligible(v) /\ Need(v)' = Need(v)
  BY <1>1, <1>2, <1>7, <1>8 DEF Shape, inputVars, Active, Limited, Eligible, Need
<1>10. SUFFICES ASSUME ~Limited PROVE PriorityInv'
  BY <1>9 DEF PriorityInv
<1>11. Served /\ NoneWorse
  BY <1>1, <1>10 DEF PriorityInv, FirstRound
<1>12. ~cell.subband
  BY <1>10 DEF Limited
<1>13. \A v \in Active : tbs[v] \in Nat /\ (tbs[v] > 0 <=> held[v] # <<>>)
  BY <1>1, <1>12, BytesForRbgs
<1>14. Need(last) \in Int /\ Need(last) >= MinTbs
  BY <1>2, <1>7 DEF Need, MinTbs, Shape, Input
<1>15. ~Satisfied(last)
  BY <1>7, <1>8, <1>13, <1>14 DEF Satisfied, MinTbs
<1>16. \A v \in Active : Lacks(v)' => Lacks(v)
  BY <1>9, <1>15 DEF Lacks, Satisfied
<1>17. \A v \in Active : ~Satisfied(v)' => ~Satisfied(v)
  BY <1>9, <1>15 DEF Satisfied
<1>18. Served'
  BY <1>9, <1>11, <1>16 DEF Served
<1>19. Len(ueVector') = n - 1 /\ \A i \in 1..(n - 1) : ueVector'[i] = order[i]
  <2>1. PICK m \in Nat : m = n - 1
    BY <1>5
  <2>2. PICK s : s = SubSeq(order, 1, m)
    OBVIOUS
  <2>3. Len(s) = m /\ \A i \in 1..m : s[i] = order[i]
    BY <2>1, <2>2, <1>4, <1>5
  <2>4. QED
    BY <2>1, <2>2, <2>3, <1>3, <1>5
<1>20. \A v \in Active : ue[v].k \in Int
  BY <1>2, Weights
<1>21. NoneWorse'
  <2>1. SUFFICES ASSUME remaining' # {}, NEW v \in Active, NEW i \in 1..(n - 1),
                        Lacks(v), ~Satisfied(order[i])
                 PROVE  ue[order[i]].k <= ue[v].k
    <3>1. \A i \in 1..(n - 1) : order[i] \in Active
      BY <1>5, <1>7
    <3>2. QED
      BY <3>1, <1>9, <1>16, <1>17, <1>19 DEF NoneWorse
  <2>2. i \in 1..n /\ order[i] \in Active
    BY <1>5, <1>7
  <2>3. CASE remaining # {}
    <3>1. PICK l \in 1..Len(ueVector) : order[i] = ueVector[l]
      BY <2>2, <1>4, <1>5 DEF Elements
    <3>2. QED
      BY <2>1, <2>3, <3>1, <1>11 DEF NoneWorse
  <2>4. CASE remaining = {}
    <3>1. held[last] # <<>>
      BY <2>1, <2>4, <1>8 DEF Elements
    <3>2. tbs[order[i]] >= tbs[last]
      BY <2>1, <2>2, <1>4, <1>5, <1>6
    <3>3. held[order[i]] # <<>>
      BY <3>1, <3>2, <2>2, <1>7, <1>13
    <3>4. QED
      BY <3>3, <2>1, <2>2, <1>11, <1>20 DEF Served
  <2>5. QED
    BY <2>3, <2>4
<1>22. QED
  BY <1>1, <1>18, <1>21 DEF PriorityInv

\* Every step keeps it.
LEMMA NextPriority == ASSUME Inv, Reaped, SomeBytes, PriorityInv, [Next]_vars PROVE PriorityInv'
<1>1. CASE UNCHANGED vars \/ Finished
  <2>1. UNCHANGED vars /\ UNCHANGED inputVars /\ UNCHANGED <<held, tbs, remaining, ueVector>>
    BY <1>1 DEF vars, rbgVars, loopVars, Finished
  <2>2. /\ Active' = Active /\ Limited' = Limited /\ Served' = Served /\ NoneWorse' = NoneWorse
        /\ \A u : Satisfied(u)' = Satisfied(u) /\ Eligible(u)' = Eligible(u)
    BY <2>1, SamePriority
  <2>3. FirstRound' = FirstRound
    BY <2>1, <2>2 DEF FirstRound, vars, inputVars, loopVars, rbgVars, Elements
  <2>4. QED
    BY <2>1, <2>2, <2>3 DEF PriorityInv, vars, loopVars, rbgVars
<1>2. ASSUME UNCHANGED inputVars, UNCHANGED <<held, tbs, remaining, ueVector>>, ~Limited'
      PROVE  /\ ~Limited /\ Served' /\ NoneWorse' = NoneWorse
             /\ (FirstRound /\ it' = it /\ pc' # "reap"
                  /\ ((pc' = "advance" /\ it <= Len(ueVector) /\ ~lyapunov') => ~Eligible(ueVector[it]))
                  /\ pc' # "passEnd") => FirstRound'
  <2>1. /\ Active' = Active /\ Limited' = Limited /\ Served' = Served /\ NoneWorse' = NoneWorse
        /\ \A u : Satisfied(u)' = Satisfied(u) /\ Eligible(u)' = Eligible(u)
    BY <1>2, SamePriority
  <2>2. ~Limited /\ Served'
    BY <1>2, <2>1 DEF PriorityInv
  <2>3. ue' = ue
    BY <1>2 DEF inputVars
  <2>4. QED
    BY <1>2, <2>1, <2>2, <2>3 DEF FirstRound, Elements
<1>3. SUFFICES ASSUME ~Limited' PROVE PriorityInv'
  BY DEF PriorityInv
<1>4. CASE BeginPass
  <2>1. /\ UNCHANGED inputVars /\ UNCHANGED <<held, tbs, remaining, ueVector>> /\ it' = it
        /\ prev' = Cardinality(remaining')
        /\ pc = "pass" /\ pc' = "advance" /\ lyapunov' \in ReadLyapunov(it)
    BY <1>4 DEF BeginPass, rbgVars
  <2>2. it <= Len(ueVector) /\ ~lyapunov' => ~Eligible(ueVector[it])
    BY <2>1 DEF ReadLyapunov
  <2>3. FirstRound \/ NoneWorse
    BY <2>1, <1>2, <1>3 DEF PriorityInv
  <2>4. Served' /\ (FirstRound' \/ NoneWorse')
    BY <2>1, <2>2, <2>3, <1>2, <1>3
  <2>5. QED
    BY <2>1, <2>4 DEF PriorityInv
<1>5. CASE AllAllocated
  <2>1. /\ UNCHANGED inputVars /\ UNCHANGED <<held, tbs, remaining, ueVector>>
        /\ pc' = "reap" /\ remaining' = {}
    BY <1>5 DEF AllAllocated, loopVars, rbgVars
  <2>2. NoneWorse'
    BY <2>1 DEF NoneWorse
  <2>3. Served'
    BY <2>1, <1>2, <1>3
  <2>4. QED
    BY <2>1, <2>2, <2>3 DEF PriorityInv
<1>6. CASE AdvanceToEnd \/ Discard
  <2>1. /\ UNCHANGED inputVars /\ UNCHANGED <<held, tbs, remaining, ueVector>>
        /\ pc = "advance" /\ pc' = "passEnd"
    BY <1>6 DEF AdvanceToEnd, Discard, rbgVars
  <2>2. ~Limited /\ Served' /\ NoneWorse' = NoneWorse
    BY <2>1, <1>2, <1>3
  <2>3. PICK j \in Stops : j = Len(ueVector) + 1 \/ (j <= Len(ueVector) /\ ~lyapunov)
    BY <1>6 DEF AdvanceToEnd, Discard
  <2>4. FirstRound \/ NoneWorse
    BY <2>1, <2>2 DEF PriorityInv
  <2>5. NoneWorse
    BY <2>1, <2>2, <2>3, <2>4, SearchPriority
  <2>6. QED
    BY <2>1, <2>2, <2>5 DEF PriorityInv
<1>7. CASE AdvancePastEnd
  <2>1. /\ UNCHANGED inputVars /\ UNCHANGED <<held, tbs, remaining, ueVector>> /\ pc' = "undefined"
    BY <1>7 DEF AdvancePastEnd, loopVars, rbgVars
  <2>2. Served'
    BY <2>1, <1>2, <1>3
  <2>3. QED
    BY <2>1, <2>2 DEF PriorityInv
<1>8. CASE Allocate
  BY <1>8, AllocatePriority
<1>9. CASE AllocateFails
  <2>1. cell.subband /\ cell' = cell
    BY <1>9, NoFailure DEF AllocateFails, inputVars
  <2>2. QED
    BY <2>1, <1>3 DEF Limited
<1>10. CASE EndPass
  <2>1. /\ UNCHANGED inputVars /\ UNCHANGED <<held, tbs, remaining, ueVector>> /\ it' = it
        /\ pc = "passEnd" /\ pc' \in {"pass", "reap"}
        /\ pc' = "reap" => prev = Cardinality(remaining)
    BY <1>10 DEF EndPass, loopVars, rbgVars, Progress
  <2>2. ~Limited /\ Served' /\ NoneWorse' = NoneWorse
    BY <2>1, <1>2, <1>3
  <2>3. FirstRound \/ NoneWorse
    BY <2>1, <2>2 DEF PriorityInv
  <2>4. CASE pc' = "pass"
    <3>1. FirstRound' \/ NoneWorse'
      BY <2>1, <2>3, <2>4, <1>2, <1>3
    <3>2. QED
      BY <2>2, <2>4, <3>1 DEF PriorityInv
  <2>5. CASE pc' = "reap"
    <3>1. NoneWorse
      BY <2>1, <2>3, <2>5 DEF FirstRound
    <3>2. QED
      BY <2>2, <2>5, <3>1 DEF PriorityInv
  <2>6. QED
    BY <2>1, <2>4, <2>5
<1>11. CASE Reap
  BY <1>11, ReapPriority
<1>12. CASE ReapDone
  <2>1. UNCHANGED inputVars /\ held' = held /\ tbs' = tbs /\ pc' = "fronthaul"
    BY <1>12 DEF ReapDone, rbgVars
  <2>2. Served' = Served /\ Limited' = Limited
    BY <2>1 DEF inputVars, Active, Limited, Served, Lacks, Satisfied, Eligible, Need
  <2>3. QED
    BY <2>1, <2>2, <1>3 DEF PriorityInv
<1>13. CASE Fronthaul
  <2>1. UNCHANGED inputVars /\ tbs' = tbs /\ pc' = "done"
    BY <1>13 DEF Fronthaul
  <2>2. Limited' = Limited /\ Active' = Active /\ \A v : Lacks(v)' = Lacks(v)
    BY <2>1 DEF inputVars, Active, Limited, Lacks, Satisfied, Eligible, Need
  <2>3. \A v \in Active : held'[v] = held[v] \/ held'[v] = <<>>
    BY <1>13 DEF Fronthaul
  <2>4. Served
    BY <2>2, <1>3 DEF PriorityInv
  <2>5. Served'
    BY <2>1, <2>2, <2>3, <2>4 DEF Served, inputVars
  <2>6. QED
    BY <2>1, <2>5 DEF PriorityInv
<1>14. QED
  BY <1>1, <1>4, <1>5, <1>6, <1>7, <1>8, <1>9, <1>10, <1>11, <1>12, <1>13 DEF Next

\* With wideband CQI and no fronthaul limit a UE is served only once all that
\* pass the test and come before it have enough, if an RBG carries anything.
THEOREM PriorityAlwaysRespected ==
  ASSUME SomeBytes
  PROVE  Spec => []PriorityRespected
<1>1. Init => Inv /\ Reaped /\ PriorityInv
  BY InitInv, InitReaped, InitPriority
<1>2. Inv /\ Reaped /\ PriorityInv /\ [Next]_vars => (Inv /\ Reaped /\ PriorityInv)'
  BY NextInv, NextReaped, NextPriority
<1>3. PriorityInv => PriorityRespected
  BY DEF PriorityInv, Limited, Served, Lacks, PriorityRespected
<1>4. QED
  BY <1>1, <1>2, <1>3, PTL DEF Spec

-----------------------------------------------------------------------------
(* Where the iterator is after UEs have been reaped.                       *)

\* The RBGs the fronthaul grants in any case carry the minimum.
GrantsMinimum ==
  \A c \in Cells : c.fronthaul = "OptimizeRBs" =>
    \A i \in c.inputs : TbPerRbg[i.mcs] * FhMinRbgs >= MinTbs

\* The UEs before the iterator have the minimum, so the sort by bytes leaves
\* as many of them in front of the one that is reaped.
RangeInv ==
  /\ \A u \in Active : ue[u] \in cell.inputs
  /\ \A i, j \in 1..Len(ueVector) : ueVector[i] = ueVector[j] => i = j
  /\ (~cell.subband /\ pc \in {"pass", "advance", "passEnd", "reap"}) =>
       /\ it <= Len(ueVector) + 1
       /\ \A i \in 1..Len(ueVector) : i < it => tbs[ueVector[i]] >= MinTbs

\* At the beginning the iterator is at the first UE.
LEMMA InitRange == Init => RangeInv
<1> SUFFICES ASSUME Init PROVE RangeInv
  OBVIOUS
<1>1. Shape
  BY InitInv DEF Inv
<1>2. ueVector \in Orders(Active) /\ it = 1 /\ ue \in [Active -> cell.inputs]
  BY DEF Init, ByWeight
<1>3. \A i, j \in 1..Len(ueVector) : ueVector[i] = ueVector[j] => i = j
  BY <1>1, <1>2, ActiveFinite, OrderOf
<1>4. Len(ueVector) \in Nat
  BY <1>1 DEF Shape
<1>5. QED
  BY <1>2, <1>3, <1>4 DEF RangeInv

\* The wideband transport block is a multiple of the RBGs held.
LEMMA WidebandBytes ==
  ASSUME Inv, ~cell.subband, pc # "done", NEW u \in Active
  PROVE  /\ TbPerRbg[ue[u].mcs] \in Nat /\ Len(held[u]) \in Nat /\ Need(u) \in Int
         /\ tbs[u] = TbPerRbg[ue[u].mcs] * Len(held[u]) /\ tbs[u] \in Nat
<1>1. tbs[u] = TbSize(u, held[u])
  BY DEF Inv, CreditedForHeld
<1>2. PICK t \in Nat : t = TbPerRbg[ue[u].mcs]
  BY DEF Inv, Shape
<1>3. PICK n \in Nat : n = Len(held[u])
  BY DEF Inv, Shape
<1>4. tbs[u] = t * n
  <2>1. CASE held[u] = <<>>
    <3>1. tbs[u] = 0 /\ n = 0
      BY <2>1, <1>1, <1>3 DEF TbSize
    <3>2. \A a \in Nat : a * 0 = 0
      OBVIOUS
    <3>3. QED
      BY <3>1, <3>2, <1>2
  <2>2. CASE held[u] # <<>>
    BY <2>2, <1>1, <1>2, <1>3 DEF TbSize, Mcs
  <2>3. QED
    BY <2>1, <2>2
<1>5. \A a, b \in Nat : a * b \in Nat
  OBVIOUS
<1>6. Need(u) \in Int
  BY DEF Inv, Shape, Input, Need, MinTbs
<1>7. QED
  BY <1>2, <1>3, <1>4, <1>5, <1>6

\* A UE that is skipped has the minimum.
LEMMA SkippedHasMinimum ==
  ASSUME GrantsMinimum, Inv, RangeInv, ~cell.subband, pc # "done", NEW u \in Active, Skipped(u)
  PROVE  tbs[u] >= MinTbs
<1>1. PICK t \in Nat, n \in Nat :
        /\ t = TbPerRbg[ue[u].mcs] /\ n = Len(held[u]) /\ tbs[u] = t * n
  BY WidebandBytes
<1>2. tbs[u] \in Nat /\ Need(u) \in Int
  BY WidebandBytes
<1>3. CASE Satisfied(u)
  BY <1>2, <1>3 DEF Satisfied, Need, MinTbs, Inv, Shape, Input
<1>4. CASE cell.fronthaul = "OptimizeRBs" /\ n >= FhMinRbgs
  <2>1. FhMinRbgs \in Nat /\ cell \in Cells /\ ue[u] \in cell.inputs
    BY DEF Inv, Shape, RangeInv
  <2>2. t * FhMinRbgs >= MinTbs
    BY <2>1, <1>1, <1>4 DEF GrantsMinimum
  <2>3. \A a, b, c \in Nat : b >= c => (a * b \in Nat /\ a * c \in Nat /\ a * b >= a * c)
    OBVIOUS
  <2>4. t * n \in Nat /\ t * FhMinRbgs \in Nat /\ t * n >= t * FhMinRbgs
    BY <2>1, <2>3, <1>4
  <2>5. QED
    BY <2>2, <2>4, <1>1 DEF MinTbs
<1>5. QED
  BY <1>1, <1>3, <1>4 DEF Skipped

\* All that the search has passed have the minimum.
LEMMA PassedHaveMinimum ==
  ASSUME GrantsMinimum, Inv, RangeInv, ~cell.subband, pc = "advance", NEW j \in Stops
  PROVE  /\ j <= Len(ueVector) + 1
         /\ \A i \in 1..Len(ueVector) : i < j => tbs[ueVector[i]] >= MinTbs
<1>1. /\ Len(ueVector) \in Nat /\ it \in Nat \ {0} /\ j \in it..(Len(ueVector) + 1)
      /\ \A i \in 1..Len(ueVector) : ueVector[i] \in Active
  BY Weights DEF Inv, Shape, Stops
<1>2. ASSUME NEW i \in 1..Len(ueVector), i < j PROVE tbs[ueVector[i]] >= MinTbs
  <2>1. CASE i < it
    BY <2>1 DEF RangeInv
  <2>2. CASE ~(i < it)
    <3>1. i \in it..(j - 1)
      BY <2>2, <1>1, <1>2
    <3>2. Skipped(ueVector[i])
      BY <3>1 DEF Stops
    <3>3. QED
      BY <3>2, <1>1, SkippedHasMinimum
  <2>3. QED
    BY <2>1, <2>2
<1>3. QED
  BY <1>1, <1>2

\* After the sort the first places, as many as the iterator has passed, are
\* taken by UEs with the minimum.
LEMMA FirstPlaces ==
  ASSUME Inv, RangeInv, ~cell.subband, pc = "reap", NEW order \in ByBytes(Elements(ueVector))
  PROVE  /\ Len(order) = Len(ueVector)
         /\ \A i, j \in 1..Len(order) : order[i] = order[j] => i = j
         /\ \A i \in 1..Len(order) : i < it => tbs[order[i]] >= MinTbs
<1>1. Shape /\ ueVector \in Seq(Active) /\ it \in Nat \ {0}
  BY DEF Inv, Shape
<1>2. /\ IsFiniteSet(Elements(ueVector)) /\ Cardinality(Elements(ueVector)) = Len(ueVector)
      /\ Len(ueVector) \in Nat
  BY <1>1, ElementsCount DEF RangeInv
<1>3. order \in Orders(Elements(ueVector))
  BY DEF ByBytes
<1>4. /\ Len(order) = Len(ueVector) /\ Len(order) \in Nat
      /\ \A i, j \in 1..Len(order) : order[i] = order[j] => i = j
  BY <1>2, <1>3, OrderOf
<1>5. /\ order \in Seq(Active) /\ Elements(order) = Elements(ueVector)
      /\ \A i, j \in 1..Len(order) : i < j => tbs[order[i]] >= tbs[order[j]]
  BY <1>1, SortedRound
<1>6. PICK n \in Nat : n = Len(order) /\ n = Len(ueVector)
  BY <1>4
<1>7. \A i \in 1..n : order[i] \in Active /\ ueVector[i] \in Active
  BY <1>1, <1>5, <1>6, ElementOfSeq
<1>8. \A u \in Active : tbs[u] \in Nat
  BY WidebandBytes
<1>9. ASSUME NEW i \in 1..n, i < it, ~(tbs[order[i]] >= MinTbs) PROVE FALSE
  <2>1. it <= n + 1 /\ \A m \in 1..(it - 1) : m \in 1..n /\ tbs[ueVector[m]] >= MinTbs
    BY <1>1, <1>6 DEF RangeInv
  <2>2. ASSUME NEW m \in 1..(it - 1) PROVE \E p \in 1..(i - 1) : order[p] = ueVector[m]
    <3>1. m \in 1..n /\ tbs[ueVector[m]] >= MinTbs
      BY <2>1
    <3>2. PICK p \in 1..n : order[p] = ueVector[m]
      <4>1. ueVector[m] \in Elements(ueVector)
        BY <3>1, <1>6 DEF Elements
      <4>2. QED
        BY <4>1, <1>5, <1>6 DEF Elements
    <3>3. p # i
      BY <3>1, <3>2, <1>9
    <3>4. ~(i < p)
      <4>1. SUFFICES ASSUME i < p PROVE FALSE
        OBVIOUS
      <4>2. tbs[order[i]] >= tbs[order[p]]
        BY <4>1, <1>5, <1>6
      <4>3. tbs[order[i]] \in Nat /\ tbs[order[p]] \in Nat
        BY <1>7, <1>8
      <4>4. QED
        BY <4>2, <4>3, <3>1, <3>2, <1>9 DEF MinTbs
    <3>5. QED
      BY <3>2, <3>3, <3>4, <1>6
  <2> DEFINE f == [m \in 1..(it - 1) |-> CHOOSE p \in 1..(i - 1) : order[p] = ueVector[m]]
  <2>3. f \in [1..(it - 1) -> 1..(i - 1)] /\ \A m \in 1..(it - 1) : order[f[m]] = ueVector[m]
    BY <2>2
  <2> HIDE DEF f
  <2>4. /\ IsFiniteSet(1..(i - 1)) /\ Cardinality(1..(i - 1)) = i - 1
        /\ IsFiniteSet(1..(it - 1)) /\ Cardinality(1..(it - 1)) = it - 1
    <3>1. PICK a \in Nat, b \in Nat : a = i - 1 /\ b = it - 1
      BY <1>1, <1>6
    <3>2. IsFiniteSet(1..a) /\ Cardinality(1..a) = a
      BY FS_Interval
    <3>3. IsFiniteSet(1..b) /\ Cardinality(1..b) = b
      BY FS_Interval
    <3>4. QED
      BY <3>1, <3>2, <3>3
  <2>5. Cardinality(1..(i - 1)) < Cardinality(1..(it - 1))
    BY <2>4, <1>1, <1>6, <1>9
  <2>6. \E x, y \in 1..(it - 1) : x # y /\ f[x] = f[y]
    <3>1. PICK S, T : S = 1..(it - 1) /\ T = 1..(i - 1)
      OBVIOUS
    <3>2. IsFiniteSet(S) /\ IsFiniteSet(T) /\ Cardinality(T) < Cardinality(S)
      BY <2>4, <2>5, <3>1
    <3>3. f \in [S -> T]
      BY <2>3, <3>1
    <3>4. \E x, y \in S : x # y /\ f[x] = f[y]
      BY <3>2, <3>3, FS_PigeonHole
    <3>5. QED
      BY <3>1, <3>4
  <2>7. PICK x \in 1..(it - 1), y \in 1..(it - 1) : x # y /\ f[x] = f[y]
    BY <2>6
  <2>8. ueVector[x] = ueVector[y] /\ x \in 1..n /\ y \in 1..n
    BY <2>1, <2>3, <2>7
  <2>9. QED
    BY <2>7, <2>8, <1>6 DEF RangeInv
<1>10. QED
  BY <1>4, <1>6, <1>9

\* Every step keeps it.
LEMMA NextRange == ASSUME GrantsMinimum, Inv, Reaped, RangeInv, [Next]_vars PROVE RangeInv'
<1>1. Shape /\ Len(ueVector) \in Nat /\ it \in Nat \ {0}
  BY DEF Inv, Shape
<1>2. UNCHANGED inputVars
  BY DEF Next, vars, Finished, BeginPass, AllAllocated, AdvanceToEnd, AdvancePastEnd,
         Discard, Allocate, AllocateFails, EndPass, Reap, ReapDone, Fronthaul
<1>3. cell' = cell /\ Active' = Active /\ \A u \in Active' : ue'[u] \in cell'.inputs
  BY <1>2 DEF inputVars, Active, RangeInv
<1>4. CASE UNCHANGED vars \/ Finished
  BY <1>3, <1>4 DEF RangeInv, vars, loopVars, rbgVars, Finished
<1>5. CASE BeginPass \/ AllAllocated \/ EndPass
  <2>1. /\ ueVector' = ueVector /\ it' = it /\ tbs' = tbs
        /\ pc \in {"pass", "advance", "passEnd", "reap"}
    BY <1>5 DEF BeginPass, AllAllocated, EndPass, loopVars, rbgVars
  <2>2. QED
    BY <2>1, <1>3 DEF RangeInv
<1>6. CASE AdvanceToEnd \/ Discard
  <2>1. PICK j \in Stops : it' = j
    BY <1>6 DEF AdvanceToEnd, Discard
  <2>2. ueVector' = ueVector /\ tbs' = tbs /\ pc = "advance"
    BY <1>6 DEF AdvanceToEnd, Discard, rbgVars
  <2>3. ~cell.subband => /\ j <= Len(ueVector) + 1
                         /\ \A i \in 1..Len(ueVector) : i < j => tbs[ueVector[i]] >= MinTbs
    BY <2>2, PassedHaveMinimum
  <2>4. QED
    BY <2>1, <2>2, <2>3, <1>3 DEF RangeInv
<1>7. CASE AdvancePastEnd
  BY <1>3, <1>7 DEF AdvancePastEnd, loopVars, RangeInv
<1>8. CASE Allocate
  <2>1. PICK j \in Stops :
          /\ j <= Len(ueVector) /\ it' = j
          /\ \E r \in Picked(ueVector[j]) :
               tbs' = [tbs EXCEPT ![ueVector[j]] = TbSize(ueVector[j], Append(held[ueVector[j]], r))]
    BY <1>8 DEF Allocate
  <2>2. ueVector' = ueVector /\ pc = "advance"
    BY <1>8 DEF Allocate
  <2>3. ~cell.subband => \A i \in 1..Len(ueVector) : i < j => tbs[ueVector[i]] >= MinTbs
    BY <2>2, PassedHaveMinimum
  <2>4. j \in 1..Len(ueVector)
    BY <2>1, <1>1, StopsAt
  <2>5. ASSUME NEW i \in 1..Len(ueVector), i < j PROVE tbs'[ueVector[i]] = tbs[ueVector[i]]
    <3>1. ueVector[i] # ueVector[j] /\ ueVector[i] \in Active
      BY <2>4, <2>5, <1>1, Weights DEF RangeInv
    <3>2. QED
      BY <3>1, <2>1, <1>1 DEF Shape
  <2>6. QED
    BY <2>1, <2>2, <2>3, <2>4, <2>5, <1>1, <1>3 DEF RangeInv
<1>9. CASE AllocateFails
  <2>1. cell.subband /\ ueVector' = ueVector
    BY <1>9, NoFailure DEF AllocateFails
  <2>2. QED
    BY <2>1, <1>3 DEF RangeInv
<1>10. CASE Reap
  <2>1. PICK order \in ByBytes(Elements(ueVector)) :
          /\ order # <<>> /\ tbs[order[Len(order)]] < MinTbs
          /\ tbs' = [tbs EXCEPT ![order[Len(order)]] = ReapedTbs(order[Len(order)])]
          /\ ueVector' = SubSeq(order, 1, Len(order) - 1)
    BY <1>10 DEF Reap, ReapBelow
  <2>2. pc = "reap" /\ it' = it
    BY <1>10 DEF Reap
  <2>3. PICK n \in Nat \ {0} : n = Len(order) /\ order \in Seq(Active)
    BY <2>1, <1>1, SortedRound
  <2>4. Len(ueVector') = n - 1 /\ \A i \in 1..(n - 1) : ueVector'[i] = order[i]
    <3>1. PICK m \in Nat : m = n - 1
      BY <2>3
    <3>2. PICK s : s = SubSeq(order, 1, m)
      OBVIOUS
    <3>3. Len(s) = m /\ \A i \in 1..m : s[i] = order[i]
      BY <3>1, <3>2, <2>3
    <3>4. QED
      BY <3>1, <3>2, <3>3, <2>1, <2>3
  <2>5. \A i, j \in 1..n : order[i] = order[j] => i = j
    <3>1. order \in Orders(Elements(ueVector)) /\ IsFiniteSet(Elements(ueVector))
      <4>1. Elements(ueVector) \subseteq Active
        BY <2>1, <1>1, SortedRound
      <4>2. QED
        BY <4>1, <1>1, ActiveFinite, FS_Subset DEF ByBytes
    <3>2. QED
      BY <3>1, <2>3, OrderOf
  <2>6. \A i, j \in 1..Len(ueVector') : ueVector'[i] = ueVector'[j] => i = j
    <3>1. \A i \in 1..(n - 1) : i \in 1..n
      BY <2>3
    <3>2. QED
      BY <3>1, <2>4, <2>5
  <2>7. CASE cell.subband
    BY <2>6, <2>7, <1>3 DEF RangeInv
  <2>8. CASE ~cell.subband
    <3>1. n = Len(ueVector) /\ \A i \in 1..n : i < it => tbs[order[i]] >= MinTbs
      BY <2>1, <2>2, <2>3, <2>8, FirstPlaces
    <3>2. n \in 1..n /\ order[n] \in Active
      BY <2>3, ElementOfSeq
    <3>3. tbs[order[n]] \in Nat
      BY <3>2, <2>2, <2>8, WidebandBytes
    <3>4. ~(n < it)
      BY <3>1, <3>2, <3>3, <2>1, <2>3 DEF MinTbs
    <3>5. it' <= Len(ueVector') + 1
      BY <3>4, <2>2, <2>3, <2>4, <1>1
    <3>6. ASSUME NEW i \in 1..(n - 1), i < it PROVE tbs'[order[i]] >= MinTbs
      <4>1. i \in 1..n /\ order[i] # order[n] /\ order[i] \in Active
        BY <2>3, <2>5, <3>2, ElementOfSeq
      <4>2. tbs'[order[i]] = tbs[order[i]]
        BY <4>1, <2>1, <2>3, <1>1 DEF Shape
      <4>3. QED
        BY <4>1, <4>2, <3>1, <3>6
    <3>7. \A i \in 1..Len(ueVector') : i < it' => tbs'[ueVector'[i]] >= MinTbs
      BY <3>6, <2>2, <2>4
    <3>8. QED
      BY <3>5, <3>7, <2>6, <1>3 DEF RangeInv
  <2>9. QED
    BY <2>7, <2>8
<1>11. CASE ReapDone
  <2>1. PICK order \in ByBytes(Elements(ueVector)) : ueVector' = order
    BY <1>11 DEF ReapDone
  <2>2. pc' = "fronthaul"
    BY <1>11 DEF ReapDone
  <2>3. order \in Orders(Elements(ueVector)) /\ IsFiniteSet(Elements(ueVector))
    <3>1. Elements(ueVector) \subseteq Active
      BY <2>1, <1>1, SortedRound
    <3>2. QED
      BY <3>1, <1>1, ActiveFinite, FS_Subset DEF ByBytes
  <2>4. \A i, j \in 1..Len(order) : order[i] = order[j] => i = j
    BY <2>3, OrderOf
  <2>5. QED
    BY <2>1, <2>2, <2>4, <1>3 DEF RangeInv
<1>12. CASE Fronthaul
  <2>1. ueVector' = ueVector /\ pc' = "done"
    BY <1>12 DEF Fronthaul, loopVars
  <2>2. QED
    BY <2>1, <1>3 DEF RangeInv
<1>13. QED
  BY <1>4, <1>5, <1>6, <1>7, <1>8, <1>9, <1>10, <1>11, <1>12 DEF Next

\* With wideband CQI the search for the next UE never starts past the end of
\* the vector, however many UEs are reaped, if the RBGs the fronthaul grants in
\* any case carry the minimum.
THEOREM WidebandAlwaysInRange ==
  ASSUME GrantsMinimum
  PROVE  Spec => []WidebandIteratorInRange
<1>1. Init => Inv /\ Reaped /\ RangeInv
  BY InitInv, InitReaped, InitRange
<1>2. Inv /\ Reaped /\ RangeInv /\ [Next]_vars => (Inv /\ Reaped /\ RangeInv)'
  BY NextInv, NextReaped, NextRange
<1>3. RangeInv => WidebandIteratorInRange
  BY DEF RangeInv, WidebandIteratorInRange, IteratorInRange
<1>4. QED
  BY <1>1, <1>2, <1>3, PTL DEF Spec

-----------------------------------------------------------------------------
(* Every variable keeps its type.                                          *)

\* With Inv, what type correctness rests on: the CQIs are in the table of
\* transport blocks, so an average of them is as well.
Ranges ==
  /\ ue \in [Active -> cell.inputs]
  /\ sb \in [Active -> [Rbgs -> Nat]]
  /\ cell.subband => \A u \in Active : \A r \in Rbgs : sb[u][r] \in Cqis
  /\ pc \in {"pass", "advance", "passEnd", "reap", "fronthaul", "done", "undefined"}
  /\ prev \in Nat /\ lyapunov \in BOOLEAN /\ reaping \in BOOLEAN
  /\ tbs \in [Active -> Nat]

\* An average is at most what every value is.
LEMMA AverageAtMost ==
  ASSUME NEW a \in Nat, NEW b \in Nat \ {0}, NEW d \in Nat, a <= d * b
  PROVE  a \div b \in 0..d
<1>1. PICK q \in Nat, r \in Nat : a = b * q + r /\ r < b /\ q = a \div b
  OBVIOUS
<1>2. CASE q <= d
  BY <1>1, <1>2
<1>3. CASE q >= d + 1
  <2>1. b * q >= b * (d + 1)
    BY <1>3
  <2>2. b * (d + 1) = d * b + b
    OBVIOUS
  <2>3. PICK x \in Nat, y \in Nat : x = b * q /\ y = d * b
    OBVIOUS
  <2>4. FALSE
    BY <2>1, <2>2, <2>3, <1>1
  <2>5. QED
    BY <2>4
<1>4. QED
  BY <1>1, <1>2, <1>3

\* Whatever RBGs a UE holds, their transport block has a size.
LEMMA SizeType ==
  ASSUME Shape, Ranges, NEW u \in Active, NEW s \in Seq(Rbgs)
  PROVE  TbSize(u, s) \in Nat
<1>1. PICK n \in Nat : n = Len(s)
  OBVIOUS
<1>2. CASE s = <<>>
  BY <1>2 DEF TbSize
<1>3. CASE s # <<>>
  <2>1. n # 0
    BY <1>1, <1>3
  <2>2. TbPerRbg[Mcs(u, s)] \in Nat
    <3>1. CASE ~cell.subband
      BY <3>1 DEF Mcs, Shape
    <3>2. CASE cell.subband
      <4> DEFINE f == [i \in 1..n |-> sb[u][s[i]]]
      <4>1. \A i \in 1..n : s[i] \in Rbgs
        BY <1>1, ElementOfSeq
      <4>2. f \in [1..n -> Cqis] /\ f = [i \in 1..Len(s) |-> sb[u][s[i]]]
        BY <4>1, <3>2, <1>1 DEF Ranges
      <4>3. Mcs(u, s) = Sum(f) \div n
        BY <4>2, <3>2, <1>1, <1>3 DEF Mcs
      <4> HIDE DEF f
      <4>4. Sum(f) \in Nat /\ \E c \in Cqis : Sum(f) <= c * n
        BY <4>2, <2>1, SumBounded
      <4>5. PICK c \in Cqis, t \in Nat : c \in Nat /\ t = Sum(f) /\ t <= c * n
        BY <4>4
      <4>6. t \div n \in 0..c
        BY <4>5, <2>1, AverageAtMost
      <4>7. QED
        BY <4>3, <4>5, <4>6
    <3>3. QED
      BY <3>1, <3>2
  <2>3. PICK t \in Nat : t = TbPerRbg[Mcs(u, s)]
    BY <2>2
  <2>4. TbSize(u, s) = t * n
    BY <2>3, <1>1, <1>3 DEF TbSize
  <2>5. QED
    BY <2>4
<1>4. QED
  BY <1>2, <1>3

\* Initially.
LEMMA InitRanges == Init => Ranges
<1> SUFFICES ASSUME Init PROVE Ranges
  OBVIOUS
<1>1. sb \in [Active -> [Rbgs -> Nat]]
      /\ (cell.subband => \A u \in Active : \A r \in Rbgs : sb[u][r] \in Cqis)
  <2>1. CASE cell.subband
    BY <2>1 DEF Init
  <2>2. CASE ~cell.subband
    BY <2>2 DEF Init
  <2>3. QED
    BY <2>1, <2>2
<1>2. QED
  BY <1>1 DEF Init, Ranges

\* The flag is a Boolean whatever it is read off.
LEMMA FlagType ==
  ASSUME Shape, NEW i \in Nat \ {0}
  PROVE  ReadLyapunov(i) \subseteq BOOLEAN
<1>1. CASE i <= Len(ueVector)
  <2>1. i \in 1..Len(ueVector)
    BY <1>1 DEF Shape
  <2>2. ueVector[i] \in Active
    BY <2>1, ElementOfSeq DEF Shape
  <2>3. Eligible(ueVector[i]) \in BOOLEAN
    BY <2>2 DEF Eligible
  <2>4. QED
    BY <1>1, <2>3 DEF ReadLyapunov
<1>2. CASE ~(i <= Len(ueVector))
  BY <1>2 DEF ReadLyapunov
<1>3. QED
  BY <1>1, <1>2

\* Every step keeps the ranges; only allocation and reaping write a size.
LEMMA NextRanges == ASSUME Inv, Inv', Ranges, [Next]_vars PROVE Ranges'
<1>1. Shape /\ IsFiniteSet(remaining) /\ Cardinality(remaining) \in Nat
  <2>1. Shape /\ remaining \subseteq Rbgs
    BY DEF Inv, Shape
  <2>2. QED
    BY <2>1, FS_Subset, FS_CardinalityType
<1>2. UNCHANGED inputVars
  BY DEF Next, vars, BeginPass, AllAllocated, AdvanceToEnd, AdvancePastEnd, Discard,
         Allocate, AllocateFails, EndPass, Reap, ReapDone, Fronthaul, Finished
<1>3. cell' = cell /\ ue' = ue /\ sb' = sb /\ Active' = Active
  BY <1>2 DEF inputVars, Active
<1>4. SUFFICES /\ pc' \in {"pass", "advance", "passEnd", "reap", "fronthaul", "done", "undefined"}
               /\ prev' \in Nat /\ lyapunov' \in BOOLEAN /\ reaping' \in BOOLEAN
               /\ tbs' \in [Active -> Nat]
  BY <1>3 DEF Ranges
<1>5. CASE UNCHANGED vars \/ Finished
  BY <1>5 DEF vars, Finished, loopVars, rbgVars, Ranges
<1>6. CASE BeginPass
  <2>1. lyapunov' \in BOOLEAN
    BY <1>6, <1>1, FlagType DEF BeginPass, Shape
  <2>2. QED
    BY <2>1, <1>6, <1>1 DEF BeginPass, rbgVars, Ranges
<1>7. CASE AllAllocated \/ AdvancePastEnd \/ EndPass
  BY <1>7 DEF AllAllocated, AdvancePastEnd, EndPass, loopVars, rbgVars, Ranges
<1>8. CASE AdvanceToEnd \/ Discard
  BY <1>8 DEF AdvanceToEnd, Discard, rbgVars, Ranges
<1>9. CASE AllocateFails
  <2>1. it' \in Nat \ {0}
    BY <1>1, <1>9, StopsAt DEF AllocateFails
  <2>2. lyapunov' \in BOOLEAN
    BY <2>1, <1>1, <1>9, FlagType DEF AllocateFails, Ranges
  <2>3. QED
    BY <2>2, <1>9, FailureKeepsBooks DEF AllocateFails, rbgVars, Ranges
<1>10. CASE Allocate
  <2>1. PICK j \in Stops :
          /\ j <= Len(ueVector)
          /\ LET u == ueVector[j] IN \E r \in Picked(u) :
               tbs' = [tbs EXCEPT ![u] = TbSize(u, Append(held[u], r))]
    BY <1>10 DEF Allocate
  <2>2. PICK u : u = ueVector[j]
    OBVIOUS
  <2>3. u \in Active
    BY <1>1, <2>1, <2>2, StopsAt
  <2>4. PICK r \in Picked(u) : tbs' = [tbs EXCEPT ![u] = TbSize(u, Append(held[u], r))]
    BY <2>1, <2>2
  <2>5. r \in Rbgs /\ held[u] \in Seq(Rbgs)
    BY <1>1, <2>3, PickedRemains DEF Shape
  <2>6. Append(held[u], r) \in Seq(Rbgs)
    BY <2>5
  <2>7. TbSize(u, Append(held[u], r)) \in Nat
    BY <1>1, <2>3, <2>6, SizeType
  <2>8. tbs' \in [Active -> Nat]
    BY <2>4, <2>7 DEF Ranges
  <2>9. QED
    BY <2>8, <1>10 DEF Allocate, Ranges
<1>11. CASE Reap
  <2>1. PICK u : tbs' = [tbs EXCEPT ![u] = ReapedTbs(u)]
    BY <1>11 DEF Reap
  <2>2. tbs' \in [Active -> Nat]
    BY <2>1 DEF Ranges, ReapedTbs, TbSize
  <2>3. QED
    BY <2>2, <1>11 DEF Reap, Ranges
<1>12. CASE ReapDone
  BY <1>12 DEF ReapDone, rbgVars, Ranges
<1>13. CASE Fronthaul
  BY <1>13 DEF Fronthaul, loopVars, Ranges
<1>14. QED
  BY <1>5, <1>6, <1>7, <1>8, <1>9, <1>10, <1>11, <1>12, <1>13 DEF Next

\* Every variable keeps its type; assignedResources.m_rbg never goes below
\* zero, and every average of CQIs is in the table of transport blocks.
THEOREM TypeCorrect == Spec => []TypeOK
<1>1. Spec => []Ranges
  <2>1. Ranges /\ UNCHANGED vars => Ranges'
    BY DEF Ranges, vars, inputVars, loopVars, rbgVars, Active
  <2>2. QED
    BY InvAlways, InitRanges, NextRanges, PTL DEF Spec
<1>2. Inv /\ Ranges => TypeOK
  <2> SUFFICES ASSUME Inv, Ranges PROVE TypeOK
    OBVIOUS
  <2>1. assigned \in Nat /\ available \subseteq Rbgs
    <3>1. Cardinality(HeldRbgs) \in Nat
      BY HeldFinite DEF Inv
    <3>2. QED
      BY <3>1 DEF Inv, BooksAgree
  <2>2. QED
    BY <2>1 DEF Inv, Shape, Ranges, TypeOK
<1>3. QED
  BY <1>1, <1>2, InvAlways, PTL

-----------------------------------------------------------------------------
(* The allocation comes to its end.                                        *)

\* What is still ahead: UEs that can be reaped; what follows the nested loops;
\* passes of the inner loop; UEs the search has not reached.
RoundsLeft == Len(ueVector)
StagesLeft ==
  CASE pc \in {"pass", "advance", "passEnd"} -> 3
    [] pc = "reap" -> 2
    [] pc = "fronthaul" -> 1
    [] OTHER -> 0
PassesLeft ==
  CASE pc = "pass" -> 3 * Cardinality(remaining) + 2
    [] pc = "advance" -> 3 * Cardinality(remaining) + 1
    [] pc = "passEnd" /\ Progress -> 3 * Cardinality(remaining) + 3
    [] OTHER -> 0
UesLeft == IF pc = "advance" /\ it <= Len(ueVector) THEN Len(ueVector) + 1 - it ELSE 0

\* The first of these that a step changes gets smaller.
Nearer ==
  /\ RoundsLeft' <= RoundsLeft
  /\ RoundsLeft' = RoundsLeft =>
       /\ StagesLeft' <= StagesLeft
       /\ StagesLeft' = StagesLeft =>
            /\ PassesLeft' <= PassesLeft
            /\ PassesLeft' = PassesLeft => UesLeft' < UesLeft

\* A pass knows how many RBGs there were when it began.
PassBegan == pc = "advance" => prev = Cardinality(remaining)

RankType == RoundsLeft \in Nat /\ StagesLeft \in Nat /\ PassesLeft \in Nat /\ UesLeft \in Nat

\* The measure is of natural numbers.
LEMMA Ranked == ASSUME Shape PROVE RankType /\ Cardinality(remaining) \in Nat /\ it \in Nat
<1>1. IsFiniteSet(remaining) /\ Len(ueVector) \in Nat /\ it \in Nat
  BY FS_Subset DEF Shape
<1>2. Cardinality(remaining) \in Nat
  BY <1>1, FS_CardinalityType
<1>3. RoundsLeft \in Nat /\ StagesLeft \in Nat /\ UesLeft \in Nat
  BY <1>1 DEF RoundsLeft, StagesLeft, UesLeft
<1>4. PassesLeft \in Nat
  <2>1. \A n \in Nat : 3 * n + 2 \in Nat /\ 3 * n + 1 \in Nat /\ 3 * n + 3 \in Nat
    OBVIOUS
  <2>2. QED
    BY <1>2, <2>1 DEF PassesLeft
<1>5. QED
  BY <1>1, <1>2, <1>3, <1>4 DEF RankType

\* In the nested loops the vector stays as it is: a step ends them, hands out an
\* RBG, begins or ends a pass, or moves the iterator.
LEMMA LoopNearer ==
  ASSUME Inv, PassBegan,
         BeginPass \/ AllAllocated \/ AdvanceToEnd \/ AdvancePastEnd \/ Discard
           \/ Allocate \/ AllocateFails \/ EndPass
  PROVE  Nearer /\ PassBegan'
<1> DEFINE c == Cardinality(remaining)
           l == Len(ueVector)
<1>1. Shape /\ c \in Nat /\ l \in Nat /\ it \in Nat
  BY Ranked DEF Inv, RankType, RoundsLeft
<1>2. ueVector' = ueVector
  BY DEF BeginPass, AllAllocated, AdvanceToEnd, AdvancePastEnd, Discard, Allocate,
         AllocateFails, EndPass, loopVars
<1>3. RoundsLeft' = RoundsLeft /\ RoundsLeft \in Nat
  BY <1>1, <1>2 DEF RoundsLeft
<1>4. CASE BeginPass
  <2>1. pc = "pass" /\ pc' = "advance" /\ remaining' = remaining /\ prev' = c
    BY <1>4 DEF BeginPass, rbgVars
  <2>2. PassesLeft = 3 * c + 2 /\ PassesLeft' = 3 * c + 1
    BY <2>1 DEF PassesLeft
  <2>3. StagesLeft' = 3 /\ StagesLeft = 3
    BY <2>1 DEF StagesLeft
  <2> HIDE DEF c
  <2>4. PassesLeft' <= PassesLeft /\ PassesLeft' # PassesLeft
    BY <2>2, <1>1
  <2>5. QED
    BY <2>1, <2>3, <2>4, <1>3 DEF Nearer, PassBegan, c
<1>5. CASE AllAllocated \/ AdvancePastEnd
  <2>1. pc \in {"pass", "advance"} /\ pc' \in {"reap", "undefined"}
    BY <1>5 DEF AllAllocated, AdvancePastEnd
  <2>2. StagesLeft' <= StagesLeft /\ StagesLeft' # StagesLeft
    BY <2>1 DEF StagesLeft
  <2>3. QED
    BY <2>1, <2>2, <1>3 DEF Nearer, PassBegan
<1>6. CASE pc = "advance" /\ pc' = "passEnd" /\ remaining' = remaining /\ prev' = prev
  <2>1. prev = c /\ ~Progress'
    BY <1>6 DEF PassBegan, Progress
  <2>2. PassesLeft = 3 * c + 1 /\ PassesLeft' = 0
    BY <1>6, <2>1 DEF PassesLeft
  <2>3. StagesLeft' = 3 /\ StagesLeft = 3
    BY <1>6 DEF StagesLeft
  <2> HIDE DEF c
  <2>4. PassesLeft' <= PassesLeft /\ PassesLeft' # PassesLeft
    BY <2>2, <1>1
  <2>5. QED
    BY <1>6, <2>3, <2>4, <1>3 DEF Nearer, PassBegan
<1>7. CASE AdvanceToEnd \/ Discard
  BY <1>6, <1>7 DEF AdvanceToEnd, Discard, rbgVars
<1>8. CASE Allocate
  <2>1. pc = "advance" /\ pc' = "passEnd" /\ prev' = prev
    BY <1>8 DEF Allocate
  <2>2. PICK j \in Stops : LET u == ueVector[j] IN \E r \in Picked(u) : remaining' = TakenFrom(r)
    BY <1>8 DEF Allocate
  <2>3. PICK r \in remaining : remaining' = remaining \ {r}
    BY <2>2, PickedRemains DEF TakenFrom
  <2>4. Cardinality(remaining') = c - 1
    BY <2>3, <1>1, FS_Subset, FS_RemoveElement DEF Shape
  <2>5. prev = c /\ Progress'
    BY <2>1, <2>4, <1>1 DEF PassBegan, Progress
  <2>6. PassesLeft = 3 * c + 1 /\ PassesLeft' = 3 * (c - 1) + 3
    BY <2>1, <2>4, <2>5 DEF PassesLeft
  <2>7. StagesLeft' = 3 /\ StagesLeft = 3
    BY <2>1 DEF StagesLeft
  <2> HIDE DEF c
  <2>8. PassesLeft' <= PassesLeft /\ PassesLeft' # PassesLeft
    BY <2>6, <1>1
  <2>9. QED
    BY <2>1, <2>7, <2>8, <1>3 DEF Nearer, PassBegan
<1>9. CASE AllocateFails
  <2>1. PICK j \in Stops : j <= l /\ it' = j + 1
    BY <1>9 DEF AllocateFails
  <2>2. pc = "advance" /\ remaining' = remaining /\ prev' = prev
        /\ (IF it' = l + 1 THEN pc' = "passEnd" ELSE pc' = pc)
    BY <1>9, FailureKeepsBooks DEF AllocateFails, rbgVars
  <2>3. CASE it' = l + 1
    BY <2>2, <2>3, <1>6
  <2>4. CASE it' # l + 1
    <3>1. j \in Nat /\ it <= j
      BY <2>1, <1>1 DEF Stops
    <3>2. it <= l /\ it' <= l /\ it' > it /\ it' \in Nat
      BY <3>1, <2>1, <2>4, <1>1
    <3>3. UesLeft = l + 1 - it /\ UesLeft' = l + 1 - it'
      BY <3>2, <2>2, <2>4, <1>2 DEF UesLeft
    <3>4. UesLeft' < UesLeft
      BY <3>2, <3>3, <1>1
    <3>5. PassesLeft = 3 * c + 1 /\ PassesLeft' = 3 * c + 1
      BY <2>2, <2>4 DEF PassesLeft
    <3>6. StagesLeft' = 3 /\ StagesLeft = 3
      BY <2>2, <2>4 DEF StagesLeft
    <3>7. PassesLeft' = PassesLeft /\ PassesLeft \in Int
      BY <3>5, <1>1
    <3>8. QED
      BY <2>2, <3>4, <3>6, <3>7, <1>3 DEF Nearer, PassBegan
  <2>5. QED
    BY <2>3, <2>4
<1>10. CASE EndPass
  <2>1. pc = "passEnd" /\ pc' = (IF Progress THEN "pass" ELSE "reap") /\ remaining' = remaining
    BY <1>10 DEF EndPass, rbgVars
  <2>2. CASE Progress
    <3>1. PassesLeft = 3 * c + 3 /\ PassesLeft' = 3 * c + 2
      BY <2>1, <2>2 DEF PassesLeft
    <3>2. StagesLeft' = 3 /\ StagesLeft = 3
      BY <2>1, <2>2 DEF StagesLeft
    <3> HIDE DEF c
    <3>3. PassesLeft' <= PassesLeft /\ PassesLeft' # PassesLeft
      BY <3>1, <1>1
    <3>4. QED
      BY <2>1, <2>2, <3>2, <3>3, <1>3 DEF Nearer, PassBegan
  <2>3. CASE ~Progress
    <3>1. StagesLeft = 3 /\ StagesLeft' = 2
      BY <2>1, <2>3 DEF StagesLeft
    <3>2. QED
      BY <2>1, <2>3, <3>1, <1>3 DEF Nearer, PassBegan
  <2>4. QED
    BY <2>2, <2>3
<1>11. QED
  BY <1>4, <1>5, <1>7, <1>8, <1>9, <1>10

\* Every step that changes anything comes nearer to the end.
LEMMA NextNearer ==
  ASSUME Inv, PassBegan, [Next]_vars
  PROVE  (Nearer \/ UNCHANGED vars) /\ PassBegan'
<1>1. CASE UNCHANGED vars \/ Finished
  BY <1>1 DEF Finished, vars, loopVars, rbgVars, PassBegan
<1>2. Shape /\ RoundsLeft \in Nat /\ Len(ueVector) \in Nat
  BY Ranked DEF Inv, RankType, Shape
<1>3. CASE Reap
  <2>1. PICK order \in ByBytes(Elements(ueVector)) :
          order # <<>> /\ ueVector' = SubSeq(order, 1, Len(order) - 1)
    BY <1>3 DEF Reap
  <2>2. order \in Seq(Active) /\ Len(order) \in Nat /\ Len(order) <= Len(ueVector)
    BY <2>1, <1>2, SortedRound, SortedLength
  <2>3. Len(ueVector') = Len(order) - 1
    <3>1. Len(order) # 0
      BY <2>1, <2>2, EmptySeq
    <3>2. PICK n \in Nat : n = Len(order) /\ n - 1 \in 0..n
      BY <2>2, <3>1
    <3>3. Len(SubSeq(order, 1, n - 1)) = n - 1
      BY <2>2, <3>2
    <3>4. QED
      BY <2>1, <3>2, <3>3
  <2>4. RoundsLeft' < RoundsLeft /\ pc' # "advance"
    BY <2>2, <2>3, <1>2, <1>3 DEF RoundsLeft, Reap
  <2>5. RoundsLeft' <= RoundsLeft /\ RoundsLeft' # RoundsLeft
    BY <2>2, <2>3, <1>2 DEF RoundsLeft
  <2>6. QED
    BY <2>4, <2>5 DEF Nearer, PassBegan
<1>4. CASE ReapDone
  <2>1. PICK order \in ByBytes(Elements(ueVector)) : ueVector' = order
    BY <1>4 DEF ReapDone
  <2>2. Len(ueVector') <= Len(ueVector)
    BY <2>1, <1>2, SortedLength
  <2>3. StagesLeft = 2 /\ StagesLeft' = 1 /\ pc' = "fronthaul"
    BY <1>4 DEF ReapDone, StagesLeft
  <2>4. QED
    BY <2>2, <2>3 DEF Nearer, RoundsLeft, PassBegan
<1>5. CASE Fronthaul
  <2>1. ueVector' = ueVector /\ StagesLeft = 1 /\ StagesLeft' = 0 /\ pc' = "done"
    BY <1>5 DEF Fronthaul, loopVars, StagesLeft
  <2>2. QED
    BY <2>1, <1>2 DEF Nearer, RoundsLeft, PassBegan
<1>6. QED
  BY <1>1, <1>3, <1>4, <1>5, LoopNearer DEF Next

\* Whatever is leaked, given back, reaped and handed out again, every step of
\* the allocation brings it nearer to its end, by a measure that cannot fall for
\* ever: the nested loops of AssignDLRBG end.
THEOREM AlwaysNearerTheEnd == Spec => []RankType /\ [][Nearer]_vars
<1>1. Inv => RankType
  BY Ranked DEF Inv
<1>2. Init => PassBegan
  BY DEF Init, PassBegan
<1>3. Inv /\ PassBegan /\ [Next]_vars => PassBegan' /\ [Nearer]_vars
  BY NextNearer
<1>4. QED
  BY <1>1, <1>2, <1>3, InvAlways, PTL DEF Spec

===============================================================================
