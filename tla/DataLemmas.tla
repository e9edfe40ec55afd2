------------------------------ MODULE DataLemmas ------------------------------
(***************************************************************************)
(* Induction and recursion over the natural numbers for sets and functions *)
(* in place of predicates and operators: what a fold over a sequence or a  *)
(* recursive function computes follows from these.  And division.          *)
(***************************************************************************)
EXTENDS Integers, Sequences, FiniteSetTheorems, WellFoundedInduction, TLAPS

\* A finite set of numbers that is not empty has a least one.
LEMMA LeastOfFinite ==
  ASSUME NEW S \in SUBSET Nat, IsFiniteSet(S), S # {}
  PROVE  \E r \in S : \A q \in S : r <= q
<1> DEFINE Below(r) == {q \in S : q < r}
           R == StrictSubsetOrdering(S)
           T == {Below(r) : r \in S}
<1>1. IsWellFoundedOn(R, SUBSET S)
  BY FS_StrictSubsetOrderingWellFounded, FS_FiniteSubsetsOfFinite
<1>2. T \subseteq SUBSET S /\ T # {}
  OBVIOUS
<1> HIDE DEF R, T
<1>3. PICK x \in T : \A y \in T : <<y, x>> \notin R
  BY <1>1, <1>2, WFMin
<1> USE DEF R, T
<1>4. PICK r \in S : x = Below(r)
  BY <1>3
<1>5. ASSUME NEW q \in S, q < r PROVE FALSE
  <2>1. q \in Below(r) /\ q \notin Below(q)
    BY <1>5
  <2>2. \A p \in Below(q) : p \in Below(r)
    BY <1>5
  <2>3. Below(q) \in SUBSET S /\ Below(r) \in SUBSET S /\ Below(q) \in T
    OBVIOUS
  <2>4. <<Below(q), Below(r)>> \in R
    BY <2>1, <2>2, <2>3 DEF StrictSubsetOrdering
  <2>5. QED
    BY <2>3, <2>4, <1>3, <1>4
<1>6. QED
  BY <1>5

\* Induction: a set with 0 and the successor of each of its numbers has all.
LEMMA SetInduction ==
  ASSUME NEW S, 0 \in S, \A n \in Nat : n \in S => n + 1 \in S
  PROVE  Nat \subseteq S
<1>1. SUFFICES ASSUME NEW n \in Nat, n \notin S PROVE FALSE
  OBVIOUS
<1> DEFINE T == {m \in 0..n : m \notin S}
<1>2. T \in SUBSET Nat /\ n \in T /\ IsFiniteSet(T)
  <2>1. IsFiniteSet(0..n)
    BY FS_Interval
  <2>2. T \subseteq 0..n
    OBVIOUS
  <2>3. IsFiniteSet(T)
    BY <2>1, <2>2, FS_Subset
  <2>4. QED
    BY <2>3, <1>1
<1>3. PICK m \in T : \A k \in T : m <= k
  BY <1>2, LeastOfFinite
<1>4. m # 0 /\ m \in 0..n
  BY <1>3
<1>5. m - 1 \in 0..n /\ m - 1 \notin T
  BY <1>3, <1>4
<1>6. m - 1 \in S /\ m - 1 \in Nat /\ (m - 1) + 1 = m
  BY <1>4, <1>5
<1>7. m \in S
  BY <1>6
<1>8. QED
  BY <1>3, <1>7

\* Recursion over the positions of a sequence: the function that
\* SequencesExt!FoldLeft asks for, with values in W, step G and base c.
StepsUp(h, n, W, c, G) ==
  /\ h \in [SUBSET (1..n) -> W]
  /\ h[{}] = c
  /\ \A s \in SUBSET (1..n) : \A x \in s :
       (\A y \in s : x >= y) => h[s] = G[<<x, h[s \ {x}]>>]

\* It exists.
LEMMA FoldExists ==
  ASSUME NEW W, NEW c \in W, NEW n \in Nat, NEW G \in [(1..n) \X W -> W]
  PROVE  \E h : StepsUp(h, n, W, c, G)
<1> DEFINE Good(k, h) == StepsUp(h, k, W, c, G)
           S == {k \in Nat : k <= n => \E h : Good(k, h)}
<1> HIDE DEF Good
<1>1. 0 \in S
  <2>1. Good(0, [s \in SUBSET (1..0) |-> c])
    BY DEF Good, StepsUp
  <2>2. QED
    BY <2>1
<1>2. ASSUME NEW k \in Nat, k \in S, k + 1 <= n PROVE \E h : Good(k + 1, h)
  <2>1. PICK g : Good(k, g)
    BY <1>2
  <2> DEFINE h == [s \in SUBSET (1..(k + 1)) |->
                     IF k + 1 \in s THEN G[<<k + 1, g[s \ {k + 1}]>>] ELSE g[s]]
  <2>2. \A s \in SUBSET (1..(k + 1)) : s \ {k + 1} \in SUBSET (1..k)
    OBVIOUS
  <2>3. \A s \in SUBSET (1..(k + 1)) : k + 1 \notin s => s \in SUBSET (1..k)
    OBVIOUS
  <2>4. k + 1 \in 1..n
    BY <1>2
  <2>5. \A s \in SUBSET (1..(k + 1)) : h[s] \in W
    <3>1. ASSUME NEW s \in SUBSET (1..(k + 1)) PROVE h[s] \in W
      <4>1. CASE k + 1 \in s
        <5>1. g[s \ {k + 1}] \in W
          BY <2>1, <2>2 DEF Good, StepsUp
        <5>2. <<k + 1, g[s \ {k + 1}]>> \in (1..n) \X W
          BY <5>1, <2>4
        <5>3. G[<<k + 1, g[s \ {k + 1}]>>] \in W
          BY <5>2
        <5>4. QED
          BY <5>3, <4>1
      <4>2. CASE k + 1 \notin s
        BY <2>1, <2>3, <4>2 DEF Good, StepsUp
      <4>3. QED
        BY <4>1, <4>2
    <3>2. QED
      BY <3>1
  <2>6. h \in [SUBSET (1..(k + 1)) -> W]
    BY <2>5
  <2>7. h[{}] = c
    BY <2>1 DEF Good, StepsUp
  <2>8. ASSUME NEW s \in SUBSET (1..(k + 1)), NEW x \in s, \A y \in s : x >= y
        PROVE  h[s] = G[<<x, h[s \ {x}]>>]
    <3>1. CASE k + 1 \in s
      <4>1. x = k + 1
        BY <2>8, <3>1
      <4>2. h[s \ {x}] = g[s \ {x}]
        BY <4>1
      <4>3. QED
        BY <3>1, <4>1, <4>2
    <3>2. CASE k + 1 \notin s
      <4>1. s \in SUBSET (1..k) /\ s \ {x} \in SUBSET (1..k)
        BY <2>3, <3>2
      <4>2. h[s] = g[s] /\ h[s \ {x}] = g[s \ {x}]
        BY <3>2
      <4>3. QED
        BY <4>1, <4>2, <2>1, <2>8 DEF Good, StepsUp
    <3>3. QED
      BY <3>1, <3>2
  <2>9. Good(k + 1, h)
    BY <2>6, <2>7, <2>8 DEF Good, StepsUp
  <2> HIDE DEF h
  <2>10. QED
    BY <2>9
<1>3. \A k \in Nat : k \in S => k + 1 \in S
  BY <1>2
<1>4. n \in S
  BY <1>1, <1>3, SetInduction
<1>5. PICK h : Good(n, h)
  BY <1>4
<1>6. QED
  BY <1>5 DEF Good

\* The last position of a set of positions, as SequencesExt!FoldLeft has it.
Last(s) == CHOOSE x \in s : \A y \in s : x >= y

\* A set of positions that is not empty has a last one.
LEMMA LastPosition ==
  ASSUME NEW n \in Nat, NEW s \in SUBSET (1..n), s # {}
  PROVE  Last(s) \in s /\ \A y \in s : Last(s) >= y
<1> DEFINE T == {m \in 0..n : n - m \in s}
<1>1. T \in SUBSET Nat /\ IsFiniteSet(T)
  <2>1. IsFiniteSet(0..n)
    BY FS_Interval
  <2>2. T \subseteq 0..n
    OBVIOUS
  <2>3. QED
    BY <2>1, <2>2, FS_Subset
<1>2. T # {}
  <2>1. PICK x \in s : TRUE
    OBVIOUS
  <2>2. n - x \in 0..n /\ n - (n - x) = x
    BY <2>1
  <2>3. QED
    BY <2>1, <2>2
<1>3. PICK m \in T : \A k \in T : m <= k
  BY <1>1, <1>2, LeastOfFinite
<1>4. ASSUME NEW y \in s PROVE n - m >= y
  <2>1. n - y \in 0..n /\ n - (n - y) = y
    OBVIOUS
  <2>2. m <= n - y
    BY <1>3, <2>1
  <2>3. QED
    BY <2>1, <2>2, <1>3
<1>5. n - m \in s
  BY <1>3
<1>6. QED
  BY <1>4, <1>5 DEF Last

\* The first k positions: their last one and the positions before it.
LEMMA FirstPositions ==
  ASSUME NEW n \in Nat, NEW k \in 1..n
  PROVE  /\ 1..k \in SUBSET (1..n) /\ 1..k # {}
         /\ Last(1..k) = k
         /\ (1..k) \ {k} = 1..(k - 1)
         /\ 1..(k - 1) \in SUBSET (1..n)
<1>1. k \in 1..k /\ \A y \in 1..k : k >= y
  OBVIOUS
<1>2. \A x \in 1..k : (\A y \in 1..k : x >= y) => x = k
  BY <1>1
<1>3. Last(1..k) = k
  BY <1>1, <1>2 DEF Last
<1>4. QED
  BY <1>3

\* The same, with the last position named.
IsFold(h, n, W, c, G) ==
  /\ h \in [SUBSET (1..n) -> W]
  /\ \A s \in SUBSET (1..n) :
       /\ s = {} => h[s] = c
       /\ s # {} => /\ Last(s) \in 1..n /\ h[s \ {Last(s)}] \in W
                    /\ h[s] = G[<<Last(s), h[s \ {Last(s)}]>>]

\* The equation a fold is defined by has a solution.
LEMMA FoldEquation ==
  ASSUME NEW W, NEW c \in W, NEW n \in Nat, NEW G \in [(1..n) \X W -> W]
  PROVE  \E h : IsFold(h, n, W, c, G)
<1>1. PICK h : StepsUp(h, n, W, c, G)
  BY FoldExists
<1>2. h \in [SUBSET (1..n) -> W] /\ h[{}] = c
  BY <1>1 DEF StepsUp
<1>3. ASSUME NEW s \in SUBSET (1..n), s # {}
      PROVE  /\ Last(s) \in 1..n /\ h[s \ {Last(s)}] \in W
             /\ h[s] = G[<<Last(s), h[s \ {Last(s)}]>>]
  <2>1. Last(s) \in s /\ \A y \in s : Last(s) >= y
    BY <1>3, LastPosition
  <2>2. QED
    BY <1>1, <1>2, <2>1 DEF StepsUp
<1>4. IsFold(h, n, W, c, G)
  BY <1>2, <1>3 DEF IsFold
<1>5. QED
  BY <1>4

\* A function on the numbers with step G and base c.
IsRecursion(f, W, c, G) ==
  /\ f \in [Nat -> W]
  /\ f[0] = c
  /\ \A n \in Nat : f[n + 1] = G[<<n, f[n]>>]

\* It exists.
LEMMA RecursionExists ==
  ASSUME NEW W, NEW c \in W, NEW G \in [Nat \X W -> W]
  PROVE  \E f : IsRecursion(f, W, c, G)
<1> DEFINE Good(k, h) == /\ h \in [0..k -> W]
                         /\ h[0] = c
                         /\ \A i \in 0..k : i < k => h[i + 1] = G[<<i, h[i]>>]
           S == {k \in Nat : \E h : Good(k, h)}
<1>1. \A k \in Nat : \E h : Good(k, h)
  <2>1. 0 \in S
    <3>1. Good(0, [i \in 0..0 |-> c])
      OBVIOUS
    <3>2. QED
      BY <3>1
  <2>2. ASSUME NEW k \in Nat, NEW h, Good(k, h) PROVE \E g : Good(k + 1, g)
    <3> DEFINE g == [i \in 0..(k + 1) |-> IF i = k + 1 THEN G[<<k, h[k]>>] ELSE h[i]]
    <3>1. h[k] \in W /\ <<k, h[k]>> \in Nat \X W
      BY <2>2
    <3>2. G[<<k, h[k]>>] \in W
      BY <3>1
    <3>3. g \in [0..(k + 1) -> W]
      BY <2>2, <3>2
    <3>4. g[0] = c
      BY <2>2
    <3>5. ASSUME NEW i \in 0..(k + 1), i < k + 1 PROVE g[i + 1] = G[<<i, g[i]>>]
      <4>1. CASE i = k
        BY <4>1
      <4>2. CASE i < k
        BY <4>2, <2>2
      <4>3. QED
        BY <4>1, <4>2, <3>5
    <3>6. Good(k + 1, g)
      BY <3>3, <3>4, <3>5
    <3> HIDE DEF g, Good
    <3>7. QED
      BY <3>6
  <2> HIDE DEF Good
  <2>3. \A k \in Nat : k \in S => k + 1 \in S
    BY <2>2
  <2>4. Nat \subseteq S
    BY <2>1, <2>3, SetInduction
  <2>5. QED
    BY <2>4
<1>2. ASSUME NEW k \in Nat, NEW m \in Nat, NEW g, NEW h, Good(k, g), Good(m, h)
      PROVE  \A i \in Nat : i <= k /\ i <= m => g[i] = h[i]
  <2> DEFINE T == {i \in Nat : i <= k /\ i <= m => g[i] = h[i]}
  <2>1. 0 \in T
    BY <1>2
  <2>2. ASSUME NEW i \in Nat, i \in T, i + 1 <= k, i + 1 <= m PROVE g[i + 1] = h[i + 1]
    <3>1. g[i] = h[i] /\ i \in 0..k /\ i < k /\ i \in 0..m /\ i < m
      BY <2>2
    <3>2. g[i + 1] = G[<<i, g[i]>>] /\ h[i + 1] = G[<<i, h[i]>>]
      BY <3>1, <1>2
    <3>3. QED
      BY <3>1, <3>2
  <2>3. \A i \in Nat : i \in T => i + 1 \in T
    BY <2>2
  <2> HIDE DEF T
  <2>4. Nat \subseteq T
    BY <2>1, <2>3, SetInduction
  <2>5. QED
    BY <2>4 DEF T
<1> DEFINE H(k) == CHOOSE h : Good(k, h)
           f == [k \in Nat |-> H(k)[k]]
<1>3. \A k \in Nat : Good(k, H(k))
  <2> HIDE DEF Good
  <2>1. QED
    BY <1>1
<1> HIDE DEF H
<1>4. f \in [Nat -> W] /\ f[0] = c
  BY <1>3
<1>5. ASSUME NEW n \in Nat PROVE f[n + 1] = G[<<n, f[n]>>]
  <2>1. Good(n, H(n)) /\ Good(n + 1, H(n + 1))
    BY <1>3
  <2>2. H(n + 1)[n] = H(n)[n]
    BY <2>1, <1>2
  <2>3. H(n + 1)[n + 1] = G[<<n, H(n + 1)[n]>>]
    BY <2>1
  <2>4. QED
    BY <2>2, <2>3
<1>6. IsRecursion(f, W, c, G)
  BY <1>4, <1>5 DEF IsRecursion
<1> HIDE DEF f
<1>7. QED
  BY <1>6

-----------------------------------------------------------------------------
(* Division.                                                               *)

\* Division is unique.
LEMMA DivisionUnique ==
  ASSUME NEW q \in Nat, NEW b \in Nat \ {0}, NEW r \in Nat, r < b,
         NEW a \in Nat, a = b * q + r
  PROVE  a \div b = q /\ a % b = r
OBVIOUS

\* What division computes.
LEMMA Division ==
  ASSUME NEW a \in Nat, NEW b \in Nat \ {0}
  PROVE  /\ a \div b \in Nat /\ a % b \in Nat /\ a % b < b
         /\ a = b * (a \div b) + (a % b)
OBVIOUS

\* A multiple of the divisor passes through the division.
LEMMA MultipleDivided ==
  \A a, e \in Nat : \A b \in Nat \ {0} : (b * e + a) \div b = e + a \div b
<1> SUFFICES ASSUME NEW a \in Nat, NEW e \in Nat, NEW b \in Nat \ {0}
             PROVE  (b * e + a) \div b = e + a \div b
  OBVIOUS
<1>1. PICK q \in Nat, r \in Nat : q = a \div b /\ r < b /\ a = b * q + r
  BY Division
<1>2. b * (e + q) = b * e + b * q
  OBVIOUS
<1>3. PICK x \in Nat, y \in Nat, z \in Nat : x = b * e /\ y = b * q /\ z = b * (e + q)
  OBVIOUS
<1>4. b * e + a = b * (e + q) + r
  BY <1>1, <1>2, <1>3
<1>5. e + q \in Nat
  OBVIOUS
<1>6. PICK c \in Nat, k \in Nat : c = b * e + a /\ k = e + q
  BY <1>3, <1>5
<1>7. c = b * k + r
  BY <1>4, <1>6
<1>8. c \div b = k
  BY <1>1, <1>7, DivisionUnique
<1>9. QED
  BY <1>1, <1>6, <1>8

\* To divide by a product is to divide twice.
LEMMA DividedTwice ==
  \A a \in Nat : \A b, c \in Nat \ {0} : a \div (b * c) = (a \div b) \div c
<1> SUFFICES ASSUME NEW a \in Nat, NEW b \in Nat \ {0}, NEW c \in Nat \ {0}
             PROVE  a \div (b * c) = (a \div b) \div c
  OBVIOUS
<1>1. PICK q \in Nat, r \in Nat : q = a \div b /\ r < b /\ a = b * q + r
  BY Division
<1>2. PICK k \in Nat, s \in Nat : k = q \div c /\ s < c /\ q = c * k + s
  BY Division
<1>3. a = (b * c) * k + (b * s + r)
  <2>1. b * (c * k + s) = b * (c * k) + b * s
    OBVIOUS
  <2>2. b * (c * k) = (b * c) * k
    OBVIOUS
  <2>3. b * q = (b * c) * k + b * s
    BY <2>1, <2>2, <1>2
  <2>4. PICK x \in Nat, y \in Nat : x = (b * c) * k /\ y = b * s
    OBVIOUS
  <2>5. QED
    BY <2>3, <2>4, <1>1
<1>4. b * s + r \in Nat /\ b * c \in Nat \ {0} /\ b * s + r < b * c
  <2>1. b * (s + 1) <= b * c
    BY <1>2
  <2>2. b * (s + 1) = b * s + b
    OBVIOUS
  <2>3. PICK x \in Nat, y \in Nat : x = b * s /\ y = b * c
    OBVIOUS
  <2>4. x + r < y
    BY <2>1, <2>2, <2>3, <1>1
  <2>5. QED
    BY <2>3, <2>4
<1>5. PICK p \in Nat \ {0}, t \in Nat : p = b * c /\ t = b * s + r
  BY <1>4
<1>6. a \div p = k
  BY <1>3, <1>4, <1>5, DivisionUnique
<1>7. QED
  BY <1>1, <1>2, <1>5, <1>6

\* One digit more of a: w the base, p the weight of the digit, d what is above.
DigitAdded(a, w, p, d) ==
  a \div p = w * (a \div (w * p)) + (((a % ((w * p) * d)) \div p) % w)

\* The rule for every number and every place.
LEMMA OneDigitMore ==
  ASSUME NEW a \in Nat, NEW w \in Nat \ {0}, NEW p \in Nat \ {0}, NEW d \in Nat \ {0}
  PROVE  DigitAdded(a, w, p, d)
<1>1. PICK m \in Nat \ {0} : m = (w * p) * d
  <2>1. \A x, y \in Nat \ {0} : x * y \in Nat \ {0}
    OBVIOUS
  <2>2. w * p \in Nat \ {0}
    BY <2>1
  <2>3. QED
    BY <2>1, <2>2
<1>2. PICK q \in Nat, r \in Nat : r = a % m /\ q = a \div m /\ a = m * q + r
  BY <1>1, Division
<1>3. PICK e \in Nat : e = d * q
  OBVIOUS
<1>4. PICK f \in Nat : f = w * e
  OBVIOUS
<1>5. a = p * f + r
  <2>1. ((w * p) * d) * q = p * (w * (d * q))
    OBVIOUS
  <2>2. QED
    BY <2>1, <1>1, <1>2, <1>3, <1>4
<1>6. PICK t \in Nat : t = r \div p
  BY Division
<1>7. a \div p = f + t
  <2>1. (p * f + r) \div p = f + r \div p
    BY MultipleDivided, Zenon
  <2>2. QED
    BY <2>1, <1>5, <1>6
<1>8. a \div (w * p) = e + t \div w
  <2>1. w * p = p * w
    OBVIOUS
  <2>2. a \div (p * w) = (a \div p) \div w
    BY DividedTwice, Zenon
  <2>3. (w * e + t) \div w = e + t \div w
    BY MultipleDivided, Zenon
  <2>4. QED
    BY <2>1, <2>2, <2>3, <1>4, <1>7
<1>9. PICK k \in Nat, s \in Nat : k = t \div w /\ s = t % w /\ t = w * k + s
  BY Division
<1>10. w * (e + k) = f + w * k
  BY <1>4
<1>11. PICK x \in Nat : x = w * k
  OBVIOUS
<1>12. f + t = w * (e + k) + s
  BY <1>9, <1>10, <1>11
<1>13. QED
  BY <1>1, <1>2, <1>6, <1>7, <1>8, <1>9, <1>12 DEF DigitAdded

===============================================================================
