-------------------------- MODULE ServerConfigProofs --------------------------
(***************************************************************************)
(* Theorems about ServerConfig, for all configurations, numbers of UEs and *)
(* sizes of the action spaces.                                             *)
(***************************************************************************)
EXTENDS ServerConfig, DataLemmas, SequenceTheorems

USE ConfigAssumption, CodecAssumption

-----------------------------------------------------------------------------
(* Lengths of actions and answers.                                         *)

\* A function on 1..n is a sequence of length n.
LEMMA LengthOfFunction ==
  ASSUME NEW n \in Nat, NEW s, DOMAIN s = 1..n, s = [i \in 1..n |-> s[i]]
  PROVE  s \in Seq({s[i] : i \in 1..n}) /\ Len(s) = n
<1> DEFINE S == {s[i] : i \in 1..n}
<1>1. s \in [1..n -> S]
  OBVIOUS
<1> HIDE DEF S
<1>2. s \in Seq(S) /\ Len(s) = n
  BY <1>1
<1>3. QED
  BY <1>2 DEF S

\* The neutral answer has one weight of each kind for each of n UEs.
LEMMA NeutralLength ==
  ASSUME NEW n \in Nat
  PROVE  Len(Neutral(n).wq) = n /\ Len(Neutral(n).wg) = n
<1>1. Len(Zeros(n)) = n
  BY LengthOfFunction DEF Zeros
<1>2. QED
  BY <1>1 DEF Neutral

\* So has an action that was decoded.
LEMMA DecodedLength ==
  ASSUME NEW n \in Nat, NEW a
  PROVE  LET d == decode_action(a, n)
         IN  /\ \E S : d.wq \in Seq(S) /\ d.wg \in Seq(S)
             /\ Len(d.wq) = n /\ Len(d.wg) = n
<1>1. PICK low : low = LowFirst(a % WgCombinations[n], n)
  OBVIOUS
<1>2. DOMAIN low = 1..n /\ low = [i \in 1..n |-> low[i]]
  BY <1>1 DEF LowFirst
<1>3. Len(low) = n
  BY <1>2, LengthOfFunction
<1>4. PICK high : high = SE!Reverse(low)
  OBVIOUS
<1>5. DOMAIN high = 1..n /\ high = [i \in 1..n |-> high[i]]
  BY <1>3, <1>4 DEF SE!Reverse
<1>6. PICK zeros : zeros = Zeros(n)
  OBVIOUS
<1>7. DOMAIN zeros = 1..n /\ zeros = [i \in 1..n |-> zeros[i]]
  BY <1>6 DEF Zeros
<1> DEFINE S == {high[i] : i \in 1..n} \cup {zeros[i] : i \in 1..n}
<1>8. high \in [1..n -> S] /\ zeros \in [1..n -> S]
  BY <1>5, <1>7
<1> HIDE DEF S
<1>9. high \in Seq(S) /\ zeros \in Seq(S) /\ Len(high) = n /\ Len(zeros) = n
  BY <1>8
<1>10. decode_action(a, n).wq = zeros /\ decode_action(a, n).wg = high
  BY <1>1, <1>4, <1>6 DEF decode_action, InWrittenOrder
<1>11. QED
  BY <1>9, <1>10

\* The slices of a vector of 2n + 1 entries have n each.
LEMMA SlicedLength ==
  ASSUME NEW n \in Nat \ {0}, NEW S, NEW a \in Seq(S), Len(a) = 2 * n + 1
  PROVE  Len(Sliced(a, n).wq) = n /\ Len(Sliced(a, n).wg) = n
<1>1. /\ n + 1 \in 1..Len(a) /\ 2 * n + 1 \in 1..Len(a)
      /\ 2 \in 1..(Len(a) + 1) /\ n + 2 \in 1..(Len(a) + 1)
  OBVIOUS
<1>2. Len(SubSeq(a, 2, n + 1)) = n
  BY <1>1, SubSeqProperties
<1>3. Len(SubSeq(a, n + 2, 2 * n + 1)) = n
  BY <1>1, SubSeqProperties
<1>4. Slice(a, 2, n + 1) = SubSeq(a, 2, n + 1)
  BY DEF Slice
<1>5. Slice(a, n + 2, 2 * n + 1) = SubSeq(a, n + 2, 2 * n + 1)
  BY DEF Slice
<1>6. QED
  BY <1>2, <1>3, <1>4, <1>5 DEF Sliced

\* So have the slices of the vector made of three lists of 1, n and n numbers.
LEMMA JoinedLength ==
  ASSUME NEW n \in Nat \ {0}, NEW v, NEW S, NEW wq \in Seq(S), NEW wg \in Seq(S),
         Len(wq) = n, Len(wg) = n
  PROVE  LET r == Sliced(<<v>> \o wq \o wg, n) IN Len(r.wq) = n /\ Len(r.wg) = n
<1> DEFINE A == S \cup {v}
<1>1. PICK first : first = <<v>>
  OBVIOUS
<1>2. first \in Seq(A) /\ Len(first) = 1 /\ wq \in Seq(A) /\ wg \in Seq(A)
  BY <1>1
<1> HIDE DEF A
<1>3. PICK two : two = first \o wq
  OBVIOUS
<1>4. two \in Seq(A) /\ Len(two) = Len(first) + Len(wq)
  BY <1>2, <1>3, ConcatProperties
<1>5. PICK three : three = two \o wg
  OBVIOUS
<1>6. three \in Seq(A) /\ Len(three) = Len(two) + Len(wg)
  BY <1>2, <1>4, <1>5, ConcatProperties
<1>7. Len(three) = 2 * n + 1
  BY <1>2, <1>4, <1>6
<1>8. Len(Sliced(three, n).wq) = n /\ Len(Sliced(three, n).wg) = n
  BY <1>6, <1>7, SlicedLength
<1>9. QED
  BY <1>1, <1>3, <1>5, <1>8

\* Both kinds of models are answered whole: with a weight for each UE of the
\* environment.
LEMMA LearnedLength ==
  ASSUME NEW n \in Nat \ {0}
  PROVE  /\ \A a \in PpoActions(n) : Len(Sliced(a, n).wq) = n /\ Len(Sliced(a, n).wg) = n
         /\ \A a : LET r == Sliced(get_action(a, n), n)
                   IN  Len(r.wq) = n /\ Len(r.wg) = n
<1>1. ASSUME NEW a \in PpoActions(n)
      PROVE  Len(Sliced(a, n).wq) = n /\ Len(Sliced(a, n).wg) = n
  <2>1. PICK d \in [v : 0..(PpoV - 1), wq : [1..n -> 0..(PpoWq - 1)],
                     wg : [1..n -> 0..(PpoWg - 1)]] : a = <<d.v>> \o d.wq \o d.wg
    BY <1>1 DEF PpoActions
  <2>2. d.wq \in [1..n -> Int] /\ d.wg \in [1..n -> Int]
    BY <2>1
  <2>3. d.wq \in Seq(Int) /\ d.wg \in Seq(Int) /\ Len(d.wq) = n /\ Len(d.wg) = n
    BY <2>2
  <2>4. QED
    BY <2>1, <2>3, JoinedLength
<1>2. ASSUME NEW a
      PROVE  LET r == Sliced(get_action(a, n), n) IN Len(r.wq) = n /\ Len(r.wg) = n
  <2>1. PICK d : d = decode_action(a, n)
    OBVIOUS
  <2>2. PICK S : d.wq \in Seq(S) /\ d.wg \in Seq(S)
    BY <2>1, DecodedLength
  <2>3. Len(d.wq) = n /\ Len(d.wg) = n
    BY <2>1, DecodedLength
  <2>4. get_action(a, n) = <<d.v>> \o d.wq \o d.wg
    BY <2>1 DEF get_action
  <2>5. QED
    BY <2>2, <2>3, <2>4, JoinedLength
<1>3. QED
  BY <1>1, <1>2

-----------------------------------------------------------------------------
(* The codec.                                                              *)

\* What is made of the parts of a vector are its parts.
LEMMA SlicesOfJoined ==
  ASSUME NEW n \in Nat \ {0}, NEW v, NEW S, NEW wq \in Seq(S), NEW wg \in Seq(S),
         Len(wq) = n, Len(wg) = n
  PROVE  Sliced(<<v>> \o wq \o wg, n) = [v |-> v, wq |-> wq, wg |-> wg]
<1> DEFINE A == S \cup {v}
<1>1. PICK first : first = <<v>>
  OBVIOUS
<1>2. first \in Seq(A) /\ Len(first) = 1 /\ first[1] = v /\ wq \in Seq(A) /\ wg \in Seq(A)
  BY <1>1
<1> HIDE DEF A
<1>3. PICK two : two = first \o wq
  OBVIOUS
<1>4. /\ two \in Seq(A) /\ Len(two) = n + 1 /\ two[1] = v
      /\ \A i \in 1..n : two[i + 1] = wq[i]
  <2>1. /\ two \in Seq(A) /\ Len(two) = Len(first) + Len(wq)
        /\ \A i \in 1..Len(first) + Len(wq) :
             two[i] = IF i <= Len(first) THEN first[i] ELSE wq[i - Len(first)]
    BY <1>2, <1>3, ConcatProperties
  <2>2. 1 \in 1..(1 + n) /\ \A i \in 1..n : i + 1 \in 1..(1 + n) /\ ~(i + 1 <= 1) /\ (i + 1) - 1 = i
    OBVIOUS
  <2>3. QED
    BY <2>1, <2>2, <1>2
<1>5. PICK a : a = two \o wg
  OBVIOUS
<1>6. /\ a \in Seq(A) /\ Len(a) = 2 * n + 1 /\ a[1] = v
      /\ \A i \in 1..n : a[i + 1] = wq[i] /\ a[i + n + 1] = wg[i]
  <2>1. two \in Seq(A) /\ wg \in Seq(A)
    BY <1>2, <1>4
  <2>2. /\ a \in Seq(A) /\ Len(a) = Len(two) + Len(wg)
        /\ \A i \in 1..Len(two) + Len(wg) :
             a[i] = IF i <= Len(two) THEN two[i] ELSE wg[i - Len(two)]
    BY <2>1, <1>5, ConcatProperties
  <2>3. /\ Len(two) = n + 1 /\ Len(a) = 2 * n + 1
        /\ \A i \in 1..(2 * n + 1) : a[i] = IF i <= n + 1 THEN two[i] ELSE wg[i - (n + 1)]
    BY <2>2, <1>4
  <2>4. 1 \in 1..(2 * n + 1) /\ 1 <= n + 1
    OBVIOUS
  <2>5. a[1] = v
    BY <2>3, <2>4, <1>4
  <2>6. ASSUME NEW i \in 1..n PROVE a[i + 1] = wq[i] /\ a[i + n + 1] = wg[i]
    <3>1. i + 1 \in 1..(2 * n + 1) /\ i + 1 <= n + 1
      OBVIOUS
    <3>2. /\ i + n + 1 \in 1..(2 * n + 1) /\ ~(i + n + 1 <= n + 1)
          /\ (i + n + 1) - (n + 1) = i
      OBVIOUS
    <3>3. a[i + 1] = wq[i]
      BY <2>3, <3>1, <1>4
    <3>4. a[i + n + 1] = wg[i]
      BY <2>3, <3>2
    <3>5. QED
      BY <3>3, <3>4
  <2>7. QED
    BY <2>2, <2>3, <2>5, <2>6
<1>7. /\ n + 1 \in 1..Len(a) /\ 2 * n + 1 \in 1..Len(a)
      /\ 2 \in 1..(Len(a) + 1) /\ n + 2 \in 1..(Len(a) + 1)
  BY <1>6
<1>8. PICK q : q = SubSeq(a, 2, n + 1)
  OBVIOUS
<1>9. q = wq
  <2>1. /\ q \in Seq(A) /\ Len(q) = n
        /\ \A i \in 1..n : q[i] = a[i + 1]
    BY <1>6, <1>7, <1>8, SubSeqProperties
  <2>2. \A i \in 1..n : q[i] = wq[i]
    BY <2>1, <1>6
  <2>3. QED
    BY <2>1, <2>2, <1>2, SeqEqual
<1>10. PICK g : g = SubSeq(a, n + 2, 2 * n + 1)
  OBVIOUS
<1>11. g = wg
  <2>1. /\ g \in Seq(A) /\ Len(g) = n
        /\ \A i \in 1..n : g[i] = a[i + n + 1]
    BY <1>6, <1>7, <1>10, SubSeqProperties
  <2>2. \A i \in 1..n : g[i] = wg[i]
    BY <2>1, <1>6
  <2>3. QED
    BY <2>1, <2>2, <1>2, SeqEqual
<1>12. Slice(a, 2, n + 1) = q /\ Slice(a, n + 2, 2 * n + 1) = g
  <2>1. n + 1 < Len(a) /\ ~(2 * n + 1 < Len(a)) /\ Len(a) = 2 * n + 1
    BY <1>6
  <2>2. Slice(a, 2, n + 1) = SubSeq(a, 2, n + 1)
    BY <2>1 DEF Slice
  <2>3. Slice(a, n + 2, 2 * n + 1) = SubSeq(a, n + 2, 2 * n + 1)
    BY <2>1, Zenon DEF Slice
  <2>4. QED
    BY <2>2, <2>3, <1>8, <1>10
<1>13. Sliced(a, n) = [v |-> v, wq |-> wq, wg |-> wg]
  BY <1>6, <1>9, <1>11, <1>12 DEF Sliced
<1>14. QED
  BY <1>1, <1>3, <1>5, <1>13

\* A PPO model's vector is sliced into what it was made of.
LEMMA PpoRoundTrip ==
  ASSUME NEW n \in Nat \ {0}, NEW a \in PpoActions(n)
  PROVE  LET r == Sliced(a, n) IN <<r.v>> \o r.wq \o r.wg = a
<1>1. PICK d \in [v : 0..(PpoV - 1), wq : [1..n -> 0..(PpoWq - 1)],
                  wg : [1..n -> 0..(PpoWg - 1)]] : a = <<d.v>> \o d.wq \o d.wg
  BY DEF PpoActions
<1>2. d.wq \in [1..n -> Int] /\ d.wg \in [1..n -> Int]
  BY <1>1
<1>3. d.wq \in Seq(Int) /\ d.wg \in Seq(Int) /\ Len(d.wq) = n /\ Len(d.wg) = n
  BY <1>2
<1>4. Sliced(a, n) = [v |-> d.v, wq |-> d.wq, wg |-> d.wg]
  BY <1>1, <1>3, SlicesOfJoined
<1>5. QED
  BY <1>1, <1>4

\* The two exchanges of the names of the lists cancel out.
LEMMA ActionAsDecoded ==
  ASSUME NEW n \in Nat \ {0}, NEW a
  PROVE  Sliced(get_action(a, n), n) = decode_action(a, n)
<1>1. PICK d : d = decode_action(a, n)
  OBVIOUS
<1>2. PICK S : d.wq \in Seq(S) /\ d.wg \in Seq(S)
  BY <1>1, DecodedLength
<1>3. Len(d.wq) = n /\ Len(d.wg) = n
  BY <1>1, DecodedLength
<1>4. get_action(a, n) = <<d.v>> \o d.wq \o d.wg
  BY <1>1 DEF get_action
<1>5. Sliced(get_action(a, n), n) = [v |-> d.v, wq |-> d.wq, wg |-> d.wg]
  BY <1>2, <1>3, <1>4, SlicesOfJoined
<1>6. d = [v |-> d.v, wq |-> d.wq, wg |-> d.wg]
  BY <1>1 DEF decode_action
<1>7. QED
  BY <1>1, <1>5, <1>6

\* WG_STATES ** n.
LEMMA Combinations ==
  /\ WgCombinations \in [Nat -> Nat \ {0}]
  /\ WgCombinations[0] = 1
  /\ \A n \in Nat : WgCombinations[n + 1] = DqnWg * WgCombinations[n]
<1> DEFINE Body(f) == [n \in Nat |-> IF n = 0 THEN 1 ELSE DqnWg * f[n - 1]]
           G == [p \in Nat \X (Nat \ {0}) |-> DqnWg * p[2]]
<1>1. G \in [Nat \X (Nat \ {0}) -> Nat \ {0}]
  <2>1. \A x, y \in Nat \ {0} : x * y \in Nat \ {0}
    OBVIOUS
  <2>2. QED
    BY <2>1
<1>2. 1 \in Nat \ {0}
  OBVIOUS
<1> HIDE DEF G
<1>3. PICK f : IsRecursion(f, Nat \ {0}, 1, G)
  BY <1>1, <1>2, RecursionExists
<1>4. f \in [Nat -> Nat \ {0}] /\ f[0] = 1
  BY <1>3 DEF IsRecursion
<1>5. \A n \in Nat : f[n + 1] = DqnWg * f[n]
  BY <1>3, <1>4 DEF IsRecursion, G
<1>6. ASSUME NEW n \in Nat PROVE f[n] = Body(f)[n]
  <2>1. CASE n = 0
    BY <2>1, <1>4
  <2>2. CASE n # 0
    <3>1. n - 1 \in Nat /\ (n - 1) + 1 = n
      BY <2>2
    <3>2. f[n] = DqnWg * f[n - 1]
      BY <3>1, <1>5
    <3>3. QED
      BY <3>2, <2>2
  <2>3. QED
    BY <2>1, <2>2
<1>7. f = Body(f)
  BY <1>4, <1>6
<1>8. WgCombinations = CHOOSE h : h = Body(h)
  BY DEF WgCombinations
<1>9. WgCombinations = Body(WgCombinations)
  <2> HIDE DEF Body
  <2>1. QED
    BY <1>7, <1>8
<1>10. WgCombinations[0] = 1 /\ \A n \in Nat : WgCombinations[n + 1] = DqnWg * WgCombinations[n]
  BY <1>9
<1> DEFINE T == {n \in Nat : WgCombinations[n] \in Nat \ {0}}
<1>11. Nat \subseteq T
  <2>1. 0 \in T
    BY <1>10
  <2>2. ASSUME NEW n \in Nat, n \in T PROVE n + 1 \in T
    <3>1. \A x, y \in Nat \ {0} : x * y \in Nat \ {0}
      OBVIOUS
    <3>2. QED
      BY <2>2, <3>1, <1>10
  <2> HIDE DEF T
  <2>3. QED
    BY <2>1, <2>2, SetInduction
<1>12. QED
  BY <1>9, <1>10, <1>11

\* WG_STATES ** n is a multiple of each smaller power.
LEMMA PowerAbove ==
  ASSUME NEW j \in Nat, NEW k \in Nat
  PROVE  \E d \in Nat \ {0} : WgCombinations[j + k] = WgCombinations[j] * d
<1> DEFINE T == {m \in Nat : \E d \in Nat \ {0} : WgCombinations[j + m] = WgCombinations[j] * d}
<1>1. 0 \in T
  <2>1. \A x \in Nat : x = x * 1
    OBVIOUS
  <2>2. WgCombinations[j] \in Nat /\ j + 0 = j /\ 1 \in Nat \ {0}
    BY Combinations
  <2>3. QED
    BY <2>1, <2>2
<1>2. ASSUME NEW m \in Nat, m \in T PROVE m + 1 \in T
  <2>1. PICK d \in Nat \ {0} : WgCombinations[j + m] = WgCombinations[j] * d
    BY <1>2
  <2>2. PICK p \in Nat \ {0} : p = WgCombinations[j]
    BY Combinations
  <2>3. j + (m + 1) = (j + m) + 1 /\ j + m \in Nat
    OBVIOUS
  <2>4. WgCombinations[j + (m + 1)] = DqnWg * (p * d)
    BY <2>1, <2>2, <2>3, Combinations
  <2>5. DqnWg * (p * d) = p * (DqnWg * d)
    OBVIOUS
  <2>6. DqnWg * d \in Nat \ {0}
    OBVIOUS
  <2>7. WgCombinations[j + (m + 1)] = WgCombinations[j] * (DqnWg * d)
    BY <2>2, <2>4, <2>5
  <2>8. QED
    BY <2>6, <2>7
<1> HIDE DEF T
<1>3. Nat \subseteq T
  BY <1>1, <1>2, SetInduction
<1>4. QED
  BY <1>3 DEF T

\* Horner's rule: the values after each of n digits g, the first value being v.
Horner(h, n, v, g) ==
  /\ h[0] = v
  /\ \A k \in 1..n : h[k] = DqnWg * h[k - 1] + g[k]

\* Index() is the value after the last digit.
LEMMA IndexSteps ==
  ASSUME NEW n \in Nat, NEW g \in [1..n -> Nat], NEW v \in Nat, NEW r,
         r.v = v, r.wg = g
  PROVE  \E h : Horner(h, n, v, g) /\ Index(r) = h[n]
<1> DEFINE Body(h) == [s \in SUBSET (1..n) |->
                         IF s = {} THEN v ELSE DqnWg * h[s \ {Last(s)}] + g[Last(s)]]
           iter == CHOOSE h : h = Body(h)
           G == [p \in (1..n) \X Nat |-> DqnWg * p[2] + g[p[1]]]
<1>1. Index(r) = iter[1..n]
  <2>1. DOMAIN g = 1..n
    OBVIOUS
  <2>2. QED
    BY <2>1 DEF Index, SE!FoldLeft, SE!MapThenFoldSet, SE!Max, Last
<1>2. \E h : h = Body(h)
  <2>1. G \in [(1..n) \X Nat -> Nat]
    <3>1. \A x, y, z \in Nat : x * y + z \in Nat
      OBVIOUS
    <3>2. QED
      BY <3>1
  <2> HIDE DEF G
  <2>2. PICK h : IsFold(h, n, Nat, v, G)
    BY <2>1, FoldEquation
  <2>3. h = Body(h)
    BY <2>2 DEF G, IsFold
  <2> HIDE DEF Body
  <2>4. QED
    BY <2>3
<1>3. iter = Body(iter)
  <2> HIDE DEF Body
  <2>1. QED
    BY <1>2
<1> HIDE DEF iter
<1>4. iter[{}] = v
  BY <1>3
<1>5. ASSUME NEW k \in 1..n PROVE iter[1..k] = DqnWg * iter[1..(k - 1)] + g[k]
  <2>1. Last(1..k) = k /\ 1..k \in SUBSET (1..n) /\ 1..k # {} /\ (1..k) \ {k} = 1..(k - 1)
    BY FirstPositions
  <2>2. QED
    BY <2>1, <1>3
<1> DEFINE h == [k \in 0..n |-> iter[1..k]]
<1>6. Horner(h, n, v, g) /\ Index(r) = h[n]
  BY <1>1, <1>4, <1>5 DEF Horner
<1> HIDE DEF h
<1>7. QED
  BY <1>6

\* The index of a decoded action is the action.
LEMMA DqnRoundTrip ==
  ASSUME NEW n \in Nat, NEW a \in Nat
  PROVE  Index(decode_action(a, n)) = a
<1>1. PICK m \in Nat \ {0} : m = WgCombinations[n]
  BY Combinations
<1>2. PICK b \in Nat : b = a % m
  BY Division
<1>3. PICK low : low = LowFirst(b, n)
  OBVIOUS
<1>4. low = [i \in 1..n |-> (b \div WgCombinations[i - 1]) % DqnWg]
  BY <1>3 DEF LowFirst
<1>5. \A i \in 1..n : low[i] \in Nat
  <2>1. SUFFICES ASSUME NEW i \in 1..n PROVE (b \div WgCombinations[i - 1]) % DqnWg \in Nat
    BY <1>4
  <2>2. PICK p \in Nat \ {0} : p = WgCombinations[i - 1]
    <3>1. i - 1 \in Nat
      OBVIOUS
    <3>2. QED
      BY <3>1, Combinations
  <2>3. QED
    BY <2>2, Division
<1>6. low \in [1..n -> Nat] /\ Len(low) = n
  BY <1>4, <1>5
<1>7. PICK g : g = SE!Reverse(low)
  OBVIOUS
<1>8. g \in [1..n -> Nat] /\ \A k \in 1..n : g[k] = low[(n - k) + 1]
  <2>1. g = [i \in 1..n |-> low[(n - i) + 1]]
    BY <1>6, <1>7 DEF SE!Reverse
  <2>2. \A i \in 1..n : (n - i) + 1 \in 1..n
    OBVIOUS
  <2>3. QED
    BY <2>1, <2>2, <1>6
<1>9. PICK r : r = decode_action(a, n)
  OBVIOUS
<1>10. PICK v \in Nat : v = a \div m
  BY Division
<1>11. r.v = v /\ r.wg = g
  BY <1>10, <1>1, <1>2, <1>3, <1>7, <1>9, Division DEF decode_action, InWrittenOrder
<1>12. PICK h : Horner(h, n, v, g) /\ Index(r) = h[n]
  <2>1. g \in [1..n -> Nat]
    BY <1>8
  <2>2. QED
    BY <2>1, <1>11, IndexSteps
<1> DEFINE T == {k \in Nat : k <= n => h[k] = a \div WgCombinations[n - k]}
<1>13. 0 \in T
  BY <1>1, <1>10, <1>12 DEF Horner
<1>14. ASSUME NEW k \in Nat, k \in T, k + 1 <= n PROVE k + 1 \in T
  <2>1. PICK j \in Nat : j = n - (k + 1)
    BY <1>14
  <2>2. n - k = j + 1 /\ n = (j + 1) + k /\ (n - (k + 1)) + 1 = j + 1 /\ j + 1 \in 1..n
        /\ (j + 1) - 1 = j /\ k + 1 \in 1..n /\ (k + 1) - 1 = k
    BY <2>1, <1>14
  <2>3. PICK p \in Nat \ {0} : p = WgCombinations[j]
    BY Combinations
  <2>4. PICK u : u = WgCombinations[j + 1] /\ u = DqnWg * p
    BY <2>3, Combinations
  <2>5. PICK d \in Nat \ {0} : WgCombinations[(j + 1) + k] = WgCombinations[j + 1] * d
    <3>1. j + 1 \in Nat
      OBVIOUS
    <3>2. QED
      BY <3>1, PowerAbove
  <2>6. m = u * d
    BY <2>2, <2>4, <2>5, <1>1
  <2>7. g[k + 1] = (b \div p) % DqnWg
    <3>1. g[k + 1] = low[j + 1]
      BY <2>2, <1>8
    <3>2. low[j + 1] = (b \div p) % DqnWg
      BY <2>2, <2>3, <1>4
    <3>3. QED
      BY <3>1, <3>2
  <2>8. h[k] = a \div u
    <3>1. k <= n
      BY <1>14
    <3>2. h[k] = a \div WgCombinations[n - k]
      BY <3>1, <1>14
    <3>3. QED
      BY <3>2, <2>2, <2>4
  <2>9. h[k + 1] = DqnWg * (a \div u) + ((b \div p) % DqnWg)
    BY <2>2, <2>7, <2>8, <1>12 DEF Horner
  <2>10. h[k + 1] = a \div p
    <3>1. DqnWg \in Nat \ {0}
      OBVIOUS
    <3>2. DigitAdded(a, DqnWg, p, d)
      BY <3>1, OneDigitMore
    <3>3. a \div p = DqnWg * (a \div u) + ((b \div p) % DqnWg)
      BY <3>2, <2>4, <2>6, <1>2 DEF DigitAdded
    <3>4. QED
      BY <3>3, <2>9
  <2>11. QED
    BY <2>1, <2>3, <2>10
<1>15. \A k \in Nat : k \in T => k + 1 \in T
  BY <1>14
<1> HIDE DEF T
<1>16. n \in T
  BY <1>13, <1>15, SetInduction
<1>17. h[n] = a \div 1
  BY <1>16, Combinations DEF T
<1>18. a \div 1 = a
  <2>1. a = 1 * a + 0
    OBVIOUS
  <2>2. QED
    BY <2>1, DivisionUnique
<1>19. QED
  BY <1>9, <1>12, <1>17, <1>18

-----------------------------------------------------------------------------
(* What a report may do.                                                   *)

\* ns-3 survives an answer with an entry for each of its UEs.
LEMMA AppliedWhole ==
  ASSUME NEW a, Applied(a), Len(registry) \in Nat,
         Len(a.wq) \in Nat /\ Len(a.wq) >= Len(registry),
         Len(a.wg) \in Nat /\ Len(a.wg) >= Len(registry)
  PROVE  UNCHANGED sim
<1>1. \A u \in 1..Len(registry) : u <= Len(a.wq) /\ u <= Len(a.wg)
  OBVIOUS
<1>2. QED
  BY <1>1 DEF Applied

\* Whatever the server answers, only these change, and in these ways.
LEMMA InferChanges ==
  ASSUME TypeOK, Infer
  PROVE  /\ UNCHANGED <<settings, asked, registry, conf, env, model, steady, ended>>
         /\ sim = "on" /\ sim' \in {"on", "crashed"}
         /\ thread' \in {thread, "none"}
         /\ transition' = transition \/ (transition > 0 /\ transition' = transition - 1)
         /\ hung' \in {hung, TRUE} /\ early' \in {early, TRUE}
<1>1. PICK k \in 1..asked.ues :
        InferHung(k) \/ InferShort(k) \/ InferTransition(k) \/ InferModel(k)
  BY DEF Infer
<1>2. UNCHANGED <<settings, asked, registry, conf, env, model, steady, ended>> /\ sim = "on"
  BY DEF Infer
<1>3. ASSUME NEW a, NEW choice, Answered(a, choice)
      PROVE  sim' \in {"on", "crashed"}
  BY <1>2, <1>3 DEF Answered, Applied
<1>4. Failed => sim' \in {"on", "crashed"}
  BY DEF Failed
<1>5. Unanswered => sim' \in {"on", "crashed"}
  BY <1>2 DEF Unanswered
<1>6. CASE InferHung(k)
  BY <1>2, <1>5, <1>6 DEF InferHung
<1>7. CASE InferShort(k)
  BY <1>2, <1>3, <1>7 DEF InferShort
<1>8. CASE InferTransition(k)
  BY <1>2, <1>3, <1>8 DEF InferTransition, InTransition
<1>9. CASE InferModel(k)
  <2>1. CASE InferUnconfigured
    BY <1>2, <1>4, <1>9, <2>1 DEF InferModel, InferUnconfigured
  <2>2. CASE InferStatic
    BY <1>2, <1>3, <1>4, <1>9, <2>2 DEF InferModel, InferStatic
  <2>3. CASE InferRandom
    <3>1. sim' \in {"on", "crashed"}
      BY <1>3, <1>4, <2>3 DEF InferRandom
    <3>2. QED
      BY <1>2, <1>9, <2>3, <3>1 DEF InferModel, InferRandom
  <2>4. CASE InferPredict(k)
    <3>1. sim' \in {"on", "crashed"}
      BY <1>3, <1>4, <2>4 DEF InferPredict
    <3>2. QED
      BY <1>2, <1>9, <2>4, <3>1 DEF InferModel, InferPredict
  <2>5. CASE InferNobody
    <3>1. early' \in {early, TRUE}
      BY <2>5, Zenon DEF InferNobody, TypeOK
    <3>2. QED
      BY <1>2, <1>5, <1>9, <2>5, <3>1 DEF InferModel, InferNobody
  <2>6. CASE InferTrain(k)
    <3>1. sim' \in {"on", "crashed"}
      BY <1>3, <1>4, <2>6 DEF InferTrain
    <3>2. QED
      BY <1>2, <1>9, <2>6, <3>1 DEF InferModel, InferTrain
  <2>7. QED
    BY <1>9, <2>1, <2>2, <2>3, <2>4, <2>5, <2>6 DEF InferModel
<1>10. QED
  BY <1>1, <1>6, <1>7, <1>8, <1>9

-----------------------------------------------------------------------------
(* Type correctness.                                                       *)

\* An environment and a model made for a learned configuration.
LEMMA NewTypes ==
  ASSUME TypeOK, NEW c \in Configs, Learned(c)
  PROVE  /\ NewEnv(c) \in EnvType /\ NewEnv(c) # None
         /\ ModelFor(c) \in ModelType /\ ModelFor(c) # None
<1>1. c \in Config /\ c.model \in {"PPO", "DQN"} /\ c.type \in {"Basic", "ISAC"}
      /\ c.ues \in Nat \ {0}
  BY DEF Learned, Config
<1>2. NewEnv(c) \in EnvType
  BY <1>1 DEF NewEnv, EnvType
<1>3. Loads(c) \in BOOLEAN
  BY DEF Loads, TypeOK
<1>4. CASE model = None
  <2>1. [algo |-> c.model, type |-> c.type, ues |-> c.ues, saved |-> Loads(c)] \in ModelType
    BY <1>1, <1>3, Zenon DEF ModelType
  <2>2. QED
    BY <1>2, <1>4, <2>1 DEF ModelFor
<1>5. CASE model # None
  BY <1>2, <1>5 DEF ModelFor, TypeOK
<1>6. QED
  BY <1>4, <1>5

\* Every step preserves the types.
LEMMA NextType == TypeOK /\ [Next]_vars => TypeOK'
<1> SUFFICES ASSUME TypeOK, [Next]_vars PROVE TypeOK'
  OBVIOUS
<1> USE DEF TypeOK
<1>1. ASSUME NEW c \in Configs, Configure(c) PROVE TypeOK'
  <2>1. /\ settings' = settings /\ sim' = "on" /\ asked' = c /\ ended' = ended /\ early' = early
    BY <1>1 DEF Configure, Ask
  <2>2. Recorded(c) => conf' \in Configs \cup {None} /\ steady' \in BOOLEAN
    BY DEF Recorded
  <2>3. CASE ConfigureHung(c)
    BY <2>1, <2>3 DEF ConfigureHung, serverVars
  <2>4. CASE ConfigureContinue(c)
    BY <2>1, <2>2, <2>4 DEF ConfigureContinue
  <2>5. CASE ConfigureBusy(c)
    <3>1. (IF Reused(c) THEN env ELSE NewEnv(c)) \in EnvType
      BY <2>5, NewTypes DEF ConfigureBusy, Reused
    <3>2. QED
      BY <2>1, <2>2, <2>5, <3>1 DEF ConfigureBusy
  <2>6. CASE ConfigureLearned(c)
    <3>1. (IF Reused(c) THEN env ELSE NewEnv(c)) \in EnvType
      BY <2>6, NewTypes DEF ConfigureLearned, Reused
    <3>2. ModelFor(c) \in ModelType
      BY <2>6, NewTypes DEF ConfigureLearned
    <3>3. transition' \in 0..TransitionSteps
      BY <2>6 DEF ConfigureLearned
    <3>4. QED
      BY <2>1, <2>2, <2>6, <3>1, <3>2, <3>3 DEF ConfigureLearned
  <2>7. CASE ConfigureFixed(c)
    BY <2>1, <2>2, <2>7 DEF ConfigureFixed
  <2>8. QED
    BY <1>1, <2>3, <2>4, <2>5, <2>6, <2>7 DEF Configure
<1>2. CASE Infer
  <2>1. hung' \in BOOLEAN /\ steady' \in BOOLEAN /\ ended' \in BOOLEAN /\ early' \in BOOLEAN
    BY <1>2, InferChanges, Zenon
  <2>2. /\ UNCHANGED <<settings, asked, conf, env, model>>
        /\ sim' \in {"on", "crashed"} /\ thread' \in {thread, "none"}
        /\ transition' = transition \/ (transition > 0 /\ transition' = transition - 1)
    BY <1>2, InferChanges
  <2>3. QED
    BY <2>1, <2>2
<1>3. CASE EndSimulation
  BY <1>3 DEF EndSimulation, serverVars, histVars
<1>4. CASE LearnerWaits \/ LearnerEnds
  BY <1>4 DEF LearnerWaits, LearnerEnds, simVars, replyVars, histVars
<1>5. CASE Restart
  <2>1. hung' \in BOOLEAN /\ steady' \in BOOLEAN /\ ended' \in BOOLEAN /\ early' \in BOOLEAN
    BY <1>5, Zenon DEF Restart, Booted
  <2>2. QED
    BY <1>5, <2>1 DEF Restart, Booted, simVars
<1>6. CASE UNCHANGED vars
  BY <1>6 DEF vars, simVars, serverVars, histVars
<1>7. QED
  BY <1>1, <1>2, <1>3, <1>4, <1>5, <1>6 DEF Next

\* Every variable keeps its type; no model and no learner without an
\* environment, and no transition below zero.
THEOREM TypeCorrect == Spec => []TypeOK
<1>1. ASSUME Init PROVE TypeOK
  <2>1. hung \in BOOLEAN /\ steady \in BOOLEAN /\ ended \in BOOLEAN /\ early \in BOOLEAN
    BY <1>1, Zenon DEF Init
  <2>2. QED
    BY <1>1, <2>1 DEF Init, TypeOK
<1>2. TypeOK /\ [Next]_vars => TypeOK'
  BY NextType
<1>3. QED
  BY <1>1, <1>2, PTL DEF Spec

-----------------------------------------------------------------------------
(* Which configuration the server is in.                                   *)

\* A server that was not configured has nothing.
Blank == conf = None => env = None /\ thread = "none" /\ ~hung

\* What was made for the one configuration there was is still in force, and
\* a model that had a file comes from it.
Matches ==
  (steady /\ conf # None) =>
    /\ ~Learned(conf) => env = None
    /\ Learned(conf) =>
         /\ env = NewEnv(conf)
         /\ model.algo = conf.model /\ model.type = conf.type /\ model.ues = conf.ues
         /\ Loads(conf) => model.saved

\* Its learner serves it or is about to, and the event loop runs.
Attached ==
  (steady /\ ~ended /\ ~early /\ conf # None /\ conf.ues <= MinUes) =>
    /\ Learned(conf) /\ ~settings.predict => thread \in {"starting", "serving"}
    /\ ~hung

\* A simulation knows what it asked for, and the server knows it too, unless
\* it did not listen or has forgotten.
Known ==
  /\ sim = "off" => asked = None /\ reply = None /\ chosen = None
  /\ sim # "off" => asked \in Configs /\ registry \in Orders(asked.ues)
  /\ sim # "off" /\ conf # None /\ ~hung => asked = conf

\* Only models choose.
Chooses == chosen # None /\ conf # None => Learned(conf)

Inv == Blank /\ Matches /\ Attached /\ Known /\ Chooses

\* A registry has an entry for each UE of the simulation.
LEMMA RegistryLength ==
  ASSUME TypeOK, Known, sim # "off"
  PROVE  asked \in Config /\ Len(registry) = asked.ues /\ asked.ues \in Nat \ {0}
<1>1. asked \in Config /\ asked.ues \in Nat \ {0} /\ registry \in Orders(asked.ues)
  BY DEF Known, Config
<1>2. PICK n \in Nat : n = asked.ues
  BY <1>1
<1>3. registry \in [1..n -> 1..n]
  BY <1>1, <1>2 DEF Orders
<1>4. Len(registry) = n
  BY <1>3
<1>5. QED
  BY <1>1, <1>2, <1>4

\* After a /configure that the server takes.
LEMMA ConfigureTaken ==
  ASSUME TypeOK, Inv, NEW c \in Configs, ~hung,
         ConfigureContinue(c) \/ ConfigureBusy(c) \/ ConfigureLearned(c) \/ ConfigureFixed(c),
         UNCHANGED <<settings, ended, early>>
  PROVE  Blank' /\ Matches' /\ Attached' /\ conf' = c /\ hung' = hung
<1> USE DEF Inv
<1>1. conf' = c /\ steady' = (steady /\ conf \in {None, c}) /\ hung' = hung
  BY DEF ConfigureContinue, ConfigureBusy, ConfigureLearned, ConfigureFixed, Recorded
<1>2. c # None /\ c \in Config /\ Learned(c)' = Learned(c)
  BY DEF Learned
<1>3. Blank'
  BY <1>1, <1>2 DEF Blank
<1>4. CASE ~steady'
  BY <1>1, <1>3, <1>4 DEF Matches, Attached
<1>5. CASE steady' /\ conf = None
  <2>1. env = None /\ thread = "none" /\ model = None
    BY <1>5 DEF Blank, TypeOK
  <2>2. CASE ConfigureLearned(c)
    <3>1. ~Reused(c) /\ env' = NewEnv(c) /\ Learned(c) /\ model' = ModelFor(c)
          /\ thread' = IF settings.predict THEN "none" ELSE "starting"
      BY <2>1, <2>2 DEF ConfigureLearned, Reused
    <3>2. model' = [algo |-> c.model, type |-> c.type, ues |-> c.ues, saved |-> Loads(c)]
      BY <2>1, <3>1 DEF ModelFor
    <3>3. model'.algo = c.model /\ model'.type = c.type /\ model'.ues = c.ues
      BY <3>2
    <3>4. Loads(c) => model'.saved
      BY <3>2
    <3>5. NewEnv(c)' = NewEnv(c) /\ Loads(c)' = Loads(c)
      BY DEF NewEnv, Loads, SavedFile
    <3>6. Matches'
      BY <1>1, <3>1, <3>3, <3>4, <3>5 DEF Matches, NewEnv, Loads, SavedFile
    <3>7. Attached'
      BY <1>1, <3>1 DEF Attached
    <3>8. QED
      BY <1>1, <1>3, <3>6, <3>7
  <2>3. CASE ConfigureFixed(c)
    BY <1>1, <1>2, <1>3, <2>1, <2>3 DEF ConfigureFixed, Matches, Attached, Learned
  <2>4. QED
    BY <2>1, <2>2, <2>3 DEF ConfigureContinue, ConfigureBusy, Continues
<1>6. CASE steady' /\ conf = c
  <2>1. steady /\ conf # None
    BY <1>1, <1>2, <1>6
  <2>2. Learned(c) => env = NewEnv(c) /\ Reused(c) /\ env # None /\ model # None
    <3>1. Learned(c) => env = NewEnv(c)
      BY <1>6, <2>1 DEF Matches
    <3>2. NewEnv(c).ues = c.ues
      BY DEF NewEnv
    <3>3. Learned(c) => NewEnv(c) # None
      BY NewTypes
    <3>4. QED
      BY <3>1, <3>2, <3>3 DEF Reused, TypeOK
  <2>3. ~Learned(c) => env = None /\ thread = "none"
    BY <1>6, <2>1 DEF Matches, TypeOK
  <2>4. env' = env /\ model' = model
    BY <2>2, <2>3 DEF ConfigureContinue, ConfigureBusy, ConfigureLearned, ConfigureFixed, ModelFor
  <2>5. Matches'
    BY <1>1, <1>6, <2>1, <2>4 DEF Matches, Learned, NewEnv, Loads, SavedFile
  <2>6. Learned(c) /\ ~settings.predict /\ thread \in {"starting", "serving"} => thread' = thread
    BY <2>2 DEF ConfigureContinue, ConfigureBusy, ConfigureLearned, ConfigureFixed
  <2>7. Attached'
    BY <1>1, <1>6, <2>1, <2>6 DEF Attached, Learned
  <2>8. QED
    BY <1>1, <1>3, <2>5, <2>7
<1>7. QED
  BY <1>1, <1>4, <1>5, <1>6

-----------------------------------------------------------------------------
(* What a simulation is answered.                                          *)

\* An answer with an entry for each UE of the simulation.
Whole(a) ==
  /\ Len(a.wq) \in Nat /\ Len(a.wq) >= asked.ues
  /\ Len(a.wg) \in Nat /\ Len(a.wg) >= asked.ues

\* If the server is in the configuration the simulation asked for, it answers
\* whole, or it has no answer because the configuration cannot be served, its
\* learner has ended or the report came before the learner waited.
AnswersWhole ==
  \/ (\E a, choice : Whole(a) /\ Answered(a, choice)) /\ hung' = hung
  \/ (Failed \/ Unanswered) /\ (Servable(conf) => ended \/ early')

\* A report of all UEs is what the environment and the model expect.
LEMMA ReportFits ==
  ASSUME TypeOK, Inv, steady, conf # None, Learned(conf),
         NEW k \in Nat, k >= MinUes, k <= conf.ues, conf.ues <= MinUes
  PROVE  /\ k = conf.ues /\ env # None /\ env.ues = conf.ues /\ env.algo = conf.model
         /\ model.ues = conf.ues /\ model.algo = env.algo
         /\ Fits(k) /\ Predictable(k)
<1>1. /\ env = NewEnv(conf)
      /\ model.algo = conf.model /\ model.type = conf.type /\ model.ues = conf.ues
  BY DEF Inv, Matches
<1>2. env.algo = conf.model /\ env.type = conf.type /\ env.ues = conf.ues
  BY <1>1 DEF NewEnv
<1>3. k = conf.ues
  BY DEF TypeOK, Config
<1>4. env # None
  BY <1>1, NewTypes DEF TypeOK
<1>5. QED
  BY <1>1, <1>2, <1>3, <1>4 DEF Fits, Predictable

\* The model of a learned configuration chooses an action that is whole.
LEMMA LearnedWhole ==
  ASSUME NEW n \in Nat \ {0}, n = asked.ues
  PROVE  /\ \A a \in PpoActions(n) : Whole(Sliced(a, n))
         /\ \A a : Whole(Sliced(get_action(a, n), n)) /\ Whole(decode_action(a, n))
<1>1. \A a \in PpoActions(n) : Whole(Sliced(a, n))
  BY LearnedLength DEF Whole
<1>2. \A a : Whole(Sliced(get_action(a, n), n))
  BY LearnedLength DEF Whole
<1>3. \A a : Whole(decode_action(a, n))
  BY DecodedLength DEF Whole
<1>4. QED
  BY <1>1, <1>2, <1>3

\* Each kind of answer.
LEMMA InferAnswers ==
  ASSUME TypeOK, Inv, Infer, ~hung, steady, conf = asked, conf.ues <= MinUes
  PROVE  AnswersWhole
<1> USE DEF Inv
<1>1. PICK n \in Nat \ {0} : n = asked.ues
  BY RegistryLength DEF Infer
<1>2. PICK k \in 1..n :
        InferHung(k) \/ InferShort(k) \/ InferTransition(k) \/ InferModel(k)
  BY <1>1 DEF Infer
<1>3. Len(registry) = n /\ conf # None /\ conf.ues = n /\ n <= MinUes /\ conf \in Config
      /\ sim # "off" /\ MinUes \in Nat
  BY <1>1, RegistryLength DEF Infer, Known
<1>4. ASSUME NEW m \in Nat, m >= n PROVE Whole(Neutral(m))
  BY <1>1, <1>4, NeutralLength DEF Whole
<1>5. CASE InferHung(k)
  BY <1>5 DEF InferHung
<1>6. CASE InferShort(k)
  <2>1. Whole(ShortAnswer(k))
    BY <1>3, <1>4 DEF ShortAnswer
  <2>2. QED
    BY <1>6, <2>1 DEF InferShort, AnswersWhole
<1>7. CASE k >= MinUes
  <2>1. k = n
    BY <1>3, <1>7
  <2>2. Learned(conf) =>
          /\ env # None /\ env.ues = n /\ env.algo = conf.model
          /\ model.ues = n /\ model.algo = env.algo
          /\ Fits(k) /\ Predictable(k)
    BY <1>3, <2>1, <1>7, ReportFits
  <2>3. CASE InferTransition(k)
    <3>1. PICK m : m = IF conf # None /\ conf.model = "PPO" /\ env # None THEN env.ues ELSE k
      OBVIOUS
    <3>2. m = n
      BY <2>1, <2>2, <3>1 DEF Learned
    <3>3. Answered(Neutral(m), None) /\ hung' = hung
      BY <2>3, <3>1 DEF InferTransition
    <3>4. QED
      BY <1>4, <3>2, <3>3 DEF AnswersWhole
  <2>4. CASE InferModel(k)
    <3>1. CASE InferUnconfigured
      BY <1>3, <3>1 DEF InferUnconfigured
    <3>2. CASE InferStatic
      <4>1. CASE conf.type = "Fixed"
        <5>1. PICK a : /\ a = [v |-> Fixed.v, wq |-> [u \in 1..Len(registry) |-> Fixed.wq],
                               wg |-> [u \in 1..Len(registry) |-> Fixed.wg]]
                       /\ Answered(a, None)
          BY <3>2, <4>1 DEF InferStatic
        <5>2. a.wq = [u \in 1..n |-> Fixed.wq] /\ a.wg = [u \in 1..n |-> Fixed.wg]
          BY <1>3, <5>1
        <5>3. Len(a.wq) = n /\ Len(a.wg) = n
          BY <5>2, LengthOfFunction
        <5>4. Whole(a)
          BY <1>1, <5>3 DEF Whole
        <5>5. QED
          BY <3>2, <5>1, <5>4 DEF AnswersWhole, InferStatic
      <4>2. CASE conf.type # "Fixed"
        BY <3>2, <4>2 DEF InferStatic, AnswersWhole, Servable, Asks
      <4>3. QED
        BY <4>1, <4>2
    <3>3. CASE InferRandom
      <4>1. conf.model = "Random"
        BY <3>3 DEF InferRandom, Asks
      <4>2. env = None
        BY <1>3, <4>1 DEF Matches, Learned
      <4>3. QED
        BY <3>3, <4>1, <4>2 DEF InferRandom, AnswersWhole, Servable
    <3>4. CASE InferPredict(k)
      <4>1. Learned(conf) /\ hung' = hung
        BY <3>4 DEF InferPredict
      <4>2. PICK a \in Actions :
              Answered(IF conf.model = "DQN" THEN decode_action(a, env.ues)
                       ELSE Sliced(a, env.ues), a)
        BY <2>2, <3>4, <4>1 DEF InferPredict
      <4>3. CASE conf.model = "DQN"
        BY <1>1, <2>2, <4>1, <4>2, <4>3, LearnedWhole DEF AnswersWhole
      <4>4. CASE conf.model # "DQN"
        <5>1. a \in PpoActions(n)
          BY <2>2, <4>1, <4>4 DEF Actions
        <5>2. QED
          BY <1>1, <2>2, <4>1, <4>2, <4>4, <5>1, LearnedWhole DEF AnswersWhole
      <4>5. QED
        BY <4>3, <4>4
    <3>5. CASE InferNobody
      <4>1. ended \/ early'
        BY <1>3, <3>5 DEF InferNobody, Attached
      <4>2. QED
        BY <3>5, <4>1 DEF InferNobody, AnswersWhole
    <3>6. CASE InferTrain(k)
      <4>1. Learned(conf) /\ hung' = hung
        BY <3>6 DEF InferTrain
      <4>2. PICK a \in Actions :
              Answered(Sliced(IF env.algo = "DQN" THEN get_action(a, env.ues) ELSE a, env.ues), a)
        BY <2>2, <3>6, <4>1 DEF InferTrain
      <4>3. CASE env.algo = "DQN"
        BY <1>1, <2>2, <4>1, <4>2, <4>3, LearnedWhole DEF AnswersWhole
      <4>4. CASE env.algo # "DQN"
        <5>1. a \in PpoActions(n)
          BY <2>2, <4>1, <4>4 DEF Actions
        <5>2. QED
          BY <1>1, <2>2, <4>1, <4>2, <4>4, <5>1, LearnedWhole DEF AnswersWhole
      <4>5. QED
        BY <4>3, <4>4
    <3>7. QED
      BY <2>4, <3>1, <3>2, <3>3, <3>4, <3>5, <3>6 DEF InferModel
  <2>5. CASE InferShort(k)
    BY <1>6, <2>5
  <2>6. QED
    BY <1>2, <1>5, <2>3, <2>4, <2>5
<1>8. CASE ~(k >= MinUes)
  BY <1>2, <1>5, <1>6, <1>8 DEF InferTransition, InferModel
<1>9. QED
  BY <1>7, <1>8

-----------------------------------------------------------------------------
(* The invariant.                                                          *)

\* A learner that is handed what it expects goes on, and then nobody blocks.
LEMMA InferKeepsLearner ==
  ASSUME TypeOK, Inv, Infer, steady, ~ended, ~early', conf # None, conf.ues <= MinUes
  PROVE  /\ Learned(conf) /\ ~settings.predict => thread' \in {"starting", "serving"}
         /\ hung' = hung
<1> USE DEF Inv
<1>1. ~hung /\ (Learned(conf) /\ ~settings.predict => thread \in {"starting", "serving"})
  <2>1. ~early
    BY InferChanges
  <2>2. QED
    BY <2>1 DEF Attached
<1>2. sim # "off" /\ conf = asked
  BY <1>1 DEF Infer, Known
<1>3. PICK n \in Nat \ {0} : n = asked.ues
  BY <1>2, RegistryLength
<1>4. PICK k \in 1..n :
        InferHung(k) \/ InferShort(k) \/ InferTransition(k) \/ InferModel(k)
  BY <1>3 DEF Infer
<1>5. CASE InferHung(k) \/ InferShort(k) \/ InferTransition(k)
  BY <1>1, <1>5 DEF InferHung, InferShort, InferTransition
<1>6. CASE InferModel(k)
  <2>1. k >= MinUes /\ k <= conf.ues /\ k \in Nat
    BY <1>2, <1>3, <1>6 DEF InferModel
  <2>2. CASE InferTrain(k)
    <3>1. Fits(k) /\ model.algo = env.algo
      BY <2>1, <2>2, ReportFits DEF InferTrain
    <3>2. QED
      BY <1>1, <2>2, <3>1 DEF InferTrain
  <2>3. CASE InferNobody
    BY <1>1, <2>3 DEF InferNobody
  <2>4. CASE InferUnconfigured \/ InferStatic \/ InferRandom \/ InferPredict(k)
    BY <1>1, <2>4 DEF InferUnconfigured, InferStatic, InferRandom, InferPredict
  <2>5. QED
    BY <1>6, <2>2, <2>3, <2>4 DEF InferModel
<1>7. QED
  BY <1>4, <1>5, <1>6

\* Only a server that was configured is asked for what a model chooses, and
\* only one that was configured blocks.
LEMMA InferChosen ==
  ASSUME TypeOK, Inv, Infer
  PROVE  Chooses' /\ (conf = None => hung' = hung /\ thread' = thread)
<1> USE DEF Inv
<1>1. PICK k \in 1..asked.ues :
        InferHung(k) \/ InferShort(k) \/ InferTransition(k) \/ InferModel(k)
  BY DEF Infer
<1>2. conf' = conf /\ Learned(conf)' = Learned(conf)
  BY InferChanges DEF Learned
<1>3. chosen' # None /\ conf # None => Learned(conf)
  <2>1. SUFFICES ASSUME chosen' # None, conf # None, ~Learned(conf) PROVE FALSE
    OBVIOUS
  <2>2. ~InferHung(k) /\ ~InferShort(k) /\ ~InferTransition(k)
    BY <2>1 DEF InferHung, Unanswered, InferShort, InferTransition, Answered
  <2>3. ~InferUnconfigured /\ ~InferPredict(k) /\ ~InferNobody /\ ~InferTrain(k)
    BY <2>1 DEF InferUnconfigured, InferPredict, InferNobody, InferTrain
  <2>4. ~InferStatic
    BY <2>1 DEF InferStatic, Failed, Answered
  <2>5. ~InferRandom
    BY <2>1 DEF InferRandom, Failed, Answered
  <2>6. QED
    BY <1>1, <2>2, <2>3, <2>4, <2>5 DEF InferModel
<1>4. conf = None => hung' = hung /\ thread' = thread
  <2>1. SUFFICES ASSUME conf = None PROVE hung' = hung /\ thread' = thread
    OBVIOUS
  <2>2. CASE InferHung(k) \/ InferShort(k) \/ InferTransition(k)
    BY <2>2 DEF InferHung, InferShort, InferTransition
  <2>3. CASE InferModel(k)
    BY <2>1, <2>3 DEF InferModel, InferUnconfigured, InferStatic, InferRandom, InferPredict,
                      InferNobody, InferTrain, Asks
  <2>4. QED
    BY <1>1, <2>2, <2>3
<1>5. QED
  BY <1>2, <1>3, <1>4 DEF Chooses

\* Every step preserves the invariant.
LEMMA NextInv == TypeOK /\ Inv /\ [Next]_vars => Inv'
<1> SUFFICES ASSUME TypeOK, Inv, [Next]_vars PROVE Inv'
  OBVIOUS
<1> USE DEF Inv
<1>1. ASSUME NEW c \in Configs, Configure(c) PROVE Inv'
  <2>1. /\ sim = "off" /\ sim' = "on" /\ asked' = c /\ registry' \in Orders(c.ues)
        /\ UNCHANGED <<settings, ended, early, reply, chosen>>
    BY <1>1 DEF Configure, Ask
  <2>2. Chooses'
    BY <2>1 DEF Chooses, Known
  <2>3. CASE ConfigureHung(c)
    <3>1. hung /\ UNCHANGED <<conf, env, model, thread, hung, steady>>
      BY <2>3 DEF ConfigureHung, serverVars
    <3>2. Known'
      BY <2>1, <3>1 DEF Known, Orders
    <3>3. Blank' /\ Matches' /\ Attached'
      BY <2>1, <3>1 DEF Blank, Matches, Attached, Learned, NewEnv, Loads, SavedFile
    <3>4. QED
      BY <2>2, <3>2, <3>3
  <2>4. CASE ConfigureContinue(c) \/ ConfigureBusy(c) \/ ConfigureLearned(c) \/ ConfigureFixed(c)
    <3>1. ~hung
      BY <2>4 DEF ConfigureContinue, ConfigureBusy, ConfigureLearned, ConfigureFixed
    <3>2. Blank' /\ Matches' /\ Attached' /\ conf' = c
      BY <2>1, <2>4, <3>1, ConfigureTaken
    <3>3. Known'
      BY <2>1, <3>2 DEF Known, Orders
    <3>4. QED
      BY <2>2, <3>2, <3>3
  <2>5. QED
    BY <1>1, <2>3, <2>4 DEF Configure
<1>2. CASE Infer
  <2>1. /\ UNCHANGED <<settings, asked, registry, conf, env, model, steady, ended>>
        /\ sim = "on" /\ sim' # "off" /\ hung' \in {hung, TRUE}
    BY <1>2, InferChanges
  <2>2. Chooses' /\ Blank'
    BY <1>2, <2>1, InferChosen DEF Blank
  <2>3. Matches'
    BY <2>1 DEF Matches, Learned, NewEnv, Loads, SavedFile
  <2>4. Attached'
    <3>1. SUFFICES ASSUME steady, ~ended, ~early', conf # None, conf.ues <= MinUes
                   PROVE  /\ Learned(conf) /\ ~settings.predict => thread' \in {"starting", "serving"}
                          /\ ~hung'
      BY <2>1 DEF Attached, Learned
    <3>2. ~early
      BY <1>2, <3>1, InferChanges, Zenon DEF TypeOK
    <3>3. QED
      BY <1>2, <3>1, <3>2, InferKeepsLearner DEF Attached
  <2>5. ~hung' => ~hung
    BY <1>2, InferChanges, Zenon DEF TypeOK
  <2>6. Known'
    BY <2>1, <2>5 DEF Known, Orders
  <2>7. QED
    BY <2>2, <2>3, <2>4, <2>6
<1>3. CASE EndSimulation
  BY <1>3 DEF EndSimulation, serverVars, histVars, Blank, Matches, Attached, Known, Chooses,
              Learned, NewEnv, Loads, SavedFile
<1>4. CASE LearnerWaits \/ LearnerEnds
  BY <1>4 DEF LearnerWaits, LearnerEnds, simVars, replyVars, histVars, Blank, Matches, Attached, Known, Chooses,
              Learned, NewEnv, Loads, SavedFile, Orders
<1>5. CASE Restart
  BY <1>5 DEF Restart, Booted, simVars, replyVars, Blank, Matches, Attached, Known, Chooses, Orders
<1>6. CASE UNCHANGED vars
  BY <1>6 DEF vars, simVars, serverVars, replyVars, histVars, Blank, Matches, Attached, Known,
              Chooses, Learned, NewEnv, Loads, SavedFile, Orders
<1>7. QED
  BY <1>1, <1>2, <1>3, <1>4, <1>5, <1>6 DEF Next

\* It holds always.
LEMMA InvAlways == Spec => []Inv
<1>1. Init => Inv
  BY DEF Init, Inv, Blank, Matches, Attached, Known, Chooses
<1>2. TypeOK /\ Inv /\ [Next]_vars => Inv'
  BY NextInv
<1>3. QED
  BY <1>1, <1>2, TypeCorrect, PTL DEF Spec

-----------------------------------------------------------------------------
(* The theorems.                                                           *)

\* While every simulation asks for the same servable configuration, no learn() has
\* ended and no report came before the learner waited, no answer ends ns-3 and the server does not block: the
\* environment, the model and the learner that /configure finds are those it
\* would have made (server.py:272).
THEOREM ServesAlways == Spec => []Serves
<1>1. Init => Serves
  BY DEF Init, Serves
<1>2. TypeOK /\ Inv /\ Serves /\ [Next]_vars => Serves'
  <2> SUFFICES ASSUME TypeOK, Inv, Serves, [Next]_vars,
                      sim' # "off", asked' = conf', Servable(conf'), steady', ~ended', ~early'
               PROVE  sim' = "on" /\ ~hung'
    BY DEF Serves, Servable
  <2> USE DEF Inv
  <2>1. ASSUME NEW c \in Configs, Configure(c) PROVE sim' = "on" /\ ~hung'
    <3>1. Inv'
      BY NextInv
    <3>2. sim' = "on" /\ asked' = c
      BY <2>1 DEF Configure, Ask
    <3>3. conf' # None /\ conf'.ues <= MinUes
      BY <3>2 DEF Servable
    <3>4. QED
      BY <3>1, <3>2, <3>3 DEF Attached
  <2>2. CASE Infer
    <3>1. UNCHANGED <<asked, conf, steady, ended>> /\ sim = "on"
      BY <2>2, InferChanges
    <3>2. conf # None /\ conf = asked /\ conf.ues <= MinUes
      BY <3>1 DEF Servable, Known
    <3>3. ~hung /\ hung' = hung
      <4>1. ~early
        BY <2>2, InferChanges, Zenon DEF TypeOK
      <4>2. QED
        BY <2>2, <3>1, <3>2, <4>1, InferKeepsLearner DEF Attached
    <3>4. AnswersWhole
      BY <2>2, <3>1, <3>2, <3>3, InferAnswers
    <3>5. PICK a, choice : Whole(a) /\ Answered(a, choice)
      BY <3>1, <3>4 DEF AnswersWhole
    <3>6. UNCHANGED sim
      BY <3>1, <3>5, RegistryLength, AppliedWhole DEF Answered, Whole
    <3>7. QED
      BY <3>1, <3>3, <3>6
  <2>3. CASE EndSimulation
    BY <2>3 DEF EndSimulation
  <2>4. CASE LearnerWaits
    BY <2>4 DEF LearnerWaits, simVars, histVars, Serves
  <2>5. CASE LearnerEnds
    BY <2>5 DEF LearnerEnds
  <2>6. CASE Restart
    BY <2>6 DEF Restart, Booted, simVars, Known
  <2>7. CASE UNCHANGED vars
    BY <2>7 DEF vars, simVars, serverVars, histVars, Serves
  <2>8. QED
    BY <2>1, <2>2, <2>3, <2>4, <2>5, <2>6, <2>7 DEF Next
<1>3. QED
  BY <1>1, <1>2, TypeCorrect, InvAlways, PTL DEF Spec

\* An answer has an entry for every UE, whether its length is that of the
\* environment, of the report or a constant (server.py:452-632).
THEOREM EntriesForEach == Spec => []EntryForEach
<1>1. Init => EntryForEach
  BY DEF Init, EntryForEach
<1>2. TypeOK /\ Inv /\ EntryForEach /\ [Next]_vars => EntryForEach'
  <2> SUFFICES ASSUME TypeOK, Inv, EntryForEach, [Next]_vars,
                      reply' # None, steady', conf' = asked', conf'.ues <= MinUes
               PROVE  Len(reply'.wq) >= conf'.ues /\ Len(reply'.wg) >= conf'.ues
    BY DEF EntryForEach
  <2> USE DEF Inv
  <2>1. ASSUME NEW c \in Configs, Configure(c) PROVE FALSE
    BY <2>1 DEF Configure, Ask, Known
  <2>2. CASE Infer
    <3>1. UNCHANGED <<asked, conf, steady, ended>> /\ sim = "on"
      BY <2>2, InferChanges
    <3>2. ~hung
      BY <2>2 DEF Infer, InferHung, InferShort, InferTransition, InferModel, Unanswered
    <3>3. AnswersWhole
      BY <2>2, <3>1, <3>2, InferAnswers
    <3>4. PICK a, choice : Whole(a) /\ Answered(a, choice)
      BY <3>3 DEF AnswersWhole, Failed, Unanswered
    <3>5. QED
      BY <3>1, <3>4 DEF Whole, Answered
  <2>3. CASE EndSimulation
    BY <2>3 DEF EndSimulation
  <2>4. CASE LearnerWaits \/ LearnerEnds
    BY <2>4 DEF LearnerWaits, LearnerEnds, simVars, replyVars, histVars, EntryForEach
  <2>5. CASE Restart
    BY <2>5 DEF Restart, Booted, simVars, replyVars, Known
  <2>6. CASE UNCHANGED vars
    BY <2>6 DEF vars, simVars, serverVars, replyVars, histVars, EntryForEach
  <2>7. QED
    BY <2>1, <2>2, <2>3, <2>4, <2>5, <2>6 DEF Next
<1>3. QED
  BY <1>1, <1>2, TypeCorrect, InvAlways, PTL DEF Spec

\* A prediction with LOAD_MODEL comes from a saved model, if one fits what all
\* simulations asked for (server.py:331-351).
THEOREM PredictsSaved == Spec => []PredictsWithSaved
<1>1. TypeOK /\ Inv => PredictsWithSaved
  <2> SUFFICES ASSUME TypeOK, Inv, chosen # None, conf # None, steady,
                      settings.load, conf.ues = SavedUes,
                      ~(conf.model = "PPO" /\ conf.type = "Basic")
               PROVE  model.saved
    BY DEF PredictsWithSaved
  <2>1. Learned(conf) /\ conf \in Config
    BY DEF Inv, Chooses, TypeOK
  <2>2. SavedFile(conf).algo = conf.model
    BY <2>1 DEF SavedFile, Learned
  <2>3. QED
    BY <2>1, <2>2 DEF Inv, Matches, Loads
<1>2. QED
  BY <1>1, TypeCorrect, InvAlways, PTL

\* An answer ends with the simulation it was given to.
Quiet == sim = "off" => reply = None

\* A learned answer that is recorded is the action chosen for it, taken apart.
LEMMA AnswerDecodes ==
  ASSUME TypeOK, Infer, reply' # None, chosen' # None, model # None, model.ues = env.ues
  PROVE  IF model.algo = "DQN"
         THEN Index(reply') = chosen' /\ Len(reply'.wg) = env.ues
         ELSE <<reply'.v>> \o reply'.wq \o reply'.wg = chosen'
<1>1. PICK n \in Nat \ {0} : n = env.ues /\ n = model.ues
  BY DEF TypeOK, EnvType
<1>2. PICK k \in 1..asked.ues :
        InferHung(k) \/ InferShort(k) \/ InferTransition(k) \/ InferModel(k)
  BY DEF Infer
<1>3. ~InferHung(k) /\ ~InferShort(k) /\ ~InferTransition(k)
  BY DEF InferHung, Unanswered, InferShort, InferTransition, Answered
<1>4. ~InferUnconfigured /\ ~InferNobody /\ ~InferStatic /\ ~InferRandom
  BY DEF InferUnconfigured, InferNobody, Unanswered, InferStatic, InferRandom, Failed, Answered
<1>5. PICK a \in Actions :
        \/ model.algo = "DQN" /\ Answered(decode_action(a, n), a)
        \/ model.algo = "DQN" /\ Answered(Sliced(get_action(a, n), n), a)
        \/ model.algo # "DQN" /\ Answered(Sliced(a, n), a)
  <2>1. CASE InferPredict(k)
    BY <2>1, <1>1 DEF InferPredict, Failed, Predictable
  <2>2. CASE InferTrain(k)
    BY <2>2, <1>1 DEF InferTrain, Failed
  <2>3. QED
    BY <2>1, <2>2, <1>2, <1>3, <1>4 DEF InferModel
<1>6. CASE model.algo = "DQN"
  <2>1. a \in Nat
    BY <1>1, <1>6 DEF Actions, DqnActions
  <2>2. reply' = decode_action(a, n) /\ chosen' = a
    BY <1>5, <1>6, ActionAsDecoded DEF Answered
  <2>3. Index(decode_action(a, n)) = a /\ Len(decode_action(a, n).wg) = n
    BY <2>1, DqnRoundTrip, DecodedLength
  <2>4. QED
    BY <2>2, <2>3, <1>1, <1>6
<1>7. CASE model.algo # "DQN"
  <2>1. a \in PpoActions(n)
    BY <1>1, <1>7 DEF Actions
  <2>2. reply' = Sliced(a, n) /\ chosen' = a
    BY <1>5, <1>7 DEF Answered
  <2>3. QED
    BY <2>1, <2>2, <1>7, PpoRoundTrip
<1>8. QED
  BY <1>6, <1>7

\* The answer is the action that was chosen, digit by digit, through the
\* division and the inversion of decode_action, the exchanged names of
\* get_action and the slices of the handler, for every number of UEs and every
\* size of the action space (env_DQN_Basic.py:86-165).
THEOREM DecodesAlways == Spec => []ReplyDecodes
<1>1. Init => Quiet /\ ReplyDecodes
  BY DEF Init, Quiet, ReplyDecodes
<1>2. ASSUME TypeOK, Quiet, ReplyDecodes, [Next]_vars PROVE Quiet' /\ ReplyDecodes'
  <2>1. CASE \E c \in Configs : Configure(c)
    BY <1>2, <2>1 DEF Configure, Ask, Quiet, ReplyDecodes
  <2>2. CASE Infer
    <3>1. sim' # "off" /\ model' = model /\ env' = env
      BY <1>2, <2>2, InferChanges
    <3>2. SUFFICES ASSUME reply' # None, chosen' # None, model # None, model.ues = env.ues
                   PROVE  IF model.algo = "DQN"
                          THEN Index(reply') = chosen' /\ Len(reply'.wg) = env.ues
                          ELSE <<reply'.v>> \o reply'.wq \o reply'.wg = chosen'
      BY <3>1 DEF Quiet, ReplyDecodes
    <3>3. QED
      BY <1>2, <2>2, <3>2, AnswerDecodes
  <2>3. CASE EndSimulation
    BY <2>3 DEF EndSimulation, Quiet, ReplyDecodes
  <2>4. CASE LearnerWaits \/ LearnerEnds
    BY <1>2, <2>4 DEF LearnerWaits, LearnerEnds, simVars, replyVars, Quiet, ReplyDecodes
  <2>5. CASE Restart
    BY <1>2, <2>5 DEF Restart, Booted, simVars, replyVars, Quiet, ReplyDecodes
  <2>6. CASE UNCHANGED vars
    BY <1>2, <2>6 DEF vars, simVars, serverVars, replyVars, Quiet, ReplyDecodes
  <2>7. QED
    BY <1>2, <2>1, <2>2, <2>3, <2>4, <2>5, <2>6 DEF Next
<1>3. QED
  BY <1>1, <1>2, TypeCorrect, PTL DEF Spec

===============================================================================
