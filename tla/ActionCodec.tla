----------------------------- MODULE ActionCodec -----------------------------
(***************************************************************************)
(* The form of an action on its way from a model to the scheduler: the     *)
(* mixed-radix code of the DQN environments, the vector of the PPO         *)
(* environments, the slices of it that an answer consists of, and what     *)
(* SetDppWeights makes of its entries.                                     *)
(***************************************************************************)
EXTENDS Integers, Sequences
SE == INSTANCE SequencesExt

CONSTANTS
  DqnV, DqnWg,           \* V_STATES and WG_STATES of the DQN environments
  PpoV, PpoWq, PpoWg     \* V_STATES, WQ_STATES and WG_STATES of the others

ASSUME CodecAssumption ==
  /\ DqnV \in Nat \ {0} /\ DqnWg \in Nat \ {0}
  /\ PpoV \in Nat \ {0} /\ PpoWq \in Nat \ {0} /\ PpoWg \in Nat \ {0}

Zeros(n) == [i \in 1..n |-> 0]

\* An answer: v and one wq and one wg for each UE.
Neutral(n) == [v |-> 0, wq |-> Zeros(n), wg |-> Zeros(n)]

\* WG_STATES ** n: the combinations of weights of n UEs.
WgCombinations[n \in Nat] == IF n = 0 THEN 1 ELSE DqnWg * WgCombinations[n - 1]

\* Actions a DQN and a PPO model may choose for n UEs.
DqnActions(n) == 0..(DqnV * WgCombinations[n] - 1)

PpoActions(n) ==
  {<<d.v>> \o d.wq \o d.wg : d \in [v : 0..(PpoV - 1), wq : [1..n -> 0..(PpoWq - 1)],
                                   wg : [1..n -> 0..(PpoWg - 1)]]}

\* The digits of x, the least significant first.
LowFirst(x, n) == [i \in 1..n |-> (x \div WgCombinations[i - 1]) % DqnWg]

\* Variant: the list is not inverted.
Inverted(s) == s
InWrittenOrder(s) == SE!Reverse(s)

decode_action(a, n) ==
  [v |-> a \div WgCombinations[n], wq |-> Zeros(n),
   wg |-> InWrittenOrder(LowFirst(a % WgCombinations[n], n))]

\* A Python slice s[from:to] in positions from 1; it may be short.
Slice(s, from, to) == SubSeq(s, from, IF to < Len(s) THEN to ELSE Len(s))

\* The answer made of an action vector.
Sliced(a, n) == [v |-> a[1], wq |-> Slice(a, 2, n + 1), wg |-> Slice(a, n + 2, 2 * n + 1)]

\* get_action() of a DQN environment, whose names of the two lists are
\* exchanged twice.
get_action(a, n) ==
  LET d == decode_action(a, n) IN <<d.v>> \o d.wq \o d.wg

-----------------------------------------------------------------------------
(* What SetDppWeights makes of an entry; wg in tenths, wq is ignored.      *)

VLyapunov(v) == CASE v = 1 -> 5 [] v = 2 -> 9 [] v = 3 -> 40 [] OTHER -> v

WeightG(g) == IF g = 0 THEN 1 ELSE 10 * g

SetDppWeights(v, g) == [v |-> VLyapunov(v), g |-> WeightG(g)]

-----------------------------------------------------------------------------
\* The index of an answer, by Horner's rule: the reference of the code.
Index(r) == SE!FoldLeft(LAMBDA x, d : DqnWg * x + d, r.v, r.wg)

=============================================================================
