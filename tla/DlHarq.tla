-------------------------------- MODULE DlHarq --------------------------------
(***************************************************************************)
(* Downlink HARQ around the DPPA scheduler: the processes of the scheduler *)
(* with their timers, the packets the MAC keeps for retransmissions, and   *)
(* the feedback on its way.  DPPA allocates RBGs in a slot only to the UEs *)
(* this leaves: with a free process and no retransmission in the slot.     *)
(*                                                                         *)
(* One beam, so that all new blocks of a slot have the same symbols: those *)
(* the uplink and the retransmissions leave.  A retransmission keeps the   *)
(* symbols and RBGs of its block (ConsolidateHarqRetx is off).  RBGs are   *)
(* abstracted to whether a block collides with one placed before it.       *)
(***************************************************************************)
EXTENDS Integers, Sequences, FiniteSets

SE == INSTANCE FiniteSetsExt

CONSTANTS
  UEs,
  NumProc,   \* NumHarqProcess (16 in the code)
  MaxRv,     \* retransmissions of a block (3, or 0 without HARQ)
  MaxDelay,  \* slots until the feedback of a block is at the scheduler
  MaxSym,    \* data symbols of a slot without uplink (13)
  Fronthaul  \* whether there is a fronthaul that may refuse retransmissions

\* A feedback may be one slot late: then its process expires before it is read.
ASSUME HarqAssumption ==
  /\ IsFiniteSet(UEs)
  /\ NumProc \in Nat \ {0} /\ MaxRv \in Nat /\ MaxSym \in Nat \ {0}
  /\ MaxDelay \in 1..(NumProc + 1)
  /\ Fronthaul \in BOOLEAN

Processes == UEs \X (0..(NumProc - 1))

VARIABLES
  proc,        \* m_dlHarq of every UE: is there a block, its timer, rv and symbols
  used,        \* m_usedSize of every UE
  retransmit,  \* m_dlHarqToRetransmit: NACKs that wait for resources
  received,    \* m_dlHarqInfoReceived: feedback since the last slot; a set, for
               \* the scheduler drops what is there twice
  packets,     \* m_miDlHarqProcessesPackets: which bursts are not empty
  air          \* blocks and feedback under way, with their age in slots

vars == <<proc, used, retransmit, received, packets, air>>

Active(p) == proc[p].active
Sym(p) == proc[p].sym

\* A process erased, and one with a new block.
Erased == [active |-> FALSE, timer |-> 0, rv |-> 0, sym |-> 0]
NewBlock(n) == [active |-> TRUE, timer |-> 0, rv |-> 0, sym |-> n]

Init ==
  /\ proc = [p \in Processes |-> Erased]
  /\ used = [u \in UEs |-> 0]
  /\ retransmit = <<>> /\ received = {}
  /\ packets = [p \in Processes |-> FALSE]
  /\ air = {}

-----------------------------------------------------------------------------
(* The UE decodes a block and its feedback reaches the MAC.                *)

\* Variant: any feedback discards the packets.
DiscardsAlways(ok) == TRUE

Discards(ok) == ok

Receive(a, ok) ==
  /\ a \in air
  /\ air' = air \ {a}
  /\ packets' = [packets EXCEPT ![a.p] = @ /\ ~Discards(ok)]
  /\ received' = received \cup {[p |-> a.p, ok |-> ok]}
  /\ UNCHANGED <<proc, used, retransmit>>

-----------------------------------------------------------------------------
(* DoSchedDlTriggerReq.                                                    *)

\* Variant: one slot earlier.
ExpiresEarlier(p) == Active(p) /\ proc[p].timer + 1 >= NumProc

\* ResetExpiredHARQ comes before the feedback is looked at.
Expires(p) == Active(p) /\ proc[p].timer >= NumProc

Expired == {p \in Processes : Expires(p)}
Kept == {p \in Processes : Active(p) /\ ~Expires(p)}

Waiting == {retransmit[j] : j \in DOMAIN retransmit}

\* MergeHARQ, without what is late or there twice; the older one counts.
Acked == (Kept \cap {f.p : f \in {g \in received : g.ok}}) \ Waiting
Nacked == (Kept \cap (Waiting \cup {f.p : f \in received})) \ Acked

\* ProcessHARQFeedbacks erases what was decoded or sent often enough.
Dropped == {p \in Nacked : proc[p].rv = MaxRv}
Again == Nacked \ Dropped

\* Variant: the timer only runs.
FreedByFeedback == Acked \cup Dropped

Freed == Expired \cup Acked \cup Dropped

\* The orders of a set.
Orders(S) == {q \in [1..Cardinality(S) -> S] :
                \A j, k \in 1..Cardinality(S) : j # k => q[j] # q[k]}

Before(q, x, y) == \E j, k \in DOMAIN q : j < k /\ q[j] = x /\ q[k] = y

\* MergeHARQ: the NACKs that wait come first, in their order.
Merged(x, y) == x \in Waiting /\ (y \in Waiting => Before(retransmit, x, y))

\* Variant: fewer symbols first.
FewestSymbols(x, y) == Sym(x) < Sym(y) \/ (Sym(x) = Sym(y) /\ Merged(x, y))

\* The stable sort of SortDlHarq: more symbols first, then as merged.
Precedes(x, y) == Sym(x) > Sym(y) \/ (Sym(x) = Sym(y) /\ Merged(x, y))

Sorted(again) ==
  {q \in Orders(again) : \A j, k \in DOMAIN q : j < k => ~Precedes(q[k], q[j])}

\* ScheduleDlHarq looks at the blocks in order.  One for a UE is sent, and each
\* takes its symbols from avail, although all start at the same one; a block
\* stays behind if they do not suffice, if the fronthaul refuses it, or beside
\* one sent before it: the UE's, or one in its RBGs or symbols.
Resends(q, sent, avail) ==
  /\ \A p \in sent : Sym(p) <= avail
  /\ SE!MapThenSumSet(Sym, sent) <= avail
  /\ \A p, r \in sent : p[1] = r[1] => p = r
  /\ \A j \in DOMAIN q : q[j] \notin sent =>
       Sym(q[j]) > avail \/ Fronthaul \/ \E i \in 1..(j - 1) : q[i] \in sent

\* The longest retransmission leaves so many symbols for new blocks.
LeavesFor(sent, avail, left) ==
  /\ \A p \in sent : Sym(p) <= avail - left
  /\ left < avail => \E p \in sent : Sym(p) = avail - left

\* What is not sent is buffered in that order.
Buffers(q, rest) == \A x, y \in DOMAIN rest : x < y => Before(q, rest[x], rest[y])

Count(S, u) == Cardinality({p \in S : p[1] = u})

CanInsert(u, freed) == used[u] - Count(freed, u) < NumProc

\* Which of the free ones comes first in the map of processes is open.
FirstAvailableId(u, freed) ==
  CHOOSE i \in 0..(NumProc - 1) : ~Active(<<u, i>>) \/ <<u, i>> \in freed

\* DPPA gives some of the UEs RBGs that have data, a free process and no
\* retransmission in this slot.
Inserted(ues, freed) == {<<u, FirstAvailableId(u, freed)>> : u \in ues}

Process(p, freed, again, sent, new, left) ==
  CASE p \in new -> NewBlock(left)
    [] p \in freed \ new -> Erased
    [] p \in sent -> [proc[p] EXCEPT !.timer = 0, !.rv = @ + 1]
    [] p \in again \ sent -> [proc[p] EXCEPT !.timer = 0]
    [] Active(p) /\ p \notin freed \cup again \cup new -> [proc[p] EXCEPT !.timer = @ + 1]
    [] OTHER -> proc[p]

\* filled are the new blocks RLC had a PDU for; an empty burst is sent, and
\* nobody answers it.
Transmit(sent, new, filled) ==
  /\ packets' = [p \in Processes |-> IF p \in new THEN p \in filled ELSE packets[p]]
  /\ air' = {[a EXCEPT !.age = @ + 1] : a \in air} \cup
            {[p |-> p, age |-> 0] : p \in filled \cup {r \in sent : packets[r]}}

\* DoSlotDlIndication, the scheduler, and DoSchedConfigIndication, in a slot of
\* which the uplink leaves avail symbols.
Slot(avail) ==
  LET freed == Freed
      again == Again
  IN
  /\ \A a \in air : a.age + 1 < MaxDelay
  /\ \E q \in Sorted(again), sent \in SUBSET again :
       /\ Resends(q, sent, avail)
       /\ \E rest \in Orders(again \ sent) :
            Buffers(q, rest) /\ retransmit' = rest
       /\ \E ues \in SUBSET {u \in UEs : CanInsert(u, freed) /\ Count(sent, u) = 0},
             left \in 0..avail :
            LET new == Inserted(ues, freed) IN
            /\ LeavesFor(sent, avail, left)
            /\ ues # {} => left > 0
            /\ proc' = [p \in Processes |-> Process(p, freed, again, sent, new, left)]
            /\ used' = [u \in UEs |-> used[u] - Count(freed, u) + Count(new, u)]
            /\ \E filled \in SUBSET new : Transmit(sent, new, filled)
  /\ received' = {}

SchedDlTrigger == \E avail \in 0..MaxSym : Slot(avail)

ReceiveFeedback == \E a \in air, ok \in BOOLEAN : Receive(a, ok)

Next == SchedDlTrigger \/ ReceiveFeedback

\* Slots follow each other, among them again and again one without uplink, and
\* what is on the air arrives.
Fairness == SF_vars(Slot(MaxSym)) /\ WF_vars(ReceiveFeedback)

Spec == Init /\ [][Next]_vars
FairSpec == Spec /\ Fairness

-----------------------------------------------------------------------------
(* Properties.                                                             *)

\* Every variable keeps its type, and the size kept beside the map of
\* processes is the number of active ones (nr-mac-harq-vector.cc:24).
TypeOK ==
  /\ proc \in [Processes -> [active : BOOLEAN, timer : 0..NumProc, rv : 0..MaxRv, sym : 0..MaxSym]]
  /\ \A u \in UEs : used[u] = Cardinality({p \in Processes : p[1] = u /\ Active(p)})
  /\ \A j \in DOMAIN retransmit : retransmit[j] \in Processes
  /\ received \subseteq [p : Processes, ok : BOOLEAN]
  /\ packets \in [Processes -> BOOLEAN]
  /\ air \subseteq [p : Processes, age : 0..(MaxDelay - 1)]

\* A process holds its block until the feedback of it was used, or until one
\* slot before the feedback is read, which is then dropped as late: none is
\* taken for the next block in the process, none meets the NACK of the same
\* block in the buffer, and no NACK is buffered twice, whatever the order of
\* expiry, buffering and reuse in a slot (nr-mac-scheduler-ns3.cc:1138, 2484).
OneFeedback ==
  /\ \A a \in air : Active(a.p) /\ proc[a.p].timer = a.age
  /\ \A f \in received : Active(f.p)
  /\ \A f, g \in received \cup air : f.p = g.p => f = g
  /\ \A p \in Waiting : p \in Kept /\ \A f \in received \cup air : f.p # p
  /\ \A j, k \in DOMAIN retransmit : retransmit[j] = retransmit[k] => j = k

\* What the scheduler may send again is still in the buffer of the MAC, which
\* is emptied by an ACK on its own, before the scheduler knows of it
\* (nr-gnb-mac.cc:1059): a retransmission is never empty.
PacketsKept ==
  /\ \A p \in Waiting : packets[p]
  /\ \A f \in received : f.ok \/ packets[f.p]
  /\ \A a \in air : packets[a.p]

\* The process is free or has a new block, or one of less than half a slot.
FreeOrSmall(p) ==
  \/ ~Active(p)
  \/ proc[p].rv = 0 /\ proc[p].timer = 0 /\ p \notin Waiting
  \/ 2 * Sym(p) < MaxSym

\* Every block of half a slot or more leaves its process: decoded, sent often
\* enough, or forgotten because it was empty and nobody answers it; its NACK does
\* not wait for resources for ever, although its timer is set back in every slot
\* (nr-mac-scheduler-harq-rr.cc:178) and larger blocks are sent first (:487).
\* A smaller block may wait for ever.
LargeFreed == \A p \in Processes : []<>FreeOrSmall(p)

=============================================================================
