------------------------------- MODULE SlotLog -------------------------------
(***************************************************************************)
(* SimulationDataLogger: what the scheduler logs for the UEs of a slot is  *)
(* kept in static vectors and appended to files, in the middle of a slot   *)
(* and at the end of the simulation.  The files outlive the simulation: a  *)
(* next one in the same directory appends to them.                         *)
(*                                                                         *)
(* An entry is the number of the simulation, the UE, and the position of   *)
(* the entry in that simulation; the logged values play no part.  The      *)
(* rows that DPPA writes to alpha.txt itself are left out.                 *)
(***************************************************************************)
EXTENDS Integers, Sequences

CONSTANTS
  UEs,       \* RNTIs; 1 is the UE whose entries flush the vectors
  Capacity,  \* 1000 in the code
  MaxSims,   \* bound: simulations
  MaxLog     \* bound: entries of a simulation

ASSUME LogAssumption ==
  UEs \subseteq Nat /\ Capacity \in Nat \ {0} /\ MaxSims \in Nat /\ MaxLog \in Nat

VARIABLES
  sim,      \* simulations started so far; the last one may still run
  mode,     \* per simulation, its scheduler while it runs, or how it ended
  seen,     \* UEs the scheduler visited in this slot
  logged,   \* per simulation, entries logged for the queues
  shared,   \* per simulation, entries logged for the RBGs
  m_queueQEntries, m_queueGEntries, m_rbgAllocationEntries,
  queue_q, queue_g, alpha   \* the files

buffers == <<m_queueQEntries, m_queueGEntries, m_rbgAllocationEntries>>
files == <<queue_q, queue_g, alpha>>
vars == <<sim, mode, seen, logged, shared, buffers, files>>

Header == [sim |-> 0, ue |-> 0, n |-> 0]
Runs(scheduler) == sim > 0 /\ mode[sim] = scheduler
Running == Runs("DPPA") \/ Runs("other")

Init ==
  /\ sim = 0 /\ mode = [s \in 1..MaxSims |-> "no"] /\ seen = {}
  /\ logged = [s \in 1..MaxSims |-> 0] /\ shared = [s \in 1..MaxSims |-> 0]
  /\ m_queueQEntries = <<>> /\ m_queueGEntries = <<>> /\ m_rbgAllocationEntries = <<>>
  /\ queue_q = <<>> /\ queue_g = <<>> /\ alpha = <<>>

\* A new process has new static vectors.
StartSimulation(scheduler) ==
  /\ ~Running /\ sim < MaxSims
  /\ sim' = sim + 1 /\ mode' = [mode EXCEPT ![sim + 1] = scheduler] /\ seen' = {}
  /\ m_queueQEntries' = <<>> /\ m_queueGEntries' = <<>> /\ m_rbgAllocationEntries' = <<>>
  /\ UNCHANGED <<logged, shared, files>>

\* The file after SaveToFiles, which leaves the vector alone.
Saved(file, entries) == (IF file = <<>> THEN <<Header>> ELSE file) \o entries

Entry(u, n) == [sim |-> sim, ue |-> u, n |-> n]

\* Variant: one entry later.
DueLate(u, entries) == u = 1 /\ Len(entries) > Capacity + 1

Due(u, entries) == u = 1 /\ Len(entries) > Capacity

\* Variant: a flush leaves what it wrote in the vectors.
LeftAlone(entries) == entries

Cleared(entries) == <<>>

\* saveQueuesState, for a UE of the slot: G first, and Q may flush both.
BeforeDlSched(u) ==
  LET e == Entry(u, logged[sim] + 1)
      g == Append(m_queueGEntries, e)
      q == Append(m_queueQEntries, e)
  IN
  /\ Runs("DPPA") /\ u \notin seen /\ logged[sim] < MaxLog
  /\ seen' = seen \cup {u}
  /\ logged' = [logged EXCEPT ![sim] = @ + 1]
  /\ IF Due(u, q)
     THEN /\ queue_q' = Saved(queue_q, q)
          /\ queue_g' = Saved(queue_g, g)
          /\ m_queueQEntries' = Cleared(q) /\ m_queueGEntries' = Cleared(g)
          /\ alpha' = Saved(alpha, m_rbgAllocationEntries)
     ELSE /\ m_queueQEntries' = q /\ m_queueGEntries' = g
          /\ UNCHANGED files
  /\ UNCHANGED <<sim, mode, shared, m_rbgAllocationEntries>>

\* The other schedulers log the RBGs of the UEs of a slot, and no queues.
LogRBGAllocation(u) ==
  /\ Runs("other") /\ u \notin seen /\ shared[sim] < MaxLog
  /\ seen' = seen \cup {u}
  /\ shared' = [shared EXCEPT ![sim] = @ + 1]
  /\ m_rbgAllocationEntries' = Append(m_rbgAllocationEntries, Entry(u, shared[sim] + 1))
  /\ UNCHANGED <<sim, mode, logged, m_queueQEntries, m_queueGEntries, files>>

\* At its end DPPA writes to a stream of its own, whose first use empties the
\* file; without the rows of that stream, later uses change nothing.
EndSlot ==
  /\ Running /\ seen # {} /\ seen' = {}
  /\ alpha' = IF Runs("DPPA") THEN <<Header>> ELSE alpha
  /\ UNCHANGED <<sim, mode, logged, shared, buffers, queue_q, queue_g>>

\* The last statement but one of main.
Finish ==
  /\ Running
  /\ mode' = [mode EXCEPT ![sim] = "finished"]
  /\ queue_q' = Saved(queue_q, m_queueQEntries)
  /\ queue_g' = Saved(queue_g, m_queueGEntries)
  /\ alpha' = Saved(alpha, m_rbgAllocationEntries)
  /\ UNCHANGED <<sim, seen, logged, shared, buffers>>

\* An exception, as of an answer of the server that has no action.
Crash ==
  /\ Running /\ mode' = [mode EXCEPT ![sim] = "crashed"]
  /\ UNCHANGED <<sim, seen, logged, shared, buffers, files>>

Next ==
  \/ \E scheduler \in {"DPPA", "other"} : StartSimulation(scheduler)
  \/ \E u \in UEs : BeforeDlSched(u)
  \/ \E u \in UEs : LogRBGAllocation(u)
  \/ EndSlot
  \/ Finish
  \/ Crash

Spec == Init /\ [][Next]_vars

-----------------------------------------------------------------------------
(* Properties.                                                             *)

\* The positions and numbers of the entries of simulation s in a file, and the
\* entries of the running one in the vector that goes to it.
Of(file, s) == {j \in DOMAIN file : file[j].sim = s}
Numbers(file, s) == {file[j].n : j \in Of(file, s)}
Kept(entries, s) == IF s = sim /\ Running THEN entries ELSE <<>>

\* Entries 1 to some number, each once, in their order: all of those logged,
\* unless the simulation crashed.
InOrder(rows, s) == \A j, k \in Of(rows, s) : j < k => rows[j].n < rows[k].n
NoGap(rows, s) == \A n \in Numbers(rows, s) : 1..n \subseteq Numbers(rows, s)
Complete(rows, s, total) ==
  /\ InOrder(rows, s) /\ NoGap(rows, s)
  /\ Numbers(rows, s) \subseteq 1..total
  /\ mode[s] # "crashed" => 1..total \subseteq Numbers(rows, s)

\* Row by row the two queue files are about the same UE and slot and hold each
\* entry once, whatever simulations wrote them, finished or crashed: the
\* vectors are saved in the middle of a slot, between the entries of two UEs,
\* and both are emptied by the entries of one (simulation-data-logger.cc:67).
\* So are the RBG entries, although nothing empties their vector and every
\* flush writes it: a simulation logs queues or RBGs, never both (line 180).
\* Rows of them may be missing: a later DPPA simulation empties the file.
RowsMatch ==
  /\ queue_q = queue_g
  /\ queue_q # <<>> => queue_q[1] = Header /\ \A j \in 2..Len(queue_q) : queue_q[j] # Header
  /\ \A s \in 1..sim :
       Complete(queue_q \o Kept(m_queueQEntries, s), s, logged[s])
  /\ \A j, k \in DOMAIN alpha : j # k => alpha[j] # alpha[k]

\* A crash loses the last Capacity entries and what came since UE 1 last had
\* data: no entry of UE 1 waits behind more than that (line 67).
LossBounded ==
  \A j \in DOMAIN m_queueQEntries : m_queueQEntries[j].ue = 1 => j <= Capacity

==============================================================================
