---------------------------- MODULE ActionService ----------------------------
(***************************************************************************)
(* What ns-3 expects of the decision server (README.md:45-51): it reports  *)
(* its state, waits, and continues with weights computed from that very    *)
(* state, or with the neutral weights Zero.  Nothing is said of learners,  *)
(* threads or queues; TrainingLoop is shown to implement this module.      *)
(***************************************************************************)
EXTENDS Naturals

CONSTANT Zero   \* the action v = 0, wq = 0, wg = 0

VARIABLES
  phase,     \* "off": no simulation; "run": simulating; "wait": in the POST
  asked,     \* number of state reports sent so far
  applied    \* the report the weights in force were computed from, or Zero

vars == <<phase, asked, applied>>

Init ==
  /\ phase = "off"
  /\ asked = 0
  /\ applied = Zero

\* A simulation process starts, with the neutral weights.
Start ==
  /\ phase = "off"
  /\ phase' = "run"
  /\ UNCHANGED <<asked, applied>>

Ask ==
  /\ phase = "run"
  /\ phase' = "wait"
  /\ asked' = asked + 1
  /\ UNCHANGED applied

\* The call returns: with an action for this report, or with Zero.
Answer ==
  /\ phase = "wait"
  /\ phase' = "run"
  /\ applied' \in {asked, Zero}
  /\ UNCHANGED asked

\* The simulation ends, possibly in the middle of a call; its weights are gone.
Stop ==
  /\ phase # "off"
  /\ phase' = "off"
  /\ applied' = Zero
  /\ UNCHANGED asked

Next == Start \/ Ask \/ Answer \/ Stop

Spec == Init /\ [][Next]_vars /\ WF_vars(Answer)

=============================================================================
