--------------------------- MODULE MCDppaAllocation ---------------------------
(* Instances of DppaAllocation for TLC. *)
EXTENDS DppaAllocation

CONSTANTS u1, u2, u3, u4

\* Weights on either side of -V, two MCS, ties, small and large buffers; two
\* RBGs at MCS 2 are exactly the larger buffer.
WidebandInputs == [k : {-4, -3, -1}, mcs : {1, 2}, g : {0, 1}, buf : {4, 24}]

\* With sub-band feedback the wideband values matter little.
SubbandInputs == [k : {-3, -1}, mcs : {2}, g : {0}, buf : {4, 20}]

\* Four UEs: the smallest beam in which the flag is stale again after a UE has
\* been reaped.
FourInputs == [k : {-3, -1, 0}, mcs : {2}, g : {0}, buf : {4, 24}]

MCInputs == WidebandInputs \cup SubbandInputs \cup FourInputs

\* Bytes per RBG: at MCS 1 one RBG, and two RBGs, are under the minimum.
MCTbPerRbg == [m \in 0..6 |-> IF m = 0 THEN 3 ELSE IF m = 1 THEN 4 ELSE 6 * m]

WidebandCell(fh) ==
  [ues |-> {u1, u2}, subband |-> FALSE, fronthaul |-> fh,
   inputs |-> {i \in WidebandInputs \cup SubbandInputs : fh = "OptimizeRBs" => i.mcs = 2}]

SubbandCell(fh) ==
  [ues |-> {u1, u2}, subband |-> TRUE, fronthaul |-> fh,
   inputs |-> {i \in SubbandInputs : fh = "OptimizeRBs" => i.k = -3}]

\* The RBGs the fronthaul always grants are a minimal transport block, as five
\* are in the code.  Four and three UEs without a fronthaul limit; two with
\* every method and either CQI.
MCCells ==
  {[WidebandCell("None") EXCEPT !.ues = {u1, u2, u3}, !.inputs = WidebandInputs],
   [WidebandCell("None") EXCEPT !.ues = UEs, !.inputs = FourInputs],
   WidebandCell("Postponing"), WidebandCell("OptimizeRBs"),
   SubbandCell("None"), SubbandCell("OptimizeRBs")}

MCWideband == {WidebandCell("None")}
=============================================================================
