-------------------------- MODULE LearningCurveProofs --------------------------
(***************************************************************************)
(* Theorems about LearningCurve, for any environment types, target and     *)
(* length of a transition, and any number of rows and restarts.            *)
(***************************************************************************)
EXTENDS LearningCurve, SequenceTheorems, TLAPS

USE CurveAssumption, FileAssumption

-----------------------------------------------------------------------------
(* Sequences of rows.                                                      *)

\* What appending a row does.
LEMMA Appended ==
  ASSUME NEW s \in Seq(Row), NEW row \in Row
  PROVE  /\ Append(s, row) \in Seq(Row) /\ Len(Append(s, row)) = Len(s) + 1
         /\ \A i \in 1..Len(s) : Append(s, row)[i] = s[i]
         /\ Append(s, row)[Len(s) + 1] = row
         /\ SubSeq(Append(s, row), 1, Len(s)) = s
<1>1. PICK t : t = Append(s, row)
  OBVIOUS
<1>2. /\ t \in Seq(Row) /\ Len(t) = Len(s) + 1 /\ Len(s) \in Nat
      /\ \A i \in 1..Len(s) : t[i] = s[i]
      /\ t[Len(s) + 1] = row
  BY <1>1
<1>3. SubSeq(t, 1, Len(s)) \in Seq(Row) /\ Len(SubSeq(t, 1, Len(s))) = Len(s)
      /\ \A i \in 1..Len(s) : SubSeq(t, 1, Len(s))[i] = t[i]
  <2>1. \A i \in 1..Len(s) : t[i] \in Row
    BY <1>2, ElementOfSeq
  <2>2. /\ SubSeq(t, 1, Len(s)) \in Seq(Row)
        /\ Len(SubSeq(t, 1, Len(s))) = IF 1 <= Len(s) THEN Len(s) - 1 + 1 ELSE 0
        /\ \A i \in 1..(Len(s) - 1 + 1) : SubSeq(t, 1, Len(s))[i] = t[1 + i - 1]
    BY <1>2, <2>1, SubSeqProperties
  <2>3. QED
    BY <1>2, <2>2
<1>4. SubSeq(t, 1, Len(s)) = s
  BY <1>2, <1>3, SeqEqual
<1>5. QED
  BY <1>1, <1>2, <1>4

\* A row with the next number and step keeps rows consecutive.
LEMMA AppendConsecutive ==
  ASSUME NEW s \in Seq(Row), NEW row \in Row, Consecutive(s),
         Len(s) > 0 => row.idx = s[Len(s)].idx + 1 /\ row.step = s[Len(s)].step + 1
  PROVE  Consecutive(Append(s, row))
<1>1. PICK t : t = Append(s, row)
  OBVIOUS
<1>2. /\ Len(t) = Len(s) + 1 /\ Len(s) \in Nat
      /\ \A i \in 1..Len(s) : t[i] = s[i]
      /\ t[Len(s) + 1] = row
  BY <1>1, Appended
<1>3. SUFFICES ASSUME NEW i \in 1..(Len(t) - 1)
               PROVE  t[i + 1].idx = t[i].idx + 1 /\ t[i + 1].step = t[i].step + 1
  BY <1>1 DEF Consecutive
<1>4. CASE i = Len(s)
  BY <1>2, <1>3, <1>4
<1>5. CASE i < Len(s)
  <2>1. i \in 1..(Len(s) - 1) /\ i + 1 \in 1..Len(s) /\ i \in 1..Len(s)
    BY <1>2, <1>3, <1>5
  <2>2. s[i + 1].idx = s[i].idx + 1 /\ s[i + 1].step = s[i].step + 1
    BY <2>1 DEF Consecutive
  <2>3. QED
    BY <1>2, <2>1, <2>2
<1>6. QED
  BY <1>2, <1>3, <1>4, <1>5

-----------------------------------------------------------------------------
(* What a step does to a curve.                                            *)

\* A curve that exists is a sequence of rows; one that can be loaded has some.
LEMMA Curves ==
  ASSUME TypeOK, NEW e \in EnvTypes
  PROVE  /\ curve[e] # NoFile => curve[e] \in Curve /\ curve[e].rows \in Seq(Row)
         /\ Loadable(e) =>
              /\ curve[e] # NoFile /\ Len(curve[e].rows) > 0 /\ LastRow(e) \in Row
<1>1. curve[e] # NoFile => curve[e] \in Curve /\ curve[e].rows \in Seq(Row)
  BY DEF TypeOK, Curve
<1>2. ASSUME Loadable(e)
      PROVE  curve[e] # NoFile /\ Len(curve[e].rows) > 0 /\ LastRow(e) \in Row
  <2>1. curve[e] # NoFile
    <3>1. curve[e] = NoFile => Lines(e) = 0
      BY Zenon DEF Lines
    <3>2. QED
      BY <1>2, <3>1 DEF Loadable
  <2>2. Len(curve[e].rows) \in Nat
    BY <1>1, <2>1
  <2>3. Len(curve[e].rows) > 0
    <3>1. Lines(e) = Len(curve[e].rows) + (IF curve[e].header THEN 1 ELSE 0)
      BY <2>1, Zenon DEF Lines
    <3>2. PICK n : n = IF curve[e].header THEN 1 ELSE 0
      OBVIOUS
    <3>3. n \in {0, 1}
      BY <3>2, Zenon
    <3>4. Lines(e) = Len(curve[e].rows) + n
      BY <3>1, <3>2
    <3>5. QED
      BY <1>2, <2>2, <3>3, <3>4 DEF Loadable
  <2>4. QED
    BY <1>1, <2>1, <2>2, <2>3, ElementOfSeq DEF LastRow
<1>3. QED
  BY <1>1, <1>2

\* The next row of the curve of the environment type in force.
NextRow(by) == [idx |-> csv_index, step |-> steps_counter + 1, by |-> by]

\* The rows of a file, if there is one.
Rows(e) == IF curve[e] = NoFile THEN <<>> ELSE curve[e].rows

\* Appending it leaves the other curves alone.
LEMMA AppendRowEffect ==
  ASSUME TypeOK, NEW by \in {"train", "transition", "stray"}, AppendRow(by)
  PROVE  /\ NextRow(by) \in Row
         /\ curve' \in [EnvTypes -> Curve \cup {NoFile}]
         /\ csv_index' \in Nat /\ steps_counter' \in Nat
         /\ \A e \in EnvTypes : e # env_type => curve'[e] = curve[e]
         /\ curve'[env_type] \in Curve
         /\ curve'[env_type].rows = Append(Rows(env_type), NextRow(by))
         /\ curve[env_type] # NoFile => curve'[env_type].header = curve[env_type].header
<1>1. PICK row : row = NextRow(by)
  OBVIOUS
<1>2. row \in Row
  BY <1>1 DEF TypeOK, NextRow, Row
<1>3. curve' = [curve EXCEPT ![env_type] = WithRow(env_type, row)]
  BY <1>1 DEF AppendRow, NextRow
<1>4. /\ WithRow(env_type, row) \in Curve
      /\ WithRow(env_type, row).rows = Append(Rows(env_type), row)
      /\ curve[env_type] # NoFile => WithRow(env_type, row).header = curve[env_type].header
  <2>1. CASE curve[env_type] = NoFile
    <3>1. WithRow(env_type, row) = [header |-> FALSE, rows |-> <<row>>]
      BY <2>1 DEF WithRow
    <3>2. <<row>> = Append(<<>>, row) /\ <<row>> \in Seq(Row)
      BY <1>2
    <3>3. [header |-> FALSE, rows |-> <<row>>] \in Curve
      BY <3>2, Zenon DEF Curve
    <3>4. QED
      BY <2>1, <3>1, <3>2, <3>3 DEF Rows
  <2>2. CASE curve[env_type] # NoFile
    <3>1. curve[env_type] \in Curve
      BY <2>2 DEF TypeOK
    <3>2. WithRow(env_type, row) = [curve[env_type] EXCEPT !.rows = Append(@, row)]
      BY <2>2 DEF WithRow
    <3>3. Append(curve[env_type].rows, row) \in Seq(Row)
      BY <1>2, <3>1 DEF Curve
    <3>4. QED
      BY <2>2, <3>1, <3>2, <3>3 DEF Curve, Rows
  <2>3. QED
    BY <2>1, <2>2
<1>5. env_type \in EnvTypes /\ curve \in [EnvTypes -> Curve \cup {NoFile}]
  BY DEF TypeOK
<1>6. curve' \in [EnvTypes -> Curve \cup {NoFile}] /\ curve'[env_type] = WithRow(env_type, row)
      /\ \A e \in EnvTypes : e # env_type => curve'[e] = curve[e]
  BY <1>3, <1>4, <1>5
<1>7. csv_index' \in Nat /\ steps_counter' \in Nat
  BY DEF AppendRow, TypeOK
<1>8. QED
  BY <1>1, <1>2, <1>4, <1>6, <1>7

\* Counters that are loaded follow the last row.
LEMMA Loaded ==
  ASSUME TypeOK, NEW e \in EnvTypes, load_training_state(e)
  PROVE  /\ csv_index' \in Nat /\ steps_counter' \in Nat
         /\ Loadable(e) => csv_index' = LastRow(e).idx + 1 /\ steps_counter' = LastRow(e).step
<1>1. CASE Loadable(e)
  <2>1. LastRow(e).idx \in Nat /\ LastRow(e).step \in Nat
    BY <1>1, Curves DEF Row
  <2>2. QED
    BY <1>1, <2>1 DEF load_training_state, NextIndex
<1>2. CASE ~Loadable(e)
  BY <1>2 DEF load_training_state
<1>3. QED
  BY <1>1, <1>2

\* A /configure sets the curve of its type up, or leaves it.
LEMMA Configured ==
  ASSUME TypeOK, NEW e \in EnvTypes, Configure(e)
  PROVE  /\ curve' \in [EnvTypes -> Curve \cup {NoFile}]
         /\ \A f \in EnvTypes : f # e => curve'[f] = curve[f]
         /\ Loadable(e) => curve'[e] = curve[e]
         /\ ~Loadable(e) => curve'[e] = [header |-> TRUE, rows |-> <<>>]
<1>1. [header |-> TRUE, rows |-> <<>>] \in Curve
  <2>1. <<>> \in Seq(Row)
    OBVIOUS
  <2>2. QED
    BY <2>1, Zenon DEF Curve
<1>2. QED
  BY <1>1 DEF Configure, TypeOK

\* Every step is one of four kinds.
LEMMA StepKinds ==
  ASSUME TypeOK, [Next]_vars
  PROVE  \/ UNCHANGED curve
         \/ \E e \in EnvTypes : Configure(e)
         \/ InferTransition
         \/ Infer
BY DEF Next, ConfigureContinue, Restart, vars, disk

-----------------------------------------------------------------------------
(* Type correctness.                                                       *)

\* Every step preserves the types.
LEMMA NextType == TypeOK /\ [Next]_vars => TypeOK'
<1> SUFFICES ASSUME TypeOK, [Next]_vars PROVE TypeOK'
  OBVIOUS
<1>1. CASE ConfigureContinue
  <2>1. csv_index' \in Nat /\ steps_counter' \in Nat
    BY <1>1, Loaded DEF ConfigureContinue, TypeOK
  <2>2. QED
    BY <1>1, <2>1 DEF ConfigureContinue, disk, TypeOK
<1>2. ASSUME NEW e \in EnvTypes, Configure(e) PROVE TypeOK'
  <2>1. csv_index' \in Nat /\ steps_counter' \in Nat
    BY <1>2, Loaded DEF Configure
  <2>2. curve' \in [EnvTypes -> Curve \cup {NoFile}]
    BY <1>2, Configured
  <2>3. configured' \in BOOLEAN /\ running' \in BOOLEAN
    BY <1>2, Zenon DEF Configure
  <2>4. QED
    BY <1>2, <2>1, <2>2, <2>3 DEF Configure, TypeOK
<1>3. CASE InferTransition
  <2>1. AppendRow("transition")
    BY <1>3 DEF InferTransition
  <2>2. curve' \in [EnvTypes -> Curve \cup {NoFile}] /\ csv_index' \in Nat /\ steps_counter' \in Nat
    BY <2>1, AppendRowEffect
  <2>3. transLeft' \in 0..Transition
    BY <1>3 DEF InferTransition, InTransition, TypeOK
  <2>4. QED
    BY <1>3, <2>2, <2>3 DEF InferTransition, TypeOK
<1>4. CASE Infer
  <2>1. AppendRow(IF configured THEN "train" ELSE "stray")
    BY <1>4 DEF Infer
  <2>2. curve' \in [EnvTypes -> Curve \cup {NoFile}] /\ csv_index' \in Nat /\ steps_counter' \in Nat
    BY <2>1, AppendRowEffect
  <2>3. saved' \subseteq EnvTypes
    BY <1>4 DEF Infer, TypeOK
  <2>4. QED
    BY <1>4, <2>2, <2>3 DEF Infer, TypeOK
<1>5. CASE Restart
  <2>1. saved' \subseteq EnvTypes
    BY <1>5 DEF Restart, TypeOK
  <2>2. configured' \in BOOLEAN /\ running' \in BOOLEAN
    BY <1>5, Zenon DEF Restart, Fresh
  <2>3. QED
    BY <1>5, <2>1, <2>2 DEF Restart, Fresh, TypeOK
<1>6. CASE UNCHANGED vars
  BY <1>6 DEF vars, memory, disk, TypeOK
<1>7. QED
  BY <1>1, <1>2, <1>3, <1>4, <1>5, <1>6 DEF Next

\* Every variable keeps its type.
THEOREM TypeCorrect == Spec => []TypeOK
<1>1. ASSUME Init PROVE TypeOK
  <2>1. configured \in BOOLEAN /\ running \in BOOLEAN
    BY <1>1, Zenon DEF Init
  <2>2. QED
    BY <1>1, <2>1 DEF Init, TypeOK
<1>2. TypeOK /\ [Next]_vars => TypeOK'
  BY NextType
<1>3. QED
  BY <1>1, <1>2, PTL DEF Spec

-----------------------------------------------------------------------------
(* Numbering.                                                              *)

\* Who writes rows in a training or a transition was configured.
Started == running \/ transLeft > 0 => configured

\* Then the counters follow the last row of the curve in force, and what the
\* curve has can be loaded.
Numbered ==
  configured =>
    /\ curve[env_type] # NoFile
    /\ curve[env_type].header \/ Len(curve[env_type].rows) > 1
    /\ Len(curve[env_type].rows) > 0 =>
         csv_index = LastRow(env_type).idx + 1 /\ steps_counter = LastRow(env_type).step

\* The lines of a curve that exists.
LEMMA LinesOfCurve ==
  ASSUME TypeOK, NEW e \in EnvTypes, curve[e] # NoFile
  PROVE  /\ Len(curve[e].rows) \in Nat
         /\ curve[e].header => Lines(e) = Len(curve[e].rows) + 1
         /\ ~curve[e].header => Lines(e) = Len(curve[e].rows)
<1>1. Lines(e) = Len(curve[e].rows) + (IF curve[e].header THEN 1 ELSE 0)
  BY Zenon DEF Lines
<1>2. Len(curve[e].rows) \in Nat
  BY Curves
<1>3. PICK n : n = IF curve[e].header THEN 1 ELSE 0
  OBVIOUS
<1>4. (curve[e].header => n = 1) /\ (~curve[e].header => n = 0)
  BY <1>3, Zenon
<1>5. Lines(e) = Len(curve[e].rows) + n
  BY <1>1, <1>3
<1>6. QED
  BY <1>2, <1>4, <1>5

\* A row that is appended is the one the counters follow then.
LEMMA AppendNumbered ==
  ASSUME TypeOK, Numbered, NEW by \in {"train", "transition", "stray"}, AppendRow(by), configured,
         env_type' = env_type
  PROVE  Numbered'
<1>1. /\ NextRow(by) \in Row
      /\ curve'[env_type].rows = Append(Rows(env_type), NextRow(by))
      /\ curve'[env_type].header = curve[env_type].header
      /\ curve'[env_type] \in Curve
  BY AppendRowEffect DEF Numbered
<1>2. Rows(env_type) = curve[env_type].rows /\ Rows(env_type) \in Seq(Row)
  BY Curves DEF Numbered, Rows, TypeOK
<1>3. /\ Len(curve'[env_type].rows) = Len(curve[env_type].rows) + 1
      /\ curve'[env_type].rows[Len(curve[env_type].rows) + 1] = NextRow(by)
      /\ Len(curve[env_type].rows) \in Nat
  BY <1>1, <1>2, Appended
<1>4. csv_index' = csv_index + 1 /\ steps_counter' = steps_counter + 1
  BY DEF AppendRow
<1>5. NextRow(by).idx = csv_index /\ NextRow(by).step = steps_counter + 1
  BY DEF NextRow
<1>6. LastRow(env_type)' = NextRow(by)
  BY <1>3 DEF LastRow
<1>7. curve'[env_type] # NoFile
  BY <1>1
<1>8. curve'[env_type].header \/ Len(curve'[env_type].rows) > 1
  BY <1>1, <1>3 DEF Numbered
<1>9. QED
  BY <1>4, <1>5, <1>6, <1>7, <1>8 DEF Numbered

\* Every step keeps the counters with the curve.
LEMMA NextNumbered ==
  TypeOK /\ Started /\ Numbered /\ [Next]_vars => Started' /\ Numbered'
<1> SUFFICES ASSUME TypeOK, Started, Numbered, [Next]_vars PROVE Started' /\ Numbered'
  OBVIOUS
<1>1. CASE ConfigureContinue
  <2>1. configured /\ env_type \in EnvTypes /\ UNCHANGED <<env_type, configured, running, curve>>
    BY <1>1 DEF ConfigureContinue, Started, disk, TypeOK
  <2>2. CASE Loadable(env_type)
    <3>1. csv_index' = LastRow(env_type).idx + 1 /\ steps_counter' = LastRow(env_type).step
      BY <1>1, <2>1, <2>2, Loaded DEF ConfigureContinue
    <3>2. QED
      BY <2>1, <3>1 DEF Numbered, LastRow, Started
  <2>3. CASE ~Loadable(env_type)
    <3>1. Len(curve[env_type].rows) = 0
      BY <2>1, <2>3, LinesOfCurve DEF Numbered, Loadable
    <3>2. QED
      BY <2>1, <3>1 DEF Numbered, Started
  <2>4. QED
    BY <2>2, <2>3
<1>2. ASSUME NEW e \in EnvTypes, Configure(e) PROVE Started' /\ Numbered'
  <2>1. env_type' = e /\ configured'
    BY <1>2 DEF Configure
  <2>2. CASE Loadable(e)
    <3>1. csv_index' = LastRow(e).idx + 1 /\ steps_counter' = LastRow(e).step
      BY <1>2, <2>2, Loaded DEF Configure
    <3>2. curve'[e] = curve[e] /\ curve[e] # NoFile
      BY <1>2, <2>2, Configured, Curves
    <3>3. curve[e].header \/ Len(curve[e].rows) > 1
      BY <2>2, <3>2, LinesOfCurve DEF Loadable
    <3>4. QED
      BY <2>1, <3>1, <3>2, <3>3 DEF Numbered, LastRow, Started
  <2>3. CASE ~Loadable(e)
    <3>1. curve'[e] = [header |-> TRUE, rows |-> <<>>] /\ curve'[e] \in Curve \cup {NoFile}
      BY <1>2, <2>3, Configured
    <3>2. curve'[e].header /\ Len(curve'[e].rows) = 0
      BY <3>1
    <3>3. curve'[e] # NoFile
      <4>1. <<>> \in Seq(Row)
        OBVIOUS
      <4>2. [header |-> TRUE, rows |-> <<>>] \in Curve
        BY <4>1, Zenon DEF Curve
      <4>3. QED
        BY <3>1, <4>2
    <3>4. QED
      BY <2>1, <3>2, <3>3 DEF Numbered, Started
  <2>4. QED
    BY <2>2, <2>3
<1>3. CASE InferTransition
  <2>1. configured /\ AppendRow("transition") /\ UNCHANGED <<env_type, configured>>
    BY <1>3 DEF InferTransition, InTransition, Started
  <2>2. QED
    BY <2>1, AppendNumbered DEF Started
<1>4. CASE Infer
  <2>1. UNCHANGED <<env_type, configured, running, transLeft>>
    BY <1>4 DEF Infer
  <2>2. CASE configured
    <3>1. AppendRow("train")
      BY <1>4, <2>2 DEF Infer
    <3>2. QED
      BY <2>1, <2>2, <3>1, AppendNumbered DEF Started
  <2>3. CASE ~configured
    BY <2>1, <2>3 DEF Started, Numbered
  <2>4. QED
    BY <2>2, <2>3
<1>5. CASE Restart
  BY <1>5 DEF Restart, Fresh, Started, Numbered
<1>6. CASE UNCHANGED vars
  BY <1>6 DEF vars, memory, disk, Started, Numbered, LastRow
<1>7. QED
  BY <1>1, <1>2, <1>3, <1>4, <1>5, <1>6 DEF Next

\* It holds always.
LEMMA NumberedAlways == Spec => [](Started /\ Numbered)
<1>1. Init => Started /\ Numbered
  BY DEF Init, Started, Numbered
<1>2. TypeOK /\ Started /\ Numbered /\ [Next]_vars => Started' /\ Numbered'
  BY NextNumbered
<1>3. QED
  BY <1>1, <1>2, TypeCorrect, PTL DEF Spec

-----------------------------------------------------------------------------
(* The theorems.                                                           *)

\* No report came to a server that was not configured.
NoStray(s) == \A i \in 1..Len(s) : s[i].by # "stray"

\* A row that is not stray continues the numbers of its curve.
LEMMA AppendKeepsConsecutive ==
  ASSUME TypeOK, Numbered, RowsConsecutive, NEW by \in {"train", "transition", "stray"},
         AppendRow(by), by = "stray" \/ configured
  PROVE  RowsConsecutive'
<1>1. /\ NextRow(by) \in Row /\ env_type \in EnvTypes
      /\ \A e \in EnvTypes : e # env_type => curve'[e] = curve[e]
      /\ curve'[env_type].rows = Append(Rows(env_type), NextRow(by))
  BY AppendRowEffect DEF TypeOK
<1>2. Rows(env_type) \in Seq(Row)
  BY <1>1, Curves DEF Rows
<1>3. SUFFICES ASSUME NoStray(curve'[env_type].rows) PROVE Consecutive(curve'[env_type].rows)
  BY <1>1 DEF RowsConsecutive, NoStray
<1>4. /\ NextRow(by).by # "stray"
      /\ \A i \in 1..Len(Rows(env_type)) : Rows(env_type)[i].by # "stray"
  <2>1. PICK t : t = Append(Rows(env_type), NextRow(by))
    OBVIOUS
  <2>2. /\ Len(t) = Len(Rows(env_type)) + 1 /\ Len(Rows(env_type)) \in Nat
        /\ \A i \in 1..Len(Rows(env_type)) : t[i] = Rows(env_type)[i]
        /\ t[Len(Rows(env_type)) + 1] = NextRow(by)
    BY <1>1, <1>2, <2>1, Appended
  <2>3. \A i \in 1..Len(t) : t[i].by # "stray"
    BY <1>1, <1>3, <2>1 DEF NoStray
  <2>4. QED
    BY <2>2, <2>3
<1>5. configured
  BY <1>4 DEF NextRow
<1>6. Rows(env_type) = curve[env_type].rows /\ curve[env_type] # NoFile
  BY <1>5 DEF Numbered, Rows
<1>7. Consecutive(Rows(env_type))
  BY <1>1, <1>4, <1>6 DEF RowsConsecutive
<1>8. Len(Rows(env_type)) > 0 =>
        /\ NextRow(by).idx = Rows(env_type)[Len(Rows(env_type))].idx + 1
        /\ NextRow(by).step = Rows(env_type)[Len(Rows(env_type))].step + 1
  BY <1>5, <1>6 DEF Numbered, LastRow, NextRow
<1>9. QED
  BY <1>1, <1>2, <1>7, <1>8, AppendConsecutive

\* The rows of a curve are numbered without gap or repetition, and so are its
\* steps: the counters read from a file, across restarts, transitions and
\* changes of type, are those of the row after the last (server.py:193).
THEOREM RowsStayConsecutive == Spec => []RowsConsecutive
<1>1. Init => RowsConsecutive
  BY DEF Init, RowsConsecutive
<1>2. TypeOK /\ Started /\ Numbered /\ RowsConsecutive /\ [Next]_vars => RowsConsecutive'
  <2> SUFFICES ASSUME TypeOK, Started, Numbered, RowsConsecutive, [Next]_vars
               PROVE  RowsConsecutive'
    OBVIOUS
  <2>1. CASE UNCHANGED curve
    BY <2>1 DEF RowsConsecutive
  <2>2. ASSUME NEW e \in EnvTypes, Configure(e) PROVE RowsConsecutive'
    <3>1. \A f \in EnvTypes : curve'[f] = curve[f] \/ curve'[f] = [header |-> TRUE, rows |-> <<>>]
      BY <2>2, Configured
    <3>2. Consecutive(<<>>)
      BY DEF Consecutive
    <3>3. QED
      BY <3>1, <3>2 DEF RowsConsecutive
  <2>3. CASE InferTransition
    BY <2>3, AppendKeepsConsecutive DEF InferTransition, InTransition, Started
  <2>4. CASE Infer
    <3>1. PICK by \in {"train", "transition", "stray"} :
            AppendRow(by) /\ (by = "stray" \/ configured)
      BY <2>4 DEF Infer
    <3>2. QED
      BY <3>1, AppendKeepsConsecutive
  <2>5. QED
    BY <2>1, <2>2, <2>3, <2>4, StepKinds
<1>3. QED
  BY <1>1, <1>2, TypeCorrect, NumberedAlways, PTL DEF Spec

\* Who can be loaded is only appended to.
CurvesKept ==
  \A e \in EnvTypes :
    Lines(e) > 1 =>
      /\ Len(curve'[e].rows) >= Len(curve[e].rows)
      /\ SubSeq(curve'[e].rows, 1, Len(curve[e].rows)) = curve[e].rows

\* No step starts a curve again that has anything to load, or rewrites it.
THEOREM CurvesAlwaysKept == Spec => CurveKept
<1>1. TypeOK /\ [Next]_vars => CurvesKept
  <2> SUFFICES ASSUME TypeOK, [Next]_vars, NEW e \in EnvTypes, Loadable(e)
               PROVE  /\ Len(curve'[e].rows) >= Len(curve[e].rows)
                      /\ SubSeq(curve'[e].rows, 1, Len(curve[e].rows)) = curve[e].rows
    BY DEF CurvesKept, Loadable
  <2>1. curve[e].rows \in Seq(Row) /\ Len(curve[e].rows) \in Nat /\ curve[e] # NoFile
    BY Curves
  <2>2. SubSeq(curve[e].rows, 1, Len(curve[e].rows)) = curve[e].rows
    BY <2>1, SubSeqFull
  <2>3. CASE curve'[e] = curve[e]
    BY <2>1, <2>2, <2>3
  <2>4. ASSUME NEW by \in {"train", "transition", "stray"}, AppendRow(by), e = env_type
        PROVE  /\ Len(curve'[e].rows) >= Len(curve[e].rows)
               /\ SubSeq(curve'[e].rows, 1, Len(curve[e].rows)) = curve[e].rows
    <3>1. NextRow(by) \in Row /\ curve'[e].rows = Append(curve[e].rows, NextRow(by))
      BY <2>1, <2>4, AppendRowEffect DEF Rows
    <3>2. Len(curve'[e].rows) = Len(curve[e].rows) + 1
      BY <2>1, <3>1, Appended
    <3>3. QED
      BY <2>1, <3>1, <3>2, Appended
  <2>5. CASE UNCHANGED curve
    BY <2>3, <2>5
  <2>6. CASE \E f \in EnvTypes : Configure(f)
    BY <2>3, <2>6, Configured
  <2>7. CASE InferTransition
    <3>1. AppendRow("transition")
      BY <2>7 DEF InferTransition
    <3>2. QED
      BY <2>3, <2>4, <3>1, AppendRowEffect
  <2>8. CASE Infer
    <3>1. PICK by \in {"train", "transition", "stray"} : AppendRow(by)
      BY <2>8 DEF Infer
    <3>2. QED
      BY <2>3, <2>4, <3>1, AppendRowEffect
  <2>9. QED
    BY <2>5, <2>6, <2>7, <2>8, StepKinds
<1>2. QED
  BY <1>1, TypeCorrect, PTL DEF Spec, CurveKept, CurvesKept

\* A row SaveAt that a training wrote has its model on disk: it is saved
\* first, and nothing is written in between (server.py:573).
THEOREM SavedAtTheTarget == Spec => []SavedAtTarget
<1>1. Init => SavedAtTarget
  BY DEF Init, SavedAtTarget
<1>2. TypeOK /\ SavedAtTarget /\ [Next]_vars => SavedAtTarget'
  <2> SUFFICES ASSUME TypeOK, SavedAtTarget, [Next]_vars, NEW e \in EnvTypes, curve'[e] # NoFile,
                      NEW i \in 1..Len(curve'[e].rows),
                      curve'[e].rows[i].idx = SaveAt, curve'[e].rows[i].by = "train"
               PROVE  e \in saved'
    BY DEF SavedAtTarget
  <2>1. saved \subseteq saved'
    BY DEF Next, ConfigureContinue, Configure, InferTransition, Infer, Restart, vars, disk
  <2>2. CASE curve'[e] = curve[e]
    BY <2>1, <2>2 DEF SavedAtTarget
  <2>3. ASSUME NEW by \in {"train", "transition", "stray"}, AppendRow(by), e = env_type,
               by = "train" /\ csv_index = SaveAt => e \in saved'
        PROVE  e \in saved'
    <3>1. NextRow(by) \in Row /\ curve'[e].rows = Append(Rows(e), NextRow(by))
      BY <2>3, AppendRowEffect
    <3>2. Rows(e) \in Seq(Row)
      BY Curves DEF Rows
    <3>3. PICK t : t = Append(Rows(e), NextRow(by))
      OBVIOUS
    <3>4. /\ Len(t) = Len(Rows(e)) + 1 /\ Len(Rows(e)) \in Nat
          /\ \A j \in 1..Len(Rows(e)) : t[j] = Rows(e)[j]
          /\ t[Len(Rows(e)) + 1] = NextRow(by)
      BY <3>1, <3>2, <3>3, Appended
    <3>5. i \in 1..Len(t) /\ t[i].idx = SaveAt /\ t[i].by = "train"
      BY <3>1, <3>3
    <3>6. CASE i \in 1..Len(Rows(e))
      <4>1. Rows(e)[i].idx = SaveAt /\ Rows(e)[i].by = "train"
        BY <3>4, <3>5, <3>6
      <4>2. curve[e] # NoFile
        BY <3>6 DEF Rows
      <4>3. QED
        BY <2>1, <3>6, <4>1, <4>2 DEF SavedAtTarget, Rows
    <3>7. CASE i = Len(Rows(e)) + 1
      BY <2>3, <3>4, <3>5, <3>7 DEF NextRow
    <3>8. QED
      BY <3>4, <3>5, <3>6, <3>7
  <2>4. CASE UNCHANGED curve
    BY <2>2, <2>4
  <2>5. CASE \E f \in EnvTypes : Configure(f)
    <3>1. curve'[e] = curve[e] \/ curve'[e] = [header |-> TRUE, rows |-> <<>>]
      BY <2>5, Configured
    <3>2. QED
      BY <2>2, <3>1
  <2>6. CASE InferTransition
    <3>1. AppendRow("transition")
      BY <2>6 DEF InferTransition
    <3>2. QED
      BY <2>2, <2>3, <3>1, AppendRowEffect
  <2>7. CASE Infer
    <3>1. PICK by \in {"train", "transition", "stray"} :
            AppendRow(by) /\ (by = "train" /\ csv_index = SaveAt => env_type \in saved')
      BY <2>7 DEF Infer, SaveDue
    <3>2. QED
      BY <2>2, <2>3, <3>1, AppendRowEffect
  <2>8. QED
    BY <2>4, <2>5, <2>6, <2>7, StepKinds
<1>3. QED
  BY <1>1, <1>2, TypeCorrect, PTL DEF Spec

===============================================================================
