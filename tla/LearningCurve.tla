---------------------------- MODULE LearningCurve ----------------------------
(***************************************************************************)
(* The counters of the decision server and the files that outlive it: one  *)
(* learning curve per environment type, a row per report that was used,    *)
(* and the model saved when a curve reaches SaveAt (20,000) rows.          *)
(*                                                                         *)
(* A row is [idx, step]; the reward is left out, and "by" remembers what    *)
(* wrote the row: a report of a training or of a transition, or a "stray"  *)
(* report that found the server started again and not yet configured.      *)
(* What decides between the branches of /configure is TrainingLoop's       *)
(* business: here a configuration either continues the training that runs  *)
(* or sets a new one up.                                                   *)
(***************************************************************************)
EXTENDS Integers, Sequences

CONSTANTS
  EnvTypes,        \* environment types, with a learning curve each
  Default,         \* env_type before any /configure ("Basic")
  NoFile,          \* the curve does not exist
  Continue,        \* CONTINUE_TRAINING
  SaveAt,          \* csv_index at which the model is saved (20,000)
  Transition,      \* reports of a transition (20)
  MaxRows,         \* bound on the rows of a curve
  MaxRestarts      \* bound on the restarts of the server

ASSUME CurveAssumption ==
  /\ Default \in EnvTypes
  /\ Continue \in BOOLEAN
  /\ SaveAt \in Nat /\ Transition \in Nat \ {0} /\ MaxRows \in Nat /\ MaxRestarts \in Nat

Row == [idx : Nat, step : Nat, by : {"train", "transition", "stray"}]
Curve == [header : BOOLEAN, rows : Seq(Row)]

ASSUME FileAssumption == NoFile \notin Curve

VARIABLES
  csv_index,      \* number of the next row
  steps_counter,  \* reports used
  env_type,
  configured,     \* model_type is set
  running,        \* is_agent_thread_running()
  transLeft,      \* transition_steps_remaining
  curve,          \* learning_curve_<env_type>_0.csv
  saved,          \* environment types whose 20k model is on disk
  restarts

memory == <<csv_index, steps_counter, env_type, configured, running, transLeft>>
disk   == <<curve, saved>>
vars   == <<memory, disk, restarts>>

Fresh ==
  /\ csv_index' = 1 /\ steps_counter' = 0 /\ env_type' = Default
  /\ configured' = FALSE /\ running' = FALSE /\ transLeft' = 0

Init ==
  /\ csv_index = 1 /\ steps_counter = 0 /\ env_type = Default
  /\ configured = FALSE /\ running = FALSE /\ transLeft = 0
  /\ curve = [e \in EnvTypes |-> NoFile]
  /\ saved = {} /\ restarts = 0

-----------------------------------------------------------------------------
(* Files.                                                                  *)

Lines(e) ==
  IF curve[e] = NoFile THEN 0
  ELSE Len(curve[e].rows) + (IF curve[e].header THEN 1 ELSE 0)

LastRow(e) == curve[e].rows[Len(curve[e].rows)]

\* Variant: a curve with a single row is not worth loading.
LoadableLate(e) == Lines(e) > 2

\* The file has more lines than the header.
Loadable(e) == Lines(e) > 1

\* Variant: the number of the last row is used again.
NextIndexSame(row) == row.idx

NextIndex(row) == row.idx + 1

\* load_training_state().
load_training_state(e) ==
  IF Loadable(e)
  THEN csv_index' = NextIndex(LastRow(e)) /\ steps_counter' = LastRow(e).step
  ELSE csv_index' = 0 /\ steps_counter' = 0

\* Opened for append: created without a header if it is not there.
WithRow(e, row) ==
  IF curve[e] = NoFile THEN [header |-> FALSE, rows |-> <<row>>]
  ELSE [curve[e] EXCEPT !.rows = Append(@, row)]

AppendRow(by) ==
  /\ LET row == [idx |-> csv_index, step |-> steps_counter + 1, by |-> by]
     IN  curve' = [curve EXCEPT ![env_type] = WithRow(env_type, row)]
  /\ steps_counter' = steps_counter + 1
  /\ csv_index' = csv_index + 1

-----------------------------------------------------------------------------
(* Requests.                                                               *)

\* /configure for the training that runs: counters are read again, the curve
\* is left as it is.
ConfigureContinue ==
  /\ running /\ Continue
  /\ load_training_state(env_type)
  /\ transLeft' = Transition
  /\ UNCHANGED <<env_type, configured, running, disk, restarts>>

\* Any other /configure: the curve of the environment type is continued, or
\* started again when there is nothing to load.
Configure(e) ==
  /\ env_type' = e
  /\ load_training_state(e)
  /\ curve' = IF Loadable(e) THEN curve
              ELSE [curve EXCEPT ![e] = [header |-> TRUE, rows |-> <<>>]]
  /\ configured' = TRUE /\ running' = TRUE
  /\ transLeft' = IF running /\ Continue THEN 0 ELSE transLeft
  /\ UNCHANGED <<saved, restarts>>

Room == Lines(env_type) <= MaxRows

\* Variant: the countdown is not stopped at zero.
TransitionOneMore == transLeft + 1 > 0

\* transition_mode.
InTransition == transLeft > 0

\* A report in a transition: a row, and nothing else.
InferTransition ==
  /\ InTransition /\ Room
  /\ AppendRow("transition")
  /\ transLeft' = transLeft - 1
  /\ UNCHANGED <<env_type, configured, running, saved, restarts>>

\* Variant: the model is saved one row late.
SaveDueLate == csv_index = SaveAt + 1

SaveDue == csv_index = SaveAt

\* Any other report with enough UEs: the model is saved first, then the row
\* is written.
Infer ==
  /\ ~InTransition /\ Room
  /\ saved' = IF SaveDue /\ configured THEN saved \cup {env_type} ELSE saved
  /\ AppendRow(IF configured THEN "train" ELSE "stray")
  /\ UNCHANGED <<env_type, configured, running, transLeft, restarts>>

\* The process dies between two requests, or after the model is saved and
\* before the row is written, and starts again.
Restart ==
  /\ restarts < MaxRestarts
  /\ restarts' = restarts + 1
  /\ saved' \in {saved} \cup
       (IF ~InTransition /\ configured /\ SaveDue THEN {saved \cup {env_type}} ELSE {})
  /\ Fresh
  /\ UNCHANGED curve

Next ==
  \/ ConfigureContinue
  \/ \E e \in EnvTypes : Configure(e)
  \/ InferTransition
  \/ Infer
  \/ Restart

Spec == Init /\ [][Next]_vars

-----------------------------------------------------------------------------
(* Properties.                                                             *)

\* Every variable keeps its type.
TypeOK ==
  /\ csv_index \in Nat /\ steps_counter \in Nat /\ env_type \in EnvTypes
  /\ configured \in BOOLEAN /\ running \in BOOLEAN /\ transLeft \in 0..Transition
  /\ curve \in [EnvTypes -> Curve \cup {NoFile}]
  /\ saved \subseteq EnvTypes /\ restarts \in 0..MaxRestarts

Consecutive(s) ==
  \A i \in 1..(Len(s) - 1) : s[i + 1].idx = s[i].idx + 1 /\ s[i + 1].step = s[i].step + 1

\* The rows of a curve are numbered without gap or repetition, and so are its
\* steps, across restarts, transitions and changes of environment type, unless
\* a report was sent to a server that had not been configured.
RowsConsecutive ==
  \A e \in EnvTypes :
    (curve[e] # NoFile /\ \A i \in 1..Len(curve[e].rows) : curve[e].rows[i].by # "stray")
      => Consecutive(curve[e].rows)

\* A curve with anything to load is only ever appended to: no restart, change
\* of environment type or report without a /configure starts it again.
CurveKept ==
  [][\A e \in EnvTypes :
       Lines(e) > 1 =>
         /\ Len(curve'[e].rows) >= Len(curve[e].rows)
         /\ SubSeq(curve'[e].rows, 1, Len(curve[e].rows)) = curve[e].rows]_vars

\* A training that writes row SaveAt of a curve has its model on disk ("Save
\* model at specific steps", server.py:573), even if the server dies in between;
\* only a transition may pass that row without saving.
SavedAtTarget ==
  \A e \in EnvTypes :
    (curve[e] # NoFile /\ \E i \in 1..Len(curve[e].rows) :
       curve[e].rows[i].idx = SaveAt /\ curve[e].rows[i].by = "train")
      => e \in saved

=============================================================================
