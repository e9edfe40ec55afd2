----------------------------- MODULE ServerConfig -----------------------------
(***************************************************************************)
(* /configure and /infer_sched_config of server.py for every model and     *)
(* environment type: which environment, model and learner a simulation     *)
(* gets, what it is answered, and what the answer does to ns-3.            *)
(*                                                                         *)
(* One simulation runs at a time.  The threads of the server and their     *)
(* order are in TrainingLoop, the counters and files in LearningCurve;     *)
(* here a learner is on its way to env.step, serves the environment in     *)
(* force, waits on one that was replaced (an orphan), or is not there.     *)
(***************************************************************************)
EXTENDS ActionCodec

CONSTANTS
  Configs,          \* what ns-3 may ask for, see Config
  MinUes,           \* UEs a report must have (4 in the code)
  SavedUes,         \* UEs the saved models were trained with
  TransitionSteps,  \* transition_steps_remaining set by /configure
  RandomV, RandomW, \* bounds of random_tuning (10 and 3 in the code)
  Fixed,            \* the action of the Static models: [v, wq, wg]
  None

\* The body of a /configure: model, env_type and num_ues.
Config == [model : {"PPO", "DQN", "Static", "Random"},
           type : {"Basic", "ISAC", "Fixed"}, ues : Nat \ {0}]

\* An environment and a model object.
EnvType == [algo : {"PPO", "DQN"}, type : {"Basic", "ISAC"}, ues : Nat \ {0}]
ModelType == [algo : {"PPO", "DQN"}, type : {"Basic", "ISAC"}, ues : Nat \ {0},
              saved : BOOLEAN]

ASSUME ConfigAssumption ==
  /\ Configs \subseteq Config
  /\ \A c \in Configs : c.model \in {"PPO", "DQN"} => c.type # "Fixed"
  /\ MinUes \in Nat /\ SavedUes \in Nat /\ TransitionSteps \in Nat
  /\ RandomV \in Nat /\ RandomW \in Nat
  /\ Fixed \in [v : Nat, wq : Nat, wg : Nat]
  /\ None \notin Configs /\ None \notin EnvType /\ None \notin ModelType

VARIABLES
  settings,    \* PREDICT, LOAD_MODEL and CONTINUE_TRAINING
  \* the ns-3 process
  sim,         \* "off", "on" or "crashed"
  asked,       \* what it asked for, or None
  registry,    \* m_allUEs, complete
  weights,     \* the static members of NrMacSchedulerUeInfoDPPA
  \* the server
  conf,        \* model_type, env_type and num_ues last configured, or None
  env,         \* the environment: its algorithm, type and UEs, or None
  model,       \* the model: the same, and whether it is a saved one, or None
  thread,      \* the learner: "none", "starting", "serving" or "orphan"
  transition,  \* transition_steps_remaining
  hung,        \* the event loop is blocked for ever
  \* the last answer, and the history the properties need
  reply,       \* the answer, or None
  chosen,      \* what a model chose for it, or None
  steady,      \* the same configuration was asked for since the server started
  ended,       \* a learn() ended by itself since then
  early        \* a report came before the learner waited for it since then

simVars    == <<sim, asked, registry, weights>>
serverVars == <<conf, env, model, thread, transition, hung>>
replyVars  == <<reply, chosen>>
histVars   == <<steady, ended, early>>
vars == <<settings, simVars, serverVars, replyVars, histVars>>

Learned(c) == c.model \in {"PPO", "DQN"}

Orders(n) == {s \in [1..n -> 1..n] : \A i, j \in 1..n : i # j => s[i] # s[j]}

\* m_v_lyapunov = 0, m_weight_g = 1.
InitialWeights == [v |-> 0, g |-> 10]

\* The memory of a server that has just started.
Booted ==
  /\ conf' = None /\ env' = None /\ model' = None
  /\ thread' = "none" /\ transition' = 0 /\ hung' = FALSE
  /\ steady' = TRUE /\ ended' = FALSE /\ early' = FALSE

Init ==
  /\ settings \in [predict : BOOLEAN, load : BOOLEAN, continue : BOOLEAN]
  /\ sim = "off" /\ asked = None /\ registry = <<>> /\ weights = InitialWeights
  /\ conf = None /\ env = None /\ model = None
  /\ thread = "none" /\ transition = 0 /\ hung = FALSE
  /\ reply = None /\ chosen = None
  /\ steady = TRUE /\ ended = FALSE /\ early = FALSE

-----------------------------------------------------------------------------
(* /configure.                                                             *)

\* A simulation starts and calls connectToRestServer.
Ask(c) ==
  /\ sim = "off" /\ sim' = "on"
  /\ asked' = c /\ registry' \in Orders(c.ues)
  /\ UNCHANGED <<settings, weights, reply, chosen, ended, early>>

Recorded(c) ==
  /\ conf' = c
  /\ steady' = (steady /\ conf \in {None, c})

\* The event loop does not answer; ns-3 prints an error and goes on.
ConfigureHung(c) ==
  /\ hung
  /\ UNCHANGED <<serverVars, steady>>

\* The running PPO learner is kept, and a transition begins.
Continues(c) ==
  /\ thread # "none" /\ settings.continue
  /\ conf.type = c.type /\ env.ues = c.ues /\ c.model = "PPO"

ConfigureContinue(c) ==
  /\ ~hung /\ Continues(c)
  /\ transition' = TransitionSteps
  /\ Recorded(c)
  /\ UNCHANGED <<env, model, thread, hung>>

\* Variant: every /configure creates an environment.
NeverReused(c) == FALSE

\* An environment is reused when the number of UEs is right.
Reused(c) == env # None /\ env.ues = c.ues

NewEnv(c) == [algo |-> c.model, type |-> c.type, ues |-> c.ues]

\* Variant: one saved model per environment type.
DqnFile(c) == [algo |-> "DQN", type |-> c.type]

\* pretrained_model_path: for Basic there is only a DQN model.
SavedFile(c) ==
  [algo |-> IF c.type = "Basic" THEN "DQN" ELSE c.model, type |-> c.type]

\* PPO.load or DQN.load, env=env.
Loads(c) ==
  settings.load /\ SavedFile(c).algo = c.model /\ c.ues = SavedUes

\* A model that exists is reused as it is; else one is loaded or created.
ModelFor(c) ==
  IF model # None THEN model
  ELSE [algo |-> c.model, type |-> c.type, ues |-> c.ues, saved |-> Loads(c)]

\* PPO and DQN while a learner runs: it keeps the environment it waits on.
ConfigureBusy(c) ==
  /\ ~hung /\ Learned(c) /\ thread # "none" /\ ~Continues(c)
  /\ env' = IF Reused(c) THEN env ELSE NewEnv(c)
  /\ thread' = IF Reused(c) THEN thread ELSE "orphan"
  /\ transition' = 0
  /\ Recorded(c)
  /\ UNCHANGED <<model, hung>>

\* PPO and DQN otherwise: a learner is started unless PREDICT.
ConfigureLearned(c) ==
  /\ ~hung /\ Learned(c) /\ thread = "none"
  /\ env' = IF Reused(c) THEN env ELSE NewEnv(c)
  /\ model' = ModelFor(c)
  /\ thread' = IF settings.predict THEN "none" ELSE "starting"
  /\ transition' = IF ~settings.predict /\ settings.continue THEN transition ELSE 0
  /\ Recorded(c)
  /\ UNCHANGED hung

\* Static and Random: without a matching environment the call answers
\* "error", after model_type and env_type were set.
ConfigureFixed(c) ==
  /\ ~hung /\ ~Learned(c)
  /\ transition' = IF Reused(c) \/ (thread # "none" /\ settings.continue)
                   THEN 0 ELSE transition
  /\ Recorded(c)
  /\ UNCHANGED <<env, model, thread, hung>>

Configure(c) ==
  /\ Ask(c)
  /\ \/ ConfigureHung(c) \/ ConfigureContinue(c) \/ ConfigureBusy(c)
     \/ ConfigureLearned(c) \/ ConfigureFixed(c)

-----------------------------------------------------------------------------
(* What ns-3 does with an answer.                                          *)

\* Every UE sets the shared members from its own entry: the last one's
\* remain.  An entry that is missing is null, and its conversion throws.
Applied(a) ==
  LET last == registry[Len(registry)]
  IN  IF \A u \in 1..Len(registry) : u <= Len(a.wq) /\ u <= Len(a.wg)
      THEN /\ weights' = SetDppWeights(a.v, a.wg[last])
           /\ UNCHANGED sim
      ELSE sim' = "crashed" /\ UNCHANGED weights

Answered(a, choice) ==
  /\ reply' = a /\ chosen' = choice
  /\ Applied(a)

\* A body that is no action (an error 500, null): parsing or reading throws.
Failed ==
  /\ reply' = None /\ chosen' = None
  /\ sim' = "crashed" /\ UNCHANGED weights

\* No answer: SetDppWeights(0, 0, 0).
Unanswered ==
  /\ reply' = None /\ chosen' = None
  /\ weights' = SetDppWeights(0, 0) /\ UNCHANGED sim

-----------------------------------------------------------------------------
(* /infer_sched_config with a report of k UEs.                             *)

\* Length of an observation, and of the state made of a report.
ObsLen(type, n) == IF type = "ISAC" THEN 4 * n ELSE 3 * n

InferHung(k) ==
  /\ hung
  /\ Unanswered
  /\ UNCHANGED <<transition, thread, hung, early>>

\* Variant: the default action is as long as the report.
AsReported(k) == Neutral(k)

ShortAnswer(k) == Neutral(MinUes)

InferShort(k) ==
  /\ ~hung /\ k < MinUes
  /\ Answered(ShortAnswer(k), None)
  /\ UNCHANGED <<transition, thread, hung, early>>

\* Variant: transition_mode outlives its last step.
TransitionOneMore == transition + 1 > 0

InTransition == transition > 0

InferTransition(k) ==
  /\ ~hung /\ k >= MinUes /\ InTransition
  /\ transition' = transition - 1
  /\ Answered(Neutral(IF conf # None /\ conf.model = "PPO" /\ env # None
                      THEN env.ues ELSE k), None)
  /\ UNCHANGED <<thread, hung, early>>

Asks(m) == conf # None /\ conf.model = m

\* A server that was not configured answers null.
InferUnconfigured ==
  /\ conf = None
  /\ Failed
  /\ UNCHANGED <<thread, hung, early>>

\* static_tuning: three numbers, which ns-3 gives to every UE.
InferStatic ==
  /\ Asks("Static")
  /\ IF conf.type = "Fixed"
     THEN LET each(w) == [u \in 1..Len(registry) |-> w]
          IN  Answered([v |-> Fixed.v, wq |-> each(Fixed.wq), wg |-> each(Fixed.wg)], None)
     ELSE Failed
  /\ UNCHANGED <<thread, hung, early>>

\* random_tuning: the environment is asked for the number of UEs.
InferRandom ==
  /\ Asks("Random")
  /\ \/ env = None /\ Failed
     \/ /\ env # None
        /\ \E v \in 0..RandomV, wq, wg \in [1..env.ues -> 0..RandomW] :
             Answered([v |-> v, wq |-> wq, wg |-> wg], None)
  /\ UNCHANGED <<thread, hung, early>>

Actions == IF model.algo = "DQN" THEN DqnActions(model.ues) ELSE PpoActions(model.ues)

\* model.predict() takes the state, and its action can be read as asked.
Predictable(k) ==
  /\ ObsLen(conf.type, k) = ObsLen(model.type, model.ues)
  /\ model.algo = conf.model
  /\ conf.model = "DQN" => env.algo = "DQN"

InferPredict(k) ==
  /\ settings.predict /\ conf # None /\ Learned(conf)
  /\ \/ ~Predictable(k) /\ Failed
     \/ /\ Predictable(k)
        /\ \E a \in Actions :
             Answered(IF conf.model = "DQN" THEN decode_action(a, env.ues)
                      ELSE Sliced(a, env.ues), a)
  /\ UNCHANGED <<thread, hung, early>>

\* Nobody waits on the condition of the environment in force: the notification
\* is lost, ppo() waits for ever, and ns-3 gives up.  A learner that starts
\* will wait for ppo() when it comes to wait.
InferNobody ==
  /\ ~settings.predict /\ conf # None /\ Learned(conf)
  /\ thread # "serving"
  /\ hung' = TRUE
  /\ early' = (early \/ thread = "starting")
  /\ Unanswered
  /\ UNCHANGED thread

\* The observation the learner is handed fits its model and its buffers.
Fits(k) ==
  /\ ObsLen(conf.type, k) = ObsLen(env.type, env.ues)
  /\ ObsLen(env.type, env.ues) = ObsLen(model.type, model.ues)

\* A learner that is handed something else notifies first and raises then.
InferTrain(k) ==
  /\ ~settings.predict /\ conf # None /\ Learned(conf)
  /\ thread = "serving"
  /\ thread' = IF Fits(k) /\ model.algo = env.algo THEN "serving" ELSE "none"
  /\ \/ model.algo # env.algo /\ Failed
     \/ /\ model.algo = env.algo
        /\ \E a \in Actions :
             Answered(Sliced(IF env.algo = "DQN" THEN get_action(a, env.ues) ELSE a, env.ues), a)
  /\ UNCHANGED <<hung, early>>

\* Once the length is tested and no transition is under way.
InferModel(k) ==
  /\ ~hung /\ k >= MinUes /\ ~InTransition
  /\ \/ InferUnconfigured \/ InferStatic \/ InferRandom
     \/ InferPredict(k) \/ InferNobody \/ InferTrain(k)
  /\ UNCHANGED transition

\* A report of the UEs that had data.
Infer ==
  /\ sim = "on"
  /\ \E k \in 1..asked.ues :
       InferHung(k) \/ InferShort(k) \/ InferTransition(k) \/ InferModel(k)
  /\ UNCHANGED <<settings, asked, registry, conf, env, model, steady, ended>>

-----------------------------------------------------------------------------
(* The rest of the world.                                                  *)

\* The ns-3 process is over.
EndSimulation ==
  /\ sim # "off"
  /\ sim' = "off" /\ asked' = None /\ registry' = <<>> /\ weights' = InitialWeights
  /\ reply' = None /\ chosen' = None
  /\ UNCHANGED <<settings, serverVars, histVars>>

\* The learner comes to its first env.step and waits for a report.
LearnerWaits ==
  /\ thread = "starting" /\ thread' = "serving"
  /\ UNCHANGED <<settings, simVars, conf, env, model, transition, hung, replyVars, histVars>>

\* model.learn() returns or raises.
LearnerEnds ==
  /\ thread # "none" /\ ~hung
  /\ thread' = "none" /\ ended' = TRUE
  /\ UNCHANGED <<settings, simVars, conf, env, model, transition, hung, replyVars, steady, early>>

\* The server is killed and started again.
Restart ==
  /\ Booted
  /\ UNCHANGED <<settings, simVars, replyVars>>

Next ==
  \/ \E c \in Configs : Configure(c)
  \/ Infer \/ EndSimulation \/ LearnerWaits \/ LearnerEnds \/ Restart

Spec == Init /\ [][Next]_vars

-----------------------------------------------------------------------------
(* Properties.                                                             *)

\* Every variable keeps its type; a model and a learner exist only together
\* with an environment, and the countdown stops at zero.
TypeOK ==
  /\ settings \in [predict : BOOLEAN, load : BOOLEAN, continue : BOOLEAN]
  /\ sim \in {"off", "on", "crashed"}
  /\ asked \in Configs \cup {None} /\ conf \in Configs \cup {None}
  /\ env \in EnvType \cup {None} /\ model \in ModelType \cup {None}
  /\ env = None <=> model = None
  /\ thread \in {"none", "starting", "serving", "orphan"} /\ (thread # "none" => env # None)
  /\ transition \in 0..TransitionSteps
  /\ hung \in BOOLEAN /\ steady \in BOOLEAN /\ ended \in BOOLEAN /\ early \in BOOLEAN

\* No more UEs than a report must have, and a type the model knows; Random
\* needs an environment it does not create.
Servable(c) ==
  /\ c.model # "Random" /\ (c.model = "Static" => c.type = "Fixed")
  /\ c.ues <= MinUes

\* While every simulation asks for the same servable thing, no learn() has ended
\* and no report has come before the learner waits in env.step, the server
\* neither answers ns-3 with something that ends it nor stops answering: every
\* /configure finds the environment, the model and the learner of the one before
\* (server.py:272).
Serves ==
  (sim # "off" /\ asked = conf /\ Servable(conf) /\ steady /\ ~ended /\ ~early)
  => sim = "on" /\ ~hung

\* The answer is the action that was chosen, digit by digit, through the
\* division and the inversion of decode_action, the exchanged names of
\* get_action and the slices of the handler (env_DQN_Basic.py:86-165).
ReplyDecodes ==
  (reply # None /\ chosen # None /\ model # None /\ model.ues = env.ues) =>
    IF model.algo = "DQN"
    THEN Index(reply) = chosen /\ Len(reply.wg) = env.ues
    ELSE <<reply.v>> \o reply.wq \o reply.wg = chosen

\* Prediction with LOAD_MODEL uses a saved model, if all simulations asked for
\* the same thing and one fits it; for PPO on Basic there is none, the DQN file
\* is tried and an untrained model predicts (server.py:331-351).
PredictsWithSaved ==
  (/\ chosen # None /\ conf # None /\ steady
   /\ settings.predict /\ settings.load
   /\ conf.ues = SavedUes /\ ~(conf.model = "PPO" /\ conf.type = "Basic"))
  => model.saved

\* An answer has an entry for every UE that had data in the report, although
\* its length is that of the environment, the report or the constant 4, and
\* the environment is the one of the simulation (server.py:452-632).
EntryForEach ==
  (reply # None /\ steady /\ conf = asked /\ conf.ues <= MinUes) =>
    Len(reply.wq) >= conf.ues /\ Len(reply.wg) >= conf.ues

=============================================================================
