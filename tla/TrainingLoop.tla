---------------------------- MODULE TrainingLoop ----------------------------
(***************************************************************************)
(* Training mode of the decision server (PREDICT = False): the ns-3        *)
(* process, the FastAPI event loop of server.py and the learner threads    *)
(* that run model.learn() on the environments env*.py.                     *)
(*                                                                         *)
(* A state report is known by its number; the action computed from report  *)
(* k is written k, the neutral reply (v, wq, wg all zero) is Zero.  The    *)
(* reward of a report is known by the action that was in force while it    *)
(* was measured (its window).                                              *)
(***************************************************************************)
EXTENDS Integers, Sequences

CONSTANTS
  Threads,          \* learner threads that may be started
  Server,           \* the event loop of the server
  None,             \* Python's None
  Zero,             \* the reply v = 0, wq = 0, wg = 0
  Algo,             \* model_type: "PPO" or "DQN"
  Continue,         \* CONTINUE_TRAINING
  AgentFirst,       \* the learner reaches env.step before the first report
  LearnEnds,        \* model.learn may return or raise
  AllowStop,        \* an operator may call /stop_training
  TransitionSteps,  \* transition_steps_remaining set by /configure
  MaxRequests,      \* bound on the number of state reports
  MaxTimeouts,      \* bound on the number of calls ns-3 gives up on
  MaxSims           \* bound on the number of simulations

ASSUME ProcAssumption == Server \notin Threads /\ None \notin Threads

ASSUME ConfigAssumption ==
  /\ Algo \in {"PPO", "DQN"}
  /\ Continue \in BOOLEAN /\ AgentFirst \in BOOLEAN
  /\ LearnEnds \in BOOLEAN /\ AllowStop \in BOOLEAN
  /\ TransitionSteps \in Nat
  /\ MaxRequests \in Nat /\ MaxTimeouts \in Nat /\ MaxSims \in Nat

Procs  == Threads \cup {Server}
Action == Nat \cup {Zero, None}

Message == [kind : {"configure", "infer"}, id : Nat,
            window : Action, short : BOOLEAN]

ASSUME ValueAssumption ==
  /\ None \notin Nat /\ Zero \notin Nat /\ None # Zero
  /\ None \notin Message

VARIABLES
  \* the ns-3 process
  sim,           \* "off" or "on"
  call,          \* the POST it is blocked in, or None
  applied,       \* the action behind the weights in force
  sent,          \* state reports sent
  sims,          \* simulations started
  timeouts,      \* calls given up
  \* the server
  inbox,         \* requests the event loop has not taken yet
  cur,           \* the request being handled by ppo()
  result,        \* what ppo() returned
  transLeft,     \* transition_steps_remaining (> 0 iff transition_mode)
  static,        \* static replies since the last /configure
  agent_thread,  \* the thread the server knows of, or None
  \* threading.Condition shared by the server and the learners
  pc,            \* where each thread is
  waiters,       \* threads in wait(), oldest first
  \* the environment object
  state,         \* [id, window, prev]: report held by the environment
  action,        \* self.action
  \* the learners
  seen,          \* last report a learner has read
  act,           \* the action it passed to env.step
  learnt         \* last transition it recorded

simVars     == <<sim, call, applied, sent, sims, timeouts>>
serverVars  == <<inbox, cur, result, transLeft, static, agent_thread>>
syncVars    == <<pc, waiters>>
envVars     == <<state, action>>
learnerVars == <<seen, act, learnt>>
vars == <<simVars, serverVars, syncVars, envVars, learnerVars>>

Init ==
  /\ sim = "off" /\ call = None /\ applied = Zero
  /\ sent = 0 /\ sims = 0 /\ timeouts = 0
  /\ inbox = <<>> /\ cur = None /\ result = None
  /\ transLeft = 0 /\ static = 0 /\ agent_thread = None
  /\ pc = [p \in Procs |-> IF p = Server THEN "idle" ELSE "new"]
  /\ waiters = <<>>
  /\ state = [id |-> 0, window |-> Zero, prev |-> 0] /\ action = None
  /\ seen = [t \in Threads |-> None]
  /\ act = [t \in Threads |-> None]
  /\ learnt = [t \in Threads |-> None]

-----------------------------------------------------------------------------
(* Condition: a learner holds the lock from the moment it runs until it    *)
(* waits in env.step; the server holds it only inside single steps.        *)

LockFree == \A t \in Threads : pc[t] # "learning"

\* Variant: notify() wakes nobody.
SilentNotify(p) == p

\* pc after condition.notify(): the oldest waiter is released.
Released(p) == IF waiters = <<>> THEN p ELSE [p EXCEPT ![Head(waiters)] = "notified"]
Remaining   == IF waiters = <<>> THEN <<>> ELSE Tail(waiters)

-----------------------------------------------------------------------------
(* The ns-3 process.                                                       *)

IsInfer(m) == m # None /\ m.kind = "infer"

Post(m) == call' = m /\ inbox' = Append(inbox, m)

StartSimulation ==
  /\ sim = "off" /\ sims < MaxSims
  /\ sim' = "on" /\ sims' = sims + 1
  /\ Post([kind |-> "configure", id |-> sims + 1, window |-> Zero, short |-> FALSE])
  /\ UNCHANGED <<applied, sent, timeouts>>
  /\ UNCHANGED <<cur, result, transLeft, static, agent_thread>>
  /\ UNCHANGED <<syncVars, envVars, learnerVars>>

\* MakeRestRequest up to cli.Post; a report is short when fewer than four
\* UEs were active in the window.
SendReport ==
  /\ sim = "on" /\ call = None /\ sent < MaxRequests
  /\ AgentFirst => \E t \in Threads : act[t] # None
  /\ sent' = sent + 1
  /\ \E short \in BOOLEAN :
       Post([kind |-> "infer", id |-> sent + 1, window |-> applied, short |-> short])
  /\ UNCHANGED <<sim, applied, sims, timeouts>>
  /\ UNCHANGED <<cur, result, transLeft, static, agent_thread>>
  /\ UNCHANGED <<syncVars, envVars, learnerVars>>

\* The POST fails (read timeout): a report falls back to SetDppWeights(0,0,0).
GiveUp ==
  /\ call # None /\ timeouts < MaxTimeouts
  /\ timeouts' = timeouts + 1
  /\ call' = None
  /\ applied' = IF IsInfer(call) THEN Zero ELSE applied
  /\ UNCHANGED <<sim, sent, sims>>
  /\ UNCHANGED <<serverVars, syncVars, envVars, learnerVars>>

\* The process ends, or is killed while it waits; its weights go with it.
EndSimulation ==
  /\ sim = "on"
  /\ sim' = "off" /\ call' = None /\ applied' = Zero
  /\ UNCHANGED <<sent, sims, timeouts>>
  /\ UNCHANGED <<serverVars, syncVars, envVars, learnerVars>>

-----------------------------------------------------------------------------
(* The event loop: one handler at a time; a handler that blocks in         *)
(* condition.wait() blocks the loop.                                       *)

\* The answer reaches ns-3 only while it still waits for this request.
Answer(m, a) ==
  /\ call'    = IF call = m THEN None ELSE call
  /\ applied' = IF call = m /\ IsInfer(m) THEN a ELSE applied
  /\ UNCHANGED <<sim, sent, sims, timeouts>>

Taken(kind) == pc[Server] = "idle" /\ inbox # <<>> /\ Head(inbox).kind = kind

is_agent_thread_running == agent_thread # None /\ pc[agent_thread] # "done"

\* /configure while the PPO learner runs and the configuration matches.
ConfigureContinue ==
  /\ Taken("configure")
  /\ is_agent_thread_running /\ Continue /\ Algo = "PPO"
  /\ transLeft' = TransitionSteps
  /\ static' = 0
  /\ inbox' = Tail(inbox)
  /\ Answer(Head(inbox), Zero)
  /\ UNCHANGED <<cur, result, agent_thread, syncVars, envVars, learnerVars>>

\* /configure while a learner runs, otherwise: no second thread is started.
ConfigureBusy ==
  /\ Taken("configure")
  /\ is_agent_thread_running /\ ~(Continue /\ Algo = "PPO")
  /\ transLeft' = 0
  /\ static' = 0
  /\ inbox' = Tail(inbox)
  /\ Answer(Head(inbox), Zero)
  /\ UNCHANGED <<cur, result, agent_thread, syncVars, envVars, learnerVars>>

\* /configure with no learner known: a thread is started on the model.
ConfigureStart ==
  /\ Taken("configure")
  /\ ~is_agent_thread_running
  /\ \E t \in Threads :
       /\ pc[t] = "new"
       /\ pc' = [pc EXCEPT ![t] = "started"]
       /\ agent_thread' = t
  /\ transLeft' = IF Continue THEN transLeft ELSE 0
  /\ static' = 0
  /\ inbox' = Tail(inbox)
  /\ Answer(Head(inbox), Zero)
  /\ UNCHANGED <<cur, result, waiters, envVars, learnerVars>>

\* A report with fewer than four UEs is answered before anything else.
InferShort ==
  /\ Taken("infer") /\ Head(inbox).short
  /\ inbox' = Tail(inbox)
  /\ Answer(Head(inbox), Zero)
  /\ UNCHANGED <<cur, result, transLeft, static, agent_thread>>
  /\ UNCHANGED <<syncVars, envVars, learnerVars>>

\* Variant: transition_mode outlives its last step.
TransitionOneMore == transLeft + 1 > 0

InTransition == transLeft > 0

\* transition_mode: the static action, without involving the learner.
InferTransition ==
  /\ Taken("infer") /\ ~Head(inbox).short /\ InTransition
  /\ transLeft' = transLeft - 1
  /\ static' = static + 1
  /\ inbox' = Tail(inbox)
  /\ Answer(Head(inbox), Zero)
  /\ UNCHANGED <<cur, result, agent_thread, syncVars, envVars, learnerVars>>

\* ppo(): update_data, notify and wait under the condition.
InferEnter ==
  /\ Taken("infer") /\ ~Head(inbox).short /\ ~InTransition /\ LockFree
  /\ inbox' = Tail(inbox)
  /\ cur' = Head(inbox)
  /\ state' = [id |-> Head(inbox).id, window |-> Head(inbox).window, prev |-> state.id]
  /\ pc' = [Released(pc) EXCEPT ![Server] = "waiting"]
  /\ waiters' = Append(Remaining, Server)
  /\ UNCHANGED <<result, transLeft, static, agent_thread, action>>
  /\ UNCHANGED <<simVars, learnerVars>>

\* Variant: condition.wait() has a timeout, and its outcome is ignored.
InferWakeTimed ==
  /\ pc[Server] \in {"waiting", "notified"} /\ LockFree
  /\ result' = action
  /\ pc' = [pc EXCEPT ![Server] = "reply"]
  /\ waiters' = SelectSeq(waiters, LAMBDA p : p # Server)
  /\ UNCHANGED <<inbox, cur, transLeft, static, agent_thread>>
  /\ UNCHANGED <<simVars, envVars, learnerVars>>

\* ppo() returns env.get_action() and leaves the condition.
InferWake ==
  /\ pc[Server] = "notified" /\ LockFree
  /\ result' = action
  /\ pc' = [pc EXCEPT ![Server] = "reply"]
  /\ UNCHANGED <<inbox, cur, transLeft, static, agent_thread, waiters>>
  /\ UNCHANGED <<simVars, envVars, learnerVars>>

\* PPO sends what ppo() returned; DQN reads env.get_action() again, without
\* the lock, and sends zeros for None.
ReplyAction ==
  IF Algo = "PPO" THEN result ELSE IF action = None THEN Zero ELSE action

InferReply ==
  /\ pc[Server] = "reply"
  /\ pc' = [pc EXCEPT ![Server] = "idle"]
  /\ Answer(cur, ReplyAction)
  /\ UNCHANGED <<serverVars, waiters, envVars, learnerVars>>

\* stop_training(): the server forgets the thread.
stop_training ==
  /\ AllowStop /\ pc[Server] = "idle" /\ is_agent_thread_running
  /\ agent_thread' = None
  /\ UNCHANGED <<inbox, cur, result, transLeft, static>>
  /\ UNCHANGED <<simVars, syncVars, envVars, learnerVars>>

-----------------------------------------------------------------------------
(* A learner: agent_loop() holds the condition around model.learn().       *)

\* Variants: the environments publish in the other environment's place.
PublishesNever == FALSE
PublishesAlways == TRUE

\* The DQN environment publishes its action before it waits for the next
\* report (env_DQN_*.py), the PPO environment after (env*.py).
PublishesEarly == Algo = "DQN"

\* learn() resets the environment; only the DQN environment drops its action.
Begin(t) ==
  /\ pc[t] = "started" /\ LockFree
  /\ pc' = [pc EXCEPT ![t] = "learning"]
  /\ seen' = [seen EXCEPT ![t] = state.id]
  /\ action' = IF Algo = "DQN" THEN None ELSE action
  /\ UNCHANGED <<simVars, serverVars, waiters, state, act, learnt>>

\* learn() picks an action for the last report and calls env.step, which
\* waits; the DQN environment publishes the action before it waits.
Step(t) ==
  /\ pc[t] = "learning"
  /\ act' = [act EXCEPT ![t] = seen[t]]
  /\ action' = IF PublishesEarly THEN seen[t] ELSE action
  /\ pc' = [pc EXCEPT ![t] = "waiting"]
  /\ waiters' = Append(waiters, t)
  /\ UNCHANGED <<simVars, serverVars, state, seen, learnt>>

\* env.step after its wait: read the report, notify, return; the PPO
\* environment publishes the action only now.
WakeLearner(t) ==
  /\ pc[t] = "notified" /\ LockFree
  /\ seen' = [seen EXCEPT ![t] = state.id]
  /\ learnt' = [learnt EXCEPT ![t] = [act |-> act[t], window |-> state.window]]
  /\ action' = IF PublishesEarly THEN action ELSE act[t]
  /\ pc' = [Released(pc) EXCEPT ![t] = "learning"]
  /\ waiters' = Remaining
  /\ UNCHANGED <<simVars, serverVars, state, act>>

\* model.learn() reaches total_timesteps or raises; the thread is over.
Finish(t) ==
  /\ LearnEnds /\ pc[t] = "learning"
  /\ pc' = [pc EXCEPT ![t] = "done"]
  /\ UNCHANGED <<simVars, serverVars, waiters, envVars, learnerVars>>

-----------------------------------------------------------------------------
\* Nothing is left to simulate and nothing is left to answer.
Terminated ==
  /\ sim = "off" /\ sims = MaxSims /\ inbox = <<>> /\ pc[Server] = "idle"
  /\ UNCHANGED vars

Simulation == StartSimulation \/ SendReport \/ GiveUp \/ EndSimulation

Handler ==
  \/ ConfigureContinue \/ ConfigureBusy \/ ConfigureStart
  \/ InferShort \/ InferTransition \/ InferEnter \/ InferWake \/ InferReply

Learner(t) == Begin(t) \/ Step(t) \/ WakeLearner(t) \/ Finish(t)

Next ==
  \/ Simulation
  \/ Handler
  \/ stop_training
  \/ \E t \in Threads : Learner(t)
  \/ Terminated

\* The operating system runs every runnable thread; nothing is assumed of
\* the simulation or of the operator, and learn() need never end.
Fairness ==
  /\ WF_vars(Handler)
  /\ \A t \in Threads : WF_vars(Begin(t) \/ Step(t) \/ WakeLearner(t))

Spec == Init /\ [][Next]_vars /\ Fairness

-----------------------------------------------------------------------------
(* Properties.                                                             *)

\* Every variable keeps its type; ids are report numbers.
TypeOK ==
  /\ sim \in {"off", "on"}
  /\ call \in Message \cup {None}
  /\ applied \in Action
  /\ sent \in Nat /\ sims \in Nat /\ timeouts \in Nat
  /\ inbox \in Seq(Message)
  /\ cur \in Message \cup {None}
  /\ result \in Action
  /\ transLeft \in Nat /\ static \in Nat
  /\ agent_thread \in Threads \cup {None}
  /\ pc \in [Procs -> {"idle", "reply", "new", "started", "learning",
                       "waiting", "notified", "done"}]
  /\ pc[Server] \in {"idle", "waiting", "notified", "reply"}
  /\ \A t \in Threads : pc[t] \notin {"idle", "reply"}
  /\ waiters \in Seq(Procs)
  /\ state \in [id : Nat, window : Action, prev : Nat]
  /\ action \in Nat \cup {None}
  /\ seen \in [Threads -> Nat \cup {None}]
  /\ act \in [Threads -> Nat \cup {None}]

LearnersAlive == \A t \in Threads : pc[t] # "done"

\* The weights in force were computed from the last state report answered,
\* never from an older one, or are the neutral ones: what README.md:49-51
\* says of the communication flow (while no learn() has ended).  The PPO
\* environments do not keep it.
FreshAction ==
  LearnersAlive =>
    applied \in {Zero, IF IsInfer(call) THEN sent - 1 ELSE sent}

\* The PPO environment answers with the action computed from the report
\* delivered just before the current one, against README.md:49-51 (env.py
\* publishes in step() after the wait): its lag is one report and never grows,
\* whatever the interleaving.
PpoLag ==
  (LearnersAlive /\ pc[Server] = "reply" /\ Algo = "PPO") => result = state.prev

\* The reward a learner records for an action was measured while that action
\* was in force, or while ns-3 had fallen back to the neutral weights (DQN
\* environments, while no learn() has ended).
CreditOrDefault ==
  LearnersAlive =>
    \A t \in Threads :
      learnt[t] # None => learnt[t].window \in {learnt[t].act, Zero}

\* While the server waits in ppo() some learner has been notified and will
\* pass the baton on: server and learner never wait for each other.
NoLostWakeup ==
  (LearnersAlive /\ pc[Server] = "waiting") => \E t \in Threads : pc[t] = "notified"

\* The environment's report is overwritten only after a learner has read it.
NoReportLost ==
  [][state' # state => \E t \in Threads : seen[t] = state.id]_vars

\* A handler that took a report returns, unless some learn() has ended: server
\* and learner never wait for each other (ppo() and step(), server.py:175-177).
HandlerReturns ==
  pc[Server] # "idle" ~> (pc[Server] = "idle" \/ ~LearnersAlive)

\* A transition answers no more reports than /configure set it to, however
\* often ns-3 restarts and configures again while it lasts.
TransitionBounded == static <= TransitionSteps

phase == IF sim = "off" THEN "off" ELSE IF IsInfer(call) THEN "wait" ELSE "run"

Service == INSTANCE ActionService WITH asked <- sent

\* ns-3, seen from outside, is served as ActionService promises.
ServiceSpec == Service!Spec

=============================================================================
