-------------------------- MODULE TrainingLoopProofs --------------------------
(***************************************************************************)
(* Theorems about TrainingLoop, for every set of learner threads, every    *)
(* number of requests, timeouts and simulations.                           *)
(***************************************************************************)
EXTENDS TrainingLoop, SequenceTheorems, TLAPS

-----------------------------------------------------------------------------
(* The inductive invariant, in named parts.                                *)

\* The queue q holds exactly the processes that wait according to p, once each.
Queued(p, q) ==
  /\ \A i \in 1..Len(q) : p[q[i]] = "waiting"
  /\ \A i, j \in 1..Len(q) : q[i] = q[j] => i = j
  /\ \A x \in Procs : p[x] = "waiting" => \E i \in 1..Len(q) : q[i] = x

WaitersInv == Queued(pc, waiters)

\* One baton: at most one learner is notified, and only while the server waits.
BatonInv ==
  /\ \A t \in Threads : pc[t] = "notified" => pc[Server] = "waiting"
  /\ \A t, u \in Threads : pc[t] = "notified" /\ pc[u] = "notified" => t = u
  /\ AgentFirst => NoLostWakeup

\* Reports reach the server only after some learner has called env.step.
ReadyInv ==
  /\ \A i \in 1..Len(inbox) : inbox[i].kind = "infer" => sent > 0
  /\ (AgentFirst /\ sent > 0) => \E t \in Threads : act[t] # None
  /\ \A t \in Threads :
       act[t] # None => pc[t] \in {"learning", "waiting", "notified", "done"}
  /\ \A t \in Threads : pc[t] = "learning" => seen[t] # None

Busy == pc[Server] \in {"waiting", "notified", "reply"}

\* The call ns-3 is blocked in is its last one; what the server handles is
\* the report the environment holds.
CallInv ==
  /\ sim = "off" => call = None
  /\ IsInfer(call) => call.id = sent
  /\ Busy => IsInfer(cur) /\ cur.id = state.id

\* Once the server is notified, the published action is for the report in
\* the environment, or a learner holding the lock is about to publish it.
PublishedInv ==
  /\ Busy => \A t \in Threads : pc[t] = "learning" => seen[t] = state.id
  /\ (LearnersAlive /\ pc[Server] = "notified") =>
       (\E t \in Threads : pc[t] = "learning") \/ action = state.id
  /\ (LearnersAlive /\ pc[Server] = "reply") => action \in {None, state.id}

SyncInv  == WaitersInv /\ BatonInv /\ ReadyInv
FreshInv == CallInv /\ PublishedInv /\ FreshAction

-----------------------------------------------------------------------------
(* Type correctness.                                                       *)

Place == {"idle", "reply", "new", "started", "learning", "waiting", "notified", "done"}

USE DEF Procs, Action, Message, Place

\* The initial state is well typed.
LEMMA InitType == Init => TypeOK
  BY ProcAssumption, ValueAssumption, ConfigAssumption DEF Init, TypeOK

\* The steps of the ns-3 process preserve the types.
LEMMA SimulationType == TypeOK /\ Simulation => TypeOK'
<1> SUFFICES ASSUME TypeOK, Simulation PROVE TypeOK'
  OBVIOUS
<1> USE ValueAssumption DEF TypeOK, serverVars, syncVars, envVars, learnerVars
<1>1. CASE StartSimulation
  BY <1>1 DEF StartSimulation, Post
<1>2. CASE SendReport
  BY <1>2 DEF SendReport, Post
<1>3. CASE GiveUp
  BY <1>3 DEF GiveUp
<1>4. CASE EndSimulation
  BY <1>4 DEF EndSimulation
<1>5. QED
  BY <1>1, <1>2, <1>3, <1>4 DEF Simulation

\* notify() keeps the types of pc and of the queue it leaves.
LEMMA NotifyType ==
  ASSUME TypeOK
  PROVE  /\ Released(pc) \in [Procs -> Place]
         /\ \A p \in Procs : Released(pc)[p] \in {pc[p], "notified"}
         /\ Remaining \in Seq(Procs)
<1>1. CASE waiters = <<>>
  BY <1>1 DEF Released, Remaining, TypeOK
<1>2. CASE waiters # <<>>
  <2>1. Head(waiters) \in Procs /\ Tail(waiters) \in Seq(Procs)
    BY <1>2, HeadTailProperties DEF TypeOK
  <2>2. QED
    BY <1>2, <2>1 DEF Released, Remaining, TypeOK
<1>3. QED
  BY <1>1, <1>2

\* The handlers preserve the types.
LEMMA HandlerType == TypeOK /\ Handler => TypeOK'
<1> SUFFICES ASSUME TypeOK, Handler PROVE TypeOK'
  OBVIOUS
<1> USE ProcAssumption, ValueAssumption, ConfigAssumption
<1>h. ASSUME inbox # <<>>
      PROVE  Head(inbox) \in Message /\ Tail(inbox) \in Seq(Message)
  BY <1>h, HeadTailProperties DEF TypeOK
<1>1. CASE ConfigureContinue \/ ConfigureBusy \/ InferShort \/ InferTransition
  <2>1. /\ inbox' \in Seq(Message) /\ call' \in Message \cup {None}
        /\ applied' \in Action
        /\ UNCHANGED <<sim, sent, sims, timeouts>>
    BY <1>1, <1>h DEF TypeOK, ConfigureContinue, ConfigureBusy, InferShort,
       InferTransition, Taken, Answer
  <2>2. transLeft' \in Nat /\ static' \in Nat
    <3>1. CASE ConfigureContinue
      BY <3>1 DEF ConfigureContinue
    <3>2. CASE ConfigureBusy
      BY <3>2 DEF ConfigureBusy
    <3>3. CASE InferShort
      BY <3>3 DEF TypeOK, InferShort
    <3>4. CASE InferTransition
      <4>1. transLeft > 0 /\ transLeft' = transLeft - 1 /\ static' = static + 1
        BY <3>4 DEF InferTransition, InTransition
      <4>2. QED
        BY <4>1 DEF TypeOK
    <3>5. QED
      BY <1>1, <3>1, <3>2, <3>3, <3>4
  <2>3. UNCHANGED <<cur, result, agent_thread, syncVars, envVars, learnerVars>>
    BY <1>1 DEF ConfigureContinue, ConfigureBusy, InferShort, InferTransition
  <2>4. QED
    BY <2>1, <2>2, <2>3 DEF TypeOK, syncVars, envVars, learnerVars
<1>2. CASE ConfigureStart
  BY <1>2, <1>h DEF TypeOK, ConfigureStart, Taken, Answer, envVars, learnerVars
<1>3. CASE InferEnter
  <2>1. /\ Released(pc) \in [Procs -> Place]
        /\ \A p \in Procs : Released(pc)[p] \in {pc[p], "notified"}
        /\ Remaining \in Seq(Procs)
    BY NotifyType
  <2>2. /\ pc' = [Released(pc) EXCEPT ![Server] = "waiting"]
        /\ waiters' = Append(Remaining, Server)
    BY <1>3 DEF InferEnter
  <2>3. /\ pc' \in [Procs -> Place]
        /\ pc'[Server] \in {"idle", "waiting", "notified", "reply"}
        /\ \A t \in Threads : pc'[t] \notin {"idle", "reply"}
        /\ waiters' \in Seq(Procs)
    BY <2>1, <2>2 DEF TypeOK
  <2>4. state' \in [id : Nat, window : Action, prev : Nat] /\ cur' \in Message
    BY <1>3, <1>h DEF InferEnter, Taken, TypeOK
  <2>5. QED
    BY <1>3, <1>h, <2>3, <2>4
    DEF TypeOK, InferEnter, Taken, simVars, learnerVars
<1>4. CASE InferWake
  BY <1>4 DEF TypeOK, InferWake, simVars, envVars, learnerVars
<1>5. CASE InferReply
  <2>1. ReplyAction \in Action
    BY DEF ReplyAction, TypeOK
  <2>2. QED
    BY <1>5, <2>1 DEF TypeOK, InferReply, Answer, serverVars, envVars, learnerVars
<1>6. QED
  BY <1>1, <1>2, <1>3, <1>4, <1>5 DEF Handler

\* The steps of a learner preserve the types.
LEMMA LearnerType ==
  ASSUME NEW t \in Threads, TypeOK, Learner(t)
  PROVE  TypeOK'
<1> USE ProcAssumption, ValueAssumption, ConfigAssumption DEF simVars, serverVars, envVars
<1>1. CASE Begin(t)
  BY <1>1 DEF TypeOK, Begin
<1>2. CASE Step(t)
  BY <1>2 DEF TypeOK, Step
<1>3. CASE WakeLearner(t)
  <2>1. /\ Released(pc) \in [Procs -> Place]
        /\ \A p \in Procs : Released(pc)[p] \in {pc[p], "notified"}
        /\ Remaining \in Seq(Procs)
    BY NotifyType
  <2>2. /\ pc' = [Released(pc) EXCEPT ![t] = "learning"]
        /\ waiters' = Remaining
    BY <1>3 DEF WakeLearner
  <2>3. /\ pc' \in [Procs -> Place]
        /\ pc'[Server] \in {"idle", "waiting", "notified", "reply"}
        /\ \A u \in Threads : pc'[u] \notin {"idle", "reply"}
        /\ waiters' \in Seq(Procs)
    BY <2>1, <2>2 DEF TypeOK
  <2>4. /\ seen' \in [Threads -> Nat \cup {None}]
        /\ action' \in Nat \cup {None}
    BY <1>3 DEF WakeLearner, TypeOK
  <2>5. QED
    BY <1>3, <2>3, <2>4 DEF TypeOK, WakeLearner
<1>4. CASE Finish(t)
  BY <1>4 DEF TypeOK, Finish, learnerVars
<1>5. QED
  BY <1>1, <1>2, <1>3, <1>4 DEF Learner

\* Every step preserves the types.
LEMMA NextType == TypeOK /\ [Next]_vars => TypeOK'
<1> SUFFICES ASSUME TypeOK, [Next]_vars PROVE TypeOK'
  OBVIOUS
<1>1. CASE Simulation
  BY <1>1, SimulationType
<1>2. CASE Handler
  BY <1>2, HandlerType
<1>3. CASE stop_training
  BY <1>3 DEF stop_training, TypeOK, simVars, syncVars, envVars, learnerVars
<1>4. CASE \E t \in Threads : Learner(t)
  BY <1>4, LearnerType
<1>5. CASE UNCHANGED vars
  BY <1>5 DEF vars, TypeOK, simVars, serverVars, syncVars, envVars, learnerVars
<1>6. QED
  BY <1>1, <1>2, <1>3, <1>4, <1>5 DEF Next, Terminated

\* Type correctness of the training loop.
THEOREM TypeCorrect == Spec => []TypeOK
<1>1. Init => TypeOK
  BY InitType
<1>2. TypeOK /\ [Next]_vars => TypeOK'
  BY NextType
<1>3. QED
  BY <1>1, <1>2, PTL DEF Spec

-----------------------------------------------------------------------------
(* The queue of the condition.                                             *)

\* A process that does not wait moves to another such place.
LEMMA MoveQueued ==
  ASSUME NEW p \in [Procs -> Place], NEW q \in Seq(Procs), Queued(p, q),
         NEW x \in Procs, p[x] # "waiting", NEW v \in Place, v # "waiting"
  PROVE  Queued([p EXCEPT ![x] = v], q)
<1>1. \A i \in 1..Len(q) : q[i] \in Procs
  OBVIOUS
<1>2. QED
  BY <1>1 DEF Queued

\* wait() appends the caller.
LEMMA WaitQueued ==
  ASSUME NEW p \in [Procs -> Place], NEW q \in Seq(Procs), Queued(p, q),
         NEW x \in Procs, p[x] # "waiting"
  PROVE  Queued([p EXCEPT ![x] = "waiting"], Append(q, x))
<1> DEFINE pp == [p EXCEPT ![x] = "waiting"]
           qq == Append(q, x)
<1>1. /\ qq \in Seq(Procs) /\ Len(qq) = Len(q) + 1 /\ qq[Len(q) + 1] = x
      /\ \A i \in 1..Len(q) : qq[i] = q[i] /\ q[i] \in Procs
  OBVIOUS
<1>2. \A i \in 1..Len(q) : q[i] # x
  BY DEF Queued
<1>3. \A i \in 1..Len(qq) : pp[qq[i]] = "waiting"
  <2> SUFFICES ASSUME NEW i \in 1..Len(qq) PROVE pp[qq[i]] = "waiting"
    OBVIOUS
  <2>1. CASE i \in 1..Len(q)
    BY <2>1, <1>1 DEF Queued
  <2>2. CASE i = Len(q) + 1
    BY <2>2, <1>1
  <2>3. QED
    BY <2>1, <2>2, <1>1
<1>4. \A i, j \in 1..Len(qq) : qq[i] = qq[j] => i = j
  <2> SUFFICES ASSUME NEW i \in 1..Len(qq), NEW j \in 1..Len(qq), qq[i] = qq[j]
               PROVE  i = j
    OBVIOUS
  <2>1. CASE i \in 1..Len(q) /\ j \in 1..Len(q)
    BY <2>1, <1>1 DEF Queued
  <2>2. CASE i = Len(q) + 1 \/ j = Len(q) + 1
    BY <2>2, <1>1, <1>2
  <2>3. QED
    BY <2>1, <2>2, <1>1
<1>5. ASSUME NEW y \in Procs, pp[y] = "waiting"
      PROVE  \E i \in 1..Len(qq) : qq[i] = y
  <2>1. CASE y = x
    BY <2>1, <1>1
  <2>2. CASE y # x
    <3>1. PICK i \in 1..Len(q) : q[i] = y
      BY <2>2, <1>5 DEF Queued
    <3>2. i \in 1..Len(qq) /\ qq[i] = y
      BY <3>1, <1>1
    <3>3. QED
      BY <3>2
  <2>3. QED
    BY <2>1, <2>2
<1>6. QED
  BY <1>3, <1>4, <1>5 DEF Queued

\* notify() takes the oldest waiter out of the queue and releases it.
LEMMA NotifyQueued == TypeOK /\ WaitersInv => Queued(Released(pc), Remaining)
<1> SUFFICES ASSUME TypeOK, WaitersInv PROVE Queued(Released(pc), Remaining)
  OBVIOUS
<1>1. CASE waiters = <<>>
  BY <1>1 DEF WaitersInv, Released, Remaining
<1>2. CASE waiters # <<>>
  <2> DEFINE pp == [pc EXCEPT ![Head(waiters)] = "notified"]
             qq == Tail(waiters)
  <2>1. /\ Len(waiters) \in Nat /\ Len(waiters) >= 1
        /\ Head(waiters) = waiters[1] /\ Head(waiters) \in Procs
        /\ Len(qq) = Len(waiters) - 1
        /\ \A i \in 1..Len(qq) : qq[i] = waiters[i + 1] /\ qq[i] \in Procs
    BY <1>2, HeadTailProperties DEF TypeOK
  <2>2. \A i \in 1..Len(qq) : qq[i] # Head(waiters)
    BY <2>1 DEF WaitersInv, Queued
  <2>3. \A i \in 1..Len(qq) : pp[qq[i]] = "waiting"
    BY <2>1, <2>2 DEF WaitersInv, Queued, TypeOK
  <2>4. \A i, j \in 1..Len(qq) : qq[i] = qq[j] => i = j
    BY <2>1 DEF WaitersInv, Queued
  <2>5. ASSUME NEW y \in Procs, pp[y] = "waiting"
        PROVE  \E i \in 1..Len(qq) : qq[i] = y
    <3>1. y # Head(waiters) /\ pc[y] = "waiting"
      BY <2>1, <2>5 DEF TypeOK
    <3>2. PICK i \in 1..Len(waiters) : waiters[i] = y
      BY <3>1 DEF WaitersInv, Queued
    <3>3. i # 1
      BY <3>1, <3>2, <2>1
    <3>4. (i - 1) \in 1..Len(qq) /\ qq[i - 1] = y
      BY <3>2, <3>3, <2>1
    <3>5. QED
      BY <3>4
  <2>6. Queued(pp, qq)
    BY <2>3, <2>4, <2>5 DEF Queued
  <2>7. QED
    BY <1>2, <2>6 DEF Released, Remaining
<1>3. QED
  BY <1>1, <1>2

\* Every step keeps the queue and the waiting processes in agreement.
LEMMA WaitersNext == TypeOK /\ WaitersInv /\ [Next]_vars => WaitersInv'
<1> SUFFICES ASSUME TypeOK, WaitersInv, [Next]_vars PROVE WaitersInv'
  OBVIOUS
<1>t. pc \in [Procs -> Place] /\ waiters \in Seq(Procs)
  BY DEF TypeOK
<1>q. ASSUME UNCHANGED <<pc, waiters>> PROVE WaitersInv'
  BY <1>q DEF WaitersInv, Queued
<1>m. ASSUME NEW x \in Procs, pc[x] # "waiting", NEW v \in Place, v # "waiting",
             pc' = [pc EXCEPT ![x] = v], UNCHANGED waiters
      PROVE  WaitersInv'
  BY <1>m, <1>t, MoveQueued DEF WaitersInv
<1>n. /\ Queued(Released(pc), Remaining)
      /\ Released(pc) \in [Procs -> Place]
      /\ \A p \in Procs : Released(pc)[p] \in {pc[p], "notified"}
      /\ Remaining \in Seq(Procs)
  BY NotifyQueued, NotifyType
<1>1. CASE Simulation
  BY <1>1, <1>q DEF Simulation, StartSimulation, SendReport, GiveUp, EndSimulation, syncVars
<1>2. CASE Handler
  <2>1. CASE ConfigureContinue \/ ConfigureBusy \/ InferShort \/ InferTransition
    BY <2>1, <1>q DEF ConfigureContinue, ConfigureBusy, InferShort, InferTransition, syncVars
  <2>2. CASE ConfigureStart
    BY <2>2, <1>m DEF ConfigureStart
  <2>3. CASE InferEnter
    <3>1. pc[Server] = "idle"
      BY <2>3 DEF InferEnter, Taken
    <3>2. Queued([Released(pc) EXCEPT ![Server] = "waiting"], Append(Remaining, Server))
      BY <1>n, <3>1, WaitQueued
    <3>3. QED
      BY <2>3, <3>2 DEF InferEnter, WaitersInv
  <2>4. CASE InferWake
    BY <2>4, <1>m DEF InferWake
  <2>5. CASE InferReply
    BY <2>5, <1>m DEF InferReply
  <2>6. QED
    BY <1>2, <2>1, <2>2, <2>3, <2>4, <2>5 DEF Handler
<1>3. CASE stop_training
  BY <1>3, <1>q DEF stop_training, syncVars
<1>4. ASSUME NEW t \in Threads, Learner(t) PROVE WaitersInv'
  <2>1. CASE Begin(t)
    BY <2>1, <1>m DEF Begin
  <2>2. CASE Step(t)
    <3>1. Queued([pc EXCEPT ![t] = "waiting"], Append(waiters, t))
      BY <2>2, <1>t, WaitQueued DEF Step, WaitersInv
    <3>2. QED
      BY <2>2, <3>1 DEF Step, WaitersInv
  <2>3. CASE WakeLearner(t)
    <3>1. pc[t] = "notified"
      BY <2>3 DEF WakeLearner
    <3>2. Queued([Released(pc) EXCEPT ![t] = "learning"], Remaining)
      BY <1>n, <3>1, MoveQueued
    <3>3. QED
      BY <2>3, <3>2 DEF WakeLearner, WaitersInv
  <2>4. CASE Finish(t)
    BY <2>4, <1>m DEF Finish
  <2>5. QED
    BY <1>4, <2>1, <2>2, <2>3, <2>4 DEF Learner
<1>5. CASE UNCHANGED vars
  BY <1>5, <1>q DEF vars, syncVars
<1>6. QED
  BY <1>1, <1>2, <1>3, <1>4, <1>5 DEF Next, Terminated

-----------------------------------------------------------------------------
(* The baton.                                                              *)

\* notify() releases the oldest waiter, and nobody else moves.
LEMMA NotifyReleases ==
  ASSUME TypeOK, WaitersInv
  PROVE  \/ waiters = <<>> /\ Released(pc) = pc
         \/ \E h \in Procs : /\ pc[h] = "waiting"
                             /\ Released(pc) = [pc EXCEPT ![h] = "notified"]
<1>1. CASE waiters = <<>>
  BY <1>1 DEF Released
<1>2. CASE waiters # <<>>
  <2>1. 1 \in 1..Len(waiters) /\ Head(waiters) = waiters[1] /\ Head(waiters) \in Procs
    BY <1>2, HeadTailProperties DEF TypeOK
  <2>2. pc[Head(waiters)] = "waiting"
    BY <2>1 DEF WaitersInv, Queued
  <2>3. QED
    BY <1>2, <2>1, <2>2 DEF Released
<1>3. QED
  BY <1>1, <1>2

\* Every step keeps at most one learner notified, and one when it is needed.
LEMMA BatonNext == TypeOK /\ SyncInv /\ [Next]_vars => BatonInv'
<1> SUFFICES ASSUME TypeOK, SyncInv, [Next]_vars PROVE BatonInv'
  OBVIOUS
<1> USE ProcAssumption DEF SyncInv, BatonInv, NoLostWakeup, LearnersAlive
<1>t. pc \in [Procs -> Place]
  BY DEF TypeOK
<1>q. ASSUME UNCHANGED pc PROVE BatonInv'
  BY <1>q
<1>m. ASSUME NEW t \in Threads, pc[t] # "notified", NEW v \in Place, v # "notified",
             pc[t] # "done", pc' = [pc EXCEPT ![t] = v]
      PROVE  BatonInv'
  BY <1>m, <1>t
<1>1. CASE Simulation
  BY <1>1, <1>q DEF Simulation, StartSimulation, SendReport, GiveUp, EndSimulation, syncVars
<1>2. CASE Handler
  <2>1. CASE ConfigureContinue \/ ConfigureBusy \/ InferShort \/ InferTransition
    BY <2>1, <1>q DEF ConfigureContinue, ConfigureBusy, InferShort, InferTransition, syncVars
  <2>2. CASE ConfigureStart
    BY <2>2, <1>m DEF ConfigureStart
  <2>3. CASE InferEnter
    <3>1. /\ pc[Server] = "idle" /\ LockFree
          /\ inbox # <<>> /\ Head(inbox).kind = "infer"
          /\ pc' = [Released(pc) EXCEPT ![Server] = "waiting"]
      BY <2>3 DEF InferEnter, Taken
    <3>2. \A t \in Threads : pc[t] # "notified"
      BY <3>1
    <3>3. CASE waiters = <<>> /\ Released(pc) = pc
      <4>1. \A p \in Procs : pc[p] # "waiting"
        BY <3>3 DEF WaitersInv, Queued
      <4>2. sent > 0
        BY <3>1, HeadTailProperties DEF ReadyInv, TypeOK
      <4>3. AgentFirst => ~LearnersAlive
        BY <4>1, <4>2, <3>1, <3>2 DEF ReadyInv, LockFree
      <4>4. QED
        BY <3>1, <3>2, <3>3, <4>3, <1>t
    <3>4. ASSUME NEW h \in Procs, pc[h] = "waiting",
                 Released(pc) = [pc EXCEPT ![h] = "notified"]
          PROVE  BatonInv'
      <4>1. h \in Threads
        BY <3>1, <3>4
      <4>2. pc' = [pc EXCEPT ![h] = "notified", ![Server] = "waiting"]
        BY <3>1, <3>4
      <4>3. QED
        BY <3>2, <4>1, <4>2, <1>t
    <3>5. QED
      BY <3>3, <3>4, NotifyReleases
  <2>4. CASE InferWake
    BY <2>4, <1>t DEF InferWake
  <2>5. CASE InferReply
    BY <2>5, <1>t DEF InferReply
  <2>6. QED
    BY <1>2, <2>1, <2>2, <2>3, <2>4, <2>5 DEF Handler
<1>3. CASE stop_training
  BY <1>3, <1>q DEF stop_training, syncVars
<1>4. ASSUME NEW t \in Threads, Learner(t) PROVE BatonInv'
  <2>1. CASE Begin(t)
    BY <2>1, <1>m DEF Begin
  <2>2. CASE Step(t)
    BY <2>2, <1>m DEF Step
  <2>3. CASE WakeLearner(t)
    <3>1. /\ pc[t] = "notified" /\ pc[Server] = "waiting"
          /\ pc' = [Released(pc) EXCEPT ![t] = "learning"]
      BY <2>3 DEF WakeLearner
    <3>2. waiters # <<>>
      BY <3>1 DEF WaitersInv, Queued
    <3>3. PICK h \in Procs : /\ pc[h] = "waiting"
                             /\ Released(pc) = [pc EXCEPT ![h] = "notified"]
      BY <3>2, NotifyReleases
    <3>4. pc' = [pc EXCEPT ![h] = "notified", ![t] = "learning"]
      BY <3>1, <3>3
    <3>5. QED
      BY <3>1, <3>3, <3>4, <1>t
  <2>4. CASE Finish(t)
    BY <2>4, <1>t DEF Finish
  <2>5. QED
    BY <1>4, <2>1, <2>2, <2>3, <2>4 DEF Learner
<1>5. CASE UNCHANGED vars
  BY <1>5, <1>q DEF vars, syncVars
<1>6. QED
  BY <1>1, <1>2, <1>3, <1>4, <1>5 DEF Next, Terminated

\* Every step keeps: no report before some learner is in env.step.
LEMMA ReadyNext == TypeOK /\ SyncInv /\ [Next]_vars => ReadyInv'
<1> SUFFICES ASSUME TypeOK, SyncInv, [Next]_vars PROVE ReadyInv'
  OBVIOUS
<1> USE ProcAssumption, ValueAssumption DEF SyncInv
<1>t. /\ pc \in [Procs -> Place] /\ act \in [Threads -> Nat \cup {None}]
      /\ seen \in [Threads -> Nat \cup {None}]
      /\ inbox \in Seq(Message) /\ sent \in Nat
  BY DEF TypeOK
<1>i. ASSUME inbox # <<>>, inbox' = Tail(inbox), UNCHANGED sent
      PROVE  \A i \in 1..Len(inbox') : inbox'[i].kind = "infer" => sent' > 0
  <2>1. \A i \in 1..Len(inbox') : (i + 1) \in 1..Len(inbox) /\ inbox'[i] = inbox[i + 1]
    BY <1>i, <1>t
  <2>2. QED
    BY <2>1, <1>i DEF ReadyInv
<1>q. ASSUME UNCHANGED <<pc, act, seen, sent>>,
             inbox' = inbox \/ (inbox # <<>> /\ inbox' = Tail(inbox))
      PROVE  ReadyInv'
  <2>1. CASE inbox' = inbox
    BY <2>1, <1>q DEF ReadyInv
  <2>2. CASE inbox # <<>> /\ inbox' = Tail(inbox)
    BY <2>2, <1>q, <1>i DEF ReadyInv
  <2>3. QED
    BY <1>q, <2>1, <2>2
<1>m. ASSUME UNCHANGED <<inbox, sent, act, seen>>, NEW p \in Procs, NEW v \in Place,
             pc' = [pc EXCEPT ![p] = v], v # "learning",
             p \in Threads => (act[p] = None \/ v \in {"waiting", "notified", "done"})
      PROVE  ReadyInv'
  BY <1>m, <1>t DEF ReadyInv
<1>1. CASE Simulation
  <2>1. ASSUME NEW m \in Message, inbox' = Append(inbox, m), UNCHANGED <<pc, act, seen>>,
               sent' \in Nat, sent' >= sent,
               m.kind = "infer" => sent' > 0,
               (AgentFirst /\ sent' > 0) => \E t \in Threads : act[t] # None
        PROVE  ReadyInv'
    <3>1. \A i \in 1..Len(inbox') :
            inbox'[i] = m \/ (i \in 1..Len(inbox) /\ inbox'[i] = inbox[i])
      BY <2>1, <1>t
    <3>2. QED
      BY <2>1, <3>1, <1>t DEF ReadyInv
  <2>2. CASE StartSimulation
    <3> DEFINE m == [kind |-> "configure", id |-> sims + 1, window |-> Zero, short |-> FALSE]
    <3>1. m \in Message /\ inbox' = Append(inbox, m) /\ m.kind # "infer"
      BY <2>2 DEF StartSimulation, Post, TypeOK
    <3>2. QED
      BY <2>1, <2>2, <3>1, <1>t DEF StartSimulation, ReadyInv, syncVars, learnerVars
  <2>3. CASE SendReport
    <3>1. PICK short \in BOOLEAN :
            inbox' = Append(inbox, [kind |-> "infer", id |-> sent + 1,
                                    window |-> applied, short |-> short])
      BY <2>3 DEF SendReport, Post
    <3> DEFINE m == [kind |-> "infer", id |-> sent + 1, window |-> applied, short |-> short]
    <3>3. m \in Message
      BY DEF TypeOK
    <3>2. QED
      BY <2>1, <2>3, <3>1, <3>3, <1>t DEF SendReport, syncVars, learnerVars
  <2>4. CASE GiveUp \/ EndSimulation
    BY <2>4, <1>q DEF GiveUp, EndSimulation, serverVars, syncVars, learnerVars
  <2>5. QED
    BY <1>1, <2>2, <2>3, <2>4 DEF Simulation
<1>2. CASE Handler
  <2>1. CASE ConfigureContinue \/ ConfigureBusy \/ InferShort \/ InferTransition
    BY <2>1, <1>q DEF ConfigureContinue, ConfigureBusy, InferShort, InferTransition,
       Taken, Answer, syncVars, learnerVars
  <2>2. CASE ConfigureStart
    <3>1. PICK t \in Threads : pc[t] = "new" /\ pc' = [pc EXCEPT ![t] = "started"]
      BY <2>2 DEF ConfigureStart
    <3>2. act[t] = None
      BY <3>1 DEF ReadyInv
    <3>3. /\ inbox # <<>> /\ inbox' = Tail(inbox) /\ UNCHANGED <<act, seen, sent>>
      BY <2>2 DEF ConfigureStart, Taken, Answer, learnerVars
    <3>4. QED
      BY <3>1, <3>2, <3>3, <1>i, <1>t DEF ReadyInv
  <2>3. CASE InferEnter
    <3>1. /\ inbox # <<>> /\ inbox' = Tail(inbox) /\ UNCHANGED <<act, seen, sent>>
          /\ pc' = [Released(pc) EXCEPT ![Server] = "waiting"]
      BY <2>3 DEF InferEnter, Taken, simVars, learnerVars
    <3>2. \A t \in Threads : pc'[t] \in {pc[t], "notified"}
      BY <3>1, NotifyType
    <3>3. QED
      BY <3>1, <3>2, <1>i, <1>t DEF ReadyInv
  <2>4. CASE InferWake
    BY <2>4, <1>m DEF InferWake, simVars, learnerVars
  <2>5. CASE InferReply
    BY <2>5, <1>m DEF InferReply, Answer, serverVars, learnerVars
  <2>6. QED
    BY <1>2, <2>1, <2>2, <2>3, <2>4, <2>5 DEF Handler
<1>3. CASE stop_training
  BY <1>3, <1>q DEF stop_training, simVars, syncVars, learnerVars
<1>4. ASSUME NEW t \in Threads, Learner(t) PROVE ReadyInv'
  <2>1. CASE Begin(t)
    <3>1. /\ UNCHANGED <<inbox, sent, act>> /\ pc' = [pc EXCEPT ![t] = "learning"]
          /\ seen' = [seen EXCEPT ![t] = state.id] /\ state.id \in Nat
      BY <2>1 DEF Begin, simVars, serverVars, TypeOK
    <3>2. QED
      BY <3>1, <1>t DEF ReadyInv
  <2>2. CASE Step(t)
    <3>1. /\ UNCHANGED <<inbox, sent, seen>> /\ pc' = [pc EXCEPT ![t] = "waiting"]
          /\ seen[t] # None
          /\ \A u \in Threads : u # t => act'[u] = act[u]
          /\ act' = [act EXCEPT ![t] = seen[t]]
      BY <2>2, <1>t DEF Step, simVars, serverVars, ReadyInv
    <3>2. \A u \in Threads : act'[u] # None =>
             pc'[u] \in {"learning", "waiting", "notified", "done"}
      BY <3>1, <1>t DEF ReadyInv
    <3>3. ASSUME NEW u \in Threads, act[u] # None PROVE \E w \in Threads : act'[w] # None
      BY <3>1, <3>3, <1>t
    <3>4. QED
      BY <3>1, <3>2, <3>3, <1>t DEF ReadyInv
  <2>3. CASE WakeLearner(t)
    <3>1. /\ UNCHANGED <<inbox, sent, act>>
          /\ pc' = [Released(pc) EXCEPT ![t] = "learning"]
          /\ seen' = [seen EXCEPT ![t] = state.id] /\ state.id \in Nat
          /\ pc[t] = "notified"
      BY <2>3 DEF WakeLearner, simVars, serverVars, TypeOK
    <3>2. pc'[t] = "learning" /\ \A u \in Threads : u # t => pc'[u] \in {pc[u], "notified"}
      BY <3>1, NotifyType
    <3>3. QED
      BY <3>1, <3>2, <1>t DEF ReadyInv
  <2>4. CASE Finish(t)
    BY <2>4, <1>m DEF Finish, simVars, serverVars, learnerVars
  <2>5. QED
    BY <1>4, <2>1, <2>2, <2>3, <2>4 DEF Learner
<1>5. CASE UNCHANGED vars
  BY <1>5, <1>q DEF vars, simVars, serverVars, syncVars, learnerVars
<1>6. QED
  BY <1>1, <1>2, <1>3, <1>4, <1>5 DEF Next, Terminated

\* The synchronisation invariant holds initially.
LEMMA InitSync == Init => SyncInv
<1> SUFFICES ASSUME Init PROVE SyncInv
  OBVIOUS
<1> USE ProcAssumption DEF Init
<1>1. WaitersInv
  <2>1. waiters = <<>> /\ \A p \in Procs : pc[p] # "waiting"
    OBVIOUS
  <2>2. 1..Len(<<>>) = {}
    OBVIOUS
  <2>3. QED
    BY <2>1, <2>2 DEF WaitersInv, Queued
<1>2. BatonInv
  BY DEF BatonInv, NoLostWakeup
<1>3. ReadyInv
  BY DEF ReadyInv
<1>4. QED
  BY <1>1, <1>2, <1>3 DEF SyncInv

\* No lost wakeup: a server that waits in ppo() has a notified learner to
\* wait for, whatever the number of learners that /stop_training left behind,
\* provided a learner has reached env.step before the first report.
THEOREM BatonNeverLost ==
  ASSUME AgentFirst = TRUE
  PROVE  Spec => []NoLostWakeup
<1>1. Init => TypeOK /\ SyncInv
  BY InitType, InitSync
<1>2. TypeOK /\ SyncInv /\ [Next]_vars => (TypeOK /\ SyncInv)'
  BY NextType, WaitersNext, BatonNext, ReadyNext DEF SyncInv
<1>3. SyncInv => NoLostWakeup
  BY DEF SyncInv, BatonInv
<1>4. QED
  BY <1>1, <1>2, <1>3, PTL DEF Spec

-----------------------------------------------------------------------------
(* Freshness.                                                              *)

\* The steps of ns-3 keep the calls in order and the weights fresh.
LEMMA SimulationFresh == TypeOK /\ FreshInv /\ Simulation => FreshInv'
<1> SUFFICES ASSUME TypeOK, FreshInv, Simulation PROVE FreshInv'
  OBVIOUS
<1> USE ValueAssumption DEF FreshInv, CallInv, FreshAction, IsInfer
<1>1. PublishedInv' /\ Busy' = Busy /\ LearnersAlive' = LearnersAlive
      /\ UNCHANGED <<cur, state>>
  BY DEF Simulation, StartSimulation, SendReport, GiveUp, EndSimulation, serverVars,
     syncVars, envVars, learnerVars, PublishedInv, Busy, LearnersAlive
<1>2. CASE StartSimulation
  BY <1>1, <1>2 DEF StartSimulation, Post
<1>3. CASE SendReport
  <2>1. PICK m \in [kind : {"infer"}, id : {sent + 1}, window : {applied}, short : BOOLEAN] :
          call' = m
    BY <1>3 DEF SendReport, Post
  <2>2. /\ call = None /\ sim = "on" /\ sim' = "on" /\ applied' = applied
        /\ sent' = sent + 1 /\ sent' - 1 = sent /\ call'.id = sent'
        /\ call' # None /\ call'.kind = "infer"
    BY <1>3, <2>1 DEF SendReport, TypeOK
  <2>3. QED
    BY <1>1, <2>2
<1>4. CASE GiveUp
  BY <1>1, <1>4 DEF GiveUp
<1>5. CASE EndSimulation
  BY <1>1, <1>5 DEF EndSimulation
<1>6. QED
  BY <1>2, <1>3, <1>4, <1>5 DEF Simulation

\* An answer of Zero, or of the current report to the call it belongs to,
\* keeps the calls in order and the weights fresh.
LEMMA AnswerFresh ==
  ASSUME TypeOK, CallInv, FreshAction, NEW m \in Message \cup {None}, NEW a,
         Answer(m, a), LearnersAlive' = LearnersAlive,
         (LearnersAlive /\ IsInfer(m)) => a \in {Zero, m.id}
  PROVE  /\ sim' = "off" => call' = None
         /\ IsInfer(call') => call'.id = sent'
         /\ FreshAction'
  BY ValueAssumption DEF TypeOK, CallInv, FreshAction, Answer, IsInfer

\* The handlers keep them too.
LEMMA HandlerFresh ==
  ASSUME Algo = "DQN", TypeOK, SyncInv, FreshInv, Handler
  PROVE  FreshInv'
<1> USE ProcAssumption, ValueAssumption DEF FreshInv
<1>t. pc \in [Procs -> Place]
  BY DEF TypeOK
<1>h. ASSUME inbox # <<>> PROVE Head(inbox) \in Message
  BY <1>h, HeadTailProperties DEF TypeOK
<1>z. ASSUME Answer(Head(inbox), Zero), inbox # <<>>, pc[Server] = "idle",
             UNCHANGED <<cur, state, action, seen>>,
             pc' = pc \/ \E t \in Threads : pc[t] = "new" /\ pc' = [pc EXCEPT ![t] = "started"]
      PROVE  FreshInv'
  <2>1. LearnersAlive' = LearnersAlive /\ pc'[Server] = "idle"
    BY <1>z, <1>t DEF LearnersAlive
  <2>2. /\ sim' = "off" => call' = None
        /\ IsInfer(call') => call'.id = sent'
        /\ FreshAction'
    BY <1>h, <1>z, <2>1, AnswerFresh
  <2>3. QED
    BY <1>z, <2>1, <2>2 DEF CallInv, PublishedInv, Busy
<1>1. CASE ConfigureContinue \/ ConfigureBusy \/ InferShort \/ InferTransition
  BY <1>1, <1>z DEF ConfigureContinue, ConfigureBusy, InferShort, InferTransition,
     Taken, syncVars, envVars, learnerVars
<1>2. CASE ConfigureStart
  BY <1>2, <1>z DEF ConfigureStart, Taken, envVars, learnerVars
<1>3. CASE InferEnter
  <2>1. /\ LockFree /\ pc[Server] = "idle"
        /\ inbox # <<>> /\ Head(inbox).kind = "infer" /\ Head(inbox) \in Message
        /\ cur' = Head(inbox) /\ state'.id = Head(inbox).id
        /\ pc' = [Released(pc) EXCEPT ![Server] = "waiting"]
        /\ UNCHANGED <<sim, call, applied, sent, seen>>
    BY <1>3, <1>h DEF InferEnter, Taken, simVars, learnerVars
  <2>2. /\ pc'[Server] = "waiting"
        /\ \A t \in Threads : pc'[t] \in {pc[t], "notified"}
        /\ \A t \in Threads : pc[t] = "done" => pc'[t] = "done"
    <3>1. CASE waiters = <<>> /\ Released(pc) = pc
      BY <2>1, <3>1, <1>t
    <3>2. CASE \E h \in Procs : /\ pc[h] = "waiting"
                                /\ Released(pc) = [pc EXCEPT ![h] = "notified"]
      BY <2>1, <3>2, <1>t
    <3>3. QED
      BY <3>1, <3>2, NotifyReleases DEF SyncInv
  <2>3. LearnersAlive' => LearnersAlive
    BY <2>2 DEF LearnersAlive
  <2>4. CallInv'
    BY <2>1 DEF CallInv, IsInfer
  <2>5. PublishedInv'
    BY <2>1, <2>2 DEF PublishedInv, LockFree
  <2>6. FreshAction'
    BY <2>1, <2>3 DEF FreshAction
  <2>7. QED
    BY <2>4, <2>5, <2>6
<1>4. CASE InferWake
  <2>1. /\ pc[Server] = "notified" /\ LockFree /\ pc' = [pc EXCEPT ![Server] = "reply"]
        /\ UNCHANGED <<sim, call, applied, sent, seen, cur, state, action>>
    BY <1>4 DEF InferWake, simVars, envVars, learnerVars
  <2>2. /\ pc'[Server] = "reply" /\ LearnersAlive' = LearnersAlive
        /\ \A t \in Threads : pc'[t] = pc[t]
    BY <2>1, <1>t DEF LearnersAlive
  <2>3. CallInv' /\ FreshAction'
    BY <2>1, <2>2 DEF CallInv, FreshAction, Busy
  <2>4. PublishedInv'
    BY <2>1, <2>2 DEF PublishedInv, LockFree, Busy
  <2>5. QED
    BY <2>3, <2>4
<1>5. CASE InferReply
  <2>1. /\ pc[Server] = "reply" /\ pc' = [pc EXCEPT ![Server] = "idle"]
        /\ Answer(cur, ReplyAction) /\ UNCHANGED <<cur, state, action, seen>>
    BY <1>5 DEF InferReply, serverVars, envVars, learnerVars
  <2>2. pc'[Server] = "idle" /\ LearnersAlive' = LearnersAlive
    BY <2>1, <1>t DEF LearnersAlive
  <2>3. IsInfer(cur) /\ cur.id = state.id
    BY <2>1 DEF CallInv, Busy
  <2>4. LearnersAlive => ReplyAction \in {Zero, cur.id}
    BY <2>1, <2>3 DEF PublishedInv, ReplyAction
  <2>5. /\ sim' = "off" => call' = None
        /\ IsInfer(call') => call'.id = sent'
        /\ FreshAction'
    BY <2>1, <2>2, <2>4, AnswerFresh DEF TypeOK
  <2>6. QED
    BY <2>2, <2>5 DEF CallInv, PublishedInv, Busy
<1>6. QED
  BY <1>1, <1>2, <1>3, <1>4, <1>5 DEF Handler

\* The steps of a learner keep them: what it publishes is for the report it
\* read, and while the server is busy that is the report being handled.
LEMMA LearnerFresh ==
  ASSUME Algo = "DQN", TypeOK, SyncInv, FreshInv, NEW t \in Threads, Learner(t)
  PROVE  FreshInv'
<1> USE ProcAssumption, ValueAssumption DEF FreshInv
<1>t. pc \in [Procs -> Place] /\ seen \in [Threads -> Nat \cup {None}] /\ state.id \in Nat
  BY DEF TypeOK
<1>c. ASSUME UNCHANGED <<sim, call, applied, sent, cur, state>>,
             Busy' => Busy, LearnersAlive' => LearnersAlive, PublishedInv'
      PROVE  FreshInv'
  BY <1>c DEF CallInv, FreshAction
<1>1. CASE Begin(t)
  <2>1. /\ pc[t] = "started" /\ pc' = [pc EXCEPT ![t] = "learning"] /\ action' = None
        /\ seen' = [seen EXCEPT ![t] = state.id]
        /\ UNCHANGED <<sim, call, applied, sent, cur, state>>
    BY <1>1 DEF Begin, simVars, serverVars
  <2>2. pc'[Server] = pc[Server] /\ LearnersAlive' = LearnersAlive /\ pc'[t] = "learning"
    BY <2>1, <1>t DEF LearnersAlive
  <2>3. PublishedInv'
    BY <2>1, <2>2, <1>t DEF PublishedInv, Busy
  <2>4. QED
    BY <2>1, <2>2, <2>3, <1>c DEF Busy
<1>2. CASE Step(t)
  <2>1. /\ pc[t] = "learning" /\ pc' = [pc EXCEPT ![t] = "waiting"] /\ action' = seen[t]
        /\ UNCHANGED <<sim, call, applied, sent, cur, state, seen>>
    BY <1>2 DEF Step, PublishesEarly, simVars, serverVars
  <2>2. pc'[Server] = pc[Server] /\ LearnersAlive' = LearnersAlive
    BY <2>1, <1>t DEF LearnersAlive
  <2>3. PublishedInv'
    BY <2>1, <2>2, <1>t DEF PublishedInv, Busy
  <2>4. QED
    BY <2>1, <2>2, <2>3, <1>c DEF Busy
<1>3. CASE WakeLearner(t)
  <2>1. /\ pc[t] = "notified" /\ pc' = [Released(pc) EXCEPT ![t] = "learning"]
        /\ seen' = [seen EXCEPT ![t] = state.id]
        /\ UNCHANGED <<sim, call, applied, sent, cur, state, action>>
    BY <1>3 DEF WakeLearner, PublishesEarly, simVars, serverVars
  <2>2. pc[Server] = "waiting"
    BY <2>1 DEF SyncInv, BatonInv
  <2>3. /\ pc'[Server] \in {"waiting", "notified"} /\ pc'[t] = "learning"
        /\ \A u \in Threads : u # t => pc'[u] \in {pc[u], "notified"}
        /\ \A u \in Threads : pc[u] = "done" => pc'[u] = "done"
    <3>1. CASE waiters = <<>> /\ Released(pc) = pc
      BY <2>1, <2>2, <3>1, <1>t
    <3>2. CASE \E h \in Procs : /\ pc[h] = "waiting"
                                /\ Released(pc) = [pc EXCEPT ![h] = "notified"]
      BY <2>1, <2>2, <3>2, <1>t
    <3>3. QED
      BY <3>1, <3>2, NotifyReleases DEF SyncInv
  <2>4. PublishedInv'
    BY <2>1, <2>2, <2>3, <1>t DEF PublishedInv, Busy
  <2>5. QED
    BY <2>1, <2>2, <2>3, <2>4, <1>c DEF Busy, LearnersAlive
<1>4. CASE Finish(t)
  <2>1. /\ pc[t] = "learning" /\ pc' = [pc EXCEPT ![t] = "done"]
        /\ UNCHANGED <<sim, call, applied, sent, cur, state, action, seen>>
    BY <1>4 DEF Finish, simVars, serverVars, envVars, learnerVars
  <2>2. pc'[Server] = pc[Server] /\ ~LearnersAlive'
    BY <2>1, <1>t DEF LearnersAlive
  <2>3. PublishedInv'
    BY <2>1, <2>2, <1>t DEF PublishedInv, Busy
  <2>4. QED
    BY <2>1, <2>2, <2>3, <1>c DEF Busy
<1>5. QED
  BY <1>1, <1>2, <1>3, <1>4 DEF Learner

\* The freshness invariant is inductive relative to types and synchronisation.
LEMMA FreshNext ==
  ASSUME Algo = "DQN"
  PROVE  TypeOK /\ SyncInv /\ FreshInv /\ [Next]_vars => FreshInv'
<1> SUFFICES ASSUME TypeOK, SyncInv, FreshInv, [Next]_vars PROVE FreshInv'
  OBVIOUS
<1> USE DEF FreshInv, CallInv, PublishedInv, FreshAction, Busy, LearnersAlive
<1>1. CASE Simulation
  BY <1>1, SimulationFresh
<1>2. CASE Handler
  BY <1>2, HandlerFresh
<1>3. CASE stop_training
  BY <1>3 DEF stop_training, simVars, syncVars, envVars, learnerVars
<1>4. CASE \E t \in Threads : Learner(t)
  BY <1>4, LearnerFresh
<1>5. CASE UNCHANGED vars
  BY <1>5 DEF vars, simVars, serverVars, syncVars, envVars, learnerVars
<1>6. QED
  BY <1>1, <1>2, <1>3, <1>4, <1>5 DEF Next, Terminated

\* The freshness invariant holds initially.
LEMMA InitFresh == Init => FreshInv
  BY ProcAssumption
  DEF Init, FreshInv, CallInv, PublishedInv, FreshAction, Busy, IsInfer

\* The inductive invariant of the DQN training loop.
IInv == TypeOK /\ SyncInv /\ FreshInv

\* It is invariant.
LEMMA InductiveInvariant ==
  ASSUME Algo = "DQN"
  PROVE  Spec => []IInv
<1>1. Init => IInv
  BY InitType, InitSync, InitFresh DEF IInv
<1>2. IInv /\ [Next]_vars => IInv'
  BY NextType, WaitersNext, BatonNext, ReadyNext, FreshNext DEF IInv, SyncInv
<1>3. QED
  BY <1>1, <1>2, PTL DEF Spec

\* With the DQN environments the weights in force are those computed from the
\* last report answered, or the neutral ones, until some learn() ends: for
\* every number of reports, timeouts, restarts of ns-3 and learner threads.
THEOREM AlwaysFresh ==
  ASSUME Algo = "DQN"
  PROVE  Spec => []FreshAction
<1>1. IInv => FreshAction
  BY DEF IInv, FreshInv
<1>2. QED
  BY <1>1, InductiveInvariant, PTL

-----------------------------------------------------------------------------
(* Refinement of ActionService.                                            *)

\* While learn() does not return, every step of the training loop is a step
\* of the service or leaves what ns-3 sees unchanged.
LEMMA ServiceStep ==
  ASSUME Algo = "DQN", LearnersAlive, IInv, [Next]_vars
  PROVE  [Service!Next]_Service!vars
<1> USE ValueAssumption DEF Service!vars, phase, IsInfer
<1>i. TypeOK /\ CallInv /\ PublishedInv
  BY DEF IInv, FreshInv
<1>q. ASSUME UNCHANGED <<sim, call, sent, applied>> PROVE [Service!Next]_Service!vars
  BY <1>q
<1>a. ASSUME NEW m \in Message \cup {None}, NEW a, Answer(m, a), IsInfer(m) => a \in {Zero, m.id}
      PROVE  [Service!Next]_Service!vars
  <2>1. CASE call = m /\ IsInfer(m)
    <3>1. a \in {Zero, sent} /\ sim = "on" /\ sim' = "on" /\ sent' = sent
          /\ call' = None /\ applied' = a
      BY <1>i, <1>a, <2>1 DEF CallInv, Answer, TypeOK
    <3>2. Service!Answer
      BY <2>1, <3>1 DEF Service!Answer
    <3>3. QED
      BY <3>2 DEF Service!Next
  <2>2. CASE ~(call = m /\ IsInfer(m))
    BY <1>a, <2>2 DEF Answer
  <2>3. QED
    BY <2>1, <2>2
<1>h. inbox # <<>> => Head(inbox) \in Message
  BY <1>i, HeadTailProperties DEF TypeOK
<1>1. CASE StartSimulation
  <2>1. call = None /\ sim = "off" /\ sim' = "on" /\ call'.kind = "configure"
        /\ UNCHANGED <<sent, applied>>
    BY <1>1, <1>i DEF StartSimulation, Post, CallInv
  <2>2. QED
    BY <2>1 DEF Service!Next, Service!Start
<1>2. CASE SendReport
  <2>1. PICK m \in [kind : {"infer"}, id : {sent + 1}, window : {applied}, short : BOOLEAN] :
          call' = m
    BY <1>2 DEF SendReport, Post
  <2>2. call' # None /\ call'.kind = "infer"
    BY <1>i, <2>1 DEF TypeOK, Message, Action
  <2>3. Service!Ask
    BY <1>2, <2>2 DEF SendReport, Service!Ask
  <2>4. QED
    BY <2>3 DEF Service!Next
<1>3. CASE GiveUp
  <2>1. CASE call.kind = "infer"
    <3>1. Service!Answer
      BY <1>3, <1>i, <2>1 DEF GiveUp, Service!Answer, CallInv, TypeOK
    <3>2. QED
      BY <3>1 DEF Service!Next
  <2>2. CASE call.kind # "infer"
    BY <1>3, <2>2 DEF GiveUp
  <2>3. QED
    BY <2>1, <2>2
<1>4. CASE EndSimulation
  BY <1>4 DEF EndSimulation, Service!Next, Service!Stop
<1>5. CASE ConfigureContinue \/ ConfigureBusy \/ ConfigureStart \/ InferShort \/ InferTransition
  <2>1. Answer(Head(inbox), Zero) /\ inbox # <<>>
    BY <1>5 DEF ConfigureContinue, ConfigureBusy, ConfigureStart, InferShort,
       InferTransition, Taken
  <2>2. QED
    BY <2>1, <1>a, <1>h
<1>6. CASE InferEnter \/ InferWake \/ stop_training
  BY <1>6, <1>q DEF InferEnter, InferWake, stop_training, simVars
<1>7. CASE InferReply
  <2>1. IsInfer(cur) => ReplyAction \in {Zero, cur.id}
    BY <1>7, <1>i DEF InferReply, CallInv, PublishedInv, Busy, ReplyAction
  <2>2. QED
    BY <1>7, <1>a, <1>i, <2>1 DEF InferReply, TypeOK
<1>8. CASE \E t \in Threads : Learner(t)
  BY <1>8, <1>q DEF Learner, Begin, Step, WakeLearner, Finish, simVars
<1>9. CASE UNCHANGED vars
  BY <1>9, <1>q DEF vars, simVars
<1>10. QED
  BY <1>1, <1>2, <1>3, <1>4, <1>5, <1>6, <1>7, <1>8, <1>9
  DEF Next, Simulation, Handler, Terminated

\* A learner that never ends stays alive.
LEMMA AliveNext ==
  ASSUME LearnEnds = FALSE
  PROVE  TypeOK /\ SyncInv /\ LearnersAlive /\ [Next]_vars => LearnersAlive'
<1> SUFFICES ASSUME TypeOK, SyncInv, LearnersAlive, [Next]_vars PROVE LearnersAlive'
  OBVIOUS
<1> USE ProcAssumption DEF LearnersAlive
<1>t. pc \in [Procs -> Place] /\ \A p \in Procs : Released(pc)[p] \in {pc[p], "notified"}
      /\ Released(pc) \in [Procs -> Place]
  BY NotifyType DEF TypeOK
<1>1. CASE Simulation \/ stop_training \/ UNCHANGED vars
  BY <1>1 DEF Simulation, StartSimulation, SendReport, GiveUp, EndSimulation,
     stop_training, vars, syncVars
<1>2. CASE Handler
  BY <1>2, <1>t DEF Handler, ConfigureContinue, ConfigureBusy, ConfigureStart,
     InferShort, InferTransition, InferEnter, InferWake, InferReply, syncVars
<1>3. CASE \E t \in Threads : Learner(t)
  BY <1>3, <1>t DEF Learner, Begin, Step, WakeLearner, Finish
<1>4. QED
  BY <1>1, <1>2, <1>3 DEF Next, Terminated

\* The safety part of ServiceSpec: with the DQN environments, and while
\* learn() does not return, what ns-3 observes is an execution of
\* ActionService, whatever the server and the learners do in between.
THEOREM ImplementsService ==
  ASSUME Algo = "DQN", LearnEnds = FALSE
  PROVE  Spec => Service!Init /\ [][Service!Next]_Service!vars
<1>1. Init => Service!Init
  BY DEF Init, Service!Init, phase
<1>2. Init => IInv /\ LearnersAlive
  BY InitType, InitSync, InitFresh, ProcAssumption DEF IInv, Init, LearnersAlive
<1>3. IInv /\ LearnersAlive /\ [Next]_vars => IInv' /\ LearnersAlive'
  BY NextType, WaitersNext, BatonNext, ReadyNext, FreshNext, AliveNext DEF IInv, SyncInv
<1>4. IInv /\ LearnersAlive /\ [Next]_vars => [Service!Next]_Service!vars
  BY ServiceStep
<1>5. QED
  BY <1>1, <1>2, <1>3, <1>4, PTL DEF Spec

-----------------------------------------------------------------------------
(* Transitions.                                                            *)

\* What a transition has answered and what it may still answer never add up
\* to more than /configure set, whatever order reports and restarts of ns-3
\* come in.
THEOREM TransitionsStayBounded == Spec => []TransitionBounded
<1> DEFINE Sum == static + transLeft <= TransitionSteps
<1>1. Init => Sum
  BY ConfigAssumption DEF Init
<1>2. TypeOK /\ Sum /\ [Next]_vars => Sum'
  <2> SUFFICES ASSUME TypeOK, Sum, [Next]_vars PROVE Sum'
    OBVIOUS
  <2> USE ConfigAssumption DEF TypeOK
  <2>1. CASE ConfigureContinue \/ ConfigureBusy \/ ConfigureStart
    BY <2>1 DEF ConfigureContinue, ConfigureBusy, ConfigureStart
  <2>2. CASE InferTransition
    BY <2>2 DEF InferTransition, InTransition
  <2>3. CASE ~(ConfigureContinue \/ ConfigureBusy \/ ConfigureStart \/ InferTransition)
    <3>1. UNCHANGED <<static, transLeft>>
      BY <2>3 DEF Next, Simulation, StartSimulation, SendReport, GiveUp, EndSimulation,
         Handler, InferShort, InferEnter, InferWake, InferReply, stop_training, Learner,
         Begin, Step, WakeLearner, Finish, Terminated, serverVars, vars
    <3>2. QED
      BY <3>1
  <2>4. QED
    BY <2>1, <2>2, <2>3
<1>3. TypeOK /\ Sum => TransitionBounded
  BY ConfigAssumption DEF TypeOK, TransitionBounded
<1>4. QED
  BY <1>1, <1>2, <1>3, TypeCorrect, PTL DEF Spec

-----------------------------------------------------------------------------
(* The lag of the PPO environment.                                         *)

\* Without /stop_training no second learner is ever started.
OnlyOne == LearnersAlive => \A t \in Threads : pc[t] # "new" => t = agent_thread

\* Where the report before the current one is, as the baton goes round: in the
\* action a notified learner is about to publish, then in the environment,
\* then in what ppo() returns.
LagInv ==
  LearnersAlive =>
    /\ \A t \in Threads : pc[t] = "learning" => seen[t] = state.id
    /\ \A t \in Threads : pc[t] = "waiting" => act[t] = state.id
    /\ \A t \in Threads : pc[t] = "notified" => act[t] = state.prev
    /\ pc[Server] = "notified" => action = state.prev
    /\ pc[Server] = "reply" => result = state.prev

\* A learner whose learn() is over does not come back.
LEMMA StillAlive == ASSUME TypeOK, WaitersInv, [Next]_vars, LearnersAlive' PROVE LearnersAlive
<1>t. /\ pc \in [Procs -> Place]
      /\ \A p \in Procs : Released(pc)[p] = pc[p] \/ (pc[p] = "waiting" /\ Released(pc)[p] = "notified")
      /\ Released(pc) \in [Procs -> Place]
  <2>1. pc \in [Procs -> Place]
    BY DEF TypeOK
  <2>2. QED
    BY <2>1, NotifyType, NotifyReleases
<1> USE ProcAssumption DEF LearnersAlive
<1>1. CASE Simulation \/ stop_training \/ Terminated \/ UNCHANGED vars
  BY <1>1 DEF Simulation, StartSimulation, SendReport, GiveUp, EndSimulation,
     stop_training, vars, syncVars, Terminated
<1>2. CASE Handler
  BY <1>2, <1>t DEF Handler, ConfigureContinue, ConfigureBusy, ConfigureStart,
     InferShort, InferTransition, InferEnter, InferWake, InferReply, syncVars
<1>3. CASE \E t \in Threads : Learner(t)
  BY <1>3, <1>t DEF Learner, Begin, Step, WakeLearner, Finish
<1>4. QED
  BY <1>1, <1>2, <1>3 DEF Next

\* Every step keeps the single learner and the lag.
LEMMA LagNext ==
  ASSUME Algo = "PPO", AllowStop = FALSE
  PROVE  TypeOK /\ WaitersInv /\ BatonInv /\ OnlyOne /\ LagInv /\ [Next]_vars => OnlyOne' /\ LagInv'
<1> SUFFICES ASSUME TypeOK, WaitersInv, BatonInv, OnlyOne, LagInv, [Next]_vars, LearnersAlive'
             PROVE  /\ \A t \in Threads : pc'[t] # "new" => t = agent_thread'
                    /\ \A t \in Threads : pc'[t] = "learning" => seen'[t] = state'.id
                    /\ \A t \in Threads : pc'[t] = "waiting" => act'[t] = state'.id
                    /\ \A t \in Threads : pc'[t] = "notified" => act'[t] = state'.prev
                    /\ pc'[Server] = "notified" => action' = state'.prev
                    /\ pc'[Server] = "reply" => result' = state'.prev
  BY DEF OnlyOne, LagInv
<1> USE ProcAssumption
<1>a. LearnersAlive
  BY StillAlive
<1>t. pc \in [Procs -> Place] /\ state \in [id : Nat, window : Action, prev : Nat]
      /\ seen \in [Threads -> Nat \cup {None}] /\ act \in [Threads -> Nat \cup {None}]
  BY DEF TypeOK
<1>o. \A t \in Threads : pc[t] # "new" => t = agent_thread
  BY <1>a DEF OnlyOne
<1>l. /\ \A t \in Threads : pc[t] = "learning" => seen[t] = state.id
      /\ \A t \in Threads : pc[t] = "waiting" => act[t] = state.id
      /\ \A t \in Threads : pc[t] = "notified" => act[t] = state.prev
      /\ pc[Server] = "notified" => action = state.prev
      /\ pc[Server] = "reply" => result = state.prev
  BY <1>a DEF LagInv
<1>q. ~PublishesEarly
  BY DEF PublishesEarly
<1>1. CASE Simulation \/ Terminated \/ UNCHANGED vars
  BY <1>1, <1>o, <1>l DEF Simulation, StartSimulation, SendReport, GiveUp, EndSimulation,
     vars, serverVars, syncVars, envVars, learnerVars, Terminated
<1>2. CASE ConfigureContinue \/ ConfigureBusy \/ InferShort \/ InferTransition
  BY <1>2, <1>o, <1>l DEF ConfigureContinue, ConfigureBusy, InferShort, InferTransition,
     syncVars, envVars, learnerVars
<1>3. CASE ConfigureStart
  <2>1. PICK t \in Threads : /\ pc[t] = "new" /\ pc' = [pc EXCEPT ![t] = "started"]
                             /\ agent_thread' = t
    BY <1>3 DEF ConfigureStart
  <2>2. UNCHANGED <<state, action, seen, act, result>> /\ ~is_agent_thread_running
    BY <1>3 DEF ConfigureStart, envVars, learnerVars
  <2>3. agent_thread \notin Threads
    BY <2>2, <1>a DEF is_agent_thread_running, LearnersAlive
  <2>4. \A u \in Threads : pc[u] = "new"
    BY <2>3, <1>o
  <2>5. QED
    BY <2>1, <2>2, <2>4, <1>t, <1>l
<1>4. CASE InferEnter
  <2>1. /\ pc[Server] = "idle" /\ LockFree
        /\ state' = [id |-> Head(inbox).id, window |-> Head(inbox).window, prev |-> state.id]
        /\ pc' = [Released(pc) EXCEPT ![Server] = "waiting"]
        /\ UNCHANGED <<agent_thread, result, action, seen, act>>
    BY <1>4 DEF InferEnter, Taken, learnerVars
  <2>2. \A t \in Threads : pc[t] \notin {"notified", "learning"}
    BY <2>1 DEF BatonInv, LockFree
  <2>3. state'.prev = state.id
    BY <2>1
  <2>4. CASE waiters = <<>> /\ Released(pc) = pc
    <3>1. \A p \in Procs : pc[p] # "waiting"
      BY <2>4 DEF WaitersInv, Queued
    <3>2. QED
      BY <3>1, <2>1, <2>2, <2>4, <1>t, <1>o
  <2>5. ASSUME NEW h \in Procs, pc[h] = "waiting", Released(pc) = [pc EXCEPT ![h] = "notified"]
        PROVE  /\ pc' = [pc EXCEPT ![h] = "notified", ![Server] = "waiting"]
               /\ h \in Threads /\ h = agent_thread
    BY <2>1, <2>5, <1>o
  <2>6. ASSUME NEW h \in Threads, pc[h] = "waiting", h = agent_thread,
               pc' = [pc EXCEPT ![h] = "notified", ![Server] = "waiting"]
        PROVE  /\ \A t \in Threads : pc'[t] # "new" => t = agent_thread'
               /\ \A t \in Threads : pc'[t] = "learning" => seen'[t] = state'.id
               /\ \A t \in Threads : pc'[t] = "waiting" => act'[t] = state'.id
               /\ \A t \in Threads : pc'[t] = "notified" => act'[t] = state'.prev
               /\ pc'[Server] = "waiting"
    <3>1. \A t \in Threads : pc'[t] = IF t = h THEN "notified" ELSE pc[t]
      BY <2>6, <1>t
    <3>2. \A t \in Threads : t # h => pc[t] = "new"
      BY <2>6, <1>o
    <3>3. act'[h] = state'.prev
      BY <2>1, <2>3, <2>6, <1>l
    <3>4. pc'[Server] = "waiting"
      BY <2>6, <1>t
    <3>5. QED
      BY <3>1, <3>2, <3>3, <3>4, <2>1, <2>6
  <2>7. QED
    BY <2>4, <2>5, <2>6, NotifyReleases
<1>5. CASE InferWake
  <2>1. /\ pc[Server] = "notified" /\ pc' = [pc EXCEPT ![Server] = "reply"] /\ result' = action
        /\ UNCHANGED <<agent_thread, state, action, seen, act>>
    BY <1>5 DEF InferWake, envVars, learnerVars
  <2>2. QED
    BY <2>1, <1>t, <1>o, <1>l
<1>6. CASE InferReply
  BY <1>6, <1>t, <1>o, <1>l DEF InferReply, serverVars, envVars, learnerVars
<1>7. CASE stop_training
  BY <1>7 DEF stop_training
<1>8. ASSUME NEW t \in Threads, Learner(t)
      PROVE  /\ \A u \in Threads : pc'[u] # "new" => u = agent_thread'
             /\ \A u \in Threads : pc'[u] = "learning" => seen'[u] = state'.id
             /\ \A u \in Threads : pc'[u] = "waiting" => act'[u] = state'.id
             /\ \A u \in Threads : pc'[u] = "notified" => act'[u] = state'.prev
             /\ pc'[Server] = "notified" => action' = state'.prev
             /\ pc'[Server] = "reply" => result' = state'.prev
  <2>1. CASE Begin(t)
    <3>1. /\ pc[t] = "started" /\ pc' = [pc EXCEPT ![t] = "learning"]
          /\ seen' = [seen EXCEPT ![t] = state.id] /\ action' = action
          /\ UNCHANGED <<agent_thread, result, state, act>>
      BY <2>1 DEF Begin, serverVars
    <3>2. QED
      BY <3>1, <1>t, <1>o, <1>l
  <2>2. CASE Step(t)
    <3>1. /\ pc[t] = "learning" /\ pc' = [pc EXCEPT ![t] = "waiting"]
          /\ act' = [act EXCEPT ![t] = seen[t]] /\ action' = action
          /\ UNCHANGED <<agent_thread, result, state, seen>>
      BY <2>2, <1>q DEF Step, serverVars
    <3>2. QED
      BY <3>1, <1>t, <1>o, <1>l
  <2>3. CASE WakeLearner(t)
    <3>1. /\ pc[t] = "notified" /\ pc' = [Released(pc) EXCEPT ![t] = "learning"]
          /\ seen' = [seen EXCEPT ![t] = state.id] /\ action' = act[t]
          /\ UNCHANGED <<agent_thread, result, state, act>>
      BY <2>3, <1>q DEF WakeLearner, serverVars
    <3>2. pc[Server] = "waiting" /\ act[t] = state.prev /\ \A u \in Threads : u # t => pc[u] = "new"
      BY <3>1, <1>l, <1>o DEF BatonInv
    <3>3. waiters # <<>>
      BY <3>2 DEF WaitersInv, Queued
    <3>4. PICK h \in Procs : pc[h] = "waiting" /\ Released(pc) = [pc EXCEPT ![h] = "notified"]
      BY <3>3, NotifyReleases
    <3>5. h = Server
      BY <3>1, <3>2, <3>4
    <3>6. pc' = [pc EXCEPT ![Server] = "notified", ![t] = "learning"]
      BY <3>1, <3>4, <3>5
    <3>7. pc'[Server] = "notified" /\ pc'[t] = "learning" /\ \A u \in Threads : u # t => pc'[u] = "new"
      BY <3>2, <3>6, <1>t
    <3>8. QED
      BY <3>1, <3>2, <3>7, <1>t, <1>o
  <2>4. CASE Finish(t)
    <3>1. pc'[t] = "done"
      BY <2>4, <1>t DEF Finish
    <3>2. QED
      BY <3>1 DEF LearnersAlive
  <2>5. QED
    BY <1>8, <2>1, <2>2, <2>3, <2>4 DEF Learner
<1>9. QED
  BY <1>1, <1>2, <1>3, <1>4, <1>5, <1>6, <1>7, <1>8 DEF Next, Handler

\* With the PPO environments, and while nobody stops the training, an answer is
\* the action computed from the report before the one it answers, whatever the
\* interleaving of the event loop, the learner and ns-3.
THEOREM LagIsOne ==
  ASSUME Algo = "PPO", AllowStop = FALSE
  PROVE  Spec => []PpoLag
<1>1. Init => TypeOK /\ SyncInv /\ OnlyOne /\ LagInv
  <2>1. Init => OnlyOne /\ LagInv
    BY ProcAssumption DEF Init, OnlyOne, LagInv
  <2>2. QED
    BY <2>1, InitType, InitSync
<1>2. TypeOK /\ SyncInv /\ OnlyOne /\ LagInv /\ [Next]_vars => (TypeOK /\ SyncInv /\ OnlyOne /\ LagInv)'
  BY NextType, WaitersNext, BatonNext, ReadyNext, LagNext DEF SyncInv
<1>3. LagInv => PpoLag
  BY DEF LagInv, PpoLag
<1>4. QED
  BY <1>1, <1>2, <1>3, PTL DEF Spec

-----------------------------------------------------------------------------
(* No report is overwritten before it is read.                             *)

\* Once some learner has called env.step, the report in the environment has
\* been read by some learner, except while the server waits; and a learner
\* that holds the lock has read it.
ReadInv ==
  /\ ((\E t \in Threads : act[t] # None) /\ pc[Server] # "waiting") =>
       \E t \in Threads : seen[t] = state.id
  /\ \A t \in Threads : pc[t] = "learning" => seen[t] = state.id

\* What one step does to places and readings: a report comes only when no
\* learner holds the lock, and the server stops waiting only when a learner
\* has read the report.
LEMMA StepReads ==
  ASSUME TypeOK, SyncInv, [Next]_vars
  PROVE  \/ InferEnter
         \/ \E t \in Threads : (Begin(t) \/ WakeLearner(t)) /\ state' = state
                               /\ seen' = [seen EXCEPT ![t] = state.id]
                               /\ act' = act
                               /\ pc'[t] = "learning"
                               /\ \A u \in Threads : pc'[u] = "learning" => u = t \/ pc[u] = "learning"
         \/ \E t \in Threads : Step(t) /\ UNCHANGED <<state, seen>> /\ pc[t] = "learning"
                               /\ act' = [act EXCEPT ![t] = seen[t]]
                               /\ pc'[Server] = pc[Server]
                               /\ \A u \in Threads : pc'[u] = "learning" => pc[u] = "learning"
         \/ /\ UNCHANGED <<state, seen, act>>
            /\ pc'[Server] = "waiting" <=> pc[Server] = "waiting"
            /\ \A u \in Threads : pc'[u] = "learning" => pc[u] = "learning"
<1> USE ProcAssumption
<1>t. /\ pc \in [Procs -> Place]
      /\ \A p \in Procs : Released(pc)[p] = pc[p] \/ (pc[p] = "waiting" /\ Released(pc)[p] = "notified")
      /\ Released(pc) \in [Procs -> Place]
  <2>1. pc \in [Procs -> Place] /\ WaitersInv
    BY DEF TypeOK, SyncInv
  <2>2. QED
    BY <2>1, NotifyType, NotifyReleases
<1>1. CASE Simulation \/ stop_training \/ Terminated \/ UNCHANGED vars
  BY <1>1 DEF Simulation, StartSimulation, SendReport, GiveUp, EndSimulation,
     stop_training, Terminated, vars, syncVars, envVars, learnerVars
<1>2. CASE Handler /\ ~InferEnter
  <2>1. CASE ConfigureStart
    <3>1. PICK t \in Threads : pc[t] = "new" /\ pc' = [pc EXCEPT ![t] = "started"]
      BY <2>1 DEF ConfigureStart
    <3>2. UNCHANGED <<state, seen, act>>
      BY <2>1 DEF ConfigureStart, envVars, learnerVars
    <3>3. QED
      BY <3>1, <3>2, <1>t
  <2>2. CASE InferWake \/ InferReply
    BY <2>2, <1>t DEF InferWake, InferReply, envVars, learnerVars
  <2>3. CASE ConfigureContinue \/ ConfigureBusy \/ InferShort \/ InferTransition
    BY <2>3 DEF ConfigureContinue, ConfigureBusy, InferShort, InferTransition,
       syncVars, envVars, learnerVars
  <2>4. QED
    BY <1>2, <2>1, <2>2, <2>3 DEF Handler
<1>3. ASSUME NEW t \in Threads, Learner(t)
      PROVE  \/ /\ (Begin(t) \/ WakeLearner(t)) /\ state' = state
                /\ seen' = [seen EXCEPT ![t] = state.id]
                /\ act' = act
                /\ pc'[t] = "learning"
                /\ \A u \in Threads : pc'[u] = "learning" => u = t \/ pc[u] = "learning"
             \/ /\ Step(t) /\ UNCHANGED <<state, seen>> /\ pc[t] = "learning"
                /\ act' = [act EXCEPT ![t] = seen[t]]
                /\ pc'[Server] = pc[Server]
                /\ \A u \in Threads : pc'[u] = "learning" => pc[u] = "learning"
             \/ /\ UNCHANGED <<state, seen, act>>
                /\ pc'[Server] = "waiting" <=> pc[Server] = "waiting"
                /\ \A u \in Threads : pc'[u] = "learning" => pc[u] = "learning"
  <2>1. CASE Begin(t)
    BY <2>1, <1>t DEF Begin
  <2>2. CASE WakeLearner(t)
    <3>1. pc' = [Released(pc) EXCEPT ![t] = "learning"]
      BY <2>2 DEF WakeLearner
    <3>2. pc'[t] = "learning" /\ \A u \in Threads : pc'[u] = "learning" => u = t \/ pc[u] = "learning"
      BY <3>1, <1>t
    <3>3. QED
      BY <2>2, <3>2 DEF WakeLearner
  <2>3. CASE Step(t)
    BY <2>3, <1>t DEF Step
  <2>4. CASE Finish(t)
    BY <2>4, <1>t DEF Finish, envVars, learnerVars
  <2>5. QED
    BY <1>3, <2>1, <2>2, <2>3, <2>4 DEF Learner
<1>4. QED
  BY <1>1, <1>2, <1>3 DEF Next

\* Every step keeps it.
LEMMA ReadNext == TypeOK /\ SyncInv /\ ReadInv /\ [Next]_vars => ReadInv'
<1> SUFFICES ASSUME TypeOK, SyncInv, ReadInv, [Next]_vars PROVE ReadInv'
  OBVIOUS
<1>t. /\ pc \in [Procs -> Place] /\ seen \in [Threads -> Nat \cup {None}]
      /\ act \in [Threads -> Nat \cup {None}]
  BY DEF TypeOK
<1>1. CASE InferEnter
  <2>1. pc' = [Released(pc) EXCEPT ![Server] = "waiting"] /\ LockFree
    BY <1>1 DEF InferEnter
  <2>2. \A p \in Procs : Released(pc)[p] = pc[p] \/ Released(pc)[p] = "notified"
    BY <1>t, NotifyReleases DEF SyncInv
  <2>3. Released(pc) \in [Procs -> Place]
    BY <1>t, NotifyType DEF SyncInv
  <2>4. pc'[Server] = "waiting" /\ \A t \in Threads : pc'[t] # "learning"
    BY <2>1, <2>2, <2>3, ProcAssumption DEF LockFree
  <2>5. QED
    BY <2>4 DEF ReadInv
<1>2. CASE ~InferEnter
  BY <1>2, <1>t, StepReads DEF ReadInv
<1>3. QED
  BY <1>1, <1>2

\* If the learner waits before the first report, a report in the environment
\* is overwritten only after a learner has read it, for any number of
\* learners, lost calls and simulations, and even after a learn() has ended.
THEOREM ReportsAreRead ==
  ASSUME AgentFirst = TRUE
  PROVE  Spec => NoReportLost
<1> DEFINE Step1 == state' # state => \E t \in Threads : seen[t] = state.id
<1>1. Init => TypeOK /\ SyncInv /\ ReadInv
  <2>1. Init => ReadInv
    BY ProcAssumption DEF Init, ReadInv
  <2>2. QED
    BY <2>1, InitType, InitSync
<1>2. TypeOK /\ SyncInv /\ ReadInv /\ [Next]_vars => (TypeOK /\ SyncInv /\ ReadInv)'
  BY NextType, WaitersNext, BatonNext, ReadyNext, ReadNext DEF SyncInv
<1>3. TypeOK /\ SyncInv /\ ReadInv /\ [Next]_vars => [Step1]_vars
  <2> SUFFICES ASSUME TypeOK, SyncInv, ReadInv, [Next]_vars, state' # state
               PROVE  \E t \in Threads : seen[t] = state.id
    OBVIOUS
  <2>1. InferEnter
    BY StepReads
  <2>2. /\ pc[Server] = "idle" /\ inbox # <<>> /\ Head(inbox).kind = "infer"
    BY <2>1 DEF InferEnter, Taken
  <2>3. Head(inbox) = inbox[1] /\ 1 \in 1..Len(inbox)
    BY <2>2, HeadTailProperties DEF TypeOK
  <2>4. \E t \in Threads : act[t] # None
    BY <2>2, <2>3 DEF SyncInv, ReadyInv
  <2>5. QED
    BY <2>2, <2>4 DEF ReadInv
<1>4. QED
  BY <1>1, <1>2, <1>3, PTL DEF Spec, NoReportLost

-----------------------------------------------------------------------------
(* Credit.                                                                 *)

Report(i) == inbox[i].kind = "infer"

\* Reports are handled in the order in which they were sent.
OrderInv ==
  /\ \A i \in 1..Len(inbox) : Report(i) => inbox[i].id <= sent /\ (Busy => cur.id < inbox[i].id)
  /\ \A i, j \in 1..Len(inbox) : (i < j /\ Report(i) /\ Report(j)) => inbox[i].id < inbox[j].id
  /\ Busy => cur.id <= sent

\* While weights of an action are in force the only report that may wait is
\* the one ns-3 is blocked in: it has not given up any that is still there.
CurrentInv ==
  applied # Zero => \A i \in 1..Len(inbox) : Report(i) => inbox[i] = call

\* The action in force is that of the report in the environment, until the
\* next one is taken.
InForce == applied # Zero => applied = state.id \/ (Busy /\ call = cur)

\* A report that was measured under an action is the first to be taken, and
\* the action is that of the report it will follow in the environment.
FirstReport ==
  \A i \in 1..Len(inbox) : (Report(i) /\ inbox[i].window # Zero) =>
    inbox[i].window = state.id /\ \A j \in 1..(i - 1) : ~Report(j)

WindowInv ==
  LearnersAlive => InForce /\ FirstReport /\ state.window \in {Zero, state.prev}

BeforeServer(i) == \E j \in 1..Len(waiters) : j > i /\ waiters[j] = Server

\* The action of a learner in env.step is that of the report it will be
\* credited with when it is woken: those before the server in the wait set are
\* behind by one report.
ActInv ==
  /\ \A t \in Threads : pc[t] = "learning" => seen[t] = state.id
  /\ \A i \in 1..Len(waiters) : waiters[i] # Server =>
       act[waiters[i]] = IF BeforeServer(i) THEN state.prev ELSE state.id
  /\ \A t \in Threads : pc[t] = "notified" => act[t] = state.prev

\* A transition a learner has recorded.
Credited(t) == learnt[t] # None => learnt[t].window \in {learnt[t].act, Zero}

CreditInv ==
  /\ learnt = [t \in Threads |-> learnt[t]]
  /\ LearnersAlive => \A t \in Threads : Credited(t)

\* What is left of a queue, and what is added to it.
LEMMA TailOf ==
  ASSUME NEW S, NEW s \in Seq(S), s # <<>>
  PROVE  /\ Len(s) \in Nat \ {0} /\ Len(Tail(s)) = Len(s) - 1
         /\ Head(s) = s[1] /\ s[1] \in S /\ 1 \in 1..Len(s)
         /\ \A i \in 1..Len(Tail(s)) : Tail(s)[i] = s[i + 1] /\ i + 1 \in 1..Len(s)
         /\ \A i \in 1..Len(s) : s[i] \in S
  OBVIOUS

LEMMA AppendOf ==
  ASSUME NEW S, NEW s \in Seq(S), NEW x \in S
  PROVE  /\ Len(s) \in Nat /\ Len(Append(s, x)) = Len(s) + 1
         /\ Append(s, x)[Len(s) + 1] = x
         /\ \A i \in 1..Len(s) : Append(s, x)[i] = s[i] /\ s[i] \in S
  OBVIOUS

\* What waits after a request was taken, and after one was posted.
LEMMA InboxTail ==
  ASSUME TypeOK, inbox # <<>>, inbox' = Tail(inbox)
  PROVE  /\ Len(inbox) \in Nat \ {0} /\ Len(inbox') = Len(inbox) - 1
         /\ Head(inbox) = inbox[1] /\ Head(inbox) \in Message /\ 1 \in 1..Len(inbox)
         /\ \A i \in 1..Len(inbox') : /\ inbox'[i] = inbox[i + 1]
                                      /\ i + 1 \in 1..Len(inbox)
                                      /\ inbox[i + 1] \in Message
<1> HIDE DEF Message
<1>1. inbox \in Seq(Message)
  BY DEF TypeOK
<1>2. QED
  BY <1>1, TailOf

LEMMA InboxAppend ==
  ASSUME TypeOK, NEW m \in Message, inbox' = Append(inbox, m)
  PROVE  /\ Len(inbox) \in Nat /\ Len(inbox') = Len(inbox) + 1
         /\ inbox'[Len(inbox) + 1] = m
         /\ \A i \in 1..Len(inbox) : inbox'[i] = inbox[i] /\ inbox[i] \in Message
<1> HIDE DEF Message
<1>1. inbox \in Seq(Message)
  BY DEF TypeOK
<1>2. QED
  BY <1>1, AppendOf

\* What ns-3 posts.
LEMMA Posted ==
  ASSUME TypeOK
  PROVE  /\ StartSimulation => \E m \in Message : m.kind = "configure" /\ inbox' = Append(inbox, m)
         /\ SendReport => \E m \in Message :
              /\ m.kind = "infer" /\ m.id = sent + 1 /\ m.window = applied
              /\ inbox' = Append(inbox, m) /\ call' = m
<1>1. ASSUME StartSimulation
      PROVE  \E m \in Message : m.kind = "configure" /\ inbox' = Append(inbox, m)
  <2> DEFINE m == [kind |-> "configure", id |-> sims + 1, window |-> Zero, short |-> FALSE]
  <2>1. m \in Message
    BY DEF TypeOK
  <2>2. m.kind = "configure"
    OBVIOUS
  <2>3. inbox' = Append(inbox, m)
    BY <1>1 DEF StartSimulation, Post
  <2> HIDE DEF m
  <2>4. QED
    BY <2>1, <2>2, <2>3
<1>2. ASSUME SendReport
      PROVE  \E m \in Message :
               /\ m.kind = "infer" /\ m.id = sent + 1 /\ m.window = applied
               /\ inbox' = Append(inbox, m) /\ call' = m
  <2>1. PICK short \in BOOLEAN :
          Post([kind |-> "infer", id |-> sent + 1, window |-> applied, short |-> short])
    BY <1>2 DEF SendReport
  <2> DEFINE m == [kind |-> "infer", id |-> sent + 1, window |-> applied, short |-> short]
  <2>2. m \in Message
    BY DEF TypeOK
  <2>3. m.kind = "infer" /\ m.id = sent + 1 /\ m.window = applied
    OBVIOUS
  <2>4. inbox' = Append(inbox, m) /\ call' = m
    BY <2>1 DEF Post
  <2> HIDE DEF m
  <2>5. QED
    BY <2>2, <2>3, <2>4
<1>3. QED
  BY <1>1, <1>2

\* The steps after which the server handles the same report, or none.
LEMMA QuietOrder ==
  ASSUME OrderInv, Busy' => Busy /\ cur' = cur, sent' = sent, inbox' = inbox
  PROVE  OrderInv'
  BY DEF OrderInv, Report

\* Requests that are answered at once leave the order as it is.
LEMMA TailOrder ==
  ASSUME TypeOK, OrderInv, inbox # <<>>, inbox' = Tail(inbox), sent' = sent, ~Busy'
  PROVE  OrderInv'
<1>1. \A i \in 1..Len(inbox') : inbox'[i] = inbox[i + 1] /\ i + 1 \in 1..Len(inbox)
  BY InboxTail
<1>2. \A i, j \in 1..Len(inbox') : i < j => i + 1 < j + 1
  BY InboxTail
<1>3. QED
  BY <1>1, <1>2 DEF OrderInv, Report

\* Which steps change the requests, and how.
LEMMA InboxSteps ==
  ASSUME TypeOK, SyncInv, [Next]_vars
  PROVE  \/ StartSimulation \/ SendReport \/ InferEnter
         \/ /\ inbox # <<>> /\ pc[Server] = "idle" /\ pc'[Server] = "idle"
            /\ inbox' = Tail(inbox)
            /\ UNCHANGED <<cur, state, sent, sim>> /\ Answer(Head(inbox), Zero)
         \/ /\ InferReply /\ UNCHANGED <<inbox, cur, state, sent, sim>>
            /\ pc[Server] = "reply" /\ pc'[Server] = "idle"
         \/ /\ UNCHANGED <<inbox, cur, state, sent>>
            /\ Busy' = Busy /\ (GiveUp \/ EndSimulation \/ UNCHANGED <<sim, call, applied>>)
<1> USE ProcAssumption
<1>t. /\ pc \in [Procs -> Place] /\ Released(pc) \in [Procs -> Place]
      /\ Released(pc)[Server] = pc[Server]
         \/ (pc[Server] = "waiting" /\ Released(pc)[Server] = "notified")
  BY NotifyType, NotifyReleases DEF TypeOK, SyncInv
<1>1. CASE Simulation \/ stop_training \/ Terminated \/ UNCHANGED vars
  BY <1>1 DEF Simulation, GiveUp, EndSimulation, stop_training, Terminated, vars,
     simVars, serverVars, syncVars, envVars, Busy
<1>2. CASE Handler
  <2>1. CASE ConfigureContinue \/ ConfigureBusy \/ InferShort \/ InferTransition
    BY <2>1 DEF ConfigureContinue, ConfigureBusy, InferShort, InferTransition,
       syncVars, envVars, Taken, Answer
  <2>2. CASE ConfigureStart
    <3>1. pc'[Server] = "idle"
      BY <2>2, <1>t DEF ConfigureStart, Taken
    <3>2. QED
      BY <2>2, <3>1 DEF ConfigureStart, envVars, Taken, Answer
  <2>3. CASE InferWake
    BY <2>3, <1>t DEF InferWake, simVars, envVars, Busy
  <2>4. CASE InferReply
    BY <2>4, <1>t DEF InferReply, serverVars, envVars, Answer
  <2>5. QED
    BY <1>2, <2>1, <2>2, <2>3, <2>4 DEF Handler
<1>3. ASSUME NEW t \in Threads, Learner(t)
      PROVE  UNCHANGED <<inbox, cur, state, sent, sim, call, applied>> /\ Busy' = Busy
  <2>1. UNCHANGED <<inbox, cur, state, sent, sim, call, applied>>
    BY <1>3 DEF Learner, Begin, Step, WakeLearner, Finish, simVars, serverVars, envVars
  <2>2. \/ pc'[Server] = pc[Server]
        \/ pc[Server] = "waiting" /\ pc'[Server] = "notified"
    <3>1. CASE WakeLearner(t)
      BY <3>1, <1>t DEF WakeLearner
    <3>2. CASE Begin(t) \/ Step(t) \/ Finish(t)
      BY <3>2, <1>t DEF Begin, Step, Finish
    <3>3. QED
      BY <1>3, <3>1, <3>2 DEF Learner
  <2>3. QED
    BY <2>1, <2>2 DEF Busy
<1>4. QED
  BY <1>1, <1>2, <1>3 DEF Next

\* A report that is taken: it is the first, and the others are behind it.
LEMMA EnterSteps ==
  ASSUME TypeOK, SyncInv, InferEnter
  PROVE  /\ inbox # <<>> /\ inbox' = Tail(inbox) /\ Report(1) /\ cur' = inbox[1]
         /\ pc[Server] = "idle" /\ pc'[Server] = "waiting" /\ LockFree
         /\ state'.id = inbox[1].id /\ state'.window = inbox[1].window /\ state'.prev = state.id
         /\ UNCHANGED <<sim, call, applied, sent>>
<1>1. Head(inbox) = inbox[1] /\ inbox # <<>>
  BY HeadTailProperties DEF InferEnter, Taken, TypeOK
<1>2. Released(pc) \in [Procs -> Place]
  BY NotifyType
<1>3. pc'[Server] = "waiting"
  BY <1>2 DEF InferEnter
<1>4. QED
  BY <1>1, <1>3 DEF InferEnter, Taken, simVars, Report

\* Reports stay in order.
LEMMA OrderNext == TypeOK /\ SyncInv /\ CallInv /\ OrderInv /\ [Next]_vars => OrderInv'
<1> SUFFICES ASSUME TypeOK, SyncInv, CallInv, OrderInv, [Next]_vars PROVE OrderInv'
  OBVIOUS
<1>t. sent \in Nat /\ Len(inbox) \in Nat
  BY DEF TypeOK
<1>1. CASE StartSimulation
  <2>1. PICK m \in Message : m.kind = "configure" /\ inbox' = Append(inbox, m)
    BY <1>1, Posted
  <2>2. Busy' = Busy /\ cur' = cur /\ sent' = sent
    BY <1>1 DEF StartSimulation, syncVars, Busy
  <2>3. QED
    BY <2>1, <2>2, InboxAppend DEF OrderInv, Report
<1>2. CASE SendReport
  <2>1. PICK m \in Message : m.kind = "infer" /\ m.id = sent + 1 /\ inbox' = Append(inbox, m)
    BY <1>2, Posted
  <2>2. Busy' = Busy /\ cur' = cur /\ sent' = sent + 1
    BY <1>2 DEF SendReport, syncVars, Busy
  <2>3. \A i \in 1..Len(inbox) : inbox[i].id \in Nat
    BY <2>1, InboxAppend
  <2>4. Busy => cur.id \in Nat
    BY ValueAssumption DEF CallInv, IsInfer, TypeOK
  <2>5. QED
    BY <1>t, <2>1, <2>2, <2>3, <2>4, InboxAppend DEF OrderInv, Report
<1>3. CASE InferEnter
  <2>1. \A i \in 1..Len(inbox') : inbox'[i] = inbox[i + 1] /\ i + 1 \in 1..Len(inbox) /\ 1 < i + 1
    BY <1>3, EnterSteps, InboxTail
  <2>2. \A i, j \in 1..Len(inbox') : i < j => i + 1 < j + 1
    BY <1>3, EnterSteps, InboxTail
  <2>3. 1 \in 1..Len(inbox)
    BY <1>3, EnterSteps, InboxTail
  <2>4. QED
    BY <1>3, <2>1, <2>2, <2>3, EnterSteps DEF OrderInv, Report
<1>4. CASE /\ inbox # <<>> /\ pc'[Server] = "idle" /\ inbox' = Tail(inbox) /\ sent' = sent
  BY <1>4, TailOrder DEF Busy
<1>5. CASE UNCHANGED <<inbox, cur, sent>> /\ (Busy' => Busy)
  BY <1>5, QuietOrder
<1>6. QED
  BY <1>1, <1>2, <1>3, <1>4, <1>5, InboxSteps DEF Busy

\* An answer leaves no report waiting that it would make older.
LEMMA CurrentNext ==
  TypeOK /\ SyncInv /\ CallInv /\ OrderInv /\ CurrentInv /\ [Next]_vars => CurrentInv'
<1> SUFFICES ASSUME TypeOK, SyncInv, CallInv, OrderInv, CurrentInv, [Next]_vars PROVE CurrentInv'
  OBVIOUS
<1> USE ValueAssumption
<1>t. sent \in Nat /\ Len(inbox) \in Nat /\ \A i \in 1..Len(inbox) : inbox[i] \in Message
  <2> HIDE DEF Message
  <2>1. inbox \in Seq(Message) /\ sent \in Nat
    BY DEF TypeOK
  <2>2. QED
    BY <2>1
<1>n. (applied # Zero /\ call = None) => \A i \in 1..Len(inbox) : ~Report(i)
  BY <1>t DEF CurrentInv
<1>1. CASE StartSimulation
  <2>1. PICK m \in Message : m.kind = "configure" /\ inbox' = Append(inbox, m)
    BY <1>1, Posted
  <2>2. call = None /\ applied' = applied
    BY <1>1 DEF StartSimulation, CallInv
  <2>3. QED
    BY <1>n, <2>1, <2>2, InboxAppend DEF CurrentInv, Report
<1>2. CASE SendReport
  <2>1. PICK m \in Message : m.kind = "infer" /\ m.id = sent + 1
                             /\ inbox' = Append(inbox, m) /\ call' = m
    BY <1>2, Posted
  <2>2. call = None /\ applied' = applied
    BY <1>2 DEF SendReport
  <2>3. QED
    BY <1>n, <2>1, <2>2, InboxAppend DEF CurrentInv, Report
<1>3. CASE InferEnter
  BY <1>3, EnterSteps, InboxTail DEF CurrentInv, Report
<1>4. CASE /\ inbox # <<>> /\ inbox' = Tail(inbox) /\ Answer(Head(inbox), Zero)
  <2>1. CASE call = Head(inbox) /\ IsInfer(Head(inbox))
    BY <1>4, <2>1 DEF Answer, CurrentInv
  <2>2. CASE call = Head(inbox) /\ ~IsInfer(Head(inbox))
    <3>1. applied # Zero => \A i \in 1..Len(inbox) : ~Report(i)
      BY <1>t, <2>2, <1>4, InboxTail DEF CurrentInv, Report, IsInfer
    <3>2. QED
      BY <1>4, <2>2, <3>1, InboxTail DEF Answer, CurrentInv, Report
  <2>3. CASE call # Head(inbox)
    BY <1>4, <2>3, InboxTail DEF Answer, CurrentInv, Report
  <2>4. QED
    BY <2>1, <2>2, <2>3
<1>5. CASE InferReply /\ UNCHANGED <<inbox, cur, sent>>
  <2>1. Busy /\ IsInfer(cur)
    BY <1>5 DEF InferReply, Busy, CallInv
  <2>2. CASE call = cur
    <3>1. cur.id = sent
      BY <2>1, <2>2 DEF CallInv
    <3>2. \A i \in 1..Len(inbox) : ~Report(i)
      BY <1>t, <2>1, <3>1 DEF OrderInv
    <3>3. QED
      BY <1>5, <3>2 DEF CurrentInv, Report
  <2>3. CASE call # cur
    BY <1>5, <2>3 DEF InferReply, Answer, CurrentInv, Report
  <2>4. QED
    BY <2>2, <2>3
<1>6. CASE UNCHANGED inbox /\ (GiveUp \/ EndSimulation \/ UNCHANGED <<call, applied>>)
  <2>1. CASE GiveUp
    <3>1. CASE IsInfer(call)
      BY <2>1, <3>1 DEF GiveUp, CurrentInv
    <3>2. CASE ~IsInfer(call)
      BY <1>6, <2>1, <3>2, <1>t DEF GiveUp, CurrentInv, Report, IsInfer
    <3>3. QED
      BY <3>1, <3>2
  <2>2. CASE EndSimulation
    BY <2>2 DEF EndSimulation, CurrentInv
  <2>3. CASE UNCHANGED <<call, applied>>
    BY <1>6, <2>3 DEF CurrentInv, Report
  <2>4. QED
    BY <1>6, <2>1, <2>2, <2>3
<1>7. QED
  BY <1>1, <1>2, <1>3, <1>4, <1>5, <1>6, InboxSteps

\* What a report was measured under does not change while it waits.
LEMMA FirstNext ==
  ASSUME Algo = "DQN", TypeOK, SyncInv, CallInv, CurrentInv, InForce, FirstReport, [Next]_vars
  PROVE  FirstReport'
<1> USE ValueAssumption
<1>1. CASE StartSimulation
  <2>1. PICK m \in Message : m.kind = "configure" /\ inbox' = Append(inbox, m)
    BY <1>1, Posted
  <2>2. state' = state
    BY <1>1 DEF StartSimulation, envVars
  <2>3. QED
    BY <2>1, <2>2, InboxAppend DEF FirstReport, Report
<1>2. CASE SendReport
  <2>1. PICK m \in Message : /\ m.kind = "infer" /\ m.window = applied
                             /\ inbox' = Append(inbox, m)
    BY <1>2, Posted
  <2>2. state' = state /\ call = None
    BY <1>2 DEF SendReport, envVars
  <2>3. applied # Zero => applied = state.id
    BY <2>2 DEF InForce, CallInv, IsInfer
  <2>4. applied # Zero => \A i \in 1..Len(inbox) : ~Report(i)
    BY <2>1, <2>2, InboxAppend DEF CurrentInv
  <2>5. QED
    BY <2>1, <2>2, <2>3, <2>4, InboxAppend DEF FirstReport, Report
<1>3. ASSUME inbox # <<>>, inbox' = Tail(inbox), Report(1) \/ state' = state
      PROVE  FirstReport'
  <2> SUFFICES ASSUME NEW i \in 1..Len(inbox'), Report(i)', inbox'[i].window # Zero
               PROVE  inbox'[i].window = state'.id /\ \A j \in 1..(i - 1) : ~Report(j)'
    BY DEF FirstReport, Report
  <2>1. /\ i + 1 \in 1..Len(inbox) /\ inbox'[i] = inbox[i + 1] /\ i \in Nat
        /\ \A j \in 1..(i - 1) : inbox'[j] = inbox[j + 1] /\ j + 1 \in 1..i
        /\ 1 \in 1..i
    BY <1>3, InboxTail
  <2>2. inbox[i + 1].window = state.id /\ \A j \in 1..i : ~Report(j)
    BY <2>1 DEF FirstReport, Report
  <2>3. state' = state
    BY <1>3, <2>1, <2>2
  <2>4. QED
    BY <2>1, <2>2, <2>3 DEF Report
<1>4. CASE UNCHANGED <<inbox, state>>
  BY <1>4 DEF FirstReport, Report
<1>5. CASE InferEnter
  BY <1>3, <1>5, EnterSteps
<1>6. QED
  BY <1>1, <1>2, <1>3, <1>4, <1>5, InboxSteps

\* The weights in force are those for the report in the environment.
LEMMA InForceNext ==
  ASSUME Algo = "DQN", TypeOK, SyncInv, CallInv, PublishedInv, CurrentInv, InForce,
         [Next]_vars, LearnersAlive
  PROVE  InForce'
<1> USE ValueAssumption
<1>1. CASE StartSimulation \/ SendReport
  <2>1. call = None
    BY <1>1 DEF StartSimulation, SendReport, CallInv
  <2>2. UNCHANGED <<applied, state, cur>> /\ Busy' = Busy
    BY <1>1 DEF StartSimulation, SendReport, envVars, syncVars, Busy
  <2>3. QED
    BY <2>1, <2>2 DEF InForce, CallInv, IsInfer
<1>2. CASE InferEnter
  BY <1>2, EnterSteps, TailOf, InboxTail DEF InForce, CurrentInv, Busy
<1>3. CASE /\ inbox # <<>> /\ pc[Server] = "idle" /\ UNCHANGED <<cur, state>>
           /\ Answer(Head(inbox), Zero)
  BY <1>3 DEF Answer, InForce, Busy
<1>4. CASE /\ InferReply /\ UNCHANGED <<cur, state>> /\ pc[Server] = "reply"
  <2>1. ReplyAction \in {Zero, state.id}
    BY <1>4 DEF PublishedInv, ReplyAction
  <2>2. IsInfer(cur) /\ Answer(cur, ReplyAction)
    BY <1>4 DEF InferReply, CallInv, Busy
  <2>3. QED
    BY <1>4, <2>1, <2>2 DEF InForce, Answer
<1>5. CASE /\ UNCHANGED <<cur, state>> /\ Busy' = Busy
           /\ (GiveUp \/ EndSimulation \/ UNCHANGED <<call, applied>>)
  <2>1. CASE GiveUp
    BY <1>5, <2>1 DEF GiveUp, InForce, CallInv
  <2>2. CASE EndSimulation
    BY <2>2 DEF EndSimulation, InForce
  <2>3. CASE UNCHANGED <<call, applied>>
    BY <1>5, <2>3 DEF InForce
  <2>4. QED
    BY <1>5, <2>1, <2>2, <2>3
<1>6. QED
  BY <1>1, <1>2, <1>3, <1>4, <1>5, InboxSteps

\* Both, and the window of the report that was taken.
LEMMA WindowNext ==
  ASSUME Algo = "DQN", TypeOK, SyncInv, FreshInv, CurrentInv, WindowInv, [Next]_vars
  PROVE  WindowInv'
<1> SUFFICES ASSUME LearnersAlive' PROVE (InForce /\ FirstReport)' /\ state'.window \in {Zero, state'.prev}
  BY DEF WindowInv
<1>1. LearnersAlive
  BY StillAlive DEF SyncInv
<1>2. InForce /\ FirstReport /\ state.window \in {Zero, state.prev}
  BY <1>1 DEF WindowInv
<1>3. (InForce /\ FirstReport)'
  BY <1>1, <1>2, FirstNext, InForceNext DEF FreshInv
<1>4. state'.window \in {Zero, state'.prev}
  <2>1. CASE InferEnter
    BY <1>2, <2>1, EnterSteps, InboxTail DEF FirstReport
  <2>2. CASE state' = state
    BY <1>2, <2>2
  <2>3. QED
    BY <2>1, <2>2, InboxSteps DEF StartSimulation, SendReport, envVars
<1>5. QED
  BY <1>3, <1>4

\* What notify() does to the wait set: its head is released, the others move
\* up.
LEMMA NotifyHead ==
  ASSUME TypeOK
  PROVE  /\ Len(waiters) \in Nat /\ Len(Remaining) \in Nat
         /\ \A i \in 1..Len(waiters) : waiters[i] \in Procs
         /\ \A i \in 1..Len(Remaining) : Remaining[i] = waiters[i + 1] /\ i + 1 \in 1..Len(waiters)
         /\ \A i \in 1..Len(waiters) : i # 1 => i - 1 \in 1..Len(Remaining)
         /\ Remaining \in Seq(Procs)
         /\ \A t \in Procs : Released(pc)[t] = pc[t]
              \/ (1 \in 1..Len(waiters) /\ waiters[1] = t /\ Released(pc)[t] = "notified")
<1> HIDE DEF Procs
<1>1. waiters \in Seq(Procs) /\ pc \in [Procs -> Place]
  BY DEF TypeOK
<1>2. CASE waiters = <<>>
  BY <1>1, <1>2 DEF Released, Remaining
<1>3. CASE waiters # <<>>
  <2>1. /\ Len(waiters) \in Nat \ {0} /\ Len(Tail(waiters)) = Len(waiters) - 1
        /\ Head(waiters) = waiters[1] /\ 1 \in 1..Len(waiters)
        /\ \A i \in 1..Len(Tail(waiters)) : Tail(waiters)[i] = waiters[i + 1] /\ i + 1 \in 1..Len(waiters)
        /\ \A i \in 1..Len(waiters) : waiters[i] \in Procs
        /\ Tail(waiters) \in Seq(Procs)
    BY <1>1, <1>3, TailOf
  <2>2. Remaining = Tail(waiters) /\ Released(pc) = [pc EXCEPT ![waiters[1]] = "notified"]
    BY <1>3, <2>1 DEF Remaining, Released
  <2>3. QED
    BY <1>1, <2>1, <2>2
<1>4. QED
  BY <1>2, <1>3

\* Steps that leave the wait set, the report and the actions alone.
LEMMA QuietAct ==
  ASSUME ActInv, UNCHANGED <<waiters, state, act>>,
         \A t \in Threads : pc'[t] = "learning" => seen'[t] = state.id,
         \A t \in Threads : pc'[t] = "notified" => pc[t] = "notified"
  PROVE  ActInv'
  BY DEF ActInv, BeforeServer

\* A report comes: everyone who waits is behind by one from now on.
LEMMA EnterAct == ASSUME TypeOK, SyncInv, ActInv, InferEnter PROVE ActInv'
<1> USE ProcAssumption
<1> HIDE DEF Procs
<1>1. /\ pc[Server] = "idle" /\ LockFree /\ state'.prev = state.id
      /\ pc' = [Released(pc) EXCEPT ![Server] = "waiting"]
      /\ waiters' = Append(Remaining, Server) /\ act' = act
  BY EnterSteps DEF InferEnter, learnerVars
<1>2. Server \in Procs /\ \A t \in Threads : t \in Procs /\ t # Server
  BY DEF Procs
<1>3. \A i \in 1..Len(waiters) : waiters[i] # Server
  BY <1>1 DEF SyncInv, WaitersInv, Queued
<1>4. \A i \in 1..Len(waiters) : act[waiters[i]] = state.id
  BY <1>3 DEF ActInv, BeforeServer
<1>5. \A t \in Threads : pc'[t] = Released(pc)[t]
  <2>1. Released(pc) \in [Procs -> Place]
    BY NotifyType
  <2>2. QED
    BY <1>1, <1>2, <2>1
<1>6. \A t \in Threads : pc'[t] # "learning"
  BY <1>1, <1>2, <1>5, NotifyHead DEF LockFree
<1>7. \A t \in Threads : pc'[t] = "notified" => act'[t] = state'.prev
  BY <1>1, <1>2, <1>4, <1>5, NotifyHead DEF SyncInv, BatonInv
<1>8. /\ Len(waiters') = Len(Remaining) + 1 /\ waiters'[Len(Remaining) + 1] = Server
      /\ \A i \in 1..Len(Remaining) : waiters'[i] = Remaining[i]
      /\ Len(Remaining) \in Nat
  BY <1>1, <1>2, NotifyHead, AppendOf
<1>9. ASSUME NEW i \in 1..Len(waiters'), waiters'[i] # Server
      PROVE  BeforeServer(i)' /\ act'[waiters'[i]] = state'.prev
  <2>1. i \in 1..Len(Remaining)
    BY <1>8, <1>9
  <2>2. BeforeServer(i)'
    BY <1>8, <2>1 DEF BeforeServer
  <2>3. QED
    BY <1>1, <1>4, <1>8, <2>1, <2>2, NotifyHead
<1>10. QED
  BY <1>6, <1>7, <1>9 DEF ActInv

\* A learner wakes: the next in the wait set is notified.
LEMMA WakeAct ==
  ASSUME TypeOK, SyncInv, ActInv, NEW t \in Threads, WakeLearner(t)
  PROVE  ActInv'
<1> USE ProcAssumption
<1> HIDE DEF Procs
<1>1. /\ pc[t] = "notified" /\ LockFree /\ UNCHANGED <<state, act>>
      /\ seen' = [seen EXCEPT ![t] = state.id]
      /\ pc' = [Released(pc) EXCEPT ![t] = "learning"]
      /\ waiters' = Remaining
  BY DEF WakeLearner
<1>2. Server \in Procs /\ \A u \in Threads : u \in Procs /\ u # Server
  BY DEF Procs
<1>3. /\ \A u \in Threads : pc'[u] = IF u = t THEN "learning" ELSE Released(pc)[u]
      /\ seen'[t] = state.id
  <2>1. Released(pc) \in [Procs -> Place] /\ seen \in [Threads -> Nat \cup {None}]
    BY NotifyType DEF TypeOK
  <2>2. QED
    BY <1>1, <1>2, <2>1
<1>4. \A u \in Threads : pc'[u] = "learning" => seen'[u] = state.id
  BY <1>1, <1>2, <1>3, NotifyHead DEF LockFree
<1>5. PICK s \in 1..Len(waiters) : waiters[s] = Server
  BY <1>1, <1>2 DEF SyncInv, BatonInv, WaitersInv, Queued
<1>6. 1 \in 1..Len(waiters) /\ (waiters[1] # Server => act[waiters[1]] = state.prev)
  <2>1. 1 \in 1..Len(waiters) /\ (waiters[1] # Server => s > 1)
    BY <1>5, NotifyHead
  <2>2. QED
    BY <1>5, <2>1 DEF ActInv, BeforeServer
<1>7. \A u \in Threads : pc'[u] = "notified" => act'[u] = state'.prev
  BY <1>1, <1>2, <1>3, <1>6, NotifyHead DEF ActInv
<1>8. ASSUME NEW i \in 1..Len(waiters')
      PROVE  /\ i + 1 \in 1..Len(waiters) /\ waiters'[i] = waiters[i + 1]
             /\ BeforeServer(i)' <=> BeforeServer(i + 1)
  <2>1. i + 1 \in 1..Len(waiters) /\ waiters'[i] = waiters[i + 1] /\ i \in Nat
    BY <1>1, <1>8, NotifyHead
  <2>2. ASSUME NEW j \in 1..Len(waiters), j > i + 1
        PROVE  j - 1 \in 1..Len(waiters') /\ j - 1 > i /\ waiters'[j - 1] = waiters[j]
    BY <1>1, <2>1, <2>2, NotifyHead
  <2>3. ASSUME NEW j \in 1..Len(waiters'), j > i
        PROVE  j + 1 \in 1..Len(waiters) /\ j + 1 > i + 1 /\ waiters'[j] = waiters[j + 1]
    BY <1>1, <2>1, <2>3, NotifyHead
  <2>4. QED
    BY <2>1, <2>2, <2>3 DEF BeforeServer
<1>9. ASSUME NEW i \in 1..Len(waiters'), waiters'[i] # Server
      PROVE  act'[waiters'[i]] = IF BeforeServer(i)' THEN state'.prev ELSE state'.id
  <2>1. /\ i + 1 \in 1..Len(waiters) /\ waiters'[i] = waiters[i + 1]
        /\ BeforeServer(i)' <=> BeforeServer(i + 1)
    BY <1>8
  <2>2. act[waiters[i + 1]] = IF BeforeServer(i + 1) THEN state.prev ELSE state.id
    BY <1>9, <2>1 DEF ActInv
  <2>3. QED
    BY <1>1, <2>1, <2>2
<1>10. QED
  BY <1>1, <1>4, <1>7, <1>9 DEF ActInv

\* A learner waits, behind everyone else.
LEMMA StepAct ==
  ASSUME TypeOK, SyncInv, ActInv, NEW t \in Threads, Step(t)
  PROVE  ActInv'
<1> USE ProcAssumption
<1> HIDE DEF Procs
<1>1. /\ pc[t] = "learning" /\ UNCHANGED <<state, seen>>
      /\ act' = [act EXCEPT ![t] = seen[t]]
      /\ pc' = [pc EXCEPT ![t] = "waiting"]
      /\ waiters' = Append(waiters, t)
  BY DEF Step
<1>2. /\ t \in Procs /\ t # Server /\ waiters \in Seq(Procs)
      /\ \A u \in Threads : u \in Procs /\ u # Server
      /\ pc \in [Procs -> Place] /\ act \in [Threads -> Nat \cup {None}]
  BY DEF TypeOK, Procs
<1>3. /\ Len(waiters) \in Nat /\ Len(waiters') = Len(waiters) + 1
      /\ waiters'[Len(waiters) + 1] = t
      /\ \A i \in 1..Len(waiters) : waiters'[i] = waiters[i] /\ waiters[i] \in Procs
  BY <1>1, <1>2, AppendOf
<1>4. /\ act'[t] = state.id /\ \A u \in Threads : u # t => act'[u] = act[u]
      /\ \A u \in Threads : pc'[u] \in {"learning", "notified"} => u # t /\ pc[u] = pc'[u]
  BY <1>1, <1>2 DEF ActInv
<1>5. ASSUME NEW i \in 1..Len(waiters)
      PROVE  waiters[i] # t /\ (waiters[i] # Server => waiters[i] \in Threads)
  BY <1>1, <1>3, <1>5 DEF SyncInv, WaitersInv, Queued, Procs
<1>6. ASSUME NEW i \in 1..Len(waiters'), waiters'[i] # Server
      PROVE  act'[waiters'[i]] = IF BeforeServer(i)' THEN state'.prev ELSE state'.id
  <2>1. CASE i \in 1..Len(waiters)
    <3>1. BeforeServer(i)' <=> BeforeServer(i)
      BY <1>2, <1>3, <2>1 DEF BeforeServer
    <3>2. QED
      BY <1>1, <1>3, <1>4, <1>5, <1>6, <2>1, <3>1 DEF ActInv
  <2>2. CASE i = Len(waiters) + 1
    <3>1. ~BeforeServer(i)'
      BY <1>3, <2>2 DEF BeforeServer
    <3>2. QED
      BY <1>1, <1>3, <1>4, <2>2, <3>1
  <2>3. QED
    BY <1>3, <2>1, <2>2
<1>7. QED
  BY <1>1, <1>4, <1>6 DEF ActInv

\* Every step keeps the actions of the learners in order.
LEMMA ActNext == TypeOK /\ SyncInv /\ ActInv /\ [Next]_vars => ActInv'
<1> SUFFICES ASSUME TypeOK, SyncInv, ActInv, [Next]_vars PROVE ActInv'
  OBVIOUS
<1> USE ProcAssumption
<1>t. pc \in [Procs -> Place] /\ seen \in [Threads -> Nat \cup {None}]
  BY DEF TypeOK
<1>1. CASE Simulation \/ stop_training \/ Terminated \/ UNCHANGED vars
  <2>1. UNCHANGED <<pc, waiters, state, act, seen>>
    BY <1>1 DEF Simulation, StartSimulation, SendReport, GiveUp, EndSimulation,
       stop_training, Terminated, vars, syncVars, envVars, learnerVars
  <2>2. QED
    BY <2>1, QuietAct DEF ActInv
<1>2. CASE Handler /\ ~InferEnter
  <2>1. UNCHANGED <<waiters, state, act, seen>>
    BY <1>2 DEF Handler, ConfigureContinue, ConfigureBusy, ConfigureStart, InferShort,
       InferTransition, InferWake, InferReply, syncVars, envVars, learnerVars
  <2>2. \A u \in Threads : pc'[u] = pc[u] \/ pc'[u] = "started"
    <3>1. CASE ConfigureStart
      BY <3>1, <1>t DEF ConfigureStart
    <3>2. CASE ~ConfigureStart
      BY <1>2, <3>2, <1>t DEF Handler, ConfigureContinue, ConfigureBusy, InferShort,
         InferTransition, InferWake, InferReply, syncVars
    <3>3. QED
      BY <3>1, <3>2
  <2>3. QED
    BY <2>1, <2>2, QuietAct DEF ActInv
<1>3. ASSUME NEW t \in Threads, Begin(t) \/ Finish(t)
      PROVE  ActInv'
  <2>1. /\ UNCHANGED <<waiters, state, act>>
        /\ \A u \in Threads : u # t => pc'[u] = pc[u] /\ seen'[u] = seen[u]
        /\ pc'[t] = "done" \/ (pc'[t] = "learning" /\ seen'[t] = state.id)
    <3>1. CASE Begin(t)
      BY <3>1, <1>t DEF Begin
    <3>2. CASE Finish(t)
      BY <3>2, <1>t DEF Finish, envVars, learnerVars
    <3>3. QED
      BY <1>3, <3>1, <3>2
  <2>2. QED
    BY <2>1, QuietAct DEF ActInv
<1>4. ASSUME NEW t \in Threads, Learner(t)
      PROVE  ActInv'
  BY <1>3, <1>4, WakeAct, StepAct DEF Learner
<1>5. CASE InferEnter
  BY <1>5, EnterAct
<1>6. QED
  BY <1>1, <1>2, <1>4, <1>5 DEF Next, Handler

\* A transition is recorded only by a learner that wakes.
LEMMA CreditNext ==
  ASSUME TypeOK, SyncInv, WindowInv, ActInv, CreditInv, [Next]_vars
  PROVE  CreditInv'
<1>1. CASE \E t \in Threads : WakeLearner(t)
  <2>1. PICK t \in Threads : WakeLearner(t)
    BY <1>1
  <2>2. /\ pc[t] = "notified"
        /\ learnt' = [learnt EXCEPT ![t] = [act |-> act[t], window |-> state.window]]
    BY <2>1 DEF WakeLearner
  <2>3. act[t] = state.prev
    BY <2>2 DEF ActInv
  <2>4. LearnersAlive' => LearnersAlive /\ state.window \in {Zero, act[t]}
    BY <2>3, StillAlive DEF SyncInv, WindowInv
  <2>5. learnt' = [u \in Threads |-> learnt'[u]]
    BY <2>2 DEF CreditInv
  <2>6. learnt'[t] = [act |-> act[t], window |-> state.window]
    BY <2>2 DEF CreditInv
  <2>7. \A u \in Threads : u # t => learnt'[u] = learnt[u]
    BY <2>2 DEF CreditInv
  <2>8. LearnersAlive' => \A u \in Threads : Credited(u)'
    <3> SUFFICES ASSUME LearnersAlive', NEW u \in Threads PROVE Credited(u)'
      OBVIOUS
    <3>1. CASE u = t
      BY <2>4, <2>6, <3>1 DEF Credited
    <3>2. CASE u # t
      BY <2>4, <2>7, <3>2 DEF Credited, CreditInv
    <3>3. QED
      BY <3>1, <3>2
  <2>9. QED
    BY <2>5, <2>8 DEF CreditInv
<1>2. CASE ~\E t \in Threads : WakeLearner(t)
  <2>1. learnt' = learnt
    BY <1>2 DEF Next, Simulation, StartSimulation, SendReport, GiveUp, EndSimulation,
       Handler, ConfigureContinue, ConfigureBusy, ConfigureStart, InferShort, InferTransition,
       InferEnter, InferWake, InferReply, stop_training, Learner, Begin, Step, Finish,
       Terminated, vars, learnerVars
  <2>2. QED
    BY <2>1, StillAlive DEF CreditInv, Credited, SyncInv
<1>3. QED
  BY <1>1, <1>2

\* The inductive invariant of credit.
CInv == OrderInv /\ CurrentInv /\ WindowInv /\ ActInv /\ CreditInv

\* With the DQN environments and while no learn() has ended, a learner is
\* rewarded for an action with what was measured while that action, or the
\* neutral one, was in force: for any number of learners on one environment,
\* lost calls, transitions and restarts of ns-3.
THEOREM CreditIsDue ==
  ASSUME Algo = "DQN"
  PROVE  Spec => []CreditOrDefault
<1>1. Init => CInv
  <2> SUFFICES ASSUME Init PROVE CInv
    OBVIOUS
  <2>1. /\ inbox = <<>> /\ waiters = <<>> /\ applied = Zero /\ pc[Server] = "idle"
        /\ state = [id |-> 0, window |-> Zero, prev |-> 0]
        /\ \A t \in Threads : pc[t] = "new"
        /\ learnt = [t \in Threads |-> None]
    BY ProcAssumption DEF Init
  <2>2. OrderInv /\ CurrentInv /\ WindowInv /\ ActInv
    BY <2>1 DEF OrderInv, CurrentInv, WindowInv, InForce, FirstReport, ActInv, Busy
  <2>3. CreditInv
    BY <2>1 DEF CreditInv, Credited
  <2>4. QED
    BY <2>2, <2>3 DEF CInv
<1>2. IInv /\ CInv /\ [Next]_vars => CInv'
  BY OrderNext, CurrentNext, WindowNext, ActNext, CreditNext DEF IInv, FreshInv, CInv
<1>3. CInv => CreditOrDefault
  BY DEF CInv, CreditInv, Credited, CreditOrDefault
<1>4. QED
  BY <1>1, <1>2, <1>3, InductiveInvariant, PTL DEF Spec

-----------------------------------------------------------------------------
(* The server does not wait behind learners for ever.                      *)

\* The threads that are in place v.
Those(p, v) == {t \in Threads : p[t] = v}

Fewer(S, T) == S \subseteq T /\ S # T

\* While the server waits, a step of the condition releases it, moves it
\* forward in the queue, or leaves its place and fewer threads that can run:
\* fewer that have not begun, or as many of them and fewer that hold the lock.
Closer ==
  pc[Server] = "waiting" =>
    \/ UNCHANGED syncVars
    \/ pc'[Server] = "notified"
    \/ \E j \in DOMAIN waiters, k \in DOMAIN waiters' :
         /\ waiters[j] = Server /\ waiters'[k] = Server
         /\ \/ k < j
            \/ k = j /\ Fewer(Those(pc', "started"), Those(pc, "started"))
            \/ /\ k = j /\ Those(pc', "started") = Those(pc, "started")
               /\ Fewer(Those(pc', "learning"), Those(pc, "learning"))

\* One learner moves from place v to place w: it leaves v, and no place other
\* than w gains a thread.
LEMMA MoveThose ==
  ASSUME TypeOK, NEW t \in Threads, NEW w, w # pc[t],
         pc' = [pc EXCEPT ![t] = w]
  PROVE  /\ Fewer(Those(pc', pc[t]), Those(pc, pc[t]))
         /\ \A v : v # pc[t] /\ v # w => Those(pc', v) = Those(pc, v)
<1>1. /\ pc'[t] = w /\ \A u \in Threads : u # t => pc'[u] = pc[u]
  BY DEF TypeOK
<1>2. Those(pc', pc[t]) \subseteq Those(pc, pc[t])
  BY <1>1 DEF Those
<1>3. t \in Those(pc, pc[t]) /\ t \notin Those(pc', pc[t])
  BY <1>1 DEF Those
<1>4. Fewer(Those(pc', pc[t]), Those(pc, pc[t]))
  BY <1>2, <1>3 DEF Fewer
<1>5. ASSUME NEW v, v # pc[t], v # w
      PROVE  Those(pc', v) = Those(pc, v)
  BY <1>1, <1>5 DEF Those
<1>6. QED
  BY <1>4, <1>5

\* Every step of the condition brings the waiting server closer.
LEMMA NextCloser == TypeOK /\ WaitersInv /\ [Next]_vars => Closer
<1> SUFFICES ASSUME TypeOK, WaitersInv, [Next]_vars, pc[Server] = "waiting"
             PROVE  Closer
  BY DEF Closer
<1> USE ProcAssumption
<1> HIDE DEF Procs
<1>1. /\ Server \in Procs /\ \A t \in Threads : t \in Procs /\ t # Server
      /\ pc \in [Procs -> Place] /\ waiters \in Seq(Procs)
  BY DEF TypeOK, Procs
<1>2. PICK j \in 1..Len(waiters) : waiters[j] = Server
  BY <1>1 DEF WaitersInv, Queued
<1>3. DOMAIN waiters = 1..Len(waiters) /\ Len(waiters) \in Nat
  BY <1>1
<1>4. CASE UNCHANGED syncVars
  BY <1>4 DEF Closer
<1>5. ASSUME Handler PROVE UNCHANGED syncVars
  <2>1. pc[Server] # "idle" /\ pc[Server] # "notified" /\ pc[Server] # "reply"
    OBVIOUS
  <2>2. QED
    BY <1>5, <2>1 DEF Handler, Taken, ConfigureContinue, ConfigureBusy, ConfigureStart,
       InferShort, InferTransition, InferEnter, InferWake, InferReply
<1>6. ASSUME NEW t \in Threads, Begin(t) PROVE Closer
  <2>1. pc[t] = "started" /\ pc' = [pc EXCEPT ![t] = "learning"] /\ waiters' = waiters
    BY <1>6 DEF Begin
  <2>2. Fewer(Those(pc', "started"), Those(pc, "started"))
    BY <2>1, MoveThose
  <2>3. QED
    BY <1>2, <1>3, <2>1, <2>2 DEF Closer
<1>7. ASSUME NEW t \in Threads, Step(t) \/ Finish(t) PROVE Closer
  <2>1. PICK w \in {"waiting", "done"} :
          pc[t] = "learning" /\ pc' = [pc EXCEPT ![t] = w]
    BY <1>7 DEF Step, Finish
  <2>2. /\ Fewer(Those(pc', "learning"), Those(pc, "learning"))
        /\ Those(pc', "started") = Those(pc, "started")
    BY <2>1, MoveThose
  <2>3. j \in DOMAIN waiters' /\ waiters'[j] = Server
    <3>1. CASE waiters' = waiters
      BY <1>2, <1>3, <3>1
    <3>2. CASE waiters' = Append(waiters, t)
      BY <1>1, <1>2, <1>3, <3>2, AppendOf
    <3>3. QED
      BY <1>7, <3>1, <3>2 DEF Step, Finish
  <2>4. QED
    BY <1>2, <1>3, <2>2, <2>3 DEF Closer
<1>8. ASSUME NEW t \in Threads, WakeLearner(t) PROVE Closer
  <2>1. /\ pc[t] = "notified" /\ waiters' = Remaining
        /\ pc' = [Released(pc) EXCEPT ![t] = "learning"]
    BY <1>8 DEF WakeLearner
  <2>2. CASE j = 1
    <3>1. waiters # <<>> /\ Head(waiters) = Server
      BY <1>1, <1>2, <2>2
    <3>2. Released(pc) = [pc EXCEPT ![Server] = "notified"]
      BY <3>1 DEF Released
    <3>3. pc'[Server] = "notified"
      BY <1>1, <2>1, <3>2
    <3>4. QED
      BY <3>3 DEF Closer
  <2>3. CASE j # 1
    <3>1. j - 1 \in 1..Len(Remaining) /\ Remaining[j - 1] = waiters[j - 1 + 1]
      BY <1>2, <2>3, NotifyHead
    <3>2. j - 1 \in DOMAIN waiters' /\ waiters'[j - 1] = Server /\ j - 1 < j
      <4>1. Remaining \in Seq(Procs) /\ DOMAIN Remaining = 1..Len(Remaining)
        BY NotifyHead
      <4>2. QED
        BY <1>2, <1>3, <2>1, <3>1, <4>1
    <3>3. QED
      BY <1>2, <1>3, <3>2 DEF Closer
  <2>4. QED
    BY <2>2, <2>3
<1>9. CASE Simulation \/ stop_training \/ Terminated \/ UNCHANGED vars
  <2>1. UNCHANGED syncVars
    BY <1>9 DEF Simulation, StartSimulation, SendReport, GiveUp, EndSimulation,
       stop_training, Terminated, vars
  <2>2. QED
    BY <1>4, <2>1
<1>10. QED
  BY <1>4, <1>5, <1>6, <1>7, <1>8, <1>9 DEF Next, Learner

\* Under the lock discipline of ppo(), step() and agent_loop(), nothing pushes
\* the waiting server back in the queue of the condition: each step of the
\* learners uses up a thread that can run or brings the notify() nearer.
THEOREM ServerComesCloser == Spec => [][Closer]_vars
<1>1. Init => TypeOK /\ WaitersInv
  BY InitType, InitSync DEF SyncInv
<1>2. TypeOK /\ WaitersInv /\ [Next]_vars => (TypeOK /\ WaitersInv)'
  BY NextType, WaitersNext
<1>3. TypeOK /\ WaitersInv /\ [Next]_vars => [Closer]_vars
  BY NextCloser
<1>4. QED
  BY <1>1, <1>2, <1>3, PTL DEF Spec

===============================================================================
