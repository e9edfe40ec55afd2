# RBIS: a TLA+ model of the DRL-driven DPPA scheduler

RBIS couples an ns-3/5G-LENA simulation with a Python decision server. In the
simulation, the MAC scheduler `NrMacSchedulerOfdmaDPPA` allocates the downlink
by a drift-plus-penalty rule with three weights (v, wq, wg); once per
reconfiguration period it reports what it observed, with a reward, to the
FastAPI server, which answers with new weights computed by a DQN or PPO agent.
These modules describe that system, TLC checks them on small instances, and
TLAPS proves their safety properties for every value of the constants.

## 1. Inventory

| Component | Code | State | Operations |
|---|---|---|---|
| Decision server | `server.py` | model, env, `condition`, `agent_thread`, transition and step counters, learning-curve files | `/configure`, `/infer_sched_config`, `/stop_training`, `/training_status`, `agent_loop` |
| Environments | `env.py`, `env_ISAC.py` (PPO), `env_DQN_Basic.py`, `env_DQN_ISAC.py` (DQN) | last report, reward, last action | `update_data`, `reset`, `step`, `get_action`, `decode_action` |
| DPPA scheduler | `nr-mac-scheduler-ofdma-dppa.{h,cc}` | `m_allUEs` (static), per-slot vectors and sets | `AssignDLRBG` and helpers, `MakeRestRequest` |
| DPPA UE info | `nr-mac-scheduler-ue-info-dppa.{h,cc}` | `m_g`, `m_k`, static weights | `UpdateDlTputVirtualQueue`, `UpdateDlK`, `CompareUeWeightsDl`, `SetDppWeights` |
| DRL interface | `ns3-drl-interface.{h,cc}` | per-RNTI averages of the window, throughputs, reward | `UpdateState`, `UpdateMetrics*`, `CalculateReward`, `Reset`, obstacle test |
| Data logger | `simulation-data-logger.{h,cc}` | log vectors, files | `LogQueueQ`, `LogQueueG`, `LogRBGAllocation`, `SaveToFiles` |
| Downlink HARQ (5G-LENA) | `nr-mac-scheduler-ns3.cc`, `nr-mac-scheduler-harq-rr.cc`, `nr-mac-harq-vector.cc`, `nr-gnb-mac.cc` | processes and timers of every UE, buffered NACKs, packets of the MAC | `ResetExpiredHARQ`, `MergeHARQ`, `ProcessHARQFeedbacks`, `ScheduleDlHarq`, `DoDlHarqFeedback` |
| Scenario | `nr-sched-o-ran-buildings.cc` | topology, tracers | `connectToRestServer`, `PeriodicThroughputTracer` |
| Drivers | `sim_parallel_*.py`, `clean.py`, notebooks | none | start processes, collect files |

How they interact: the scenario posts `/configure` once and runs the simulator.
In every downlink slot the scheduler settles HARQ and then calls `AssignDLRBG`
for the UEs HARQ leaves; that feeds the data logger and the DRL interface, as
the tracers do once per interval. `MakeRestRequest`, an event of the simulator,
blocks the simulation in a POST of `/infer_sched_config`. In training mode
(`PREDICT = False`) the handler hands the report to the learner thread, which
runs `model.learn()` and calls `env.step`; handler and learner pass a
`threading.Condition` back and forth. Handlers are coroutines that block, so one
handler at a time runs and a blocked one blocks the server.

What is hard: the hand-over between handler and learner (two threads that both
wait, one notification each); calls that ns-3 gives up; learners that end, are
"stopped", or share an environment; environments, models and learners that
outlive the configuration they were made for; iterators that survive sorting and
removal; three books of RBGs that must agree; a registry and a window with
different lifetimes; two periodic events due at the same instant; HARQ timers
against late feedback; counters and logs that must survive a restart or a crash.

## 2. Modules

| Module | Models |
|---|---|
| `ActionService` | the promise to ns-3: a call returns weights for this report, or neutral ones |
| `TrainingLoop` | ns-3 client, event loop, condition, learners, in training mode; implements `ActionService` |
| `ActionCodec` | the form of an action between model, answer and scheduler, as pure operators |
| `ServerConfig`, `MCServerConfig` | `/configure` and `/infer_sched_config` for every model and environment type, and what the answer does to ns-3; extends `ActionCodec` |
| `LearningCurve` | counters and files of the server, across restarts |
| `DppaAllocation`, `MCDppaAllocation` | one beam of one slot of `AssignDLRBG`; its TLC instances |
| `ReconfigLoop` | registry, window, tracers and `MakeRestRequest` between reports |
| `DlHarq` | HARQ processes, feedback and packets around the scheduler |
| `SlotLog` | log vectors and files over several simulations |
| `TrainingLoopProofs`, `ServerConfigProofs`, `LearningCurveProofs`, `DppaAllocationProofs`, `ReconfigLoopProofs`, `DlHarqProofs`, `SlotLogProofs` | theorems about the module each is named after |
| `DataLemmas` | lemmas: induction and recursion over numbers, for sets and functions; division |

### TrainingLoop

One action per point where a thread may lose control. A report is its number,
and the action computed from report k is written k, so freshness and credit are
comparisons of numbers. `pc` says where the server and each learner are;
`waiters` is the wait set of the condition, in the order CPython wakes it.
`SendReport`, `GiveUp`, `EndSimulation` and `StartSimulation` are ns-3;
`Configure*`, `Infer*` and `stop_training` the handlers; `Begin`, `Step`,
`WakeLearner` and `Finish` the learner. A learner holds the lock from when it
wakes until `env.step` waits (`LockFree`). `InferEnter` is `ppo()` up to its
wait, `InferWake` the rest, and `InferReply` the code after `ppo()`, where DQN
reads `env.get_action()` a second time without the lock. The difference between
the environments is `PublishesEarly`: DQN stores the action before it waits,
PPO after.

`AgentFirst` says that a learner waits in `env.step` before the first report
arrives. The code does not ensure it, it is only likely (a reconfiguration
period passes first); the run `first_report_race` drops it and shows the
deadlock that follows.

### ServerConfig and ActionCodec

One action per handler, no interleaving inside it: a learner is `starting`, on its
way to its first `env.step`; `serving` the environment in force; an `orphan` that
waits on one that was replaced; or not there. A report that finds it `starting`
hangs the server (`InferNobody`), the race `TrainingLoop` shows step by step; `early`
remembers it, and `Serves` excludes it as `AgentFirst` does there.
`ConfigureContinue`, `ConfigureBusy`, `ConfigureLearned` and `ConfigureFixed` are
the branches of `/configure`; `Reused`, `ModelFor` and `Loads` say which
environment and model a configuration gets. What is compared before an
environment is reused is the number of UEs and nothing else, and a model is
reused whatever it was made for; what follows from that (an observation of the
wrong length, a PPO model on a DQN environment) is in `Predictable` and `Fits`.
`Infer*` are the branches of `/infer_sched_config` in the order the code tries
them. `Answered`, `Failed` and `Unanswered` are the three things ns-3 may see: an
action, a body that is none (its parsing throws and ends the simulation), and no
answer (neutral weights). `Applied` is `SetDppWeights` on every UE: the members
are static, so the entry of the last UE in `m_allUEs` remains.

`ActionCodec` is the digits of `decode_action`, the slices the handler makes of an
action, and the table of `SetDppWeights` (wg in tenths). `Index` is the reference
it is compared with: Horner's rule on the answer. `WgCombinations` is `WG_STATES ** n`
as a recursive function, about which the provers can reason.

### LearningCurve

`memory` dies with a restart, `disk` does not. A curve has a header or not and
rows [idx, step]; `by` remembers, for the properties only, what wrote a row. The
crash window between saving the model and writing the row is in `Restart`; all
other writes are atomic per request.

### DppaAllocation

`pc` is the place in the two nested loops: `pass` (top of the inner loop),
`advance` (the search), `passEnd`, `reap`, `fronthaul`, `done`. The iterator
`schedInfoIt` is a position in `ueVector`, as it is in memory: sorting and
`pop_back` change what it names. Reading it at or past the end is undefined
behaviour: the flag may come out either way, and a search from past the end goes
to `undefined`. Transport blocks are `TbPerRbg[mcs]` bytes per RBG; ties of
`std::sort` are broken in any order. With sub-band CQI the block size follows from
the average over the RBGs held, a sum taken in their order; the table has an entry
for every average that can come out (`InputAssumption`). An attempt that lowers the block
is applied and then undone by hand in the list, the bitmap, the counter and the
metrics (`Undone`), as `DeallocateCurrentResourceFromUe` and the second call of
`AssignedDlResources` do; that this leaves everything as it was is a result
(`FailureKeepsBooks`), not an assumption. The beams of a slot do not interact (each
starts from the same bit mask), so one is modelled, with at least one symbol.
`m_k` is an input: `BeforeDlSched` sets it before the sort and nothing changes
it in the slot. Fronthaul: which allocations fit is free, because the capacity
depends on state outside the scheduler.

### ReconfigLoop

UEs are their RNTIs. A slot visits the active UEs in a fixed order (`order`);
`Visit` is a round of the loop that fills `m_allUEs` and calls `UpdateState`,
`EndSlot` the loop over `m_allUEs`. Time counts down to the next tracer event
and the next request; `Due` is the nanosecond that puts a request after the
tracers of the same instant. `StopReporting` is the early return for an empty
window. The scenario creates throughput tracers for its AR, VR and CG UEs, which
come first (`Traced`), while voice UEs are counted and reported: the entry of a voice
UE is 0 in the first window and the -1 of `Reset()` afterwards. `enable_xApp` is true, as in the code. The weights an answer sets are
followed in `TrainingLoop` and `ServerConfig`; nothing in this module depends on
them.

### DlHarq

Upstream code, modelled because it decides which UEs reach `AssignDLRBG`.
`SchedDlTrigger` is one slot: expiry of processes, merging of buffered and new
feedback, erasing, retransmissions, buffering of the rest, new blocks, and what
the MAC puts on the air. `Receive` is the UE and the feedback up to the MAC,
which discards the packets of an ACK at once. A retransmission is a process; its
place in `retransmit` is its place in `m_dlHarqToRetransmit`. Choices:

- one beam: with `DirectPathBeamforming` all UEs have the same `BeamId`;
- a block has the symbols its slot had left: all new blocks of a slot of one beam
  start at the same symbol and end with the slot. What the uplink leaves of a slot is
  free, from nothing to `MaxSym`;
- retransmissions are sorted by symbols, longest first, and equal ones as merged
  (`Precedes`). One is buffered when it does not fit, the first included; when the
  fronthaul refuses it; or beside one sent before it (`Resends`). RBGs are abstracted
  to whether a block collides with one placed before it;
- which free process comes first depends on the hash map, `CHOOSE` leaves it open;
- the control channel is ideal: each burst is answered once, and its feedback
  arrives within `MaxDelay` slots, one to a few in the code. `HarqAssumption` allows
  one more than there are processes (16): a feedback as late as that finds its
  process expired and is dropped, as the comment in `DoSchedDlTriggerReq` says. That
  comment also speaks of duplicates ("I don't know why these are generated"). None
  arise here. With two slots more, TLC finds that a feedback meets the next block in
  its process and is taken for it, which to the scheduler looks like a duplicate;
- RLC may have no PDU for a block: the burst is empty and nobody answers it.

### SlotLog

An entry is its simulation, UE and number. `BeforeDlSched` is the logging of
one UE, including the flush that UE 1 may start in the middle of a slot;
`LogRBGAllocation` is that of the other schedulers. The drivers run one
simulation after another in a directory and the files are opened to append, so
the files outlive simulations that finish or end with an exception (`Crash`).
`RowsMatch` compares files by the positions of a simulation's entries (`Of`,
`Numbers`), so that it can be proved without an operator that selects rows.
DPPA also writes rows of alpha.txt through a stream of its own: of that only the
effect on the file is modelled, which is that its first use empties it.

## 3. Runs

Runs that pass:

| Run | Instance | Shows |
|---|---|---|
| `dqn_training` | DQN, 2 learners with `/stop_training`, 4 reports, 2 simulations, 1 lost call | baton, freshness, credit, no report lost, handlers return, refinement of `ActionService` |
| `ppo_training` | PPO, 1 learner that may end, 6 reports, transitions | the stale answer of PPO never gets older than one report (that it is stale is `ppo_stale_answer`); a transition keeps its length; handlers return |
| `server_config` | 9 + 1 configurations, PREDICT, LOAD_MODEL, CONTINUE_TRAINING on and off, late learners, restarts | repeated simulations are served once the learner waits; answers decode and have an entry for each UE; predictions use the saved model |
| `curve` | 2 environment types, rows up to 5, 2 restarts | numbering, files, saved model |
| `dppa` | 4 and 3 UEs without a fronthaul limit, 2 UEs with each method, wideband and sub-band CQI, 3 RBGs | the books when attempts fail, are undone, or are taken back; minimal blocks, priority, no excess, at most one RBG past the admission test for each UE reaped and one more, termination |
| `reconfig_loop` | 3 UEs, one of them without a tracer, in a busy cell and in one where any may be idle | registry bounded, full reports exact, rewards use fresh throughputs of exactly the UEs with a tracer, every virtual queue updated once a slot, a loop that never ends |
| `harq` | 3 UEs, 1 process each, 1 retransmission, blocks and slots of up to 3 symbols, feedback on time or one slot late, no fronthaul | no feedback for the wrong block, no empty retransmission, no block of half a slot or more that stays |
| `slot_log` | 2 simulations, 2 UEs, capacity 2, 5 entries | the files and vectors hold each entry once; what a crash loses |

Runs that find what the code does otherwise than a comment or the README says:

| Run | What happens |
|---|---|
| `ppo_stale_answer` | PPO answers a report with the action computed from the one before (`env.py:116`) |
| `first_report_race` | the first report finds no learner waiting: handler and learner wait for ever (`server.py:175`) |
| `dppa_admission` | a UE is admitted by its predecessor's test (`dppa.cc:549`) |
| `reconfig_registry` | a UE is registered twice, its virtual queue updated twice a slot (`dppa.cc:495`) |

Several passing properties carry a condition that states a limit of the code:

- PPO answers with the action for the report before, against the flow in the
  README of the repository (`ppo_stale_answer`). `PpoLag` says that it is never an
  older one; with several learners on one environment (`/stop_training`) even that
  fails;
- after a `learn()` that ended nothing starts another: `NoReportLost` is the one
  property of the hand-over that goes on then. A handler that waits does so for ever;
- `Serves`, `EntryForEach` and `PredictsWithSaved` need simulations that all ask
  for the same thing (`steady`): a change of the number of UEs, of the algorithm
  or of the environment type reaches an environment, a model or a learner of the
  one before, and ends in an error, a hang or an answer of the wrong length. So
  does a server restarted in the middle of a simulation (`conf # asked`). `Serves`
  also needs a learner that waits when the first report comes (`~early`) and has not
  ended. `EntryForEach` is for up to four UEs, for a short report is answered with
  four entries; `PredictsWithSaved` leaves out PPO on Basic, for which `/configure`
  tries the DQN file;
- `/configure` announces a transition of 10 reports and sets 20 (`server.py:242`,
  `254`); ns-3 does not read the announcement;
- `FullReportExact` needs a server that uses only reports of all UEs: a shorter one
  names the wrong UEs (`dppa.cc:847`), and the server's minimum is four whatever the
  cell has;
- the reward of a voice UE is computed from no measurement (`RewardMeasured`);
- a transition may pass row 20,000 without saving the model (`SavedAtTarget`);
- a report sent to a server that was restarted and not configured is numbered 1
  again (`RowsConsecutive`);
- the stale flag leaks one RBG past the admission test, and another after each
  UE that is reaped (`LeakBounded`): the sort by bytes may put a UE that passes
  under the iterator again. For the same reason `PriorityRespected` speaks of
  UEs that pass the test: those that fail it may be served out of order. Both
  need four UEs to happen;
- bytes of RBGs the fronthaul takes back stay credited (`CreditedForHeld`);
- with sub-band CQI, which the scenario does not enable, TLC finds two more things:
  after `pop_back` the search starts past the end of the vector (`dppa.cc:643`), and
  the loops end with a UE under ten bytes, because a failed attempt clears
  `reapingResources` (`dppa.cc:577`). `WidebandIteratorInRange` and `MinimalTbs` are
  stated for wideband CQI;
- a NACK of less than half a slot may wait for ever: in every slot two larger blocks
  of other UEs may be sorted before it and take the symbols, while its timer is set
  back. TLC finds it with four symbols, three UEs and blocks of one and two symbols.
  The documentation of 5G-LENA speaks of "the scheduling of the HARQ retransmissions in
  a round robin manner" (`nr-module.rst`). `LargeFreed` is about the others, without a
  fronthaul;
- a DPPA simulation empties alpha.txt when it first writes to it, rows of an earlier
  simulation of another scheduler included: `RowsMatch` only says that no row is there
  twice;
- one period without traffic ends the reconfiguration for ever (`LoopRuns` is
  checked with traffic in every period);
- rewards are measured when `ReconfigPeriod` is at least the tracer interval
  (with less, a reward is computed from -1);
- a crash loses what the vectors hold; that is bounded only in entries of UE 1
  (`LossBounded`), since only they start a flush.

Bounds. Four reports let a report meet a learner that is two behind; a second
lost call or a third simulation repeats a state up to the numbering. Three UEs
and three RBGs give a UE before, at and after the iterator when one is reaped;
a second reaping needs a third UE, and a
second leak a fourth (two that fail the test beside the one reaped and the one
that passes). The fronthaul's guaranteed five RBGs become
one, so that three RBGs reach the limit. The registry needs two windows and two
slots in one of them. In `reconfig_loop`, `MaxSlots` is the number of slots
between two instants of simulated time; there the period equals the interval,
so that report and tracers meet at every report. The number 20,000 becomes 2,
and a transition 2 reports, which keeps the cases that straddle the boundary. In
`server_config` the server needs reports of 2 UEs instead of 4, and there are
configurations of fewer and of more. In `dppa` the sub-band
values are 0 (unusable), 1, 2 and 6: 6 is more than four above 1 and not above 2, and
the averages of 1 and 2 round down, so that an RBG lowers the block and is given back.
In `harq` feedback may take one slot more than a process lives; one process a UE makes
every block after the first a reuse, and three UEs with blocks of one to three symbols
let one or two retransmissions come before another, or leave it no symbols. In `slot_log` the capacity is passed twice in a simulation.

Fairness. The operating system runs every runnable thread: weak fairness on the
handler and on each learner's steps, none on ns-3, on the operator, or on
`learn()` ending. `AssignDLRBG` and the simulator are sequential code: weak
fairness of the next-state relation. `DlHarq!FairSpec`: what is on the air arrives, and
slots follow each other, among them again and again one of which the uplink takes
nothing (strong fairness of `Slot(MaxSym)`, for a slot waits for the feedback that is
due): the applications of the scenario run on the remote host, so the uplink carries
only replies and reports. The other modules state no liveness.
`CHECK_DEADLOCK FALSE` stands where the system may really stop (a learner that
has ended leaves the server waiting; all simulations are over) and in runs that
look for a violation.

## 4. Proofs

Each theorem is for every value of the constants that meets the assumptions of
its module, and the further ones named here.

`TrainingLoopProofs`:

- `TypeCorrect`: `TypeOK`.
- `BatonNeverLost`: if the learner waits before the first report (`AgentFirst`),
  `NoLostWakeup` is an invariant. It is not inductive. The strengthening
  `SyncInv` says that nobody is in the wait set twice, that a thread is in it
  exactly when its `pc` says `waiting`, that a waiting server has a notified
  learner, and that when the server is not inside `ppo()` a learner is ready to
  be notified.
- `AlwaysFresh`: with DQN, `FreshAction`. `IInv` adds to `SyncInv` what the queue
  of requests, the call and the environment's report say of each other's numbers,
  and that the action a woken server reads is the one the learner computed from
  that report.
- `LagIsOne`: with PPO and no `/stop_training`, `PpoLag`. `LagInv` follows the
  number of the report before the current one round the baton: in the action a
  notified learner will publish, then in the environment, then in what `ppo()`
  returns; `OnlyOne` says that the only learner is `agent_thread`.
- `TransitionsStayBounded`: what a transition has answered and may still answer
  never exceed its length together.
- `ReportsAreRead`: if the learner waits before the first report,
  `NoReportLost`, even after a `learn()` has ended. `ReadInv` says that outside
  the server's wait some learner has read the environment's report, and that a
  learner that holds the lock has.
- `CreditIsDue`: with DQN, `CreditOrDefault`, for any number of learners and
  without an assumption on who comes first. `CInv` follows the weights round the
  loop: reports are taken in the order sent (`OrderInv`); while an action is in
  force the only report still to be taken is the one ns-3 is blocked in
  (`CurrentInv`), which was measured under the action of the report before it
  (`WindowInv`); and a learner in the wait set is one report behind exactly when
  it stands before the server (`ActInv`).
- `ImplementsService`: every step of a DQN training loop whose learner does not
  end is a step of `ActionService` or a stutter. The refinement mapping is
  `asked <- sent` and `phase`.
- `ServerComesCloser`: while the server waits in `ppo()`, every step of the
  condition notifies it, moves it forward in the wait set, or leaves its place and
  fewer threads that can run (`Closer`): fewer that have not begun, or as many of
  them and fewer that hold the lock. Neither can go on for ever. With `NoLostWakeup`
  (somebody can move) this is what `HandlerReturns` rests on apart from fairness.

The argument in one sentence: there is one baton, the notification; the server
gives it to a learner and waits, the learner gives it back after it has read the
report, and DQN's action for that report is published before the learner lets go
of the lock.

`ServerConfigProofs`: `TypeCorrect`, `ServesAlways`, `EntriesForEach`,
`PredictsSaved`. The invariant `Inv` says that while `steady` holds, the
environment and the model are those of the configuration (`Matches`), a learner
is attached to them (`Attached`), a server just started has nothing (`Blank`),
and what was chosen came from the model (`Chooses`). The lengths of answers are
lemmas about `ActionCodec`. `DecodesAlways` is `ReplyDecodes`: the state keeps only
that the reply is the decoding of what was chosen, and the rest is arithmetic. That
Horner's rule on the digits of an index returns the index is an induction over the
number of UEs, for each digit position a division with remainder.

`LearningCurveProofs`: `TypeCorrect`, `RowsStayConsecutive`, `CurvesAlwaysKept`,
`SavedAtTheTarget`. The strengthening is `Numbered`: once configured, the
counters in memory are those of the last row of the curve in force.

`DppaAllocationProofs`: `NeverSharedTwice`, `BooksAlwaysAgree`, `AlwaysCredited`,
`NeverTooMuch` are parts of one inductive invariant, `Inv`: each part needs the others
(what a UE is credited with decides whether it takes another RBG; that an RBG is held
once decides what reaping gives back). An attempt is applied and undone in the list, the
bitmap, the counter and the metrics one by one; `FailureKeepsBooks` shows that the four
come back to what they were, which needs the invariant itself (the bitmap had the RBG
free, and the bytes credited were those of the list). `AtLeastTheMinimum` adds `Reaped`: a UE that has left the
vector holds nothing, and with wideband CQI no attempt fails (`NoFailure`), so
that `reapingResources` is still set when the last UE is looked at, although the
code clears it inside the inner loop. Three more invariants rest on these:

- `LeakStaysBounded`, `LeakBounded`: once the last RBG that the UEs reaped so
  far allow is leaked, the iterator is at a UE that fails the test, or nothing
  was handed out in the pass (`LeakInv`); the next step that counts is a reaping;
- `PriorityAlwaysRespected`, `PriorityRespected`, if an RBG carries anything
  (`SomeBytes`). Until the first UE is reaped the vector is sorted by weight and
  nobody before the iterator lacks bytes (`FirstRound`). Afterwards, while RBGs
  are left, those that may still get one come before all that lack bytes
  (`NoneWorse`): a UE that gives RBGs back held the fewest bytes, so all that are
  left held some, and by the property those came first;
- `WidebandAlwaysInRange`, `WidebandIteratorInRange`, if the RBGs the fronthaul
  always grants carry ten bytes (`GrantsMinimum`). The UEs before the iterator
  have ten bytes; after the sort as many places in front are taken by such UEs
  (`FirstPlaces`, by counting), so the UE reaped is not one of them;
- `TypeCorrect`, `TypeOK`. `Ranges` adds to `Inv` that sizes are numbers, for which
  an average of CQIs must be a CQI: a sum of n of them lies between 0 and n times
  the largest (`SumBounded`, by induction over the sequence). That the counter of
  assigned RBGs is never negative follows from `BooksAgree`;
- `AlwaysNearerTheEnd`: every step of the slot lowers a measure, in lexicographic
  order the length of the vector, the stage of the code that follows the nested
  loops, the RBGs left with the place in the pass, and the UEs the search has not
  reached (`Nearer`). The measure is of natural numbers (`RankType`),
  so the nested loops end although RBGs are given back: only a reaping gives them
  back, and it shortens the vector.

`ReconfigLoopProofs`:

- `TypeCorrect`: `TypeOK`; the countdowns never pass zero.
- `RegistryStaysBounded`: a UE is appended only while the registry is smaller
  than some window.
- `FullReportsExact`: if the server uses only reports of all UEs
  (`ServerMin >= N`), `FullReportExact`. The invariant adds that `heard` and the
  keys of the window are the same set; a report with as many positions as there
  are UEs then names them all.
- `RewardsMeasured`: if `Period >= Interval`, `RewardMeasured`: of the UEs reported,
  exactly those with a tracer have a fresh throughput. The invariant adds
  `TracersFirst`: while one of theirs is missing, the tracers are due no later
  than the report. The nanosecond (`Due`) does the rest.
- `EachQueueOnce`: `UpdatedEverySlot`. `BusyInv` says how the registry fills:
  the first slot adds everyone but the UE visited first, a first slot of a later
  window nobody, and a second slot of a window the UE that is missing; and it is
  never filled twice.
- `ReportComesCloser`: in a cell with data in every interval a report is always
  scheduled and finds a window to report (`ScheduledInv`), and each event makes the
  report, lets time pass towards it, serves the tracers that are due, or brings a
  slot nearer to its end (`ReportCloser`), of which `TypeOK` allows `MaxSlots` in an
  instant.

`DlHarqProofs`: `TypeCorrect` (with the size kept beside the map of processes),
`OneFeedbackAlways`, `PacketsStayKept`. `OneFeedback` is inductive with `TypeOK`:
the timer of a process and the age of what is on the air run together, which is
what keeps a late feedback from meeting a reused process: at the largest delay allowed
the process expires in the slot that would have read it, and a feedback is read before
the slot that gives its process a new block. `LargeAlwaysInTurn`, without a fronthaul:
a NACK of half a slot or more that waits is sent again, or what may be sent before it
(`Overtakers`: blocks of the same size that were merged before it, and larger ones)
grows no more, and each slot without uplink uses up a retransmission of one of them
(`LargeInTurn`): the first in the sort fits such a slot, and where something at least
as long as half a slot is sent, the new blocks get no more than the other half, so
that none of them is ever sorted before the one that waits.
The timer of a waiting process never expires, so this order is all that keeps it from
starving.

`SlotLogProofs`: `LossAlwaysBounded`; `QueuesStayTwins`, that the two queue vectors
and files are the same; and `RowsAlwaysMatch`, `RowsMatch`. `RowsInv` adds that the
vectors hold entries of the last simulation only and the files none of simulations
to come (`QueueSims`), and that as long as a simulation runs none of its RBG entries
is in the file (`Unwritten`): the vector of RBG entries is never emptied, and what
keeps it from being written twice is that only the destructor writes it in a
simulation that has any. A flush moves entries from the vector to the end of the
file, which leaves the file followed by the vector as it was (`SavedRows`).

`DataLemmas`: the induction theorems of the library take operators, which the
provers cannot instantiate. They are proved here again for a set of numbers in place
of a predicate (`SetInduction`) and a function in place of an operator
(`RecursionExists`), from the well-foundedness of subsets of a finite set; the
equation of the fold of a sequence (`FoldEquation`) follows. What a sum or
`WgCombinations` computes for every input is proved from these.

The progress theorems (`ServerComesCloser`, `AlwaysNearerTheEnd`,
`LargeAlwaysInTurn`, `ReportComesCloser`) are action properties: they say that no
step moves away from the goal, under no assumption of fairness. That steps are taken
is fairness, and is left to TLC.

Only model-checked: liveness, that is `HandlerReturns`, `Terminates`, `LoopRuns`,
`LargeFreed` and the liveness part of `ServiceSpec`. Fairness and ENABLED are
outside this prover. Every other property of a passing run is proved.

## 5. Not modelled

- Obstacle geometry (`isCloseToObs`), the values of the window (the MCS average is
  rounded after every slot) and the reward arithmetic: floating-point without a
  definition to compare them with.
- Evaluation mode (disabled by `if False`), `/training_status` (reads only), the
  Test type, hyperparameters, `request_timing.csv`.
- The OptimizeMcs fronthaul method, symbols within a slot, more than one beam.
- The scenario and the drivers: configuration, start of processes, file moves.
- Uplink, RLC, PDCP, RRC, the channel and error models, and the simulator core.
  The repository carries complete copies of ns-3 and 5G-LENA, cpp-httplib and
  nlohmann json, about a million lines with large generated tables (EESM, ASN.1
  headers). RBIS does not change them and is a few thousand lines beside them, so
  the mapped share of all lines is small; of `server.py`, the environments, the
  scheduler, its UE info, the DRL interface and the logger most lines that change
  state are mapped.

## 6. Plan

1. A composition of `ReconfigLoop`, `DppaAllocation` and `DlHarq` over slots, by
   way of `m_g`, the weights and the UEs that HARQ leaves.
2. Several environment objects in `TrainingLoop`, so that the threads of
   `ServerConfig`'s orphans are followed step by step.
3. Proofs: that `ReconfigLoop` and `DlHarq` keep their invariants when they are
   composed (1).
