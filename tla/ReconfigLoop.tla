----------------------------- MODULE ReconfigLoop -----------------------------
(***************************************************************************)
(* What NrMacSchedulerOfdmaDPPA and Ns3DrlInterface do between two state   *)
(* reports: every downlink slot adds the active UEs to the window and to   *)
(* m_allUEs, the tracers add a throughput per interval, and                *)
(* MakeRestRequest reports the window, resets it and schedules itself      *)
(* again.                                                                  *)
(*                                                                         *)
(* UEs are numbered as their RNTIs; a report names them by position.       *)
(* Simulated time is counted down to the next event of each kind.          *)
(***************************************************************************)
EXTENDS Integers, Sequences, FiniteSets

CONSTANTS
  N,             \* UEs
  NTraced,       \* those with a PeriodicThroughputTracer: AR, VR and CG, not voice
  ServerMin,     \* UEs a report must have for the server to use it
  Period,        \* ReconfigPeriod
  Interval,      \* interval of PeriodicThroughputTracer
  MaxSlots,      \* bound on the slots between two ticks or reports
  Dead,          \* no MakeRestRequest is scheduled
  None           \* no report yet

ASSUME LoopAssumption ==
  /\ N \in Nat \ {0} /\ NTraced \in 0..N /\ ServerMin \in Nat
  /\ Period \in Nat \ {0} /\ Interval \in Nat \ {0} /\ MaxSlots \in Nat \ {0}
  /\ Dead \notin Int

UEs == 1..N

\* The voice UEs come last and have no tracer.
Traced == 1..NTraced

\* A report: the UEs it names, those that had data, those with a throughput.
Report == [ues : SUBSET UEs, heard : SUBSET UEs, measured : SUBSET UEs]

ASSUME NoneAssumption == None \notin Report

VARIABLES
  order,     \* order in which a slot visits the UEs
  busy,      \* every UE has data in every slot, and no interval is idle
  registry,  \* m_allUEs
  window,    \* keys of m_mcs
  thput,     \* m_thput: "none", "reset" (-1) or "measured"
  todo,      \* UEs with data the slot in progress has not visited yet
  inSlot,    \* AssignDLRBG is in progress
  slotted,   \* slots since the last tick or report
  slots,     \* slots of the window, up to two; two once a window had two
  counted,   \* times the last slot updated the virtual queue of each UE
  heard,     \* UEs with data since the last report
  report,    \* the last report
  thputIn,   \* time to the next tracer event
  reconfIn   \* time to the next MakeRestRequest

cellVars == <<order, busy>>
drlVars  == <<window, thput, heard, report>>
slotVars == <<todo, inSlot, slotted, slots, counted>>
timeVars == <<thputIn, reconfIn>>
vars == <<cellVars, registry, drlVars, slotVars, timeVars>>

Orders == {s \in [UEs -> UEs] : \A i, j \in UEs : i # j => s[i] # s[j]}

Init ==
  /\ order \in Orders /\ busy \in BOOLEAN
  /\ registry = <<>>
  /\ window = {} /\ heard = {} /\ report = None
  /\ thput = [u \in UEs |-> "none"]
  /\ todo = {} /\ inSlot = FALSE
  /\ slotted = 0 /\ slots = 0
  /\ counted = [u \in UEs |-> 0]
  /\ thputIn = Interval /\ reconfIn = Period

-----------------------------------------------------------------------------
(* A downlink slot.                                                        *)

BeginSlot ==
  /\ ~inSlot /\ slotted < MaxSlots
  /\ \E ues \in SUBSET UEs \ {{}} :
       /\ busy => ues = UEs
       /\ todo' = ues
  /\ inSlot' = TRUE
  /\ UNCHANGED <<cellVars, registry, slotted, slots, counted, drlVars, timeVars>>

\* Variant: the size test admits one entry more.
RegistersOneMore == Len(registry) <= Cardinality(window)

\* GetUEsNumber() is the size of the window.
Registers == Len(registry) < Cardinality(window)

\* The UE whose turn it is.
ComesFirst(u) ==
  \A i, j \in UEs : (order[i] = u /\ order[j] \in todo) => i <= j

\* One round of the loop over the UEs of the slot: m_allUEs, UpdateState.
Visit ==
  /\ inSlot
  /\ \E u \in todo :
       /\ ComesFirst(u)
       /\ registry' = IF Registers THEN Append(registry, u) ELSE registry
       /\ window' = window \cup {u}
       /\ heard' = heard \cup {u}
       /\ todo' = todo \ {u}
  /\ UNCHANGED <<cellVars, thput, report, inSlot, slotted, slots, counted>>
  /\ UNCHANGED timeVars

Times(u) == Cardinality({i \in 1..Len(registry) : registry[i] = u})

\* The loop over m_allUEs: UpdateDlTputVirtualQueue, UpdateMetricsRbs.
EndSlot ==
  /\ inSlot /\ todo = {}
  /\ counted' = [u \in UEs |-> Times(u)]
  /\ inSlot' = FALSE
  /\ slotted' = slotted + 1
  /\ slots' = IF slots = 2 THEN 2 ELSE slots + 1
  /\ UNCHANGED <<cellVars, registry, todo, drlVars, timeVars>>

-----------------------------------------------------------------------------
(* Tracers and time.                                                       *)

\* UpdateThroughput of all tracers.
MeasureThroughput ==
  /\ ~inSlot /\ thputIn = 0
  /\ thput' = [u \in UEs |-> IF u \in Traced THEN "measured" ELSE thput[u]]
  /\ thputIn' = Interval
  /\ UNCHANGED <<cellVars, registry, window, heard, report, slotVars, reconfIn>>

\* Variant: an event that is due is passed over.
PendingLate(left) == left \in Nat

Pending(left) == left \in Nat \ {0}

\* Time passes when nothing is due.
Tick ==
  /\ ~inSlot /\ Pending(thputIn)
  /\ reconfIn = Dead \/ Pending(reconfIn)
  /\ busy => window # {}
  /\ thputIn' = thputIn - 1
  /\ reconfIn' = IF reconfIn = Dead THEN Dead ELSE reconfIn - 1
  /\ slotted' = 0
  /\ UNCHANGED <<cellVars, registry, drlVars, todo, inSlot, slots, counted>>

-----------------------------------------------------------------------------
(* MakeRestRequest.                                                        *)

\* Variant: the report is not scheduled one nanosecond after the tracers.
DueAnyOrder == reconfIn = 0

\* The first report is scheduled at ReconfigPeriod plus one nanosecond: at
\* the same instant the tracers come first.
Due == ~inSlot /\ reconfIn = 0 /\ thputIn # 0

\* Entries a report has: positions 0 .. GetUEsNumber() - 1.
Reported == 1..Cardinality(window)

\* An empty window is not reported, and nothing is scheduled.
StopReporting ==
  /\ Due /\ window = {}
  /\ reconfIn' = Dead
  /\ UNCHANGED <<cellVars, registry, drlVars, slotVars, thputIn>>

\* Variant: Reset() keeps m_mcs.
WindowKept == window

WindowAfterReset == {}

\* Variant: MakeRestRequest does not schedule itself.
NotScheduled == Dead

NextReport == Period

\* The request returns (or fails) and Reset() is called.  The weights it sets
\* touch nothing here; TrainingLoop follows them.
Reconfigure ==
  /\ Due /\ window # {}
  /\ report' = [ues |-> Reported, heard |-> heard,
                measured |-> {u \in Reported : thput[u] = "measured"}]
  /\ window' = WindowAfterReset
  /\ heard' = {}
  /\ thput' = [u \in UEs |->
       IF u \in Reported \/ thput[u] # "none" THEN "reset" ELSE "none"]
  /\ reconfIn' = NextReport
  /\ slots' = IF slots = 2 THEN 2 ELSE 0
  /\ slotted' = 0
  /\ UNCHANGED <<cellVars, registry, todo, inSlot, counted, thputIn>>

-----------------------------------------------------------------------------
Next ==
  \/ BeginSlot \/ Visit \/ EndSlot
  \/ MeasureThroughput \/ Tick
  \/ StopReporting \/ Reconfigure

\* The simulator executes its events; slots take time.
Spec == Init /\ [][Next]_vars /\ WF_vars(Next)

-----------------------------------------------------------------------------
(* Properties.                                                             *)

\* Every variable keeps its type; the countdowns stop at zero.
TypeOK ==
  /\ order \in Orders /\ busy \in BOOLEAN
  /\ registry \in Seq(UEs) /\ todo \subseteq UEs
  /\ window \subseteq UEs /\ heard \subseteq UEs
  /\ thput \in [UEs -> {"none", "reset", "measured"}]
  /\ report \in Report \cup {None}
  /\ inSlot \in BOOLEAN
  /\ slotted \in 0..MaxSlots /\ (inSlot => slotted < MaxSlots)
  /\ slots \in 0..2
  /\ counted \in [UEs -> Nat]
  /\ thputIn \in 0..Interval
  /\ reconfIn \in (0..Period) \cup {Dead}

\* m_allUEs never has more entries than there are UEs: it is a static vector
\* that no reset empties, while the size it is compared with starts again
\* from zero in every window (nr-mac-scheduler-ofdma-dppa.cc:492).
RegistryBounded == Len(registry) <= N

\* A report the server uses describes exactly the UEs that had data since the
\* last one, each at its own position, although reports are indexed by
\* position and the window by RNTI (nr-mac-scheduler-ofdma-dppa.cc:847).
FullReportExact ==
  (report # None /\ Cardinality(report.ues) >= ServerMin) => report.ues = report.heard

\* The reward of a report uses a throughput measured since the last report of
\* every UE with a tracer, never the -1 that Reset() leaves
\* (ns3-drl-interface.cc:36).  Of a UE without one it uses 0 once and then -1,
\* unless the UE has no guaranteed bit rate.
RewardMeasured == report # None => report.measured = report.ues \cap Traced

\* With data for everyone each virtual queue is updated once in every slot, as
\* soon as one window has had two slots: the UE visited first is registered
\* only in the second of them.
UpdatedEverySlot ==
  (busy /\ slots = 2 /\ ~inSlot) => \A u \in UEs : counted[u] = 1

\* m_allUEs holds "All UEs in the system" (nr-mac-scheduler-ofdma-dppa.h:181),
\* each once: no virtual queue is updated twice in a slot.
UpdatedAtMostOnce == \A u \in UEs : counted[u] <= 1

\* With data in every interval, the scheduler is reconfigured for ever.
LoopRuns == busy => []<>(reconfIn = 0) /\ []<>(reconfIn = Period)

=============================================================================
