-------------------------- MODULE PodMetricsProofs --------------------------
(***************************************************************************)
(* Theorems about PodMetrics, for any finite set of pods and any types.    *)
(* GaugesCountPods is not inductive by itself: it needs that the labels    *)
(* updateMetrics still has to decrement or increment are labels of the     *)
(* types it works on, and that nothing is recorded for its pod meanwhile   *)
(* (InStep), and, for the "up" gauges, that the counters are the gauges    *)
(* and that at most one "up" gauge is behind, by one step (CountersAgree). *)
(***************************************************************************)
EXTENDS PodMetrics, FiniteSetTheorems, TLAPS

\* What updateMetrics has recorded and has left to do at each of its steps.
InStep ==
  /\ pc = "idle" => key = NoPod /\ types = {} /\ todo = {}
  /\ pc # "idle" => key \in Pods
  /\ pc = "dec" => types = {} /\ todo \subseteq LabelsOf(objStore[key])
  /\ pc \in {"resolve", "failed"} => objStore[key] = {} /\ types = {} /\ todo = {}
  /\ pc = "inc" => /\ objStore[key] = {} /\ types # {}
                   /\ todo \subseteq LabelsOf(types) /\ AnyLabel \in todo
  /\ pc = "any" => objStore[key] = types /\ types # {} /\ todo = {AnyLabel}
  /\ pc = "done" => objStore[key] = types /\ todo = {}
  /\ pc \in {"idle", "resolve", "failed"} => unset = {}

\* The counters are the gauges of the tracked labels, and "up" follows them; a
\* label whose "up" is still to be set was in order one instance ago.
CountersAgree ==
  /\ \A l \in Tracked : /\ count[l] = gauge[l]
                        /\ up[l] = 0 => gauge[l] <= 1
                        /\ l \notin unset => (up[l] = 1 <=> gauge[l] > 0)
  /\ \A l, m \in unset : l = m

IInv == MetricsTypeOK /\ InStep /\ CountersAgree /\ GaugesCountPods

-----------------------------------------------------------------------------
(* Labels and counts.                                                      *)

\* The labels of a pod are labels; it has none without types, "any" with some.
LEMMA LabelsAreLabels ==
  ASSUME NEW S \in SUBSET Types
  PROVE  /\ LabelsOf(S) \subseteq Labels
         /\ S = {} => LabelsOf(S) = {}
         /\ S # {} => AnyLabel \in LabelsOf(S)
BY DEF LabelsOf, Labels

\* The tracked labels are labels.
LEMMA TrackedAreLabels == Tracked \subseteq Labels
BY NamesAssumption DEF Tracked, Labels

\* The pods counted under a label are finitely many.
LEMMA OthersAreFinite ==
  ASSUME NEW l
  PROVE  IsFiniteSet(OthersCounted(l)) /\ Cardinality(OthersCounted(l)) \in Nat
<1>1. OthersCounted(l) \subseteq Pods
  BY DEF OthersCounted
<1> QED  BY <1>1, FinitenessAssumption, FS_Subset, FS_CardinalityType

\* A step that changes no record but that of the pod being updated does not
\* change how the others are counted.
LEMMA OthersUnchanged ==
  ASSUME key' = key, \A k \in Pods \ {key} : objStore'[k] = objStore[k]
  PROVE  \A l \in Labels : OthersCounted(l)' = OthersCounted(l)
BY DEF OthersCounted

\* UpdateNetAttachDefInstanceMetrics keeps the counters and the gauges in step,
\* and leaves one "up" gauge to be set.
LEMMA UpdateKeepsCounters ==
  ASSUME MetricsTypeOK, CountersAgree, NEW l \in Labels, NEW v \in {-1, 1},
         UpdateInstances(l, v)
  PROVE  /\ gauge' \in [Labels -> Int] /\ count' \in [Tracked -> Int]
         /\ up' \in [Tracked -> {0, 1}] /\ unset' \subseteq Tracked
         /\ CountersAgree'
         /\ gauge'[l] = gauge[l] + v
         /\ \A m \in Labels \ {l} : gauge'[m] = gauge[m]
<1>1. gauge' \in [Labels -> Int] /\ gauge'[l] = gauge[l] + v
      /\ \A m \in Labels \ {l} : gauge'[m] = gauge[m]
  BY DEF UpdateInstances, MetricsTypeOK
<1>2. /\ count' \in [Tracked -> Int]
      /\ \A m \in Tracked : count'[m] = IF m = l THEN count[m] + v ELSE count[m]
  BY DEF UpdateInstances, MetricsTypeOK
<1>3. up' = up /\ unset = {} /\ unset' = {l} \cap Tracked
  BY DEF UpdateInstances
<1>4. ASSUME NEW m \in Tracked
      PROVE  /\ count'[m] = gauge'[m]
             /\ up'[m] = 0 => gauge'[m] <= 1
             /\ m \notin unset' => (up'[m] = 1 <=> gauge'[m] > 0)
  <2>1. /\ m \in Labels /\ gauge[m] \in Int /\ count[m] = gauge[m]
        /\ up[m] = 1 <=> gauge[m] > 0
    BY <1>3, TrackedAreLabels DEF CountersAgree, MetricsTypeOK
  <2>2. CASE m = l
    BY <1>1, <1>2, <1>3, <2>1, <2>2
  <2>3. CASE m # l
    BY <1>1, <1>2, <1>3, <2>1, <2>3
  <2> QED  BY <2>2, <2>3
<1>5. \A m, n \in unset' : m = n
  BY <1>3
<1>6. CountersAgree'
  BY <1>4, <1>5 DEF CountersAgree
<1> QED  BY <1>1, <1>2, <1>3, <1>6 DEF MetricsTypeOK

\* When "up" has been set, it shows the counter again.
LEMMA SettingUpAgrees ==
  ASSUME MetricsTypeOK, CountersAgree, NEW l \in Tracked, SetEnabledInstanceUp(l)
  PROVE  up' \in [Tracked -> {0, 1}] /\ CountersAgree'
<1>1. /\ up' \in [Tracked -> {0, 1}]
      /\ up'[l] = (IF count[l] > 0 THEN 1 ELSE 0)
      /\ \A m \in Tracked \ {l} : up'[m] = up[m]
  BY DEF SetEnabledInstanceUp, MetricsTypeOK
<1>2. l \in unset /\ unset' = {} /\ UNCHANGED <<gauge, count>>
  BY DEF SetEnabledInstanceUp
<1>3. ASSUME NEW m \in Tracked
      PROVE  /\ count'[m] = gauge'[m]
             /\ up'[m] = 0 => gauge'[m] <= 1
             /\ up'[m] = 1 <=> gauge'[m] > 0
  <2>1. /\ m \in Labels /\ gauge[m] \in Int /\ count[m] = gauge[m]
        /\ m \notin unset => (up[m] = 1 <=> gauge[m] > 0)
        /\ up[m] = 0 => gauge[m] <= 1
    BY TrackedAreLabels DEF CountersAgree, MetricsTypeOK
  <2>2. CASE m = l
    BY <1>1, <1>2, <2>1, <2>2
  <2>3. CASE m # l
    <3>1. m \notin unset
      BY <1>2, <2>3 DEF CountersAgree
    <3> QED  BY <1>1, <1>2, <2>1, <2>3, <3>1
  <2> QED  BY <2>2, <2>3
<1> QED  BY <1>1, <1>2, <1>3 DEF CountersAgree

\* A step that moves no gauge keeps the count if the other pods are recorded
\* as before and its own pod is present under the same labels.
LEMMA CountKept ==
  ASSUME GaugesCountPods, gauge' = gauge, Present' = Present,
         \A l \in Labels : OthersCounted(l)' = OthersCounted(l)
  PROVE  GaugesCountPods'
BY DEF GaugesCountPods

\* A step that takes its pod off one label, or gives it one, moves that gauge.
LEMMA CountMoved ==
  ASSUME MetricsTypeOK, GaugesCountPods, NEW l \in Labels, NEW v \in {-1, 1},
         gauge'[l] = gauge[l] + v,
         \A m \in Labels \ {l} : gauge'[m] = gauge[m],
         v = 1 => l \notin Present /\ Present' = Present \cup {l},
         v = -1 => l \in Present /\ Present' = Present \ {l},
         \A m \in Labels : OthersCounted(m)' = OthersCounted(m)
  PROVE  GaugesCountPods'
<1> SUFFICES ASSUME NEW m \in Labels
             PROVE  gauge'[m] = Cardinality(OthersCounted(m)')
                                  + (IF m \in Present' THEN 1 ELSE 0)
  BY DEF GaugesCountPods
<1>1. gauge[m] = Cardinality(OthersCounted(m)) + (IF m \in Present THEN 1 ELSE 0)
  BY DEF GaugesCountPods
<1>2. Cardinality(OthersCounted(m)) \in Nat /\ OthersCounted(m)' = OthersCounted(m)
  BY OthersAreFinite
<1>3. CASE m # l
  BY <1>1, <1>2, <1>3
<1>4. CASE m = l
  BY <1>1, <1>2, <1>4
<1> QED  BY <1>3, <1>4

-----------------------------------------------------------------------------
(* The inductive invariant.                                                *)

\* At first nothing is recorded and every gauge is 0.
LEMMA InitEstablishesIInv == MetricsInit => IInv
<1> SUFFICES ASSUME MetricsInit  PROVE IInv
  OBVIOUS
<1>1. MetricsTypeOK
  BY DEF MetricsInit, MetricsTypeOK, Actions
<1>2. InStep
  BY DEF MetricsInit, InStep
<1>3. CountersAgree
  BY TrackedAreLabels DEF MetricsInit, CountersAgree
<1>4. GaugesCountPods
  <2>1. Present = {}
    BY DEF MetricsInit, Present
  <2>2. \A l : OthersCounted(l) = {}
    BY DEF MetricsInit, OthersCounted, LabelsOf
  <2> QED  BY <2>1, <2>2, FS_EmptySet DEF MetricsInit, GaugesCountPods
<1> QED  BY <1>1, <1>2, <1>3, <1>4 DEF IInv

\* A call takes its pod out of the others: what was recorded for it is what is
\* present of it, and to be removed.
LEMMA BeginKeepsIInv ==
  ASSUME IInv, NEW k \in Pods, NEW a \in Actions, Begin(k, a)
  PROVE  IInv'
<1> DEFINE S == objStore[k]
<1>1. /\ S \in SUBSET Types /\ key = NoPod /\ types = {} /\ NoPod \notin Pods
      /\ LabelsOf(S) \subseteq Labels
      /\ S = {} => LabelsOf(S) = {}
  BY NamesAssumption, LabelsAreLabels DEF IInv, MetricsTypeOK, InStep, Begin
<1>2. MetricsTypeOK' /\ CountersAgree'
  BY <1>1 DEF IInv, MetricsTypeOK, CountersAgree, Begin, gauges
<1>3. InStep'
  BY <1>1 DEF IInv, InStep, Begin, gauges
<1>4. Present = {} /\ Present' = LabelsOf(S)
  BY <1>1 DEF Begin, Present
<1>5. ASSUME NEW l \in Labels
      PROVE  gauge'[l] = Cardinality(OthersCounted(l)')
                           + (IF l \in Present' THEN 1 ELSE 0)
  <2>1. gauge'[l] = Cardinality(OthersCounted(l))
    <3>1. gauge[l] = Cardinality(OthersCounted(l)) + 0
      BY <1>4 DEF IInv, GaugesCountPods
    <3> QED  BY <3>1, OthersAreFinite DEF Begin, gauges
  <2>2. OthersCounted(l)' = OthersCounted(l) \ {k}
    BY <1>1 DEF OthersCounted, Begin
  <2>3. k \in OthersCounted(l) <=> l \in LabelsOf(S)
    BY <1>1 DEF OthersCounted
  <2>4. /\ Cardinality(OthersCounted(l)) \in Nat
        /\ Cardinality(OthersCounted(l) \ {k})
             = IF l \in LabelsOf(S) THEN Cardinality(OthersCounted(l)) - 1
                                    ELSE Cardinality(OthersCounted(l))
    BY <2>3, OthersAreFinite, FS_RemoveElement
  <2> QED  BY <1>4, <2>1, <2>2, <2>4
<1> QED  BY <1>2, <1>3, <1>5 DEF IInv, GaugesCountPods

\* A call that returns leaves its pod among the others, counted for what was
\* recorded.
LEMMA ReturnKeepsIInv ==
  ASSUME IInv, Return
  PROVE  IInv'
<1> DEFINE S == objStore[key]
<1>1. /\ key \in Pods /\ S \in SUBSET Types /\ S = types /\ todo = {}
      /\ NoPod \notin Pods
      /\ S = {} => LabelsOf(S) = {}
  BY NamesAssumption, LabelsAreLabels DEF IInv, MetricsTypeOK, InStep, Return
<1>2. MetricsTypeOK' /\ CountersAgree'
  BY <1>1 DEF IInv, MetricsTypeOK, CountersAgree, Return, gauges
<1>3. InStep'
  BY <1>1 DEF IInv, InStep, Return, gauges
<1>4. Present = LabelsOf(S) /\ Present' = {}
  BY <1>1 DEF IInv, InStep, Return, Present
<1>5. ASSUME NEW l \in Labels
      PROVE  gauge'[l] = Cardinality(OthersCounted(l)')
                           + (IF l \in Present' THEN 1 ELSE 0)
  <2>1. gauge'[l] = Cardinality(OthersCounted(l)) + (IF l \in LabelsOf(S) THEN 1 ELSE 0)
    BY <1>4 DEF IInv, GaugesCountPods, Return, gauges
  <2>2. OthersCounted(l)' = IF l \in LabelsOf(S) THEN OthersCounted(l) \cup {key}
                                                 ELSE OthersCounted(l)
    BY <1>1 DEF OthersCounted, Return
  <2>3. key \notin OthersCounted(l)
    BY DEF OthersCounted
  <2>4. /\ Cardinality(OthersCounted(l)) \in Nat
        /\ Cardinality(OthersCounted(l) \cup {key}) = Cardinality(OthersCounted(l)) + 1
    BY <2>3, OthersAreFinite, FS_AddElement
  <2> QED  BY <1>4, <2>1, <2>2, <2>4
<1> QED  BY <1>2, <1>3, <1>5 DEF IInv, GaugesCountPods

\* The labels of what is recorded are decremented once each.
LEMMA DecrementKeepsIInv ==
  ASSUME IInv, NEW l \in Labels, Decrement(l)
  PROVE  IInv'
<1>1. l \in todo
  BY DEF Decrement, Leading
<1>2. /\ gauge' \in [Labels -> Int] /\ count' \in [Tracked -> Int]
      /\ up' \in [Tracked -> {0, 1}] /\ unset' \subseteq Tracked
      /\ CountersAgree'
      /\ gauge'[l] = gauge[l] + (-1)
      /\ \A m \in Labels \ {l} : gauge'[m] = gauge[m]
  BY UpdateKeepsCounters DEF IInv, Decrement
<1>3. MetricsTypeOK' /\ InStep'
  BY <1>2 DEF IInv, MetricsTypeOK, InStep, Decrement, args
<1>4. GaugesCountPods'
  <2>1. l \in Present /\ Present' = Present \ {l}
    BY <1>1 DEF Decrement, Present
  <2>2. \A m \in Labels : OthersCounted(m)' = OthersCounted(m)
    BY OthersUnchanged DEF Decrement, args
  <2> QED  BY <1>2, <2>1, <2>2, CountMoved DEF IInv
<1> QED  BY <1>2, <1>3, <1>4 DEF IInv

\* The labels of the pod's types are incremented once each, "any" last.
LEMMA IncrementsKeepIInv ==
  ASSUME IInv, NEW l \in Labels, Increment(l) \/ (l = AnyLabel /\ IncrementAny)
  PROVE  IInv'
<1>1. /\ l \in todo /\ l \in LabelsOf(types)
      /\ pc \in {"inc", "any"} /\ key \in Pods /\ types # {}
      /\ todo \subseteq LabelsOf(types)
  <2>1. types \in SUBSET Types /\ (types # {} => AnyLabel \in LabelsOf(types))
    BY LabelsAreLabels DEF IInv, MetricsTypeOK
  <2> QED  BY <2>1 DEF IInv, InStep, Increment, IncrementAny, Leading
<1>2. /\ gauge' \in [Labels -> Int] /\ count' \in [Tracked -> Int]
      /\ up' \in [Tracked -> {0, 1}] /\ unset' \subseteq Tracked
      /\ CountersAgree'
      /\ gauge'[l] = gauge[l] + 1
      /\ \A m \in Labels \ {l} : gauge'[m] = gauge[m]
  BY UpdateKeepsCounters DEF IInv, Increment, IncrementAny
<1>3. MetricsTypeOK'
  BY <1>2 DEF IInv, MetricsTypeOK, Increment, IncrementAny, args
<1>4. InStep'
  BY DEF IInv, InStep, Increment, IncrementAny, args
<1>5. GaugesCountPods'
  <2>1. l \notin Present /\ Present' = Present \cup {l}
    BY <1>1 DEF IInv, InStep, Increment, IncrementAny, Present
  <2>2. \A m \in Labels : OthersCounted(m)' = OthersCounted(m)
    BY OthersUnchanged DEF Increment, IncrementAny, args
  <2> QED  BY <1>2, <2>1, <2>2, CountMoved DEF IInv
<1> QED  BY <1>2, <1>3, <1>4, <1>5 DEF IInv

\* Every step of updateMetrics keeps the inductive invariant.
LEMMA NextKeepsIInv == IInv /\ [MetricsNext]_metricVars => IInv'
<1> SUFFICES ASSUME IInv, [MetricsNext]_metricVars  PROVE IInv'
  OBVIOUS
<1>1. ASSUME Erase \/ Store  PROVE IInv'
  <2>1. key \in Pods /\ types \in SUBSET Types
    BY <1>1 DEF IInv, MetricsTypeOK, InStep, Erase, Store
  <2>2. MetricsTypeOK' /\ CountersAgree'
    BY <1>1, <2>1 DEF IInv, MetricsTypeOK, CountersAgree, Erase, Store, gauges, args
  <2>3. InStep'
    BY <1>1, <2>1 DEF IInv, MetricsTypeOK, InStep, Erase, Store, gauges, args
  <2>4. Present' = Present
    BY <1>1 DEF IInv, InStep, Erase, Store, Present
  <2>5. \A l \in Labels : OthersCounted(l)' = OthersCounted(l)
    BY <1>1, <2>1, OthersUnchanged DEF IInv, MetricsTypeOK, Erase, Store, args
  <2> QED  BY <1>1, <2>2, <2>3, <2>4, <2>5, CountKept DEF IInv, Erase, Store, gauges
<1>2. ASSUME NEW S \in SUBSET Types, Resolve(S)  PROVE IInv'
  <2>1. /\ LabelsOf(S) \subseteq Labels /\ (S = {} => LabelsOf(S) = {})
        /\ (S # {} => AnyLabel \in LabelsOf(S))
    BY LabelsAreLabels
  <2>2. MetricsTypeOK' /\ CountersAgree' /\ InStep'
    BY <1>2, <2>1 DEF IInv, MetricsTypeOK, CountersAgree, InStep, Resolve, gauges, args
  <2>3. Present' = Present
    BY <1>2 DEF Resolve, Present
  <2>4. \A l \in Labels : OthersCounted(l)' = OthersCounted(l)
    BY <1>2, OthersUnchanged DEF Resolve, args
  <2> QED  BY <1>2, <2>2, <2>3, <2>4, CountKept DEF IInv, Resolve, gauges
<1>3. ASSUME ParseFails  PROVE IInv'
  <2>1. MetricsTypeOK' /\ CountersAgree' /\ InStep'
    BY <1>3 DEF IInv, MetricsTypeOK, CountersAgree, InStep, ParseFails, gauges, args
  <2>2. Present' = Present
    BY <1>3 DEF ParseFails, Present
  <2>3. \A l \in Labels : OthersCounted(l)' = OthersCounted(l)
    BY <1>3, OthersUnchanged DEF ParseFails, args
  <2> QED  BY <1>3, <2>1, <2>2, <2>3, CountKept DEF IInv, ParseFails, gauges
<1>4. ASSUME NEW l \in Tracked, SetEnabledInstanceUp(l)  PROVE IInv'
  <2>1. up' \in [Tracked -> {0, 1}] /\ CountersAgree'
    BY <1>4, SettingUpAgrees DEF IInv
  <2>2. MetricsTypeOK' /\ InStep'
    BY <1>4, <2>1 DEF IInv, MetricsTypeOK, InStep, SetEnabledInstanceUp, args
  <2>3. Present' = Present
    BY <1>4 DEF SetEnabledInstanceUp, Present
  <2>4. \A m \in Labels : OthersCounted(m)' = OthersCounted(m)
    BY <1>4, OthersUnchanged DEF SetEnabledInstanceUp, args
  <2> QED  BY <1>4, <2>1, <2>2, <2>3, <2>4, CountKept DEF IInv, SetEnabledInstanceUp
<1>5. ASSUME Step  PROVE IInv'
  <2>1. AnyLabel \in Labels
    BY DEF Labels
  <2> QED
    BY <1>1, <1>4, <1>5, <2>1, DecrementKeepsIInv, IncrementsKeepIInv DEF Step
<1>6. CASE UNCHANGED metricVars
  BY <1>6 DEF metricVars, gauges, IInv, MetricsTypeOK, InStep, CountersAgree,
              GaugesCountPods, OthersCounted, Present
<1> QED
  BY <1>2, <1>3, <1>5, <1>6, BeginKeepsIInv, ReturnKeepsIInv DEF MetricsNext

\* Whatever is called for which pods, in any order, every label is counted
\* as often as pods are recorded under it, at every step of every call.
THEOREM PodMetricsInvariant == MetricsSpec => []IInv
<1> QED  BY InitEstablishesIInv, NextKeepsIInv, PTL DEF MetricsSpec

\* Types.
COROLLARY PodMetricsTypes == MetricsSpec => []MetricsTypeOK
<1>1. IInv => MetricsTypeOK
  BY DEF IInv
<1> QED  BY <1>1, PodMetricsInvariant, PTL

\* No increment or decrement of a gauge is ever lost or made twice.
COROLLARY EveryPodCountsOnce == MetricsSpec => []GaugesCountPods
<1>1. IInv => GaugesCountPods
  BY DEF IInv
<1> QED  BY <1>1, PodMetricsInvariant, PTL

\* Between two calls the pods counted are those recorded: what the next call
\* decrements is what earlier calls incremented.
LEMMA InvariantTellsGauges ==
  ASSUME IInv, pc = "idle", NEW l \in Labels
  PROVE  gauge[l] = Cardinality({k \in Pods : l \in LabelsOf(objStore[k])})
<1>1. Present = {}
  BY DEF Present
<1>2. OthersCounted(l) = {k \in Pods : l \in LabelsOf(objStore[k])}
  BY NamesAssumption DEF IInv, InStep, OthersCounted
<1>3. gauge[l] = Cardinality(OthersCounted(l)) + 0
  BY <1>1 DEF IInv, GaugesCountPods
<1>4. gauge[l] = Cardinality(OthersCounted(l))
  BY <1>3, OthersAreFinite
<1> QED  BY <1>2, <1>4, Zenon

\* No gauge is ever negative; "up" shows whether pods are counted, but for one
\* label at a time, between the write of its gauge and the write of its "up",
\* when its first pod comes or its last one goes.
THEOREM UpShowsUse == MetricsSpec => []UpMeansSome
<1>1. IInv => UpMeansSome
  <2> SUFFICES ASSUME IInv  PROVE UpMeansSome
    OBVIOUS
  <2>1. ASSUME NEW l \in Labels  PROVE gauge[l] >= 0
    <3>1. gauge[l] = Cardinality(OthersCounted(l)) + (IF l \in Present THEN 1 ELSE 0)
      BY DEF IInv, GaugesCountPods
    <3> QED  BY <3>1, OthersAreFinite
  <2>2. ASSUME NEW l \in UpLags  PROVE l \in unset /\ gauge[l] <= 1
    <3>1. l \in Tracked /\ gauge[l] \in Int /\ up[l] \in {0, 1}
      BY TrackedAreLabels DEF UpLags, IInv, MetricsTypeOK
    <3>2. up[l] # (IF gauge[l] > 0 THEN 1 ELSE 0)
      BY DEF UpLags
    <3> QED  BY <3>1, <3>2 DEF IInv, CountersAgree
  <2>3. \A l \in UpLags : UpLags = {l}
    BY <2>2 DEF IInv, CountersAgree
  <2>4. pc = "idle" => UpLags = {}
    BY <2>2 DEF IInv, InStep
  <2> QED  BY <2>1, <2>2, <2>3, <2>4 DEF UpMeansSome
<1> QED  BY <1>1, PodMetricsInvariant, PTL

=============================================================================
