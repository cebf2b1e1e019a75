----------------------------- MODULE PodMetrics -----------------------------
(***************************************************************************)
(* The metrics of pods with attached networks: the gauges and counters of  *)
(* pkg/localmetrics, and updateMetrics of pkg/controller, the only code    *)
(* that changes them.  updateMetrics runs on one goroutine, but a scrape   *)
(* reads the gauges between any two of its steps, so each write to one of  *)
(* the two gauge vectors and each call of SetStoredValue is one action.    *)
(* (The counters are read by that goroutine alone: a counter changes with  *)
(* the gauge of its label.)                                                *)
(*                                                                         *)
(* The string stored for a pod, its types sorted and joined with commas,   *)
(* is represented by the set of the types.  So are the labels: the label   *)
(* of type t is {t}, the label "mcvlan,bridge" is {mcvlan, bridge}.  This  *)
(* takes type names to contain no comma and none to be "any".              *)
(***************************************************************************)
EXTENDS Integers, FiniteSets

CONSTANTS Pods,         \* keys "namespace/name"
          NoPod,        \* the key while updateMetrics does not run
          Types,        \* CNI types found in network attachment definitions
          TrackedTypes, \* "sriov" and "ib-sriov": types with an "up" gauge
          AnyLabel       \* the label "any"

ASSUME FinitenessAssumption == IsFiniteSet(Pods)
ASSUME NamesAssumption ==
  /\ NoPod \notin Pods
  /\ TrackedTypes \subseteq Types
  /\ \A S \in SUBSET Types : S # AnyLabel

VARIABLES objStore, \* the types last recorded for each pod, {} for no entry
          gauge,    \* network_attachment_definition_instances
          count,    \* netAttachDefInstance[Sriov|IBSriov]EnabledCount
          up,       \* network_attachment_definition_enabled_instance_up
          unset,    \* the tracked label whose "up" is still to be set
          pc,       \* where updateMetrics is
          key,      \* its arguments: the pod,
          action,   \* and Add or Delete
          todo,     \* labels still to be decremented or incremented
          types     \* configTypes: what the pod's annotation stands for now

gauges == <<gauge, count, up, unset>>
metricVars == <<objStore, gauges, pc, key, action, todo, types>>
args == <<key, action>>

Actions == {"Add", "Delete"}
Labels  == {AnyLabel} \cup ((SUBSET Types) \ {{}})
Tracked == {{t} : t \in TrackedTypes} \cup {AnyLabel}

\* The labels a pod with types S is counted under: each type, their
\* combination (the same label when there is one type), and "any".
LabelsOf(S) == IF S = {} THEN {} ELSE {{t} : t \in S} \cup {S, AnyLabel}

MetricsTypeOK ==
  /\ objStore \in [Pods -> SUBSET Types]
  /\ gauge \in [Labels -> Int]
  /\ count \in [Tracked -> Int]
  /\ up \in [Tracked -> {0, 1}]
  /\ unset \subseteq Tracked
  /\ pc \in {"idle", "dec", "resolve", "inc", "any", "done", "failed"}
  /\ key \in Pods \cup {NoPod}
  /\ action \in Actions
  /\ todo \subseteq Labels
  /\ types \subseteq Types

\* InitMetrics: every tracked label is shown, as 0.
MetricsInit ==
  /\ objStore = [k \in Pods |-> {}]
  /\ gauge = [l \in Labels |-> 0]
  /\ count = [l \in Tracked |-> 0]
  /\ up = [l \in Tracked |-> 0]
  /\ unset = {}
  /\ pc = "idle"
  /\ key = NoPod
  /\ action = "Add"
  /\ todo = {}
  /\ types = {}

\* UpdateNetAttachDefInstanceMetrics(l, val), up to where it sets "up" of a
\* tracked label.
UpdateInstances(l, val) ==
  /\ unset = {}
  /\ gauge' = [gauge EXCEPT ![l] = @ + val]
  /\ count' = [m \in Tracked |-> IF m = l THEN count[m] + val ELSE count[m]]
  /\ unset' = {l} \cap Tracked
  /\ UNCHANGED up

\* The labels that may come next: the single types in any order (Add follows
\* the order of a Go map), then the combination, then "any".
Leading(T) ==
  LET single == {l \in T : \E t \in Types : l = {t}}
  IN  IF single # {} THEN single ELSE IF T = {AnyLabel} THEN T ELSE T \ {AnyLabel}

-----------------------------------------------------------------------------

\* Mutant of Begin: an update of a pod that is recorded does not clean up.
BeginWithoutCleanup(k, a) ==
  /\ pc = "idle"
  /\ key' = k /\ action' = a
  /\ todo' = IF a = "Add" THEN {} ELSE LabelsOf(objStore[k])
  /\ pc' = IF a = "Add" THEN "resolve"
           ELSE IF objStore[k] # {} THEN "dec" ELSE "done"
  /\ UNCHANGED <<objStore, gauges, types>>

\* updateMetrics is called; what was recorded for the pod is removed first.
Begin(k, a) ==
  /\ pc = "idle"
  /\ key' = k /\ action' = a
  /\ todo' = LabelsOf(objStore[k])
  /\ pc' = IF objStore[k] # {} THEN "dec"
           ELSE IF a = "Add" THEN "resolve" ELSE "done"
  /\ UNCHANGED <<objStore, gauges, types>>

Decrement(l) ==
  /\ pc = "dec"
  /\ l \in Leading(todo)
  /\ UpdateInstances(l, -1)
  /\ todo' = todo \ {l}
  /\ UNCHANGED <<objStore, pc, args, types>>

\* Mutant of SetEnabledInstanceUp: "up" is set when the first instance comes
\* and not taken back when the last one goes.
SetEnabledInstanceUpOnce(l) ==
  /\ l \in unset
  /\ up' = [up EXCEPT ![l] = IF count[l] > 0 THEN 1 ELSE @]
  /\ unset' = {}
  /\ UNCHANGED <<objStore, gauge, count, pc, args, todo, types>>

\* The end of UpdateNetAttachDefInstanceMetrics for a tracked label: "up" is set
\* by the counter.
SetEnabledInstanceUp(l) ==
  /\ l \in unset
  /\ up' = [up EXCEPT ![l] = IF count[l] > 0 THEN 1 ELSE 0]
  /\ unset' = {}
  /\ UNCHANGED <<objStore, gauge, count, pc, args, todo, types>>

\* SetStoredValue(key, "").
Erase ==
  /\ pc = "dec" /\ todo = {} /\ unset = {}
  /\ objStore' = [objStore EXCEPT ![key] = {}]
  /\ pc' = IF action = "Add" THEN "resolve" ELSE "done"
  /\ UNCHANGED <<gauges, args, todo, types>>

\* parsePodNetworkAnnotation fails: nothing is recorded for the pod.
ParseFails ==
  /\ pc = "resolve"
  /\ pc' = "failed"
  /\ UNCHANGED <<objStore, gauges, args, todo, types>>

\* The definitions the annotation names have been looked up and have the types
\* S; none of them, if no definition was found or no type in it.
Resolve(S) ==
  /\ pc = "resolve"
  /\ types' = S
  /\ todo' = LabelsOf(S)
  /\ pc' = IF S # {} THEN "inc" ELSE "done"
  /\ UNCHANGED <<objStore, gauges, args>>

Increment(l) ==
  /\ pc = "inc"
  /\ l \in Leading(todo) \ {AnyLabel}
  /\ UpdateInstances(l, 1)
  /\ todo' = todo \ {l}
  /\ UNCHANGED <<objStore, pc, args, types>>

\* SetStoredValue(key, joinedTypes), before "any" is incremented.
Store ==
  /\ pc = "inc" /\ todo = {AnyLabel} /\ unset = {}
  /\ objStore' = [objStore EXCEPT ![key] = types]
  /\ pc' = "any"
  /\ UNCHANGED <<gauges, args, todo, types>>

IncrementAny ==
  /\ pc = "any"
  /\ UpdateInstances(AnyLabel, 1)
  /\ todo' = {}
  /\ pc' = "done"
  /\ UNCHANGED <<objStore, args, types>>

Return ==
  /\ pc \in {"done", "failed"} /\ unset = {}
  /\ pc' = "idle"
  /\ key' = NoPod
  /\ types' = {}
  /\ UNCHANGED <<objStore, gauges, action, todo>>

Step ==
  \/ \E l \in Labels : Decrement(l) \/ Increment(l)
  \/ \E l \in Tracked : SetEnabledInstanceUp(l)
  \/ Erase \/ Store \/ IncrementAny

MetricsNext ==
  \/ \E k \in Pods, a \in Actions : Begin(k, a)
  \/ ParseFails
  \/ \E S \in SUBSET Types : Resolve(S)
  \/ Step
  \/ Return

MetricsSpec == MetricsInit /\ [][MetricsNext]_metricVars

-----------------------------------------------------------------------------
(* Properties.                                                             *)

\* The labels under which the pod being updated is counted at this moment.
Present ==
  CASE pc = "dec"           -> todo
    [] pc \in {"inc", "any"} -> LabelsOf(types) \ todo
    [] pc = "done" /\ types # {} -> LabelsOf(types)
    [] OTHER                -> {}

\* The pods, other than the one being updated, recorded under label l.
OthersCounted(l) == {k \in Pods \ {key} : l \in LabelsOf(objStore[k])}

\* No update is ever lost or made twice: at every step of updateMetrics the
\* gauge of a label is the number of pods recorded under it, and the pod being
\* updated counts exactly for the labels that were not yet taken off it or
\* that it was already given.
GaugesCountPods ==
  \A l \in Labels :
     gauge[l] = Cardinality(OthersCounted(l)) + (IF l \in Present THEN 1 ELSE 0)

\* The tracked labels whose "up" gauge does not show whether pods are counted.
UpLags == {l \in Tracked : up[l] # (IF gauge[l] > 0 THEN 1 ELSE 0)}

\* The "up" gauges follow the counters, the counters the gauges, and the gauges
\* are never negative.  The "up" gauge of a label is set after the gauge of that
\* label, so in between they may disagree, but of one label at a time, only as
\* its first pod comes or its last one goes, and never between two calls.
UpMeansSome ==
  /\ \A l \in Labels : gauge[l] >= 0
  /\ \A l \in UpLags : UpLags = {l} /\ gauge[l] <= 1
  /\ pc = "idle" => UpLags = {}

=============================================================================
