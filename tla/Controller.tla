----------------------------- MODULE Controller -----------------------------
(***************************************************************************)
(* The controller of pkg/controller: event handlers that put pod keys on a *)
(* work queue, and one worker that looks a key up in the indexer, resolves *)
(* the networks of the pod and updates the metrics.  It composes           *)
(*   PodInformer   the cluster, the watch and the indexer,                 *)
(*   WorkQueue     the rate limiting queue,                                *)
(*   PodMetrics    updateMetrics and pkg/localmetrics.                     *)
(* Nothing is persisted: a restart is a new behaviour, from Init on the    *)
(* cluster of that moment.                                                 *)
(***************************************************************************)
EXTENDS PodMetrics, Sequences

CONSTANTS Nads,         \* names of network attachment definitions
          NoNad,        \* a name without a definition
          NadConfigs,   \* what getConfigTypes may find in one: sets of types
          Annotations, NoAnnotation,
          Malformed,    \* an annotation parsePodNetworkAnnotation rejects
          Absent, Disturbances, MaxChanges,
          Worker,       \* the goroutine of wait.Until(c.runWorker)
          MaxRetries,   \* maxRetries, 5 in the code
          ChanCapacity

\* An annotation that is neither missing nor malformed selects definitions.
ASSUME AnnotationsAssumption ==
  /\ Annotations \subseteq {NoAnnotation, Malformed} \cup SUBSET Nads
  /\ NadConfigs \subseteq SUBSET Types
  /\ \A S \in SUBSET Types : S # NoNad
  /\ \A S \in SUBSET Nads : S # Malformed /\ S # NoAnnotation

ASSUME BoundsAssumption ==
  MaxChanges \in Nat /\ MaxRetries \in Nat /\ ChanCapacity \in Nat

VARIABLES pods, changes, deltas, initial, indexer, notifications,
          queue, dirty, processing, shuttingDown, failures, addCh, waiting,
          worker, item,
          nads,     \* the definitions the API server holds
          held,     \* history: the types each of them has had; read by no action
          wanted,   \* what is left to resolve of the pod's annotation
          found,    \* the types found so far
          handled   \* TRUE between handleErr and queue.Done

informerVars == <<pods, changes, deltas, initial, indexer, notifications>>
queueVars == <<queue, dirty, processing, shuttingDown, failures, addCh,
               waiting, worker, item>>
nadVars == <<nads, held>>
lookupVars == <<wanted, found>>
vars == <<informerVars, queueVars, metricVars, nadVars, lookupVars, handled>>

Informer == INSTANCE PodInformer

\* What PodInformer assumes of its constants.
ASSUME InformerAssumption == NoAnnotation \in Annotations /\ Absent \notin Informer!Objects

Queue == INSTANCE WorkQueue WITH
           Items <- Pods, Workers <- {Worker}, NoItem <- NoPod, MaxFailures <- MaxRetries

TypeOK ==
  /\ Informer!TypeOK
  /\ Queue!TypeOK
  /\ MetricsTypeOK
  /\ nads \in [Nads -> NadConfigs \cup {NoNad}]
  /\ held \in [Nads -> SUBSET Types]
  /\ wanted \in {Malformed} \cup SUBSET Nads
  /\ found \subseteq Types
  /\ handled \in BOOLEAN

\* The types definition c contributes to the pods that name it.
TypesIn(c) == IF c = NoNad THEN {} ELSE c

Init ==
  /\ Informer!Init
  /\ Queue!Init
  /\ MetricsInit
  /\ nads \in [Nads -> NadConfigs \cup {NoNad}]
  /\ held = [n \in Nads |-> TypesIn(nads[n])]
  /\ wanted = {}
  /\ found = {}
  /\ handled = FALSE

-----------------------------------------------------------------------------
(* The cluster.                                                            *)

ChangePod ==
  /\ Informer!ClusterStep
  /\ UNCHANGED <<queueVars, metricVars, nadVars, lookupVars, handled>>

\* A definition is created, changed or deleted; the controller does not watch
\* definitions.
ChangeNad(n) ==
  /\ "NadChanges" \in Disturbances
  /\ changes < MaxChanges
  /\ changes' = changes + 1
  /\ \E c \in NadConfigs \cup {NoNad} :
       /\ nads' = [nads EXCEPT ![n] = c]
       /\ held' = [held EXCEPT ![n] = @ \cup TypesIn(c)]
  /\ UNCHANGED <<pods, deltas, initial, indexer, notifications,
                 queueVars, metricVars, lookupVars, handled>>

InformerStep ==
  /\ Informer!Relist \/ Informer!Resync \/ Informer!ProcessDelta
  /\ UNCHANGED <<queueVars, metricVars, nadVars, lookupVars, handled>>

-----------------------------------------------------------------------------
(* The event handlers of newResourceController.                            *)

AddFunc(new) == Informer!Annotated(new)

\* Mutant of UpdateFunc: an annotation that was removed goes unnoticed.
UpdateFuncMissesRemoval(old, new) ==
  ~new.deleting /\ old.version # new.version /\ Informer!Annotated(new)

\* Mutant of UpdateFunc: only annotations that come or go are noticed.
UpdateFuncMissesChange(old, new) ==
  /\ ~new.deleting /\ old.version # new.version
  /\ Informer!Annotated(new) # Informer!Annotated(old)

UpdateFunc(old, new) ==
  /\ ~new.deleting
  /\ old.version # new.version
  /\ Informer!Annotated(new) \/ Informer!Annotated(old)

\* Mutant of DeleteFunc: it ignores the pods that UpdateFunc ignores.
DeleteFuncSkipsDeleting(old) == ~old.deleting /\ Informer!Annotated(old)

\* The object is the pod's last state, or what a tombstone says it was.
DeleteFunc(old) == Informer!Annotated(old)

\* Mutant of Enqueues: DeleteFunc does not look into tombstones.
EnqueuesNoTombstone(m) ==
  CASE m.type = "OnAdd"       -> AddFunc(m.new)
    [] m.type = "OnUpdate"    -> UpdateFunc(m.old, m.new)
    [] m.type = "OnDelete"    -> DeleteFunc(m.old)
    [] m.type = "OnTombstone" -> FALSE

\* Whether the handler that is called with notification m adds the key.
Enqueues(m) ==
  CASE m.type = "OnAdd"    -> AddFunc(m.new)
    [] m.type = "OnUpdate" -> UpdateFunc(m.old, m.new)
    [] m.type \in {"OnDelete", "OnTombstone"} -> DeleteFunc(m.old)

HandleEvent ==
  /\ Informer!Notify
  /\ LET m == Head(notifications)
     IN  IF Enqueues(m) THEN Queue!Add(m.key) ELSE UNCHANGED queueVars
  /\ UNCHANGED <<metricVars, nadVars, lookupVars, handled>>

-----------------------------------------------------------------------------
(* The worker: processNextItem.                                            *)

\* Run starts the worker once the initial list has been processed.
GetKey ==
  /\ Informer!HasSynced
  /\ Queue!GetItem(Worker)
  /\ UNCHANGED <<informerVars, metricVars, nadVars, lookupVars, handled>>

AwaitKey ==
  /\ Informer!HasSynced
  /\ Queue!GetSleeps(Worker)
  /\ UNCHANGED <<informerVars, metricVars, nadVars, lookupVars, handled>>

\* Mutant of ProcessItem: a key without an object needs no work.
ProcessItemSkipsMissing ==
  /\ worker[Worker] = "busy" /\ ~handled /\ pc = "idle"
  /\ LET k == item[Worker]
         o == indexer[k]
     IN  IF o = Absent
         THEN handled' = TRUE /\ UNCHANGED <<metricVars, wanted>>
         ELSE /\ IF Informer!Annotated(o)
                 THEN Begin(k, "Add") /\ wanted' = o.annotation
                 ELSE Begin(k, "Delete") /\ UNCHANGED wanted
              /\ UNCHANGED handled
  /\ UNCHANGED <<informerVars, queueVars, nadVars, found>>

\* processItem: the indexer is read once, and updateMetrics called for what it
\* holds.  Every pod in view is Running.
ProcessItem ==
  /\ worker[Worker] = "busy" /\ ~handled
  /\ LET k == item[Worker]
         o == indexer[k]
     IN  IF o # Absent /\ Informer!Annotated(o)
         THEN Begin(k, "Add") /\ wanted' = o.annotation
         ELSE Begin(k, "Delete") /\ UNCHANGED wanted
  /\ UNCHANGED <<informerVars, queueVars, nadVars, found, handled>>

UpdateGauges ==
  /\ Step
  /\ UNCHANGED <<informerVars, queueVars, nadVars, lookupVars, handled>>

ParseAnnotationFails ==
  /\ wanted = Malformed
  /\ ParseFails
  /\ wanted' = {}
  /\ UNCHANGED <<informerVars, queueVars, nadVars, found, handled>>

\* Mutant of LookupNad: the definition is collected instead of its types.
LookupNadKeepsConfig(n) ==
  /\ pc = "resolve"
  /\ wanted # Malformed /\ n \in wanted
  /\ wanted' = wanted \ {n}
  /\ found' = IF nads[n] # NoNad THEN found \cup {nads[n]} ELSE found
  /\ UNCHANGED <<informerVars, queueVars, metricVars, nadVars, handled>>

\* getCrdByName asks the API server for one definition; an error, or no such
\* definition, contributes no type.
LookupNad(n) ==
  /\ pc = "resolve"
  /\ wanted # Malformed /\ n \in wanted
  /\ wanted' = wanted \ {n}
  /\ \/ found' = found \cup TypesIn(nads[n])
     \/ "LookupErrors" \in Disturbances /\ UNCHANGED found
  /\ UNCHANGED <<informerVars, queueVars, metricVars, nadVars, handled>>

AllLookedUp ==
  /\ wanted = {}
  /\ Resolve(found)
  /\ found' = {}
  /\ UNCHANGED <<informerVars, queueVars, nadVars, wanted, handled>>

\* handleErr.
Succeeded ==
  /\ pc = "done"
  /\ Queue!Forget(Worker)

Retry ==
  /\ pc = "failed"
  /\ failures[item[Worker]] < MaxRetries
  /\ Queue!AddRateLimited(Worker)

GiveUp ==
  /\ pc = "failed"
  /\ failures[item[Worker]] >= MaxRetries
  /\ Queue!Forget(Worker)

HandleErr ==
  /\ Succeeded \/ Retry \/ GiveUp
  /\ Return
  /\ handled' = TRUE
  /\ UNCHANGED <<informerVars, nadVars, lookupVars>>

\* Mutant of DoneKey: a key that will be retried is not given back.
DoneKeyIfSucceeded ==
  /\ handled /\ failures[item[Worker]] = 0
  /\ Queue!Done(Worker)
  /\ handled' = FALSE
  /\ UNCHANGED <<informerVars, metricVars, nadVars, lookupVars>>

\* The deferred queue.Done.
DoneKey ==
  /\ handled
  /\ Queue!Done(Worker)
  /\ handled' = FALSE
  /\ UNCHANGED <<informerVars, metricVars, nadVars, lookupVars>>

WaitingLoop ==
  /\ Queue!ReceiveDelayed \/ \E k \in Pods : Queue!DelayExpires(k)
  /\ UNCHANGED <<informerVars, metricVars, nadVars, lookupVars, handled>>

-----------------------------------------------------------------------------

WorkerStep ==
  \/ GetKey \/ AwaitKey \/ ProcessItem \/ UpdateGauges
  \/ ParseAnnotationFails \/ (\E n \in Nads : LookupNad(n)) \/ AllLookedUp
  \/ HandleErr \/ DoneKey

Next ==
  \/ ChangePod
  \/ \E n \in Nads : ChangeNad(n)
  \/ InformerStep
  \/ HandleEvent
  \/ WorkerStep
  \/ WaitingLoop

Spec == Init /\ [][Next]_vars

\* Goroutines run, delays pass, and a resync comes every period; the cluster
\* owes nothing.
FairSpec ==
  /\ Spec
  /\ WF_vars(InformerStep) /\ WF_vars(HandleEvent)
  /\ WF_vars(WorkerStep)
  /\ WF_vars(WaitingLoop)

-----------------------------------------------------------------------------
(* Properties.                                                             *)

\* The definitions named by pod k as it is now.
Named(k) ==
  IF pods[k] = Absent \/ pods[k].annotation \in {NoAnnotation, Malformed}
  THEN {} ELSE pods[k].annotation

\* The types of the networks pod k has now.
NetworkTypes(k) == UNION {TypesIn(nads[n]) : n \in Named(k)}

\* Pod k is known as it is: nothing of it is under way from the cluster to the
\* worker.
Settled(k) ==
  /\ ~\E n \in 1 .. Len(deltas) : deltas[n].key = k
  /\ ~\E n \in 1 .. Len(notifications) : notifications[n].key = k
  /\ ~\E n \in 1 .. Len(addCh) : addCh[n] = k
  /\ k \notin dirty \cup processing \cup waiting

\* docs/metrics.md: the pods are counted by the types of their networks.  No
\* interleaving of handlers, retries and lookups leaves a pod that is not on
\* its way to the worker recorded with other types than it has.
SettledPodsAreRight == \A k \in Pods : Settled(k) => objStore[k] = NetworkTypes(k)

\* The same, as it is scraped: when everything is settled, each gauge is the
\* number of pods in the cluster that have networks of its types.
GaugesCountCluster ==
  (\A k \in Pods : Settled(k)) =>
    \A l \in Labels :
       gauge[l] = Cardinality({k \in Pods : l \in LabelsOf(NetworkTypes(k))})

\* A pod that is gone, or has no networks any more, is not counted for ever.
NoLeak ==
  \A k \in Pods :
    Settled(k) /\ (pods[k] = Absent \/ pods[k].annotation = NoAnnotation)
      => objStore[k] = {}

\* A pod that has networks may be recorded with too few of their types, when
\* lookups fail, and with old ones, when definitions change.  But it comes to be
\* recorded with no type that none of its networks ever had: neither a network
\* it had before nor one of another pod lingers in its record.
RecordedTypesAreNamed ==
  \A k \in Pods :
    Settled(k) /\ pods[k] # Absent /\ pods[k].annotation # NoAnnotation
      => objStore[k] \subseteq UNION {held[n] : n \in Named(k)}

\* Once the cluster stops changing, its pods come to be recorded as they are,
\* and stay so.
EventuallyRight == <>[](\A k \in Pods : objStore[k] = NetworkTypes(k))

\* The comment on resyncPeriod (controller.go): the resync is "required to catch
\* any missed updates".  So a pod whose definitions could not be looked up the
\* first time comes to be recorded after a resync.
ResyncCatchesMissedUpdates ==
  \A k \in Pods : []<>(objStore[k] = NetworkTypes(k))

=============================================================================
