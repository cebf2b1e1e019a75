-------------------------- MODULE ControllerProofs --------------------------
(***************************************************************************)
(* Theorems about Controller.  The controller uses its three parts as they *)
(* are specified, so what PodInformerProofs, WorkQueueProofs and           *)
(* PodMetricsProofs say of each holds of the composition.                  *)
(***************************************************************************)
EXTENDS Controller, PodMetricsProofs

InformerP == INSTANCE PodInformerProofs
QueueP == INSTANCE WorkQueueProofs WITH
            Items <- Pods, Workers <- {Worker}, NoItem <- NoPod, MaxFailures <- MaxRetries

-----------------------------------------------------------------------------
(* The instances.                                                          *)

\* What the instances assume of their constants follows from what the
\* controller assumes.
LEMMA InformerAssumes ==
  /\ InformerP!IsFiniteSet(Pods)
  /\ NoAnnotation \in Annotations
  /\ MaxChanges \in Nat
  /\ Absent \notin InformerP!Objects
BY FinitenessAssumption, InformerAssumption, BoundsAssumption
   DEF InformerP!IsFiniteSet, IsFiniteSet, InformerP!Objects, Informer!Objects

\* So does what WorkQueueProofs assumes.
LEMMA QueueAssumes ==
  /\ NoPod \notin Pods
  /\ QueueP!IsFiniteSet({Worker})
  /\ ChanCapacity \in Nat /\ MaxRetries \in Nat
<1>1. IsFiniteSet({Worker})
  BY FS_Singleton
<1> QED  BY <1>1, BoundsAssumption, NamesAssumption DEF QueueP!IsFiniteSet, IsFiniteSet

\* The informer of the controller is the one the theorems are about.
LEMMA SameInformer ==
  /\ Informer!TypeOK <=> InformerP!TypeOK
  /\ \A o : Informer!Annotated(o) <=> InformerP!Annotated(o)
  /\ Informer!Init <=> InformerP!Init
  /\ Informer!ClusterStep <=> InformerP!ClusterStep
  /\ Informer!Relist <=> InformerP!Relist
  /\ Informer!Resync <=> InformerP!Resync
  /\ Informer!ProcessDelta <=> InformerP!ProcessDelta
  /\ Informer!Notify <=> InformerP!Notify
BY DEF Informer!TypeOK, InformerP!TypeOK, Informer!Annotated, InformerP!Annotated,
       Informer!Objects, InformerP!Objects, Informer!Deltas, InformerP!Deltas,
       Informer!Notices, InformerP!Notices, Informer!Init, InformerP!Init,
       Informer!ClusterStep, InformerP!ClusterStep, Informer!CreatePod, InformerP!CreatePod,
       Informer!UpdatePod, InformerP!UpdatePod, Informer!DeletePod, InformerP!DeletePod,
       Informer!RemovePod, InformerP!RemovePod, Informer!Change, InformerP!Change,
       Informer!Relist, InformerP!Relist, Informer!Resync, InformerP!Resync,
       Informer!ProcessDelta, InformerP!ProcessDelta, Informer!Notify, InformerP!Notify,
       Informer!Notice, InformerP!Notice, Informer!store, InformerP!store,
       Informer!Snapshots, InformerP!Snapshots, Informer!Tombstones, InformerP!Tombstones,
       Informer!Upserts, InformerP!Upserts, Informer!Gone, InformerP!Gone,
       Informer!MayLinger, InformerP!MayLinger, Informer!KnownKeys, InformerP!KnownKeys,
       Informer!KeysInQueue, InformerP!KeysInQueue,
       Informer!Here, InformerP!Here, Informer!View, InformerP!View,
       Informer!Outcome, InformerP!Outcome, Informer!Upsert, InformerP!Upsert,
       Informer!Deleted, InformerP!Deleted, Informer!Tombstone, InformerP!Tombstone,
       Informer!SetToSeqs, InformerP!SetToSeqs, Informer!Max, InformerP!Max,
       Informer!Cardinality, InformerP!Cardinality

\* So is its queue.
LEMMA SameQueue ==
  /\ Queue!TypeOK <=> QueueP!TypeOK
  /\ Queue!Init <=> QueueP!Init
  /\ [Queue!Next]_Queue!vars <=> [QueueP!Next]_QueueP!vars
BY DEF Queue!TypeOK, QueueP!TypeOK, Queue!Init, QueueP!Init, Queue!States, QueueP!States,
       Queue!Next, QueueP!Next, Queue!vars, QueueP!vars, Queue!Add, QueueP!Add,
       Queue!DelayExpires, QueueP!DelayExpires, Queue!WorkerStep, QueueP!WorkerStep,
       Queue!AddRateLimited, QueueP!AddRateLimited, Queue!Forget, QueueP!Forget,
       Queue!Done, QueueP!Done, Queue!ReceiveDelayed, QueueP!ReceiveDelayed,
       Queue!ShutDown, QueueP!ShutDown, Queue!GetItem, QueueP!GetItem,
       Queue!GetSleeps, QueueP!GetSleeps, Queue!GetReturnsShutdown, QueueP!GetReturnsShutdown,
       Queue!Enqueue, QueueP!Enqueue, Queue!Signalled, QueueP!Signalled,
       Queue!Asleep, QueueP!Asleep, Queue!MakeReady, QueueP!MakeReady,
       Queue!orderVars, QueueP!orderVars, Queue!delayVars, QueueP!delayVars,
       Queue!controlVars, QueueP!controlVars

-----------------------------------------------------------------------------
(* The inductive invariant of the composition.                             *)

Busy == worker[Worker] = "busy"

\* The worker updates the metrics of the key it took from the queue, and is
\* done with it once.
AtWork ==
  /\ ~shuttingDown
  /\ pc # "idle" => Busy /\ item[Worker] = key /\ ~handled
  /\ handled => Busy

\* What the variables of the controller itself hold.
OwnTypes ==
  /\ nads \in [Nads -> NadConfigs \cup {NoNad}]
  /\ held \in [Nads -> SUBSET Types]
  /\ wanted \in {Malformed} \cup SUBSET Nads
  /\ found \subseteq Types
  /\ handled \in BOOLEAN

\* Each part keeps its own invariant.
Parts == InformerP!IInv /\ QueueP!IInv /\ IInv /\ OwnTypes /\ AtWork

\* With one worker: what is being processed is the key it holds.
LEMMA WorkerHolds ==
  ASSUME QueueP!IInv
  PROVE  /\ worker \in [{Worker} -> {"ready", "asleep", "busy", "gone"}]
         /\ item \in [{Worker} -> Pods \cup {NoPod}]
         /\ processing = IF Busy THEN {item[Worker]} ELSE {}
         /\ Busy => item[Worker] \in Pods
<1>1. /\ worker \in [{Worker} -> {"ready", "asleep", "busy", "gone"}]
      /\ item \in [{Worker} -> Pods \cup {NoPod}]
  BY DEF QueueP!IInv, QueueP!TypeOK, QueueP!States
<1>2. /\ processing = {item[w] : w \in {v \in {Worker} : worker[v] = "busy"}}
      /\ worker[Worker] = "busy" <=> item[Worker] # NoPod
  BY DEF QueueP!IInv, QueueP!ExclusiveProcessing
<1>3. processing = IF Busy THEN {item[Worker]} ELSE {}
  BY <1>2 DEF Busy
<1> QED  BY <1>1, <1>2, <1>3 DEF Busy

\* A notification's key is one of a pod, its objects are what they are.
LEMMA NoticeTypes ==
  ASSUME InformerP!IInv, notifications # << >>
  PROVE  /\ notifications \in Seq(InformerP!Notices)
         /\ Head(notifications) \in InformerP!Notices /\ Head(notifications).key \in Pods
<1>1. notifications \in Seq(InformerP!Notices)
  BY DEF InformerP!IInv, InformerP!TypeOK
<1>2. Head(notifications) \in InformerP!Notices
  BY <1>1
<1> QED  BY <1>1, <1>2 DEF InformerP!Notices

\* Every step is one of the informer, or a change of a definition, or none of
\* the informer's business.
LEMMA InformerPart ==
  ASSUME InformerP!IInv, [Next]_vars
  PROVE  InformerP!IInv'
<1>1. CASE ChangePod
  BY <1>1, SameInformer, InformerAssumes, InformerP!ClusterStepKeepsIInv DEF ChangePod
<1>2. CASE InformerStep
  BY <1>2, SameInformer, InformerAssumes, InformerP!RelistKeepsIInv,
     InformerP!ResyncKeepsIInv, InformerP!ProcessDeltaKeepsIInv DEF InformerStep
<1>3. CASE HandleEvent
  <2>1. InformerP!Notify
    BY <1>3, SameInformer DEF HandleEvent
  <2> QED  BY <2>1, InformerAssumes, InformerP!NextKeepsIInv DEF InformerP!Next
<1>4. ASSUME NEW n \in Nads, ChangeNad(n)  PROVE InformerP!IInv'
  <2>1. /\ changes \in Nat /\ changes' = changes + 1 /\ changes < MaxChanges
        /\ UNCHANGED <<pods, deltas, initial, indexer, notifications>>
    BY <1>4, BoundsAssumption DEF ChangeNad, InformerP!IInv, InformerP!TypeOK
  <2>2. changes' \in 0 .. MaxChanges /\ changes' >= changes
    BY <2>1, BoundsAssumption
  <2>3. notifications' \in Seq(InformerP!Notices)
    BY <2>1 DEF InformerP!IInv, InformerP!TypeOK
  <2> QED  BY <2>1, <2>2, <2>3, InformerAssumes, InformerP!OthersKeepIInv
<1>5. CASE UNCHANGED informerVars
  <2>1. UNCHANGED InformerP!vars
    BY <1>5 DEF informerVars, InformerP!vars
  <2> QED  BY <2>1, InformerAssumes, InformerP!NextKeepsIInv
<1> QED
  BY <1>1, <1>2, <1>3, <1>4, <1>5
     DEF Next, WorkerStep, WaitingLoop, GetKey, AwaitKey, ProcessItem, UpdateGauges,
         ParseAnnotationFails, LookupNad, AllLookedUp, HandleErr, DoneKey, vars

\* Every step is one of the queue, or leaves it alone.
LEMMA QueuePart ==
  ASSUME InformerP!IInv, [Next]_vars
  PROVE  [Queue!Next]_Queue!vars
<1>1. CASE UNCHANGED queueVars
  BY <1>1 DEF queueVars, Queue!vars
<1>2. CASE HandleEvent
  <2>1. CASE Enqueues(Head(notifications))
    <3>1. Queue!Add(Head(notifications).key)
      BY <1>2, <2>1 DEF HandleEvent
    <3>2. Head(notifications).key \in Pods
      BY <1>2, NoticeTypes DEF HandleEvent, Informer!Notify
    <3> QED  BY <3>1, <3>2 DEF Queue!Next
  <2>2. CASE ~Enqueues(Head(notifications))
    BY <1>1, <1>2, <2>2 DEF HandleEvent
  <2> QED  BY <2>1, <2>2
<1>3. CASE GetKey \/ AwaitKey
  BY <1>3 DEF GetKey, AwaitKey, Queue!Next, Queue!WorkerStep
<1>4. CASE HandleErr
  BY <1>4 DEF HandleErr, Succeeded, Retry, GiveUp, Queue!Next
<1>5. CASE DoneKey
  BY <1>5 DEF DoneKey, Queue!Next
<1>6. CASE WaitingLoop
  BY <1>6 DEF WaitingLoop, Queue!Next
<1> QED
  BY <1>1, <1>2, <1>3, <1>4, <1>5, <1>6
     DEF Next, WorkerStep, ChangePod, ChangeNad, InformerStep, ProcessItem, UpdateGauges,
         ParseAnnotationFails, LookupNad, AllLookedUp, vars

\* Every step is one of updateMetrics, or leaves the metrics alone.
LEMMA MetricsPart ==
  ASSUME QueueP!IInv, OwnTypes, [Next]_vars
  PROVE  [MetricsNext]_metricVars
<1>1. CASE UNCHANGED metricVars
  BY <1>1
<1>2. CASE ProcessItem
  <2>1. item[Worker] \in Pods
    BY <1>2, WorkerHolds DEF ProcessItem, Busy
  <2> QED  BY <1>2, <2>1 DEF ProcessItem, MetricsNext, Actions
<1>3. CASE UpdateGauges
  BY <1>3 DEF UpdateGauges, MetricsNext
<1>4. CASE ParseAnnotationFails
  BY <1>4 DEF ParseAnnotationFails, MetricsNext
<1>5. CASE AllLookedUp
  BY <1>5 DEF AllLookedUp, MetricsNext, OwnTypes
<1>6. CASE HandleErr
  BY <1>6 DEF HandleErr, MetricsNext
<1> QED
  BY <1>1, <1>2, <1>3, <1>4, <1>5, <1>6
     DEF Next, WorkerStep, ChangePod, ChangeNad, InformerStep, HandleEvent, WaitingLoop,
         GetKey, AwaitKey, LookupNad, DoneKey, vars

\* Keys that are added, by handlers or by the waitingLoop, disturb no worker
\* that is busy and clear no mark.
LEMMA AddingSparesWorker ==
  ASSUME QueueP!IInv,
         (\E k \in Pods : Queue!Add(k)) \/ WaitingLoop
  PROVE  /\ Busy' <=> Busy
         /\ item' = item /\ processing' = processing /\ shuttingDown' = shuttingDown
         /\ dirty \subseteq dirty'
<1>1. worker \in [{Worker} -> {"ready", "asleep", "busy", "gone"}]
  BY WorkerHolds
<1>2. ASSUME NEW k, Queue!Enqueue(k)
      PROVE  (Busy' <=> Busy) /\ dirty \subseteq dirty'
  <2>1. CASE UNCHANGED worker
    BY <1>2, <2>1 DEF Busy, Queue!Enqueue
  <2>2. ASSUME NEW W \in Queue!Signalled, worker' = Queue!MakeReady(W)
        PROVE  Busy' <=> Busy
    <3>1. Worker \in W => worker[Worker] = "asleep"
      BY DEF Queue!Signalled, Queue!Asleep
    <3>2. worker'[Worker] = IF Worker \in W THEN "ready" ELSE worker[Worker]
      BY <2>2 DEF Queue!MakeReady
    <3> QED  BY <3>1, <3>2 DEF Busy
  <2> QED  BY <1>2, <2>1, <2>2 DEF Queue!Enqueue
<1>3. ASSUME NEW k \in Pods, Queue!Add(k)
      PROVE  /\ Busy' <=> Busy
             /\ item' = item /\ processing' = processing /\ shuttingDown' = shuttingDown
             /\ dirty \subseteq dirty'
  <2>1. Queue!Enqueue(k) /\ UNCHANGED <<item, processing, shuttingDown>>
    BY <1>3 DEF Queue!Add, Queue!controlVars
  <2> QED  BY <1>2, <2>1
<1>4. CASE Queue!ReceiveDelayed
  <2>1. UNCHANGED <<item, processing, shuttingDown>>
    BY <1>4 DEF Queue!ReceiveDelayed, Queue!controlVars
  <2>2. CASE Queue!Enqueue(Head(addCh))
    BY <1>2, <2>1, <2>2
  <2>3. CASE UNCHANGED <<queue, dirty, worker>>
    BY <2>1, <2>3 DEF Busy
  <2> QED  BY <1>4, <2>2, <2>3 DEF Queue!ReceiveDelayed
<1>5. ASSUME NEW k \in Pods, Queue!DelayExpires(k)
      PROVE  /\ Busy' <=> Busy
             /\ item' = item /\ processing' = processing /\ shuttingDown' = shuttingDown
             /\ dirty \subseteq dirty'
  <2>1. Queue!Enqueue(k) /\ UNCHANGED <<item, processing, shuttingDown>>
    BY <1>5 DEF Queue!DelayExpires, Queue!controlVars
  <2> QED  BY <1>2, <2>1
<1> QED  BY <1>3, <1>4, <1>5 DEF WaitingLoop

\* Each step of the worker finds it where the one before it left off.
LEMMA AtWorkKept ==
  ASSUME Parts, [Next]_vars
  PROVE  AtWork'
<1>1. /\ worker \in [{Worker} -> {"ready", "asleep", "busy", "gone"}]
      /\ item \in [{Worker} -> Pods \cup {NoPod}]
      /\ handled \in BOOLEAN
  BY WorkerHolds DEF Parts, OwnTypes
<1>2. CASE UNCHANGED <<queueVars, pc, key, handled>>
  BY <1>2 DEF Parts, AtWork, Busy, queueVars
<1>3. CASE HandleEvent
  <2>1. UNCHANGED <<pc, key, handled>>
    BY <1>3 DEF HandleEvent, metricVars
  <2>2. CASE UNCHANGED queueVars
    BY <1>2, <2>1, <2>2
  <2>3. CASE Queue!Add(Head(notifications).key)
    <3>1. Head(notifications).key \in Pods
      BY <1>3, NoticeTypes DEF Parts, HandleEvent, Informer!Notify
    <3>2. (Busy' <=> Busy) /\ item' = item /\ shuttingDown' = shuttingDown
      BY <2>3, <3>1, AddingSparesWorker DEF Parts
    <3> QED  BY <2>1, <3>2 DEF Parts, AtWork
  <2> QED  BY <1>3, <2>2, <2>3 DEF HandleEvent
<1>4. CASE WaitingLoop
  <2>1. (Busy' <=> Busy) /\ item' = item /\ shuttingDown' = shuttingDown
    BY <1>4, AddingSparesWorker DEF Parts
  <2>2. UNCHANGED <<pc, key, handled>>
    BY <1>4 DEF WaitingLoop, metricVars
  <2> QED  BY <2>1, <2>2 DEF Parts, AtWork
<1>5. CASE GetKey
  <2>1. /\ ~Busy /\ Busy'
        /\ UNCHANGED <<shuttingDown, pc, key, handled>>
    BY <1>1, <1>5 DEF GetKey, Queue!GetItem, Busy, metricVars
  <2> QED  BY <2>1 DEF Parts, AtWork
<1>6. CASE AwaitKey
  <2>1. /\ ~Busy
        /\ UNCHANGED <<shuttingDown, pc, key, handled>>
    BY <1>1, <1>6 DEF AwaitKey, Queue!GetSleeps, Queue!controlVars, Busy, metricVars
  <2> QED  BY <2>1 DEF Parts, AtWork
<1>7. CASE ProcessItem
  BY <1>7 DEF Parts, AtWork, ProcessItem, Begin, Busy, queueVars
<1>8. CASE UpdateGauges \/ ParseAnnotationFails \/ AllLookedUp
  <2>1. pc = "idle" => unset = {}
    BY DEF Parts, IInv, InStep
  <2>2. pc # "idle" /\ UNCHANGED <<queueVars, key, handled>>
    BY <1>8, <2>1
       DEF UpdateGauges, Step, Decrement, Increment, Erase, Store, IncrementAny,
           ParseAnnotationFails, ParseFails, AllLookedUp, Resolve, SetEnabledInstanceUp, args
  <2> QED  BY <2>2 DEF Parts, AtWork, Busy, queueVars
<1>9. CASE HandleErr
  <2>1. /\ pc # "idle" /\ pc' = "idle" /\ handled'
        /\ UNCHANGED <<worker, item, shuttingDown>>
    BY <1>9 DEF HandleErr, Return, Succeeded, Retry, GiveUp, Queue!Forget,
       Queue!AddRateLimited, Queue!controlVars
  <2> QED  BY <2>1 DEF Parts, AtWork, Busy
<1>10. CASE DoneKey
  <2>1. /\ handled /\ ~handled'
        /\ UNCHANGED <<pc, shuttingDown>>
    BY <1>10 DEF DoneKey, Queue!Done, metricVars
  <2> QED  BY <2>1 DEF Parts, AtWork
<1>11. ASSUME ChangePod \/ InformerStep \/ (\E n \in Nads : ChangeNad(n) \/ LookupNad(n))
       PROVE  UNCHANGED <<queueVars, pc, key, handled>>
  BY <1>11 DEF ChangePod, InformerStep, ChangeNad, LookupNad, metricVars
<1>12. CASE UNCHANGED vars
  BY <1>2, <1>12 DEF vars, metricVars
<1> QED
  BY <1>2, <1>3, <1>4, <1>5, <1>6, <1>7, <1>8, <1>9, <1>10, <1>11, <1>12
     DEF Next, WorkerStep

\* Lookups keep the types of the controller's own variables.
LEMMA OwnTypesKept ==
  ASSUME Parts, [Next]_vars
  PROVE  OwnTypes'
<1>1. OwnTypes
  BY DEF Parts
<1>2. CASE UNCHANGED <<nadVars, lookupVars, handled>>
  BY <1>1, <1>2 DEF OwnTypes, nadVars, lookupVars
<1>3. ASSUME NEW n \in Nads, ChangeNad(n)  PROVE OwnTypes'
  <2>1. PICK c \in NadConfigs \cup {NoNad} :
          /\ nads' = [nads EXCEPT ![n] = c]
          /\ held' = [held EXCEPT ![n] = @ \cup TypesIn(c)]
    BY <1>3 DEF ChangeNad
  <2>2. TypesIn(c) \subseteq Types
    BY AnnotationsAssumption DEF TypesIn
  <2>3. UNCHANGED <<wanted, found, handled>>
    BY <1>3 DEF ChangeNad, lookupVars
  <2> QED  BY <1>1, <2>1, <2>2, <2>3 DEF OwnTypes
<1>4. CASE ProcessItem
  <2>1. UNCHANGED <<nads, held, found, handled>>
    BY <1>4 DEF ProcessItem, nadVars
  <2>2. wanted' \in {Malformed} \cup SUBSET Nads
    <3> DEFINE o == indexer[item[Worker]]
    <3>1. CASE o # Absent /\ Informer!Annotated(o)
      <4>1. item[Worker] \in Pods
        BY <1>4, WorkerHolds DEF Parts, ProcessItem, Busy
      <4>2. o \in InformerP!Objects
        BY <3>1, <4>1 DEF Parts, InformerP!IInv, InformerP!TypeOK
      <4>3. o.annotation \in Annotations /\ o.annotation # NoAnnotation
        BY <3>1, <4>2 DEF InformerP!Objects, Informer!Annotated
      <4>4. wanted' = o.annotation
        BY <1>4, <3>1 DEF ProcessItem
      <4> QED  BY <4>3, <4>4, AnnotationsAssumption
    <3>2. CASE ~(o # Absent /\ Informer!Annotated(o))
      BY <1>1, <1>4, <3>2 DEF ProcessItem, OwnTypes
    <3> QED  BY <3>1, <3>2
  <2> QED  BY <1>1, <2>1, <2>2 DEF OwnTypes
<1>5. CASE ParseAnnotationFails
  BY <1>1, <1>5 DEF OwnTypes, ParseAnnotationFails, nadVars
<1>6. ASSUME NEW n \in Nads, LookupNad(n)  PROVE OwnTypes'
  <2>1. UNCHANGED <<nads, held, handled>> /\ wanted' = wanted \ {n} /\ wanted # Malformed
    BY <1>6 DEF LookupNad, nadVars
  <2>2. found' \subseteq Types
    <3>1. TypesIn(nads[n]) \subseteq Types
      BY <1>1, AnnotationsAssumption DEF OwnTypes, TypesIn
    <3> QED  BY <1>1, <1>6, <3>1 DEF LookupNad, OwnTypes
  <2> QED  BY <1>1, <2>1, <2>2 DEF OwnTypes
<1>7. CASE AllLookedUp
  BY <1>1, <1>7 DEF OwnTypes, AllLookedUp, nadVars
<1>8. CASE HandleErr \/ DoneKey
  BY <1>1, <1>8 DEF OwnTypes, HandleErr, DoneKey, nadVars, lookupVars
<1> QED
  BY <1>2, <1>3, <1>4, <1>5, <1>6, <1>7, <1>8
     DEF Next, WorkerStep, ChangePod, InformerStep, HandleEvent, GetKey, AwaitKey,
         UpdateGauges, WaitingLoop, vars

\* The parts are in their places at the start,
LEMMA InitEstablishesParts == Init => Parts
<1> SUFFICES ASSUME Init  PROVE Parts
  OBVIOUS
<1>1. InformerP!IInv
  BY SameInformer, InformerAssumes, InformerP!InitEstablishesIInv DEF Init
<1>2. QueueP!IInv
  BY SameQueue, QueueAssumes, QueueP!InitEstablishesIInv DEF Init
<1>3. IInv
  BY InitEstablishesIInv DEF Init
<1>4. OwnTypes /\ AtWork
  <2>1. \A c \in NadConfigs \cup {NoNad} : TypesIn(c) \subseteq Types
    BY AnnotationsAssumption DEF TypesIn
  <2> QED  BY <2>1 DEF Init, MetricsInit, Queue!Init, OwnTypes, AtWork
<1> QED  BY <1>1, <1>2, <1>3, <1>4 DEF Parts

\* every step keeps them there,
LEMMA NextKeepsParts == Parts /\ [Next]_vars => Parts'
<1> SUFFICES ASSUME Parts, [Next]_vars  PROVE Parts'
  OBVIOUS
<1>1. InformerP!IInv'
  BY InformerPart DEF Parts
<1>2. QueueP!IInv'
  <2>1. [QueueP!Next]_QueueP!vars
    BY QueuePart, SameQueue DEF Parts
  <2> QED  BY <2>1, QueueAssumes, QueueP!NextKeepsIInv DEF Parts
<1>3. IInv'
  BY MetricsPart, NextKeepsIInv DEF Parts
<1> QED  BY <1>1, <1>2, <1>3, OwnTypesKept, AtWorkKept DEF Parts

\* so they always are.
LEMMA PartsInvariant == Spec => []Parts
BY InitEstablishesParts, NextKeepsParts, PTL DEF Spec

\* Types.
THEOREM ControllerTypes == Spec => []TypeOK
<1>1. Parts => TypeOK
  BY SameInformer, SameQueue
     DEF Parts, TypeOK, InformerP!IInv, QueueP!IInv, IInv, OwnTypes
<1> QED  BY <1>1, PartsInvariant, PTL

\* The handlers, the worker and handleErr use the work queue by its methods
\* only, so that what is proved of WorkQueue holds in the controller.
LEMMA QueueIsUsedAsMeant == Spec => Queue!Spec
<1>1. Init => Queue!Init
  BY DEF Init
<1>2. Parts /\ [Next]_vars => [Queue!Next]_Queue!vars
  BY QueuePart DEF Parts
<1> QED  BY <1>1, <1>2, PartsInvariant, PTL DEF Spec, Queue!Spec

\* processItem calls updateMetrics for one pod at a time, and goes through it in
\* the order of PodMetrics.
LEMMA MetricsAreUsedAsMeant == Spec => MetricsSpec
<1>1. Init => MetricsInit
  BY DEF Init
<1>2. Parts /\ [Next]_vars => [MetricsNext]_metricVars
  BY MetricsPart DEF Parts
<1> QED  BY <1>1, <1>2, PartsInvariant, PTL DEF Spec, MetricsSpec

\* So every scrape of the controller's metrics, in any interleaving of events,
\* retries and resyncs, counts each pod once under each of its labels, and the
\* "up" gauges are behind by one label at most.
THEOREM ScrapesCountPods == Spec => [](GaugesCountPods /\ UpMeansSome)
BY MetricsAreUsedAsMeant, EveryPodCountsOnce, UpShowsUse, PTL

\* And the worker of the controller is one of MarkedWork's: a key that a handler or
\* a retry adds stays marked until the worker takes it up, also when it is added
\* while the worker has it.
THEOREM AddedKeysStayMarked == Spec => QueueP!ImplementsMarkedWork
<1>1. Queue!Spec => QueueP!Spec
  BY SameQueue, PTL DEF Queue!Spec, QueueP!Spec
<1>2. QueueP!Spec => QueueP!ImplementsMarkedWork
  BY QueueAssumes, QueueP!QueueKeepsPromise
<1> QED  BY <1>1, <1>2, QueueIsUsedAsMeant, PTL

=============================================================================
