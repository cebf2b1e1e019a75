----------------------- MODULE ControllerRecordProofs -----------------------
(***************************************************************************)
(* Theorems about what the controller records of the pods.  The inductive  *)
(* invariant says of each pod that a change of it is on its way to the     *)
(* worker, or that the worker is at it and will record what the indexer    *)
(* calls for, or that this is recorded.  It holds of any annotations,      *)
(* definitions and lookups.  What a record calls for is types that the     *)
(* definitions of the annotation have had, and exactly the types they have *)
(* if definitions do not change and lookups do not fail.                   *)
(***************************************************************************)
EXTENDS ControllerProofs, SequenceTheorems

\* The informer tells of every change of an annotation: pods that are being
\* deleted keep theirs, and no list can show such a pod after an update that
\* was missed.
ChangesAreTold ==
  /\ "AnnotateDeleting" \notin Disturbances
  /\ ~({"GracePeriod", "Relist"} \subseteq Disturbances)

\* What the worker looks up for an annotation stays what it is.
Steady == {"LookupErrors", "NadChanges"} \cap Disturbances = {}

AnnotationOf(o) == IF o = Absent THEN NoAnnotation ELSE o.annotation

\* The definitions annotation a names.
NamedBy(a) == IF a \in {NoAnnotation, Malformed} THEN {} ELSE a

\* The types annotation a stands for under the definitions d, and those it has
\* stood for under what the definitions have held, h.
TypesOf(d, a) == UNION {TypesIn(d[n]) : n \in NamedBy(a)}
Had(h, a) == UNION {h[n] : n \in NamedBy(a)}

\* S may be recorded for annotation a.
Suits(S, d, h, a) ==
  /\ S \subseteq Had(h, a)
  /\ Steady => S = TypesOf(d, a)

\* What will be recorded by the update that is under way.
Goal ==
  CASE pc \in {"dec", "resolve"} -> IF action = "Delete" THEN {}
                                    ELSE found \cup TypesOf(nads, wanted)
    [] pc = "failed" -> {}
    [] OTHER         -> types

\* The update that is under way looks for nothing that a does not name.
LooksFor(a) ==
  /\ pc \in {"dec", "resolve"} /\ action = "Add" /\ wanted # Malformed
       => wanted \subseteq NamedBy(a) /\ found \subseteq Had(held, a)
  /\ pc \in {"inc", "any", "done"} => types \subseteq Had(held, a)

\* The update that is under way is the one annotation a calls for.
Answers(a) ==
  /\ LooksFor(a)
  /\ Steady => Goal = TypesOf(nads, a)

\* The handlers will be told something of key k that makes them enqueue it.
Noticed(s, k) == \E n \in 1 .. Len(s) : s[n].key = k /\ Enqueues(s[n])

\* The worker will read the indexer for key k.
Awaited(k) ==
  \/ k \in dirty
  \/ Noticed(notifications, k)
  \/ Busy /\ item[Worker] = k /\ ~handled /\ pc = "idle"

Followed(k) ==
  \/ Awaited(k)
  \/ pc # "idle" /\ key = k /\ Answers(AnnotationOf(indexer[k]))
  \/ ~(pc # "idle" /\ key = k) /\ Suits(objStore[k], nads, held, AnnotationOf(indexer[k]))

\* Where the lookup of updateMetrics is.
LookingUp ==
  /\ pc # "resolve" => found = {}
  /\ wanted = Malformed => found = {}
  /\ pc = "resolve" => action = "Add"
  /\ action = "Delete" => types = {}

\* The history knows of what the definitions hold now.
HeldIsUpToDate == \A n \in Nads : TypesIn(nads[n]) \subseteq held[n]

RecordInv == Parts /\ LookingUp /\ HeldIsUpToDate /\ \A k \in Pods : Followed(k)

-----------------------------------------------------------------------------
(* Annotations and definitions.                                            *)

\* What the indexer shows of a pod names definitions or nothing.
LEMMA AnnotationTypes ==
  ASSUME RecordInv, NEW k \in Pods
  PROVE  AnnotationOf(indexer[k]) \in {NoAnnotation, Malformed} \cup SUBSET Nads
<1>1. indexer[k] \in InformerP!Objects \cup {Absent}
  BY DEF RecordInv, Parts, InformerP!IInv, InformerP!TypeOK
<1> QED  BY <1>1, AnnotationsAssumption DEF AnnotationOf, InformerP!Objects

\* Definitions that are changed have had what they had.
LEMMA HadGrows ==
  ASSUME NEW a \in {NoAnnotation, Malformed} \cup SUBSET Nads,
         \A n \in Nads : held[n] \subseteq held'[n]
  PROVE  Had(held, a) \subseteq Had(held', a)
<1>1. NamedBy(a) \subseteq Nads
  BY DEF NamedBy
<1> QED  BY <1>1 DEF Had

\* A change of a definition is noted.
LEMMA HeldKept ==
  ASSUME RecordInv, [Next]_vars
  PROVE  HeldIsUpToDate' /\ \A n \in Nads : held[n] \subseteq held'[n]
<1>1. CASE UNCHANGED nadVars
  BY <1>1 DEF RecordInv, HeldIsUpToDate, nadVars
<1>2. ASSUME NEW n \in Nads, ChangeNad(n)
      PROVE  HeldIsUpToDate' /\ \A m \in Nads : held[m] \subseteq held'[m]
  <2>1. PICK c \in NadConfigs \cup {NoNad} :
          /\ nads' = [nads EXCEPT ![n] = c]
          /\ held' = [held EXCEPT ![n] = @ \cup TypesIn(c)]
    BY <1>2 DEF ChangeNad
  <2>2. /\ nads \in [Nads -> NadConfigs \cup {NoNad}] /\ held \in [Nads -> SUBSET Types]
        /\ HeldIsUpToDate
    BY DEF RecordInv, Parts, OwnTypes
  <2> QED  BY <2>1, <2>2 DEF HeldIsUpToDate
<1> QED
  BY <1>1, <1>2
     DEF Next, WorkerStep, ChangePod, InformerStep, HandleEvent, GetKey, AwaitKey, ProcessItem,
         UpdateGauges, ParseAnnotationFails, LookupNad, AllLookedUp, HandleErr, DoneKey,
         WaitingLoop, vars

-----------------------------------------------------------------------------
(* Notifications.                                                          *)

\* A notification at the end is one more that handlers will be told of,
LEMMA NoticedAppend ==
  ASSUME NEW s \in Seq(InformerP!Notices), NEW m \in InformerP!Notices, NEW k,
         Noticed(s, k) \/ (m.key = k /\ Enqueues(m))
  PROVE  Noticed(Append(s, m), k)
<1> DEFINE t == Append(s, m)
<1>1. /\ Len(t) = Len(s) + 1 /\ Len(s) \in Nat /\ t[Len(s) + 1] = m
      /\ \A n \in 1 .. Len(s) : t[n] = s[n]
  BY AppendProperties
<1> HIDE DEF t
<1>2. CASE Noticed(s, k)
  <2>1. PICK n \in 1 .. Len(s) : s[n].key = k /\ Enqueues(s[n])
    BY <1>2 DEF Noticed
  <2>2. n \in 1 .. Len(t) /\ t[n] = s[n]
    BY <1>1
  <2>3. Noticed(t, k)
    BY <2>1, <2>2 DEF Noticed
  <2> QED  BY <2>3 DEF t
<1>3. CASE m.key = k /\ Enqueues(m)
  <2>1. Len(s) + 1 \in 1 .. Len(t)
    BY <1>1
  <2>2. Noticed(t, k)
    BY <1>1, <1>3, <2>1 DEF Noticed
  <2> QED  BY <2>2 DEF t
<1> QED  BY <1>2, <1>3

\* and all but the first are left when that has been handled.
LEMMA NoticedTail ==
  ASSUME NEW s \in Seq(InformerP!Notices), s # << >>, NEW k, Noticed(s, k)
  PROVE  (Head(s).key = k /\ Enqueues(Head(s))) \/ Noticed(Tail(s), k)
<1> DEFINE t == Tail(s)
<1>1. /\ Len(t) = Len(s) - 1 /\ Len(s) \in Nat /\ Head(s) = s[1]
      /\ \A n \in 1 .. Len(t) : t[n] = s[n + 1]
  BY HeadTailProperties
<1> HIDE DEF t
<1>2. PICK n \in 1 .. Len(s) : s[n].key = k /\ Enqueues(s[n])
  BY DEF Noticed
<1>3. CASE n = 1
  BY <1>1, <1>2, <1>3
<1>4. CASE n # 1
  <2>1. n - 1 \in 1 .. Len(t) /\ (n - 1) + 1 = n
    BY <1>1, <1>4
  <2>2. t[n - 1] = s[n]
    BY <1>1, <2>1
  <2>3. Noticed(t, k)
    BY <1>2, <2>1, <2>2 DEF Noticed
  <2> QED  BY <2>3 DEF t
<1> QED  BY <1>3, <1>4

\* A handler enqueues the key of every notification that tells of a change of
\* the annotation.
LEMMA ChangeIsEnqueued ==
  ASSUME ChangesAreTold, NEW m \in InformerP!Notices, NEW o, NEW n,
         InformerP!Tells(m, o, n), AnnotationOf(o) # AnnotationOf(n)
  PROVE  Enqueues(m)
<1>1. m.type \in {"OnAdd", "OnUpdate", "OnDelete", "OnTombstone"}
  BY DEF InformerP!Notices
<1>2. m.old = o /\ m.new = n
  BY DEF InformerP!Tells
<1>3. CASE m.type = "OnAdd"
  <2>1. o = Absent /\ n # Absent
    BY <1>3 DEF InformerP!Tells
  <2> QED  BY <1>2, <1>3, <2>1 DEF AnnotationOf, Enqueues, AddFunc, Informer!Annotated
<1>4. CASE m.type = "OnUpdate"
  <2>1. /\ o # Absent /\ n # Absent /\ o.annotation # n.annotation
        /\ InformerP!Fits(o, InformerP!Upsert(m.key, n))
    BY <1>4 DEF InformerP!Tells, AnnotationOf
  <2>2. /\ o.version = n.version => o = n
        /\ n.deleting => o.annotation = n.annotation
    BY <2>1 DEF InformerP!Fits, InformerP!Upsert, InformerP!DeletingKeepsAnnotation,
                ChangesAreTold
  <2> QED  BY <1>2, <1>4, <2>1, <2>2 DEF Enqueues, UpdateFunc, Informer!Annotated
<1>5. CASE m.type \in {"OnDelete", "OnTombstone"}
  <2>1. o # Absent /\ n = Absent
    BY <1>5 DEF InformerP!Tells
  <2> QED  BY <1>2, <1>5, <2>1 DEF AnnotationOf, Enqueues, DeleteFunc, Informer!Annotated
<1> QED  BY <1>1, <1>3, <1>4, <1>5

-----------------------------------------------------------------------------
(* Steps outside of updateMetrics.                                         *)

\* A step that leaves updateMetrics alone keeps a pod followed if it loses no
\* notification or mark of it, and leaves one when it changes the annotation
\* that the indexer shows.
LEMMA OutsideKeepsFollowed ==
  ASSUME RecordInv, NEW k \in Pods, Awaited(k) => Awaited(k)',
         UNCHANGED <<pc, key, action, wanted, found, types, objStore>>,
         Awaited(k)' \/ AnnotationOf(indexer'[k]) = AnnotationOf(indexer[k]),
         Steady => nads' = nads, \A n \in Nads : held[n] \subseteq held'[n]
  PROVE  Followed(k)'
<1> DEFINE a == AnnotationOf(indexer[k])
<1>0. Followed(k) /\ Had(held, a) \subseteq Had(held', a)
  BY AnnotationTypes, HadGrows DEF RecordInv
<1>1. CASE Awaited(k)'
  BY <1>1 DEF Followed
<1>2. CASE ~Awaited(k)'
  <2>1. AnnotationOf(indexer'[k]) = a
    BY <1>2
  <2>2. CASE pc # "idle" /\ key = k
    <3>1. Answers(a)
      BY <1>0, <1>2, <2>2 DEF Followed
    <3>2. Steady => Goal' = Goal
      BY DEF Goal
    <3>3. LooksFor(a)'
      BY <1>0, <2>1, <3>1 DEF Answers, LooksFor
    <3>4. Answers(AnnotationOf(indexer[k]))'
      BY <2>1, <3>1, <3>2, <3>3 DEF Answers
    <3> QED  BY <2>2, <3>4 DEF Followed
  <2>3. CASE ~(pc # "idle" /\ key = k)
    <3>1. Suits(objStore[k], nads, held, a)
      BY <1>0, <1>2, <2>3 DEF Followed
    <3>2. Suits(objStore[k], nads, held, AnnotationOf(indexer[k]))'
      BY <1>0, <2>1, <3>1 DEF Suits
    <3> QED  BY <2>3, <3>2 DEF Followed
  <2> QED  BY <2>2, <2>3
<1> QED  BY <1>1, <1>2

\* The cluster and the informer.
LEMMA ClusterKeepsFollowed ==
  ASSUME RecordInv, ChangesAreTold, NEW k \in Pods,
         \/ ChangePod \/ InformerStep
         \/ \E n \in Nads : ChangeNad(n)
  PROVE  Followed(k)'
<1>1. /\ UNCHANGED <<pc, key, action, wanted, found, types, objStore>>
      /\ UNCHANGED <<dirty, worker, item, handled>>
      /\ Steady => nads' = nads
      /\ \A n \in Nads : held[n] \subseteq held'[n]
  BY HeldKept
     DEF ChangePod, InformerStep, ChangeNad, Next, metricVars, queueVars, lookupVars, nadVars,
         Steady
<1>2. CASE UNCHANGED <<indexer, notifications>>
  <2>1. Awaited(k) => Awaited(k)'
    BY <1>1, <1>2 DEF Awaited, Noticed, Busy
  <2> QED  BY <1>1, <1>2, <2>1, OutsideKeepsFollowed
<1>3. CASE InformerP!ProcessDelta
  <2>1. PICK m \in InformerP!Notices :
          /\ notifications' = Append(notifications, m)
          /\ InformerP!Tells(m, indexer[m.key], m.new)
          /\ indexer' = [indexer EXCEPT ![m.key] = m.new]
    BY <1>3, InformerAssumes, InformerP!ProcessDeltaTells DEF RecordInv, Parts
  <2>2. /\ notifications \in Seq(InformerP!Notices)
        /\ indexer \in [Pods -> InformerP!Objects \cup {Absent}]
    BY DEF RecordInv, Parts, InformerP!IInv, InformerP!TypeOK
  <2>3. \/ Noticed(notifications, k)
        \/ m.key = k /\ Enqueues(m)
        => Noticed(notifications', k)
    BY <2>1, <2>2, NoticedAppend
  <2>4. Awaited(k) => Awaited(k)'
    BY <1>1, <2>3 DEF Awaited, Busy
  <2>5. Awaited(k)' \/ AnnotationOf(indexer'[k]) = AnnotationOf(indexer[k])
    <3>1. CASE m.key = k /\ AnnotationOf(indexer[k]) # AnnotationOf(m.new)
      <4>1. Enqueues(m)
        BY <2>1, <3>1, ChangeIsEnqueued
      <4> QED  BY <2>3, <3>1, <4>1 DEF Awaited
    <3>2. CASE m.key = k /\ AnnotationOf(indexer[k]) = AnnotationOf(m.new)
      BY <2>1, <2>2, <3>2
    <3>3. CASE m.key # k
      BY <2>1, <2>2, <3>3
    <3> QED  BY <3>1, <3>2, <3>3
  <2> QED  BY <1>1, <2>4, <2>5, OutsideKeepsFollowed
<1>4. ASSUME InformerP!ClusterStep \/ InformerP!Relist \/ InformerP!Resync
      PROVE  UNCHANGED <<indexer, notifications>>
  BY <1>4 DEF InformerP!ClusterStep, InformerP!CreatePod, InformerP!UpdatePod,
     InformerP!DeletePod, InformerP!RemovePod, InformerP!Change, InformerP!Relist,
     InformerP!Resync, InformerP!store
<1>5. ASSUME NEW n \in Nads, ChangeNad(n)  PROVE UNCHANGED <<indexer, notifications>>
  BY <1>5 DEF ChangeNad
<1> QED  BY <1>2, <1>3, <1>4, <1>5, SameInformer DEF ChangePod, InformerStep

\* The handlers, the waitingLoop, and a worker that takes or gives back a key.
LEMMA QueueKeepsFollowed ==
  ASSUME RecordInv, NEW k \in Pods,
         HandleEvent \/ WaitingLoop \/ GetKey \/ AwaitKey \/ DoneKey
  PROVE  Followed(k)'
<1>1. /\ UNCHANGED <<pc, key, action, wanted, found, types, objStore>>
      /\ nads' = nads /\ held' = held /\ indexer' = indexer
  BY DEF HandleEvent, WaitingLoop, GetKey, AwaitKey, DoneKey, metricVars, informerVars,
         lookupVars, nadVars, Informer!Notify
<1>2. worker \in [{Worker} -> {"ready", "asleep", "busy", "gone"}]
  BY WorkerHolds DEF RecordInv, Parts
<1>3. ASSUME Awaited(k)  PROVE Awaited(k)'
  <2>1. CASE HandleEvent
    <3> DEFINE m == Head(notifications)
    <3>1. /\ notifications # << >> /\ notifications' = Tail(notifications)
          /\ handled' = handled
      BY <2>1 DEF HandleEvent, Informer!Notify
    <3>2. m.key \in Pods /\ notifications \in Seq(InformerP!Notices)
      BY <3>1, NoticeTypes DEF RecordInv, Parts
    <3>3. CASE Enqueues(m)
      <4>1. Queue!Add(m.key)
        BY <2>1, <3>3 DEF HandleEvent
      <4>2. (Busy' <=> Busy) /\ item' = item /\ dirty \subseteq dirty'
        BY <3>2, <4>1, AddingSparesWorker DEF RecordInv, Parts
      <4>3. m.key \in dirty'
        <5>1. ~shuttingDown
          BY DEF RecordInv, Parts, AtWork
        <5> QED  BY <4>1, <5>1 DEF Queue!Add, Queue!Enqueue
      <4>4. Noticed(notifications, k) => m.key = k \/ Noticed(notifications', k)
        BY <3>1, <3>2, NoticedTail
      <4> QED  BY <1>1, <1>3, <3>1, <4>2, <4>3, <4>4 DEF Awaited
    <3>4. CASE ~Enqueues(m)
      <4>1. UNCHANGED <<dirty, worker, item>>
        BY <2>1, <3>4 DEF HandleEvent, queueVars
      <4>2. Noticed(notifications, k) => Noticed(notifications', k)
        BY <3>1, <3>2, <3>4, NoticedTail
      <4> QED  BY <1>1, <1>3, <3>1, <4>1, <4>2 DEF Awaited, Busy
    <3> QED  BY <3>3, <3>4
  <2>2. CASE WaitingLoop
    <3>1. (Busy' <=> Busy) /\ item' = item /\ dirty \subseteq dirty'
      BY <2>2, AddingSparesWorker DEF RecordInv, Parts
    <3>2. notifications' = notifications /\ handled' = handled
      BY <2>2 DEF WaitingLoop, informerVars
    <3> QED  BY <1>1, <1>3, <3>1, <3>2 DEF Awaited
  <2>3. CASE GetKey
    <3>1. /\ ~Busy /\ Busy' /\ dirty' = dirty \ {Head(queue)}
          /\ item'[Worker] = Head(queue)
          /\ notifications' = notifications /\ handled' = handled
      BY <1>2, <2>3, WorkerHolds
         DEF GetKey, Queue!GetItem, Busy, informerVars, RecordInv, Parts
    <3>2. ~handled /\ pc = "idle"
      BY <3>1 DEF RecordInv, Parts, AtWork
    <3> QED  BY <1>1, <1>3, <3>1, <3>2 DEF Awaited
  <2>4. CASE AwaitKey
    <3>1. ~Busy /\ dirty' = dirty /\ notifications' = notifications
      BY <2>4 DEF AwaitKey, Queue!GetSleeps, Queue!orderVars, Busy, informerVars
    <3> QED  BY <1>3, <3>1 DEF Awaited
  <2>5. CASE DoneKey
    <3>1. handled /\ dirty' = dirty /\ notifications' = notifications
      BY <2>5 DEF DoneKey, Queue!Done, informerVars
    <3> QED  BY <1>3, <3>1 DEF Awaited
  <2> QED  BY <2>1, <2>2, <2>3, <2>4, <2>5
<1> QED  BY <1>1, <1>3, OutsideKeepsFollowed

-----------------------------------------------------------------------------
(* The steps of updateMetrics.                                             *)

\* What the steps of one call leave alone.
LEMMA InsideLeavesAlone ==
  ASSUME RecordInv,
         \/ UpdateGauges \/ ParseAnnotationFails \/ AllLookedUp
         \/ \E n \in Nads : LookupNad(n)
  PROVE  /\ pc # "idle" /\ pc' # "idle" /\ UNCHANGED <<key, action>>
         /\ UNCHANGED <<dirty, worker, item, handled>>
         /\ UNCHANGED <<notifications, indexer, nads, held>>
<1>1. UNCHANGED <<informerVars, queueVars, nadVars, handled>>
  BY DEF UpdateGauges, ParseAnnotationFails, AllLookedUp, LookupNad
<1>2. /\ pc # "idle" /\ pc' # "idle" /\ UNCHANGED <<key, action>>
  <2>1. CASE UpdateGauges
    <3>1. pc = "idle" => unset = {}
      BY DEF RecordInv, Parts, IInv, InStep
    <3> QED
      BY <2>1, <3>1 DEF UpdateGauges, Step, Decrement, Increment, Erase, Store, IncrementAny,
                        SetEnabledInstanceUp, args
  <2>2. CASE ParseAnnotationFails \/ AllLookedUp
    BY <2>2 DEF ParseAnnotationFails, ParseFails, AllLookedUp, Resolve, args
  <2>3. ASSUME NEW n \in Nads, LookupNad(n)
        PROVE  /\ pc # "idle" /\ pc' # "idle" /\ UNCHANGED <<key, action>>
    BY <2>3 DEF LookupNad, metricVars
  <2> QED  BY <2>1, <2>2, <2>3
<1> QED  BY <1>1, <1>2 DEF informerVars, queueVars, nadVars

\* One call aims at the same record from its start to its end.
LEMMA GoalKept ==
  ASSUME RecordInv, Steady,
         \/ UpdateGauges \/ ParseAnnotationFails \/ AllLookedUp
         \/ \E n \in Nads : LookupNad(n)
  PROVE  Goal' = Goal
<1>1. LookingUp /\ InStep /\ action' = action /\ nads' = nads
      /\ wanted \in {Malformed} \cup SUBSET Nads /\ action \in {"Add", "Delete"}
  BY InsideLeavesAlone DEF RecordInv, Parts, IInv, OwnTypes, MetricsTypeOK, Actions
<1>2. CASE UpdateGauges
  <2>1. UNCHANGED <<wanted, found>>
    BY <1>2 DEF UpdateGauges, lookupVars
  <2>2. CASE \/ \E l \in Labels : Decrement(l) \/ Increment(l)
             \/ \E l \in Tracked : SetEnabledInstanceUp(l)
    BY <1>1, <2>1, <2>2 DEF Decrement, Increment, SetEnabledInstanceUp, args, Goal
  <2>3. CASE Erase
    BY <1>1, <2>1, <2>3 DEF Erase, Goal, InStep
  <2>4. CASE Store \/ IncrementAny
    BY <1>1, <2>1, <2>4 DEF Store, IncrementAny, Goal
  <2> QED  BY <1>2, <2>2, <2>3, <2>4 DEF UpdateGauges, Step
<1>3. CASE ParseAnnotationFails
  BY <1>1, <1>3 DEF ParseAnnotationFails, ParseFails, Goal, LookingUp, TypesOf, NamedBy
<1>4. CASE AllLookedUp
  <2>1. /\ pc = "resolve" /\ wanted = {} /\ types' = found
        /\ pc' \in {"inc", "done"}
    BY <1>4 DEF AllLookedUp, Resolve
  <2>2. TypesOf(nads, wanted) = {}
    BY <2>1 DEF TypesOf, NamedBy
  <2>3. Goal = found /\ Goal' = types'
    BY <1>1, <2>1, <2>2 DEF Goal, LookingUp
  <2> QED  BY <2>1, <2>3
<1>5. ASSUME NEW n \in Nads, LookupNad(n)  PROVE Goal' = Goal
  <2>1. /\ pc = "resolve" /\ pc' = "resolve" /\ n \in wanted
        /\ wanted \in SUBSET Nads /\ wanted' \in SUBSET Nads /\ wanted' = wanted \ {n}
        /\ found' = found \cup TypesIn(nads[n])
    BY <1>1, <1>5 DEF LookupNad, metricVars, Steady
  <2>2. NamedBy(wanted) = wanted /\ NamedBy(wanted') = wanted'
    BY <2>1, AnnotationsAssumption DEF NamedBy
  <2>3. found' \cup TypesOf(nads, wanted') = found \cup TypesOf(nads, wanted)
    BY <2>1, <2>2 DEF TypesOf
  <2>4. Goal = found \cup TypesOf(nads, wanted) /\ Goal' = found' \cup TypesOf(nads, wanted')
    BY <1>1, <2>1 DEF Goal, LookingUp
  <2> QED  BY <2>3, <2>4
<1> QED  BY <1>2, <1>3, <1>4, <1>5

\* One call looks for what its annotation names until it has recorded it.
LEMMA LooksForKept ==
  ASSUME RecordInv, NEW a, LooksFor(a),
         \/ UpdateGauges \/ ParseAnnotationFails \/ AllLookedUp
         \/ \E n \in Nads : LookupNad(n)
  PROVE  LooksFor(a)'
<1>1. /\ LookingUp /\ InStep /\ HeldIsUpToDate /\ UNCHANGED <<action, nads, held>>
      /\ action \in {"Add", "Delete"}
  BY InsideLeavesAlone DEF RecordInv, Parts, IInv, MetricsTypeOK, Actions
<1>2. CASE UpdateGauges
  <2>1. UNCHANGED <<wanted, found>>
    BY <1>2 DEF UpdateGauges, lookupVars
  <2>2. CASE \/ \E l \in Labels : Decrement(l) \/ Increment(l)
             \/ \E l \in Tracked : SetEnabledInstanceUp(l)
    BY <1>1, <2>1, <2>2 DEF Decrement, Increment, SetEnabledInstanceUp, args, LooksFor
  <2>3. CASE Erase
    BY <1>1, <2>1, <2>3 DEF Erase, LooksFor, InStep
  <2>4. CASE Store \/ IncrementAny
    BY <1>1, <2>1, <2>4 DEF Store, IncrementAny, LooksFor
  <2> QED  BY <1>2, <2>2, <2>3, <2>4 DEF UpdateGauges, Step
<1>3. CASE ParseAnnotationFails
  BY <1>3 DEF ParseAnnotationFails, ParseFails, LooksFor
<1>4. CASE AllLookedUp
  <2>1. /\ pc = "resolve" /\ wanted = {} /\ types' = found /\ action = "Add"
        /\ pc' \in {"inc", "done"}
    BY <1>1, <1>4 DEF AllLookedUp, Resolve, LookingUp
  <2>2. wanted # Malformed
    BY <2>1, AnnotationsAssumption
  <2> QED  BY <1>1, <2>1, <2>2 DEF LooksFor
<1>5. ASSUME NEW n \in Nads, LookupNad(n)  PROVE LooksFor(a)'
  <2>1. /\ pc = "resolve" /\ pc' = "resolve" /\ action = "Add"
        /\ wanted # Malformed /\ n \in wanted /\ wanted' = wanted \ {n}
        /\ found' \subseteq found \cup TypesIn(nads[n])
    BY <1>1, <1>5 DEF LookupNad, metricVars, LookingUp
  <2>2. n \in NamedBy(a) /\ wanted' \subseteq NamedBy(a) /\ found \subseteq Had(held, a)
    BY <2>1 DEF LooksFor
  <2>3. TypesIn(nads[n]) \subseteq Had(held, a)
    BY <1>1, <2>2 DEF HeldIsUpToDate, Had
  <2> QED  BY <1>1, <2>1, <2>2, <2>3 DEF LooksFor
<1> QED  BY <1>2, <1>3, <1>4, <1>5

\* A step of updateMetrics or of a lookup keeps what will be recorded right for
\* the pod it works on, and does not touch the others.
LEMMA InsideKeepsFollowed ==
  ASSUME RecordInv, NEW k \in Pods,
         \/ UpdateGauges \/ ParseAnnotationFails \/ AllLookedUp
         \/ \E n \in Nads : LookupNad(n)
  PROVE  Followed(k)'
<1>1. /\ pc # "idle" /\ pc' # "idle" /\ UNCHANGED <<key, action>>
      /\ UNCHANGED <<dirty, worker, item, handled>>
      /\ UNCHANGED <<notifications, indexer, nads, held>>
      /\ Followed(k)
  BY InsideLeavesAlone DEF RecordInv
<1>2. CASE Awaited(k)
  <2>1. Awaited(k)'
    BY <1>1, <1>2 DEF Awaited, Noticed
  <2> QED  BY <2>1 DEF Followed
<1>3. CASE key = k /\ Answers(AnnotationOf(indexer[k]))
  <2>1. Steady => Goal' = Goal
    BY GoalKept
  <2>2. LooksFor(AnnotationOf(indexer[k]))'
    <3> DEFINE a == AnnotationOf(indexer[k])
    <3>1. LooksFor(a)
      BY <1>3 DEF Answers
    <3> HIDE DEF a
    <3>2. ASSUME NEW b, b = a, LooksFor(b)  PROVE LooksFor(b)'
      BY <3>2, LooksForKept
    <3> QED  BY <1>1, <3>1, <3>2 DEF a, LooksFor
  <2>3. Answers(AnnotationOf(indexer[k]))'
    BY <1>1, <1>3, <2>1, <2>2 DEF Answers
  <2> QED  BY <1>1, <1>3, <2>3 DEF Followed
<1>4. CASE key # k /\ Suits(objStore[k], nads, held, AnnotationOf(indexer[k]))
  <2>1. objStore'[k] = objStore[k]
    <3>1. objStore \in [Pods -> SUBSET Types]
      BY DEF RecordInv, Parts, IInv, MetricsTypeOK
    <3>2. CASE UpdateGauges
      BY <1>4, <3>1, <3>2
         DEF UpdateGauges, Step, Decrement, Increment, Erase, Store, IncrementAny,
             SetEnabledInstanceUp
    <3>3. CASE ParseAnnotationFails \/ AllLookedUp
      BY <3>3 DEF ParseAnnotationFails, ParseFails, AllLookedUp, Resolve
    <3>4. ASSUME NEW n \in Nads, LookupNad(n)  PROVE objStore'[k] = objStore[k]
      BY <3>4 DEF LookupNad, metricVars
    <3> QED  BY <3>2, <3>3, <3>4
  <2>2. Suits(objStore[k], nads, held, AnnotationOf(indexer[k]))'
    BY <1>1, <1>4, <2>1 DEF Suits
  <2> QED  BY <1>1, <1>4, <2>2 DEF Followed
<1> QED  BY <1>1, <1>2, <1>3, <1>4 DEF Followed

\* A call begins with what the indexer shows at that moment.
LEMMA ProcessItemKeepsFollowed ==
  ASSUME RecordInv, NEW k \in Pods, ProcessItem
  PROVE  Followed(k)'
<1> DEFINE o == indexer[item[Worker]]
<1>1. /\ Busy /\ ~handled /\ pc = "idle" /\ item[Worker] \in Pods
      /\ key' = item[Worker] /\ pc' \in {"dec", "resolve", "done"}
      /\ UNCHANGED <<dirty, notifications, indexer, nads, held, objStore, types, found>>
      /\ types = {} /\ found = {} /\ Followed(k)
  BY WorkerHolds
     DEF ProcessItem, Begin, Busy, informerVars, queueVars, nadVars, RecordInv, Parts, IInv, InStep,
         LookingUp
<1>2. CASE k = item[Worker]
  <2>1. CASE o # Absent /\ Informer!Annotated(o)
    <3>1. /\ AnnotationOf(o) = o.annotation /\ o.annotation # NoAnnotation
          /\ action' = "Add" /\ wanted' = o.annotation /\ pc' \in {"dec", "resolve"}
      BY <2>1 DEF ProcessItem, Begin, AnnotationOf, Informer!Annotated
    <3>2. Goal' = {} \cup TypesOf(nads, AnnotationOf(o))
      BY <1>1, <3>1 DEF Goal
    <3>3. LooksFor(AnnotationOf(indexer[k]))'
      BY <1>1, <1>2, <3>1 DEF LooksFor, NamedBy
    <3>4. Answers(AnnotationOf(indexer[k]))'
      BY <1>1, <1>2, <3>1, <3>2, <3>3 DEF Answers
    <3> QED  BY <1>1, <1>2, <3>4 DEF Followed
  <2>2. CASE ~(o # Absent /\ Informer!Annotated(o))
    <3>1. /\ AnnotationOf(o) = NoAnnotation
          /\ action' = "Delete" /\ pc' \in {"dec", "done"}
      BY <2>2 DEF ProcessItem, Begin, AnnotationOf, Informer!Annotated
    <3>2. Goal' = {} /\ TypesOf(nads, AnnotationOf(o)) = {}
      BY <1>1, <3>1 DEF Goal, TypesOf, NamedBy
    <3>3. LooksFor(AnnotationOf(indexer[k]))'
      BY <1>1, <3>1 DEF LooksFor
    <3>4. Answers(AnnotationOf(indexer[k]))'
      BY <1>1, <1>2, <3>1, <3>2, <3>3 DEF Answers
    <3> QED  BY <1>1, <1>2, <3>4 DEF Followed
  <2> QED  BY <2>1, <2>2
<1>3. CASE k # item[Worker]
  <2>1. CASE Awaited(k)
    BY <1>1, <1>3, <2>1 DEF Awaited, Followed
  <2>2. CASE Suits(objStore[k], nads, held, AnnotationOf(indexer[k]))
    <3>1. Suits(objStore[k], nads, held, AnnotationOf(indexer[k]))'
      BY <1>1, <2>2 DEF Suits
    <3> QED  BY <1>1, <1>3, <3>1 DEF Followed
  <2> QED  BY <1>1, <2>1, <2>2 DEF Followed
<1> QED  BY <1>2, <1>3

\* When a call is over, what it aimed at is recorded.
LEMMA HandleErrKeepsFollowed ==
  ASSUME RecordInv, NEW k \in Pods, HandleErr
  PROVE  Followed(k)'
<1>1. /\ pc \in {"done", "failed"} /\ pc' = "idle" /\ handled'
      /\ UNCHANGED <<dirty, notifications, indexer, nads, held, objStore>>
      /\ Followed(k)
  BY DEF HandleErr, Return, Succeeded, Retry, GiveUp, Queue!Forget, Queue!AddRateLimited,
         Queue!orderVars, informerVars, nadVars, RecordInv
<1>2. CASE Awaited(k)
  <2>1. Awaited(k)'
    BY <1>1, <1>2 DEF Awaited, Noticed
  <2> QED  BY <2>1 DEF Followed
<1>3. CASE key = k /\ Answers(AnnotationOf(indexer[k]))
  <2>1. /\ objStore[k] = Goal
        /\ pc = "done" => objStore[k] = types
        /\ pc = "failed" => objStore[k] = {}
    BY <1>1, <1>3 DEF RecordInv, Parts, IInv, InStep, Goal
  <2>2. Suits(objStore[k], nads, held, AnnotationOf(indexer[k]))'
    BY <1>1, <1>3, <2>1 DEF Answers, LooksFor, Suits
  <2> QED  BY <1>1, <2>2 DEF Followed
<1>4. CASE Suits(objStore[k], nads, held, AnnotationOf(indexer[k]))
  <2>1. Suits(objStore[k], nads, held, AnnotationOf(indexer[k]))'
    BY <1>1, <1>4 DEF Suits
  <2> QED  BY <1>1, <2>1 DEF Followed
<1> QED  BY <1>1, <1>2, <1>3, <1>4 DEF Followed

\* The lookup is where pc says it is, after each step.
LEMMA LookingUpKept ==
  ASSUME RecordInv, [Next]_vars
  PROVE  LookingUp'
<1>1. /\ LookingUp /\ InStep
      /\ wanted \in {Malformed} \cup SUBSET Nads
  BY DEF RecordInv, Parts, IInv, OwnTypes
<1>2. CASE UNCHANGED <<metricVars, lookupVars>>
  BY <1>1, <1>2 DEF LookingUp, metricVars, lookupVars
<1>3. CASE ProcessItem
  BY <1>1, <1>3 DEF LookingUp, InStep, ProcessItem, Begin
<1>4. CASE UpdateGauges
  BY <1>1, <1>4
     DEF LookingUp, InStep, UpdateGauges, Step, Decrement, Increment, Erase, Store,
         IncrementAny, SetEnabledInstanceUp, args, lookupVars
<1>5. CASE ParseAnnotationFails
  BY <1>1, <1>5 DEF LookingUp, ParseAnnotationFails, ParseFails, args
<1>6. ASSUME NEW n \in Nads, LookupNad(n)  PROVE LookingUp'
  <2>1. /\ pc = "resolve" /\ UNCHANGED <<pc, action, types>>
        /\ wanted' = wanted \ {n} /\ wanted \in SUBSET Nads
    BY <1>1, <1>6 DEF LookupNad, metricVars
  <2>2. wanted' # Malformed
    BY <2>1, AnnotationsAssumption
  <2> QED  BY <1>1, <2>1, <2>2 DEF LookingUp
<1>7. CASE AllLookedUp
  BY <1>1, <1>7 DEF LookingUp, AllLookedUp, Resolve, args
<1>8. CASE HandleErr
  BY <1>1, <1>8 DEF LookingUp, HandleErr, Return, lookupVars
<1> QED
  BY <1>2, <1>3, <1>4, <1>5, <1>6, <1>7, <1>8
     DEF Next, WorkerStep, ChangePod, ChangeNad, InformerStep, HandleEvent, GetKey, AwaitKey,
         DoneKey, WaitingLoop, vars

-----------------------------------------------------------------------------
(* The theorems.                                                           *)

\* At the start nothing is in the indexer and nothing is recorded.
LEMMA InitEstablishesRecordInv == Init => RecordInv
<1> SUFFICES ASSUME Init  PROVE RecordInv
  OBVIOUS
<1>1. Parts
  BY InitEstablishesParts
<1>2. LookingUp
  BY DEF Init, MetricsInit, LookingUp
<1>3. ASSUME NEW k \in Pods  PROVE Followed(k)
  <2>1. pc = "idle" /\ indexer[k] = Absent /\ objStore[k] = {}
    BY DEF Init, MetricsInit, Informer!Init
  <2>2. Suits(objStore[k], nads, held, AnnotationOf(indexer[k]))
    BY <2>1 DEF Suits, AnnotationOf, TypesOf, NamedBy
  <2> QED  BY <2>1, <2>2 DEF Followed
<1>4. HeldIsUpToDate
  BY DEF Init, HeldIsUpToDate
<1> QED  BY <1>1, <1>2, <1>3, <1>4 DEF RecordInv

\* No step of cluster, informer, handlers, queue or worker loses a pod.
LEMMA NextKeepsRecordInv ==
  ASSUME ChangesAreTold
  PROVE  RecordInv /\ [Next]_vars => RecordInv'
<1> SUFFICES ASSUME RecordInv, [Next]_vars  PROVE RecordInv'
  OBVIOUS
<1>1. Parts'
  BY NextKeepsParts DEF RecordInv
<1>2. LookingUp'
  BY LookingUpKept
<1>3. HeldIsUpToDate' /\ \A n \in Nads : held[n] \subseteq held'[n]
  BY HeldKept
<1>4. ASSUME NEW k \in Pods  PROVE Followed(k)'
  <2>1. CASE ChangePod \/ InformerStep \/ (\E n \in Nads : ChangeNad(n))
    BY <2>1, ClusterKeepsFollowed
  <2>2. CASE HandleEvent \/ WaitingLoop \/ GetKey \/ AwaitKey \/ DoneKey
    BY <2>2, QueueKeepsFollowed
  <2>3. CASE ProcessItem
    BY <2>3, ProcessItemKeepsFollowed
  <2>4. CASE \/ UpdateGauges \/ ParseAnnotationFails \/ AllLookedUp
             \/ \E n \in Nads : LookupNad(n)
    BY <2>4, InsideKeepsFollowed
  <2>5. CASE HandleErr
    BY <2>5, HandleErrKeepsFollowed
  <2>6. CASE UNCHANGED vars
    <3>1. UNCHANGED <<pc, key, action, wanted, found, types, objStore, indexer, nads,
                      dirty, notifications, worker, item, handled>>
      BY <2>6 DEF vars, informerVars, queueVars, metricVars, nadVars, lookupVars
    <3>2. Awaited(k) => Awaited(k)'
      BY <3>1 DEF Awaited, Noticed, Busy
    <3> QED  BY <1>3, <3>1, <3>2, OutsideKeepsFollowed
  <2> QED  BY <2>1, <2>2, <2>3, <2>4, <2>5, <2>6 DEF Next, WorkerStep
<1> QED  BY <1>1, <1>2, <1>3, <1>4 DEF RecordInv

\* A pod nothing of which is under way is recorded as the cluster shows it.
LEMMA SettledIsRecorded ==
  ASSUME RecordInv, NEW k \in Pods, Settled(k)
  PROVE  Suits(objStore[k], nads, held, AnnotationOf(pods[k]))
<1>1. indexer[k] = pods[k]
  <2>1. InformerP!View(deltas, k) = pods[k]
    BY DEF RecordInv, Parts, InformerP!IInv, InformerP!DeltasLeadToCluster
  <2>2. {n \in 1 .. Len(deltas) : deltas[n].key = k} = {}
    BY DEF Settled
  <2> QED  BY <2>1, <2>2 DEF InformerP!View
<1>2. ~(Busy /\ item[Worker] = k)
  BY WorkerHolds DEF Settled, RecordInv, Parts
<1>3. ~Awaited(k)
  BY <1>2 DEF Awaited, Settled, Noticed
<1>4. ~(pc # "idle" /\ key = k)
  BY <1>2 DEF RecordInv, Parts, AtWork
<1> QED  BY <1>1, <1>3, <1>4 DEF RecordInv, Followed

\* Every pod is followed, always.
LEMMA RecordInvariant ==
  ASSUME ChangesAreTold
  PROVE  Spec => []RecordInv
<1>1. RecordInv /\ [Next]_vars => RecordInv'
  BY NextKeepsRecordInv
<1> QED  BY <1>1, InitEstablishesRecordInv, PTL DEF Spec

\* A pod that is gone or has no networks any more is not recorded for ever,
\* whatever lookups fail and definitions change: no interleaving of handlers,
\* retries and worker loses its removal, as long as pods that are being deleted
\* keep their annotation (UpdateFunc ignores them, DeleteFunc looks at the last
\* state).
THEOREM NothingLeaks ==
  ASSUME "AnnotateDeleting" \notin Disturbances,
         ~({"GracePeriod", "Relist"} \subseteq Disturbances)
  PROVE  Spec => []NoLeak
<1>1. RecordInv => NoLeak
  <2> SUFFICES ASSUME RecordInv, NEW k \in Pods, Settled(k),
                      pods[k] = Absent \/ pods[k].annotation = NoAnnotation
               PROVE  objStore[k] = {}
    BY DEF NoLeak
  <2>1. Suits(objStore[k], nads, held, AnnotationOf(pods[k]))
    BY SettledIsRecorded
  <2> QED  BY <2>1 DEF Suits, Had, NamedBy, AnnotationOf
<1>2. Spec => []RecordInv
  BY RecordInvariant DEF ChangesAreTold
<1> QED  BY <1>1, <1>2, PTL

\* The record of a settled pod is made of types that the definitions it names now
\* have had, whatever lookups fail and definitions change on the way: nothing of
\* an annotation it had before, or of another pod, stays in it.
THEOREM RecordsAreNamed ==
  ASSUME "AnnotateDeleting" \notin Disturbances,
         ~({"GracePeriod", "Relist"} \subseteq Disturbances)
  PROVE  Spec => []RecordedTypesAreNamed
<1>1. RecordInv => RecordedTypesAreNamed
  <2> SUFFICES ASSUME RecordInv, NEW k \in Pods, Settled(k), pods[k] # Absent
               PROVE  objStore[k] \subseteq UNION {held[n] : n \in Named(k)}
    BY DEF RecordedTypesAreNamed
  <2>1. Suits(objStore[k], nads, held, AnnotationOf(pods[k]))
    BY SettledIsRecorded
  <2>2. NamedBy(AnnotationOf(pods[k])) = Named(k)
    BY DEF NamedBy, AnnotationOf, Named
  <2> QED  BY <2>1, <2>2 DEF Suits, Had
<1>2. Spec => []RecordInv
  BY RecordInvariant DEF ChangesAreTold
<1> QED  BY <1>1, <1>2, PTL

\* A settled pod is recorded with the types of its networks.
LEMMA InvariantTellsRecords ==
  ASSUME RecordInv, Steady
  PROVE  SettledPodsAreRight
<1> SUFFICES ASSUME NEW k \in Pods, Settled(k)
             PROVE  objStore[k] = NetworkTypes(k)
  BY DEF SettledPodsAreRight
<1>1. Suits(objStore[k], nads, held, AnnotationOf(pods[k]))
  BY SettledIsRecorded
<1>2. objStore[k] = TypesOf(nads, AnnotationOf(pods[k]))
  BY <1>1 DEF Suits
<1>3. TypesOf(nads, AnnotationOf(pods[k])) = NetworkTypes(k)
  BY DEF TypesOf, NamedBy, AnnotationOf, NetworkTypes, Named
<1> QED  BY <1>2, <1>3

\* Every pod that is settled is recorded with the types of its networks.
THEOREM SettledAreRight ==
  ASSUME "AnnotateDeleting" \notin Disturbances,
         ~({"GracePeriod", "Relist"} \subseteq Disturbances),
         {"LookupErrors", "NadChanges"} \cap Disturbances = {}
  PROVE  Spec => []SettledPodsAreRight
<1>1. RecordInv => SettledPodsAreRight
  BY InvariantTellsRecords DEF Steady
<1>2. Spec => []RecordInv
  BY RecordInvariant DEF ChangesAreTold
<1> QED  BY <1>1, <1>2, PTL

\* When every pod is settled the gauges say what is in the cluster: each is the
\* number of pods with networks of its types.  The worker is idle then, or the
\* key it holds would not be settled.
THEOREM GaugesShowCluster ==
  ASSUME "AnnotateDeleting" \notin Disturbances,
         ~({"GracePeriod", "Relist"} \subseteq Disturbances),
         {"LookupErrors", "NadChanges"} \cap Disturbances = {}
  PROVE  Spec => []GaugesCountCluster
<1>1. RecordInv => GaugesCountCluster
  <2> SUFFICES ASSUME RecordInv, \A k \in Pods : Settled(k), NEW l \in Labels
               PROVE  gauge[l] = Cardinality({k \in Pods : l \in LabelsOf(NetworkTypes(k))})
    BY DEF GaugesCountCluster
  <2>1. ~Busy
    BY WorkerHolds DEF Settled, RecordInv, Parts
  <2>2. pc = "idle"
    BY <2>1 DEF RecordInv, Parts, AtWork
  <2>3. gauge[l] = Cardinality({k \in Pods : l \in LabelsOf(objStore[k])})
    BY <2>2, InvariantTellsGauges DEF RecordInv, Parts
  <2>4. \A k \in Pods : objStore[k] = NetworkTypes(k)
    BY InvariantTellsRecords DEF Steady, SettledPodsAreRight
  <2>5. {k \in Pods : l \in LabelsOf(objStore[k])} = {k \in Pods : l \in LabelsOf(NetworkTypes(k))}
    BY <2>4
  <2> QED  BY <2>3, <2>5, Zenon
<1>2. Spec => []RecordInv
  BY RecordInvariant DEF ChangesAreTold
<1> QED  BY <1>1, <1>2, PTL

=============================================================================
