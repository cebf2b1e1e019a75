---------------------------- MODULE PodInformer -----------------------------
(***************************************************************************)
(* The pods the controller watches and the shared informer that follows    *)
(* them: the cluster, the deltas on their way (the watch and the RealFIFO, *)
(* one sequence here), the indexer, and the notifications queued for the   *)
(* controller's event handlers.  The indexer is updated when a delta is    *)
(* processed; the handlers hear of it later, on a goroutine of their own.  *)
(*                                                                         *)
(* The field selector of StartWatching (controller.go) keeps a pod in view *)
(* while its phase is Running and its namespace is not ignored.  A pod     *)
(* that leaves the view, deleted or finished, is Absent.                   *)
(***************************************************************************)
EXTENDS Naturals, Sequences, FiniteSets, SequencesExt

CONSTANTS Pods,         \* keys "namespace/name"
          Annotations,  \* values of k8s.v1.cni.cncf.io/networks
          NoAnnotation, \* the annotation of a pod that has none
          Absent,       \* no object
          Disturbances, \* what the cluster may do beyond plain changes
          MaxChanges    \* bound on the changes of the cluster

ASSUME PodsAssumption == IsFiniteSet(Pods)
ASSUME NoAnnotationAssumption == NoAnnotation \in Annotations
ASSUME MaxChangesAssumption == MaxChanges \in Nat

VARIABLES pods,          \* what the API server holds
          changes,       \* number of changes so far; resource versions
          deltas,        \* deltas not yet processed
          initial,       \* how many of them are left of the initial list
          indexer,       \* the informer's store
          notifications  \* not yet given to the event handlers

vars == <<pods, changes, deltas, initial, indexer, notifications>>
store == <<initial, indexer, notifications>>

Objects == [annotation : Annotations, deleting : BOOLEAN, version : Nat]
Deltas == [type : {"Upsert", "Deleted", "Tombstone"}, key : Pods, object : Objects]
Notices == [type : {"OnAdd", "OnUpdate", "OnDelete", "OnTombstone"}, key : Pods,
            old : Objects \cup {Absent}, new : Objects \cup {Absent}]

\* No object is Absent.
ASSUME AbsentAssumption == Absent \notin Objects

Annotated(o) == o.annotation # NoAnnotation

TypeOK ==
  /\ pods \in [Pods -> Objects \cup {Absent}]
  /\ changes \in 0 .. MaxChanges
  /\ deltas \in Seq(Deltas)
  /\ initial \in Nat
  /\ indexer \in [Pods -> Objects \cup {Absent}]
  /\ notifications \in Seq(Notices)

Upsert(k, o)    == [type |-> "Upsert", key |-> k, object |-> o]
Deleted(k, o)   == [type |-> "Deleted", key |-> k, object |-> o]
Tombstone(k, o) == [type |-> "Tombstone", key |-> k, object |-> o]

-----------------------------------------------------------------------------
(* What the deltas stand for.                                              *)

\* What delta d makes of the object of its key.
Outcome(d) == IF d.type = "Upsert" THEN d.object ELSE Absent

\* The object of key k once the deltas in s have been applied to the indexer.
View(s, k) ==
  LET own == {n \in 1 .. Len(s) : s[n].key = k}
  IN  IF own = {} THEN indexer[k] ELSE Outcome(s[Max(own)])

Here == {k \in Pods : pods[k] # Absent}

\* The pods in s that are no longer there, deltas for the pods t that are gone,
\* and for the pods u that are listed.
Gone(s) == {k \in Pods : pods[k] = Absent /\ View(s, k) # Absent}
Tombstones(s, t) == [n \in 1 .. Len(t) |-> Tombstone(t[n], View(s, t[n]))]
Upserts(u, objects) == [n \in 1 .. Len(u) |-> Upsert(u[n], objects[u[n]])]

\* Mutant of Snapshots: pods that are gone are not noticed by a list.
SnapshotsWithoutTombstones(s) == {Upserts(u, pods) : u \in SetToSeqs(Here)}

\* The deltas a list of the pods adds to the queue s, in any order of keys:
\* RealFIFO.Replace.  A pod that is gone becomes a tombstone with the last
\* object known of it.
Snapshots(s) ==
  {Tombstones(s, t) \o Upserts(u, pods) : t \in SetToSeqs(Gone(s)), u \in SetToSeqs(Here)}

\* Deletion timestamps are set where pods have a grace period.
MayLinger == IF "GracePeriod" \in Disturbances THEN BOOLEAN ELSE {FALSE}

\* The program starts on any cluster, with the initial list on its way.
Init ==
  /\ pods \in [Pods -> {Absent} \cup [annotation : Annotations,
                                      deleting : MayLinger, version : {0}]]
  /\ changes = 0
  /\ indexer = [k \in Pods |-> Absent]
  /\ deltas \in Snapshots(<< >>)
  /\ initial = Len(deltas)
  /\ notifications = << >>

-----------------------------------------------------------------------------
(* The cluster: each change of a pod is a watch event.                     *)

Change(k, o) ==
  /\ changes < MaxChanges
  /\ changes' = changes + 1
  /\ pods' = [pods EXCEPT ![k] = o]
  /\ deltas' = Append(deltas, IF o = Absent THEN Deleted(k, pods[k]) ELSE Upsert(k, o))
  /\ UNCHANGED store

CreatePod(k, a) ==
  /\ pods[k] = Absent
  /\ Change(k, [annotation |-> a, deleting |-> FALSE, version |-> changes + 1])

\* Any update; the annotation may be the same.
UpdatePod(k, a) ==
  /\ pods[k] # Absent
  /\ pods[k].deleting /\ a # pods[k].annotation => "AnnotateDeleting" \in Disturbances
  /\ Change(k, [pods[k] EXCEPT !.annotation = a, !.version = changes + 1])

\* The deletion timestamp is set; the pod keeps running for its grace period.
DeletePod(k) ==
  /\ "GracePeriod" \in Disturbances
  /\ pods[k] # Absent /\ ~pods[k].deleting
  /\ Change(k, [pods[k] EXCEPT !.deleting = TRUE, !.version = changes + 1])

RemovePod(k) ==
  /\ pods[k] # Absent
  /\ Change(k, Absent)

-----------------------------------------------------------------------------
(* The informer.                                                           *)

\* The watch breaks: deltas that had not arrived are lost, and the pods are
\* listed again.
Relist ==
  /\ "Relist" \in Disturbances
  /\ changes < MaxChanges
  /\ changes' = changes + 1
  /\ \E n \in initial .. Len(deltas) :
       LET kept == SubSeq(deltas, 1, n)
       IN  \E s \in Snapshots(kept) : deltas' = kept \o s
  /\ UNCHANGED <<pods, store>>

KeysInQueue == {deltas[n].key : n \in DOMAIN deltas}
KnownKeys == {k \in Pods : indexer[k] # Absent}

\* Mutant of Resync: the objects of keys that are queued are queued as well.
ResyncIgnoresQueue ==
  /\ "Resync" \in Disturbances
  /\ notifications = << >>
  /\ \E s \in SetToSeqs(KnownKeys) : deltas' = deltas \o Upserts(s, indexer)
  /\ UNCHANGED <<pods, changes, store>>

\* Every resyncPeriod the indexer's objects are processed again, except those
\* for whose key a delta is queued.  All deltas have arrived: one that is still
\* in the watch is as good as a change that comes later.  The period is long:
\* the handlers have heard of everything that was processed before.
Resync ==
  /\ "Resync" \in Disturbances
  /\ notifications = << >>
  /\ \E s \in SetToSeqs(KnownKeys \ KeysInQueue) :
       deltas' = deltas \o Upserts(s, indexer)
  /\ UNCHANGED <<pods, changes, store>>

\* What a handler is called with for delta d.
Notice(d, o, n) ==
  [type |-> CASE d.type = "Upsert" /\ o = Absent -> "OnAdd"
              [] d.type = "Upsert" /\ o # Absent -> "OnUpdate"
              [] d.type = "Deleted"              -> "OnDelete"
              [] d.type = "Tombstone"            -> "OnTombstone",
   key |-> d.key, old |-> o, new |-> n]

\* Mutant of ProcessDelta: the old object is read after the store was updated.
ProcessDeltaReadsLate ==
  /\ deltas # << >>
  /\ LET d == Head(deltas)
         o == Outcome(d)
     IN  /\ indexer' = [indexer EXCEPT ![d.key] = o]
         /\ notifications' = Append(notifications, Notice(d, d.object, o))
  /\ deltas' = Tail(deltas)
  /\ initial' = IF initial > 0 THEN initial - 1 ELSE 0
  /\ UNCHANGED <<pods, changes>>

\* Mutant of ProcessDelta: the initial list is counted down by every delta.
ProcessDeltaCountsOn ==
  /\ deltas # << >>
  /\ LET d == Head(deltas)
         o == Outcome(d)
     IN  /\ indexer' = [indexer EXCEPT ![d.key] = o]
         /\ notifications' = Append(notifications, Notice(d, indexer[d.key], o))
  /\ deltas' = Tail(deltas)
  /\ initial' = initial - 1
  /\ UNCHANGED <<pods, changes>>

\* processDeltas for the next delta: the indexer follows it, and the handlers
\* will be told what was there before and what there is now.
ProcessDelta ==
  /\ deltas # << >>
  /\ LET d == Head(deltas)
     IN  IF d.type = "Upsert"
         THEN /\ indexer' = [indexer EXCEPT ![d.key] = d.object]
              /\ notifications' = Append(notifications,
                                         Notice(d, indexer[d.key], d.object))
         ELSE /\ indexer' = [indexer EXCEPT ![d.key] = Absent]
              /\ notifications' = Append(notifications, Notice(d, d.object, Absent))
  /\ deltas' = Tail(deltas)
  /\ initial' = IF initial > 0 THEN initial - 1 ELSE 0
  /\ UNCHANGED <<pods, changes>>

\* A handler is called with the next notification.
Notify ==
  /\ notifications # << >>
  /\ notifications' = Tail(notifications)
  /\ UNCHANGED <<pods, changes, deltas, initial, indexer>>

ClusterStep ==
  \/ \E k \in Pods, a \in Annotations : CreatePod(k, a) \/ UpdatePod(k, a)
  \/ \E k \in Pods : DeletePod(k) \/ RemovePod(k)

Next == ClusterStep \/ Relist \/ Resync \/ ProcessDelta \/ Notify

Spec == Init /\ [][Next]_vars

FairSpec == Spec /\ WF_vars(ProcessDelta) /\ WF_vars(Notify)

HasSynced == initial = 0

-----------------------------------------------------------------------------
(* Properties.                                                             *)

\* No change of a pod is lost for good, through broken watches, relists and
\* resyncs: once the deltas that are queued are processed, the indexer holds
\* what the API server holds.
DeltasLeadToCluster == \A k \in Pods : View(deltas, k) = pods[k]

\* The handlers hear a history without gaps: what one notification of a pod
\* calls old is what the one before it called new, and the last one leads to
\* what the indexer holds, so a handler that compares the two objects it is
\* given sees every transition of the indexer.
NotificationsChain ==
  \A k \in Pods :
    LET own == {n \in 1 .. Len(notifications) : notifications[n].key = k}
    IN  /\ \A m, n \in own :
             m < n /\ (\A i \in own : i <= m \/ n <= i)
               => notifications[m].new = notifications[n].old
        /\ \A n \in own :
             (\A i \in own : i <= n) => notifications[n].new = indexer[k]

\* The indexer catches up with a cluster that no longer changes.
CatchesUp == <>[](indexer = pods)

=============================================================================
