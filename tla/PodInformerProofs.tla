------------------------- MODULE PodInformerProofs --------------------------
(***************************************************************************)
(* Theorems about PodInformer, for any finite set of pods, any annotations *)
(* and any number of changes.  What the informer knows is followed delta   *)
(* by delta: After(ix, s, n, k) is the object of key k once the first n    *)
(* deltas of s have been applied to an indexer ix.                         *)
(***************************************************************************)
EXTENDS PodInformer, FiniteSetTheorems, SequenceTheorems, WellFoundedInduction, TLAPS

Own(s, n, k) == {m \in 1 .. n : s[m].key = k}

After(ix, s, n, k) ==
  IF Own(s, n, k) = {} THEN ix[k] ELSE Outcome(s[Max(Own(s, n, k))])

-----------------------------------------------------------------------------
(* After, by the last delta of the key.                                    *)

\* A set of indices that is not empty has a last one.
LEMMA LastExists ==
  ASSUME NEW n \in Nat, NEW S \in SUBSET (1 .. n), S # {}
  PROVE  Max(S) \in S /\ \A i \in S : i <= Max(S)
<1> DEFINE Above(m) == {i \in S : i > m}
           T == {Above(m) : m \in S}
<1>1. IsFiniteSet(S)
  <2>1. IsFiniteSet(1 .. n)
    BY FS_Interval
  <2> QED  BY <2>1, FS_Subset
<1>2. IsWellFoundedOn(StrictSubsetOrdering(S), SUBSET S)
  BY <1>1, FS_FiniteSubsetsOfFinite, FS_StrictSubsetOrderingWellFounded
<1>3. T \subseteq SUBSET S /\ T # {}
  OBVIOUS
<1>4. PICK x \in T : \A y \in T : ~(<<y, x>> \in StrictSubsetOrdering(S))
  BY <1>2, <1>3, WFMin
<1>5. PICK m \in S : x = Above(m)
  OBVIOUS
<1>6. ASSUME NEW i \in S, i > m  PROVE FALSE
  <2>1. i \in Nat /\ m \in Nat
    OBVIOUS
  <2>2. /\ \A j \in Above(i) : j \in Above(m)
        /\ i \in Above(m) /\ i \notin Above(i)
    <3>1. ASSUME NEW j \in S, j > i  PROVE j > m
      BY <1>6, <2>1, <3>1
    <3> QED  BY <1>6, <2>1, <3>1
  <2>3. Above(i) \in SUBSET S /\ Above(m) \in SUBSET S /\ Above(i) \in T
    BY <1>3
  <2> HIDE DEF Above, T
  <2>4. <<Above(i), Above(m)>> \in StrictSubsetOrdering(S)
    BY <2>2, <2>3 DEF StrictSubsetOrdering
  <2> QED  BY <1>4, <1>5, <2>3, <2>4
<1>7. \A i \in S : m >= i
  BY <1>6
<1>8. Max(S) \in S /\ \A i \in S : Max(S) >= i
  BY <1>7 DEF Max
<1> QED  BY <1>8

\* If the key has deltas, it is as the last one says.
LEMMA AfterLast ==
  ASSUME NEW ix, NEW s, NEW n \in Nat, NEW k,
         NEW m \in Own(s, n, k), \A i \in Own(s, n, k) : i <= m
  PROVE  After(ix, s, n, k) = Outcome(s[m])
<1>1. /\ Max(Own(s, n, k)) \in Own(s, n, k)
      /\ \A i \in Own(s, n, k) : i <= Max(Own(s, n, k))
  BY LastExists DEF Own
<1>2. Max(Own(s, n, k)) = m
  BY <1>1 DEF Own
<1> QED  BY <1>2 DEF After

\* Deltas of other keys leave the object alone.
LEMMA AfterOthers ==
  ASSUME NEW ix, NEW s, NEW m \in Nat, NEW n \in Nat, m <= n, NEW k,
         \A i \in m + 1 .. n : s[i].key # k
  PROVE  After(ix, s, n, k) = After(ix, s, m, k)
<1>1. Own(s, n, k) = Own(s, m, k)
  BY DEF Own
<1> QED  BY <1>1 DEF After

\* Only the first n deltas count.
LEMMA AfterPrefix ==
  ASSUME NEW ix, NEW s, NEW t, NEW n \in Nat, NEW k, \A m \in 1 .. n : s[m] = t[m]
  PROVE  After(ix, s, n, k) = After(ix, t, n, k)
<1>1. Own(s, n, k) = Own(t, n, k)
  BY DEF Own
<1>2. CASE Own(t, n, k) = {}
  BY <1>1, <1>2 DEF After
<1>3. CASE Own(t, n, k) # {}
  <2>1. Max(Own(t, n, k)) \in 1 .. n
    BY <1>3, LastExists DEF Own
  <2> QED  BY <1>1, <2>1 DEF After
<1> QED  BY <1>2, <1>3

\* The first n deltas of t are those of s after the first, which jx shows done.
FirstDone(ix, jx, s, t, n, k) ==
  /\ \A m \in 1 .. n : t[m] = s[m + 1]
  /\ s[1].key = k => jx[k] = Outcome(s[1])
  /\ s[1].key # k => jx[k] = ix[k]

\* Processing the first delta changes the indexer and nothing after it.
LEMMA AfterFirst ==
  ASSUME NEW ix, NEW jx, NEW s, NEW t, NEW n \in Nat, NEW n1 \in Nat, n < n1, n1 <= n + 1,
         NEW k, FirstDone(ix, jx, s, t, n, k)
  PROVE  After(jx, t, n, k) = After(ix, s, n1, k)
<1> n1 = n + 1
  OBVIOUS
<1> USE DEF FirstDone
<1>1. Own(s, n1, k) \ {1} = {i + 1 : i \in Own(t, n, k)}
  <2>1. ASSUME NEW i \in Own(s, n1, k) \ {1}
        PROVE  i - 1 \in Own(t, n, k) /\ i = (i - 1) + 1
    BY DEF Own
  <2>2. ASSUME NEW i \in Own(t, n, k)  PROVE i + 1 \in Own(s, n1, k) \ {1}
    BY DEF Own
  <2> QED  BY <2>1, <2>2
<1>2. CASE Own(t, n, k) = {}
  <2>1. CASE 1 \in Own(s, n1, k)
    <3>1. \A i \in Own(s, n1, k) : i = 1
      BY <1>1, <1>2
    <3>2. After(ix, s, n1, k) = Outcome(s[1]) /\ s[1].key = k
      <4>1. \A i \in Own(s, n1, k) : i <= 1
        BY <3>1
      <4>2. After(ix, s, n1, k) = Outcome(s[1])
        BY <2>1, <4>1, AfterLast
      <4> QED  BY <2>1, <4>2 DEF Own
    <3> QED  BY <1>2, <3>2 DEF After
  <2>2. CASE 1 \notin Own(s, n1, k)
    <3>1. Own(s, n1, k) = {} /\ s[1].key # k
      BY <1>1, <1>2, <2>2 DEF Own
    <3> QED  BY <1>2, <3>1 DEF After
  <2> QED  BY <2>1, <2>2
<1>3. CASE Own(t, n, k) # {}
  <2> DEFINE x == Max(Own(t, n, k))
  <2>1. x \in Own(t, n, k) /\ \A i \in Own(t, n, k) : i <= x
    <3>1. Own(t, n, k) \subseteq 1 .. n
      BY DEF Own
    <3> QED  BY <1>3, <3>1, LastExists
  <2>2. x \in 1 .. n
    BY <2>1 DEF Own
  <2>3. x + 1 \in Own(s, n1, k) /\ s[x + 1] = t[x]
    BY <1>1, <2>1, <2>2
  <2>4. ASSUME NEW i \in Own(s, n1, k)  PROVE i <= x + 1
    <3>1. CASE i = 1
      BY <2>2, <3>1
    <3>2. CASE i # 1
      <4>1. PICK j \in Own(t, n, k) : i = j + 1
        BY <1>1, <3>2
      <4>2. j <= x /\ j \in Nat
        BY <2>1, <4>1 DEF Own
      <4> QED  BY <2>2, <4>1, <4>2
    <3> QED  BY <3>1, <3>2
  <2> HIDE DEF x
  <2>5. After(ix, s, n1, k) = Outcome(t[x])
    BY <2>3, <2>4, AfterLast
  <2>6. After(jx, t, n, k) = Outcome(t[x])
    BY <2>1, AfterLast
  <2> QED  BY <2>5, <2>6
<1> QED  BY <1>2, <1>3

-----------------------------------------------------------------------------
(* The inductive invariant.                                                *)

\* What a delta finds: a deletion, also one that a list finds, carries the
\* object that was there; an update that does not change the version changes
\* nothing; and one of a pod that is being deleted leaves the annotation, if
\* the cluster does and no watch may break meanwhile.
DeletingKeepsAnnotation ==
  /\ "AnnotateDeleting" \notin Disturbances
  /\ ~({"GracePeriod", "Relist"} \subseteq Disturbances)

Fits(o, d) ==
  IF d.type = "Upsert"
  THEN o # Absent =>
         /\ o.version = d.object.version => o = d.object
         /\ DeletingKeepsAnnotation /\ d.object.deleting
              => o.annotation = d.object.annotation
  ELSE o = d.object

AllFit(ix, s, n) == \A m \in 1 .. n : Fits(After(ix, s, m - 1, s[m].key), s[m])

DeltasFit == AllFit(indexer, deltas, Len(deltas))

\* The objects of key k that the indexer ix has or the deltas of s bring.
Known(ix, s, k) ==
  ({ix[k]} \cup {s[n].object : n \in Own(s, Len(s), k)}) \ {Absent}

\* A version stands for one object.
VersionsIdentify ==
  \A k \in Pods :
    /\ \A o \in Known(indexer, deltas, k) :
         /\ o.version <= changes
         /\ pods[k] # Absent /\ o.version = pods[k].version => o = pods[k]
    /\ pods[k] # Absent => pods[k].version <= changes

\* Without grace periods, no pod has a deletion timestamp.
NoneLinger ==
  "GracePeriod" \notin Disturbances => \A k \in Pods : pods[k] # Absent => ~pods[k].deleting

IInv == TypeOK /\ DeltasLeadToCluster /\ DeltasFit /\ VersionsIdentify /\ NoneLinger

\* The state's view is the one after all its deltas.
LEMMA ViewIsAfter == \A s, k : View(s, k) = After(indexer, s, Len(s), k)
BY DEF View, After, Own

\* After deltas there is an object, or none.
LEMMA AfterType ==
  ASSUME NEW ix \in [Pods -> Objects \cup {Absent}], NEW s \in Seq(Deltas),
         NEW n \in 0 .. Len(s), NEW k \in Pods
  PROVE  /\ After(ix, s, n, k) \in Objects \cup {Absent}
         /\ \/ After(ix, s, n, k) = Absent
            \/ After(ix, s, n, k) = ix[k]
            \/ \E m \in Own(s, n, k) : After(ix, s, n, k) = s[m].object
<1>1. CASE Own(s, n, k) = {}
  BY <1>1 DEF After
<1>2. CASE Own(s, n, k) # {}
  <2> DEFINE x == Max(Own(s, n, k))
  <2>1. x \in Own(s, n, k)
    <3>1. n \in Nat /\ Own(s, n, k) \in SUBSET (1 .. n)
      BY DEF Own
    <3> QED  BY <1>2, <3>1, LastExists
  <2>2. s[x] \in Deltas
    BY <2>1 DEF Own
  <2> HIDE DEF x
  <2>3. s[x].object \in Objects
    BY <2>2 DEF Deltas
  <2>4. After(ix, s, n, k) = Outcome(s[x])
    BY <1>2 DEF After, x
  <2> QED  BY <2>1, <2>3, <2>4 DEF Outcome
<1> QED  BY <1>1, <1>2

\* What is known of a key are objects.
LEMMA KnownType ==
  ASSUME NEW ix \in [Pods -> Objects \cup {Absent}], NEW s \in Seq(Deltas), NEW k \in Pods
  PROVE  Known(ix, s, k) \subseteq Objects
<1> SUFFICES ASSUME NEW o \in Known(ix, s, k)  PROVE o \in Objects
  OBVIOUS
<1>1. CASE o = ix[k]
  BY <1>1 DEF Known
<1>2. CASE o # ix[k]
  <2>1. PICK n \in 1 .. Len(s) : o = s[n].object
    BY <1>2 DEF Known, Own
  <2>2. s[n] \in Deltas
    OBVIOUS
  <2> QED  BY <2>1, <2>2 DEF Deltas
<1> QED  BY <1>1, <1>2

\* What fits in a queue fits in one that continues it.
LEMMA AllFitPrefix ==
  ASSUME NEW ix, NEW s, NEW t, NEW n \in Nat, \A m \in 1 .. n : s[m] = t[m],
         AllFit(ix, s, n)
  PROVE  AllFit(ix, t, n)
<1> SUFFICES ASSUME NEW m \in 1 .. n
             PROVE  Fits(After(ix, t, m - 1, t[m].key), t[m])
  BY DEF AllFit
<1>1. Fits(After(ix, s, m - 1, s[m].key), s[m]) /\ s[m] = t[m]
  BY DEF AllFit
<1>2. After(ix, s, m - 1, s[m].key) = After(ix, t, m - 1, s[m].key)
  BY AfterPrefix
<1> QED  BY <1>1, <1>2

\* The indexer once the first delta of s has been processed.
Processed(ix, s) == [ix EXCEPT ![s[1].key] = Outcome(s[1])]

\* The object after the first delta has been processed is the one after the rest.
LEMMA AfterTail ==
  ASSUME NEW ix \in [Pods -> Objects \cup {Absent}], NEW s \in Seq(Deltas),
         NEW n \in 1 .. Len(s), NEW k \in Pods
  PROVE  After(Processed(ix, s), Tail(s), n - 1, k) = After(ix, s, n, k)
<1>1. s # << >> /\ n - 1 \in Nat /\ n \in Nat /\ n - 1 < n /\ n <= (n - 1) + 1
  OBVIOUS
<1>2. FirstDone(ix, Processed(ix, s), s, Tail(s), n - 1, k)
  BY <1>1 DEF FirstDone, Processed
<1> QED  BY <1>1, <1>2, AfterFirst

\* What fits in a queue fits in the rest of it once the first delta has been
\* processed.
LEMMA AllFitTail ==
  ASSUME NEW ix \in [Pods -> Objects \cup {Absent}], NEW s \in Seq(Deltas), s # << >>,
         AllFit(ix, s, Len(s))
  PROVE  AllFit(Processed(ix, s), Tail(s), Len(s) - 1)
<1> SUFFICES ASSUME NEW m \in 1 .. Len(s) - 1
             PROVE  Fits(After(Processed(ix, s), Tail(s), m - 1, Tail(s)[m].key), Tail(s)[m])
  BY DEF AllFit
<1>1. m + 1 \in 1 .. Len(s) /\ Tail(s)[m] = s[m + 1] /\ (m + 1) - 1 = m /\ m \in 1 .. Len(s)
  OBVIOUS
<1>2. Fits(After(ix, s, m, s[m + 1].key), s[m + 1])
  BY <1>1 DEF AllFit
<1>3. s[m + 1].key \in Pods
  <2>1. s[m + 1] \in Deltas
    BY <1>1
  <2> QED  BY <2>1 DEF Deltas
<1>4. After(Processed(ix, s), Tail(s), m - 1, s[m + 1].key) = After(ix, s, m, s[m + 1].key)
  BY <1>1, <1>3, AfterTail
<1> QED  BY <1>1, <1>2, <1>4

-----------------------------------------------------------------------------
(* Lists.                                                                  *)

\* u has each element of S exactly once.
Lists(u, S) ==
  /\ u \in Seq(S)
  /\ \A i, j \in 1 .. Len(u) : u[i] = u[j] => i = j
  /\ \A x \in S : \E i \in 1 .. Len(u) : u[i] = x

\* SetToSeqs gives every element one place.
LEMMA ListsAll ==
  ASSUME NEW S, IsFiniteSet(S), NEW u \in SetToSeqs(S)
  PROVE  Lists(u, S)
<1> DEFINE n == Cardinality(S)
<1>1. n \in Nat
  BY FS_CardinalityType
<1>2. /\ u \in [1 .. n -> S]
      /\ \A i, j \in 1 .. n : i # j => u[i] # u[j]
  BY DEF SetToSeqs
<1>3. u \in Seq(S) /\ Len(u) = n
  BY <1>1, <1>2
<1>4. u \in Injection(1 .. n, S)
  BY <1>2 DEF Injection, IsInjective
<1>5. IsFiniteSet(1 .. n) /\ Cardinality(1 .. n) = n
  BY <1>1, FS_Interval
<1>6. u \in Surjection(1 .. n, S)
  BY <1>4, <1>5, FS_Injection
<1> QED  BY <1>2, <1>3, <1>6 DEF Surjection, Lists

\* What the queue s is continued with when the pods are listed: each key at
\* most once, as it is or as gone, and every key that s does not lead to pods.
IsSnapshot(s, z) ==
  /\ z \in Seq(Deltas)
  /\ \A i, j \in 1 .. Len(z) : z[i].key = z[j].key => i = j
  /\ \A i \in 1 .. Len(z) :
       LET k == z[i].key
       IN  \/ pods[k] # Absent /\ z[i] = Upsert(k, pods[k])
           \/ pods[k] = Absent /\ View(s, k) # Absent /\ z[i] = Tombstone(k, View(s, k))
  /\ \A k \in Pods : (\E i \in 1 .. Len(z) : z[i].key = k) \/ View(s, k) = pods[k]

\* Replace adds tombstones for what is gone and upserts for what is there, one
\* for each key.
LEMMA SnapshotsAreSnapshots ==
  ASSUME pods \in [Pods -> Objects \cup {Absent}],
         indexer \in [Pods -> Objects \cup {Absent}],
         NEW s \in Seq(Deltas), NEW z \in Snapshots(s)
  PROVE  IsSnapshot(s, z)
<1>1. PICK t \in SetToSeqs(Gone(s)), u \in SetToSeqs(Here) :
        z = Tombstones(s, t) \o Upserts(u, pods)
  BY DEF Snapshots
<1> DEFINE T == Tombstones(s, t)
           U == Upserts(u, pods)
<1>2. IsFiniteSet(Gone(s)) /\ IsFiniteSet(Here)
  BY PodsAssumption, FS_Subset DEF Gone, Here
<1>3. /\ t \in Seq(Gone(s))
      /\ \A i, j \in 1 .. Len(t) : t[i] = t[j] => i = j
      /\ \A x \in Gone(s) : \E i \in 1 .. Len(t) : t[i] = x
  <2>1. Lists(t, Gone(s))
    BY <1>2, ListsAll
  <2> QED  BY <2>1 DEF Lists
<1>4. /\ u \in Seq(Here)
      /\ \A i, j \in 1 .. Len(u) : u[i] = u[j] => i = j
      /\ \A x \in Here : \E i \in 1 .. Len(u) : u[i] = x
  <2>1. Lists(u, Here)
    BY <1>2, ListsAll
  <2> QED  BY <2>1 DEF Lists
<1>5. \A k \in Gone(s) : k \in Pods /\ View(s, k) \in Objects
  <2>1. \A k \in Pods : View(s, k) \in Objects \cup {Absent}
    BY ViewIsAfter, AfterType
  <2> QED  BY <2>1 DEF Gone
<1>6. T \in Seq(Deltas) /\ Len(T) = Len(t) /\ Len(t) \in Nat
  <2>1. \A n \in 1 .. Len(t) : t[n] \in Gone(s)
    BY <1>3
  <2>2. \A n \in 1 .. Len(t) : Tombstone(t[n], View(s, t[n])) \in Deltas
    BY <1>5, <2>1 DEF Tombstone, Deltas
  <2> QED  BY <1>3, <2>2 DEF Tombstones
<1>7. U \in Seq(Deltas) /\ Len(U) = Len(u) /\ Len(u) \in Nat
  <2>1. \A n \in 1 .. Len(u) : u[n] \in Here
    BY <1>4
  <2>2. \A n \in 1 .. Len(u) : Upsert(u[n], pods[u[n]]) \in Deltas
    BY <2>1 DEF Upsert, Deltas, Here
  <2> QED  BY <1>4, <2>2 DEF Upserts
<1>8. /\ z \in Seq(Deltas) /\ Len(z) = Len(t) + Len(u)
      /\ \A i \in 1 .. Len(t) : z[i] = Tombstone(t[i], View(s, t[i]))
      /\ \A i \in 1 .. Len(u) : z[Len(t) + i] = Upsert(u[i], pods[u[i]])
  <2>1. z = T \o U
    BY <1>1
  <2>2. /\ \A i \in 1 .. Len(t) : T[i] = Tombstone(t[i], View(s, t[i]))
        /\ \A i \in 1 .. Len(u) : U[i] = Upsert(u[i], pods[u[i]])
    BY DEF Tombstones, Upserts
  <2> HIDE DEF T, U
  <2>3. z \in Seq(Deltas) /\ Len(z) = Len(t) + Len(u)
    <3>1. T \o U \in Seq(Deltas)
      BY <1>6, <1>7, ConcatProperties
    <3>2. Len(T \o U) = Len(T) + Len(U)
      BY <1>6, <1>7, ConcatProperties
    <3> QED  BY <1>6, <1>7, <2>1, <3>1, <3>2
  <2>4. \A i \in 1 .. Len(t) : z[i] = T[i]
    BY <1>6, <1>7, <2>1
  <2>5. \A i \in 1 .. Len(u) : z[Len(t) + i] = U[i]
    BY <1>6, <1>7, <2>1
  <2> QED  BY <2>2, <2>3, <2>4, <2>5
<1> HIDE DEF T, U
<1>9. ASSUME NEW i \in 1 .. Len(z)
      PROVE  \/ /\ i \in 1 .. Len(t)
                /\ z[i] = Tombstone(t[i], View(s, t[i])) /\ z[i].key = t[i] /\ t[i] \in Gone(s)
             \/ /\ i - Len(t) \in 1 .. Len(u)
                /\ z[i] = Upsert(u[i - Len(t)], pods[u[i - Len(t)]])
                /\ z[i].key = u[i - Len(t)] /\ u[i - Len(t)] \in Here
  <2>1. CASE i \in 1 .. Len(t)
    <3>1. z[i] = Tombstone(t[i], View(s, t[i])) /\ t[i] \in Gone(s)
      BY <1>3, <1>8, <2>1
    <3> QED  BY <2>1, <3>1 DEF Tombstone
  <2>2. CASE i \notin 1 .. Len(t)
    <3> DEFINE j == i - Len(t)
    <3>1. j \in 1 .. Len(u) /\ i = Len(t) + j
      BY <1>6, <1>7, <1>8, <2>2
    <3> HIDE DEF j
    <3>2. z[Len(t) + j] = Upsert(u[j], pods[u[j]])
      BY <1>8, <3>1
    <3>3. u[j] \in Here
      BY <1>4, <3>1
    <3>4. z[i] = Upsert(u[j], pods[u[j]])
      BY <3>1, <3>2
    <3> QED  BY <3>1, <3>3, <3>4 DEF Upsert, j
  <2> QED  BY <2>1, <2>2
<1>10. ASSUME NEW i \in 1 .. Len(z), NEW j \in 1 .. Len(z), z[i].key = z[j].key
       PROVE  i = j
  <2>1. Gone(s) \cap Here = {}
    BY DEF Gone, Here
  <2>2. CASE i \in 1 .. Len(t) /\ t[i] \in Gone(s) /\ z[i].key = t[i]
    <3>1. z[j].key \notin Here
      BY <1>10, <2>1, <2>2
    <3>2. j \in 1 .. Len(t) /\ z[j].key = t[j]
      BY <1>9, <3>1
    <3> QED  BY <1>3, <1>10, <2>2, <3>2
  <2>3. CASE i - Len(t) \in 1 .. Len(u) /\ u[i - Len(t)] \in Here /\ z[i].key = u[i - Len(t)]
    <3>1. z[j].key \notin Gone(s)
      BY <1>10, <2>1, <2>3
    <3>2. j - Len(t) \in 1 .. Len(u) /\ z[j].key = u[j - Len(t)]
      BY <1>9, <3>1
    <3>3. i - Len(t) = j - Len(t)
      BY <1>4, <1>10, <2>3, <3>2
    <3> QED  BY <1>6, <1>8, <3>3
  <2> QED  BY <1>9, <2>2, <2>3
<1>11. ASSUME NEW k \in Pods
       PROVE  \/ \E i \in 1 .. Len(z) : z[i].key = k
              \/ pods[k] = Absent /\ View(s, k) = Absent
  <2>1. CASE k \in Gone(s)
    <3>1. PICK i \in 1 .. Len(t) : t[i] = k
      BY <1>3, <2>1
    <3>2. z[i] = Tombstone(k, View(s, k)) /\ i \in 1 .. Len(z)
      BY <1>6, <1>7, <1>8, <3>1
    <3> QED  BY <3>2 DEF Tombstone
  <2>2. CASE k \in Here
    <3>1. PICK i \in 1 .. Len(u) : u[i] = k
      BY <1>4, <2>2
    <3>2. z[Len(t) + i] = Upsert(k, pods[k])
      BY <1>8, <3>1
    <3>3. Len(t) + i \in 1 .. Len(z)
      BY <1>6, <1>7, <1>8
    <3> QED  BY <3>2, <3>3 DEF Upsert
  <2> QED  BY <2>1, <2>2 DEF Gone, Here
<1>12. ASSUME NEW i \in 1 .. Len(z)
       PROVE  LET k == z[i].key
              IN  \/ pods[k] # Absent /\ z[i] = Upsert(k, pods[k])
                  \/ /\ pods[k] = Absent /\ View(s, k) # Absent
                     /\ z[i] = Tombstone(k, View(s, k))
  BY <1>9 DEF Gone, Here
<1> QED  BY <1>8, <1>10, <1>11, <1>12 DEF IsSnapshot

\* A pod that is listed is one the deltas of s lead up to: it may follow what
\* they make of it.
MayFollow(s, k) ==
  LET o == View(s, k)
  IN  pods[k] # Absent /\ o # Absent =>
        /\ o.version = pods[k].version => o = pods[k]
        /\ DeletingKeepsAnnotation /\ pods[k].deleting
             => o.annotation = pods[k].annotation

\* The queue continued with a list leads to the cluster as it is.
LEMMA ListLeadsToCluster ==
  ASSUME pods \in [Pods -> Objects \cup {Absent}],
         indexer \in [Pods -> Objects \cup {Absent}],
         NEW s \in Seq(Deltas), NEW z, IsSnapshot(s, z),
         AllFit(indexer, s, Len(s)), \A k \in Pods : MayFollow(s, k)
  PROVE  /\ s \o z \in Seq(Deltas)
         /\ \A k \in Pods : View(s \o z, k) = pods[k]
         /\ AllFit(indexer, s \o z, Len(s \o z))
         /\ \A k \in Pods : Known(indexer, s \o z, k)
                            \subseteq Known(indexer, s, k) \cup ({pods[k]} \ {Absent})
<1> DEFINE q == s \o z
<1>1. /\ z \in Seq(Deltas) /\ Len(s) \in Nat /\ Len(z) \in Nat
      /\ q \in Seq(Deltas) /\ Len(q) = Len(s) + Len(z)
  BY ConcatProperties DEF IsSnapshot
<1>2. /\ \A n \in 1 .. Len(s) : q[n] = s[n]
      /\ \A n \in 1 .. Len(z) : q[Len(s) + n] = z[n]
  BY <1>1, ConcatProperties
<1> HIDE DEF q
<1>3. \A k \in Pods : After(indexer, q, Len(s), k) = View(s, k)
  <2>1. \A k \in Pods : After(indexer, q, Len(s), k) = After(indexer, s, Len(s), k)
    BY <1>1, <1>2, AfterPrefix
  <2> QED  BY <2>1, ViewIsAfter
<1>4. ASSUME NEW i \in 1 .. Len(z)
      PROVE  /\ z[i] \in Deltas /\ z[i].key \in Pods
             /\ \A n \in Len(s) + 1 .. Len(q) : n # Len(s) + i => q[n].key # z[i].key
             /\ \/ pods[z[i].key] # Absent /\ z[i] = Upsert(z[i].key, pods[z[i].key])
                \/ /\ pods[z[i].key] = Absent /\ View(s, z[i].key) # Absent
                   /\ z[i] = Tombstone(z[i].key, View(s, z[i].key))
  <2>1. z[i] \in Deltas
    BY <1>1
  <2>2. ASSUME NEW n \in Len(s) + 1 .. Len(q), n # Len(s) + i
        PROVE  q[n].key # z[i].key
    <3>1. PICK j \in 1 .. Len(z) : n = Len(s) + j
      <4>1. n - Len(s) \in 1 .. Len(z) /\ n = Len(s) + (n - Len(s))
        BY <1>1
      <4> QED  BY <4>1
    <3>2. j # i /\ q[n] = z[j]
      BY <1>2, <2>2, <3>1
    <3> QED  BY <3>2 DEF IsSnapshot
  <2> QED  BY <2>1, <2>2 DEF IsSnapshot, Deltas
<1>5. ASSUME NEW k \in Pods  PROVE View(q, k) = pods[k]
  <2>1. View(q, k) = After(indexer, q, Len(q), k)
    BY ViewIsAfter
  <2>2. CASE \E i \in 1 .. Len(z) : z[i].key = k
    <3>1. PICK i \in 1 .. Len(z) : z[i].key = k
      BY <2>2
    <3> DEFINE m == Len(s) + i
    <3>2. m \in 1 .. Len(q) /\ q[m] = z[i]
      BY <1>1, <1>2
    <3>3. ASSUME NEW n \in Own(q, Len(q), k)  PROVE n <= m
      <4>1. n \in 1 .. Len(q) /\ q[n].key = k
        BY DEF Own
      <4>2. ASSUME n > m  PROVE FALSE
        <5>1. n \in Len(s) + 1 .. Len(q) /\ n # Len(s) + i
          BY <1>1, <4>1, <4>2
        <5> QED  BY <1>4, <3>1, <4>1, <5>1
      <4> QED  BY <3>2, <4>1, <4>2
    <3>4. After(indexer, q, Len(q), k) = Outcome(z[i])
      <4>1. m \in Own(q, Len(q), k)
        BY <3>1, <3>2 DEF Own
      <4> HIDE DEF m
      <4>2. Len(q) \in Nat /\ \A n \in Own(q, Len(q), k) : n <= m
        BY <1>1, <3>3
      <4>3. After(indexer, q, Len(q), k) = Outcome(q[m])
        BY <4>1, <4>2, AfterLast
      <4> QED  BY <3>2, <4>3
    <3>5. Outcome(z[i]) = pods[k]
      <4>1. \/ pods[k] # Absent /\ z[i] = Upsert(k, pods[k])
            \/ pods[k] = Absent /\ z[i] = Tombstone(k, View(s, k))
        BY <1>4, <3>1
      <4> QED  BY <4>1 DEF Outcome, Upsert, Tombstone
    <3> QED  BY <2>1, <3>4, <3>5
  <2>3. CASE /\ \A i \in 1 .. Len(z) : z[i].key # k
             /\ View(s, k) = pods[k]
    <3>1. ASSUME NEW n \in Len(s) + 1 .. Len(q)  PROVE q[n].key # k
      <4>1. n - Len(s) \in 1 .. Len(z) /\ n = Len(s) + (n - Len(s))
        BY <1>1
      <4> QED  BY <1>2, <2>3, <4>1
    <3>2. After(indexer, q, Len(q), k) = After(indexer, q, Len(s), k)
      BY <1>1, <3>1, AfterOthers
    <3> QED  BY <1>3, <2>1, <2>3, <3>2
  <2> QED  BY <2>2, <2>3 DEF IsSnapshot
<1>6. AllFit(indexer, q, Len(q))
  <2> SUFFICES ASSUME NEW n \in 1 .. Len(q)
               PROVE  Fits(After(indexer, q, n - 1, q[n].key), q[n])
    BY DEF AllFit
  <2>1. CASE n \in 1 .. Len(s)
    <3>1. AllFit(indexer, q, Len(s))
      BY <1>1, <1>2, AllFitPrefix
    <3> QED  BY <2>1, <3>1 DEF AllFit
  <2>2. CASE n \notin 1 .. Len(s)
    <3>1. PICK i \in 1 .. Len(z) : n = Len(s) + i
      <4>1. n - Len(s) \in 1 .. Len(z) /\ n = Len(s) + (n - Len(s))
        BY <1>1, <2>2
      <4> QED  BY <4>1
    <3> DEFINE k == z[i].key
    <3>2. k \in Pods /\ q[n] = z[i]
      BY <1>2, <1>4, <3>1
    <3>3. n - 1 \in Nat /\ Len(s) <= n - 1 /\ \A j \in Len(s) + 1 .. n - 1 : q[j].key # k
      <4>1. n - 1 \in Nat /\ Len(s) <= n - 1
        BY <1>1, <3>1
      <4>2. ASSUME NEW j \in Len(s) + 1 .. n - 1  PROVE q[j].key # k
        <5>1. j \in Len(s) + 1 .. Len(q) /\ j # Len(s) + i
          BY <1>1, <3>1
        <5> QED  BY <1>4, <5>1
      <4> QED  BY <4>1, <4>2
    <3>4. After(indexer, q, n - 1, k) = View(s, k)
      <4>1. After(indexer, q, n - 1, k) = After(indexer, q, Len(s), k)
        BY <1>1, <3>3, AfterOthers
      <4> QED  BY <1>3, <3>2, <4>1
    <3>5. Fits(View(s, k), z[i])
      <4>1. MayFollow(s, k)
        BY <3>2
      <4>2. CASE pods[k] # Absent /\ z[i] = Upsert(k, pods[k])
        BY <4>1, <4>2 DEF Fits, MayFollow, Upsert
      <4>3. CASE z[i] = Tombstone(k, View(s, k))
        BY <4>3 DEF Fits, Tombstone
      <4> QED  BY <1>4, <4>2, <4>3
    <3> QED  BY <3>2, <3>4, <3>5
  <2> QED  BY <2>1, <2>2
<1>7. ASSUME NEW k \in Pods, NEW o \in Known(indexer, q, k)
      PROVE  o \in Known(indexer, s, k) \cup ({pods[k]} \ {Absent})
  <2>1. CASE o = indexer[k]
    BY <1>7, <2>1 DEF Known
  <2>2. CASE \E n \in Own(q, Len(q), k) : o = q[n].object
    <3>1. PICK n \in 1 .. Len(q) : q[n].key = k /\ o = q[n].object
      BY <2>2 DEF Own
    <3>2. CASE n \in 1 .. Len(s)
      BY <1>2, <1>7, <3>1, <3>2 DEF Known, Own
    <3>3. CASE n \notin 1 .. Len(s)
      <4>1. PICK i \in 1 .. Len(z) : n = Len(s) + i
        <5>1. n - Len(s) \in 1 .. Len(z) /\ n = Len(s) + (n - Len(s))
          BY <1>1, <3>3
        <5> QED  BY <5>1
      <4>2. q[n] = z[i]
        BY <1>2, <4>1
      <4>3. \/ pods[k] # Absent /\ o = pods[k]
            \/ View(s, k) # Absent /\ o = View(s, k)
        <5>1. z[i].key = k /\ o = z[i].object
          BY <3>1, <4>2
        <5>2. \/ pods[k] # Absent /\ z[i] = Upsert(k, pods[k])
              \/ View(s, k) # Absent /\ z[i] = Tombstone(k, View(s, k))
          BY <1>4, <5>1
        <5>3. /\ \A x, y : Upsert(x, y).object = y
              /\ \A x, y : Tombstone(x, y).object = y
          BY DEF Upsert, Tombstone
        <5> QED  BY <5>1, <5>2, <5>3
      <4>4. View(s, k) = Absent \/ View(s, k) \in Known(indexer, s, k)
        <5>1. /\ Len(s) \in 0 .. Len(s)
              /\ View(s, k) = After(indexer, s, Len(s), k)
          BY <1>1, ViewIsAfter
        <5>2. \/ View(s, k) = Absent
              \/ View(s, k) = indexer[k]
              \/ \E m \in Own(s, Len(s), k) : View(s, k) = s[m].object
          BY <5>1, AfterType
        <5> QED  BY <5>2 DEF Known
      <4> QED  BY <4>3, <4>4
    <3> QED  BY <3>2, <3>3
  <2> QED  BY <1>7, <2>1, <2>2 DEF Known
<1> QED  BY <1>1, <1>5, <1>6, <1>7 DEF q

-----------------------------------------------------------------------------
(* The steps.                                                              *)

\* DeltasLeadToCluster, by what comes after all deltas.
LEMMA LeadsByAfter ==
  /\ DeltasLeadToCluster
       <=> \A k \in Pods : After(indexer, deltas, Len(deltas), k) = pods[k]
  /\ DeltasLeadToCluster'
       <=> \A k \in Pods : After(indexer', deltas', Len(deltas'), k) = pods'[k]
BY DEF DeltasLeadToCluster, View, After, Own

\* One more delta decides about its key and leaves the others alone.
LEMMA OneMoreDelta ==
  ASSUME NEW ix \in [Pods -> Objects \cup {Absent}], NEW s \in Seq(Deltas),
         NEW d \in Deltas, AllFit(ix, s, Len(s)), Fits(After(ix, s, Len(s), d.key), d)
  PROVE  /\ Append(s, d) \in Seq(Deltas)
         /\ AllFit(ix, Append(s, d), Len(Append(s, d)))
         /\ \A k \in Pods : /\ After(ix, Append(s, d), Len(Append(s, d)), k)
                                 = IF d.key = k THEN Outcome(d) ELSE After(ix, s, Len(s), k)
                            /\ Known(ix, Append(s, d), k)
                                 \subseteq Known(ix, s, k)
                                             \cup (IF d.key = k THEN {d.object} ELSE {})
<1> DEFINE t == Append(s, d)
           n == Len(s)
<1>1. /\ n \in Nat /\ t \in Seq(Deltas) /\ Len(t) = n + 1
      /\ \A m \in 1 .. n : t[m] = s[m]
      /\ t[n + 1] = d
  OBVIOUS
<1> HIDE DEF t, n
<1>2. \A k : After(ix, t, n, k) = After(ix, s, n, k)
  BY <1>1, AfterPrefix
<1>3. ASSUME NEW k \in Pods
      PROVE  After(ix, t, Len(t), k) = IF d.key = k THEN Outcome(d) ELSE After(ix, s, n, k)
  <2>1. CASE d.key = k
    <3>1. n + 1 \in Own(t, n + 1, k) /\ \A i \in Own(t, n + 1, k) : i <= n + 1
      BY <1>1, <2>1 DEF Own
    <3>2. After(ix, t, n + 1, k) = Outcome(t[n + 1])
      BY <1>1, <3>1, AfterLast
    <3> QED  BY <1>1, <2>1, <3>2
  <2>2. CASE d.key # k
    <3>1. \A i \in n + 1 .. n + 1 : t[i].key # k
      BY <1>1, <2>2
    <3>2. After(ix, t, n + 1, k) = After(ix, t, n, k)
      BY <1>1, <3>1, AfterOthers
    <3> QED  BY <1>1, <1>2, <2>2, <3>2
  <2> QED  BY <2>1, <2>2
<1>4. AllFit(ix, t, Len(t))
  <2>1. AllFit(ix, t, n)
    BY <1>1, AllFitPrefix DEF n
  <2>2. Fits(After(ix, t, n, t[n + 1].key), t[n + 1])
    BY <1>1, <1>2 DEF n
  <2>3. ASSUME NEW m \in 1 .. n + 1  PROVE Fits(After(ix, t, m - 1, t[m].key), t[m])
    <3>1. CASE m = n + 1
      BY <1>1, <2>2, <3>1
    <3>2. CASE m # n + 1
      BY <1>1, <2>1, <3>2 DEF AllFit
    <3> QED  BY <3>1, <3>2
  <2> QED  BY <1>1, <2>3 DEF AllFit
<1>5. ASSUME NEW k \in Pods, NEW o \in Known(ix, t, k)
      PROVE  o \in Known(ix, s, k) \cup (IF d.key = k THEN {d.object} ELSE {})
  <2>1. CASE o = ix[k]
    BY <1>5, <2>1 DEF Known
  <2>2. CASE o # ix[k]
    <3>1. PICK m \in 1 .. n + 1 : t[m].key = k /\ o = t[m].object
      BY <1>1, <2>2 DEF Known, Own
    <3>2. CASE m = n + 1
      BY <1>1, <3>1, <3>2
    <3>3. CASE m # n + 1
      <4>1. m \in 1 .. n /\ s[m].key = k /\ o = s[m].object
        BY <1>1, <3>1, <3>3
      <4> QED  BY <1>5, <4>1 DEF Known, Own, n
    <3> QED  BY <3>2, <3>3
  <2> QED  BY <2>1, <2>2
<1> QED  BY <1>1, <1>3, <1>4, <1>5 DEF t, n

\* At first the deltas are a list of the pods.
LEMMA InitEstablishesIInv == Init => IInv
<1> SUFFICES ASSUME Init  PROVE IInv
  OBVIOUS
<1> DEFINE e == << >>
<1>1. /\ pods \in [Pods -> Objects \cup {Absent}]
      /\ indexer \in [Pods -> Objects \cup {Absent}] /\ \A k \in Pods : indexer[k] = Absent
      /\ \A k \in Pods : pods[k] # Absent => /\ pods[k].version = 0
                                             /\ pods[k].deleting \in MayLinger
  <2>1. ASSUME NEW k \in Pods, pods[k] # Absent
        PROVE  /\ pods[k] \in Objects /\ pods[k].version = 0
               /\ pods[k].deleting \in MayLinger
    <3>1. pods[k] \in [annotation : Annotations, deleting : MayLinger, version : {0}]
      BY <2>1 DEF Init
    <3>2. PICK a \in Annotations, b \in MayLinger :
            pods[k] = [annotation |-> a, deleting |-> b, version |-> 0]
      BY <3>1
    <3>3. b \in BOOLEAN
      BY DEF MayLinger
    <3> QED  BY <3>2, <3>3 DEF Objects
  <2>2. pods \in [Pods -> Objects \cup {Absent}]
    <3>1. pods = [k \in Pods |-> pods[k]]
      BY DEF Init
    <3>2. \A k \in Pods : pods[k] \in Objects \cup {Absent}
      BY <2>1
    <3> QED  BY <3>1, <3>2
  <2>3. indexer \in [Pods -> Objects \cup {Absent}] /\ \A k \in Pods : indexer[k] = Absent
    BY DEF Init
  <2> QED  BY <2>1, <2>2, <2>3
<1>2. /\ e \in Seq(Deltas) /\ Len(e) = 0
      /\ \A k \in Pods : View(e, k) = Absent /\ Known(indexer, e, k) = {}
      /\ AllFit(indexer, e, Len(e))
  BY <1>1 DEF View, Known, Own, AllFit
<1>3. IsSnapshot(e, deltas)
  BY <1>1, <1>2, SnapshotsAreSnapshots DEF Init
<1>4. deltas \in Seq(Deltas) /\ e \o deltas = deltas
  BY <1>3, ConcatEmptySeq DEF IsSnapshot
<1>5. \A k \in Pods : MayFollow(e, k)
  BY <1>2 DEF MayFollow
<1> HIDE DEF e
<1>6. /\ \A k \in Pods : View(deltas, k) = pods[k]
      /\ AllFit(indexer, deltas, Len(deltas))
      /\ \A k \in Pods : Known(indexer, deltas, k) \subseteq {pods[k]} \ {Absent}
  <2>1. /\ \A k \in Pods : View(e \o deltas, k) = pods[k]
        /\ AllFit(indexer, e \o deltas, Len(e \o deltas))
        /\ \A k \in Pods : Known(indexer, e \o deltas, k)
                           \subseteq Known(indexer, e, k) \cup ({pods[k]} \ {Absent})
    BY <1>1, <1>2, <1>3, <1>5, ListLeadsToCluster
  <2>2. /\ \A k : View(e \o deltas, k) = View(deltas, k)
        /\ \A k : Known(indexer, e \o deltas, k) = Known(indexer, deltas, k)
        /\ AllFit(indexer, e \o deltas, Len(e \o deltas))
              <=> AllFit(indexer, deltas, Len(deltas))
    BY <1>4
  <2> QED  BY <1>2, <2>1, <2>2
<1>7. TypeOK
  BY <1>1, <1>4, MaxChangesAssumption DEF Init, TypeOK
<1>8. VersionsIdentify
  BY <1>1, <1>6 DEF VersionsIdentify, Init
<1>9. NoneLinger
  BY <1>1 DEF NoneLinger, MayLinger
<1> QED  BY <1>6, <1>7, <1>8, <1>9 DEF IInv, DeltasLeadToCluster, DeltasFit

\* Versions keep identifying objects while nothing new is known of the pods.
LEMMA KnownVersions ==
  ASSUME IInv, changes' \in Nat, changes' >= changes, pods' = pods,
         \A k \in Pods : Known(indexer', deltas', k)
                         \subseteq Known(indexer, deltas, k) \cup ({pods[k]} \ {Absent})
  PROVE  VersionsIdentify'
<1>1. /\ changes \in Nat
      /\ \A k \in Pods : pods[k] # Absent => pods[k].version \in Nat
      /\ \A k \in Pods : Known(indexer, deltas, k) \subseteq Objects
  BY KnownType, MaxChangesAssumption DEF IInv, TypeOK, Objects
<1>2. ASSUME NEW k \in Pods, pods[k] # Absent  PROVE pods[k].version <= changes'
  BY <1>1, <1>2 DEF IInv, VersionsIdentify
<1>3. ASSUME NEW k \in Pods, NEW o \in Known(indexer', deltas', k)
      PROVE  /\ o.version <= changes'
             /\ pods[k] # Absent /\ o.version = pods[k].version => o = pods[k]
  <2>1. CASE o = pods[k] /\ pods[k] # Absent
    BY <1>2, <2>1
  <2>2. CASE o \in Known(indexer, deltas, k)
    <3>1. o.version \in Nat
      BY <1>1, <2>2 DEF Objects
    <3>2. o.version <= changes
      BY <2>2 DEF IInv, VersionsIdentify
    <3> QED  BY <1>1, <2>2, <3>1, <3>2 DEF IInv, VersionsIdentify
  <2> QED  BY <1>3, <2>1, <2>2
<1> QED  BY <1>2, <1>3 DEF VersionsIdentify

\* A change of a pod is the next version of it.
LEMMA ChangeKeepsIInv ==
  ASSUME IInv, NEW k \in Pods, NEW o \in Objects \cup {Absent}, Change(k, o),
         o = Absent => pods[k] # Absent,
         o # Absent =>
           /\ o.version = changes + 1
           /\ "GracePeriod" \notin Disturbances => ~o.deleting
           /\ DeletingKeepsAnnotation /\ pods[k] # Absent /\ o.deleting
                => o.annotation = pods[k].annotation
  PROVE  IInv'
<1> DEFINE d == IF o = Absent THEN Deleted(k, pods[k]) ELSE Upsert(k, o)
<1>1. /\ pods \in [Pods -> Objects \cup {Absent}]
      /\ indexer \in [Pods -> Objects \cup {Absent}] /\ deltas \in Seq(Deltas)
      /\ changes \in Nat /\ changes + 1 \in 0 .. MaxChanges
  BY MaxChangesAssumption DEF IInv, TypeOK, Change
<1>2. /\ d \in Deltas /\ d.key = k /\ Outcome(d) = o
      /\ d.object = IF o = Absent THEN pods[k] ELSE o
      /\ d.type = IF o = Absent THEN "Deleted" ELSE "Upsert"
  BY <1>1 DEF Deltas, Deleted, Upsert, Outcome
<1>3. /\ deltas' = Append(deltas, d) /\ pods' = [pods EXCEPT ![k] = o]
      /\ changes' = changes + 1
      /\ indexer' = indexer /\ initial' = initial /\ notifications' = notifications
  BY DEF Change, store
<1> HIDE DEF d
<1>4. \A j \in Pods : After(indexer, deltas, Len(deltas), j) = pods[j]
  BY LeadsByAfter DEF IInv
<1>5. Fits(After(indexer, deltas, Len(deltas), d.key), d)
  <2>1. ASSUME o # Absent, pods[k] # Absent  PROVE pods[k].version # o.version
    <3>1. pods[k].version \in Nat /\ pods[k].version <= changes
      BY <1>1, <2>1 DEF IInv, VersionsIdentify, Objects
    <3> QED  BY <1>1, <2>1, <3>1
  <2>2. After(indexer, deltas, Len(deltas), d.key) = pods[k]
    BY <1>2, <1>4
  <2> QED  BY <1>2, <2>1, <2>2 DEF Fits
<1>6. /\ deltas' \in Seq(Deltas)
      /\ AllFit(indexer, deltas', Len(deltas'))
      /\ \A j \in Pods : /\ After(indexer, deltas', Len(deltas'), j)
                              = IF d.key = j THEN Outcome(d)
                                ELSE After(indexer, deltas, Len(deltas), j)
                         /\ Known(indexer, deltas', j)
                              \subseteq Known(indexer, deltas, j)
                                          \cup (IF d.key = j THEN {d.object} ELSE {})
  BY <1>1, <1>2, <1>3, <1>5, OneMoreDelta DEF IInv, DeltasFit
<1>7. DeltasLeadToCluster'
  BY <1>1, <1>2, <1>3, <1>4, <1>6, LeadsByAfter
<1>8. TypeOK'
  BY <1>1, <1>3, <1>6 DEF IInv, TypeOK
<1>9. VersionsIdentify'
  <2> SUFFICES ASSUME NEW j \in Pods
               PROVE  /\ \A x \in Known(indexer, deltas', j) :
                           /\ x.version <= changes'
                           /\ pods'[j] # Absent /\ x.version = pods'[j].version
                                => x = pods'[j]
                      /\ pods'[j] # Absent => pods'[j].version <= changes'
    BY <1>3 DEF VersionsIdentify
  <2>1. /\ \A x \in Known(indexer, deltas, j) : x.version \in Nat
        /\ pods[j] # Absent => pods[j].version \in Nat /\ pods[j].version <= changes
    <3>1. Known(indexer, deltas, j) \subseteq Objects
      BY <1>1, KnownType
    <3> QED  BY <1>1, <3>1 DEF IInv, VersionsIdentify, Objects
  <2>2. \A x \in Known(indexer, deltas, j) :
          /\ x.version <= changes
          /\ pods[j] # Absent /\ x.version = pods[j].version => x = pods[j]
    BY DEF IInv, VersionsIdentify
  <2>3. CASE j # k
    <3>1. pods'[j] = pods[j] /\ Known(indexer, deltas', j) \subseteq Known(indexer, deltas, j)
      BY <1>1, <1>2, <1>3, <1>6, <2>3
    <3> QED  BY <1>1, <1>3, <2>1, <2>2, <3>1
  <2>4. CASE j = k
    <3>1. /\ pods'[j] = o
          /\ Known(indexer, deltas', j) \subseteq Known(indexer, deltas, j) \cup {d.object}
      BY <1>1, <1>2, <1>3, <1>6, <2>4
    <3> QED  BY <1>1, <1>2, <1>3, <2>1, <2>2, <2>4, <3>1
  <2> QED  BY <2>3, <2>4
<1>10. NoneLinger'
  BY <1>1, <1>3 DEF IInv, NoneLinger
<1> QED  BY <1>3, <1>6, <1>7, <1>8, <1>9, <1>10 DEF IInv, DeltasFit

\* A change of the cluster, whichever it is.
LEMMA ClusterStepKeepsIInv == IInv /\ ClusterStep => IInv'
<1> SUFFICES ASSUME IInv, ClusterStep  PROVE IInv'
  OBVIOUS
<1>1. /\ changes + 1 \in Nat
      /\ \A k \in Pods : pods[k] \in Objects \cup {Absent}
      /\ \A k \in Pods : "GracePeriod" \notin Disturbances /\ pods[k] # Absent
                           => ~pods[k].deleting
  BY MaxChangesAssumption DEF IInv, TypeOK, NoneLinger
<1>2. ASSUME NEW k \in Pods, NEW a \in Annotations, CreatePod(k, a)
      PROVE  IInv'
  <2> DEFINE o == [annotation |-> a, deleting |-> FALSE, version |-> changes + 1]
  <2>1. o \in Objects /\ o.version = changes + 1 /\ ~o.deleting
    BY <1>1 DEF Objects
  <2>2. Change(k, o) /\ pods[k] = Absent
    BY <1>2 DEF CreatePod
  <2> HIDE DEF o
  <2>3. o # Absent
    BY <2>1, AbsentAssumption
  <2> QED  BY <2>1, <2>2, <2>3, ChangeKeepsIInv
<1>3. ASSUME NEW k \in Pods, NEW a \in Annotations, UpdatePod(k, a)
      PROVE  IInv'
  <2> DEFINE o == [pods[k] EXCEPT !.annotation = a, !.version = changes + 1]
  <2>1. pods[k] \in Objects
    BY <1>1, <1>3 DEF UpdatePod
  <2>2. /\ o \in Objects /\ o.version = changes + 1
        /\ o.annotation = a /\ o.deleting = pods[k].deleting
    BY <1>1, <2>1 DEF Objects
  <2>3. /\ Change(k, o) /\ pods[k] # Absent
        /\ pods[k].deleting /\ a # pods[k].annotation => "AnnotateDeleting" \in Disturbances
    BY <1>3 DEF UpdatePod
  <2> HIDE DEF o
  <2>4. o # Absent
    BY <2>2, AbsentAssumption
  <2>5. DeletingKeepsAnnotation /\ o.deleting => o.annotation = pods[k].annotation
    BY <2>2, <2>3 DEF DeletingKeepsAnnotation
  <2>6. "GracePeriod" \notin Disturbances => ~o.deleting
    BY <1>1, <2>2, <2>3
  <2> QED  BY <2>2, <2>3, <2>4, <2>5, <2>6, ChangeKeepsIInv
<1>4. ASSUME NEW k \in Pods, DeletePod(k)
      PROVE  IInv'
  <2> DEFINE o == [pods[k] EXCEPT !.deleting = TRUE, !.version = changes + 1]
  <2>1. pods[k] \in Objects
    BY <1>1, <1>4 DEF DeletePod
  <2>2. o \in Objects /\ o.version = changes + 1 /\ o.annotation = pods[k].annotation
    BY <1>1, <2>1 DEF Objects
  <2>3. Change(k, o) /\ "GracePeriod" \in Disturbances
    BY <1>4 DEF DeletePod
  <2> HIDE DEF o
  <2>4. o # Absent
    BY <2>2, AbsentAssumption
  <2> QED  BY <2>2, <2>3, <2>4, ChangeKeepsIInv
<1>5. ASSUME NEW k \in Pods, RemovePod(k)
      PROVE  IInv'
  <2>1. Absent \in Objects \cup {Absent} /\ pods[k] # Absent /\ Change(k, Absent)
    BY <1>5 DEF RemovePod
  <2> QED  BY <2>1, ChangeKeepsIInv
<1> QED  BY <1>2, <1>3, <1>4, <1>5 DEF ClusterStep

\* A list continues the deltas that had arrived.
LEMMA RelistKeepsIInv == IInv /\ Relist => IInv'
<1> SUFFICES ASSUME IInv, Relist  PROVE IInv'
  OBVIOUS
<1>1. /\ pods \in [Pods -> Objects \cup {Absent}]
      /\ indexer \in [Pods -> Objects \cup {Absent}] /\ deltas \in Seq(Deltas)
      /\ initial \in Nat /\ changes \in Nat /\ changes' \in 0 .. MaxChanges
      /\ changes' = changes + 1 /\ "Relist" \in Disturbances
      /\ UNCHANGED <<pods, initial, indexer, notifications>>
  BY MaxChangesAssumption DEF IInv, TypeOK, Relist, store
<1>2. PICK n \in initial .. Len(deltas) :
        \E z \in Snapshots(SubSeq(deltas, 1, n)) : deltas' = SubSeq(deltas, 1, n) \o z
  BY DEF Relist
<1> DEFINE s == SubSeq(deltas, 1, n)
<1>3. /\ s \in Seq(Deltas) /\ Len(s) = n /\ n \in Nat /\ n <= Len(deltas)
      /\ \A m \in 1 .. n : s[m] = deltas[m]
  BY <1>1
<1>4. PICK z \in Snapshots(s) : deltas' = s \o z
  BY <1>2
<1> HIDE DEF s
<1>5. IsSnapshot(s, z)
  BY <1>1, <1>3, <1>4, SnapshotsAreSnapshots
<1>6. AllFit(indexer, s, Len(s))
  <2>1. AllFit(indexer, deltas, n)
    BY <1>1, <1>3 DEF IInv, DeltasFit, AllFit
  <2>2. \A m \in 1 .. n : deltas[m] = s[m]
    BY <1>3
  <2>3. AllFit(indexer, s, n)
    BY <1>3, <2>1, <2>2, AllFitPrefix
  <2> QED  BY <1>3, <2>3
<1>7. \A k \in Pods : Known(indexer, s, k) \subseteq Known(indexer, deltas, k)
  <2> SUFFICES ASSUME NEW k \in Pods, NEW o \in Known(indexer, s, k), o # indexer[k]
               PROVE  o \in Known(indexer, deltas, k)
    BY DEF Known
  <2>1. PICK m \in 1 .. n : s[m].key = k /\ o = s[m].object /\ o # Absent
    BY <1>3 DEF Known, Own
  <2>2. m \in 1 .. Len(deltas) /\ deltas[m].key = k /\ o = deltas[m].object
    BY <1>1, <1>3, <2>1
  <2> QED  BY <2>1, <2>2 DEF Known, Own
<1>8. ASSUME NEW k \in Pods  PROVE MayFollow(s, k)
  <2>1. View(s, k) = Absent \/ View(s, k) \in Known(indexer, s, k)
    <3>1. View(s, k) = After(indexer, s, Len(s), k) /\ Len(s) \in 0 .. Len(s)
      BY <1>3, ViewIsAfter
    <3>2. \/ View(s, k) = Absent
          \/ View(s, k) = indexer[k]
          \/ \E m \in Own(s, Len(s), k) : View(s, k) = s[m].object
      BY <1>1, <1>3, <3>1, AfterType
    <3> QED  BY <3>2 DEF Known
  <2>2. pods[k] # Absent /\ View(s, k) # Absent /\ View(s, k).version = pods[k].version
          => View(s, k) = pods[k]
    BY <1>7, <2>1 DEF IInv, VersionsIdentify
  <2>3. DeletingKeepsAnnotation /\ pods[k] # Absent => ~pods[k].deleting
    BY <1>1 DEF IInv, NoneLinger, DeletingKeepsAnnotation
  <2> QED  BY <2>2, <2>3 DEF MayFollow
<1>9. /\ deltas' \in Seq(Deltas)
      /\ \A k \in Pods : View(deltas', k) = pods[k]
      /\ AllFit(indexer, deltas', Len(deltas'))
      /\ \A k \in Pods : Known(indexer, deltas', k)
                         \subseteq Known(indexer, s, k) \cup ({pods[k]} \ {Absent})
  <2>1. /\ s \o z \in Seq(Deltas)
        /\ \A k \in Pods : View(s \o z, k) = pods[k]
        /\ AllFit(indexer, s \o z, Len(s \o z))
        /\ \A k \in Pods : Known(indexer, s \o z, k)
                           \subseteq Known(indexer, s, k) \cup ({pods[k]} \ {Absent})
    BY <1>1, <1>3, <1>5, <1>6, <1>8, ListLeadsToCluster
  <2> QED  BY <1>4, <2>1
<1>10. DeltasLeadToCluster'
  <2>1. \A k \in Pods : After(indexer, deltas', Len(deltas'), k) = pods[k]
    BY <1>9, ViewIsAfter
  <2> QED  BY <1>1, <2>1, LeadsByAfter
<1>11. VersionsIdentify'
  BY <1>1, <1>7, <1>9, KnownVersions
<1>12. NoneLinger'
  BY <1>1 DEF IInv, NoneLinger
<1> QED  BY <1>1, <1>9, <1>10, <1>11, <1>12 DEF IInv, TypeOK, DeltasFit

\* Upserts of the keys in S, one for each.
ListsUpserts(z, S, o) ==
  /\ z \in Seq(Deltas)
  /\ \A i, j \in 1 .. Len(z) : z[i].key = z[j].key => i = j
  /\ \A i \in 1 .. Len(z) : \E k \in S : z[i] = Upsert(k, o[k])
  /\ \A k \in S : \E i \in 1 .. Len(z) : z[i] = Upsert(k, o[k])

\* The deltas of a resync are an upsert for each key of the indexer.
LEMMA UpsertsList ==
  ASSUME NEW S \in SUBSET Pods, NEW o, \A k \in S : o[k] \in Objects, NEW u \in SetToSeqs(S)
  PROVE  ListsUpserts(Upserts(u, o), S, o)
<1>1. /\ u \in Seq(S) /\ Len(u) \in Nat
      /\ \A i, j \in 1 .. Len(u) : u[i] = u[j] => i = j
      /\ \A x \in S : \E i \in 1 .. Len(u) : u[i] = x
  <2>1. Lists(u, S)
    BY PodsAssumption, FS_Subset, ListsAll
  <2> QED  BY <2>1 DEF Lists
<1> DEFINE U == Upserts(u, o)
<1>2. \A i \in 1 .. Len(u) : u[i] \in S
  BY <1>1
<1>3. \A i \in 1 .. Len(u) : Upsert(u[i], o[u[i]]) \in Deltas
  BY <1>2 DEF Upsert, Deltas
<1>4. U \in Seq(Deltas) /\ Len(U) = Len(u)
  BY <1>1, <1>3 DEF Upserts
<1>5. \A i \in 1 .. Len(u) : U[i] = Upsert(u[i], o[u[i]])
  BY DEF Upserts
<1> HIDE DEF U
<1>6. ASSUME NEW i \in 1 .. Len(u)  PROVE U[i].key = u[i]
  <2>1. Upsert(u[i], o[u[i]]).key = u[i]
    BY DEF Upsert
  <2> QED  BY <1>5, <2>1
<1>7. \A i, j \in 1 .. Len(U) : U[i].key = U[j].key => i = j
  BY <1>1, <1>4, <1>6
<1>8. \A i \in 1 .. Len(U) : \E k \in S : U[i] = Upsert(k, o[k])
  BY <1>2, <1>4, <1>5
<1>9. ASSUME NEW k \in S  PROVE \E i \in 1 .. Len(U) : U[i] = Upsert(k, o[k])
  <2>1. PICK i \in 1 .. Len(u) : u[i] = k
    BY <1>1
  <2> QED  BY <1>4, <1>5, <2>1
<1> QED  BY <1>4, <1>7, <1>8, <1>9 DEF U, ListsUpserts

\* A resync brings what the indexer holds of keys without a delta, which is
\* what the cluster holds of them.
LEMMA ResyncKeepsIInv == IInv /\ Resync => IInv'
<1> SUFFICES ASSUME IInv, Resync  PROVE IInv'
  OBVIOUS
<1> DEFINE S == KnownKeys \ KeysInQueue
<1>1. /\ pods \in [Pods -> Objects \cup {Absent}]
      /\ indexer \in [Pods -> Objects \cup {Absent}]
      /\ deltas \in Seq(Deltas) /\ changes \in Nat
      /\ UNCHANGED <<pods, changes, initial, indexer, notifications>>
  BY MaxChangesAssumption DEF IInv, TypeOK, Resync, store
<1>2. PICK u \in SetToSeqs(S) : deltas' = deltas \o Upserts(u, indexer)
  BY DEF Resync
<1> DEFINE z == Upserts(u, indexer)
<1>3. /\ z \in Seq(Deltas)
      /\ \A i, j \in 1 .. Len(z) : z[i].key = z[j].key => i = j
      /\ \A i \in 1 .. Len(z) : \E k \in S : z[i] = Upsert(k, indexer[k])
  <2>1. S \in SUBSET Pods /\ \A k \in S : indexer[k] \in Objects
    BY <1>1 DEF KnownKeys
  <2> HIDE DEF S
  <2>2. ListsUpserts(z, S, indexer)
    BY <2>1, UpsertsList
  <2> QED  BY <2>2 DEF ListsUpserts
<1> HIDE DEF z
<1>4. \A k \in Pods : View(deltas, k) = pods[k]
  BY DEF IInv, DeltasLeadToCluster
<1>5. ASSUME NEW k \in S  PROVE indexer[k] = pods[k] /\ pods[k] # Absent
  <2>1. k \in Pods /\ indexer[k] # Absent /\ \A n \in 1 .. Len(deltas) : deltas[n].key # k
    BY <1>1 DEF KnownKeys, KeysInQueue
  <2>2. View(deltas, k) = indexer[k]
    BY <2>1 DEF View
  <2> QED  BY <1>4, <2>1, <2>2
<1>6. IsSnapshot(deltas, z)
  <2>1. ASSUME NEW i \in 1 .. Len(z)
        PROVE  LET k == z[i].key
               IN  pods[k] # Absent /\ z[i] = Upsert(k, pods[k])
    <3>1. PICK k \in S : z[i] = Upsert(k, indexer[k])
      BY <1>3
    <3>2. z[i].key = k
      BY <3>1 DEF Upsert
    <3> QED  BY <1>5, <3>1, <3>2
  <2> HIDE DEF S
  <2> QED  BY <1>3, <1>4, <2>1 DEF IsSnapshot
<1>7. AllFit(indexer, deltas, Len(deltas)) /\ \A k \in Pods : MayFollow(deltas, k)
  BY <1>4 DEF IInv, DeltasFit, MayFollow
<1>8. /\ deltas' \in Seq(Deltas)
      /\ \A k \in Pods : View(deltas', k) = pods[k]
      /\ AllFit(indexer, deltas', Len(deltas'))
      /\ \A k \in Pods : Known(indexer, deltas', k)
                         \subseteq Known(indexer, deltas, k) \cup ({pods[k]} \ {Absent})
  <2>1. deltas' = deltas \o z
    BY <1>2 DEF z
  <2>2. /\ deltas \o z \in Seq(Deltas)
        /\ \A k \in Pods : View(deltas \o z, k) = pods[k]
        /\ AllFit(indexer, deltas \o z, Len(deltas \o z))
        /\ \A k \in Pods : Known(indexer, deltas \o z, k)
                           \subseteq Known(indexer, deltas, k) \cup ({pods[k]} \ {Absent})
    BY <1>1, <1>6, <1>7, ListLeadsToCluster
  <2> QED  BY <2>1, <2>2
<1>9. DeltasLeadToCluster'
  <2>1. \A k \in Pods : After(indexer, deltas', Len(deltas'), k) = pods[k]
    BY <1>8, ViewIsAfter
  <2> QED  BY <1>1, <2>1, LeadsByAfter
<1>10. VersionsIdentify'
  BY <1>1, <1>8, KnownVersions
<1>11. NoneLinger'
  BY <1>1 DEF IInv, NoneLinger
<1> QED  BY <1>1, <1>8, <1>9, <1>10, <1>11 DEF IInv, TypeOK, DeltasFit

\* What a notification that is sent says: the transition of the indexer, which
\* kind of transition it is, and that an update of the same version is none.
Tells(m, o, n) ==
  /\ m.old = o /\ m.new = n
  /\ m.type = "OnAdd" => o = Absent /\ n # Absent
  /\ m.type = "OnUpdate" => o # Absent /\ n # Absent /\ Fits(o, Upsert(m.key, n))
  /\ m.type \in {"OnDelete", "OnTombstone"} => o # Absent /\ n = Absent

\* ProcessDelta moves the indexer on by one delta and tells of it.
LEMMA ProcessDeltaTells ==
  ASSUME IInv, ProcessDelta
  PROVE  /\ deltas \in Seq(Deltas) /\ deltas # << >> /\ deltas' = Tail(deltas)
         /\ indexer' = Processed(indexer, deltas)
         /\ \E m \in Notices :
              /\ notifications' = Append(notifications, m)
              /\ Tells(m, indexer[m.key], m.new)
              /\ indexer' = [indexer EXCEPT ![m.key] = m.new]
<1> DEFINE d == Head(deltas)
<1>1. /\ deltas \in Seq(Deltas) /\ deltas # << >> /\ deltas' = Tail(deltas)
      /\ indexer \in [Pods -> Objects \cup {Absent}]
  BY DEF IInv, TypeOK, ProcessDelta
<1>2. d = deltas[1] /\ d \in Deltas /\ 1 \in 1 .. Len(deltas)
  BY <1>1
<1>3. /\ d.type \in {"Upsert", "Deleted", "Tombstone"}
      /\ d.key \in Pods /\ d.object \in Objects /\ d.object # Absent
      /\ indexer[d.key] \in Objects \cup {Absent}
  BY <1>1, <1>2, AbsentAssumption DEF Deltas
<1>4. Fits(indexer[d.key], d)
  <2>1. Fits(After(indexer, deltas, 0, d.key), d)
    BY <1>2 DEF IInv, DeltasFit, AllFit
  <2>2. After(indexer, deltas, 0, d.key) = indexer[d.key]
    BY DEF After, Own
  <2> QED  BY <2>1, <2>2
<1>5. indexer' = [indexer EXCEPT ![d.key] = Outcome(d)]
  BY DEF ProcessDelta, Outcome
<1>6. indexer' = Processed(indexer, deltas)
  BY <1>2, <1>5 DEF Processed
<1>7. \E m \in Notices : /\ notifications' = Append(notifications, m)
                         /\ m.key = d.key /\ m.new = Outcome(d)
                         /\ Tells(m, indexer[d.key], Outcome(d))
  <2> HIDE DEF d
  <2>1. CASE d.type = "Upsert" /\ indexer[d.key] = Absent
    <3> DEFINE m == [type |-> "OnAdd", key |-> d.key, old |-> Absent, new |-> d.object]
    <3>1. notifications' = Append(notifications, m)
      BY <2>1 DEF ProcessDelta, Notice, d
    <3>2. m \in Notices
      BY <1>3 DEF Notices
    <3>3. Tells(m, indexer[d.key], Outcome(d))
      BY <1>3, <2>1 DEF Tells, Outcome
    <3> QED  BY <2>1, <3>1, <3>2, <3>3 DEF Outcome
  <2>2. CASE d.type = "Upsert" /\ indexer[d.key] # Absent
    <3> DEFINE m == [type |-> "OnUpdate", key |-> d.key,
                     old |-> indexer[d.key], new |-> d.object]
    <3>1. notifications' = Append(notifications, m)
      BY <2>2 DEF ProcessDelta, Notice, d
    <3>2. m \in Notices
      BY <1>3 DEF Notices
    <3>3. Tells(m, indexer[d.key], Outcome(d))
      <4>1. Fits(indexer[d.key], Upsert(d.key, d.object))
        BY <1>4, <2>2 DEF Fits, Upsert
      <4> QED  BY <1>3, <2>2, <4>1 DEF Tells, Outcome
    <3> QED  BY <2>2, <3>1, <3>2, <3>3 DEF Outcome
  <2>3. CASE d.type \in {"Deleted", "Tombstone"}
    <3> DEFINE m == [type |-> IF d.type = "Deleted" THEN "OnDelete" ELSE "OnTombstone",
                     key |-> d.key, old |-> d.object, new |-> Absent]
    <3>1. notifications' = Append(notifications, m)
      BY <2>3 DEF ProcessDelta, Notice, d
    <3>2. m \in Notices
      BY <1>3 DEF Notices
    <3>3. indexer[d.key] = d.object
      BY <1>4, <2>3 DEF Fits
    <3>4. Tells(m, indexer[d.key], Outcome(d))
      BY <1>3, <2>3, <3>3 DEF Tells, Outcome
    <3> QED  BY <2>3, <3>1, <3>2, <3>4 DEF Outcome
  <2> QED  BY <1>3, <2>1, <2>2, <2>3
<1> QED  BY <1>1, <1>5, <1>6, <1>7

\* processDeltas moves what is known from the deltas to the indexer.
LEMMA ProcessDeltaKeepsIInv == IInv /\ ProcessDelta => IInv'
<1> SUFFICES ASSUME IInv, ProcessDelta  PROVE IInv'
  OBVIOUS
<1>1. /\ pods \in [Pods -> Objects \cup {Absent}]
      /\ indexer \in [Pods -> Objects \cup {Absent}]
      /\ deltas \in Seq(Deltas) /\ deltas # << >> /\ deltas' = Tail(deltas)
      /\ initial' \in Nat /\ notifications \in Seq(Notices)
      /\ changes \in Nat /\ UNCHANGED <<pods, changes>>
  BY MaxChangesAssumption DEF IInv, TypeOK, ProcessDelta
<1>2. /\ indexer' = Processed(indexer, deltas)
      /\ notifications' \in Seq(Notices)
  <2>1. PICK m \in Notices : notifications' = Append(notifications, m)
    BY ProcessDeltaTells
  <2>2. Append(notifications, m) \in Seq(Notices)
    BY <1>1, AppendProperties
  <2> QED  BY <2>1, <2>2, ProcessDeltaTells
<1>3. /\ deltas' \in Seq(Deltas) /\ Len(deltas') = Len(deltas) - 1
      /\ \A i \in 1 .. Len(deltas') : deltas'[i] = deltas[i + 1]
  BY <1>1
<1>4. deltas[1] \in Deltas
  BY <1>1
<1>5. indexer' \in [Pods -> Objects \cup {Absent}]
  BY <1>1, <1>2, <1>4 DEF Processed, Outcome, Deltas
<1>6. DeltasLeadToCluster'
  <2>1. ASSUME NEW k \in Pods
        PROVE  After(indexer', deltas', Len(deltas'), k) = After(indexer, deltas, Len(deltas), k)
    <3>1. Len(deltas) \in 1 .. Len(deltas)
      BY <1>1
    <3>2. After(Processed(indexer, deltas), Tail(deltas), Len(deltas) - 1, k)
            = After(indexer, deltas, Len(deltas), k)
      BY <1>1, <3>1, AfterTail, Zenon
    <3> QED  BY <1>1, <1>2, <1>3, <3>2, Zenon
  <2> QED  BY <1>1, <2>1, LeadsByAfter DEF IInv
<1>7. DeltasFit'
  BY <1>1, <1>2, <1>3, AllFitTail DEF IInv, DeltasFit
<1>8. ASSUME NEW k \in Pods
      PROVE  Known(indexer', deltas', k) \subseteq Known(indexer, deltas, k)
  <2> SUFFICES ASSUME NEW o \in Known(indexer', deltas', k)
               PROVE  o \in Known(indexer, deltas, k)
    OBVIOUS
  <2>1. CASE o = indexer'[k]
    <3>1. CASE deltas[1].key = k
      <4>1. o = deltas[1].object /\ o # Absent
        BY <1>1, <1>2, <2>1, <3>1 DEF Known, Processed, Outcome
      <4>2. 1 \in 1 .. Len(deltas)
        BY <1>1
      <4> QED  BY <3>1, <4>1, <4>2 DEF Known, Own
    <3>2. CASE deltas[1].key # k
      <4>1. o = indexer[k]
        BY <1>1, <1>2, <2>1, <3>2 DEF Processed
      <4> QED  BY <4>1 DEF Known
    <3> QED  BY <3>1, <3>2
  <2>2. CASE o # indexer'[k]
    <3>1. PICK i \in 1 .. Len(deltas') : deltas'[i].key = k /\ o = deltas'[i].object
      BY <2>2 DEF Known, Own
    <3>2. /\ i + 1 \in 1 .. Len(deltas)
          /\ deltas[i + 1].key = k /\ o = deltas[i + 1].object /\ o # Absent
      BY <1>1, <1>3, <3>1 DEF Known
    <3> HIDE <3>1
    <3> QED  BY <3>2 DEF Known, Own
  <2> QED  BY <2>1, <2>2
<1>9. VersionsIdentify'
  BY <1>1, <1>8, KnownVersions
<1>10. NoneLinger'
  BY <1>1 DEF IInv, NoneLinger
<1>11. TypeOK'
  BY <1>1, <1>2, <1>3, <1>5 DEF IInv, TypeOK
<1> QED  BY <1>6, <1>7, <1>9, <1>10, <1>11 DEF IInv

\* Steps that leave deltas and indexer alone: a handler is called, or something
\* else than a pod changes.
LEMMA OthersKeepIInv ==
  ASSUME IInv, notifications' \in Seq(Notices),
         changes' \in 0 .. MaxChanges, changes' >= changes,
         UNCHANGED <<pods, deltas, initial, indexer>>
  PROVE  IInv'
<1>1. changes' \in Nat
  BY MaxChangesAssumption
<1>2. TypeOK'
  BY DEF IInv, TypeOK
<1>3. DeltasLeadToCluster' /\ DeltasFit'
  BY DEF IInv, DeltasLeadToCluster, DeltasFit, View
<1>4. VersionsIdentify'
  BY <1>1, KnownVersions
<1>5. NoneLinger'
  BY DEF IInv, NoneLinger
<1> QED  BY <1>2, <1>3, <1>4, <1>5 DEF IInv

\* Every step of cluster and informer.
LEMMA NextKeepsIInv == IInv /\ [Next]_vars => IInv'
<1> SUFFICES ASSUME IInv, [Next]_vars  PROVE IInv'
  OBVIOUS
<1>1. CASE ClusterStep
  BY <1>1, ClusterStepKeepsIInv
<1>2. CASE Relist
  BY <1>2, RelistKeepsIInv
<1>3. CASE Resync
  BY <1>3, ResyncKeepsIInv
<1>4. CASE ProcessDelta
  BY <1>4, ProcessDeltaKeepsIInv
<1>5. CASE Notify \/ UNCHANGED vars
  <2>1. /\ notifications \in Seq(Notices)
        /\ changes \in 0 .. MaxChanges /\ changes' = changes /\ changes >= changes
        /\ UNCHANGED <<pods, deltas, initial, indexer>>
    BY <1>5, MaxChangesAssumption DEF IInv, TypeOK, Notify, vars
  <2>2. notifications' \in Seq(Notices)
    BY <1>5, <2>1 DEF Notify, vars
  <2> QED  BY <2>1, <2>2, OthersKeepIInv
<1> QED  BY <1>1, <1>2, <1>3, <1>4, <1>5 DEF Next

\* Every behaviour of the informer keeps the inductive invariant.
THEOREM InformerInvariant == Spec => []IInv
BY InitEstablishesIInv, NextKeepsIInv, PTL DEF Spec

\* The state has its types.
THEOREM InformerTypes == Spec => []TypeOK
<1>1. IInv => TypeOK
  BY DEF IInv
<1> QED  BY <1>1, InformerInvariant, PTL

\* No change is lost: the deltas that are queued lead the indexer to what the
\* API server holds, whatever watches broke, lists came and resyncs passed, for
\* any finite set of pods (the watch, RealFIFO and processDeltas).
THEOREM NothingIsLost == Spec => []DeltasLeadToCluster
<1>1. IInv => DeltasLeadToCluster
  BY DEF IInv
<1> QED  BY <1>1, InformerInvariant, PTL

-----------------------------------------------------------------------------
(* The handlers' history.                                                  *)

\* NotificationsChain for the notifications s, the indexer ix and one key.
Chains(s, ix, k) ==
  /\ \A m, n \in Own(s, Len(s), k) :
       m < n /\ (\A i \in Own(s, Len(s), k) : i <= m \/ n <= i) => s[m].new = s[n].old
  /\ \A n \in Own(s, Len(s), k) :
       (\A i \in Own(s, Len(s), k) : i <= n) => s[n].new = ix[k]

\* A notification m links an indexer to the next one.
Links(m, ix, jx, k) ==
  /\ m.key = k => m.old = ix[k] /\ m.new = jx[k]
  /\ m.key # k => jx[k] = ix[k]

\* A notification that links up with the indexer continues the chain,
LEMMA ChainsAppend ==
  ASSUME NEW s \in Seq(Notices), NEW m \in Notices, NEW ix, NEW jx, NEW k,
         Chains(s, ix, k), Links(m, ix, jx, k)
  PROVE  Chains(Append(s, m), jx, k)
<1> DEFINE t == Append(s, m)
           l == Len(s) + 1
<1>1. /\ Len(t) = l /\ Len(s) \in Nat /\ t[l] = m
      /\ \A i \in 1 .. Len(s) : t[i] = s[i]
  OBVIOUS
<1>2. /\ \A i \in Own(t, Len(t), k) : i \in Own(s, Len(s), k) \/ (i = l /\ m.key = k)
      /\ \A i \in Own(s, Len(s), k) : i \in Own(t, Len(t), k) /\ i \in 1 .. Len(s)
  <2> HIDE DEF t
  <2>1. ASSUME NEW i \in Own(t, Len(t), k)
        PROVE  i \in Own(s, Len(s), k) \/ (i = l /\ m.key = k)
    <3>1. i \in 1 .. l /\ t[i].key = k
      BY <1>1 DEF Own
    <3>2. CASE i = l
      BY <1>1, <3>1, <3>2
    <3>3. CASE i # l
      <4>1. i \in 1 .. Len(s)
        BY <1>1, <3>1, <3>3
      <4>2. s[i].key = k
        BY <1>1, <3>1, <4>1
      <4> QED  BY <4>1, <4>2 DEF Own
    <3> QED  BY <3>2, <3>3
  <2>2. ASSUME NEW i \in Own(s, Len(s), k)
        PROVE  i \in Own(t, Len(t), k) /\ i \in 1 .. Len(s)
    <3>1. i \in 1 .. Len(s) /\ s[i].key = k
      BY DEF Own
    <3>2. i \in 1 .. Len(t) /\ t[i].key = k
      BY <1>1, <3>1
    <3> QED  BY <3>1, <3>2 DEF Own
  <2> QED  BY <2>1, <2>2
<1> HIDE DEF t
<1>3. ASSUME NEW a \in Own(t, Len(t), k), NEW b \in Own(t, Len(t), k), a < b,
             \A i \in Own(t, Len(t), k) : i <= a \/ b <= i
      PROVE  t[a].new = t[b].old
  <2>1. a \in Own(s, Len(s), k)
    BY <1>1, <1>2, <1>3
  <2>2. CASE b \in Own(s, Len(s), k)
    <3>1. s[a].new = s[b].old
      BY <1>2, <1>3, <2>1, <2>2 DEF Chains
    <3> QED  BY <1>1, <1>2, <2>1, <2>2, <3>1
  <2>3. CASE b = l /\ m.key = k
    <3>1. ASSUME NEW i \in Own(s, Len(s), k)  PROVE i <= a
      <4>1. i \in 1 .. Len(s) /\ (i <= a \/ l <= i)
        BY <1>2, <1>3, <2>3
      <4> QED  BY <1>1, <4>1
    <3>2. s[a].new = ix[k]
      BY <2>1, <3>1 DEF Chains
    <3>3. m.old = ix[k] /\ t[a] = s[a] /\ t[b] = m
      BY <1>1, <1>2, <2>1, <2>3 DEF Links
    <3> QED  BY <3>2, <3>3
  <2> QED  BY <1>2, <2>2, <2>3
<1>4. ASSUME NEW a \in Own(t, Len(t), k), \A i \in Own(t, Len(t), k) : i <= a
      PROVE  t[a].new = jx[k]
  <2>1. CASE a = l /\ m.key = k
    BY <1>1, <2>1 DEF Links
  <2>2. CASE a \in Own(s, Len(s), k)
    <3>1. m.key # k
      <4>1. ASSUME m.key = k  PROVE FALSE
        <5>1. l \in Own(t, Len(t), k)
          BY <1>1, <4>1 DEF Own
        <5>2. l <= a /\ a \in 1 .. Len(s)
          BY <1>2, <1>4, <2>2, <5>1
        <5> QED  BY <1>1, <5>2
      <4> QED  BY <4>1
    <3>2. s[a].new = ix[k]
      BY <1>2, <1>4, <2>2 DEF Chains
    <3> QED  BY <1>1, <1>2, <2>2, <3>1, <3>2 DEF Links
  <2> QED  BY <1>2, <2>1, <2>2
<1>5. Chains(t, jx, k)
  BY <1>3, <1>4 DEF Chains
<1> QED  BY <1>5 DEF t

\* one that was handled leaves a chain,
LEMMA ChainsTail ==
  ASSUME NEW s \in Seq(Notices), s # << >>, NEW ix, NEW k, Chains(s, ix, k)
  PROVE  Chains(Tail(s), ix, k)
<1> DEFINE t == Tail(s)
<1>1. /\ Len(t) = Len(s) - 1 /\ Len(s) \in Nat
      /\ \A i \in 1 .. Len(t) : t[i] = s[i + 1]
  OBVIOUS
<1> HIDE DEF t
<1>2. /\ \A i \in Own(t, Len(t), k) : i \in Nat /\ i + 1 \in Own(s, Len(s), k)
                                      /\ t[i] = s[i + 1]
      /\ \A i \in Own(s, Len(s), k) : i \in Nat /\ (i = 1 \/ i - 1 \in Own(t, Len(t), k))
  <2>1. ASSUME NEW i \in Own(t, Len(t), k)
        PROVE  i \in Nat /\ i + 1 \in Own(s, Len(s), k) /\ t[i] = s[i + 1]
    BY <1>1 DEF Own
  <2>2. ASSUME NEW i \in Own(s, Len(s), k), i # 1
        PROVE  i - 1 \in Own(t, Len(t), k)
    <3>1. i - 1 \in 1 .. Len(t) /\ (i - 1) + 1 = i
      BY <1>1, <2>2 DEF Own
    <3> QED  BY <1>1, <2>2, <3>1 DEF Own
  <2> QED  BY <2>1, <2>2 DEF Own
<1>3. ASSUME NEW a \in Own(t, Len(t), k), NEW b \in Own(t, Len(t), k), a < b,
             \A i \in Own(t, Len(t), k) : i <= a \/ b <= i
      PROVE  t[a].new = t[b].old
  <2>1. ASSUME NEW i \in Own(s, Len(s), k)  PROVE i <= a + 1 \/ b + 1 <= i
    <3>1. a \in Nat /\ b \in Nat /\ i \in Nat
      BY <1>2, <1>3
    <3>2. CASE i = 1
      BY <3>1, <3>2
    <3>3. CASE i # 1
      <4>1. i - 1 <= a \/ b <= i - 1
        BY <1>2, <1>3, <3>3
      <4> QED  BY <3>1, <4>1
    <3> QED  BY <3>2, <3>3
  <2>2. s[a + 1].new = s[b + 1].old
    <3>1. a + 1 < b + 1
      BY <1>2, <1>3
    <3> QED  BY <1>2, <2>1, <3>1 DEF Chains
  <2> QED  BY <1>2, <2>2
<1>4. ASSUME NEW a \in Own(t, Len(t), k), \A i \in Own(t, Len(t), k) : i <= a
      PROVE  t[a].new = ix[k]
  <2>1. ASSUME NEW i \in Own(s, Len(s), k)  PROVE i <= a + 1
    BY <1>2, <1>4
  <2>2. s[a + 1].new = ix[k]
    BY <1>2, <2>1 DEF Chains
  <2> QED  BY <1>2, <2>2
<1>5. Chains(t, ix, k)
  BY <1>3, <1>4 DEF Chains
<1> QED  BY <1>5 DEF t

\* and the property is a chain for each key.
LEMMA ChainByKey ==
  /\ NotificationsChain <=> \A k \in Pods : Chains(notifications, indexer, k)
  /\ NotificationsChain' <=> \A k \in Pods : Chains(notifications', indexer', k)
BY DEF NotificationsChain, Chains, Own

\* Every step keeps the chains: only processDeltas adds a notification, with the
\* object that it finds in the indexer as the old one.
LEMMA NextKeepsChain == IInv /\ NotificationsChain /\ [Next]_vars => NotificationsChain'
<1> SUFFICES ASSUME IInv, \A k \in Pods : Chains(notifications, indexer, k), [Next]_vars
             PROVE  \A k \in Pods : Chains(notifications', indexer', k)
  BY ChainByKey
<1>1. /\ notifications \in Seq(Notices)
      /\ indexer \in [Pods -> Objects \cup {Absent}]
  BY DEF IInv, TypeOK
<1>2. CASE ProcessDelta
  <2>1. PICK m \in Notices : /\ notifications' = Append(notifications, m)
                             /\ Tells(m, indexer[m.key], m.new)
                             /\ indexer' = [indexer EXCEPT ![m.key] = m.new]
    BY <1>2, ProcessDeltaTells
  <2>2. ASSUME NEW k \in Pods  PROVE Links(m, indexer, indexer', k)
    BY <1>1, <2>1 DEF Links, Tells
  <2> QED  BY <1>1, <2>1, <2>2, ChainsAppend
<1>3. CASE Notify
  BY <1>1, <1>3, ChainsTail DEF Notify
<1>4. CASE UNCHANGED <<notifications, indexer>>
  BY <1>4
<1> QED  BY <1>2, <1>3, <1>4 DEF Next, ClusterStep, CreatePod, UpdatePod, DeletePod, RemovePod,
            Change, Relist, Resync, store, vars

\* The handlers hear the history of each pod without gaps: old is what the
\* notification before it called new (processDeltas reads the old object before
\* it updates the store, and the notifications keep their order).
THEOREM HandlersHearEverything == Spec => []NotificationsChain
<1>1. Init => NotificationsChain
  BY DEF Init, NotificationsChain
<1> QED  BY <1>1, NextKeepsChain, InformerInvariant, PTL DEF Spec

=============================================================================
