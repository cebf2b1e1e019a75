-------------------------- MODULE WorkQueueProofs ---------------------------
(***************************************************************************)
(* Theorems about WorkQueue, for any items and any number of workers.  The *)
(* inductive invariant is the type invariant, the shape of the queue and   *)
(* the exclusiveness of processing together: that an item taken from the   *)
(* queue is held by nobody follows from the shape, and the shape is kept   *)
(* by Done only because the item given back is held by nobody else.        *)
(***************************************************************************)
EXTENDS WorkQueue, SequenceTheorems, FiniteSetTheorems, TLAPS

IInv == TypeOK /\ QueueShape /\ ExclusiveProcessing

-----------------------------------------------------------------------------
(* Sequences without duplicates.                                           *)

\* A queue without duplicates stays one when a new item is put at its end.
LEMMA AppendNew ==
  ASSUME NEW s \in Seq(Items), NEW i \in Items, i \notin Range(s), IsInjective(s)
  PROVE  /\ Append(s, i) \in Seq(Items)
         /\ Range(Append(s, i)) = Range(s) \cup {i}
         /\ IsInjective(Append(s, i))
<1>1. /\ Append(s, i) \in Seq(Items)
      /\ Len(Append(s, i)) = Len(s) + 1
      /\ \A n \in 1 .. Len(s) : Append(s, i)[n] = s[n]
      /\ Append(s, i)[Len(s) + 1] = i
  BY AppendProperties
<1>2. DOMAIN s = 1 .. Len(s) /\ DOMAIN Append(s, i) = 1 .. Len(s) + 1 /\ Len(s) \in Nat
  BY <1>1, LenProperties
<1>3. Range(Append(s, i)) = Range(s) \cup {i}
  BY <1>1, <1>2 DEF Range
<1>4. IsInjective(Append(s, i))
  BY <1>1, <1>2 DEF Range, IsInjective
<1> QED  BY <1>1, <1>3, <1>4

\* Taking the first item leaves the others, and no second copy of it.
LEMMA TailOfInjective ==
  ASSUME NEW s \in Seq(Items), s # << >>, IsInjective(s)
  PROVE  /\ Head(s) \in Range(s) /\ Head(s) \in Items
         /\ Tail(s) \in Seq(Items)
         /\ Range(Tail(s)) = Range(s) \ {Head(s)}
         /\ IsInjective(Tail(s))
<1>1. /\ Head(s) = s[1] /\ Head(s) \in Items
      /\ Tail(s) \in Seq(Items)
      /\ Len(Tail(s)) = Len(s) - 1
      /\ \A n \in 1 .. Len(Tail(s)) : Tail(s)[n] = s[n + 1]
  BY HeadTailProperties
<1>2. /\ DOMAIN s = 1 .. Len(s) /\ DOMAIN Tail(s) = 1 .. Len(s) - 1
      /\ Len(s) \in Nat /\ Len(s) > 0
  BY <1>1, LenProperties, EmptySeq
<1>3. Range(Tail(s)) \subseteq Range(s) \ {Head(s)}
  BY <1>1, <1>2 DEF Range, IsInjective
<1>4. ASSUME NEW x \in Range(s) \ {Head(s)}
      PROVE  x \in Range(Tail(s))
  <2>1. PICK n \in 1 .. Len(s) : s[n] = x
    BY <1>2 DEF Range
  <2>2. n - 1 \in 1 .. Len(s) - 1 /\ Tail(s)[n - 1] = x
    BY <2>1, <1>1, <1>2
  <2> QED  BY <2>2, <1>2 DEF Range
<1>5. IsInjective(Tail(s))
  BY <1>1, <1>2 DEF IsInjective
<1>6. Head(s) \in Range(s)
  BY <1>1, <1>2 DEF Range
<1> QED  BY <1>1, <1>3, <1>4, <1>5, <1>6

-----------------------------------------------------------------------------
(* What waking workers and Enqueue do.                                     *)

\* Whoever a signal wakes, no busy worker is disturbed.
LEMMA SignalSparesBusy ==
  ASSUME TypeOK, NEW W \in Signalled
  PROVE  /\ MakeReady(W) \in [Workers -> States]
         /\ \A w \in Workers : MakeReady(W)[w] = "busy" <=> worker[w] = "busy"
BY DEF TypeOK, Signalled, Asleep, MakeReady, States

\* Add keeps the shape of the queue and disturbs no busy worker.
LEMMA EnqueueKeepsShape ==
  ASSUME TypeOK, QueueShape, NEW i \in Items, Enqueue(i)
  PROVE  /\ queue' \in Seq(Items) /\ dirty' \subseteq Items
         /\ worker' \in [Workers -> States]
         /\ Range(queue') = dirty' \ processing /\ IsInjective(queue')
         /\ \A w \in Workers : worker'[w] = "busy" <=> worker[w] = "busy"
<1>1. CASE UNCHANGED <<queue, dirty, worker>>
  BY <1>1 DEF TypeOK, QueueShape
<1>2. CASE /\ i \notin dirty /\ i \in processing
           /\ dirty' = dirty \cup {i}
           /\ UNCHANGED <<queue, worker>>
  BY <1>2 DEF TypeOK, QueueShape
<1>3. CASE /\ i \notin dirty /\ i \notin processing
           /\ dirty' = dirty \cup {i}
           /\ queue' = Append(queue, i)
           /\ \E W \in Signalled : worker' = MakeReady(W)
  <2>1. queue \in Seq(Items) /\ i \notin Range(queue) /\ IsInjective(queue)
    BY <1>3 DEF TypeOK, QueueShape
  <2>2. /\ queue' \in Seq(Items)
        /\ Range(queue') = Range(queue) \cup {i}
        /\ IsInjective(queue')
    BY <1>3, <2>1, AppendNew
  <2>3. /\ worker' \in [Workers -> States]
        /\ \A w \in Workers : worker'[w] = "busy" <=> worker[w] = "busy"
    BY <1>3, SignalSparesBusy
  <2>4. dirty' \subseteq Items /\ Range(queue') = dirty' \ processing
    BY <1>3, <2>2 DEF TypeOK, QueueShape
  <2> QED  BY <2>2, <2>3, <2>4
<1> QED  BY <1>1, <1>2, <1>3 DEF Enqueue

\* A step that changes only the queue's order, its marks and the workers keeps
\* ExclusiveProcessing if it disturbs no busy worker.
LEMMA HoldersKept ==
  ASSUME ExclusiveProcessing, UNCHANGED controlVars,
         \A w \in Workers : worker'[w] = "busy" <=> worker[w] = "busy"
  PROVE  ExclusiveProcessing'
<1>1. processing' = processing /\ item' = item
  BY DEF controlVars
<1>2. {v \in Workers : worker'[v] = "busy"} = {v \in Workers : worker[v] = "busy"}
  OBVIOUS
<1> QED  BY <1>1, <1>2 DEF ExclusiveProcessing

-----------------------------------------------------------------------------
(* The inductive invariant.                                                *)

\* Get hands out an item that is marked and that nobody holds.
LEMMA GetItemKeepsIInv ==
  ASSUME IInv, NEW w \in Workers, GetItem(w)
  PROVE  IInv'
<1> DEFINE i == Head(queue)
<1>1. /\ queue \in Seq(Items) /\ queue # << >> /\ IsInjective(queue)
      /\ Range(queue) = dirty \ processing
  BY DEF IInv, TypeOK, QueueShape, GetItem
<1>2. /\ i \in Items /\ i \in dirty /\ i \notin processing
      /\ Tail(queue) \in Seq(Items)
      /\ Range(Tail(queue)) = Range(queue) \ {i}
      /\ IsInjective(Tail(queue))
  BY <1>1, TailOfInjective
<1>3. TypeOK'
  BY <1>2 DEF IInv, TypeOK, GetItem, States, delayVars
<1>4. QueueShape'
  BY <1>1, <1>2 DEF QueueShape, GetItem
<1>5. ExclusiveProcessing'
  <2> USE <1>2, NoItemAssumption DEF IInv, TypeOK, ExclusiveProcessing, GetItem
  <2>1. {item'[v] : v \in {u \in Workers : worker'[u] = "busy"}} = processing \cup {i}
    OBVIOUS
  <2>2. \A v \in Workers : worker'[v] = "busy" <=> item'[v] # NoItem
    OBVIOUS
  <2>3. \A v \in Workers : v # w => item[v] # i
    OBVIOUS
  <2>4. \A u, v \in Workers : item'[u] = item'[v] /\ item'[u] # NoItem => u = v
    BY <2>3
  <2> QED  BY <2>1, <2>2, <2>4
<1> QED  BY <1>3, <1>4, <1>5 DEF IInv

\* Done gives back an item that no other worker holds, and queues it again if
\* it was marked meanwhile.
LEMMA DoneKeepsIInv ==
  ASSUME IInv, NEW w \in Workers, Done(w)
  PROVE  IInv'
<1> DEFINE i == item[w]
<1>1. i \in Items /\ i \in processing
  BY NoItemAssumption DEF IInv, TypeOK, ExclusiveProcessing, Done
<1>2. /\ worker' \in [Workers -> States]
      /\ \A v \in Workers : worker'[v] = "busy" <=> worker[v] = "busy" /\ v # w
  <2>1. \A W \in SUBSET Workers :
           W \cap {v \in Workers : worker[v] = "busy"} = {} =>
             /\ MakeReady(W \cup {w}) \in [Workers -> States]
             /\ \A v \in Workers : MakeReady(W \cup {w})[v] = "busy"
                                     <=> worker[v] = "busy" /\ v # w
    BY DEF IInv, TypeOK, MakeReady, States
  <2>2. \A W \in Signalled : W \in SUBSET Workers
                               /\ W \cap {v \in Workers : worker[v] = "busy"} = {}
    BY DEF Signalled, Asleep
  <2>3. CASE \E W \in Signalled : worker' = MakeReady(W \cup {w})
    <3>1. PICK W \in Signalled : worker' = MakeReady(W \cup {w})
      BY <2>3
    <3>2. W \in SUBSET Workers /\ W \cap {v \in Workers : worker[v] = "busy"} = {}
      BY <2>2
    <3>3. /\ MakeReady(W \cup {w}) \in [Workers -> States]
          /\ \A v \in Workers : MakeReady(W \cup {w})[v] = "busy"
                                  <=> worker[v] = "busy" /\ v # w
      BY <3>2, <2>1
    <3> QED  BY <3>1, <3>3
  <2>4. CASE worker' = MakeReady({w})
    BY <2>4 DEF IInv, TypeOK, MakeReady, States
  <2> QED  BY <2>3, <2>4 DEF Done
<1>3. ExclusiveProcessing'
  <2> USE <1>1, <1>2 DEF IInv, TypeOK, ExclusiveProcessing, Done
  <2>1. {item'[v] : v \in {u \in Workers : worker'[u] = "busy"}} = processing \ {i}
    <3>1. \A v \in Workers : v # w => item'[v] = item[v]
      OBVIOUS
    <3>2. \A v \in Workers : worker'[v] = "busy" => item[v] # i
      OBVIOUS
    <3> QED  BY <3>1, <3>2
  <2>2. \A v \in Workers : worker'[v] = "busy" <=> item'[v] # NoItem
    OBVIOUS
  <2>3. \A u, v \in Workers : item'[u] = item'[v] /\ item'[u] # NoItem => u = v
    OBVIOUS
  <2> QED  BY <2>1, <2>2, <2>3
<1>4. queue' \in Seq(Items) /\ QueueShape'
  <2>1. CASE i \in dirty
    <3>1. /\ queue \in Seq(Items) /\ IsInjective(queue) /\ i \notin Range(queue)
          /\ queue' = Append(queue, i)
      BY <2>1, <1>1 DEF IInv, TypeOK, QueueShape, Done
    <3>2. /\ queue' \in Seq(Items) /\ IsInjective(queue')
          /\ Range(queue') = Range(queue) \cup {i}
      BY <3>1, <1>1, AppendNew
    <3> QED  BY <2>1, <3>2, <1>1 DEF IInv, TypeOK, QueueShape, Done
  <2>2. CASE i \notin dirty
    BY <2>2 DEF IInv, TypeOK, QueueShape, Done
  <2> QED  BY <2>1, <2>2
<1>5. TypeOK'
  BY <1>2, <1>4 DEF IInv, TypeOK, Done, delayVars
<1> QED  BY <1>3, <1>4, <1>5 DEF IInv

\* Initially nothing is queued or held.
LEMMA InitEstablishesIInv == Init => IInv
<1> SUFFICES ASSUME Init  PROVE IInv
  OBVIOUS
<1>1. << >> \in Seq(Items) /\ Range(<< >>) = {} /\ IsInjective(<< >>)
  BY EmptySeq DEF Range, IsInjective
<1>2. TypeOK
  BY <1>1 DEF Init, TypeOK, States
<1>3. QueueShape
  BY <1>1 DEF Init, QueueShape
<1>4. ExclusiveProcessing
  BY DEF Init, ExclusiveProcessing
<1> QED  BY <1>2, <1>3, <1>4 DEF IInv

\* Every step of the queue keeps the inductive invariant.
LEMMA NextKeepsIInv == IInv /\ [Next]_vars => IInv'
<1> SUFFICES ASSUME IInv, [Next]_vars  PROVE IInv'
  OBVIOUS
<1> USE DEF IInv
<1>1. ASSUME NEW i \in Items, Enqueue(i), UNCHANGED controlVars, failures' = failures,
             addCh' \in Seq(Items), waiting' \subseteq Items
      PROVE  IInv'
  <2>1. TypeOK'
    BY <1>1, EnqueueKeepsShape DEF TypeOK, controlVars
  <2>2. QueueShape'
    BY <1>1, EnqueueKeepsShape DEF QueueShape, controlVars
  <2>3. ExclusiveProcessing'
    BY <1>1, EnqueueKeepsShape, HoldersKept
  <2> QED  BY <2>1, <2>2, <2>3
<1>2. ASSUME NEW i \in Items, Add(i)  PROVE IInv'
  BY <1>1, <1>2 DEF Add, delayVars, TypeOK
<1>3. ASSUME NEW i \in Items, DelayExpires(i)  PROVE IInv'
  BY <1>1, <1>3 DEF DelayExpires, TypeOK
<1>4. ASSUME ReceiveDelayed  PROVE IInv'
  <2>1. Head(addCh) \in Items /\ Tail(addCh) \in Seq(Items)
    BY <1>4, HeadTailProperties DEF ReceiveDelayed, TypeOK
  <2>2. CASE Enqueue(Head(addCh)) /\ UNCHANGED waiting
    BY <1>1, <1>4, <2>1, <2>2 DEF ReceiveDelayed, TypeOK
  <2>3. CASE /\ waiting' = waiting \cup {Head(addCh)}
             /\ UNCHANGED <<queue, dirty, worker>>
    <3>1. TypeOK'
      BY <1>4, <2>1, <2>3 DEF ReceiveDelayed, TypeOK, controlVars
    <3>2. QueueShape' /\ ExclusiveProcessing'
      BY <1>4, <2>3 DEF ReceiveDelayed, QueueShape, ExclusiveProcessing, controlVars
    <3> QED  BY <3>1, <3>2
  <2> QED  BY <1>4, <2>2, <2>3 DEF ReceiveDelayed
<1>5. ASSUME NEW w \in Workers, GetItem(w)  PROVE IInv'
  BY <1>5, GetItemKeepsIInv
<1>6. ASSUME NEW w \in Workers, GetSleeps(w) \/ GetReturnsShutdown(w)  PROVE IInv'
  <2>1. TypeOK'
    BY <1>6 DEF GetSleeps, GetReturnsShutdown, TypeOK, States, orderVars, controlVars, delayVars
  <2>2. QueueShape'
    BY <1>6 DEF GetSleeps, GetReturnsShutdown, QueueShape, orderVars, controlVars
  <2>3. UNCHANGED controlVars /\ \A v \in Workers : worker'[v] = "busy" <=> worker[v] = "busy"
    BY <1>6 DEF GetSleeps, GetReturnsShutdown, TypeOK
  <2> QED  BY <2>1, <2>2, <2>3, HoldersKept
<1>7. ASSUME NEW w \in Workers, AddRateLimited(w) \/ Forget(w)  PROVE IInv'
  <2>1. item[w] \in Items
    BY <1>7, NoItemAssumption DEF AddRateLimited, Forget, TypeOK, ExclusiveProcessing
  <2>2. TypeOK'
    <3>1. failures' \in [Items -> Nat]
      BY <1>7, <2>1 DEF AddRateLimited, Forget, TypeOK
    <3>2. addCh' \in Seq(Items)
      <4>1. Append(addCh, item[w]) \in Seq(Items)
        BY <2>1, AppendProperties DEF TypeOK
      <4> QED  BY <1>7, <4>1 DEF AddRateLimited, Forget, TypeOK
    <3> QED  BY <1>7, <3>1, <3>2 DEF AddRateLimited, Forget, TypeOK, orderVars, controlVars
  <2>3. QueueShape' /\ ExclusiveProcessing'
    BY <1>7 DEF AddRateLimited, Forget, QueueShape, ExclusiveProcessing, orderVars, controlVars
  <2> QED  BY <2>2, <2>3
<1>8. ASSUME NEW w \in Workers, Done(w)  PROVE IInv'
  BY <1>8, DoneKeepsIInv
<1>9. ASSUME ShutDown  PROVE IInv'
  <2>1. /\ worker' \in [Workers -> States]
        /\ \A v \in Workers : worker'[v] = "busy" <=> worker[v] = "busy"
    BY <1>9 DEF ShutDown, MakeReady, Asleep, TypeOK, States
  <2>2. TypeOK' /\ QueueShape'
    BY <1>9, <2>1 DEF ShutDown, TypeOK, QueueShape, orderVars, delayVars
  <2>3. ExclusiveProcessing'
    <3>1. {v \in Workers : worker'[v] = "busy"} = {v \in Workers : worker[v] = "busy"}
      BY <2>1
    <3> QED  BY <1>9, <2>1, <3>1 DEF ShutDown, ExclusiveProcessing
  <2> QED  BY <2>2, <2>3
<1>10. CASE UNCHANGED vars
  BY <1>10 DEF vars, TypeOK, QueueShape, ExclusiveProcessing
<1> QED
  BY <1>2, <1>3, <1>4, <1>5, <1>6, <1>7, <1>8, <1>9, <1>10 DEF Next, WorkerStep

\* The queue is always well formed: every item that is marked and not being
\* processed is queued, exactly once, and no two workers process the same item
\* (the fields and the comment of Typed; processNextItem in controller.go).
THEOREM WorkQueueInvariant == Spec => []IInv
<1>1. Init => IInv
  BY InitEstablishesIInv
<1>2. IInv /\ [Next]_vars => IInv'
  BY NextKeepsIInv
<1> QED  BY <1>1, <1>2, PTL DEF Spec

\* Types.
COROLLARY WorkQueueTypes == Spec => []TypeOK
<1>1. IInv => TypeOK
  BY DEF IInv
<1> QED  BY <1>1, WorkQueueInvariant, PTL

\* No key is processed by two workers at once, however many workers there are.
COROLLARY WorkIsExclusive == Spec => []ExclusiveProcessing
<1>1. IInv => ExclusiveProcessing
  BY DEF IInv
<1> QED  BY <1>1, WorkQueueInvariant, PTL

\* What needs processing is queued, once.
COROLLARY QueueHoldsTheWork == Spec => []QueueShape
<1>1. IInv => QueueShape
  BY DEF IInv
<1> QED  BY <1>1, WorkQueueInvariant, PTL

-----------------------------------------------------------------------------
(* WorkQueue implements MarkedWork.                                        *)

\* Every step of the queue is a step of MarkedWork or leaves it unchanged.
LEMMA StepImplementsMarkedWork ==
  IInv /\ [Next]_vars => [Promise!Next]_(Promise!vars)
<1> SUFFICES ASSUME IInv, [Next]_vars  PROVE [Promise!Next]_(Promise!vars)
  OBVIOUS
<1> USE DEF Promise!vars
<1>1. ASSUME NEW i \in Items, Enqueue(i), UNCHANGED controlVars
      PROVE  [Promise!Next]_(Promise!vars)
  <2>1. CASE UNCHANGED dirty
    BY <1>1, <2>1 DEF controlVars
  <2>2. CASE ~shuttingDown /\ dirty' = dirty \cup {i}
    BY <1>1, <2>2 DEF controlVars, Promise!Next, Promise!Mark
  <2> QED  BY <1>1, <2>1, <2>2 DEF Enqueue
<1>2. ASSUME NEW i \in Items, Add(i) \/ DelayExpires(i)
      PROVE  [Promise!Next]_(Promise!vars)
  BY <1>1, <1>2 DEF Add, DelayExpires
<1>3. ASSUME ReceiveDelayed  PROVE [Promise!Next]_(Promise!vars)
  <2>1. Head(addCh) \in Items
    BY <1>3, HeadTailProperties DEF ReceiveDelayed, IInv, TypeOK
  <2> QED  BY <1>1, <1>3, <2>1 DEF ReceiveDelayed, controlVars
<1>4. ASSUME NEW w \in Workers, GetItem(w)  PROVE [Promise!Next]_(Promise!vars)
  <2>1. /\ queue \in Seq(Items) /\ queue # << >> /\ IsInjective(queue)
        /\ Range(queue) = dirty \ processing
    BY <1>4 DEF IInv, TypeOK, QueueShape, GetItem
  <2>2. Head(queue) \in Items /\ Head(queue) \in dirty /\ Head(queue) \notin processing
    BY <2>1, TailOfInjective
  <2>3. item[w] = NoItem /\ \A v \in Workers : item[v] # Head(queue)
    BY <1>4, <2>2, NoItemAssumption DEF IInv, ExclusiveProcessing, GetItem
  <2>4. Promise!Start(w, Head(queue))
    BY <1>4, <2>2, <2>3 DEF Promise!Start, GetItem
  <2> QED  BY <2>2, <2>4 DEF Promise!Next
<1>5. ASSUME NEW w \in Workers,
             GetSleeps(w) \/ GetReturnsShutdown(w) \/ AddRateLimited(w) \/ Forget(w)
      PROVE  [Promise!Next]_(Promise!vars)
  BY <1>5 DEF GetSleeps, GetReturnsShutdown, AddRateLimited, Forget, orderVars, controlVars
<1>6. ASSUME NEW w \in Workers, Done(w)  PROVE [Promise!Next]_(Promise!vars)
  <2>1. item[w] # NoItem
    BY <1>6 DEF IInv, ExclusiveProcessing, Done
  <2>2. Promise!Finish(w)
    BY <1>6, <2>1 DEF Done, Promise!Finish
  <2> QED  BY <2>2 DEF Promise!Next
<1>7. ASSUME ShutDown  PROVE [Promise!Next]_(Promise!vars)
  BY <1>7 DEF ShutDown, orderVars, Promise!Next, Promise!Close
<1>8. CASE UNCHANGED vars
  BY <1>8 DEF vars
<1> QED
  BY <1>2, <1>3, <1>4, <1>5, <1>6, <1>7, <1>8 DEF Next, WorkerStep

\* The queue keeps the promise the controller relies on (processNextItem's
\* comment): marks coalesce, only taking a key up consumes its mark, and no two
\* workers hold the same key.
THEOREM QueueKeepsPromise == Spec => ImplementsMarkedWork
<1>1. Init => Promise!Init
  BY DEF Init, Promise!Init
<1>2. IInv /\ [Next]_vars => [Promise!Next]_(Promise!vars)
  BY StepImplementsMarkedWork
<1> QED  BY <1>1, <1>2, WorkQueueInvariant, PTL DEF Spec, ImplementsMarkedWork, Promise!Spec

\* A mark disappears only when a worker takes the key up: adding a key while it
\* is processed is never forgotten.
THEOREM MarksAreKept == Spec => OnlyAStartClearsAMark
<1>1. ASSUME IInv, [Next]_vars, NEW i \in dirty
      PROVE  i \in dirty' \/ (i \notin processing /\ i \in processing')
  <2>1. CASE \E w \in Workers : GetItem(w)
    <3>1. PICK w \in Workers : GetItem(w)
      BY <2>1
    <3>2. /\ queue \in Seq(Items) /\ queue # << >> /\ IsInjective(queue)
          /\ Range(queue) = dirty \ processing
      BY <1>1, <3>1 DEF IInv, TypeOK, QueueShape, GetItem
    <3>3. Head(queue) \notin processing
      BY <3>2, TailOfInjective
    <3> QED  BY <3>1, <3>3 DEF GetItem
  <2>2. CASE ~\E w \in Workers : GetItem(w)
    BY <1>1, <2>2 DEF Next, WorkerStep, vars, Add, DelayExpires, ReceiveDelayed, Enqueue,
         GetSleeps, GetReturnsShutdown, AddRateLimited, Forget, Done, ShutDown, orderVars
  <2> QED  BY <2>1, <2>2
<1>2. IInv /\ [Next]_vars =>
        [\A i \in dirty : i \in dirty' \/ (i \notin processing /\ i \in processing')]_vars
  BY <1>1
<1> QED  BY <1>2, WorkQueueInvariant, PTL DEF Spec, OnlyAStartClearsAMark

-----------------------------------------------------------------------------
(* Wake-ups.                                                               *)

\* Ready workers can be counted.
LEMMA ReadyIsFinite == IsFiniteSet(Ready) /\ Cardinality(Ready) \in Nat
BY WorkersAssumption, FS_Subset, FS_CardinalityType DEF Ready

\* A signal after an item was put on the queue pays for it: if workers still
\* sleep afterwards, one more is ready.
LEMMA SignalAddsReady ==
  ASSUME TypeOK, NEW W \in Signalled, NEW V \in SUBSET Workers,
         \A v \in V : worker[v] = "busy",
         worker' = MakeReady(W \cup V), Asleep' # {}
  PROVE  Asleep # {} /\ Cardinality(Ready') >= Cardinality(Ready) + 1
<1>1. Asleep # {}
  BY DEF TypeOK, Asleep, MakeReady, States
<1>2. PICK a \in Asleep : W = {a}
  BY <1>1 DEF Signalled
<1>3. Ready' = (Ready \cup {a}) \cup V /\ a \notin Ready
  BY <1>2 DEF TypeOK, Ready, Asleep, MakeReady
<1>4. /\ IsFiniteSet(Ready \cup {a})
      /\ Cardinality(Ready \cup {a}) = Cardinality(Ready) + 1
  BY <1>3, ReadyIsFinite, FS_AddElement
<1>5. IsFiniteSet(Ready') /\ Ready \cup {a} \subseteq Ready'
  <2>1. Ready' \subseteq Workers
    BY DEF Ready
  <2> QED  BY <2>1, <1>3, WorkersAssumption, FS_Subset
<1>6. Cardinality(Ready \cup {a}) <= Cardinality(Ready')
  BY <1>5, FS_Subset
<1>7. Cardinality(Ready) \in Nat /\ Cardinality(Ready') \in Nat
  BY <1>5, ReadyIsFinite, FS_CardinalityType
<1> QED  BY <1>1, <1>4, <1>6, <1>7

\* Add wakes a worker for the item it queues.
LEMMA EnqueueKeepsWakeups ==
  ASSUME TypeOK, NoLostWakeup, NEW i \in Items, Enqueue(i)
  PROVE  NoLostWakeup'
<1>1. CASE UNCHANGED <<queue, worker>>
  BY <1>1 DEF NoLostWakeup, Asleep, Ready
<1>2. CASE queue' = Append(queue, i) /\ \E W \in Signalled : worker' = MakeReady(W)
  <2>1. PICK W \in Signalled : worker' = MakeReady(W)
    BY <1>2
  <2>2. Len(queue') = Len(queue) + 1 /\ Len(queue) \in Nat
    BY <1>2, AppendProperties, LenProperties DEF TypeOK
  <2>3. ASSUME Asleep' # {}
        PROVE  Len(queue') <= Cardinality(Ready')
    <3>1. /\ {} \in SUBSET Workers /\ \A v \in {} : worker[v] = "busy"
          /\ worker' = MakeReady(W \cup {})
      <4>1. W \cup {} = W
        OBVIOUS
      <4> QED  BY <2>1, <4>1
    <3>2. Asleep # {} /\ Cardinality(Ready') >= Cardinality(Ready) + 1
      BY <3>1, <2>3, SignalAddsReady
    <3>3. Len(queue) <= Cardinality(Ready)
      BY <3>2 DEF NoLostWakeup
    <3>4. Cardinality(Ready) \in Nat /\ Cardinality(Ready') \in Nat
      <4>1. Ready' \subseteq Workers
        BY DEF Ready
      <4> QED  BY <4>1, ReadyIsFinite, WorkersAssumption, FS_Subset, FS_CardinalityType
    <3> QED  BY <3>2, <3>3, <3>4, <2>2
  <2> QED  BY <2>3 DEF NoLostWakeup
<1> QED  BY <1>1, <1>2 DEF Enqueue

\* No wake-up is ever lost: while a worker sleeps in Get, every queued item has
\* a ready worker of its own, whichever worker Signal wakes.
THEOREM NoWakeupIsLost == Spec => []NoLostWakeup
<1>1. Init => NoLostWakeup
  BY DEF Init, NoLostWakeup, Asleep
<1>2. IInv /\ NoLostWakeup /\ [Next]_vars => NoLostWakeup'
  <2> SUFFICES ASSUME IInv, NoLostWakeup, [Next]_vars  PROVE NoLostWakeup'
    OBVIOUS
  <2>0. TypeOK /\ Len(queue) \in Nat /\ IsFiniteSet(Ready) /\ Cardinality(Ready) \in Nat
    BY LenProperties, ReadyIsFinite DEF IInv, TypeOK
  <2>1. ASSUME NEW i \in Items, Add(i) \/ DelayExpires(i)  PROVE NoLostWakeup'
    BY <2>0, <2>1, EnqueueKeepsWakeups DEF Add, DelayExpires
  <2>2. ASSUME ReceiveDelayed  PROVE NoLostWakeup'
    <3>1. Head(addCh) \in Items
      BY <2>2, HeadTailProperties DEF ReceiveDelayed, IInv, TypeOK
    <3>2. CASE Enqueue(Head(addCh))
      BY <2>0, <3>1, <3>2, EnqueueKeepsWakeups
    <3>3. CASE UNCHANGED <<queue, dirty, worker>>
      BY <3>3 DEF NoLostWakeup, Asleep, Ready
    <3> QED  BY <2>2, <3>2, <3>3 DEF ReceiveDelayed
  <2>3. ASSUME NEW w \in Workers, GetItem(w)  PROVE NoLostWakeup'
    <3>1. Asleep' = Asleep /\ Ready' = Ready \ {w} /\ w \in Ready
      BY <2>0, <2>3 DEF GetItem, Asleep, Ready, TypeOK
    <3>2. Len(queue') = Len(queue) - 1
      BY <2>0, <2>3, HeadTailProperties DEF GetItem, TypeOK
    <3>3. Cardinality(Ready') = Cardinality(Ready) - 1
      BY <2>0, <3>1, FS_RemoveElement
    <3> QED  BY <2>0, <3>1, <3>2, <3>3 DEF NoLostWakeup
  <2>4. ASSUME NEW w \in Workers, GetSleeps(w)  PROVE NoLostWakeup'
    <3>1. Len(queue') = 0
      BY <2>4, EmptySeq DEF GetSleeps, orderVars
    <3>2. Ready' \subseteq Workers
      BY DEF Ready
    <3>3. Cardinality(Ready') \in Nat
      BY <3>2, WorkersAssumption, FS_Subset, FS_CardinalityType
    <3> QED  BY <3>1, <3>3 DEF NoLostWakeup
  <2>5. ASSUME NEW w \in Workers, GetReturnsShutdown(w)  PROVE NoLostWakeup'
    <3>1. Len(queue') = 0
      BY <2>5, EmptySeq DEF GetReturnsShutdown, orderVars
    <3>2. Ready' \subseteq Workers
      BY DEF Ready
    <3>3. Cardinality(Ready') \in Nat
      BY <3>2, WorkersAssumption, FS_Subset, FS_CardinalityType
    <3> QED  BY <3>1, <3>3 DEF NoLostWakeup
  <2>6. ASSUME NEW w \in Workers, AddRateLimited(w) \/ Forget(w)  PROVE NoLostWakeup'
    BY <2>6 DEF AddRateLimited, Forget, orderVars, NoLostWakeup, Asleep, Ready
  <2>7. ASSUME NEW w \in Workers, Done(w)  PROVE NoLostWakeup'
    <3>1. {w} \in SUBSET Workers /\ \A v \in {w} : worker[v] = "busy"
      BY <2>7 DEF Done
    <3>2. item[w] \in Items
      BY <2>7, NoItemAssumption DEF Done, IInv, TypeOK, ExclusiveProcessing
    <3>3. Len(queue') \in Nat /\ Len(queue') <= Len(queue) + 1
      BY <2>0, <2>7, <3>2, AppendProperties DEF Done, TypeOK
    <3>4. Ready' \subseteq Workers
      BY DEF Ready
    <3>5. IsFiniteSet(Ready') /\ Cardinality(Ready') \in Nat
      BY <3>4, WorkersAssumption, FS_Subset, FS_CardinalityType
    <3>6. CASE \E W \in Signalled : worker' = MakeReady(W \cup {w})
      <4>1. PICK W \in Signalled : worker' = MakeReady(W \cup {w})
        BY <3>6
      <4>2. Asleep' # {} => Asleep # {} /\ Cardinality(Ready') >= Cardinality(Ready) + 1
        BY <2>0, <3>1, <4>1, SignalAddsReady
      <4> QED  BY <2>0, <3>3, <3>5, <4>2 DEF NoLostWakeup
    <3>7. CASE worker' = MakeReady({w}) /\ UNCHANGED queue
      <4>1. Asleep' = Asleep /\ Ready' = Ready \cup {w}
        BY <2>0, <3>1, <3>7 DEF Asleep, Ready, MakeReady, TypeOK
      <4>2. Cardinality(Ready) <= Cardinality(Ready')
        BY <3>5, <4>1, FS_Subset
      <4> QED  BY <2>0, <3>5, <3>7, <4>1, <4>2 DEF NoLostWakeup
    <3> QED  BY <2>7, <3>6, <3>7 DEF Done
  <2>8. ASSUME ShutDown  PROVE NoLostWakeup'
    BY <2>0, <2>8 DEF ShutDown, NoLostWakeup, Asleep, MakeReady, TypeOK
  <2>9. CASE UNCHANGED vars
    BY <2>9 DEF vars, NoLostWakeup, Asleep, Ready
  <2> QED
    BY <2>1, <2>2, <2>3, <2>4, <2>5, <2>6, <2>7, <2>8, <2>9 DEF Next, WorkerStep
<1> QED  BY <1>1, <1>2, WorkQueueInvariant, PTL DEF Spec

=============================================================================
