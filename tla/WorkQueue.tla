----------------------------- MODULE WorkQueue ------------------------------
(***************************************************************************)
(* The rate limiting work queue between the informer's event handlers and  *)
(* the controller's worker (k8s.io/client-go/util/workqueue: Typed,        *)
(* delayingType and TypedItemExponentialFailureRateLimiter).  Each method  *)
(* of Typed runs under the lock of q.cond, so each is one action; a Get    *)
(* that has to wait gives the lock up, and runs again once it is woken.    *)
(*                                                                         *)
(* Time is not modelled: a delayed item may become due at any moment.      *)
(***************************************************************************)
EXTENDS Naturals, Sequences, FiniteSets, Functions

CONSTANTS Items,        \* the keys that are queued
          Workers,      \* the goroutines that call Get
          NoItem,       \* what a worker holds between Done and Get
          ChanCapacity, \* the buffer of waitingForAddCh (1000 in the code)
          MaxFailures   \* bound on the failures counted for one item

ASSUME NoItemAssumption == NoItem \notin Items
ASSUME WorkersAssumption == IsFiniteSet(Workers)
ASSUME BoundsAssumption == ChanCapacity \in Nat /\ MaxFailures \in Nat

VARIABLES queue,        \* the order in which items will be handed out
          dirty,        \* items that need processing
          processing,   \* items handed out and not yet Done
          shuttingDown,
          failures,     \* the rate limiter's count for each item
          addCh,        \* waitingForAddCh
          waiting,      \* the waitingLoop's heap: at most one entry an item
          worker,       \* where each worker is, see States
          item          \* the item each worker holds

vars == <<queue, dirty, processing, shuttingDown, failures, addCh, waiting,
          worker, item>>
orderVars   == <<queue, dirty>>
delayVars   == <<failures, addCh, waiting>>
controlVars == <<processing, shuttingDown, item>>

\* "ready": about to take the lock in Get, for the first time or after a
\* wake-up; "asleep": in cond.Wait; "busy": between Get and Done; "gone": Get
\* has returned shutdown.
States == {"ready", "asleep", "busy", "gone"}

TypeOK ==
  /\ queue \in Seq(Items)
  /\ dirty \subseteq Items
  /\ processing \subseteq Items
  /\ shuttingDown \in BOOLEAN
  /\ failures \in [Items -> Nat]
  /\ addCh \in Seq(Items)
  /\ waiting \subseteq Items
  /\ worker \in [Workers -> States]
  /\ item \in [Workers -> Items \cup {NoItem}]

Init ==
  /\ queue = << >>
  /\ dirty = {}
  /\ processing = {}
  /\ shuttingDown = FALSE
  /\ failures = [i \in Items |-> 0]
  /\ addCh = << >>
  /\ waiting = {}
  /\ worker = [w \in Workers |-> "ready"]
  /\ item = [w \in Workers |-> NoItem]

-----------------------------------------------------------------------------
(* The condition variable.                                                 *)

Asleep == {w \in Workers : worker[w] = "asleep"}

\* The sets of workers one cond.Signal may wake.
Signalled == IF Asleep = {} THEN {{}} ELSE {{w} : w \in Asleep}

\* The workers' states once those in W have become ready.
MakeReady(W) == [w \in Workers |-> IF w \in W THEN "ready" ELSE worker[w]]

-----------------------------------------------------------------------------
(* The methods of the queue.                                               *)

\* Mutant of Enqueue: the queue is filled without waking a worker.
EnqueueUnsignalled(i) ==
  IF shuttingDown \/ i \in dirty
    THEN UNCHANGED <<queue, dirty, worker>>
    ELSE /\ dirty' = dirty \cup {i}
         /\ queue' = IF i \in processing THEN queue ELSE Append(queue, i)
         /\ UNCHANGED worker

\* Mutant of Enqueue: an item that is being processed is queued at once.
EnqueueWhileProcessing(i) ==
  IF shuttingDown \/ i \in dirty
    THEN UNCHANGED <<queue, dirty, worker>>
    ELSE /\ dirty' = dirty \cup {i}
         /\ queue' = Append(queue, i)
         /\ \E W \in Signalled : worker' = MakeReady(W)

\* Mutant of Enqueue: items are still taken after ShutDown.
EnqueueAfterShutdown(i) ==
  IF i \in dirty
    THEN UNCHANGED <<queue, dirty, worker>>
    ELSE /\ dirty' = dirty \cup {i}
         /\ queue' = IF i \in processing THEN queue ELSE Append(queue, i)
         /\ \E W \in Signalled : worker' = MakeReady(W)

\* The body of Typed.Add, called by clients and by the waitingLoop.
Enqueue(i) ==
  \/ /\ shuttingDown \/ i \in dirty
     /\ UNCHANGED <<queue, dirty, worker>>
  \/ /\ ~shuttingDown /\ i \notin dirty
     /\ dirty' = dirty \cup {i}
     /\ \/ i \in processing /\ UNCHANGED <<queue, worker>>
        \/ /\ i \notin processing
           /\ queue' = Append(queue, i)
           /\ \E W \in Signalled : worker' = MakeReady(W)

Add(i) ==
  /\ Enqueue(i)
  /\ UNCHANGED <<controlVars, delayVars>>

GetItem(w) ==
  /\ worker[w] = "ready"
  /\ queue # << >>
  /\ queue' = Tail(queue)
  /\ processing' = processing \cup {Head(queue)}
  /\ dirty' = dirty \ {Head(queue)}
  /\ worker' = [worker EXCEPT ![w] = "busy"]
  /\ item' = [item EXCEPT ![w] = Head(queue)]
  /\ UNCHANGED <<shuttingDown, delayVars>>

GetSleeps(w) ==
  /\ worker[w] = "ready"
  /\ queue = << >> /\ ~shuttingDown
  /\ worker' = [worker EXCEPT ![w] = "asleep"]
  /\ UNCHANGED <<orderVars, controlVars, delayVars>>

GetReturnsShutdown(w) ==
  /\ worker[w] = "ready"
  /\ queue = << >> /\ shuttingDown
  /\ worker' = [worker EXCEPT ![w] = "gone"]
  /\ UNCHANGED <<orderVars, controlVars, delayVars>>

\* Mutant of Done: an item that became dirty meanwhile is not queued again.
DoneWithoutRequeue(w) ==
  /\ worker[w] = "busy"
  /\ item' = [item EXCEPT ![w] = NoItem]
  /\ processing' = processing \ {item[w]}
  /\ \E W \in Signalled : worker' = MakeReady(W \cup {w})
  /\ UNCHANGED <<queue, dirty, shuttingDown, delayVars>>

\* Mutant of Done: finishing an item also takes its mark away.
DoneClearsMark(w) ==
  /\ worker[w] = "busy"
  /\ item' = [item EXCEPT ![w] = NoItem]
  /\ processing' = processing \ {item[w]}
  /\ dirty' = dirty \ {item[w]}
  /\ \E W \in Signalled : worker' = MakeReady(W \cup {w})
  /\ UNCHANGED <<queue, shuttingDown, delayVars>>

Done(w) ==
  /\ worker[w] = "busy"
  /\ item' = [item EXCEPT ![w] = NoItem]
  /\ processing' = processing \ {item[w]}
  /\ \/ /\ item[w] \in dirty
        /\ queue' = Append(queue, item[w])
        /\ \E W \in Signalled : worker' = MakeReady(W \cup {w})
     \/ /\ item[w] \notin dirty /\ processing' = {}
        /\ UNCHANGED queue
        /\ \E W \in Signalled : worker' = MakeReady(W \cup {w})
     \/ /\ item[w] \notin dirty /\ processing' # {}
        /\ UNCHANGED queue
        /\ worker' = MakeReady({w})
  /\ UNCHANGED <<dirty, shuttingDown, delayVars>>

\* Mutant of ShutDown: only one of the workers that wait is woken.
ShutDownSignals ==
  /\ shuttingDown' = TRUE
  /\ \E W \in Signalled : worker' = MakeReady(W)
  /\ UNCHANGED <<orderVars, processing, item, delayVars>>

\* Broadcast wakes every worker that waits.
ShutDown ==
  /\ shuttingDown' = TRUE
  /\ worker' = MakeReady(Asleep)
  /\ UNCHANGED <<orderVars, processing, item, delayVars>>

-----------------------------------------------------------------------------
(* Retries: a worker reports the outcome of the item it holds.             *)

\* AddAfter(item, rateLimiter.When(item)); the send blocks while the channel
\* is full.
AddRateLimited(w) ==
  /\ worker[w] = "busy"
  /\ failures[item[w]] < MaxFailures
  /\ failures' = [failures EXCEPT ![item[w]] = @ + 1]
  /\ \/ shuttingDown /\ UNCHANGED addCh
     \/ /\ ~shuttingDown /\ Len(addCh) < ChanCapacity
        /\ addCh' = Append(addCh, item[w])
  /\ UNCHANGED <<orderVars, controlVars, waiting, worker>>

\* Mutant of Forget: a success takes back one failure, had it failed or not.
ForgetOnce(w) ==
  /\ worker[w] = "busy"
  /\ failures' = [failures EXCEPT ![item[w]] = @ - 1]
  /\ UNCHANGED <<orderVars, controlVars, addCh, waiting, worker>>

Forget(w) ==
  /\ worker[w] = "busy"
  /\ failures' = [failures EXCEPT ![item[w]] = 0]
  /\ UNCHANGED <<orderVars, controlVars, addCh, waiting, worker>>

\* Mutant of ReceiveDelayed: an entry for an item being processed is dropped.
ReceiveDropsProcessing ==
  /\ addCh # << >>
  /\ addCh' = Tail(addCh)
  /\ waiting' = waiting \cup ({Head(addCh)} \ processing)
  /\ UNCHANGED <<queue, dirty, worker, controlVars, failures>>

\* The waitingLoop takes an entry from the channel: already due, it goes to
\* the queue; otherwise insert keeps one entry for each item.  (It may still do
\* so when the queue shuts down, once: what it adds then is ignored.)
ReceiveDelayed ==
  /\ addCh # << >>
  /\ addCh' = Tail(addCh)
  /\ \/ Enqueue(Head(addCh)) /\ UNCHANGED waiting
     \/ /\ waiting' = waiting \cup {Head(addCh)}
        /\ UNCHANGED <<queue, dirty, worker>>
  /\ UNCHANGED <<controlVars, failures>>

\* The waitingLoop finds an entry of its heap due.
DelayExpires(i) ==
  /\ i \in waiting
  /\ Enqueue(i)
  /\ waiting' = waiting \ {i}
  /\ UNCHANGED <<controlVars, failures, addCh>>

-----------------------------------------------------------------------------

WorkerStep(w) == GetItem(w) \/ GetSleeps(w) \/ GetReturnsShutdown(w)

Next ==
  \/ \E i \in Items : Add(i) \/ DelayExpires(i)
  \/ \E w \in Workers : WorkerStep(w) \/ AddRateLimited(w) \/ Forget(w) \/ Done(w)
  \/ ReceiveDelayed
  \/ ShutDown

Spec == Init /\ [][Next]_vars

\* Goroutines that can run do run; every item that is taken is given back
\* (the controller defers queue.Done); delays pass, until the queue shuts down.
Fairness ==
  /\ \A w \in Workers : WF_vars(WorkerStep(w)) /\ WF_vars(Done(w))
  /\ \A i \in Items : WF_vars(~shuttingDown /\ DelayExpires(i))
  /\ WF_vars(~shuttingDown /\ ReceiveDelayed)

FairSpec == Spec /\ Fairness

-----------------------------------------------------------------------------
(* Properties.                                                             *)

\* The comment on the field queue of Typed, and its converse: the queue holds
\* every item that is dirty and not being processed, once, and nothing else, so
\* that no item is forgotten and none is handed out to a second worker.
QueueShape ==
  /\ Range(queue) = dirty \ processing
  /\ IsInjective(queue)

\* controller.go, processNextItem: two pods with the same key are never
\* processed in parallel, however often the key is added, retried or due; and
\* what is being processed is what the busy workers hold.
ExclusiveProcessing ==
  /\ processing = {item[w] : w \in {v \in Workers : worker[v] = "busy"}}
  /\ \A w \in Workers : worker[w] = "busy" <=> item[w] # NoItem
  /\ \A v, w \in Workers : item[v] = item[w] /\ item[v] # NoItem => v = w

Ready == {w \in Workers : worker[w] = "ready"}

\* No lost wake-up (the condition variable in Add, Get and Done): while a worker
\* sleeps, every queued item has a ready worker of its own that will come and
\* take it, although Signal wakes only one worker and another one may take the
\* item before it has the lock again.
NoLostWakeup == Asleep # {} => Len(queue) <= Cardinality(Ready)

\* Whatever happens to a key that is marked, only a worker that takes it up
\* clears the mark: adding a key while it is processed is never forgotten.
OnlyAStartClearsAMark ==
  [][\A i \in dirty : i \in dirty' \/ (i \notin processing /\ i \in processing')]_vars

\* Every key that is marked is processed, also when it is marked while a
\* worker has it, is retried, or the queue is shut down meanwhile.
MarkedIsProcessed ==
  \A i \in Items : i \in dirty ~> i \in processing

\* A retry that was asked for is queued again, unless the queue shuts down.
RetryIsQueued ==
  \A i \in Items :
     (i \in waiting \cup Range(addCh))
        ~> (i \in dirty \/ shuttingDown)

\* ShutDown lets every worker finish: those that sleep are woken, those that
\* work drain the queue first.
ShutDownReleasesWorkers ==
  shuttingDown ~> (queue = << >> /\ \A w \in Workers : worker[w] = "gone")

\* The queue keeps the promise the controller relies on.
Promise == INSTANCE MarkedWork WITH
             pending <- dirty, active <- item, closed <- shuttingDown
ImplementsMarkedWork == Promise!Spec

=============================================================================
