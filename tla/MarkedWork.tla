----------------------------- MODULE MarkedWork -----------------------------
(***************************************************************************)
(* What the controller relies on when it calls its work queue (comment in  *)
(* processNextItem, pkg/controller/controller.go): a key may be marked at  *)
(* any time, marks coalesce, a mark is consumed only by starting work on   *)
(* the key, and no two workers hold the same key.  Nothing is said of the  *)
(* order of the keys, of condition variables or of delays.                 *)
(***************************************************************************)
CONSTANTS Items,    \* the keys
          Workers,  \* the goroutines that process keys
          NoItem    \* what an idle worker holds

VARIABLES pending,  \* keys that were marked and not yet taken up
          active,   \* the key each worker is processing
          closed    \* TRUE once the queue takes no more marks

vars == <<pending, active, closed>>

TypeOK ==
  /\ pending \subseteq Items
  /\ active \in [Workers -> Items \cup {NoItem}]
  /\ closed \in BOOLEAN

Init ==
  /\ pending = {}
  /\ active = [w \in Workers |-> NoItem]
  /\ closed = FALSE

Mark(i) ==
  /\ ~closed
  /\ pending' = pending \cup {i}
  /\ UNCHANGED <<active, closed>>

Start(w, i) ==
  /\ active[w] = NoItem
  /\ i \in pending
  /\ \A v \in Workers : active[v] # i
  /\ pending' = pending \ {i}
  /\ active' = [active EXCEPT ![w] = i]
  /\ UNCHANGED closed

Finish(w) ==
  /\ active[w] # NoItem
  /\ active' = [active EXCEPT ![w] = NoItem]
  /\ UNCHANGED <<pending, closed>>

Close ==
  /\ closed' = TRUE
  /\ UNCHANGED <<pending, active>>

Next ==
  \/ \E i \in Items : Mark(i)
  \/ \E w \in Workers, i \in Items : Start(w, i)
  \/ \E w \in Workers : Finish(w)
  \/ Close

Spec == Init /\ [][Next]_vars

=============================================================================
