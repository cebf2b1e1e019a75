---------------------------- MODULE ProcessProofs ----------------------------
(***************************************************************************)
(* Theorems about Process, for any number of rotations, failures and       *)
(* signals: the process is one of CertReload's, so what is proved of those *)
(* holds of it.  A step that ends the process is an interruption of        *)
(* CertReload only if there is a process to end: that StartWatching and a  *)
(* signal are gone with it (GoneWhenDown) makes this inductive.            *)
(***************************************************************************)
EXTENDS Process, CertReloadProofs

GoneWhenDown == main = "down" => watch = "none" /\ ~term

ProcessInv == ProcessTypeOK /\ SafeInv /\ GoneWhenDown

\* How a step of the process appears to CertReload.
AsCertReload == [Next]_vars

-----------------------------------------------------------------------------

\* A failure is an interruption, wherever it happens.
LEMMA FailureInterrupts ==
  ASSUME "Interruptions" \in Disturbances, main # "down",
         ProcessInv, Fatal, AllGone, interruptions' \in 0 .. MaxInterruptions
  PROVE  AsCertReload /\ ProcessTypeOK' /\ GoneWhenDown'
<1>1. AsCertReload
  BY DEF AsCertReload, Next, Interrupted
<1>2. SafeInv'
  BY FatalKeepsSafeInv DEF ProcessInv
<1>3. ProcessTypeOK'
  BY <1>2 DEF ProcessTypeOK, SafeInv, AllGone
<1> QED  BY <1>1, <1>3 DEF GoneWhenDown, AllGone

\* A step counted as a disturbance stays within the bound.
LEMMA DisturbedIsBounded ==
  ASSUME ProcessTypeOK, Disturbed
  PROVE  interruptions' \in 0 .. MaxInterruptions
BY InterruptionsAssumption DEF ProcessTypeOK, Disturbed

\* Steps of CertReload take the rest along.
LEMMA AlongKeepsInv ==
  ASSUME ProcessInv, AsCertReload, Along
  PROVE  ProcessTypeOK' /\ GoneWhenDown'
<1>1. SafeInv'
  BY NextKeepsSafeInv DEF ProcessInv, AsCertReload
<1>2. CASE main' = "down"
  BY <1>1, <1>2 DEF ProcessInv, ProcessTypeOK, SafeInv, Along, AllGone, GoneWhenDown
<1>3. CASE main' # "down"
  BY <1>1, <1>3 DEF ProcessInv, ProcessTypeOK, SafeInv, Along, inMemory, GoneWhenDown
<1> QED  BY <1>2, <1>3

\* Every step of the process is a step of CertReload or none of its business.
LEMMA StepsAreCertReloads ==
  ASSUME "Interruptions" \in Disturbances, ProcessInv, [ProcessNext]_processVars
  PROVE  AsCertReload /\ ProcessTypeOK' /\ GoneWhenDown'
<1>1. ASSUME (Rotate \/ Restart \/ ReloaderStep \/ Deliver \/ MainStep) /\ Along
      PROVE  AsCertReload /\ ProcessTypeOK' /\ GoneWhenDown'
  <2>1. AsCertReload
    BY <1>1 DEF AsCertReload, Next
  <2> QED  BY <1>1, <2>1, AlongKeepsInv
<1>2. ASSUME Fails, main # "down"
      PROVE  AsCertReload /\ ProcessTypeOK' /\ GoneWhenDown'
  BY <1>2, FailureInterrupts, DisturbedIsBounded DEF Fails, ProcessInv
<1>3. ASSUME UNCHANGED vars, UNCHANGED <<watch, term>> \/ main # "down", ProcessTypeOK'
      PROVE  AsCertReload /\ ProcessTypeOK' /\ GoneWhenDown'
  BY <1>3 DEF AsCertReload, ProcessInv, GoneWhenDown, vars
<1>4. watch # "none" \/ term => main # "down"
  BY DEF ProcessInv, GoneWhenDown
<1>5. ASSUME UNCHANGED vars  PROVE TypeOK'
  BY <1>5 DEF ProcessInv, SafeInv, TypeOK, vars
<1>6. ASSUME SetUp  PROVE AsCertReload /\ ProcessTypeOK' /\ GoneWhenDown'
  <2>1. CASE Fails
    BY <1>2, <1>6, <2>1 DEF SetUp
  <2>2. CASE UNCHANGED vars /\ watch' = "starting"
             /\ UNCHANGED <<interruptions, listening, term, run, informer, queued, closed>>
    <3>1. ProcessTypeOK'
      BY <1>5, <2>2 DEF ProcessInv, ProcessTypeOK
    <3> QED  BY <1>3, <1>6, <2>2, <3>1 DEF SetUp
  <2> QED  BY <1>6, <2>1, <2>2 DEF SetUp
<1>7. ASSUME NEW s \in Servers, Listen(s)
      PROVE  AsCertReload /\ ProcessTypeOK' /\ GoneWhenDown'
  <2>1. CASE Fails
    BY <1>2, <1>4, <1>7, <2>1 DEF Listen
  <2>2. CASE UNCHANGED vars /\ listening' = listening \cup {s}
             /\ UNCHANGED <<interruptions, watch, term, run, informer, queued, closed>>
    <3>1. ProcessTypeOK'
      BY <1>5, <2>2 DEF ProcessInv, ProcessTypeOK
    <3> QED  BY <1>3, <2>2, <3>1
  <2> QED  BY <1>7, <2>1, <2>2 DEF Listen
<1>8. ASSUME StartController  PROVE AsCertReload /\ ProcessTypeOK' /\ GoneWhenDown'
  <2>1. CASE Fails
    BY <1>2, <1>4, <1>8, <2>1 DEF StartController
  <2>2. CASE watch' = "asking" /\ run' = "starting" /\ UNCHANGED <<rest, informer, queued, closed>>
    <3>1. ProcessTypeOK'
      BY <1>5, <2>2 DEF ProcessInv, ProcessTypeOK, rest
    <3> QED  BY <1>3, <1>4, <1>8, <2>2, <3>1 DEF StartController, rest
  <2> QED  BY <1>8, <2>1, <2>2 DEF StartController
<1>9. ASSUME DeliverTerm  PROVE AsCertReload /\ ProcessTypeOK' /\ GoneWhenDown'
  <2>1. CASE Fatal /\ AllGone /\ UNCHANGED interruptions
    BY <1>4, <1>9, <2>1, FailureInterrupts DEF DeliverTerm, ProcessInv, ProcessTypeOK
  <2>2. CASE term' = FALSE /\ watch' = "returned"
             /\ UNCHANGED <<vars, interruptions, listening, run, informer, queued, closed>>
    <3>1. ProcessTypeOK'
      BY <1>5, <2>2 DEF ProcessInv, ProcessTypeOK
    <3> QED  BY <1>3, <1>4, <1>9, <2>2, <3>1 DEF DeliverTerm
  <2> QED  BY <1>9, <2>1, <2>2 DEF DeliverTerm
<1>10. ASSUME SendTerm \/ AskForTerm
       PROVE  AsCertReload /\ ProcessTypeOK' /\ GoneWhenDown'
  <2>1. UNCHANGED vars /\ main # "down"
    BY <1>4, <1>10 DEF SendTerm, AskForTerm, rest
  <2>2. interruptions' \in 0 .. MaxInterruptions
    BY <1>10, DisturbedIsBounded DEF SendTerm, AskForTerm, rest, ProcessInv, ProcessTypeOK
  <2>3. ProcessTypeOK'
    BY <1>5, <1>10, <2>1, <2>2 DEF ProcessInv, ProcessTypeOK, SendTerm, AskForTerm, rest
  <2> QED  BY <1>3, <2>1, <2>3
<1>11. ASSUME RunStep \/ InformerStep \/ HandlerAdds
       PROVE  AsCertReload /\ ProcessTypeOK' /\ GoneWhenDown'
  <2>1. UNCHANGED <<vars, interruptions, listening, term, watch>>
    BY <1>11 DEF RunStep, InformerStep, StartRun, WaitForCacheSync, Until, Get, ProcessKey,
                 ShutDownQueue, InformerSyncs, HandlerAdds, InformerStops, controllerRest, rest
  <2>2. /\ run' \in {"none", "starting", "syncing", "until", "get", "busy", "returned"}
        /\ informer' \in {"none", "listing", "synced", "stopped"}
        /\ queued' \in BOOLEAN /\ closed' \in BOOLEAN
    <3>1. ProcessTypeOK
      BY DEF ProcessInv
    <3>2. CASE RunStep
      BY <3>1, <3>2 DEF ProcessTypeOK, RunStep, StartRun, WaitForCacheSync, Until, Get,
                        ProcessKey, ShutDownQueue
    <3>3. CASE InformerStep \/ HandlerAdds
      BY <3>1, <3>3 DEF ProcessTypeOK, InformerStep, InformerSyncs, HandlerAdds, InformerStops
    <3> QED  BY <1>11, <3>2, <3>3
  <2>3. ProcessTypeOK'
    BY <1>5, <2>1, <2>2 DEF ProcessInv, ProcessTypeOK
  <2> QED  BY <1>3, <2>1, <2>3
<1>12. CASE UNCHANGED processVars
  <2>1. ProcessTypeOK'
    BY <1>5, <1>12 DEF ProcessInv, ProcessTypeOK, processVars, inMemory
  <2> QED  BY <1>3, <1>12, <2>1 DEF processVars, inMemory
<1> QED
  BY <1>1, <1>2, <1>6, <1>7, <1>8, <1>9, <1>10, <1>11, <1>12
     DEF ProcessNext, Killed, Restarts, Reloads, Delivers, MainGoesOn, MainStep

\* The invariant holds from the start, and step by step.
LEMMA ProcessKeepsInv ==
  ASSUME "Interruptions" \in Disturbances
  PROVE  ProcessSpec => []ProcessInv
<1>1. ASSUME ProcessInit  PROVE ProcessInv
  <2>1. SafeInv
    BY <1>1, InitEstablishesSafeInv DEF ProcessInit
  <2>2. interruptions \in 0 .. MaxInterruptions
    BY <1>1, InterruptionsAssumption DEF ProcessInit
  <2>3. ProcessTypeOK /\ GoneWhenDown
    BY <1>1, <2>1, <2>2 DEF ProcessInit, ProcessTypeOK, SafeInv, GoneWhenDown
  <2> QED  BY <2>1, <2>3 DEF ProcessInv
<1>2. ASSUME ProcessInv, [ProcessNext]_processVars  PROVE ProcessInv'
  BY <1>2, StepsAreCertReloads, NextKeepsSafeInv DEF ProcessInv, AsCertReload
<1> QED  BY <1>1, <1>2, PTL DEF ProcessSpec

\* Whatever signals and failures do to servers, watch and worker, the process
\* reloads its key pair as CertReload does.
THEOREM ProcessIsCertReload ==
  ASSUME "Interruptions" \in Disturbances
  PROVE  ProcessSpec => ImplementsCertReload
<1>1. ProcessInit => Init
  BY DEF ProcessInit
<1>2. ProcessInv /\ [ProcessNext]_processVars => [Next]_vars
  BY StepsAreCertReloads DEF AsCertReload
<1> QED  BY <1>1, <1>2, ProcessKeepsInv, PTL DEF ProcessSpec, ImplementsCertReload, Spec

\* Types.
COROLLARY ProcessTypes ==
  ASSUME "Interruptions" \in Disturbances
  PROVE  ProcessSpec => []ProcessTypeOK
<1>1. ProcessInv => ProcessTypeOK
  BY DEF ProcessInv
<1> QED  BY <1>1, ProcessKeepsInv, PTL

-----------------------------------------------------------------------------
(* The end of the work.                                                    *)

\* The queue is shut down after Run has returned, and Run is started once.
RunEndsFirst ==
  /\ closed => run = "returned"
  /\ watch \in {"none", "starting"} => run = "none"

\* A worker goes on, and its queue stays open.
WorkGoesOn ==
  main' # "down" /\ run \in {"get", "busy"} => run' \in {"get", "busy"} /\ ~closed'

\* Each step of the process keeps the order of the ends.
LEMMA StepsKeepOrder ==
  ASSUME RunEndsFirst, [ProcessNext]_processVars
  PROVE  RunEndsFirst' /\ WorkGoesOn
<1>1. ASSUME AllGone, main' = "down"  PROVE RunEndsFirst' /\ WorkGoesOn
  BY <1>1 DEF RunEndsFirst, WorkGoesOn, AllGone
<1>2. ASSUME UNCHANGED <<watch, run, closed>>  PROVE RunEndsFirst' /\ WorkGoesOn
  BY <1>2 DEF RunEndsFirst, WorkGoesOn
<1>3. ASSUME Along  PROVE RunEndsFirst' /\ WorkGoesOn
  BY <1>1, <1>2, <1>3 DEF Along, inMemory
<1>4. ASSUME Fatal, AllGone  PROVE RunEndsFirst' /\ WorkGoesOn
  BY <1>1, <1>4 DEF Fatal
<1>5. ASSUME Fails  PROVE RunEndsFirst' /\ WorkGoesOn
  BY <1>4, <1>5 DEF Fails
<1>6. CASE SetUp \/ StartController
  <2>1. CASE watch = "none" /\ watch' = "starting" /\ UNCHANGED <<run, closed>>
    BY <2>1 DEF RunEndsFirst, WorkGoesOn
  <2>2. CASE watch = "starting" /\ watch' = "asking" /\ run' = "starting" /\ closed' = closed
    BY <2>2 DEF RunEndsFirst, WorkGoesOn
  <2> QED  BY <1>5, <1>6, <2>1, <2>2 DEF SetUp, StartController
<1>7. CASE \E s \in Servers : Listen(s)
  BY <1>2, <1>5, <1>7 DEF Listen
<1>8. CASE AskForTerm
  BY <1>8 DEF AskForTerm, RunEndsFirst, WorkGoesOn
<1>9. CASE DeliverTerm
  <2>1. CASE watch \in {"waiting", "returned"} /\ watch' = "returned" /\ UNCHANGED <<run, closed>>
    BY <2>1 DEF RunEndsFirst, WorkGoesOn
  <2> QED  BY <1>4, <1>9, <2>1 DEF DeliverTerm
<1>10. CASE RunStep
  BY <1>10 DEF RunStep, StartRun, WaitForCacheSync, Until, Get, ProcessKey, ShutDownQueue,
               controllerRest, RunEndsFirst, WorkGoesOn
<1>11. CASE SendTerm \/ InformerStep \/ HandlerAdds \/ UNCHANGED processVars
  BY <1>2, <1>11 DEF SendTerm, InformerStep, InformerSyncs, InformerStops, HandlerAdds,
                     controllerRest, processVars, inMemory
<1> QED
  BY <1>3, <1>5, <1>6, <1>7, <1>8, <1>9, <1>10, <1>11
     DEF ProcessNext, Killed, Restarts, Reloads, Delivers, MainGoesOn

\* A worker that was started stays with an open queue until the process ends,
\* whatever signals, failures and rotations there are: the deferred ShutDown of
\* Run cannot release it.
THEOREM WorkerIsNeverLetGo == ProcessSpec => WorkerStaysAtWork
<1>1. ProcessInit => RunEndsFirst
  BY DEF ProcessInit, RunEndsFirst
<1>2. RunEndsFirst /\ [ProcessNext]_processVars => RunEndsFirst' /\ [WorkGoesOn]_processVars
  BY StepsKeepOrder
<1>3. [WorkGoesOn]_processVars
        => [main' # "down" /\ run \in {"get", "busy"}
              => run' \in {"get", "busy"} /\ ~closed']_processVars
  BY DEF WorkGoesOn
<1> QED  BY <1>1, <1>2, <1>3, PTL DEF ProcessSpec, WorkerStaysAtWork

=============================================================================
