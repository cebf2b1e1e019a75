------------------------------ MODULE Process -------------------------------
(***************************************************************************)
(* The life of the process: main (cmd/webhook/main.go) sets up its two     *)
(* servers and starts StartWatching (pkg/controller), which starts Run and *)
(* waits for a signal to terminate; main itself goes on to the loop of     *)
(* CertReload, which has no end.  A failure of any goroutine ends the      *)
(* process with all of them (glog.Fatal), and its container is started     *)
(* again.                                                                  *)
(*                                                                         *)
(* The queue of the controller is reduced to whether a key waits in it, as *)
(* WorkQueue and Controller model the rest.                                *)
(***************************************************************************)
EXTENDS CertReload

CONSTANT MaxInterruptions  \* bound on failures and signals from outside

ASSUME InterruptionsAssumption == MaxInterruptions \in Nat

VARIABLES interruptions, \* how many there have been
          listening,     \* the servers that accept connections
          watch,         \* where StartWatching is
          term,          \* SIGTERM was sent and not delivered
          run,           \* where Controller.Run is, in runWorker too
          informer,      \* where informer.Run is
          queued,        \* a key waits in the queue
          closed         \* the queue was shut down

inMemory == <<listening, watch, term, run, informer, queued, closed>>
processVars == <<vars, interruptions, inMemory>>

Servers == {"metrics", "webhook"}

ProcessTypeOK ==
  /\ TypeOK
  /\ interruptions \in 0 .. MaxInterruptions
  /\ listening \subseteq Servers
  /\ watch \in {"none", "starting", "asking", "waiting", "returned"}
  /\ run \in {"none", "starting", "syncing", "until", "get", "busy", "returned"}
  /\ informer \in {"none", "listing", "synced", "stopped"}
  /\ term \in BOOLEAN /\ queued \in BOOLEAN /\ closed \in BOOLEAN

ProcessInit ==
  /\ Init
  /\ interruptions = 0
  /\ listening = {}
  /\ watch = "none" /\ run = "none" /\ informer = "none"
  /\ term = FALSE /\ queued = FALSE /\ closed = FALSE

-----------------------------------------------------------------------------
(* The end of the process.                                                 *)

AllGone ==
  /\ listening' = {}
  /\ watch' = "none" /\ run' = "none" /\ informer' = "none"
  /\ term' = FALSE /\ queued' = FALSE /\ closed' = FALSE

Disturbed ==
  /\ interruptions < MaxInterruptions
  /\ interruptions' = interruptions + 1

\* An error of whatever main, the servers or StartWatching call.
Fails == Disturbed /\ Fatal /\ AllGone

\* A signal nobody can catch, at any time.
Killed == main # "down" /\ Fails

\* A step of CertReload takes the rest along if it ends the process.
Along ==
  /\ UNCHANGED interruptions
  /\ IF main' = "down" THEN AllGone ELSE UNCHANGED inMemory

-----------------------------------------------------------------------------
(* main and the servers.                                                   *)

\* SetupInClusterClient and startHTTPServers, with the goroutines they start.
SetUp ==
  /\ main = "poll" /\ watch = "none"
  /\ \/ Fails
     \/ /\ watch' = "starting"
        /\ UNCHANGED <<vars, interruptions, listening, term, run, informer, queued, closed>>

\* ListenAndServe of one server.
Listen(s) ==
  /\ watch # "none" /\ s \notin listening
  /\ \/ Fails
     \/ /\ listening' = listening \cup {s}
        /\ UNCHANGED <<vars, interruptions, watch, term, run, informer, queued, closed>>

\* The loop over the certificate comes after the set-up.
MainGoesOn ==
  /\ LoadCert \/ LoadKey \/ (watch # "none" /\ Poll) \/ Compare
  /\ Along

-----------------------------------------------------------------------------
(* StartWatching.                                                          *)

rest == <<vars, interruptions, listening, term>>

\* It makes its clients and the controller, and starts Run,
StartController ==
  /\ watch = "starting"
  /\ \/ Fails
     \/ /\ watch' = "asking"
        /\ run' = "starting"
        /\ UNCHANGED <<rest, informer, queued, closed>>

\* then asks for signals, and waits for one.
AskForTerm ==
  /\ watch = "asking"
  /\ watch' = "waiting"
  /\ UNCHANGED <<rest, run, informer, queued, closed>>

SendTerm ==
  /\ main # "down" /\ ~term
  /\ Disturbed
  /\ term' = TRUE
  /\ UNCHANGED <<vars, listening, watch, run, informer, queued, closed>>

\* Mutant of DeliverTerm: the reloader asks for every signal.
DeliverTermReloads ==
  /\ term
  /\ term' = FALSE
  /\ IF reloader = "waiting" THEN hangup' = TRUE ELSE UNCHANGED hangup
  /\ UNCHANGED <<files, main, hashes, reloader, newCert, pending, served,
                 interruptions, listening, watch, run, informer, queued, closed>>

\* SIGTERM ends a process that has not asked for it.  One that has returns from
\* StartWatching, and ignores those that follow.
DeliverTerm ==
  /\ term
  /\ \/ /\ watch \notin {"waiting", "returned"}
        /\ Fatal /\ AllGone
        /\ UNCHANGED interruptions
     \/ /\ watch \in {"waiting", "returned"}
        /\ term' = FALSE
        /\ watch' = "returned"
        /\ UNCHANGED <<vars, interruptions, listening, run, informer, queued, closed>>

\* Mutant of StopChClosed: the channel stays open.
StopChStaysOpen == FALSE

\* StartWatching closes stopCh when it returns.
StopChClosed == watch = "returned"

-----------------------------------------------------------------------------
(* Controller.Run.                                                         *)

controllerRest == <<rest, watch>>

\* Mutant of StartRun: informer.Run is not given a goroutine of its own.
StartRunWaits ==
  /\ run = "starting" /\ informer = "none"
  /\ informer' = "listing"
  /\ UNCHANGED <<controllerRest, run, queued, closed>>

StartRun ==
  /\ run = "starting"
  /\ run' = "syncing"
  /\ informer' = "listing"
  /\ UNCHANGED <<controllerRest, queued, closed>>

\* cache.WaitForCacheSync.
WaitForCacheSync ==
  /\ run = "syncing"
  /\ \/ informer = "synced" /\ run' = "until"
     \/ StopChClosed /\ run' = "returned"
  /\ UNCHANGED <<controllerRest, informer, queued, closed>>

\* Mutant of Until: the channel is looked at after the first call.
UntilWorksFirst ==
  /\ run = "until"
  /\ run' = "get"
  /\ UNCHANGED <<controllerRest, informer, queued, closed>>

\* wait.Until looks at the channel before each call of runWorker.
Until ==
  /\ run = "until"
  /\ run' = IF StopChClosed THEN "returned" ELSE "get"
  /\ UNCHANGED <<controllerRest, informer, queued, closed>>

\* runWorker: queue.Get waits for a key, or for the queue to be shut down.
Get ==
  /\ run = "get"
  /\ queued \/ closed
  /\ run' = IF queued THEN "busy" ELSE "until"
  /\ queued' = FALSE
  /\ UNCHANGED <<controllerRest, informer, closed>>

ProcessKey ==
  /\ run = "busy"
  /\ run' = "get"
  /\ UNCHANGED <<controllerRest, informer, queued, closed>>

\* Mutant of ShutDownQueue: the stop channel is enough.
ShutDownQueueAtOnce ==
  /\ StopChClosed /\ ~closed
  /\ closed' = TRUE
  /\ UNCHANGED <<controllerRest, run, informer, queued>>

\* The deferred queue.ShutDown.
ShutDownQueue ==
  /\ run = "returned" /\ ~closed
  /\ closed' = TRUE
  /\ UNCHANGED <<controllerRest, run, informer, queued>>

\* The informer's goroutines.
InformerSyncs ==
  /\ informer = "listing"
  /\ informer' = "synced"
  /\ UNCHANGED <<controllerRest, run, queued, closed>>

\* A handler adds a key; a queue that is shut down takes none.
HandlerAdds ==
  /\ informer \in {"listing", "synced"} /\ ~queued /\ ~closed
  /\ queued' = TRUE
  /\ UNCHANGED <<controllerRest, run, informer, closed>>

InformerStops ==
  /\ informer \in {"listing", "synced"} /\ StopChClosed
  /\ informer' = "stopped"
  /\ UNCHANGED <<controllerRest, run, queued, closed>>

-----------------------------------------------------------------------------

Restarts     == Restart /\ Along
Reloads      == ReloaderStep /\ Along
Delivers     == Deliver /\ Along
RunStep      == StartRun \/ WaitForCacheSync \/ Until \/ Get \/ ProcessKey \/ ShutDownQueue
InformerStep == InformerSyncs \/ InformerStops

ProcessNext ==
  \/ Rotate /\ Along
  \/ Killed \/ SendTerm
  \/ Restarts \/ MainGoesOn \/ Reloads \/ Delivers
  \/ SetUp \/ (\E s \in Servers : Listen(s))
  \/ StartController \/ AskForTerm \/ DeliverTerm
  \/ RunStep \/ InformerStep \/ HandlerAdds

ProcessSpec == ProcessInit /\ [][ProcessNext]_processVars

\* Goroutines run, signals arrive, the API server answers, and the container is
\* started again.  Nobody owes a rotation, a key, a failure or a signal.
FairProcess ==
  /\ ProcessSpec
  /\ WF_processVars(Restarts) /\ WF_processVars(MainGoesOn \/ SetUp)
  /\ WF_processVars(Reloads) /\ WF_processVars(Delivers)
  /\ \A s \in Servers : WF_processVars(Listen(s))
  /\ WF_processVars(StartController \/ AskForTerm) /\ WF_processVars(DeliverTerm)
  /\ WF_processVars(RunStep)
  /\ WF_processVars(InformerSyncs) /\ WF_processVars(InformerStops)

-----------------------------------------------------------------------------
(* Properties.                                                             *)

\* Servers, watch and signals leave the reloading of the key pair as it is: the
\* process is one of CertReload's, interrupted now and then.
ImplementsCertReload == Spec

\* Once the key pair is complete, and failures and signals have ended, both
\* servers listen and the worker works, unless StartWatching was told to return:
\* main, StartWatching and Run do not wait for one another.
ComesUp ==
  <>[]Complete =>
    <>[](listening = Servers /\ (StopChClosed \/ run \in {"get", "busy"}))

\* A stop that comes before the worker was started lets Run return and shut the
\* queue down, whatever was under way (Run, wait.Until).
StopBeforeWorkEnds ==
  watch = "returned" /\ run \in {"starting", "syncing", "until"} ~> closed \/ main = "down"

\* After a stop the informer ends, and the worker is done with all keys it was
\* given, or never began.
StopSettles ==
  watch = "returned" ~>
    main = "down" \/ (informer = "stopped" /\ (closed \/ (run = "get" /\ ~queued)))

\* A worker that was started is given every key, and the handlers may add keys
\* for it, until the process ends: Run shuts the queue down behind wait.Until,
\* never under the worker, and for the same reason never lets the worker go.
WorkerStaysAtWork ==
  [][main' # "down" /\ run \in {"get", "busy"}
       => run' \in {"get", "busy"} /\ ~closed']_processVars

\* The comment on StartWatching (controller.go): it "waits for process
\* termination signals".  So a process that is told to terminate does.
TerminationEndsProcess == term ~> main = "down"

=============================================================================
