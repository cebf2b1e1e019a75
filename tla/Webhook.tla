------------------------------ MODULE Webhook -------------------------------
(***************************************************************************)
(* The handlers of pkg/webhook: /isolate admits pods, /validate network    *)
(* attachment definitions.  They share nothing, so a behaviour is one      *)
(* request.  A handler that panics is cut off by net/http: the connection  *)
(* is closed without an answer.                                            *)
(*                                                                         *)
(* A request has a path, a body ("empty", "garbage", "otherKind" or        *)
(* "review"), isJson for its Content-Type, and, in a review, its UID       *)
(* (NoUid if the review has no request) and the object: "pod" with its     *)
(* annotation, "definition" or "garbage".                                  *)
(***************************************************************************)
EXTENDS NetworkAnnotation, CniConfig

CONSTANTS Annotations, Configs,  \* of the objects under review
          Uid, NoUid

ASSUME RequestsAssumption ==
  /\ \A a \in Annotations : a.form \in {"blank", "badJson", "json", "list"}
  /\ \A c \in Configs : c.form \in {"empty", "notJson", "single", "list", "odd"}
  /\ \A c \in Configs : c.plugins \in Seq(Types \cup {"missing", "odd", "blank", "noObject"})
  /\ Uid # NoUid

VARIABLES request,
          stage,   \* "reading", "deciding" or "answered"
          answer   \* the status, and what the AdmissionResponse says

webhookVars == <<request, stage, answer>>

Garbage == [kind |-> "garbage"]
Pods == {[kind |-> "pod", annotation |-> a] : a \in Annotations}
Definitions ==
  {[kind |-> "definition", validName |-> v, config |-> c] : v \in BOOLEAN, c \in Configs}

\* What may arrive: reviews of objects the path is meant for, or something that
\* is wrong in one way or another.
Requests ==
  LET Req(p, b, j, u, o) == [path |-> p, body |-> b, isJson |-> j, uid |-> u, object |-> o]
  IN  {Req("/isolate", "review", TRUE, Uid, o) : o \in Pods}
        \cup {Req("/validate", "review", TRUE, Uid, o) : o \in Definitions}
        \cup {Req(p, b, j, u, Garbage) :
                p \in {"/isolate", "/validate"}, j \in BOOLEAN, u \in {Uid, NoUid},
                b \in {"empty", "garbage", "otherKind", "review"}}

NoAnswer == [status |-> "none", uid |-> NoUid, allowed |-> FALSE]

WebhookTypeOK ==
  /\ request \in Requests
  /\ stage \in {"reading", "deciding", "answered"}
  /\ answer \in [status : {"none", "ok", "badRequest", "unsupportedMediaType", "cutOff"},
                 uid : {Uid, NoUid}, allowed : BOOLEAN]

WebhookInit ==
  /\ request \in Requests
  /\ stage = "reading"
  /\ answer = NoAnswer

-----------------------------------------------------------------------------

Reply(status, uid, allowed) ==
  /\ stage' = "answered"
  /\ answer' = [status |-> status, uid |-> uid, allowed |-> allowed]
  /\ UNCHANGED request

\* The handler dereferences nil, or asserts a type that is not there.
Panic == Reply("cutOff", NoUid, FALSE)

\* Mutant of ReadError: what does not decode is the server's fault.
ReadErrorOfServer ==
  IF request.body = "empty" THEN "badRequest"
  ELSE IF ~request.isJson THEN "unsupportedMediaType"
  ELSE IF request.body # "review" THEN "internalServerError"
  ELSE "none"

\* readAdmissionReview and deserializeAdmissionReview.
ReadError ==
  IF request.body = "empty" THEN "badRequest"
  ELSE IF ~request.isJson THEN "unsupportedMediaType"
  ELSE IF request.body # "review" THEN "badRequest"
  ELSE "none"

ReadAdmissionReview ==
  /\ stage = "reading"
  /\ \/ ReadError # "none" /\ Reply(ReadError, NoUid, FALSE)
     \/ /\ ReadError = "none"
        /\ stage' = "deciding"
        /\ UNCHANGED <<request, answer>>

\* prepareAdmissionReviewResponse, for the handler or for handleValidationError,
\* and writeResponse.  A review without a request has made the handler panic.
Decide(outcome) ==
  CASE outcome = "panic" -> Panic
    [] outcome = "ok"    -> Reply("ok", request.uid, TRUE)
    [] outcome = "error" -> Reply("ok", request.uid, FALSE)

\* Mutant of AllLocal: the first network decides.
FirstIsLocal(networks) ==
  networks = << >> \/ networks[1].namespace = LocalMark

AllLocal(networks) == \A i \in DOMAIN networks : networks[i].namespace = LocalMark

\* analyzeIsolationAnnotation, of a pod that has been decoded.
AnalyzeIsolation(annotation) ==
  LET parsed == ParsePodNetworkAnnotation(annotation, LocalMark)
  IN  IF annotation.form = "blank" THEN "ok"
      ELSE IF parsed.outcome # "ok" THEN parsed.outcome
      ELSE IF AllLocal(parsed.networks) THEN "ok" ELSE "error"

\* Mutant of Judge: an object that does not decode is taken for an empty one.
JudgeGarbageAsEmpty(r) ==
  IF r.uid = NoUid THEN "panic"
  ELSE CASE r.object.kind = "garbage"    -> "ok"
         [] r.object.kind = "pod"        -> AnalyzeIsolation(r.object.annotation)
         [] r.object.kind = "definition" -> ValidateDefinition(r.object)

\* What the handler of the request's path finds of the object.
Judge(r) ==
  IF r.uid = NoUid THEN "panic"
  ELSE CASE r.object.kind = "garbage"    -> "error"
         [] r.object.kind = "pod"        -> AnalyzeIsolation(r.object.annotation)
         [] r.object.kind = "definition" -> ValidateDefinition(r.object)

IsolateHandler ==
  /\ stage = "deciding" /\ request.path = "/isolate"
  /\ Decide(Judge(request))

ValidateHandler ==
  /\ stage = "deciding" /\ request.path = "/validate"
  /\ Decide(Judge(request))

WebhookNext == ReadAdmissionReview \/ IsolateHandler \/ ValidateHandler

WebhookSpec == WebhookInit /\ [][WebhookNext]_webhookVars

-----------------------------------------------------------------------------
(* Properties.                                                             *)

Allowed == stage = "answered" /\ answer.allowed

Review(kind) == stage = "answered" /\ request.object.kind = kind

\* Nothing is admitted by a handler that failed on the way to its decision, and
\* whatever is admitted or denied is told under the UID that was asked about.
FailsClosed ==
  stage = "answered" =>
    /\ answer.allowed =>
         /\ request.body = "review" /\ request.isJson
         /\ request.object.kind # "garbage"
         /\ answer.status = "ok"
    /\ answer.status = "ok" => answer.uid = request.uid /\ answer.uid = Uid

\* A network that is looked up in whatever namespace its pod is in, or in the
\* namespace "_local", which cannot exist.
FollowsPod(a, i) ==
  \A namespace \in Labels :
    ParsePodNetworkAnnotation(a, namespace).networks[i].namespace \in {namespace, LocalMark}

\* The pods /isolate admits are those whose every network the controller (and
\* multus) looks up in the pod's own namespace, wherever the pod is: the two
\* copies of the parser, called with different defaults, agree on that.
AllowedIffFollowsPod ==
  Review("pod") /\ request.object.annotation.form # "blank" =>
    LET a == request.object.annotation
        parsed == ParsePodNetworkAnnotation(a, CHOOSE l \in Labels : TRUE)
    IN  answer.allowed <=>
          /\ parsed.outcome = "ok"
          /\ \A i \in DOMAIN parsed.networks : FollowsPod(a, i)

\* A definition is admitted only if there is a key type for its plugin, or each
\* plugin of its list: the checks of libcni alone would not see to that.
AllowedIsTyped ==
  Review("definition") /\ answer.allowed =>
    LET c == request.object.config
    IN  /\ c.form \in {"empty", "single", "list"}
        /\ c.form = "single" => c.type # "missing"
        /\ c.form = "list" => {"missing", "noObject"} \cap Range(c.plugins) = {}

\* What a runtime could use is admitted: a named list of plugins with types, or a
\* plugin with a type, whether it has a name or not.
UsableIsAllowed ==
  Review("definition") /\ request.object.validName =>
    LET c == request.object.config
    IN  \/ c.form = "list" /\ c.name = "text" /\ c.plugins # << >> /\ Range(c.plugins) \subseteq Types
        \/ c.form = "single" /\ c.type \in Types /\ c.name # "odd"
        => answer.allowed

\* The only definitions that are admitted and have no type for the controller to
\* count are empty ones and single plugins with a name (see AllowedIsCounted).
UncountedAreNamedSingles ==
  Review("definition") /\ answer.allowed /\ GetConfigTypes(request.object.config) = {} =>
    LET c == request.object.config
    IN  c.form = "empty" \/ (c.form = "single" /\ c.name = "text")

\* docs/metrics.md counts the pods "with k8s.v1.cni.cncf.io/networks
\* configured", grouped by the types of their networks: so a definition that is
\* admitted and names the type of its plugin has this type for the controller.
AllowedIsCounted ==
  Review("definition") /\ answer.allowed =>
    LET c == request.object.config
    IN  c.form = "single" /\ c.type \in Types => c.type \in GetConfigTypes(c)

=============================================================================
