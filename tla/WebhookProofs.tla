--------------------------- MODULE WebhookProofs ----------------------------
(***************************************************************************)
(* Theorems about Webhook, for any annotations and configurations of the   *)
(* forms that RequestsAssumption lists.  The inductive invariant says what *)
(* each stage of a request has found out: an answer is that of ReadError,  *)
(* or the one Judge calls for.  The rest is about the operators that judge *)
(* an object.                                                              *)
(***************************************************************************)
EXTENDS Webhook, TLAPS

\* What the webhook answers when the decision is the given one.
AnswerTo(outcome) ==
  IF outcome = "panic" THEN [status |-> "cutOff", uid |-> NoUid, allowed |-> FALSE]
  ELSE [status |-> "ok", uid |-> request.uid, allowed |-> outcome = "ok"]

\* A request is answered by what was wrong with it, or else as it is judged.
Justified ==
  /\ stage = "deciding" => ReadError = "none"
  /\ stage = "answered" =>
       IF ReadError = "none" THEN answer = AnswerTo(Judge(request))
       ELSE answer = [status |-> ReadError, uid |-> NoUid, allowed |-> FALSE]

IInv == WebhookTypeOK /\ Justified

-----------------------------------------------------------------------------
(* Network annotations.                                                    *)

\* The namespace that part i of annotation a names; Blank if it names none.
Named(a, i) ==
  IF a.form = "json" THEN a.parts[i].namespace ELSE NamespaceOf(a.parts[i])

\* A network without a namespace gets the default, the others keep theirs.
LEMMA FillInNamespaces ==
  ASSUME NEW networks, NEW default, NEW i \in DOMAIN networks, NEW n, NEW s,
         networks[i] = [name |-> n, namespace |-> s]
  PROVE  /\ DOMAIN FillIn(networks, default) = DOMAIN networks
         /\ FillIn(networks, default)[i].namespace = IF s = Blank THEN default ELSE s
BY DEF FillIn

\* Whether an annotation parses, and into how many networks, does not depend on
\* the default namespace.
LEMMA DefaultDoesNotDecide ==
  ASSUME NEW a, a.form \in {"blank", "badJson", "json", "list"}, NEW d, NEW e
  PROVE  /\ ParsePodNetworkAnnotation(a, d).outcome = ParsePodNetworkAnnotation(a, e).outcome
         /\ ParsePodNetworkAnnotation(a, d).outcome \in {"ok", "error", "panic"}
         /\ DOMAIN ParsePodNetworkAnnotation(a, d).networks
              = DOMAIN ParsePodNetworkAnnotation(a, e).networks
BY DEF ParsePodNetworkAnnotation, ParseJson, ParseList, FillIn, Parsed, Failed, Panicked

\* Where an annotation that parses puts its networks.
LEMMA ParsedNamespaces ==
  ASSUME NEW a, a.form \in {"blank", "badJson", "json", "list"}, NEW d,
         ParsePodNetworkAnnotation(a, d).outcome = "ok",
         NEW i \in DOMAIN ParsePodNetworkAnnotation(a, d).networks
  PROVE  ParsePodNetworkAnnotation(a, d).networks[i].namespace
           = IF Named(a, i) = Blank THEN d ELSE Named(a, i)
<1>1. CASE a.form = "json"
  <2> DEFINE raw == [j \in DOMAIN a.parts |->
                       [name |-> a.parts[j].name, namespace |-> a.parts[j].namespace]]
  <2>1. ParsePodNetworkAnnotation(a, d) = ParseJson(a.parts, d)
    BY <1>1 DEF ParsePodNetworkAnnotation
  <2>2. ParsePodNetworkAnnotation(a, d) = Parsed(FillIn(raw, d))
    BY <2>1 DEF ParseJson, Panicked
  <2>3. ParsePodNetworkAnnotation(a, d).networks = FillIn(raw, d)
    BY <2>2 DEF Parsed
  <2>4. i \in DOMAIN raw
    BY <2>3 DEF FillIn
  <2>5. raw[i] = [name |-> a.parts[i].name, namespace |-> a.parts[i].namespace]
    BY <2>4
  <2> HIDE DEF raw
  <2> QED  BY <1>1, <2>3, <2>4, <2>5, FillInNamespaces DEF Named
<1>2. CASE a.form = "list"
  <2> DEFINE raw == [j \in DOMAIN a.parts |-> ObjectName(a.parts[j])]
  <2>1. ParsePodNetworkAnnotation(a, d) = ParseList(a.parts, d)
    BY <1>2 DEF ParsePodNetworkAnnotation
  <2>2. ParsePodNetworkAnnotation(a, d) = Parsed(FillIn(raw, d))
    BY <2>1 DEF ParseList, Failed
  <2>3. ParsePodNetworkAnnotation(a, d).networks = FillIn(raw, d)
    BY <2>2 DEF Parsed
  <2>4. i \in DOMAIN raw
    BY <2>3 DEF FillIn
  <2>5. raw[i] = [name |-> Last(a.parts[i])[1], namespace |-> NamespaceOf(a.parts[i])]
    BY <2>4 DEF ObjectName
  <2> HIDE DEF raw
  <2> QED  BY <1>2, <2>3, <2>4, <2>5, FillInNamespaces DEF Named
<1>3. CASE a.form \in {"blank", "badJson"}
  BY <1>3 DEF ParsePodNetworkAnnotation, Failed
<1> QED  BY <1>1, <1>2, <1>3

\* A network goes where its pod goes if and only if it names no namespace, or
\* the mark of the webhook: a label it names is the namespace of some pods only.
LEMMA FollowingNamesNone ==
  ASSUME NEW a, a.form \in {"blank", "badJson", "json", "list"},
         ParsePodNetworkAnnotation(a, LocalMark).outcome = "ok",
         NEW i \in DOMAIN ParsePodNetworkAnnotation(a, LocalMark).networks
  PROVE  FollowsPod(a, i)
           <=> ParsePodNetworkAnnotation(a, LocalMark).networks[i].namespace = LocalMark
<1>1. \A d : ParsePodNetworkAnnotation(a, d).networks[i].namespace
               = IF Named(a, i) = Blank THEN d ELSE Named(a, i)
  BY DefaultDoesNotDecide, ParsedNamespaces
<1>2. FollowsPod(a, i) <=> Named(a, i) \in {Blank, LocalMark}
  BY <1>1, UnitsAssumption, Zenon DEF FollowsPod
<1> QED  BY <1>1, <1>2, UnitsAssumption

-----------------------------------------------------------------------------
(* Decisions.                                                              *)

\* What may arrive.
LEMMA RequestShapes ==
  ASSUME request \in Requests
  PROVE  /\ request.uid \in {Uid, NoUid}
         /\ request.object.kind \in {"garbage", "pod", "definition"}
         /\ request.object.kind = "pod" =>
              request.object.annotation.form \in {"blank", "badJson", "json", "list"}
         /\ request.object.kind = "definition" =>
              /\ request.object.config.form \in {"empty", "notJson", "single", "list", "odd"}
              /\ request.object.config.plugins
                   \in Seq(Types \cup {"missing", "odd", "blank", "noObject"})
         /\ request.object.kind # "garbage" => ReadError = "none" /\ request.uid = Uid
BY RequestsAssumption DEF Requests, Pods, Definitions, Garbage, ReadError

\* A definition is judged in one of three ways.
LEMMA DefinitionOutcomes ==
  ASSUME NEW d, d.config.form \in {"empty", "notJson", "single", "list", "odd"}
  PROVE  ValidateDefinition(d) \in {"ok", "error", "panic"}
BY DEF ValidateDefinition, ValidateCNIConfig

\* So is every request, and the ones that are cut off are the only ones that can
\* lack a UID.
LEMMA JudgeOutcomes ==
  ASSUME request \in Requests
  PROVE  /\ Judge(request) \in {"ok", "error", "panic"}
         /\ Judge(request) # "panic" => request.uid = Uid
         /\ Judge(request) = "ok" => request.object.kind # "garbage"
<1>1. CASE request.object.kind = "garbage" \/ request.uid = NoUid
  BY <1>1, RequestShapes DEF Judge
<1>2. CASE request.object.kind = "pod" /\ request.uid # NoUid
  <2>1. AnalyzeIsolation(request.object.annotation) \in {"ok", "error", "panic"}
    BY <1>2, RequestShapes, DefaultDoesNotDecide DEF AnalyzeIsolation
  <2> QED  BY <1>2, <2>1, RequestShapes DEF Judge
<1>3. CASE request.object.kind = "definition" /\ request.uid # NoUid
  BY <1>3, RequestShapes, DefinitionOutcomes DEF Judge
<1> QED  BY <1>1, <1>2, <1>3, RequestShapes

\* The handler of either path answers what Judge calls for.
LEMMA DecideAnswers ==
  ASSUME request \in Requests, Decide(Judge(request))
  PROVE  /\ stage' = "answered" /\ request' = request
         /\ answer' = AnswerTo(Judge(request))
BY JudgeOutcomes DEF Decide, AnswerTo, Panic, Reply

-----------------------------------------------------------------------------
(* The inductive invariant.                                                *)

\* A request that is yet to be read has no answer.
LEMMA InitEstablishesIInv == WebhookInit => IInv
BY DEF WebhookInit, IInv, WebhookTypeOK, Justified, NoAnswer

\* Reading finds what is wrong with a request, and a handler decides on the rest.
LEMMA NextKeepsIInv == IInv /\ [WebhookNext]_webhookVars => IInv'
<1> SUFFICES ASSUME IInv, [WebhookNext]_webhookVars  PROVE IInv'
  OBVIOUS
<1>1. CASE ReadAdmissionReview
  <2>1. CASE ReadError # "none" /\ Reply(ReadError, NoUid, FALSE)
    <3>1. ReadError \in {"badRequest", "unsupportedMediaType"} /\ ReadError' = ReadError
      BY <2>1 DEF ReadError, Reply
    <3> QED  BY <2>1, <3>1 DEF Reply, IInv, WebhookTypeOK, Justified
  <2>2. CASE /\ ReadError = "none"
             /\ stage' = "deciding"
             /\ UNCHANGED <<request, answer>>
    BY <2>2 DEF IInv, WebhookTypeOK, Justified, ReadError
  <2> QED  BY <1>1, <2>1, <2>2 DEF ReadAdmissionReview
<1>2. CASE IsolateHandler \/ ValidateHandler
  <2>1. stage = "deciding" /\ Decide(Judge(request)) /\ request \in Requests
    BY <1>2 DEF IsolateHandler, ValidateHandler, IInv, WebhookTypeOK
  <2>2. /\ stage' = "answered" /\ request' = request
        /\ answer' = AnswerTo(Judge(request))
    BY <2>1, DecideAnswers
  <2>3. ReadError' = "none"
    BY <2>1, <2>2 DEF IInv, Justified, ReadError
  <2>4. AnswerTo(Judge(request))' = AnswerTo(Judge(request))
    BY <2>2 DEF AnswerTo, Judge
  <2>5. AnswerTo(Judge(request)) \in
          [status : {"none", "ok", "badRequest", "unsupportedMediaType", "cutOff"},
           uid : {Uid, NoUid}, allowed : BOOLEAN]
    BY <2>1, RequestShapes DEF AnswerTo
  <2> QED  BY <2>1, <2>2, <2>3, <2>4, <2>5 DEF IInv, WebhookTypeOK, Justified
<1>3. CASE UNCHANGED webhookVars
  BY <1>3 DEF webhookVars, IInv, WebhookTypeOK, Justified, AnswerTo, ReadError
<1> QED  BY <1>1, <1>2, <1>3 DEF WebhookNext

\* Every answer is one that the request calls for.
THEOREM WebhookInvariant == WebhookSpec => []IInv
BY InitEstablishesIInv, NextKeepsIInv, PTL DEF WebhookSpec

\* Types.
THEOREM WebhookTypes == WebhookSpec => []WebhookTypeOK
<1>1. IInv => WebhookTypeOK
  BY DEF IInv
<1> QED  BY <1>1, WebhookInvariant, PTL

-----------------------------------------------------------------------------
(* What is admitted.                                                       *)

\* A review of an object that decodes is allowed if and only if the object is
\* judged to be in order.
LEMMA AllowedIfJudged ==
  ASSUME IInv, stage = "answered"
  PROVE  /\ answer.allowed => ReadError = "none" /\ Judge(request) = "ok"
         /\ request.object.kind # "garbage" => (answer.allowed <=> Judge(request) = "ok")
<1>1. answer = IF ReadError = "none" THEN AnswerTo(Judge(request))
               ELSE [status |-> ReadError, uid |-> NoUid, allowed |-> FALSE]
  BY DEF IInv, Justified
<1>2. request.object.kind # "garbage" => ReadError = "none"
  BY RequestShapes DEF IInv, WebhookTypeOK
<1> QED  BY <1>1, <1>2 DEF AnswerTo

\* Nothing is admitted by a handler that could not read, decode or judge what it
\* was sent, and a decision bears the UID of its review.
THEOREM HandlersFailClosed == WebhookSpec => []FailsClosed
<1>1. IInv => FailsClosed
  <2> SUFFICES ASSUME IInv, stage = "answered"
               PROVE  /\ answer.allowed =>
                           /\ request.body = "review" /\ request.isJson
                           /\ request.object.kind # "garbage"
                           /\ answer.status = "ok"
                      /\ answer.status = "ok" => answer.uid = request.uid /\ answer.uid = Uid
    BY DEF FailsClosed
  <2>1. request \in Requests
    BY DEF IInv, WebhookTypeOK
  <2>2. CASE ReadError # "none"
    BY <2>2 DEF IInv, Justified, ReadError
  <2>3. CASE ReadError = "none"
    <3>1. answer = AnswerTo(Judge(request))
      BY <2>3 DEF IInv, Justified
    <3>2. request.body = "review" /\ request.isJson
      BY <2>3 DEF ReadError
    <3> QED  BY <2>1, <3>1, <3>2, JudgeOutcomes DEF AnswerTo
  <2> QED  BY <2>2, <2>3
<1> QED  BY <1>1, WebhookInvariant, PTL

\* /isolate admits the pods whose networks are all looked up where the pod is:
\* its parser fills in a mark, the controller's the namespace of the pod, and
\* they mean the same pods.
THEOREM IsolateAllowsFollowers == WebhookSpec => []AllowedIffFollowsPod
<1>1. IInv => AllowedIffFollowsPod
  <2> DEFINE a == request.object.annotation
             elsewhere == ParsePodNetworkAnnotation(a, CHOOSE l \in Labels : TRUE)
             parsed == ParsePodNetworkAnnotation(a, LocalMark)
  <2> SUFFICES ASSUME IInv, Review("pod"), a.form # "blank"
               PROVE  answer.allowed <=> /\ elsewhere.outcome = "ok"
                                         /\ \A i \in DOMAIN elsewhere.networks : FollowsPod(a, i)
    BY DEF AllowedIffFollowsPod
  <2>1. /\ a.form \in {"blank", "badJson", "json", "list"}
        /\ request.uid # NoUid /\ request.object.kind = "pod"
    BY RequestShapes, RequestsAssumption DEF IInv, WebhookTypeOK, Review
  <2>2. answer.allowed <=> AnalyzeIsolation(a) = "ok"
    BY <2>1, AllowedIfJudged DEF Review, Judge
  <2>3. /\ elsewhere.outcome = parsed.outcome
        /\ DOMAIN elsewhere.networks = DOMAIN parsed.networks
    BY <2>1, DefaultDoesNotDecide
  <2>4. AnalyzeIsolation(a) = "ok" <=> parsed.outcome = "ok" /\ AllLocal(parsed.networks)
    BY DEF AnalyzeIsolation
  <2>5. parsed.outcome = "ok" =>
          (AllLocal(parsed.networks) <=> \A i \in DOMAIN parsed.networks : FollowsPod(a, i))
    BY <2>1, FollowingNamesNone DEF AllLocal
  <2> QED  BY <2>2, <2>3, <2>4, <2>5
<1> QED  BY <1>1, WebhookInvariant, PTL

\* The decision about a definition is that of ValidateDefinition.
LEMMA DefinitionsAreValidated ==
  ASSUME IInv, Review("definition")
  PROVE  /\ answer.allowed <=> ValidateDefinition(request.object) = "ok"
         /\ request.object.config.form \in {"empty", "notJson", "single", "list", "odd"}
         /\ request.object.config.plugins
              \in Seq(Types \cup {"missing", "odd", "blank", "noObject"})
<1>1. request \in Requests
  BY DEF IInv, WebhookTypeOK
<1>2. request.uid # NoUid /\ request.object.kind = "definition"
  BY <1>1, RequestShapes, RequestsAssumption DEF Review
<1>3. Judge(request) = ValidateDefinition(request.object)
  BY <1>2 DEF Judge
<1> QED  BY <1>1, <1>2, <1>3, AllowedIfJudged, RequestShapes DEF Review

\* /validate admits no configuration with a plugin that has no key type.
THEOREM ValidateWantsTypes == WebhookSpec => []AllowedIsTyped
<1>1. IInv => AllowedIsTyped
  <2> DEFINE c == request.object.config
  <2> SUFFICES ASSUME IInv, Review("definition"), answer.allowed
               PROVE  /\ c.form \in {"empty", "single", "list"}
                      /\ c.form = "single" => c.type # "missing"
                      /\ c.form = "list" => {"missing", "noObject"} \cap Range(c.plugins) = {}
    BY DEF AllowedIsTyped
  <2>1. /\ c.form \in {"empty", "single", "list", "odd"}
        /\ c.form # "empty" => ValidateCNIConfig(c) = "ok"
    BY DefinitionsAreValidated DEF ValidateDefinition
  <2>2. CASE c.form \in {"empty", "single", "odd"}
    BY <2>1, <2>2 DEF ValidateCNIConfig
  <2>3. CASE c.form = "list"
    <3>1. {i \in DOMAIN c.plugins : c.plugins[i] \in {"missing", "noObject"}} = {}
      BY <2>1, <2>3 DEF ValidateCNIConfig
    <3> QED  BY <2>3, <3>1 DEF Range
  <2> QED  BY <2>1, <2>2, <2>3
<1> QED  BY <1>1, WebhookInvariant, PTL

\* What a runtime could use is admitted: the checks of the webhook and the two
\* parsers of libcni let it pass.
THEOREM ValidateAllowsUsable == WebhookSpec => []UsableIsAllowed
<1>1. IInv => UsableIsAllowed
  <2> DEFINE c == request.object.config
  <2> SUFFICES ASSUME IInv, Review("definition"), request.object.validName,
                      \/ /\ c.form = "list" /\ c.name = "text" /\ c.plugins # << >>
                         /\ Range(c.plugins) \subseteq Types
                      \/ c.form = "single" /\ c.type \in Types /\ c.name # "odd"
               PROVE  answer.allowed
    BY DEF UsableIsAllowed
  <2>1. ParsesAsEither(c)
    BY DEF ParsesAsEither, ConfListParses, ConfParses
  <2>2. ValidateCNIConfig(c) = "ok"
    <3>1. CASE c.form = "single"
      BY <3>1, TypesAssumption DEF ValidateCNIConfig
    <3>2. CASE c.form = "list"
      <4>1. {i \in DOMAIN c.plugins : c.plugins[i] \in {"missing", "noObject"}} = {}
        BY <3>2, TypesAssumption DEF Range
      <4> QED  BY <3>2, <4>1 DEF ValidateCNIConfig
    <3> QED  BY <3>1, <3>2
  <2>3. ValidateDefinition(request.object) = "ok"
    BY <2>1, <2>2 DEF ValidateDefinition
  <2> QED  BY <2>3, DefinitionsAreValidated
<1> QED  BY <1>1, WebhookInvariant, PTL

\* Of what is admitted, the controller finds no type in empty configurations and
\* in single plugins with a name only.
THEOREM UncountedAreKnown == WebhookSpec => []UncountedAreNamedSingles
<1>1. IInv => UncountedAreNamedSingles
  <2> DEFINE c == request.object.config
  <2> SUFFICES ASSUME IInv, Review("definition"), answer.allowed,
                      GetConfigTypes(c) = {}, c.form # "empty"
               PROVE  c.form = "single" /\ c.name = "text"
    BY DEF UncountedAreNamedSingles
  <2>1. ParsesAsEither(c) /\ c.plugins \in Seq(Types \cup {"missing", "odd", "blank", "noObject"})
    BY DefinitionsAreValidated DEF ValidateDefinition
  <2>2. ConfListParses(c)
    BY <2>1 DEF ParsesAsEither, GetConfigTypes
  <2>3. c.plugins # << >> => Range(c.plugins) # {}
    <3>1. c.plugins # << >> => c.plugins[1] \in Range(c.plugins)
      BY <2>1 DEF Range
    <3> QED  BY <3>1
  <2> QED  BY <2>2, <2>3 DEF ConfListParses, GetConfigTypes
<1> QED  BY <1>1, WebhookInvariant, PTL

=============================================================================
