------------------------- MODULE NetworkAnnotation --------------------------
(***************************************************************************)
(* The annotation k8s.v1.cni.cncf.io/networks as pkg/webhook and           *)
(* pkg/controller read it, each with its copy of                           *)
(* parsePodNetworkAnnotation.                                              *)
(*                                                                         *)
(* An annotation is a record of its form, "json" if it has one of [, {, ", *)
(* and its parts:                                                          *)
(*   "blank"    missing or empty;                                          *)
(*   "badJson"  text that does not decode as an array of elements;         *)
(*   "json"     a sequence of elements [null, name, namespace];            *)
(*   "list"     the items between commas, each the sequence of its fields  *)
(*              between slashes, each the sequence of its units between    *)
(*              at signs, without spaces around them.                      *)
(* A unit is a DNS label, or Blank, or Bad, which stands for all that      *)
(* matches no label.                                                       *)
(***************************************************************************)
EXTENDS Sequences, Integers, SequencesExt

CONSTANTS Labels, Blank, Bad,
          LocalMark  \* "_local", namespaceConstraint: no label

ASSUME UnitsAssumption ==
  /\ Blank \notin Labels /\ Bad \notin Labels /\ LocalMark \notin Labels
  /\ Blank # Bad /\ LocalMark \notin {Blank, Bad}
  /\ \E l, m \in Labels : l # m

Failed   == [outcome |-> "error", networks |-> << >>]
Panicked == [outcome |-> "panic", networks |-> << >>]
Parsed(networks) == [outcome |-> "ok", networks |-> networks]

\* A field before a slash is one unit, or has an at sign in it.
NamespaceOf(fields) ==
  IF Len(fields) = 1 THEN Blank
  ELSE IF Len(fields[1]) = 1 THEN fields[1][1] ELSE Bad

\* parsePodNetworkObjectName(item) returns no error: at most one slash, at most
\* one at sign after it, and labels or nothing between.
ObjectNameParses(fields) ==
  /\ Len(fields) <= 2
  /\ Len(Last(fields)) <= 2
  /\ Bad \notin ToSet(Last(fields)) \cup {NamespaceOf(fields)}

ObjectName(fields) == [name |-> Last(fields)[1], namespace |-> NamespaceOf(fields)]

\* A network without a namespace is given the default one.
FillIn(networks, default) ==
  [i \in DOMAIN networks |->
     IF networks[i].namespace = Blank
       THEN [networks[i] EXCEPT !.namespace = default] ELSE networks[i]]

\* Text is not checked in JSON, and a null in it is dereferenced.
ParseJson(elements, default) ==
  IF \E i \in DOMAIN elements : elements[i].null
  THEN Panicked
  ELSE Parsed(FillIn([i \in DOMAIN elements |->
                        [name |-> elements[i].name, namespace |-> elements[i].namespace]],
                     default))

ParseList(items, default) ==
  IF \A i \in DOMAIN items : ObjectNameParses(items[i])
  THEN Parsed(FillIn([i \in DOMAIN items |-> ObjectName(items[i])], default))
  ELSE Failed

ParsePodNetworkAnnotation(a, default) ==
  CASE a.form \in {"blank", "badJson"} -> Failed
    [] a.form = "json" -> ParseJson(a.parts, default)
    [] a.form = "list" -> ParseList(a.parts, default)

=============================================================================
