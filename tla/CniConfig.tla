----------------------------- MODULE CniConfig ------------------------------
(***************************************************************************)
(* The configuration in a network attachment definition: what libcni and   *)
(* the checks of pkg/webhook accept, and the types pkg/controller finds.   *)
(*                                                                         *)
(* A configuration is a record of its form and of what its keys hold:      *)
(*   form     "empty", "notJson" (no JSON object), or by the key plugins:  *)
(*            "single" without it, "list" if it is an array, "odd" if it   *)
(*            is something else;                                           *)
(*   name     "missing" (or null), "odd" or "text";                        *)
(*   type     "missing", "odd", "blank" or a type;                         *)
(*   plugins  the types of the plugins in a list, "noObject" for one that  *)
(*            is not an object.                                            *)
(* Other keys are taken to be as CNI wants them.                           *)
(***************************************************************************)
EXTENDS Sequences, Integers, FiniteSetsExt, Functions

CONSTANT Types

ASSUME TypesAssumption == {"missing", "odd", "blank", "noObject"} \cap Types = {}

\* libcni.ConfListFromBytes returns no error; a list without the key plugins is
\* one whose plugins are yet to be loaded from files.
ConfListParses(c) ==
  /\ c.name = "text"
  /\ \/ c.form = "single"
     \/ c.form = "list" /\ c.plugins # << >> /\ Range(c.plugins) \subseteq Types

\* libcni.ConfFromBytes returns no error.
ConfParses(c) ==
  /\ c.form \in {"single", "list", "odd"}
  /\ c.name # "odd"
  /\ c.type \in Types

\* getConfigTypes: both are tried, in this order.
GetConfigTypes(c) ==
  IF ConfListParses(c) THEN (IF c.form = "list" THEN Range(c.plugins) ELSE {})
  ELSE IF ConfParses(c) THEN {c.type} ELSE {}

\* Mutant of ValidateCNIConfig: only lists are looked at.
ValidateCNIConfigOfLists(c) ==
  IF c.form = "list" /\ "missing" \in Range(c.plugins) THEN "error" ELSE "ok"

\* validateCNIConfig: every plugin has a key type.  A type assertion panics on a
\* list, or a plugin that comes before the first without the key, of another kind.
ValidateCNIConfig(c) ==
  LET stops == {i \in DOMAIN c.plugins : c.plugins[i] \in {"missing", "noObject"}}
  IN  CASE c.form = "single" -> IF c.type = "missing" THEN "error" ELSE "ok"
        [] c.form = "odd"    -> "panic"
        [] c.form = "list"   -> IF stops = {} THEN "ok"
                                ELSE IF c.plugins[Min(stops)] = "missing" THEN "error"
                                ELSE "panic"

\* Mutant of ParsesAsEither: a configuration has to be a list.
ParsesAsList(c) == ConfListParses(c)

\* Mutant of ParsesAsEither: any error of ConfFromBytes is taken for a warning.
ParsesAnyway(c) == TRUE

ParsesAsEither(c) == ConfListParses(c) \/ ConfParses(c)

\* validateNetworkAttachmentDefinition: "ok" is allowed.  preprocessCNIConfig
\* fills a name in only where decoding fails, which isJSON has ruled out: it
\* leaves every configuration as it is.
ValidateDefinition(d) ==
  LET c == d.config
  IN  IF ~d.validName \/ c.form = "notJson" THEN "error"
      ELSE IF c.form = "empty" THEN "ok"
      ELSE IF ValidateCNIConfig(c) # "ok" THEN ValidateCNIConfig(c)
      ELSE IF ParsesAsEither(c) THEN "ok" ELSE "error"

=============================================================================
